------------------------------ MODULE Dialogs ------------------------------
(***************************************************************************)
(* The renderer's dialogs: their identity (App.tsx), the feedback, about   *)
(* and donation dialogs and the sending of error reports (Logs.tsx), with  *)
(* what the main process stores or sends for them. A request is a number;  *)
(* a dialog asked for is active at once and rendered later; answers and    *)
(* timers arrive in any order.                                             *)
(***************************************************************************)
EXTENDS Integers, Sequences, FiniteSets, SequencesExt

CONSTANTS MaxRequests,   \* bound: identities begun
          MaxReport      \* size a report may have (MAX_REPORT_BODY_BYTES)

VARIABLE d               \* the window's dialogs, one record

Requests == 1 .. 2 * MaxRequests
Modals   == {"feedback", "about", "donation", "send"}
None     == [modal |-> "none", req |-> 0]
Asks     == [what : {"count", "preview", "send", "save", "github", "about", "copy"}, req : Requests]

\* What a dialog says and the requests it is of: its message, the timer that takes it
\* away, the timer that closes the dialog; an ask it waits for; a success is told.
Blank == [msg |-> 0, timer |-> 0, closer |-> 0, busy |-> FALSE, loading |-> FALSE, good |-> FALSE]

TypeOK ==
  /\ d.req \in 0 .. 2 * MaxRequests /\ d.begun \in 0 .. MaxRequests  \* modalRequestRef
  /\ \A v \in {d.active, d.view} : v = None \/ (v.modal \in Modals /\ v.req \in Requests)
  /\ d.says \in [Modals -> [msg : 0 .. 2 * MaxRequests, timer : 0 .. 2 * MaxRequests,
                            closer : 0 .. 2 * MaxRequests, busy : BOOLEAN, loading : BOOLEAN,
                            good : BOOLEAN]]
  /\ d.asks \subseteq Asks
  /\ d.lines \subseteq Requests /\ d.files \subseteq Requests \* feedback.jsonl, feedback-*.json
  /\ d.kept \subseteq Requests                                \* the support that was really given
  /\ d.vip \subseteq Requests                                 \* and celebrated
  /\ d.log \in Seq(1 .. MaxReport + 1)                       \* the sizes of the entries
  /\ d.sent \in Seq(1 .. MaxReport + 1) /\ d.upto \in Nat    \* the last report, of which log
  /\ d.astray \in BOOLEAN                                     \* a dialog was closed for another
  /\ d.gap \in BOOLEAN                                        \* a request begun before a render

-----------------------------------------------------------------------------
(* Identity *)

More == d.begun < MaxRequests
Begun(q) == [q EXCEPT !.req = @ + 1, !.begun = @ + 1]

\* openModal: for the latest identity only.
Opened(q, m, s) == IF s = q.req THEN [q EXCEPT !.active = [modal |-> m, req |-> s]] ELSE q

\* closeModal: ownership is revoked at once, before the close is rendered.
Closed(q, m, s) ==
  IF q.active # [modal |-> m, req |-> s] \/ q.req # s THEN q
  ELSE [q EXCEPT !.req = @ + 1, !.active = None, !.astray = @ \/ q.active.req # s]

\* A dialog knows its session as it was last rendered.
Owns(q, m, s) == q.view = [modal |-> m, req |-> s]

Current(s) == s = d.req

\* The native menu opens at any time, a button of a page while no dialog covers it.
UserOpens(m) ==
  /\ More /\ m # "send" /\ (m = "donation" => d.view = None)
  /\ d' = Opened(Begun(d), m, d.req + 1)

\* The close button, Escape or the backdrop of what is rendered.
UserCloses == d.view # None /\ d' = Closed(d, d.view.modal, d.view.req)

\* The effect of a session: its timers stopped, its contents made anew when it opens.
Reset(q, m) ==
  IF q.active.modal = m THEN Blank ELSE [q.says[m] EXCEPT !.timer = 0, !.closer = 0]

\* React renders what is active; each dialog whose session changed runs its effect. The
\* sending dialog has none, its contents are the page's.
Renders ==
  /\ d.view # d.active
  /\ LET touched == {d.view.modal, d.active.modal} \cap {"feedback", "about", "donation"}
         s == [d EXCEPT !.view = d.active,
                        !.says = [m \in Modals |-> IF m \in touched THEN Reset(d, m) ELSE @[m]]]
     IN d' = IF d.active.modal = "about"
             THEN [s EXCEPT !.asks = @ \cup {[what |-> "about", req |-> d.active.req]}] ELSE s

-----------------------------------------------------------------------------
(* Answers *)

Without(q, what, s) == [q EXCEPT !.asks = @ \ {[what |-> what, req |-> s]}]
Asked(q, what, s)   == [q EXCEPT !.asks = @ \cup {[what |-> what, req |-> s]}]
Waits(what, s)      == [what |-> what, req |-> s] \in d.asks

\* showToast, showBubble.
Shows(q, m, s, good) ==
  IF Owns(q, m, s) THEN [q EXCEPT !.says[m].msg = s, !.says[m].timer = s, !.says[m].good = good] ELSE q

\* The message's four seconds are over.
MessageFades(m) ==
  /\ d.says[m].timer # 0
  /\ LET s == d.says[m].timer
         q == [d EXCEPT !.says[m].timer = 0]
     IN d' = IF Owns(d, m, s) THEN [q EXCEPT !.says[m].msg = 0, !.says[m].good = FALSE] ELSE q

-----------------------------------------------------------------------------
(* Feedback *)

Saves ==
  /\ d.view.modal = "feedback" /\ ~d.says["feedback"].busy
  /\ d' = [Asked(d, "save", d.view.req) EXCEPT !.says["feedback"].busy = TRUE]

\* saveFeedback: the line, then the file; either failing is a failure told.
Stored(q, s, line, file) ==
  [q EXCEPT !.lines = IF line THEN @ \cup {s} ELSE @, !.files = IF line /\ file THEN @ \cup {s} ELSE @,
            !.says["feedback"].good = line /\ file]

\* The answer; a success closes the dialog after a while.
SaveAnswered(s, line, file) ==
  /\ Waits("save", s)
  /\ LET q    == Stored(Without(d, "save", s), s, line, file)
         good == q.says["feedback"].good
         told == Shows([q EXCEPT !.says["feedback"].good = d.says["feedback"].good], "feedback", s, good)
     IN d' = IF ~Owns(d, "feedback", s) THEN told
             ELSE [told EXCEPT !.says["feedback"].busy = FALSE,
                               !.says["feedback"].closer = IF good THEN s ELSE @]

ClosesAfterSave ==
  /\ d.says["feedback"].closer # 0
  /\ LET s == d.says["feedback"].closer
         q == [d EXCEPT !.says["feedback"].closer = 0]
     IN d' = IF Owns(d, "feedback", s) THEN Closed(q, "feedback", s) ELSE q

\* The issue page; only a refusal is told.
OpensIssue == d.view.modal = "feedback" /\ d' = Asked(d, "github", d.view.req)
IssueAnswered(s, opened) ==
  /\ Waits("github", s)
  /\ d' = IF opened THEN Without(d, "github", s) ELSE Shows(Without(d, "github", s), "feedback", s, FALSE)

-----------------------------------------------------------------------------
(* About and donation *)

\* An answer to an effect that was cleaned up since is dropped.
AboutAnswered(s) ==
  /\ Waits("about", s)
  /\ LET q == Without(d, "about", s)
     IN d' = IF Owns(d, "about", s) THEN [q EXCEPT !.says["about"].msg = s] ELSE q

\* triggerAscension.
Ascends(q, s) == IF Owns(q, "donation", s) THEN Shows([q EXCEPT !.vip = @ \cup {s}], "donation", s, TRUE) ELSE q

Copies == d.view.modal = "donation" /\ d' = Asked(d, "copy", d.view.req)

\* completeCopy, or the failure told.
Copied(q, s, ok) == IF ok THEN Ascends(q, s) ELSE Shows(q, "donation", s, FALSE)
CopyAnswered(s, ok) ==
  /\ Waits("copy", s)
  /\ d' = Copied([Without(d, "copy", s) EXCEPT !.kept = IF ok THEN @ \cup {s} ELSE @], s, ok)

\* A link celebrates at once.
OpensLink ==
  /\ d.view.modal = "donation"
  /\ d' = Ascends([d EXCEPT !.kept = @ \cup {d.view.req}], d.view.req)

-----------------------------------------------------------------------------
(* Error reports *)

AsksToSend ==
  /\ More /\ d.view = None
  /\ d' = [Asked(Begun(d), "count", d.req + 1) EXCEPT !.gap = @ \/ d.active # None]

\* getCount: the dialog opens with nothing shown, and its preview is asked for.
CountAnswered(s, fails) ==
  /\ Waits("count", s)
  /\ LET q == Without(d, "count", s)
     IN d' = IF fails \/ ~Current(s) \/ d.log = <<>> THEN q
             ELSE [Asked(Opened(q, "send", s), "preview", s)
                     EXCEPT !.says["send"] = [Blank EXCEPT !.loading = TRUE]]

PreviewAnswered(s, fails) ==
  /\ Waits("preview", s)
  /\ LET q == Without(d, "preview", s)
     IN d' = IF ~Current(s) THEN q
             ELSE [q EXCEPT !.says["send"].msg = IF fails THEN 0 ELSE s, !.says["send"].loading = FALSE]

Confirms ==
  /\ d.view.modal = "send" /\ ~d.says["send"].busy /\ Current(d.view.req)
  /\ d' = [Asked(d, "send", d.view.req) EXCEPT !.says["send"].busy = TRUE]

Size(errors) == FoldLeft(+, 0, errors)

\* fitReportForWorker: the oldest entry goes while the report is too large.
Fit[errors \in Seq(1 .. MaxReport + 1)] ==
  IF Size(errors) > MaxReport /\ Len(errors) > 1 THEN Fit[Tail(errors)] ELSE errors
Fitted(errors) == Fit[errors]

SendAnswered(s, ok) ==
  /\ Waits("send", s)
  /\ LET q == [Without(d, "send", s) EXCEPT !.sent = Fitted(d.log), !.upto = Len(d.log)]
     IN d' = CASE ~Current(s) -> q
               [] Current(s) /\ ok -> Closed(q, "send", s)
               [] OTHER -> [q EXCEPT !.says["send"].busy = FALSE]

-----------------------------------------------------------------------------

\* No errors; the oldest too much for a report; one that alone is too large.
Logs == {<<>>, <<MaxReport, 1, 1>>, <<MaxReport + 1>>}

Init ==
  \E log \in Logs : d = [req |-> 0, begun |-> 0, active |-> None, view |-> None, says |-> [m \in Modals |-> Blank],
       asks |-> {}, lines |-> {}, files |-> {}, kept |-> {}, vip |-> {}, log |-> log, sent |-> <<>>, upto |-> 0,
       astray |-> FALSE, gap |-> FALSE]

Next ==
  \/ (\E m \in Modals : UserOpens(m) \/ MessageFades(m)) \/ UserCloses \/ Renders
  \/ Saves \/ ClosesAfterSave \/ OpensIssue \/ Copies \/ OpensLink
  \/ AsksToSend \/ Confirms
  \/ \E s \in Requests, b \in BOOLEAN :
       \/ (\E line \in BOOLEAN : SaveAnswered(s, line, b))
       \/ IssueAnswered(s, b) \/ AboutAnswered(s) \/ CopyAnswered(s, b)
       \/ CountAnswered(s, b) \/ PreviewAnswered(s, b) \/ SendAnswered(s, b)

Spec == Init /\ [][Next]_d

-----------------------------------------------------------------------------
(* Properties *)

\* Nothing a rendered dialog says comes from an earlier session of it, and it waits only
\* for an answer that is on its way.
ShownIsOwn ==
  d.view # None =>
    LET c == d.says[d.view.modal]
    IN /\ d.view = d.active => c.msg \in {0, d.view.req}
       /\ c.busy /\ d.view.modal = "feedback" => Waits("save", d.view.req)
       /\ c.busy /\ d.view.modal = "send" /\ d.view = d.active => Waits("send", d.view.req)
       /\ c.loading /\ d.view = d.active /\ ~d.gap => Waits("preview", d.view.req)

\* No answer and no timer of one session closes another.
NewerStays == ~d.astray

\* What is rendered and was not yet closed can be closed, unless a request was begun
\* between a dialog's opening and its rendering.
CanBeClosed == d.view # None /\ d.view = d.active /\ ~d.gap => d.view.req = d.req

\* A success told is a success: feedback is in both files, a celebration follows support.
SuccessIsTrue ==
  /\ d.says["feedback"].good /\ d.view.modal = "feedback" =>
       d.view.req \in d.lines \cap d.files
  /\ d.vip \subseteq d.kept

DialogsAreHonest == ShownIsOwn /\ NewerStays /\ CanBeClosed /\ SuccessIsTrue

\* A report is the longest run of the newest entries that fits, one entry at least.
ReportIsNewest ==
  LET n == Len(d.sent)
      Newest(k) == SubSeq(d.log, d.upto - k + 1, d.upto)
  IN n > 0 => /\ d.sent = Newest(n)
              /\ Size(d.sent) <= MaxReport \/ n = 1
              /\ n < d.upto => Size(Newest(n + 1)) > MaxReport
=============================================================================

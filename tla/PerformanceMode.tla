---------------------------- MODULE PerformanceMode ----------------------------
(***************************************************************************)
(* The profile of timeouts and attempts of a request                       *)
(* (src/gateway/performance-mode.mjs): chosen in config.json, by hand or   *)
(* left to the outcomes of the last requests, read anew when the file's    *)
(* time or size changed.  Window, MinSamples, Confirmations, MinCompleted  *)
(* and MaxFirstByte are the code's 20, 10, 3, 16 and 4, made small.        *)
(***************************************************************************)
EXTENDS Integers, Sequences, FiniteSets, SequencesExt

CONSTANTS Window, MinSamples, Confirmations, MinCompleted, MaxFirstByte

VARIABLE f              \* the resolver and its file, one record

Outcomes == {"completed", "first_byte_timeout", "idle_timeout"}

\* What config.json may say: a mode, perhaps with one of its own for the model and a wait
\* for its first byte; or nothing that can be read.
Corrupt == [mode |-> "corrupt", model |-> "none"]
Written == {[mode |-> "day", model |-> "none"], [mode |-> "auto", model |-> "none"],
            [mode |-> "auto", model |-> "night"], Corrupt}
Default == [mode |-> "day", model |-> "none"]

TypeOK ==
  /\ f.window \in UNION {[1 .. n -> Outcomes] : n \in 0 .. Window}
  /\ f.effective \in {"day", "night"} /\ f.pending \in {"none", "day", "night"}
  /\ f.agreed \in 0 .. Confirmations /\ {f.newer, f.dwelt} \subseteq BOOLEAN
  /\ f.file \in Written /\ f.known \in Written \ {Corrupt}
  /\ {f.there, f.read, f.current, f.missed} \subseteq BOOLEAN
  /\ f.served \in [mode : {"none", "day", "night"}, model : {"none", "night"}]
  /\ f.asked \subseteq 1 .. Window + 1          \* history: see Resolves
  /\ f.hasty \in BOOLEAN                        \* history: the mode changed too soon

-----------------------------------------------------------------------------
(* Evidence *)

Count(S) == Cardinality({i \in DOMAIN f.window : f.window[i] \in S})
Pressure == Count({"first_byte_timeout", "idle_timeout"})

\* An outcome is a sample; the oldest gives way.
Observes(outcome) ==
  f' = [f EXCEPT !.window = IF Len(@) < Window THEN Append(@, outcome) ELSE Append(Tail(@), outcome),
                 !.newer = TRUE, !.served.mode = "none"]

\* By day, a clean record changes to night; by night, pressure changes back.
Decided ==
  LET n == Len(f.window)
  IN CASE n < MinSamples -> f.effective
       [] n >= MinSamples /\ f.effective = "day" ->
            IF Count({"completed"}) >= MinCompleted /\ 100 * Pressure <= 15 * n THEN "night" ELSE "day"
       [] OTHER ->
            IF Count({"first_byte_timeout"}) >= MaxFirstByte \/ 100 * Pressure >= 40 * n
            THEN "day" ELSE "night"

-----------------------------------------------------------------------------
(* The file *)

\* The file's contents, or the defaults when they cannot be read.
Config(q) == [q EXCEPT !.known = IF q.file.mode = "corrupt" THEN Default ELSE q.file]

\* A file that is not there leaves what was known; one with the time and size of the last
\* reading is not read again.
Look(q) ==
  IF ~q.there \/ (q.read /\ q.current) THEN q
  ELSE [Config(q) EXCEPT !.read = TRUE, !.current = TRUE, !.missed = FALSE]

\* Somebody writes the file; a write of the same size within the file system's tick is not
\* seen; the file disappears while it is replaced.
Writes(content, seen) ==
  f' = [f EXCEPT !.file = content, !.there = TRUE, !.current = @ /\ ~seen, !.served.mode = "none",
                 !.missed = IF seen THEN FALSE ELSE @ \/ (f.read /\ f.current)]
Vanishes == f.there /\ f' = [f EXCEPT !.there = FALSE, !.file = Corrupt, !.served.mode = "none"]

-----------------------------------------------------------------------------
(* A request resolves its profile *)

\* Agreement with the candidate counts once per change of the window.
Agreement(q, decided) ==
  IF decided # q.pending THEN 1 ELSE IF q.newer THEN q.agreed + 1 ELSE q.agreed

\* The automatic mode changes after enough evaluations in a row agreed, each on new
\* evidence, and not soon after its last change.
Auto(q) ==
  IF Decided = q.effective THEN [q EXCEPT !.pending = "none", !.agreed = 0, !.asked = {}]
  ELSE LET n == Agreement(q, Decided)
           r == [q EXCEPT !.pending = Decided, !.agreed = n, !.newer = FALSE,
                          \* one mark for each evaluation on a window of its own
                          !.asked = IF Decided # q.pending THEN {1}
                                    ELSE IF q.newer THEN @ \cup {Cardinality(@) + 1} ELSE @]
       IN IF n >= Confirmations /\ q.dwelt
          THEN [r EXCEPT !.effective = Decided, !.dwelt = FALSE, !.pending = "none", !.agreed = 0,
                         !.hasty = Cardinality(r.asked) < Confirmations, !.asked = {}]
          ELSE [r EXCEPT !.agreed = IF @ > Confirmations THEN Confirmations ELSE @,
                         !.asked = @ \cap 1 .. Confirmations]

\* The model's own mode overrides the global one.
Served(q) ==
  [mode  |-> IF q.known.model # "none" THEN q.known.model
             ELSE IF q.known.mode = "auto" THEN q.effective ELSE "day",
   model |-> q.known.model]

Resolves ==
  LET q == Look(f)
      r == IF q.known.mode = "auto" THEN Auto(q) ELSE q
  IN f' = [r EXCEPT !.served = Served(r)]

\* Ten minutes since the last change.
Dwells == ~f.dwelt /\ f' = [f EXCEPT !.dwelt = TRUE]

-----------------------------------------------------------------------------

Init ==
  \E content \in Written :
    f = [window |-> <<>>, effective |-> "day", pending |-> "none", agreed |-> 0, newer |-> FALSE,
         dwelt |-> TRUE, file |-> content, known |-> Default, there |-> TRUE, read |-> FALSE,
         current |-> FALSE, missed |-> FALSE, served |-> [mode |-> "none", model |-> "none"],
         asked |-> {}, hasty |-> FALSE]

Next ==
  \/ (\E outcome \in Outcomes : Observes(outcome)) \/ Resolves \/ Dwells \/ Vanishes
  \/ (\E content \in Written, seen \in BOOLEAN : Writes(content, seen))

Spec == Init /\ [][Next]_f

-----------------------------------------------------------------------------
(* Properties *)

\* The automatic mode changes only on evidence that held for several changes of the window.
ChangesAreConfirmed == ~f.hasty

\* What a request got is what the file says, unless the file is gone or was rewritten
\* within a tick; a file that cannot be read means the defaults.
ProfileIsTheFiles ==
  f.served.mode # "none" /\ f.there /\ ~f.missed =>
    LET said == IF f.file.mode = "corrupt" THEN Default ELSE f.file
    IN f.served.mode = (IF said.model # "none" THEN said.model
                        ELSE IF said.mode = "auto" THEN f.effective ELSE "day")

ModeIsSteady == ChangesAreConfirmed /\ ProfileIsTheFiles
=============================================================================

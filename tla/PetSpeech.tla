----------------------------- MODULE PetSpeech -----------------------------
(***************************************************************************)
(* The pet's one speaking channel (PetWidget.tsx createSpeakingChannel)    *)
(* and what speaks through it: the cue of a return, the thoughts of an     *)
(* activity, the event tips, and the random tips with their rounds         *)
(* (createRandomTipScheduler, offerRandomTip, tips.ts). The channel's host *)
(* is called back in the middle of the channel's own steps.                *)
(***************************************************************************)
EXTENDS Naturals, FiniteSets

CONSTANTS MaxTips,     \* bound: event tips that occur
          MaxRandom    \* RANDOM_TIPS_PER_SESSION, 8 in the code

VARIABLE s             \* the channel, its host and the tip rounds, one record

Kinds == {"event", "cue", "random", "thought"}
None  == [kind |-> "none", id |-> 0, stale |-> FALSE]
Item(kind, id) == [kind |-> kind, id |-> id, stale |-> FALSE]
Items == [kind : Kinds, id : 0 .. MaxTips, stale : BOOLEAN]

TypeOK ==
  /\ s.cur \in Items \cup {None}
  /\ s.queue \subseteq Items /\ Cardinality(s.queue) <= 2      \* SPEAK_QUEUE_MAX
  /\ \A f \in {"timer", "gap", "paused",          \* heldRemaining # null
               "visible", "fit", "page", "alive", \* document; focus and main; pageVisible; tipAliveRef
               "enabled", "busy", "tick", "fetching", "pending"} : s[f] \in BOOLEAN
  /\ s.up \subseteq Kinds                         \* what is on the screen
  /\ s.tip \in 0 .. MaxTips /\ s.tips \in 0 .. MaxTips   \* selected, the last occurrence
  /\ s.shown \in 0 .. MaxRandom /\ s.seen \in 0 .. MaxRandom

Priority == [event |-> 0, cue |-> 1, random |-> 2, thought |-> 3]
Head(queue) == CHOOSE i \in queue : \A j \in queue : Priority[i.kind] <= Priority[j.kind]
Last(queue) == CHOOSE i \in queue : \A j \in queue : Priority[i.kind] >= Priority[j.kind]
Of(kind, queue) == {i \in queue : i.kind = kind}

-----------------------------------------------------------------------------
(* The rounds of random tips, and what the host does when an item goes *)

RoundDone(q) == [q EXCEPT !.busy = FALSE, !.tick = q.alive]


Dropped(q, item) == IF item.kind = "random" THEN RoundDone(q) ELSE q

\* hide(): a random tip that was not read goes back; one a hide cleared keeps
\* its round open for the return.
Gone(q, item, reason, read) ==
  LET off == [q EXCEPT !.up = @ \ {item.kind}]
      counted == reason \notin {"preempt", "clear"} /\ read
      told == IF counted THEN [off EXCEPT !.seen = @ + 1] ELSE [off EXCEPT !.shown = @ - 1]
  IN  IF item.kind # "random" THEN off
      ELSE IF reason = "clear" THEN [told EXCEPT !.pending = TRUE]
      ELSE RoundDone(told)

-----------------------------------------------------------------------------
(* createSpeakingChannel *)

Display(q, item) ==
  [q EXCEPT !.cur = item, !.paused = FALSE, !.timer = item.kind # "event",
            !.up = @ \cup {item.kind}, !.shown = IF item.kind = "random" THEN @ + 1 ELSE @]

DropKind(q, kind) ==
  LET out == [q EXCEPT !.queue = @ \ Of(kind, @)]
  IN  IF Of(kind, q.queue) = {} THEN q ELSE Dropped(out, Item(kind, 0))


Enqueue(q, item) ==
  LET in   == [DropKind(q, item.kind) EXCEPT !.queue = @ \cup {item}]
      last == Last(in.queue)
  IN  IF Cardinality(in.queue) <= 2 THEN in
      ELSE Dropped([in EXCEPT !.queue = @ \ {last}], last)

ScheduleNext(q) == [q EXCEPT !.gap = @ \/ q.queue # {}]


Preempts(item, visible) ==
  IF item.kind = visible.kind THEN item.kind # "random"
  ELSE /\ ~(item.kind = "event" /\ visible.kind = "cue")
       /\ Priority[item.kind] < Priority[visible.kind]


Request(q, item, read) ==
  IF q.cur = None /\ ~q.gap THEN Display(q, item)
  ELSE IF q.cur # None /\ Preempts(item, q.cur)
    THEN Display(Gone([q EXCEPT !.cur = None, !.timer = FALSE], q.cur, "preempt", read), item)
  ELSE LET in == Enqueue(q, item) IN IF q.cur = None THEN ScheduleNext(in) ELSE in

\* The gap is armed before the host hides the item: the thought that follows a
\* cue then waits behind a queued event tip.
Finish(q, reason, read) ==
  LET free == ScheduleNext([q EXCEPT !.cur = None, !.timer = FALSE, !.paused = FALSE])
      gone == Gone(free, q.cur, reason, read)
  IN  IF q.cur = None THEN q
      ELSE IF q.cur.kind = "cue" /\ reason = "timeout" THEN Request(gone, Item("thought", 0), read)
      ELSE gone

End(q, kind, read) == IF q.cur.kind = kind THEN Finish(q, "end", read) ELSE DropKind(q, kind)


Clear(q) ==
  LET still   == [q EXCEPT !.timer = FALSE, !.gap = FALSE, !.paused = FALSE, !.queue = {}, !.cur = None]
      dropped == IF Of("random", q.queue) = {} THEN still ELSE RoundDone(still)
  IN  IF q.cur = None THEN dropped ELSE Gone(dropped, q.cur, "clear", FALSE)

\* The visible time is over.
TimerFires == s.timer /\ \E read \in BOOLEAN : s' = Finish([s EXCEPT !.timer = FALSE], "timeout", read)

\* next(): queued items whose time has passed are dropped unseen.
GapFires ==
  /\ s.gap
  /\ LET open  == [s EXCEPT !.gap = FALSE]
         stale == {i \in s.queue : i.stale /\ \A j \in s.queue : Priority[j.kind] < Priority[i.kind] => j.stale}
         left  == s.queue \ stale
         shed  == [(IF Of("random", stale) = {} THEN open ELSE RoundDone(open)) EXCEPT !.queue = left]
     IN  s' = IF s.cur # None THEN open
              ELSE IF left = {} THEN shed
              ELSE Display([shed EXCEPT !.queue = @ \ {Head(left)}], Head(left))

\* The pointer or the focus is over the card, or leaves it.
Holds ==
  /\ s.cur \notin {None} /\ s.cur.kind # "event"
  /\ \/ s.timer /\ s' = [s EXCEPT !.timer = FALSE, !.paused = TRUE]
     \/ s.paused /\ s' = [s EXCEPT !.timer = TRUE, !.paused = FALSE]

\* A random tip waited 60 s in the queue.
Ages == \E i \in s.queue :
  /\ i.kind = "random" /\ ~i.stale
  /\ s' = [s EXCEPT !.queue = (@ \ {i}) \cup {[i EXCEPT !.stale = TRUE]}]

-----------------------------------------------------------------------------
(* Who speaks *)

\* React has rendered what the window last said, and run the effects.
Flushed == s.page = s.visible /\ s.alive = (s.visible /\ s.fit)

\* handleActivityChange: a queued thought is stale, and a new one is asked for
\* unless a cue is visible (or the dice of a timer's switch say no).
ActivityChanges(speaks) ==
  LET old == {[i EXCEPT !.stale = @ \/ i.kind = "thought"] : i \in s.queue}
      now == [s EXCEPT !.queue = old]
  IN  s' = IF speaks /\ s.cur.kind # "cue" THEN Request(now, Item("thought", 0), FALSE) ELSE now

\* handleCue, on a return of the attention.
Cues == s.visible /\ \E read \in BOOLEAN : s' = Request(s, Item("cue", 0), read)

\* The effect of the selected event tip.
Offered(q, read) ==
  IF q.tip = 0 THEN End(q, "event", read)
  ELSE IF ~q.page \/ q.cur = Item("event", q.tip) THEN q
  ELSE Request(q, Item("event", q.tip), read)

\* An event tip occurs, another takes its place, or it is dismissed or over.
TipChanges ==
  Flushed /\ \E read \in BOOLEAN :
    \/ s.enabled /\ s.tips < MaxTips /\ s' = Offered([s EXCEPT !.tips = @ + 1, !.tip = s.tips + 1], read)
    \/ s.tip # 0 /\ s' = Offered([s EXCEPT !.tip = 0], read)

\* check(): too early, off, or a round begins.
Checked(q) ==
  IF ~q.alive \/ q.busy THEN {[q EXCEPT !.tick = FALSE]}
  ELSE {[q EXCEPT !.tick = TRUE]} \cup
       IF q.enabled /\ q.shown < MaxRandom THEN {[q EXCEPT !.tick = FALSE, !.busy = TRUE, !.fetching = TRUE]}
       ELSE {[q EXCEPT !.tick = FALSE]}

Ticks == s.tick /\ s' \in Checked(s)

\* offerRandomTip after its queries, for a new round and for a return.
Fetched ==
  /\ s.fetching
  /\ LET here == [s EXCEPT !.fetching = FALSE]
     IN  IF ~s.alive THEN s' = [here EXCEPT !.pending = TRUE]
         ELSE \/ s' = RoundDone(here)
              \/ s.enabled /\ s.shown < MaxRandom /\ s' = Request(here, Item("random", 0), FALSE)
BugReoffered(q) == [q EXCEPT !.pending = FALSE, !.fetching = q.enabled /\ q.shown < MaxRandom]


Reoffered(q) ==
  IF q.shown >= MaxRandom \/ ~q.enabled THEN RoundDone([q EXCEPT !.pending = FALSE])
  ELSE [q EXCEPT !.pending = FALSE, !.fetching = TRUE]

\* The user closes the random tip, or acts on it.
ClosesTip == s.cur.kind = "random" /\ s' = End(s, "random", TRUE)

\* The tips switch in the settings; with the tips off there is no event tip.
Switches ==
  Flushed /\ \E read \in BOOLEAN :
    IF s.enabled
      THEN s' \in Checked(End(Offered([s EXCEPT !.enabled = FALSE, !.tip = 0], read), "random", read))
      ELSE s' \in Checked([s EXCEPT !.enabled = TRUE])

-----------------------------------------------------------------------------
(* The window, and the effects that follow it *)

\* visibilitychange: a hide clears the channel at once.
Hides == s.visible /\ Flushed /\ s' = [Clear(s) EXCEPT !.visible = FALSE]
Shows == ~s.visible /\ Flushed /\ s' = [s EXCEPT !.visible = TRUE]

\* Focus, or the main process's view of the window.
Turns == Flushed /\ s' = [s EXCEPT !.fit = ~@]

\* React's effects: the event tip first, then the clock of the random ones.
Renders ==
  /\ ~Flushed
  /\ LET page  == [s EXCEPT !.page = s.visible]
         tip   == IF s.page = s.visible THEN page ELSE Offered(page, FALSE)
         alive == s.visible /\ s.fit
         clock == [tip EXCEPT !.alive = alive]
         again == IF alive /\ clock.pending THEN Reoffered(clock) ELSE clock
     IN  s' \in IF alive = s.alive THEN {tip}
                ELSE IF alive THEN Checked(again) ELSE {[clock EXCEPT !.tick = FALSE]}

Init == \E visible \in BOOLEAN :
  s = [cur |-> None, queue |-> {}, timer |-> FALSE, gap |-> FALSE, paused |-> FALSE,
       visible |-> visible, fit |-> TRUE, page |-> visible, alive |-> FALSE,
       enabled |-> TRUE, busy |-> FALSE, tick |-> FALSE, fetching |-> FALSE, pending |-> FALSE,
       up |-> {}, tip |-> 0, tips |-> 0, shown |-> 0, seen |-> 0]

Next ==
  \/ TimerFires \/ GapFires \/ Holds \/ Ages \/ Cues \/ TipChanges \/ Ticks \/ Fetched \/ ClosesTip
  \/ (\E speaks \in BOOLEAN : ActivityChanges(speaks))
  \/ Switches \/ Hides \/ Shows \/ Turns \/ Renders

Spec == Init /\ [][Next]_s

-----------------------------------------------------------------------------
(* Properties *)

\* What is on the screen is the channel's current item and nothing else: no
\* step, however nested, leaves two speakers or a dead one.
OneVoice == s.up = IF s.cur = None THEN {} ELSE {s.cur.kind}

\* Nothing is forgotten: a queue with nobody speaking has its gap running, and
\* every item but an event tip has its end in sight.
NothingForgotten ==
  /\ s.cur = None /\ s.queue # {} => s.gap
  /\ s.cur # None => ~s.gap /\ (s.cur.kind = "event" \/ s.timer # s.paused)
  /\ s.timer => s.cur # None

\* In a shown window a valid event tip speaks or waits, and one that is over does not.
EventIsHeard ==
  LET there == {i \in {s.cur} \cup s.queue : i.kind = "event"}
  IN  Flushed => there = IF s.visible /\ s.tip # 0 THEN {Item("event", s.tip)} ELSE {}

\* A round of random tips is open exactly while something will close it, and
\* between rounds the cadence goes on.
RoundsClose ==
  /\ Cardinality({x \in {"fetching", "pending"} : s[x]}) + Cardinality(Of("random", {s.cur} \cup s.queue))
       = IF s.busy THEN 1 ELSE 0
  /\ s.alive /\ ~s.busy /\ s.enabled /\ s.shown < MaxRandom => s.tick

\* The session's cap counts the tips that were seen and the one on the screen.
CapIsHonest == s.shown = s.seen + Cardinality(Of("random", {s.cur}))

PetSpeaks == OneVoice /\ NothingForgotten /\ EventIsHeard /\ RoundsClose /\ CapIsHonest
=============================================================================

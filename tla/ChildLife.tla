------------------------------ MODULE ChildLife ------------------------------
(***************************************************************************)
(* The life of the gateway child's process (src/gateway/server.mjs): two   *)
(* listeners, the state that arrives over the channel, readiness, and the  *)
(* three ends: a graceful stop, a refused start, a fatal error.  What the  *)
(* child holds back for later sits in three sinks: the projection of the   *)
(* keys, sent over the channel (rotation.mjs), the file of the routing     *)
(* memory (model-key-affinity.mjs) and the log (logger.mjs).               *)
(*                                                                         *)
(* Both listeners answer before any message of the channel is read: their  *)
(* callbacks are ticks of the first turn, which is the initial state here. *)
(***************************************************************************)
EXTENDS Integers

CONSTANT MaxWork       \* bound: changes the child makes to what it must save

VARIABLE c             \* the process, one record

Sinks == {"keys", "routing", "log"}

TypeOK ==
  /\ {c.http, c.admin, c.tokens, c.ready, c.channel} \subseteq BOOLEAN
  /\ c.stopping \in BOOLEAN
  /\ c.ending \in {"no", "startup", "fatal"}       \* the timer of an exit runs
  /\ c.exit \in {"no", "drained", "startup", "fatal"}
  /\ c.unsaved \subseteq Sinks /\ c.timers \subseteq Sinks
  /\ c.mutation \in {"none", "pending", "rejected"} /\ c.deferred \in BOOLEAN
  /\ c.work \in 0 .. MaxWork
  /\ c.suppressed \in 0 .. 1                       \* batches the log lost, capped
  /\ c.held \in BOOLEAN                            \* history: a mutation was pending at the stop
  /\ c.late \in BOOLEAN                            \* history: changed after the stop, or the parent vanished

Up == c.exit = "no"

-----------------------------------------------------------------------------
(* Saving *)

\* saveState: behind a pending durable mutation a save is put off; without a channel it
\* is skipped.
SaveKeys(s) ==
  CASE s.mutation = "pending" -> [s EXCEPT !.deferred = TRUE]
    [] s.mutation # "pending" /\ s.channel -> [s EXCEPT !.unsaved = @ \ {"keys"}]
    [] OTHER -> s

\* persistAffinity: the queued change counts as written whatever came of the write.
SaveRouting(s) == [s EXCEPT !.unsaved = @ \ {"routing"}]

\* flushLogs: a batch that cannot be appended is dropped and counted; the next one that
\* can be says how many were.
SaveLog(s, works) ==
  IF "log" \notin s.unsaved THEN s
  ELSE [s EXCEPT !.unsaved = @ \ {"log"}, !.suppressed = IF works THEN 0 ELSE 1]

Save(s, sink, works) ==
  LET t == [s EXCEPT !.timers = @ \ {sink}]
  IN CASE sink = "keys" -> SaveKeys(t)
       [] sink = "routing" -> IF "routing" \in t.unsaved THEN SaveRouting(t) ELSE t
       [] sink = "log" -> SaveLog(t, works)

\* markKeyUsedAndDebounceSave, schedulePersistAffinity, log: the change waits for the one
\* timer of its sink.
Changes(s, sinks) == [s EXCEPT !.unsaved = @ \cup sinks, !.timers = @ \cup sinks]

\* A request's outcome: a success marks its key and pins its model, a verdict saves at once.
Serves(kind) ==
  /\ Up /\ c.ready /\ c.ending # "startup" /\ c.work < MaxWork
  /\ LET s == [c EXCEPT !.work = @ + 1, !.late = @ \/ c.stopping]
     IN c' = CASE kind = "success" -> Changes(s, Sinks)
               [] kind = "limited" -> Changes(s, {"routing", "log"})
               [] kind = "verdict" -> SaveKeys(Changes([s EXCEPT !.unsaved = @ \cup {"keys"}],
                                                       {"log"}))

TimerFires(sink, works) ==
  /\ Up /\ sink \in c.timers
  /\ c' = Save(c, sink, works)

\* A durable mutation of the administration: sent with its revision, or refused when the
\* channel is gone.
Mutates ==
  /\ Up /\ c.ready /\ c.admin /\ ~c.stopping /\ c.mutation = "none" /\ c.work < MaxWork
  /\ c' = [c EXCEPT !.work = @ + 1, !.mutation = "pending"]

\* It settles: acknowledged, late, refused or rejected by the disconnect. What was put
\* off is sent now, unless there is no channel any more. A failure is logged.
Settles(acknowledged) ==
  /\ Up /\ c.mutation # "none" /\ (acknowledged => c.mutation = "pending" /\ c.channel)
  /\ LET s == [c EXCEPT !.mutation = "none", !.deferred = FALSE]
         t == IF acknowledged THEN s ELSE Changes(s, {"log"})
     IN c' = IF c.deferred \/ ~acknowledged THEN SaveKeys(t) ELSE t

-----------------------------------------------------------------------------
(* Readiness *)

\* Both servers listen.
Serving(s) == s.http /\ s.admin

\* state:init with the challenge of this child. Two listeners hear it: the first takes the
\* state, the second decides on readiness; a message with another challenge is heard by
\* the second alone.
Initialised(genuine) ==
  /\ Up /\ c.channel
  /\ genuine => ~c.tokens                          \* the parent sends it once
  /\ LET s == [c EXCEPT !.tokens = @ \/ genuine]
     IN c' = [s EXCEPT !.ready = s.tokens /\ Serving(s)]

-----------------------------------------------------------------------------
(* The ends *)

\* A mutant: the channel is closed before the state is flushed.
BugFlushed(s, works) ==
  Save(Save(Save([s EXCEPT !.channel = FALSE], "keys", works), "routing", works), "log", works)

\* flushState (the keys, then the routing memory whatever came of it), then flushLogs.
Flushed(s, works) == Save(Save(Save(s, "keys", works), "routing", works), "log", works)

\* shutdown: the parent's message, its disappearance or a signal; only the first counts.
\* The channel's end rejects the pending mutation.
Stops(parentGone, works) ==
  /\ Up /\ (parentGone => c.channel)
  /\ LET s == [c EXCEPT !.channel = IF parentGone THEN FALSE ELSE @]
         t == [Flushed(s, works) EXCEPT !.stopping = TRUE, !.http = FALSE, !.admin = FALSE,
                                        !.channel = FALSE, !.held = s.mutation = "pending"]
         u == IF c.stopping THEN s ELSE t
     IN c' = [u EXCEPT !.mutation = IF @ = "pending" THEN "rejected" ELSE @,
                       !.late = @ \/ (parentGone /\ "keys" \in c.unsaved)]

\* The event loop is empty: nothing listens, and no timer that holds the process runs.
\* The timer of the routing memory does not hold it.
Drains ==
  /\ Up /\ c.stopping /\ c.ending = "no" /\ c.timers \subseteq {"routing"} /\ c.mutation = "none"
  /\ c' = [c EXCEPT !.exit = "drained"]

\* uncaughtException, unhandledRejection: the log is flushed, the keys are not.
Breaks(works) ==
  /\ Up /\ c.ending # "fatal"
  /\ c' = [SaveLog([c EXCEPT !.unsaved = @ \cup {"log"}, !.timers = @ \ {"log"}], works)
             EXCEPT !.ending = "fatal"]

Exits == Up /\ c.ending # "no" /\ c' = [c EXCEPT !.exit = c.ending]

-----------------------------------------------------------------------------

\* Both ports, or none: a taken one closes what is open, and the process ends in 3 s.
Init ==
  \E bound \in BOOLEAN :
    c = [http |-> bound, admin |-> bound, tokens |-> FALSE, ready |-> FALSE,
         channel |-> TRUE, stopping |-> FALSE, ending |-> IF bound THEN "no" ELSE "startup",
         exit |-> "no", unsaved |-> {"log"}, timers |-> {"log"},
         mutation |-> "none", deferred |-> FALSE, work |-> 0, suppressed |-> 0,
         held |-> FALSE, late |-> FALSE]

Next ==
  \/ \E kind \in {"success", "limited", "verdict"} : Serves(kind)
  \/ \E sink \in Sinks, works \in BOOLEAN : TimerFires(sink, works)
  \/ Mutates \/ (\E acknowledged \in BOOLEAN : Settles(acknowledged))
  \/ (\E genuine \in BOOLEAN : Initialised(genuine))
  \/ (\E parentGone, works \in BOOLEAN : Stops(parentGone, works))
  \/ Drains \/ (\E works \in BOOLEAN : Breaks(works)) \/ Exits

Spec == Init /\ [][Next]_c

\* Timers fire, a mutation settles (its own timer if nothing else), the process exits.
Progress ==
  \/ (\E sink \in Sinks, works \in BOOLEAN : TimerFires(sink, works))
  \/ (\E acknowledged \in BOOLEAN : Settles(acknowledged)) \/ Drains \/ Exits
FairSpec == Spec /\ WF_c(Progress)

-----------------------------------------------------------------------------
(* Properties *)

\* A child that could not bind both its ports never says that it is ready, whenever the
\* state and stray messages arrive.
NoHalfStart == c.ending = "startup" => ~c.ready

\* A graceful stop hands over what the child held back: the keys went out before the
\* channel closed, unless a durable mutation was pending, and the routing memory and the
\* log were written. A vanished parent and later changes have no channel.
StopFlushes ==
  c.stopping /\ ~c.late => /\ "routing" \notin c.unsaved
                           /\ "keys" \in c.unsaved => c.held

\* Nothing that waits to be saved is without its timer while the child runs.
SaveIsPending ==
  Up /\ ~c.stopping /\ c.channel =>
    \A sink \in c.unsaved : sink \in c.timers \/ (sink = "keys" /\ c.deferred)

ChildKeepsItsWord == NoHalfStart /\ StopFlushes /\ SaveIsPending
=============================================================================

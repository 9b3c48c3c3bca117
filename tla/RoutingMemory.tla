---------------------------- MODULE RoutingMemory ----------------------------
(***************************************************************************)
(* The routing memory of the gateway child and its file                    *)
(* (src/gateway/model-key-affinity.mjs).  Pins and cooldowns are two       *)
(* tables treated alike: entries with the time they were made, bounded in  *)
(* number, loaded at the first access, written behind a timer, flushed at  *)
(* a stop.  KeyPool has what the entries mean; here is what becomes of     *)
(* them: the clock may be set back, a write may fail, the child may die.   *)
(***************************************************************************)
EXTENDS Integers, FiniteSets

CONSTANTS Names,         \* models, or pairs of a model and a key
          MaxTracked,    \* MAX_TRACKED_MODELS, MAX_TRACKED_COOLDOWNS
          TTL,
          MaxTime, MaxEvents    \* bounds

VARIABLE v               \* the child and its file, one record

None   == -1
Empty  == [n \in Names |-> None]
Tables == [Names -> None .. MaxTime]

TypeOK ==
  /\ v.at \in Tables                                \* the memory: when each entry was made
  /\ v.file \in [is : {"absent", "broken", "whole"}, at : Tables]
  /\ v.now \in 0 .. MaxTime
  /\ {v.up, v.loaded, v.pending, v.timer} \subseteq BOOLEAN
  /\ v.removing \subseteq Names /\ v.away \in Tables    \* a removal under way, what it took
  /\ v.events \in 0 .. MaxEvents     \* records, removals, failed writes, starts, steps back
  /\ v.failed \in BOOLEAN                           \* history: the last write failed
  /\ v.stepped \in BOOLEAN                          \* history: the clock went back
  /\ v.pruned \subseteq Names                       \* history: dropped at the start
  /\ v.evicted \in Tables                           \* history: when what was evicted was made

Present(at) == {n \in Names : at[n] # None}
Expired(s, n) == s.at[n] # None /\ s.now - s.at[n] > TTL

-----------------------------------------------------------------------------
(* The file *)

OnDisk(s) == IF s.file.is = "whole" THEN s.file.at ELSE Empty

\* ensureLoaded: a file that is absent or cannot be read leaves the memory empty.
Loaded(s) ==
  IF s.loaded THEN s
  ELSE [s EXCEPT !.loaded = TRUE, !.at = OnDisk(s)]

\* persistAffinity: a temporary file takes the old one's place, or nothing happens; the
\* change counts as written either way.
Persisted(s, works) ==
  [s EXCEPT !.pending = FALSE, !.failed = ~works, !.events = IF works THEN @ ELSE @ + 1, !.file = IF works THEN [is |-> "whole", at |-> s.at] ELSE @]

\* schedulePersistAffinity: one timer for all the changes that come before it fires.
Scheduled(s) == [s EXCEPT !.pending = TRUE, !.timer = TRUE]

TimerFires(works) ==
  /\ v.up /\ v.timer /\ (works \/ v.events < MaxEvents)
  /\ v' = IF v.pending THEN Persisted([v EXCEPT !.timer = FALSE], works) ELSE [v EXCEPT !.timer = FALSE]

\* flushAffinity, the last thing a graceful stop does to the memory.
Stops(works) ==
  /\ v.up /\ (works \/ v.events < MaxEvents)
  /\ LET s == [v EXCEPT !.timer = FALSE, !.up = FALSE]
     IN v' = IF v.pending THEN Persisted(s, works) ELSE s

\* The process dies: what was queued is lost, a write that had begun leaves the old file.
Dies ==
  v.up /\ v' = [v EXCEPT !.up = FALSE, !.timer = FALSE, !.pending = FALSE, !.loaded = FALSE, !.at = Empty]

-----------------------------------------------------------------------------
(* The tables *)

\* pruneExpired, at the start: entries from the future count from now on.
Pruned(s) ==
  LET seen == [s EXCEPT !.at = [n \in Names |-> IF s.at[n] > s.now THEN s.now ELSE s.at[n]]]
      old  == {n \in Names : Expired(seen, n)}
  IN [seen EXCEPT !.at = [n \in Names |-> IF n \in old THEN None ELSE @[n]], !.pruned = old]

Starts ==
  /\ ~v.up /\ v.events < MaxEvents
  /\ v' = Pruned(Loaded([v EXCEPT !.up = TRUE, !.loaded = FALSE, !.at = Empty, !.events = @ + 1,
                                  !.pending = FALSE, !.removing = {}, !.away = Empty, !.evicted = Empty]))

\* evictOldest: what is beyond the bound, the oldest entries first; of entries of one age
\* the one inserted last stays.
Evictable(s, name, new) ==
  {D \in SUBSET Present(s.at) :
     /\ Cardinality(D) = Cardinality(Present(s.at)) - MaxTracked
     /\ \A d \in D, n \in Present(s.at) \ D :
          s.at[d] < s.at[n] \/ (s.at[d] = s.at[n] /\ ~(d = name /\ new))}

\* recordAssignment, markRateLimited.
Records(name) ==
  /\ v.up /\ v.events < MaxEvents
  /\ LET l == Loaded(v)
         s == [l EXCEPT !.at[name] = v.now, !.evicted[name] = None, !.events = @ + 1,
                        !.pruned = @ \ {name}]
     IN IF Cardinality(Present(s.at)) <= MaxTracked THEN v' = Scheduled(s)
        ELSE \E D \in Evictable(s, name, l.at[name] = None) :
               v' = Scheduled([s EXCEPT !.at = [n \in Names |-> IF n \in D THEN None ELSE @[n]],
                                        !.evicted = [n \in Names |-> IF n \in D THEN s.at[n] ELSE @[n]]])

\* getAssignedKeyId, isRateLimited, liveHolders: looking at an entry from the future moves
\* it to the present.
Reads(name) ==
  /\ v.up
  /\ LET s == Loaded(v)
     IN v' = [s EXCEPT !.at[name] = IF @ > v.now THEN v.now ELSE @]

\* removeKeyReferences takes the entries of a key out at once; the write is scheduled when
\* the removal is settled, and an undone removal puts them back over whatever is there.
Removes(S) ==
  /\ v.up /\ v.events < MaxEvents /\ v.loaded /\ v.removing = {} /\ S # {} /\ S \subseteq Present(v.at)
  /\ v' = [v EXCEPT !.removing = S, !.events = @ + 1, !.away = [n \in Names |-> IF n \in S THEN v.at[n] ELSE None],
                    !.at = [n \in Names |-> IF n \in S THEN None ELSE @[n]]]

RemovalSettles(ok) ==
  /\ v.up /\ v.removing # {}
  /\ LET s == [v EXCEPT !.removing = {}, !.away = Empty]
     IN v' = Scheduled(IF ok THEN s
                       ELSE [s EXCEPT !.at = [n \in Names |-> IF n \in v.removing THEN v.away[n] ELSE @[n]],
                                      !.evicted = Empty, !.pruned = @ \ v.removing])

-----------------------------------------------------------------------------
(* Time *)

Tick     == v.now < MaxTime /\ v' = [v EXCEPT !.now = @ + 1]
StepBack ==
  /\ v.now > 0 /\ v.events < MaxEvents
  /\ v' = [v EXCEPT !.now = 0, !.stepped = TRUE, !.events = @ + 1]

Init ==
  \E is \in {"absent", "broken"} :
    v = [at |-> Empty, file |-> [is |-> is, at |-> Empty], now |-> 0, up |-> TRUE, loaded |-> FALSE, pending |-> FALSE,
       timer |-> FALSE, removing |-> {}, away |-> Empty, events |-> 0, failed |-> FALSE,
       stepped |-> FALSE, pruned |-> {}, evicted |-> Empty]

Next ==
  \/ (\E works \in BOOLEAN : TimerFires(works) \/ Stops(works))
  \/ (\E name \in Names : Records(name) \/ Reads(name))
  \/ (\E S \in SUBSET Names : Removes(S))
  \/ (\E ok \in BOOLEAN : RemovalSettles(ok))
  \/ Dies \/ Starts \/ Tick \/ StepBack

Spec == Init /\ [][Next]_v

-----------------------------------------------------------------------------
(* Properties *)

\* A queued change has a timer.
QueueIsArmed == v.up /\ v.pending => v.timer

\* What is not queued is on disk, whole: after every quiet moment and after a graceful
\* stop the file is the memory, but for the age of what was read since a step back and
\* for what the start dropped.
SavedOrQueued ==
  v.loaded /\ ~v.pending /\ ~v.failed /\ v.removing = {} =>
    \A n \in Names : IF v.at[n] = None THEN OnDisk(v)[n] = None \/ n \in v.pruned
                     ELSE OnDisk(v)[n] >= v.at[n]

\* While the clock runs forward the bound costs the oldest entries, never a fresher one.
OldestLeaves ==
  v.up /\ ~v.stepped => \A n \in Names, o \in Present(v.at) : v.evicted[n] <= v.at[o]

MemoryIsKept == QueueIsArmed /\ SavedOrQueued /\ OldestLeaves
=============================================================================

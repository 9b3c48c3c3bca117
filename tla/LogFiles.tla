------------------------------ MODULE LogFiles ------------------------------
(***************************************************************************)
(* The rotating logs: errors.log (error-reporter.ts), app.jsonl            *)
(* (app-logger.ts) and gateway.jsonl (logger.mjs). Each has an active file *)
(* and Gens older generations; a file another program holds open can be    *)
(* neither removed nor renamed nor replaced. A record is the number of its *)
(* entry, or -n for the notice that n entries are missing.                 *)
(***************************************************************************)
EXTENDS Integers, Sequences, FiniteSets, SequencesExt

CONSTANTS Cap,          \* records that fill the active file (5 MB)
          Gens,         \* generations kept (three)
          MaxEntries,   \* bound: entries logged
          MaxTrouble    \* bound: holds, releases, removals and restarts

VARIABLE r              \* one log, its files and its ghosts, one record

Absent == [recs |-> <<>>, prot |-> "none"]
Files  == 0 .. Gens     \* 0 is the active file

TypeOK ==
  /\ r.kind \in {"errors", "app", "gateway"}
  /\ \A i \in Files : r.file[i].prot \in {"none", "given", "refused", "never"}
  /\ \A i \in Files : \A k \in DOMAIN r.file[i].recs : r.file[i].recs[k] \in -MaxEntries .. MaxEntries
  /\ r.held \subseteq Files /\ r.trouble \in 0 .. MaxTrouble
  /\ r.next \in 1 .. MaxEntries + 1
  /\ r.stopping \in BOOLEAN /\ r.dropped \in 0 .. MaxEntries  \* suppressingAppends, suppressedCount
  /\ r.buffer \in Nat                                         \* logBuffer, of the gateway's log
  /\ r.told \in Nat /\ r.lost \in Nat                         \* written or named by a notice; neither
  /\ r.expired \in 0 .. MaxEntries /\ r.swept \in 0 .. MaxEntries /\ r.stuck \in BOOLEAN
  /\ r.extra \in Nat                                          \* launches while the log was over its cap

-----------------------------------------------------------------------------
(* Files *)

\* A new or moved file is protected, or the protection throws. The gateway protects none.
Protected(q, recs, ok) ==
  [recs |-> recs, prot |-> IF q.kind = "gateway" THEN "never" ELSE IF ok THEN "given" ELSE "refused"]

Move(q, i, ok) ==
  IF q.file[i - 1] = Absent \/ {i - 1, i} \cap q.held # {} THEN q
  ELSE [q EXCEPT !.file[i] = Protected(q, q.file[i - 1].recs, ok), !.file[i - 1] = Absent]

\* Highest generation first.
Order == [i \in 1 .. Gens |-> Gens + 1 - i]

\* The active file that is not there is made and protected before it is written to.
Recreated(q, ok) == IF q.file[0] = Absent THEN [q EXCEPT !.file[0] = Protected(q, <<>>, ok)] ELSE q

\* rotateIfNeeded: the oldest goes, the others move up, whatever of it fails.
Full(q) == Len(q.file[0].recs) >= Cap
Rotated(q, ok) ==
  LET dropped == IF Gens \in q.held THEN q ELSE [q EXCEPT !.file[Gens] = Absent]
      moved   == FoldLeft(LAMBDA s, i : Move(s, i, ok), dropped, Order)
  IN Recreated(IF Full(q) THEN moved ELSE q, ok)

Append1(q, n) == [q EXCEPT !.file[0].recs = Append(@, n)]

-----------------------------------------------------------------------------
(* errors.log *)

Notice(q, wrote) ==
  IF wrote /\ q.dropped > 0
  THEN [Append1(q, -q.dropped) EXCEPT !.told = @ + q.dropped, !.dropped = 0]
  ELSE q

Entry(q, n, wrote) ==
  IF wrote THEN [Append1(q, n) EXCEPT !.told = @ + 1] ELSE [q EXCEPT !.lost = @ + 1]

\* The first entry that meets the obstruction is written; the others are counted.
Obstructed(q, n, wrote) ==
  IF q.stopping THEN [q EXCEPT !.dropped = @ + 1]
  ELSE Entry([q EXCEPT !.stopping = TRUE], n, wrote)

\* appendEntry.
LogsError(protects, notes, writes) ==
  /\ r.kind = "errors" /\ r.next <= MaxEntries
  /\ LET q == [Rotated(r, protects) EXCEPT !.next = @ + 1]
     IN r' = IF Full(q) THEN Obstructed(q, r.next, writes)
             ELSE Entry(Notice([q EXCEPT !.stopping = FALSE], notes), r.next, writes)

\* expireFile: what is older than the retention goes; an emptied generation goes with it.
Fresh(q, i) == SelectSeq(q.file[i].recs, LAMBDA n : n < 0 \/ n > q.expired)
Expired(q, i) ==
  LET fresh == Fresh(q, i) IN
  IF fresh = q.file[i].recs THEN q
  ELSE CASE i \in q.held -> [q EXCEPT !.stuck = TRUE]
         [] i \notin q.held /\ fresh = <<>> /\ i # 0 -> [q EXCEPT !.file[i] = Absent]
         [] OTHER -> [q EXCEPT !.file[i].recs = fresh]

\* cleanupOldErrors.
Cleanup(q) ==
  [FoldLeft(Expired, [q EXCEPT !.stuck = FALSE], [i \in 1 .. Gens + 1 |-> i - 1])
     EXCEPT !.swept = q.expired]

-----------------------------------------------------------------------------
(* app.jsonl and gateway.jsonl: a file that cannot be rotated grows *)

LogsEvent(protects, writes) ==
  /\ r.kind = "app" /\ r.next <= MaxEntries
  /\ r' = Entry([Rotated(r, protects) EXCEPT !.next = @ + 1], r.next, writes)

\* log and flushLogs: entries are buffered and written together; a batch that cannot be
\* written is counted, and told before the next one that can.
LogsLater ==
  /\ r.kind = "gateway" /\ r.next <= MaxEntries
  /\ r' = [r EXCEPT !.buffer = @ + 1, !.next = @ + 1]

BatchLost(q) == [q EXCEPT !.dropped = @ + q.buffer, !.buffer = 0]

Flushes(writes) ==
  /\ r.kind = "gateway" /\ r.buffer > 0
  /\ LET q     == Rotated(r, TRUE)
         batch == [k \in 1 .. r.buffer |-> r.next - r.buffer + k - 1]
         told  == Notice(q, TRUE)
     IN r' = IF ~writes THEN BatchLost(q)
             ELSE [told EXCEPT !.file[0].recs = @ \o batch, !.told = @ + r.buffer, !.buffer = 0]

-----------------------------------------------------------------------------
(* The process and the others *)

Trouble == r.trouble < MaxTrouble

Holds(S) == Trouble /\ S # r.held /\ r' = [r EXCEPT !.held = S, !.trouble = @ + 1]

Removed == Trouble /\ r.held = {} /\ r' = [r EXCEPT !.file[0] = Absent, !.trouble = @ + 1]

Ages == r.expired < r.next - 1 /\ r.expired = 0 /\ r' = [r EXCEPT !.expired = r.next - 1]

\* A process ends, with what it has not written, and another one starts: init,
\* initAppLogger and the child's logger.
Restarts(protects) ==
  /\ Trouble
  /\ LET q == [r EXCEPT !.lost = @ + r.dropped + r.buffer, !.dropped = 0, !.buffer = 0,
                        !.stopping = FALSE, !.trouble = @ + 1,
                        !.extra = IF Full(r) THEN @ + 1 ELSE @]
         s == IF q.kind = "gateway" THEN q
              ELSE [q EXCEPT !.file[0] = Protected(q, @.recs, protects)]
     IN r' = IF q.kind = "errors" THEN Cleanup(s) ELSE s

-----------------------------------------------------------------------------

Init ==
  \E kind \in {"errors", "app", "gateway"} :
    r = [kind |-> kind, held |-> {}, trouble |-> 0, next |-> 1, stopping |-> FALSE, dropped |-> 0,
         buffer |-> 0, told |-> 0, lost |-> 0, expired |-> 0, swept |-> 0,
         stuck |-> FALSE, extra |-> 0,
         file |-> [i \in Files |-> IF i > 0 THEN Absent
                                   ELSE [recs |-> <<>>, prot |-> IF kind = "gateway" THEN "never"
                                                                 ELSE "given"]]]

Next ==
  \/ (\E protects, notes, writes \in BOOLEAN : LogsError(protects, notes, writes))
  \/ (\E protects, writes \in BOOLEAN : LogsEvent(protects, writes))
  \/ LogsLater \/ (\E writes \in BOOLEAN : Flushes(writes))
  \/ (\E S \in {{}, {0}, {Gens}, Files} : Holds(S)) \/ Removed \/ Ages
  \/ (\E protects \in BOOLEAN : Restarts(protects))

Spec == Init /\ [][Next]_r

-----------------------------------------------------------------------------
(* Properties *)

\* However rotation is obstructed and released, errors.log passes its cap by the notice,
\* the entry that follows it and the first one that met the obstruction, and by one more
\* for each process that started over the cap.
ErrorsAreBounded == r.kind = "errors" => Len(r.file[0].recs) <= Cap + 2 + r.extra

\* Every entry was written, is named by a notice that was written, is still to be told,
\* or its own write failed: a gap of a running process is never forgotten.
GapsAreTold ==
  r.kind # "app" => r.told + r.dropped + r.buffer + r.lost = r.next - 1

\* No file of the application's logs came to be without an attempt to protect it.
NothingIsBare == r.kind # "gateway" => \A i \in Files : r.file[i].prot # "never"

\* The generations are in order, and while nobody interfered they hold the last entries
\* without a hole, no fewer than the generations have room for.
History == FlattenSeq([i \in 1 .. Gens + 1 |-> SelectSeq(r.file[Gens + 1 - i].recs, LAMBDA n : n > 0)])
HistoryIsOrdered ==
  /\ \A i, k \in DOMAIN History : i < k => History[i] < History[k]
  /\ r.trouble = 0 /\ r.lost = 0 /\ r.dropped = 0 /\ History # <<>>
       /\ (\A i \in Files, k \in 1 .. Cap + 2 : k \in DOMAIN r.file[i].recs => r.file[i].recs[k] > 0) =>
       /\ Len(History) = r.next - r.buffer - History[1]
       /\ Len(History) >= Min({r.next - 1 - r.buffer, Gens * Cap})

\* What a sweep found expired is in no file, rotated ones included, unless one was held.
ExpiredAreGone ==
  r.kind = "errors" /\ ~r.stuck => \A k \in DOMAIN History : History[k] > r.swept

LogsAreHonest == ErrorsAreBounded /\ GapsAreTold /\ NothingIsBare /\ HistoryIsOrdered /\ ExpiredAreGone
=============================================================================

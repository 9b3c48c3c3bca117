---------------------------- MODULE MigrationLock ----------------------------
(***************************************************************************)
(* The lock that serialises explicit migrations of several application     *)
(* processes (src/main/legacy-migration-exclusion.ts): a directory made    *)
(* with mkdir, an owner record inside it that the owner's heartbeat keeps  *)
(* fresh, and a claim file, created exclusively, that serialises the       *)
(* takeover of a lock whose owner is gone.                                 *)
(*                                                                         *)
(* One process's functions run without interruption inside that process,   *)
(* but the processes share the file system: every file operation another   *)
(* process could see is a step. A live owner's record and a live           *)
(* claimant's claim are never older than the ten minutes after which they  *)
(* are stale: the heartbeat runs and the claim lives for milliseconds. A   *)
(* directory without a record grows old only while nobody is at work in    *)
(* it.                                                                     *)
(***************************************************************************)
EXTENDS Integers, FiniteSets

CONSTANTS Procs   \* processes, each asked to migrate at most once

VARIABLES l       \* the lock directory and the processes, one record

Nobody == "nobody"   Dead == "dead"   Attempts == 3
Names  == Procs \cup {Nobody, Dead}

\* Where a process stands in acquireLegacyMigrationExclusionLock and release.
Places == {"start", "mkdir", "look", "record", "claim", "clear", "reclaim", "judge", "take", "clean",
           "holds", "leave", "refused", "done", "dead"}
AtWork == {"mkdir", "look", "record", "claim", "clear", "reclaim", "judge", "take", "clean", "holds",
           "leave"}

TypeOK ==
  /\ l.dir \in BOOLEAN /\ l.owner \in Names /\ l.claim \in Names /\ l.old \in BOOLEAN
  /\ l.pc \in [Procs -> Places]
  /\ l.id \in 0 .. Cardinality(Procs)    \* which directory this is: its inode
  /\ l.judged \in [Procs -> Names \X (0 .. Cardinality(Procs))]   \* what a verdict was about
  /\ l.tries \in [Procs -> 0 .. Attempts]
  /\ l.robbed \subseteq Procs            \* history: living processes whose claim a rival removed
  /\ l.owner # Nobody \/ l.claim # Nobody => l.dir

Alive(p) == p \in Procs /\ l.pc[p] \notin {"dead"}
Go(p, to) == [l EXCEPT !.pc[p] = to]

\* A reclaimer removes the claim file by its name, whoever's claim is in it by now.
Robbed(p)     == IF Alive(l.claim) /\ l.claim # p THEN l.robbed \cup {l.claim} ELSE l.robbed
Unclaim(p, s) == [s EXCEPT !.claim = Nobody, !.robbed = Robbed(p)]

-----------------------------------------------------------------------------
(* Acquisition *)

\* mkdir creates the directory, or the loop gives up after three attempts.
Mkdir(p) ==
  /\ l.pc[p] = "mkdir"
  /\ l' = IF l.tries[p] = Attempts THEN Go(p, "refused")
          ELSE IF l.dir THEN [l EXCEPT !.pc[p] = "look", !.tries[p] = @ + 1]
          ELSE [Go(p, "record") EXCEPT !.dir = TRUE, !.old = FALSE, !.id = @ + 1, !.tries[p] = @ + 1]

\* observeLock: the owner's process is gone, or nobody wrote a record for ten minutes.
Stale == IF l.owner = Nobody THEN l.old ELSE ~Alive(l.owner)

\* A verdict's signature: the record's owner, if any, and the directory.
Signature == <<l.owner, l.id>>

Look(p) ==
  /\ l.pc[p] = "look"
  /\ l' = CASE ~l.dir  -> Go(p, "mkdir")
            [] l.dir /\ Stale  -> [Go(p, "claim") EXCEPT !.judged[p] = Signature]
            [] l.dir /\ ~Stale -> Go(p, "refused")

\* The first record of a new directory.
Record(p) ==
  /\ l.pc[p] = "record"
  /\ l' = IF l.dir THEN [Go(p, "holds") EXCEPT !.owner = p] ELSE Go(p, "refused")

-----------------------------------------------------------------------------
(* reclaimStaleLock *)

\* A claim whose process is gone is stale.
ClaimIsStale == l.claim # Nobody /\ ~Alive(l.claim)

\* The exclusive creation of the claim. Where one exists and is stale, it is removed
\* and the creation tried once more.
Claim(p) ==
  /\ l.pc[p] = "claim"
  /\ l' = CASE ~l.dir -> Go(p, "mkdir")
            [] l.dir /\ l.claim = Nobody -> [Go(p, "judge") EXCEPT !.claim = p]
            [] l.dir /\ l.claim # Nobody ->
                 Go(p, IF ClaimIsStale THEN "clear" ELSE "refused")

\* The removal names the file, not the claim that was judged.
Clear(p) ==
  /\ l.pc[p] = "clear"
  /\ l' = IF l.claim = Nobody THEN Go(p, "refused")
          ELSE Unclaim(p, Go(p, "reclaim"))

Reclaim(p) ==
  /\ l.pc[p] = "reclaim"
  /\ l' = CASE ~l.dir -> Go(p, "mkdir")
            [] l.dir /\ l.claim = Nobody -> [Go(p, "judge") EXCEPT !.claim = p]
            [] l.dir /\ l.claim # Nobody -> Go(p, "refused")

\* A mutant: the verdict is not confirmed under the claim.
BugStillStale(p) == l.dir

\* stillStaleLock: the signature is the one the verdict was about.
StillStale(p) == l.dir /\ Signature = l.judged[p]

\* The lock is judged once more under the claim; else the claim is given back.
Judge(p) ==
  /\ l.pc[p] = "judge"
  /\ l' = IF StillStale(p) THEN Go(p, "take")
          ELSE Unclaim(p, Go(p, IF l.dir THEN "refused" ELSE "mkdir"))

Take(p)  == l.pc[p] = "take"
            /\ l' = IF l.dir THEN [Go(p, "clean") EXCEPT !.owner = p, !.old = FALSE]
                    ELSE Unclaim(p, Go(p, "refused"))
Clean(p) == l.pc[p] = "clean" /\ l' = Unclaim(p, Go(p, "holds"))

-----------------------------------------------------------------------------
(* Release, and what happens to processes *)

\* release touches the directory only while the record names its own process.
Release(p) ==
  /\ l.pc[p] = "holds"
  /\ l' = IF l.owner = p THEN [Go(p, "leave") EXCEPT !.owner = Nobody, !.old = FALSE]
          ELSE Go(p, "done")

\* A mutant: the release forgets the claim file.
BugLeave(p) ==
  l.pc[p] = "leave" /\ l' = [Go(p, "done") EXCEPT !.dir = l.owner # Nobody]

\* The claim file, if any, and the directory; rmdir fails if a record came meanwhile.
Leave(p) ==
  /\ l.pc[p] = "leave"
  /\ l' = [Go(p, "done") EXCEPT !.claim = Nobody, !.dir = l.owner # Nobody]

Begin(p) == l.pc[p] = "start" /\ l' = Go(p, "mkdir")

Dies(p) == l.pc[p] \in AtWork /\ l' = Go(p, "dead")

\* Ten minutes pass over a directory without a record in which nobody is at work.
GrowsOld ==
  /\ l.dir /\ l.owner = Nobody /\ ~l.old
  /\ \A p \in Procs : l.pc[p] \notin AtWork
  /\ l' = [l EXCEPT !.old = TRUE]

\* No lock, or what a migration that died left: a record or none, a claim or none.
Init ==
  \E dir \in BOOLEAN, owner, claim \in {Nobody, Dead} :
    /\ dir \/ (owner = Nobody /\ claim = Nobody)
    /\ l = [dir |-> dir, owner |-> owner, claim |-> claim, old |-> dir, id |-> 0,
            pc |-> [p \in Procs |-> "start"], judged |-> [p \in Procs |-> <<p, 0>>],
            tries |-> [p \in Procs |-> 0], robbed |-> {}]

Next == GrowsOld \/ \E p \in Procs :
          Begin(p) \/ Mkdir(p) \/ Look(p) \/ Record(p) \/ Claim(p) \/ Clear(p) \/ Reclaim(p)
            \/ Judge(p) \/ Take(p) \/ Clean(p) \/ Release(p) \/ Leave(p) \/ Dies(p)

Spec == Init /\ [][Next]_l

-----------------------------------------------------------------------------
(* Properties *)

Holders == {p \in Procs : l.pc[p] \in {"holds", "clean"}}

\* Two migrations never run at once, whoever dies where, unless a reclaimer removed the
\* claim of a living one (it removes the file by name, long after it judged what was in
\* it) or a verdict was about a directory without a record: an old one looks the same
\* while its new owner is releasing it.
MigrationsExclude ==
  /\ l.robbed = {}
  /\ \A p \in Procs : l.judged[p][1] # Nobody
  => \A p, q \in Holders : p = q
=============================================================================

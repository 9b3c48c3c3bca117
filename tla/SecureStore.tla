----------------------------- MODULE SecureStore -----------------------------
(***************************************************************************)
(* The encrypted state file (src/main/secure-state.ts). A save writes two  *)
(* verified temporaries and renames them over the primary and then over    *)
(* the recovery file; where Windows refuses to rename over an open file,   *)
(* the destination is first moved aside to a .replace.bak buffer. A start  *)
(* sweeps the buffers whose destination loads and takes its state from the *)
(* primary, the recovery file, or the newest backup that loads, in this    *)
(* order, and writes it back.                                              *)
(*                                                                         *)
(* The process may die between any two file operations. States are         *)
(* numbered in the order they were first saved; 0 is the empty state. A    *)
(* temporary has a random name no start looks for, so it is not a file     *)
(* here: what matters is whether its rename happened.                      *)
(***************************************************************************)
EXTENDS Integers, FiniteSets

CONSTANTS
  MaxSaves,    \* bound: states saved
  MaxWrites,   \* bound: writes, those that restore a state at a start included
  MaxDamage    \* bound: files damaged by something else

VARIABLES s    \* the files and the process, one record

Primary == "keys.json"   Recovery == "keys.json.encrypted.bak"
Slots == {Primary, Recovery}
None  == [v |-> -1, t |-> 0, kind |-> "none"]
\* A file: the state in it, its mtime (the count of writes), encrypted or not.
File(v, t) == [v |-> v, t |-> t, kind |-> "encrypted"]
Contents == [v : 0 .. MaxSaves, t : 0 .. MaxWrites, kind : {"encrypted", "plain", "damaged"}]

\* tryLoadState: a file loads when it decrypts, or parses, to a state.
Loads(f) == f.kind \in {"encrypted", "plain"}

TypeOK ==
  /\ s.file \in [Slots -> Contents \cup {None}]
  /\ s.moved \subseteq [of : Slots, is : Contents]
  /\ s.old \in Contents \cup {None}
  /\ s.pc \in {"down", "up", "failed", "replace", "swap", "verify"} /\ s.at \in Slots
  /\ s.task \in {"init", "save", "restore"} /\ s.goal \in 0 .. MaxSaves
  /\ s.mem \in -1 .. MaxSaves /\ s.acked \in 0 .. MaxSaves
  /\ s.saves \in 0 .. MaxSaves /\ s.writes \in 0 .. MaxWrites /\ s.damage \in 0 .. MaxDamage
  /\ s.backup \in Contents \cup {None}

-----------------------------------------------------------------------------
(* persist and replaceFile *)

\* A save begins: both temporaries are written, synced and read back before any
\* file is replaced.
Persist(t, v, task) ==
  /\ t.writes < MaxWrites
  /\ s' = [t EXCEPT !.pc = "replace", !.at = Primary, !.task = task, !.goal = v,
                    !.writes = @ + 1]

Save == s.pc = "up" /\ s.saves < MaxSaves
        /\ Persist([s EXCEPT !.saves = @ + 1], s.saves + 1, "save")

\* The operation throws. A failed start ends the application; after a failed save it
\* goes on from the state it had.
Throw(t) == [t EXCEPT !.pc = IF t.task = "init" THEN "failed" ELSE "up"]

\* Encryption, a temporary, or the check of a rename's result fails.
Fails ==
  /\ s.pc \in {"replace", "verify"}
  /\ s' = Throw(s)

\* replaceFile's first rename succeeds; or it is refused and the destination is
\* moved aside.
Replace ==
  /\ s.pc = "replace"
  /\ \/ s' = [s EXCEPT !.file[s.at] = File(s.goal, s.writes), !.pc = "verify"]
     \/ /\ s.file[s.at] # None
        /\ s' = [s EXCEPT !.moved = @ \cup {[of |-> s.at, is |-> s.file[s.at]]},
                          !.file[s.at] = None, !.pc = "swap"]

\* The second rename: it lands, and the buffer is removed unless something holds it
\* open; or it fails, and the buffer is moved back, which may fail as well.
Swap ==
  /\ s.pc = "swap"
  /\ \E b \in s.moved :
       /\ b.of = s.at /\ \A c \in s.moved : c.of = s.at => c.is.t <= b.is.t
       /\ \/ \E kept \in BOOLEAN :
               s' = [s EXCEPT !.file[s.at] = File(s.goal, s.writes), !.pc = "verify",
                              !.moved = IF kept THEN @ ELSE @ \ {b}]
          \/ s' = Throw([s EXCEPT !.file[s.at] = b.is, !.moved = @ \ {b}])
          \/ s' = Throw(s)

\* restoreVersionedBackup replaces the primary alone.
LastFile == s.at = Recovery \/ s.task = "restore"

\* The replaced file has been protected and read back.
Verified ==
  /\ s.pc = "verify"
  /\ s' = IF ~LastFile THEN [s EXCEPT !.pc = "replace", !.at = Recovery]
          ELSE [s EXCEPT !.pc = "up", !.mem = s.goal,
                         !.acked = IF s.task = "save" THEN s.goal ELSE @]

\* createVersionedBackup and restoreVersionedBackup, for the migration workflow.
Backup  == s.pc = "up" /\ s.file[Primary].kind = "encrypted" /\ s.backup = None
           /\ s.writes < MaxWrites
           /\ s' = [s EXCEPT !.backup = [s.file[Primary] EXCEPT !.t = s.writes + 1],
                             !.writes = @ + 1]
\* A restore gives up the states saved since the backup.
Restore == s.pc = "up" /\ s.backup # None
           /\ Persist([s EXCEPT !.acked = IF s.backup.v < @ THEN s.backup.v ELSE @],
                      s.backup.v, "restore")

-----------------------------------------------------------------------------
(* initialize *)

\* sweepReplaceBackups: a buffer is residue once its destination loads.
Residue(b) == Loads(s.file[b.of])

\* A removal may be refused, so any part of the residue may stay.
Sweep(kept) ==
  [s EXCEPT !.moved = {b \in @ : Residue(b) => b \in kept}]

\* The backups a start falls back to, and the newest of those that load.
Backups(t) == {b.is : b \in t.moved} \cup {t.old, t.backup}
Newest(t)  == CHOOSE f \in {g \in Backups(t) : Loads(g)} :
                \A g \in Backups(t) : Loads(g) => g.t <= f.t

\* The start goes on with the state it found, writing it first if it came from a
\* backup or was not encrypted. The old application's backup goes once a state is
\* found, unless it is damaged while the primary loads.
Take(t, f, write) ==
  LET u == [t EXCEPT !.old = IF @.kind = "damaged" /\ f = t.file[Primary] THEN @ ELSE None]
  IN IF write
     THEN Persist(u, f.v, "init")
     ELSE s' = [u EXCEPT !.pc = "up", !.mem = f.v]

Start ==
  /\ s.pc \in {"down", "failed"}
  /\ \E kept \in SUBSET s.moved :
       LET t == Sweep(kept)  p == t.file[Primary]  r == t.file[Recovery] IN
       \/ Loads(p) /\ Take(t, p, p.kind = "plain")
       \/ ~Loads(p) /\ Loads(r) /\ Take(t, r, TRUE)
       \/ /\ ~Loads(p) /\ ~Loads(r)
          /\ IF \E g \in Backups(t) : Loads(g)
             THEN Take(t, Newest(t), TRUE)
             ELSE Take(t, File(0, 0), TRUE)

-----------------------------------------------------------------------------
(* What happens to the process and to its files *)

Crash == s.pc # "down" /\ s' = [s EXCEPT !.pc = "down", !.mem = -1]

Damage(f) ==
  /\ s.damage < MaxDamage /\ s.file[f] # None /\ Loads(s.file[f])
  /\ s' = [s EXCEPT !.file[f].kind = "damaged", !.damage = @ + 1]

\* A first start, or the plain file (and backup) of the application's first versions.
Init ==
  \E p, o \in {None, [v |-> 0, t |-> 0, kind |-> "plain"]} :
    s = [file |-> [f \in Slots |-> IF f = Primary THEN p ELSE None],
         moved |-> {}, old |-> o, pc |-> "down", at |-> Primary, task |-> "init", goal |-> 0,
         mem |-> -1, acked |-> 0, saves |-> 0, writes |-> 0, damage |-> 0,
         backup |-> None]

Next == \/ Save \/ Fails \/ Backup \/ Restore \/ Start \/ Crash
        \/ Replace \/ Swap \/ Verified \/ \E f \in Slots : Damage(f)

Spec == Init /\ [][Next]_s

-----------------------------------------------------------------------------
(* Properties *)

\* A state whose save returned survives: whatever dies between two file operations,
\* whatever Windows refuses, and with one of the two files damaged by something else,
\* a start that succeeds has this state or a later one.
SavedSurvives == s.pc = "up" => s.mem >= s.acked
=============================================================================

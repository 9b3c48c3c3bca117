--------------------------- MODULE MCDesktop_proofs ---------------------------
(***************************************************************************)
(* What the run "desktop" checks on a small instance, for every value of   *)
(* the constants: the migration lock, the state file, the quit paths and   *)
(* the surfaces, the migration, the configuration. Each machine has an     *)
(* inductive invariant of its own; a behaviour of MCDesktop belongs to one *)
(* of them. The renderer's machines have their module, MCRenderer_proofs.  *)
(***************************************************************************)
EXTENDS MCDesktop, NaturalsInduction, WellFoundedInduction, TLAPS

-----------------------------------------------------------------------------
(* The migration lock *)

LockStates ==
  [dir : BOOLEAN, owner : Lock!Names, claim : Lock!Names, old : BOOLEAN, id : Nat,
   pc : [Procs -> Lock!Places], judged : [Procs -> Lock!Names \X Nat],
   tries : [Procs -> Nat], robbed : SUBSET Procs]

\* Whoever made the directory, took it over or is leaving it.
Inside(p) == m.pc[p] \in {"record", "take", "clean", "holds", "leave"}

\* Places from which a process does not judge the lock again.
Settled(p) == m.pc[p] \in {"take", "clean", "holds", "leave", "refused", "done", "dead"}

\* What exclusion does not survive: a claim taken from a living process, and a takeover on
\* a verdict about a directory without a record.
Marred == m.robbed # {} \/ \E p \in Procs : Settled(p) /\ m.judged[p][1] = Lock!Nobody

OneInside == \A p, q \in Procs : Inside(p) /\ Inside(q) => p = q
Furnished ==
  /\ ~m.dir => m.owner = Lock!Nobody
  /\ \A p \in Procs :
       /\ Inside(p) => m.dir
       /\ m.pc[p] \in {"record", "leave"} => m.owner = Lock!Nobody /\ ~m.old
       /\ m.pc[p] \in {"take", "clean"} => m.claim = p
       /\ m.pc[p] \in {"clean", "holds"} => m.owner = p
VerdictsAge ==
  \A p, q \in Procs : /\ m.judged[q][2] <= m.id
                      /\ m.pc[p] = "record" => m.judged[q][2] < m.id
ClaimsAreGrounded ==
  \A p \in Procs :
    /\ m.pc[p] \in {"claim", "clear", "reclaim", "judge"} => ~Lock!Alive(m.judged[p][1])
    /\ m.pc[p] = "judge" => m.claim = p \/ ~m.dir \/ m.judged[p][2] < m.id

LockBody == OneInside /\ Furnished /\ VerdictsAge /\ ClaimsAreGrounded
LockInv == m \in LockStates /\ (Marred \/ LockBody)

LEMMA LockStart == ProcsAssumption /\ Lock!Init => LockInv
BY DEF ProcsAssumption, Lock!Init, LockInv, LockStates, Marred, LockBody, OneInside, Furnished,
   VerdictsAge,
  ClaimsAreGrounded, Inside, Settled, Lock!Names, Lock!Nobody, Lock!Dead, Lock!Places

LEMMA LockTypes == ASSUME m \in LockStates, Lock!Next PROVE m' \in LockStates
<1>1. ASSUME Lock!GrowsOld PROVE m' \in LockStates
  BY <1>1, Zenon DEF Lock!GrowsOld, LockStates
<1> USE DEF Lock!Go
<1>2. ASSUME NEW p \in Procs, Lock!Begin(p) PROVE m' \in LockStates
  BY <1>2, Zenon DEF Lock!Begin, LockStates, Lock!Places
<1>3. ASSUME NEW p \in Procs, Lock!Mkdir(p) PROVE m' \in LockStates
  <2>0. m.tries[p] + 1 \in Nat /\ m.id + 1 \in Nat
    BY DEF LockStates
  <2>1. CASE m.tries[p] = Lock!Attempts
    BY <1>3, <2>1, Zenon DEF Lock!Mkdir, LockStates, Lock!Places
  <2>2. CASE m.tries[p] # Lock!Attempts /\ m.dir
    <3>1. m' = [m EXCEPT !.pc[p] = "look", !.tries[p] = m.tries[p] + 1]
      BY <1>3, <2>2 DEF Lock!Mkdir, LockStates
    <3> QED
      BY <2>0, <3>1, Zenon DEF LockStates, Lock!Places
  <2>3. CASE m.tries[p] # Lock!Attempts /\ ~m.dir
    <3>1. m' = [m EXCEPT !.pc[p] = "record", !.dir = TRUE, !.old = FALSE, !.id = m.id + 1,
                         !.tries[p] = m.tries[p] + 1]
      BY <1>3, <2>3 DEF Lock!Mkdir, LockStates
    <3> QED
      BY <2>0, <3>1, Zenon DEF LockStates, Lock!Places
  <2> QED
    BY <2>1, <2>2, <2>3 DEF LockStates
<1>4. ASSUME NEW p \in Procs, Lock!Look(p) PROVE m' \in LockStates
  BY <1>4, Zenon DEF Lock!Look, Lock!Signature, LockStates, Lock!Places
<1>5. ASSUME NEW p \in Procs, Lock!Record(p) PROVE m' \in LockStates
  BY <1>5, Zenon DEF Lock!Record, LockStates, Lock!Places, Lock!Names
<1>6. ASSUME NEW p \in Procs, Lock!Claim(p) PROVE m' \in LockStates
  BY <1>6, Zenon DEF Lock!Claim, LockStates, Lock!Places, Lock!Names
<1>7. ASSUME NEW p \in Procs, NEW to \in Lock!Places, m' = Lock!Unclaim(p, Lock!Go(p, to))
      PROVE  m' \in LockStates
  <2>1. Lock!Robbed(p) \in SUBSET Procs
    BY DEF Lock!Robbed, Lock!Alive, LockStates
  <2> QED
    BY <1>7, <2>1, Zenon DEF Lock!Unclaim, LockStates, Lock!Names
<1>8. ASSUME NEW p \in Procs, Lock!Clear(p) PROVE m' \in LockStates
  BY Zenon, <1>7, <1>8 DEF Lock!Clear, LockStates, Lock!Places
<1>9. ASSUME NEW p \in Procs, Lock!Reclaim(p) PROVE m' \in LockStates
  BY ZenonT(40), <1>9 DEF Lock!Reclaim, LockStates, Lock!Places, Lock!Names
<1>10. ASSUME NEW p \in Procs, Lock!Judge(p) PROVE m' \in LockStates
  BY Zenon, <1>7, <1>10 DEF Lock!Judge, LockStates, Lock!Places
<1>11. ASSUME NEW p \in Procs, Lock!Take(p) PROVE m' \in LockStates
  BY ZenonT(40), <1>7, <1>11 DEF Lock!Take, LockStates, Lock!Places, Lock!Names
<1>12. ASSUME NEW p \in Procs, Lock!Clean(p) PROVE m' \in LockStates
  BY <1>7, <1>12, Zenon DEF Lock!Clean, LockStates, Lock!Places
<1>13. ASSUME NEW p \in Procs, Lock!Release(p) PROVE m' \in LockStates
  BY <1>13, Zenon DEF Lock!Release, LockStates, Lock!Places, Lock!Names
<1>14. ASSUME NEW p \in Procs, Lock!Leave(p) PROVE m' \in LockStates
  BY <1>14, Zenon DEF Lock!Leave, LockStates, Lock!Places, Lock!Names
<1>15. ASSUME NEW p \in Procs, Lock!Dies(p) PROVE m' \in LockStates
  BY <1>15, Zenon DEF Lock!Dies, LockStates, Lock!Places
<1> QED
  BY <1>1, <1>2, <1>3, <1>4, <1>5, <1>6, <1>8, <1>9, <1>10, <1>11, <1>12, <1>13, <1>14, <1>15
     DEF Lock!Next

\* A robbed process stays one, and a settled process never judges again.
LEMMA MarredForGood == ASSUME m \in LockStates, Marred, Lock!Next PROVE Marred'
<1> DEFINE Kept == m.robbed \subseteq m'.robbed
                /\ \A q \in Procs : Settled(q) => Settled(q)' /\ m'.judged[q] = m.judged[q]
<1>1. ASSUME Lock!GrowsOld PROVE Kept
  BY <1>1 DEF Lock!GrowsOld, Settled, LockStates
<1> USE DEF Lock!Go, Lock!Unclaim, Lock!Robbed
<1>2. ASSUME NEW p \in Procs, Lock!Begin(p) PROVE Kept
  BY <1>2 DEF Lock!Begin, Settled, LockStates
<1>3. ASSUME NEW p \in Procs, Lock!Mkdir(p) PROVE Kept
  BY <1>3 DEF Lock!Mkdir, Settled, LockStates
<1>4. ASSUME NEW p \in Procs, Lock!Look(p) PROVE Kept
  BY <1>4 DEF Lock!Look, Lock!Signature, Settled, LockStates
<1>5. ASSUME NEW p \in Procs, Lock!Record(p) PROVE Kept
  BY <1>5 DEF Lock!Record, Settled, LockStates
<1>6. ASSUME NEW p \in Procs, Lock!Claim(p) PROVE Kept
  BY <1>6 DEF Lock!Claim, Settled, LockStates
<1>7. ASSUME NEW p \in Procs, Lock!Clear(p) PROVE Kept
  BY <1>7 DEF Lock!Clear, Settled, LockStates
<1>8. ASSUME NEW p \in Procs, Lock!Reclaim(p) PROVE Kept
  BY <1>8 DEF Lock!Reclaim, Settled, LockStates
<1>9. ASSUME NEW p \in Procs, Lock!Judge(p) PROVE Kept
  BY <1>9 DEF Lock!Judge, Settled, LockStates
<1>10. ASSUME NEW p \in Procs, Lock!Take(p) PROVE Kept
  BY <1>10 DEF Lock!Take, Settled, LockStates
<1>11. ASSUME NEW p \in Procs, Lock!Clean(p) PROVE Kept
  BY <1>11 DEF Lock!Clean, Settled, LockStates
<1>12. ASSUME NEW p \in Procs, Lock!Release(p) PROVE Kept
  BY <1>12 DEF Lock!Release, Settled, LockStates
<1>13. ASSUME NEW p \in Procs, Lock!Leave(p) PROVE Kept
  BY <1>13 DEF Lock!Leave, Settled, LockStates
<1>14. ASSUME NEW p \in Procs, Lock!Dies(p) PROVE Kept
  BY <1>14 DEF Lock!Dies, Settled, LockStates
<1>20. Kept
  BY <1>1, <1>2, <1>3, <1>4, <1>5, <1>6, <1>7, <1>8, <1>9, <1>10, <1>11, <1>12, <1>13,
     <1>14 DEF Lock!Next
<1> QED
  BY <1>20 DEF Marred

LEMMA LockBodyStep == 
  ASSUME ProcsAssumption, m \in LockStates, LockBody, Lock!Next, ~Marred'
  PROVE  LockBody'
<1>1. ASSUME Lock!GrowsOld PROVE LockBody'
  BY <1>1 DEF Lock!GrowsOld, Lock!AtWork, Lock!Alive, LockBody, OneInside, Furnished, VerdictsAge,
     ClaimsAreGrounded, Inside, Lock!Go, LockStates
<1> USE DEF Lock!Go, Lock!Unclaim
<1>0. /\ m'.robbed = {}
      /\ \A q \in Procs : Settled(q)' => m'.judged[q][1] # Lock!Nobody
      /\ Lock!Nobody \notin Procs
  BY DEF Marred, ProcsAssumption, Lock!Nobody
<1>2. ASSUME NEW p \in Procs, Lock!Begin(p) PROVE LockBody'
  BY <1>2 DEF Lock!Begin, LockBody, OneInside, Furnished, VerdictsAge, ClaimsAreGrounded, Inside,
     Lock!Alive, LockStates
<1>3. ASSUME NEW p \in Procs, Lock!Mkdir(p) PROVE LockBody'
  <2>1. CASE m.tries[p] = Lock!Attempts
    BY <1>3, <2>1 DEF Lock!Mkdir, LockBody, OneInside, Furnished, VerdictsAge, ClaimsAreGrounded,
       Inside, Lock!Alive, LockStates
  <2>2. CASE m.tries[p] # Lock!Attempts /\ m.dir
    BY <1>3, <2>2 DEF Lock!Mkdir, LockBody, OneInside, Furnished, VerdictsAge, ClaimsAreGrounded,
       Inside, Lock!Alive, LockStates
  <2>3. CASE m.tries[p] # Lock!Attempts /\ ~m.dir
    <3>1. /\ m'.dir /\ ~m'.old /\ m'.id = m.id + 1 /\ m'.pc = [m.pc EXCEPT ![p] = "record"]
          /\ m'.owner = m.owner /\ m'.claim = m.claim /\ m'.judged = m.judged /\ m.pc[p] = "mkdir"
      BY <1>3, <2>3 DEF Lock!Mkdir, LockStates
    <3>2. OneInside'
      BY <2>3, <3>1 DEF LockBody, OneInside, Furnished, Inside
    <3>3. Furnished'
      BY <2>3, <3>1 DEF LockBody, OneInside, Furnished, Inside, LockStates
    <3>4. VerdictsAge'
      BY <2>3, <3>1 DEF LockBody, VerdictsAge, LockStates
    <3>5. ClaimsAreGrounded'
      BY <2>3, <3>1 DEF LockBody, ClaimsAreGrounded, VerdictsAge, Lock!Alive, LockStates
    <3> QED
      BY <3>2, <3>3, <3>4, <3>5 DEF LockBody
  <2> QED
    BY <2>1, <2>2, <2>3 DEF LockStates
<1>4. ASSUME NEW p \in Procs, Lock!Look(p) PROVE LockBody'
  <2>1. CASE ~m.dir \/ ~Lock!Stale
    BY <1>4, <2>1 DEF Lock!Look, LockBody, OneInside, Furnished, VerdictsAge, ClaimsAreGrounded,
       Inside, Lock!Alive, LockStates
  <2>2. CASE m.dir /\ Lock!Stale
    <3>1. /\ m' = [m EXCEPT !.pc[p] = "claim", !.judged[p] = <<m.owner, m.id>>]
          /\ m.pc[p] = "look" /\ m.dir
      BY <1>4, <2>2 DEF Lock!Look, Lock!Signature
    <3>2. /\ m'.dir = m.dir /\ m'.old = m.old /\ m'.id = m.id /\ m'.pc = [m.pc EXCEPT ![p] = "claim"]
          /\ m'.owner = m.owner /\ m'.claim = m.claim /\ m'.judged[p] = <<m.owner, m.id>>
          /\ \A q \in Procs : q # p => m'.judged[q] = m.judged[q]
      BY <3>1, Zenon DEF LockStates
    <3>3. ~Lock!Alive(m.owner) /\ (m.owner = Lock!Nobody => m.old)
      BY <1>0, <2>2 DEF Lock!Stale, Lock!Alive
    <3>4. \A q \in Procs : m.pc[q] # "record"
      BY <3>3 DEF LockBody, Furnished
    <3>5. OneInside'
      BY <3>1, <3>2, <3>3, <3>4 DEF LockBody, OneInside, Furnished, Inside
    <3>6. Furnished'
      BY <3>1, <3>2, <3>3, <3>4 DEF LockBody, OneInside, Furnished, Inside, LockStates
    <3>7. VerdictsAge'
      BY <3>1, <3>2, <3>3, <3>4 DEF LockBody, VerdictsAge, LockStates
    <3>8. ClaimsAreGrounded'
      BY <3>1, <3>2, <3>3, <3>4 DEF LockBody, ClaimsAreGrounded, VerdictsAge, Lock!Alive, LockStates
    <3> QED
      BY <3>5, <3>6, <3>7, <3>8 DEF LockBody
  <2> QED
    BY <2>1, <2>2
<1>5. ASSUME NEW p \in Procs, Lock!Record(p) PROVE LockBody'
  BY <1>5 DEF Lock!Record, LockBody, OneInside, Furnished, VerdictsAge, ClaimsAreGrounded, Inside,
     Lock!Alive, LockStates
<1>6. ASSUME NEW p \in Procs, Lock!Claim(p) PROVE LockBody'
  <2>1. CASE ~m.dir
    BY <1>6, <2>1 DEF Lock!Claim, LockBody, OneInside, Furnished, VerdictsAge, ClaimsAreGrounded,
       Inside, Lock!Alive, LockStates
  <2>2. CASE m.dir /\ m.claim = Lock!Nobody
    <3>1. /\ m'.dir = m.dir /\ m'.old = m.old /\ m'.id = m.id /\ m'.pc = [m.pc EXCEPT ![p] = "judge"]
          /\ m'.owner = m.owner /\ m'.claim = p /\ m'.judged = m.judged /\ m.pc[p] = "claim"
      BY <1>6, <2>2, Zenon DEF Lock!Claim, LockStates
    <3>2. OneInside'
      BY <1>0, <2>2, <3>1 DEF LockBody, OneInside, Furnished, Inside
    <3>3. Furnished'
      BY <1>0, <2>2, <3>1 DEF LockBody, OneInside, Furnished, Inside, LockStates
    <3>4. VerdictsAge'
      BY <1>0, <2>2, <3>1 DEF LockBody, VerdictsAge, LockStates
    <3>5. ClaimsAreGrounded'
      BY <1>0, <2>2, <3>1 DEF LockBody, ClaimsAreGrounded, VerdictsAge, Lock!Alive, LockStates
    <3> QED
      BY <3>2, <3>3, <3>4, <3>5 DEF LockBody
  <2>3. CASE m.dir /\ m.claim # Lock!Nobody
    <3>1. PICK to \in {"clear", "refused"} : m' = [m EXCEPT !.pc[p] = to]
      BY <1>6, <2>3 DEF Lock!Claim
    <3>2. /\ m'.dir = m.dir /\ m'.old = m.old /\ m'.id = m.id /\ m'.pc = [m.pc EXCEPT ![p] = to]
          /\ m'.owner = m.owner /\ m'.claim = m.claim /\ m'.judged = m.judged /\ m.pc[p] = "claim"
      BY <1>6, <3>1, Zenon DEF LockStates, Lock!Claim
    <3>3. OneInside'
      BY <3>2 DEF LockBody, OneInside, Furnished, Inside
    <3>4. Furnished'
      BY <3>2 DEF LockBody, OneInside, Furnished, Inside, LockStates
    <3>5. VerdictsAge'
      BY <3>2 DEF LockBody, VerdictsAge, LockStates
    <3>6. ClaimsAreGrounded'
      BY <3>2 DEF LockBody, ClaimsAreGrounded, VerdictsAge, Lock!Alive, LockStates
    <3> QED
      BY <3>3, <3>4, <3>5, <3>6 DEF LockBody
  <2> QED
    BY <2>1, <2>2, <2>3
<1>7. ASSUME NEW p \in Procs, Lock!Clear(p) PROVE LockBody'
  <2>1. CASE m.claim = Lock!Nobody
    BY <1>7, <2>1 DEF Lock!Clear, LockBody, OneInside, Furnished, VerdictsAge, ClaimsAreGrounded,
       Inside, Lock!Alive, LockStates
  <2>2. CASE m.claim # Lock!Nobody
    <3>1. ~Lock!Alive(m.claim) \/ m.claim = p
      BY <1>0, <1>7, <2>2 DEF Lock!Clear, Lock!Robbed, LockStates
    <3> QED
      BY <1>7, <2>2, <3>1 DEF Lock!Clear, LockBody, OneInside, Furnished, VerdictsAge,
         ClaimsAreGrounded, Inside, Lock!Alive, LockStates
  <2> QED
    BY <2>1, <2>2
<1>8. ASSUME NEW p \in Procs, Lock!Reclaim(p) PROVE LockBody'
  <2>1. CASE ~m.dir
    BY <1>8, <2>1 DEF Lock!Reclaim, LockBody, OneInside, Furnished, VerdictsAge, ClaimsAreGrounded,
       Inside, Lock!Alive, LockStates
  <2>2. CASE m.dir /\ m.claim = Lock!Nobody
    <3>1. /\ m'.dir = m.dir /\ m'.old = m.old /\ m'.id = m.id /\ m'.pc = [m.pc EXCEPT ![p] = "judge"]
          /\ m'.owner = m.owner /\ m'.claim = p /\ m'.judged = m.judged /\ m.pc[p] = "reclaim"
      BY <1>8, <2>2, Zenon DEF Lock!Reclaim, LockStates
    <3>2. OneInside'
      BY <1>0, <2>2, <3>1 DEF LockBody, OneInside, Furnished, Inside
    <3>3. Furnished'
      BY <1>0, <2>2, <3>1 DEF LockBody, OneInside, Furnished, Inside, LockStates
    <3>4. VerdictsAge'
      BY <1>0, <2>2, <3>1 DEF LockBody, VerdictsAge, LockStates
    <3>5. ClaimsAreGrounded'
      BY <1>0, <2>2, <3>1 DEF LockBody, ClaimsAreGrounded, VerdictsAge, Lock!Alive, LockStates
    <3> QED
      BY <3>2, <3>3, <3>4, <3>5 DEF LockBody
  <2>3. CASE m.dir /\ m.claim # Lock!Nobody
    <3>1. m' = [m EXCEPT !.pc[p] = "refused"]
      BY <1>8, <2>3 DEF Lock!Reclaim
    <3>2. /\ m'.dir = m.dir /\ m'.old = m.old /\ m'.id = m.id /\ m'.pc = [m.pc EXCEPT ![p] = "refused"]
          /\ m'.owner = m.owner /\ m'.claim = m.claim /\ m'.judged = m.judged /\ m.pc[p] = "reclaim"
      BY <1>8, <3>1, Zenon DEF LockStates, Lock!Reclaim
    <3>3. OneInside'
      BY <3>2 DEF LockBody, OneInside, Furnished, Inside
    <3>4. Furnished'
      BY <3>2 DEF LockBody, OneInside, Furnished, Inside, LockStates
    <3>5. VerdictsAge'
      BY <3>2 DEF LockBody, VerdictsAge, LockStates
    <3>6. ClaimsAreGrounded'
      BY <3>2 DEF LockBody, ClaimsAreGrounded, VerdictsAge, Lock!Alive, LockStates
    <3> QED
      BY <3>3, <3>4, <3>5, <3>6 DEF LockBody
  <2> QED
    BY <2>1, <2>2, <2>3
<1>9. ASSUME NEW p \in Procs, Lock!Judge(p) PROVE LockBody'
  <2>1. CASE Lock!StillStale(p)
    <3>1. m' = [m EXCEPT !.pc[p] = "take"] /\ m.dir /\ m.judged[p] = <<m.owner, m.id>>
      BY <1>9, <2>1 DEF Lock!Judge, Lock!StillStale, Lock!Signature
    <3>2. m'.judged[p][1] # Lock!Nobody /\ m'.judged = m.judged
      BY <1>0, <3>1 DEF Settled, LockStates
    <3>3. m.claim = p /\ m.owner # Lock!Nobody /\ ~Lock!Alive(m.owner) /\ m.judged[p][2] = m.id
      BY <1>9, <3>1, <3>2 DEF Lock!Judge, LockBody, ClaimsAreGrounded, LockStates
    <3>4. \A q \in Procs : ~Inside(q)
      BY <1>9, <3>1, <3>3 DEF Lock!Judge, LockBody, Furnished, VerdictsAge, Inside, Lock!Alive,
         LockStates
    <3>5. /\ m'.dir = m.dir /\ m'.old = m.old /\ m'.id = m.id /\ m'.pc = [m.pc EXCEPT ![p] = "take"]
          /\ m'.owner = m.owner /\ m'.claim = m.claim /\ m'.judged = m.judged /\ m.pc[p] = "judge"
      BY <1>9, <3>1, Zenon DEF LockStates, Lock!Judge
    <3>6. OneInside'
      BY <3>1, <3>3, <3>4, <3>5 DEF LockBody, OneInside, Furnished, Inside
    <3>7. Furnished'
      BY <3>1, <3>3, <3>4, <3>5 DEF LockBody, OneInside, Furnished, Inside, LockStates
    <3>8. VerdictsAge'
      BY <3>1, <3>3, <3>4, <3>5 DEF LockBody, VerdictsAge, LockStates
    <3>9. ClaimsAreGrounded'
      BY <3>1, <3>3, <3>4, <3>5 DEF LockBody, ClaimsAreGrounded, VerdictsAge, Lock!Alive, LockStates
    <3> QED
      BY <3>6, <3>7, <3>8, <3>9 DEF LockBody
  <2>2. CASE ~Lock!StillStale(p)
    <3>1. ~Lock!Alive(m.claim) \/ m.claim = p
      BY <1>0, <1>9, <2>2 DEF Lock!Judge, Lock!Robbed, LockStates
    <3> QED
      BY <1>9, <2>2, <3>1 DEF Lock!Judge, LockBody, OneInside, Furnished, VerdictsAge,
         ClaimsAreGrounded, Inside, Lock!Alive, LockStates
  <2> QED
    BY <2>1, <2>2
<1>10. ASSUME NEW p \in Procs, Lock!Take(p) PROVE LockBody'
  BY <1>10 DEF Lock!Take, LockBody, OneInside, Furnished, VerdictsAge, ClaimsAreGrounded, Inside,
     Lock!Alive, LockStates
<1>11. ASSUME NEW p \in Procs, Lock!Clean(p) PROVE LockBody'
  BY <1>11 DEF Lock!Clean, LockBody, OneInside, Furnished, VerdictsAge, ClaimsAreGrounded, Inside,
     Lock!Alive, LockStates
<1>12. ASSUME NEW p \in Procs, Lock!Release(p) PROVE LockBody'
  BY <1>12 DEF Lock!Release, LockBody, OneInside, Furnished, VerdictsAge, ClaimsAreGrounded,
     Inside, Lock!Alive, LockStates
<1>13. ASSUME NEW p \in Procs, Lock!Leave(p) PROVE LockBody'
  BY <1>13 DEF Lock!Leave, LockBody, OneInside, Furnished, VerdictsAge, ClaimsAreGrounded, Inside,
     Lock!Alive, LockStates
<1>14. ASSUME NEW p \in Procs, Lock!Dies(p) PROVE LockBody'
  BY <1>14 DEF Lock!Dies, LockBody, OneInside, Furnished, VerdictsAge, ClaimsAreGrounded, Inside,
     Lock!Alive, LockStates
<1> QED
  BY <1>1, <1>2, <1>3, <1>4, <1>5, <1>6, <1>7, <1>8, <1>9, <1>10, <1>11, <1>12, <1>13,
     <1>14 DEF Lock!Next

LEMMA LockStep == ASSUME ProcsAssumption, LockInv, [Lock!Next]_m PROVE LockInv'
<1>1. CASE UNCHANGED m
  BY <1>1 DEF LockInv, LockBody, LockStates, Marred, Settled, OneInside, Furnished, VerdictsAge,
     ClaimsAreGrounded, Inside, Lock!Alive
<1>2. CASE Lock!Next
  BY <1>2, LockTypes, MarredForGood, LockBodyStep DEF LockInv
<1> QED
  BY <1>1, <1>2

LEMMA LockMeaning == LockInv => Lock!MigrationsExclude
BY DEF LockInv, Marred, LockBody, OneInside, Inside, Lock!Holders, Lock!MigrationsExclude

-----------------------------------------------------------------------------
(* The store: what a crash, a refused rename and one damaged file leave of a state *)

\* Bounds of the store's history.
StoreLimits == MaxSaves \in Nat /\ MaxWrites \in Nat

\* What the promise covers: at most one file is damaged by something else.
OneFault == MaxDamage \in {0, 1}

-----------------------------------------------------------------------------
(* The inductive invariant *)

Copy  == Store!Contents \cup {Store!None}
Moved == [of : Store!Slots, is : Store!Contents]
Stores ==
  [file : [Store!Slots -> Copy], moved : SUBSET Moved, old : Copy,
   pc : {"down", "up", "failed", "replace", "swap", "verify"}, at : Store!Slots,
   task : {"init", "save", "restore"}, goal : 0 .. MaxSaves, mem : -1 .. MaxSaves,
   acked : 0 .. MaxSaves, saves : 0 .. MaxSaves, writes : 0 .. MaxWrites,
   damage : 0 .. MaxDamage, backup : Copy]

\* Everything on disk, and the newest buffers of a slot.
Copies   == {m.file[f] : f \in Store!Slots} \cup {b.is : b \in m.moved} \cup {m.old, m.backup}
Leads(b) == b \in m.moved /\ \A e \in m.moved : e.of = b.of => e.is.t <= b.is.t

\* Time only counts writes, and a buffer is no newer than the file that replaced it.
TimesPass ==
  /\ \A x \in Copies : x.t <= m.writes
  /\ \A b \in m.moved : m.file[b.of] = Store!None \/ b.is.t <= m.file[b.of].t

\* While a state is being written nothing else has its time, a file already replaced
\* does, and neither outcome gives up what was acknowledged.
WriteStands ==
  m.pc \in {"replace", "swap", "verify"} =>
    /\ m.goal >= m.acked /\ m.writes > 0
    /\ \A x \in Copies : x.t = m.writes => x.v = m.goal
    /\ m.at = Store!Recovery => m.file[Store!Primary].t = m.writes
    /\ m.pc = "verify" => m.file[m.at].t = m.writes
    /\ m.pc = "swap" => m.file[m.at] = Store!None
    /\ m.task # "init" => m.mem >= m.acked
    /\ m.task = "save" => m.goal <= m.saves

\* Once something is acknowledged each slot holds a file, or a newest buffer.
BothHold ==
  m.acked > 0 => \A f \in Store!Slots : m.file[f] # Store!None \/ \E b \in m.moved : b.of = f /\ Leads(b)

\* A copy of an older state that would load is older than what either slot holds.
FresherWins ==
  \A x \in Copies : Store!Loads(x) /\ x.v < m.acked =>
    \A f \in Store!Slots : /\ m.file[f] # Store!None => x.t < m.file[f].t
                           /\ m.file[f] = Store!None => \A b \in m.moved : b.of = f /\ Leads(b) => x.t < b.is.t

Broken(c) == c.kind = "damaged"
OneDamage ==
  /\ m.damage = 0 => (\A f \in Store!Slots : ~Broken(m.file[f])) /\ \A b \in m.moved : ~Broken(b.is)
  /\ \A f, g \in Store!Slots : Broken(m.file[f]) /\ Broken(m.file[g]) => f = g
  /\ \A f \in Store!Slots, b \in m.moved : ~(Broken(m.file[f]) /\ Broken(b.is))
  /\ \A b, e \in m.moved : Broken(b.is) /\ Broken(e.is) => b = e
  /\ ~Broken(m.old) /\ ~Broken(m.backup)

MemHolds == (m.pc = "up" => m.mem >= m.acked) /\ m.acked <= m.saves

Disk == TimesPass /\ BothHold /\ FresherWins /\ OneDamage
StoreInv == m \in Stores /\ Disk /\ WriteStands /\ MemHolds

-----------------------------------------------------------------------------
(* Copies *)

LEMMA CopyShape ==
  /\ \A c \in Copy : /\ c.v \in Int /\ c.t \in Int
                     /\ c # Store!None => c \in Store!Contents
                     /\ Store!Loads(c) => c \in Store!Contents /\ ~Broken(c)
                     /\ c \in Store!Contents => c # Store!None /\ c.v \in 0 .. MaxSaves /\ c.t \in 0 .. MaxWrites
                                                /\ (Store!Loads(c) \/ Broken(c))
  /\ Store!None \in Copy /\ ~Store!Loads(Store!None) /\ ~Broken(Store!None) /\ Store!None.t = 0
  /\ Store!Contents \subseteq Copy
<1>1. \A c \in Store!Contents : /\ c # Store!None /\ c.v \in 0 .. MaxSaves /\ c.t \in 0 .. MaxWrites
                                /\ (Store!Loads(c) => ~Broken(c)) /\ (Store!Loads(c) \/ Broken(c))
  BY DEF Store!Contents, Store!None, Store!Loads, Broken
<1>2. ~Store!Loads(Store!None) /\ ~Broken(Store!None) /\ Store!None.t = 0 /\ Store!None.v = -1
  <2>1. Store!None.kind = "none" /\ Store!None.t = 0 /\ Store!None.v = -1
    BY DEF Store!None
  <2> QED
    BY <2>1 DEF Store!Loads, Broken
<1>3. \A n : n \in 0 .. MaxSaves \/ n \in 0 .. MaxWrites => n \in Int
  OBVIOUS
<1> QED
  BY <1>1, <1>2, <1>3 DEF Copy

LEMMA NewFile ==
  ASSUME NEW v \in 0 .. MaxSaves, NEW t \in 0 .. MaxWrites
  PROVE  /\ Store!File(v, t) \in Store!Contents /\ Store!File(v, t).v = v /\ Store!File(v, t).t = t
         /\ Store!Loads(Store!File(v, t)) /\ ~Broken(Store!File(v, t)) /\ Store!File(v, t).kind = "encrypted"
BY DEF Store!File, Store!Contents, Store!Loads, Broken

LEMMA StoreShape ==
  ASSUME m \in Stores
  PROVE  /\ m.file \in [Store!Slots -> Copy] /\ m.moved \subseteq Moved /\ m.old \in Copy /\ m.backup \in Copy
         /\ m.pc \in {"down", "up", "failed", "replace", "swap", "verify"} /\ m.at \in Store!Slots
         /\ m.task \in {"init", "save", "restore"} /\ m.goal \in 0 .. MaxSaves
         /\ m.mem \in -1 .. MaxSaves /\ m.acked \in 0 .. MaxSaves /\ m.saves \in 0 .. MaxSaves
         /\ m.writes \in 0 .. MaxWrites /\ m.damage \in 0 .. MaxDamage
         /\ \A f \in Store!Slots : m.file[f] \in Copy
         /\ \A b \in m.moved : b.of \in Store!Slots /\ b.is \in Store!Contents
         /\ Store!Primary \in Store!Slots /\ Store!Recovery \in Store!Slots /\ Store!Slots = {Store!Primary, Store!Recovery}
         /\ Copies \subseteq Copy
BY CopyShape DEF Stores, Moved, Store!Slots, Copies

-----------------------------------------------------------------------------
(* Kinds of steps: what they leave of the disk *)

\* The files stay: a step of the process alone.
LEMMA DiskStays ==
  ASSUME m'.file = m.file, m'.moved = m.moved, m'.old = m.old, m'.backup = m.backup,
         m'.damage = m.damage, m'.acked = m.acked, m'.writes = m.writes, Disk
  PROVE  Disk' /\ Copies' = Copies
BY DEF Disk, TimesPass, BothHold, FresherWins, OneDamage, Leads, Copies

\* Nothing is written: buffers of slots that load may go, copies of the old application too.
LEMMA DiskSwept ==
  ASSUME m \in Stores, Disk,
         m'.file = m.file, m'.moved \subseteq m.moved, m'.old \in {m.old, Store!None},
         m'.backup = m.backup, m'.damage = m.damage, m'.acked \in Nat,
         m'.acked <= m.acked, m'.writes \in Int, m'.writes >= m.writes,
         \A b \in m.moved : b \in m'.moved \/ Store!Loads(m.file[b.of])
  PROVE  Disk' /\ Copies' \subseteq Copies \cup {Store!None}
<1>1. Copies' \subseteq Copies \cup {Store!None}
  BY DEF Copies
<1>2. \A b \in m.moved : m.file[b.of] = Store!None => b \in m'.moved
  BY CopyShape
<1>3. \A b \in m.moved : m.file[b.of] = Store!None => (Leads(b)' <=> Leads(b))
  BY <1>2 DEF Leads
<1>4. TimesPass'
  <2>1. \A x \in Copies' : x.t <= m.writes \/ x.t = 0
    BY <1>1, CopyShape DEF Disk, TimesPass
  <2>2. \A x \in Copies' : x.t \in Int
    BY <1>1, CopyShape, StoreShape
  <2>3. m.writes \in Int /\ m.writes >= 0
    BY StoreShape
  <2> QED
    BY <2>1, <2>2, <2>3 DEF Disk, TimesPass
<1>5. BothHold'
  <2>1. SUFFICES ASSUME m'.acked > 0, NEW f \in Store!Slots, m.file[f] = Store!None
                 PROVE  \E b \in m'.moved : b.of = f /\ Leads(b)'
    BY DEF BothHold
  <2>2. PICK b \in m.moved : b.of = f /\ Leads(b)
    BY <2>1, StoreShape DEF Disk, BothHold
  <2> QED
    BY <1>2, <1>3, <2>1, <2>2
<1>6. FresherWins'
  <2>1. SUFFICES ASSUME NEW x \in Copies', Store!Loads(x), x.v < m'.acked, NEW f \in Store!Slots
                 PROVE  /\ m.file[f] # Store!None => x.t < m.file[f].t
                        /\ m.file[f] = Store!None =>
                             \A b \in m'.moved : b.of = f /\ Leads(b)' => x.t < b.is.t
    BY DEF FresherWins
  <2>2. x \in Copies
    BY <1>1, <2>1, CopyShape
  <2>3. x.v < m.acked
    BY <2>1, <2>2, StoreShape, CopyShape
  <2> QED
    BY <1>3, <2>1, <2>2, <2>3 DEF Disk, FresherWins
<1>7. OneDamage'
  BY CopyShape DEF Disk, OneDamage
<1> QED
  BY <1>1, <1>4, <1>5, <1>6, <1>7 DEF Disk

\* A slot receives the state that is being written.
LEMMA DiskWritten ==
  ASSUME m \in Stores, Disk, WriteStands, m.pc \in {"replace", "swap"},
         m'.file = [m.file EXCEPT ![m.at] = Store!File(m.goal, m.writes)],
         m'.moved \subseteq m.moved, \A b \in m.moved : b \in m'.moved \/ b.of = m.at,
         m'.old = m.old, m'.backup = m.backup, m'.damage = m.damage, m'.acked = m.acked,
         m'.writes = m.writes, m'.goal = m.goal
  PROVE  Disk' /\ \A x \in Copies' : x.t = m.writes => x.v = m.goal
<1> DEFINE new == Store!File(m.goal, m.writes)
<1>1. /\ new \in Store!Contents /\ new.v = m.goal /\ new.t = m.writes /\ new # Store!None /\ Store!Loads(new)
      /\ ~Broken(new)
  BY StoreShape, NewFile, CopyShape
<1>2. m'.file[m.at] = new /\ \A f \in Store!Slots : f # m.at => m'.file[f] = m.file[f]
  BY StoreShape
<1>3. Copies' \subseteq Copies \cup {new}
  BY <1>2 DEF Copies
<1>4. \A x \in Copies' : x.t = m.writes => x.v = m.goal
  BY <1>1, <1>3 DEF WriteStands
<1>5. \A b \in m.moved : b.of # m.at => b \in m'.moved /\ (Leads(b)' <=> Leads(b))
  BY DEF Leads
<1>6. /\ m.writes \in Int /\ m.acked \in Int /\ m.goal \in Int /\ m.goal >= m.acked
      /\ \A x \in Copies : x.t \in Int /\ x.v \in Int /\ x.t <= m.writes
  BY StoreShape, CopyShape DEF WriteStands, Disk, TimesPass
<1>7. TimesPass'
  <2>1. \A x \in Copies' : x.t <= m.writes
    BY <1>1, <1>3, <1>6
  <2>2. \A b \in m'.moved : b.of = m.at => b.is.t <= m.writes
    BY <1>6 DEF Copies
  <2> QED
    BY <1>1, <1>2, <2>1, <2>2, StoreShape DEF TimesPass, Disk
<1>8. BothHold'
  <2>1. SUFFICES ASSUME m.acked > 0, NEW f \in Store!Slots, m'.file[f] = Store!None
                 PROVE  \E b \in m'.moved : b.of = f /\ Leads(b)'
    BY DEF BothHold
  <2>2. f # m.at /\ m.file[f] = Store!None
    BY <1>1, <1>2, <2>1
  <2> QED
    BY <1>5, <2>1, <2>2 DEF Disk, BothHold
<1>9. FresherWins'
  <2>1. SUFFICES ASSUME NEW x \in Copies', Store!Loads(x), x.v < m.acked, NEW f \in Store!Slots
                 PROVE  /\ m'.file[f] # Store!None => x.t < m'.file[f].t
                        /\ m'.file[f] = Store!None =>
                             \A b \in m'.moved : b.of = f /\ Leads(b)' => x.t < b.is.t
    BY DEF FresherWins
  <2>2. x \in Copies /\ x.t < m.writes
    BY <1>1, <1>3, <1>4, <1>6, <2>1
  <2>3. CASE f = m.at
    BY <1>1, <1>2, <2>2, <2>3
  <2>4. CASE f # m.at
    BY <1>2, <1>5, <2>1, <2>2, <2>4 DEF Disk, FresherWins
  <2> QED
    BY <2>3, <2>4
<1>10. OneDamage'
  BY <1>1, <1>2 DEF Disk, OneDamage
<1> QED
  BY <1>4, <1>7, <1>8, <1>9, <1>10 DEF Disk

\* A file is moved aside: the buffer leads its slot.
LEMMA DiskAside ==
  ASSUME m \in Stores, Disk, NEW f \in Store!Slots, m.file[f] # Store!None,
         m'.file = [m.file EXCEPT ![f] = Store!None],
         m'.moved = m.moved \cup {[of |-> f, is |-> m.file[f]]},
         m'.old = m.old, m'.backup = m.backup, m'.damage = m.damage, m'.acked = m.acked,
         m'.writes = m.writes
  PROVE  Disk' /\ Copies' \subseteq Copies \cup {Store!None}
<1>1. PICK new : /\ new.of = f /\ new.is = m.file[f] /\ new \in m'.moved
                 /\ m'.moved = m.moved \cup {new}
  BY Zenon
<1>2. m'.file[f] = Store!None /\ \A g \in Store!Slots : g # f => m'.file[g] = m.file[g]
  BY StoreShape
<1>3. Copies' \subseteq Copies \cup {Store!None}
  BY <1>1, <1>2 DEF Copies
<1>4. \A b : b.of # f => (Leads(b)' <=> Leads(b))
  BY <1>1 DEF Leads
<1>5. /\ m.writes \in Int /\ m.writes >= 0
      /\ \A x \in Copies : x.t \in Int /\ x.v \in Int /\ x.t <= m.writes
      /\ \A b \in m'.moved : b.is.t \in Int /\ b.is \in Copies
      /\ m.file[f].t \in Int
  BY StoreShape, CopyShape DEF Disk, TimesPass, Copies
<1>6. \A b \in m.moved : b.of = f => b.is.t <= m.file[f].t
  BY DEF Disk, TimesPass
<1>7. Leads(new)'
  BY <1>1, <1>5, <1>6 DEF Leads
<1>8. TimesPass'
  BY <1>1, <1>2, <1>3, <1>5, CopyShape DEF Disk, TimesPass
<1>9. BothHold'
  <2>1. SUFFICES ASSUME m.acked > 0, NEW g \in Store!Slots, m'.file[g] = Store!None
                 PROVE  \E b \in m'.moved : b.of = g /\ Leads(b)'
    BY DEF BothHold
  <2>2. CASE g = f
    BY <1>1, <1>7, <2>2
  <2>3. CASE g # f
    <3>1. PICK b \in m.moved : b.of = g /\ Leads(b)
      BY <1>2, <2>1, <2>3 DEF Disk, BothHold
    <3> QED
      BY <1>4, <2>3, <3>1
  <2> QED
    BY <2>2, <2>3
<1>10. FresherWins'
  <2>1. SUFFICES ASSUME NEW x \in Copies', Store!Loads(x), x.v < m.acked, NEW g \in Store!Slots
                 PROVE  /\ m'.file[g] # Store!None => x.t < m'.file[g].t
                        /\ m'.file[g] = Store!None =>
                             \A b \in m'.moved : b.of = g /\ Leads(b)' => x.t < b.is.t
    BY DEF FresherWins
  <2>2. x \in Copies
    BY <1>3, <2>1, CopyShape
  <2>3. CASE g = f
    <3>1. x.t < m.file[f].t
      BY <2>1, <2>2 DEF Disk, FresherWins
    <3>2. \A b \in m'.moved : b.of = f /\ Leads(b)' => m.file[f].t <= b.is.t
      BY <1>1 DEF Leads
    <3>3. x.t \in Int
      BY <1>5, <2>2
    <3> QED
      BY <1>2, <1>5, <2>3, <3>1, <3>2, <3>3
  <2>4. CASE g # f
    BY <1>1, <1>2, <1>4, <2>1, <2>2, <2>4 DEF Disk, FresherWins
  <2> QED
    BY <2>3, <2>4
<1>11. OneDamage'
  BY <1>1, <1>2, CopyShape DEF Disk, OneDamage
<1> QED
  BY <1>3, <1>8, <1>9, <1>10, <1>11 DEF Disk

\* The buffer is moved back.
LEMMA DiskBack ==
  ASSUME m \in Stores, Disk, NEW b \in m.moved, Leads(b), m.file[b.of] = Store!None,
         m'.file = [m.file EXCEPT ![b.of] = b.is], m'.moved = m.moved \ {b},
         m'.old = m.old, m'.backup = m.backup, m'.damage = m.damage, m'.acked = m.acked,
         m'.writes = m.writes
  PROVE  Disk' /\ Copies' \subseteq Copies
<1>1. m'.file[b.of] = b.is /\ \A g \in Store!Slots : g # b.of => m'.file[g] = m.file[g]
  BY StoreShape
<1>2. Copies' \subseteq Copies
  BY <1>1 DEF Copies
<1>3. \A c \in m.moved : c.of # b.of => c \in m'.moved /\ (Leads(c)' <=> Leads(c))
  BY DEF Leads
<1>4. b.of \in Store!Slots /\ b.is # Store!None
  BY StoreShape, CopyShape
<1>5. TimesPass'
  BY <1>1, <1>2 DEF Disk, TimesPass, Leads
<1>6. BothHold'
  <2>1. SUFFICES ASSUME m.acked > 0, NEW g \in Store!Slots, m'.file[g] = Store!None
                 PROVE  \E c \in m'.moved : c.of = g /\ Leads(c)'
    BY DEF BothHold
  <2>2. g # b.of
    BY <1>1, <1>4, <2>1
  <2>3. PICK c \in m.moved : c.of = g /\ Leads(c)
    BY <1>1, <2>1, <2>2 DEF Disk, BothHold
  <2> QED
    BY <1>3, <2>2, <2>3
<1>7. FresherWins'
  <2>1. SUFFICES ASSUME NEW x \in Copies', Store!Loads(x), x.v < m.acked, NEW g \in Store!Slots
                 PROVE  /\ m'.file[g] # Store!None => x.t < m'.file[g].t
                        /\ m'.file[g] = Store!None =>
                             \A c \in m'.moved : c.of = g /\ Leads(c)' => x.t < c.is.t
    BY DEF FresherWins
  <2>2. CASE g = b.of
    BY <1>1, <1>2, <1>4, <2>1, <2>2 DEF Disk, FresherWins
  <2>3. CASE g # b.of
    BY <1>1, <1>2, <1>3, <2>1, <2>3 DEF Disk, FresherWins
  <2> QED
    BY <2>2, <2>3
<1>8. OneDamage'
  BY <1>1 DEF Disk, OneDamage
<1> QED
  BY <1>2, <1>5, <1>6, <1>7, <1>8 DEF Disk

\* Something else damages a file, for the first time.
LEMMA DiskDamaged ==
  ASSUME m \in Stores, Disk, NEW f \in Store!Slots, m.file[f] # Store!None, m.damage = 0,
         m'.file = [m.file EXCEPT ![f].kind = "damaged"], m'.moved = m.moved,
         m'.old = m.old, m'.backup = m.backup, m'.damage = 1, m'.acked = m.acked,
         m'.writes = m.writes
  PROVE  Disk' /\ \A x \in Copies' : \E y \in Copies : x.t = y.t /\ x.v = y.v
<1> DEFINE bad == [m.file[f] EXCEPT !.kind = "damaged"]
<1>1. m.file[f] \in Store!Contents
  BY StoreShape, CopyShape
<1>2. /\ bad \in Store!Contents /\ bad.t = m.file[f].t /\ bad.v = m.file[f].v /\ Broken(bad)
  BY <1>1 DEF Store!Contents, Broken
<1>3. m'.file[f] = bad /\ \A g \in Store!Slots : g # f => m'.file[g] = m.file[g]
  BY StoreShape
<1>4. ~Store!Loads(bad) /\ bad # Store!None
  BY <1>2, CopyShape
<1> HIDE DEF bad
<1>5. Copies' \subseteq Copies \cup {bad} /\ m.file[f] \in Copies
  BY <1>3 DEF Copies
<1>6. \A x \in Copies' : \E y \in Copies : x.t = y.t /\ x.v = y.v
  BY <1>2, <1>5
<1>7. TimesPass'
  BY <1>2, <1>3, <1>4, <1>6 DEF Disk, TimesPass
<1>8. \A b : Leads(b)' <=> Leads(b)
  BY DEF Leads
<1>9. BothHold'
  BY <1>3, <1>4, <1>8 DEF Disk, BothHold
<1>10. FresherWins'
  <2>1. SUFFICES ASSUME NEW x \in Copies', Store!Loads(x), x.v < m.acked, NEW g \in Store!Slots
                 PROVE  /\ m'.file[g] # Store!None => x.t < m'.file[g].t
                        /\ m'.file[g] = Store!None =>
                             \A b \in m'.moved : b.of = g /\ Leads(b)' => x.t < b.is.t
    BY DEF FresherWins
  <2>2. x \in Copies
    BY <1>4, <1>5, <2>1
  <2> QED
    BY <1>2, <1>3, <1>4, <1>8, <2>1, <2>2 DEF Disk, FresherWins
<1>11. OneDamage'
  BY <1>3 DEF Disk, OneDamage
<1> QED
  BY <1>6, <1>7, <1>9, <1>10, <1>11 DEF Disk

-----------------------------------------------------------------------------
(* A start *)

\* Among copies that load there is a newest one.
LEMMA NewestExists ==
  ASSUME StoreLimits, NEW L, L \subseteq Store!Contents, L # {}
  PROVE  \E f \in L : \A g \in L : g.t <= f.t
<1> DEFINE Age(f) == MaxWrites - f.t
           Ages == {Age(f) : f \in L}
<1>1. \A f \in L : f.t \in 0 .. MaxWrites
  BY CopyShape
<1>2. Ages \subseteq Nat /\ Ages # {}
  BY <1>1 DEF StoreLimits
<1>3. PICK a \in Ages : \A b \in Ages : ~(<<b, a>> \in OpToRel(<, Nat))
  <2> HIDE DEF Ages
  <2> QED
    BY <1>2, WFMin, NatLessThanWellFounded, Zenon
<1>4. \A b \in Ages : a <= b
  <2>1. a \in Nat /\ \A b \in Ages : b \in Nat /\ ~(b < a)
    BY <1>2, <1>3, Zenon DEF OpToRel
  <2> HIDE DEF Ages
  <2> QED
    BY <2>1
<1>5. PICK f \in L : a = Age(f)
  OBVIOUS
<1>6. \A g \in L : Age(f) <= Age(g)
  BY <1>4, <1>5
<1>7. \A g \in L : g.t <= f.t
  BY <1>1, <1>6 DEF StoreLimits
<1> QED
  BY <1>7

\* Whatever a start finds is no older than what was acknowledged.
LEMMA StartFindsAcked ==
  ASSUME StoreLimits, m \in Stores, Disk, NEW kept \in SUBSET m.moved
  PROVE  LET t == Store!Sweep(kept) IN
           /\ \A f \in Store!Slots : Store!Loads(t.file[f]) => t.file[f].v >= m.acked
           /\ ~Store!Loads(t.file[Store!Primary]) /\ ~Store!Loads(t.file[Store!Recovery]) =>
                IF \E g \in Store!Backups(t) : Store!Loads(g)
                THEN /\ Store!Newest(t) \in Store!Backups(t) /\ Store!Loads(Store!Newest(t))
                     /\ Store!Newest(t).v >= m.acked
                ELSE m.acked = 0
<1> DEFINE t == Store!Sweep(kept)
<1>1. /\ t.file = m.file /\ t.moved = {b \in m.moved : Store!Residue(b) => b \in kept}
      /\ t.old = m.old /\ t.backup = m.backup
  BY DEF Store!Sweep, Stores
<1>2. /\ m.acked \in Int /\ m.acked >= 0
      /\ \A x \in Copies : x.v \in Int /\ x.t \in Int /\ (Store!Loads(x) => x.v >= 0)
  BY StoreShape, CopyShape
<1>3. \A f \in Store!Slots : Store!Loads(t.file[f]) => t.file[f].v >= m.acked
  <2>1. SUFFICES ASSUME NEW f \in Store!Slots, Store!Loads(m.file[f]) PROVE m.file[f].v >= m.acked
    BY <1>1
  <2>2. m.file[f] \in Copies /\ m.file[f] # Store!None
    BY <2>1, CopyShape DEF Copies
  <2>3. ~(m.file[f].t < m.file[f].t)
    BY <1>2, <2>2
  <2> QED
    BY <1>2, <2>1, <2>2, <2>3 DEF Disk, FresherWins
<1>4. ASSUME ~Store!Loads(m.file[Store!Primary]), ~Store!Loads(m.file[Store!Recovery]), m.acked > 0
      PROVE  \E b \in t.moved : Store!Loads(b.is) /\ Leads(b) /\ m.file[b.of] = Store!None
  <2>1. \A f \in Store!Slots : m.file[f] # Store!None => Broken(m.file[f])
    BY <1>4, StoreShape, CopyShape
  <2>2. \A b \in m.moved : ~Store!Loads(m.file[b.of]) /\ (~Store!Loads(b.is) => Broken(b.is))
    BY <1>4, StoreShape, CopyShape
  <2>3. \A f \in Store!Slots : m.file[f] = Store!None =>
          \E b \in t.moved : b \in m.moved /\ b.of = f /\ Leads(b) /\ m.file[b.of] = Store!None
    BY <1>1, <1>4, <2>2 DEF Disk, BothHold, Store!Residue
  <2>4. Store!Primary \in Store!Slots /\ Store!Recovery \in Store!Slots /\ Store!Primary # Store!Recovery
    BY DEF Store!Slots, Store!Primary, Store!Recovery
  <2>5. CASE m.file[Store!Primary] # Store!None
    <3>1. m.file[Store!Recovery] = Store!None
      BY <2>1, <2>4, <2>5 DEF Disk, OneDamage
    <3>2. \A b \in m.moved : ~Broken(b.is)
      BY <2>1, <2>4, <2>5 DEF Disk, OneDamage
    <3> QED
      BY <2>2, <2>3, <2>4, <3>1, <3>2
  <2>6. CASE m.file[Store!Recovery] # Store!None
    <3>1. m.file[Store!Primary] = Store!None
      BY <2>1, <2>4, <2>6 DEF Disk, OneDamage
    <3>2. \A b \in m.moved : ~Broken(b.is)
      BY <2>1, <2>4, <2>6 DEF Disk, OneDamage
    <3> QED
      BY <2>2, <2>3, <2>4, <3>1, <3>2
  <2>7. CASE m.file[Store!Primary] = Store!None /\ m.file[Store!Recovery] = Store!None
    <3>1. PICK b \in t.moved : b \in m.moved /\ b.of = Store!Primary /\ Leads(b) /\ m.file[b.of] = Store!None
      BY <2>3, <2>4, <2>7
    <3>2. PICK c \in t.moved : c \in m.moved /\ c.of = Store!Recovery /\ Leads(c) /\ m.file[c.of] = Store!None
      BY <2>3, <2>4, <2>7
    <3>3. ~(Broken(b.is) /\ Broken(c.is))
      BY <2>4, <3>1, <3>2 DEF Disk, OneDamage
    <3> QED
      BY <2>2, <3>1, <3>2, <3>3
  <2> QED
    BY <2>5, <2>6, <2>7
<1>5. ASSUME ~Store!Loads(m.file[Store!Primary]), ~Store!Loads(m.file[Store!Recovery]), \E g \in Store!Backups(t) : Store!Loads(g)
      PROVE  Store!Newest(t) \in Store!Backups(t) /\ Store!Loads(Store!Newest(t)) /\ Store!Newest(t).v >= m.acked
  <2> DEFINE L == {g \in Store!Backups(t) : Store!Loads(g)}
  <2>1. Store!Backups(t) \subseteq Copies
    BY <1>1 DEF Store!Backups, Copies
  <2>2. L \subseteq Store!Contents /\ L # {}
    BY <1>5, <2>1, StoreShape, CopyShape
  <2>3. \E f \in L : \A g \in L : g.t <= f.t
    <3> HIDE DEF L
    <3> QED
      BY <2>2, NewestExists
  <2>4. Store!Newest(t) \in L /\ \A g \in L : g.t <= Store!Newest(t).t
    <3>1. Store!Newest(t) = CHOOSE f \in L : \A g \in L : g.t <= f.t
      BY DEF Store!Newest
    <3> QED
      BY <2>3, <3>1
  <2>5. CASE m.acked = 0
    BY <1>2, <2>1, <2>4, <2>5
  <2>6. CASE m.acked > 0
    <3>1. PICK b \in t.moved : Store!Loads(b.is) /\ Leads(b) /\ m.file[b.of] = Store!None
      BY <1>4, <1>5, <2>6
    <3>2. b.is \in L /\ b \in m.moved /\ b.of \in Store!Slots
      BY <1>1, <3>1, StoreShape DEF Store!Backups
    <3>3. ~(Store!Newest(t).t < b.is.t)
      BY <1>2, <2>1, <2>4, <3>2
    <3> QED
      BY <1>2, <2>1, <2>4, <3>1, <3>2, <3>3 DEF Disk, FresherWins
  <2> QED
    BY <1>2, <2>4, <2>5, <2>6
<1>6. ASSUME ~Store!Loads(m.file[Store!Primary]), ~Store!Loads(m.file[Store!Recovery]), ~\E g \in Store!Backups(t) : Store!Loads(g)
      PROVE  m.acked = 0
  BY <1>2, <1>4, <1>6 DEF Store!Backups
<1> QED
  BY <1>1, <1>3, <1>5, <1>6

-----------------------------------------------------------------------------
(* The steps *)

\* A write begins: nothing has its time yet.
LEMMA WriteBegins ==
  ASSUME m \in Stores, Disk, m' \in Stores,
         m'.file = m.file, m'.moved \subseteq m.moved, m'.old \in {m.old, Store!None},
         m'.backup = m.backup, m'.damage = m.damage, m'.acked <= m.acked,
         \A b \in m.moved : b \in m'.moved \/ Store!Loads(m.file[b.of]),
         m'.writes = m.writes + 1, m'.pc = "replace", m'.at = Store!Primary, m'.goal >= m'.acked,
         m'.task # "init" => m'.mem >= m'.acked, m'.task = "save" => m'.goal <= m'.saves
  PROVE  Disk' /\ WriteStands'
<1>1. m.writes \in Nat /\ m.acked \in Nat /\ m'.acked \in Nat
  BY DEF Stores
<1>2. Disk' /\ Copies' \subseteq Copies \cup {Store!None}
  BY <1>1, DiskSwept
<1>3. \A x \in Copies' : x.t \in Int /\ x.t < m'.writes
  BY <1>1, <1>2, StoreShape, CopyShape DEF Disk, TimesPass
<1>4. \A x \in Copies' : x.t # m'.writes
  BY <1>1, <1>3
<1>5. Store!Primary # Store!Recovery
  BY DEF Store!Primary, Store!Recovery
<1> QED
  BY <1>1, <1>2, <1>4, <1>5 DEF WriteStands

LEMMA SaveStep == ASSUME StoreLimits, StoreInv, Store!Save PROVE StoreInv'
<1>1. /\ m.pc = "up" /\ m.saves < MaxSaves /\ m.writes < MaxWrites
      /\ m' = [m EXCEPT !.saves = m.saves + 1, !.pc = "replace", !.at = Store!Primary, !.task = "save",
                        !.goal = m.saves + 1, !.writes = m.writes + 1]
  BY DEF Store!Save, Store!Persist, StoreInv, Stores
<1>2. m' \in Stores
  <2>1. m.saves + 1 \in 0 .. MaxSaves /\ m.writes + 1 \in 0 .. MaxWrites /\ Store!Primary \in Store!Slots
    BY <1>1 DEF StoreInv, Stores, Store!Slots, StoreLimits
  <2> QED
    BY <1>1, <2>1, Zenon DEF StoreInv, Stores
<1>3. /\ m'.file = m.file /\ m'.moved = m.moved /\ m'.old = m.old /\ m'.backup = m.backup
      /\ m'.damage = m.damage /\ m'.acked = m.acked /\ m'.writes = m.writes + 1 /\ m'.mem = m.mem
      /\ m'.pc = "replace" /\ m'.at = Store!Primary /\ m'.goal = m.saves + 1 /\ m'.saves = m.saves + 1
      /\ m'.task = "save"
      /\ m.saves \in Int /\ m.acked \in Int
  BY <1>1 DEF StoreInv, Stores
<1>4. Disk' /\ WriteStands'
  BY <1>1, <1>2, <1>3, WriteBegins DEF StoreInv, MemHolds
<1>5. MemHolds'
  BY <1>3 DEF StoreInv, MemHolds
<1> QED
  BY <1>2, <1>4, <1>5 DEF StoreInv

LEMMA RestoreStep == ASSUME StoreLimits, StoreInv, Store!Restore PROVE StoreInv'
<1> DEFINE low == IF m.backup.v < m.acked THEN m.backup.v ELSE m.acked
<1>1. /\ m.pc = "up" /\ m.backup # Store!None /\ m.writes < MaxWrites
      /\ m' = [m EXCEPT !.acked = low, !.pc = "replace", !.at = Store!Primary, !.task = "restore",
                        !.goal = m.backup.v, !.writes = m.writes + 1]
  BY DEF Store!Restore, Store!Persist, StoreInv, Stores
<1>2. m.backup.v \in 0 .. MaxSaves /\ m.acked \in 0 .. MaxSaves /\ m.saves \in Int /\ m.mem \in Int
  BY <1>1, StoreShape, CopyShape DEF StoreInv
<1>3. low \in 0 .. MaxSaves /\ low <= m.acked /\ low <= m.backup.v
  BY <1>2
<1> HIDE DEF low
<1>4. m' \in Stores
  <2>1. m.writes + 1 \in 0 .. MaxWrites /\ Store!Primary \in Store!Slots
    BY <1>1 DEF StoreInv, Stores, Store!Slots, StoreLimits
  <2> QED
    BY <1>1, <1>2, <1>3, <2>1, Zenon DEF StoreInv, Stores
<1>5. /\ m'.file = m.file /\ m'.moved = m.moved /\ m'.old = m.old /\ m'.backup = m.backup
      /\ m'.damage = m.damage /\ m'.acked = low /\ m'.writes = m.writes + 1 /\ m'.mem = m.mem
      /\ m'.pc = "replace" /\ m'.at = Store!Primary /\ m'.goal = m.backup.v /\ m'.saves = m.saves
      /\ m'.task = "restore"
  BY <1>1 DEF StoreInv, Stores
<1>6. m.mem >= low /\ low <= m.saves
  BY <1>1, <1>2, <1>3 DEF StoreInv, MemHolds
<1>7. Disk' /\ WriteStands'
  BY <1>3, <1>4, <1>5, <1>6, WriteBegins DEF StoreInv
<1>8. MemHolds'
  BY <1>5, <1>6 DEF MemHolds
<1> QED
  BY <1>4, <1>7, <1>8 DEF StoreInv

\* A step of the process that leaves every file alone and writes nothing.
LEMMA ProcessStep ==
  ASSUME StoreInv, NEW pc \in {"down", "up", "failed"}, NEW mem \in -1 .. MaxSaves,
         pc = "up" => mem >= m.acked,
         m' = [m EXCEPT !.pc = pc, !.mem = mem]
  PROVE  StoreInv'
<1>1. m' \in Stores /\ m'.pc = pc /\ m'.mem = mem /\ m'.acked = m.acked /\ m'.saves = m.saves
  BY Zenon DEF StoreInv, Stores
<1>2. Disk'
  BY DiskStays DEF StoreInv, Stores
<1> QED
  BY <1>1, <1>2 DEF StoreInv, WriteStands, MemHolds

LEMMA CrashStep == ASSUME StoreLimits, StoreInv, Store!Crash PROVE StoreInv'
<1>1. m' = [m EXCEPT !.pc = "down", !.mem = -1] /\ -1 \in -1 .. MaxSaves
  BY DEF Store!Crash, StoreInv, Stores, StoreLimits
<1> QED
  BY <1>1, ProcessStep, Zenon

LEMMA FailsStep == ASSUME StoreInv, Store!Fails PROVE StoreInv'
<1>1. PICK pc \in {"up", "failed"} :
         m' = [m EXCEPT !.pc = pc] /\ (pc = "up" => m.task # "init")
  BY DEF Store!Fails, Store!Throw
<1>2. m' = [m EXCEPT !.pc = pc, !.mem = m.mem] /\ m.mem \in -1 .. MaxSaves
  BY <1>1, Zenon DEF StoreInv, Stores
<1>3. pc = "up" => m.mem >= m.acked
  BY <1>1 DEF Store!Fails, StoreInv, WriteStands
<1> QED
  BY <1>2, <1>3, ProcessStep, Zenon

LEMMA WrittenStep ==
  ASSUME StoreInv, m.pc \in {"replace", "swap"}, NEW moved \in SUBSET m.moved,
         \A b \in m.moved : b \in moved \/ b.of = m.at,
         m' = [m EXCEPT !.file[m.at] = Store!File(m.goal, m.writes), !.pc = "verify", !.moved = moved]
  PROVE  StoreInv'
<1>1. /\ m'.file = [m.file EXCEPT ![m.at] = Store!File(m.goal, m.writes)] /\ m'.moved = moved
      /\ m'.old = m.old /\ m'.backup = m.backup /\ m'.damage = m.damage /\ m'.acked = m.acked
      /\ m'.writes = m.writes /\ m'.goal = m.goal /\ m'.pc = "verify" /\ m'.at = m.at
      /\ m'.task = m.task /\ m'.mem = m.mem /\ m'.saves = m.saves
  BY DEF StoreInv, Stores
<1>2. Store!File(m.goal, m.writes) \in Copy /\ Store!File(m.goal, m.writes).t = m.writes
  BY StoreShape, NewFile, CopyShape DEF StoreInv
<1>3. m' \in Stores
  BY <1>1, <1>2, Zenon DEF StoreInv, Stores
<1>4. Disk' /\ \A x \in Copies' : x.t = m.writes => x.v = m.goal
  BY <1>1, DiskWritten DEF StoreInv
<1>5. m'.file[m.at].t = m.writes
  BY <1>1, <1>2, StoreShape DEF StoreInv
<1>6. m.at = Store!Recovery => m'.file[Store!Primary].t = m.writes
  BY <1>1, StoreShape DEF StoreInv, WriteStands, Store!Primary, Store!Recovery
<1>7. WriteStands'
  BY <1>1, <1>4, <1>5, <1>6 DEF StoreInv, WriteStands
<1>8. MemHolds'
  BY <1>1 DEF StoreInv, MemHolds
<1> QED
  BY <1>3, <1>4, <1>7, <1>8 DEF StoreInv

LEMMA ReplaceStep == ASSUME StoreInv, Store!Replace PROVE StoreInv'
<1>1. CASE m' = [m EXCEPT !.file[m.at] = Store!File(m.goal, m.writes), !.pc = "verify"]
  <2>1. m' = [m EXCEPT !.file[m.at] = Store!File(m.goal, m.writes), !.pc = "verify", !.moved = m.moved]
    BY <1>1, Zenon DEF StoreInv, Stores
  <2> QED
    BY <2>1, WrittenStep, Zenon DEF Store!Replace
<1>2. CASE /\ m.file[m.at] # Store!None
           /\ m' = [m EXCEPT !.moved = @ \cup {[of |-> m.at, is |-> m.file[m.at]]},
                             !.file[m.at] = Store!None, !.pc = "swap"]
  <2>1. m.pc = "replace"
    BY DEF Store!Replace
  <2>2. /\ m'.file = [m.file EXCEPT ![m.at] = Store!None]
        /\ m'.moved = m.moved \cup {[of |-> m.at, is |-> m.file[m.at]]}
        /\ m'.old = m.old /\ m'.backup = m.backup /\ m'.damage = m.damage /\ m'.acked = m.acked
        /\ m'.writes = m.writes /\ m'.goal = m.goal /\ m'.pc = "swap" /\ m'.at = m.at
        /\ m'.task = m.task /\ m'.mem = m.mem /\ m'.saves = m.saves
    BY <1>2 DEF StoreInv, Stores
  <2>3. [of |-> m.at, is |-> m.file[m.at]] \in Moved /\ Store!None \in Copy
    BY <1>2, StoreShape, CopyShape DEF StoreInv, Moved
  <2>4. m' \in Stores
    BY <1>2, <2>3, Zenon DEF StoreInv, Stores
  <2>5. Disk' /\ Copies' \subseteq Copies \cup {Store!None}
    BY <1>2, <2>2, DiskAside, StoreShape DEF StoreInv
  <2>6. m.at = Store!Recovery => m'.file[Store!Primary].t = m.writes
    BY <2>1, <2>2, StoreShape DEF StoreInv, WriteStands, Store!Primary, Store!Recovery
  <2>7. \A x \in Copies' : x.t = m.writes => x.v = m.goal
    BY <2>1, <2>5, CopyShape DEF StoreInv, WriteStands
  <2>8. WriteStands'
    BY <2>1, <2>2, <2>6, <2>7, StoreShape DEF StoreInv, WriteStands
  <2>9. MemHolds'
    BY <2>2 DEF StoreInv, MemHolds
  <2> QED
    BY <2>4, <2>5, <2>8, <2>9 DEF StoreInv
<1> QED
  BY <1>1, <1>2 DEF Store!Replace

LEMMA SwapStep == ASSUME StoreInv, Store!Swap PROVE StoreInv'
<1>1. /\ m.pc = "swap" /\ m.file[m.at] = Store!None
      /\ m.task # "init" => m.mem >= m.acked
  BY Zenon DEF Store!Swap, StoreInv, WriteStands
<1>2. PICK b \in m.moved :
        /\ b.of = m.at /\ \A c \in m.moved : c.of = m.at => c.is.t <= b.is.t
        /\ \/ \E kept \in BOOLEAN :
                m' = [m EXCEPT !.file[m.at] = Store!File(m.goal, m.writes), !.pc = "verify",
                               !.moved = IF kept THEN @ ELSE @ \ {b}]
           \/ m' = Store!Throw([m EXCEPT !.file[m.at] = b.is, !.moved = @ \ {b}])
           \/ m' = Store!Throw(m)
  BY Zenon DEF Store!Swap
<1>3. CASE \E kept \in BOOLEAN :
             m' = [m EXCEPT !.file[m.at] = Store!File(m.goal, m.writes), !.pc = "verify",
                            !.moved = IF kept THEN @ ELSE @ \ {b}]
  <2>1. PICK moved \in SUBSET m.moved :
          /\ \A c \in m.moved : c \in moved \/ c.of = m.at
          /\ m' = [m EXCEPT !.file[m.at] = Store!File(m.goal, m.writes), !.pc = "verify",
                            !.moved = moved]
    <3>1. PICK kept \in BOOLEAN :
            m' = [m EXCEPT !.file[m.at] = Store!File(m.goal, m.writes), !.pc = "verify",
                           !.moved = IF kept THEN m.moved ELSE m.moved \ {b}]
      BY <1>3, Zenon DEF StoreInv, Stores
    <3>2. CASE kept
      BY <3>1, <3>2, Zenon
    <3>3. CASE ~kept
      BY <1>2, <3>1, <3>3, Zenon
    <3> QED
      BY <3>2, <3>3, Zenon
  <2> QED
    BY <1>1, <2>1, WrittenStep, Zenon
<1>4. CASE m' = Store!Throw([m EXCEPT !.file[m.at] = b.is, !.moved = @ \ {b}])
  <2>1. PICK pc \in {"up", "failed"} :
          /\ m' = [m EXCEPT !.file[m.at] = b.is, !.moved = m.moved \ {b}, !.pc = pc]
          /\ pc = "up" => m.task # "init"
    BY <1>4, Zenon DEF Store!Throw, StoreInv, Stores
  <2>2. /\ m'.file = [m.file EXCEPT ![m.at] = b.is] /\ m'.moved = m.moved \ {b}
        /\ m'.old = m.old /\ m'.backup = m.backup /\ m'.damage = m.damage /\ m'.acked = m.acked
        /\ m'.writes = m.writes /\ m'.pc = pc /\ m'.mem = m.mem /\ m'.saves = m.saves
    BY <2>1 DEF StoreInv, Stores
  <2>3. b.is \in Copy
    BY StoreShape, CopyShape DEF StoreInv
  <2>4. m' \in Stores
    BY <2>1, <2>3, Zenon DEF StoreInv, Stores
  <2>5. Disk'
    <3>1. Leads(b)
      BY <1>2, Zenon DEF Leads
    <3> QED
      BY <1>1, <1>2, <2>2, <3>1, DiskBack, Zenon DEF StoreInv
  <2>6. WriteStands' /\ MemHolds'
    BY <1>1, <2>1, <2>2 DEF StoreInv, WriteStands, MemHolds
  <2> QED
    BY <2>4, <2>5, <2>6 DEF StoreInv
<1>5. CASE m' = Store!Throw(m)
  <2>1. PICK pc \in {"up", "failed"} :
          m' = [m EXCEPT !.pc = pc] /\ (pc = "up" => m.task # "init")
    BY <1>5 DEF Store!Throw
  <2>2. m' = [m EXCEPT !.pc = pc, !.mem = m.mem] /\ m.mem \in -1 .. MaxSaves
    BY <2>1, Zenon DEF StoreInv, Stores
  <2> QED
    BY <1>1, <2>1, <2>2, ProcessStep, Zenon
<1> QED
  BY <1>2, <1>3, <1>4, <1>5, Zenon

LEMMA GoalIsState == ASSUME m \in Stores PROVE m.goal \in -1 .. MaxSaves
<1>1. m.goal \in 0 .. MaxSaves
  BY DEF Stores
<1> QED
  BY <1>1

LEMMA VerifiedStep == ASSUME StoreInv, Store!Verified PROVE StoreInv'
<1>1. m.pc = "verify" /\ m.file[m.at].t = m.writes /\ m.writes > 0 /\ m.goal >= m.acked
  BY DEF Store!Verified, StoreInv, WriteStands
<1>2. CASE ~Store!LastFile
  <2>1. m' = [m EXCEPT !.pc = "replace", !.at = Store!Recovery] /\ m.at = Store!Primary /\ Store!Recovery \in Store!Slots
    BY <1>2, StoreShape DEF StoreInv, Store!Verified, Store!LastFile
  <2>2. /\ m'.file = m.file /\ m'.moved = m.moved /\ m'.old = m.old /\ m'.backup = m.backup
        /\ m'.damage = m.damage /\ m'.acked = m.acked /\ m'.writes = m.writes /\ m'.mem = m.mem
        /\ m'.pc = "replace" /\ m'.at = Store!Recovery /\ m'.goal = m.goal /\ m'.saves = m.saves
        /\ m'.task = m.task /\ m' \in Stores
    BY <2>1, Zenon DEF StoreInv, Stores
  <2>3. Disk' /\ Copies' = Copies
    BY <2>2, DiskStays DEF StoreInv
  <2>4. WriteStands'
    BY <1>1, <2>1, <2>2, <2>3 DEF StoreInv, WriteStands
  <2>5. MemHolds'
    BY <2>2 DEF StoreInv, MemHolds
  <2> QED
    BY <2>2, <2>3, <2>4, <2>5 DEF StoreInv
<1>3. CASE Store!LastFile /\ m.task # "save"
  <2>1. m' = [m EXCEPT !.pc = "up", !.mem = m.goal, !.acked = m.acked]
    BY <1>3 DEF Store!Verified
  <2>2. m' = [m EXCEPT !.pc = "up", !.mem = m.goal]
    BY <2>1, Zenon DEF StoreInv, Stores
  <2>3. m.goal \in -1 .. MaxSaves
    BY GoalIsState DEF StoreInv
  <2>4. PICK pc \in {"down", "up", "failed"}, mem \in -1 .. MaxSaves :
          pc = "up" /\ mem = m.goal
    BY <2>3
  <2>5. m' = [m EXCEPT !.pc = pc, !.mem = mem] /\ mem >= m.acked
    BY <1>1, <2>2, <2>4
  <2> QED
    BY <2>5, ProcessStep, Zenon
<1>4. CASE Store!LastFile /\ m.task = "save"
  <2>1. m' = [m EXCEPT !.pc = "up", !.mem = m.goal, !.acked = m.goal] /\ m.at = Store!Recovery
    BY <1>4 DEF StoreInv, Stores, Store!Verified, Store!LastFile
  <2>2. /\ m'.file = m.file /\ m'.moved = m.moved /\ m'.old = m.old /\ m'.backup = m.backup
        /\ m'.damage = m.damage /\ m'.acked = m.goal /\ m'.writes = m.writes /\ m'.mem = m.goal
        /\ m'.pc = "up" /\ m'.saves = m.saves
    BY <2>1 DEF StoreInv, Stores
  <2>10. m' \in Stores
    <3>1. m.goal \in -1 .. MaxSaves /\ m.goal \in 0 .. MaxSaves
      BY GoalIsState, StoreShape DEF StoreInv
    <3> QED
      BY <2>1, <3>1, Zenon DEF StoreInv, Stores
  <2>3. \A f \in Store!Slots : m.file[f].t = m.writes /\ m.file[f] # Store!None
    BY <1>1, <2>1, StoreShape, CopyShape DEF StoreInv, WriteStands
  <2>4. Copies' = Copies /\ \A b : Leads(b)' <=> Leads(b)
    BY <2>2 DEF Copies, Leads
  <2>5. /\ m.writes \in Int /\ m.goal \in Int /\ \A x \in Copies : x.t \in Int /\ x.v \in Int
    BY StoreShape, CopyShape DEF StoreInv
  <2>6. \A x \in Copies : x.v < m.goal => x.t < m.writes
    <3>1. \A x \in Copies : x.t <= m.writes
      BY DEF StoreInv, Disk, TimesPass
    <3>2. \A x \in Copies : x.t = m.writes => x.v = m.goal
      BY <1>1 DEF StoreInv, WriteStands
    <3> QED
      BY <2>5, <3>1, <3>2
  <2>7. FresherWins'
    BY <2>2, <2>3, <2>4, <2>6 DEF FresherWins
  <2>8. TimesPass' /\ BothHold' /\ OneDamage'
    BY <2>2, <2>3, <2>4 DEF StoreInv, Disk, TimesPass, BothHold, OneDamage
  <2>9. WriteStands' /\ MemHolds'
    BY <1>1, <1>4, <2>2, <2>5 DEF StoreInv, WriteStands, MemHolds
  <2> QED
    BY <2>10, <2>7, <2>8, <2>9 DEF StoreInv, Disk
<1> QED
  BY <1>2, <1>3, <1>4

LEMMA BackupStep == ASSUME StoreLimits, StoreInv, Store!Backup PROVE StoreInv'
<1> DEFINE now == m.writes + 1
           copy == [m.file[Store!Primary] EXCEPT !.t = now]
<1>1. /\ m.pc = "up" /\ m.file[Store!Primary].kind = "encrypted" /\ m.writes < MaxWrites
      /\ m' = [m EXCEPT !.backup = copy, !.writes = now]
  BY DEF Store!Backup, StoreInv, Stores
<1>2. now \in 0 .. MaxWrites /\ now \in Int /\ m.writes \in Int /\ m.writes < now /\ m.writes >= 0
  BY <1>1 DEF StoreInv, Stores, StoreLimits
<1>3. m.file[Store!Primary] \in Store!Contents /\ Store!Loads(m.file[Store!Primary])
  <2>1. Store!Loads(m.file[Store!Primary])
    BY <1>1 DEF Store!Loads
  <2> QED
    BY <2>1, StoreShape, CopyShape DEF StoreInv
<1>4. copy \in Store!Contents /\ copy.t = now /\ copy.v = m.file[Store!Primary].v /\ ~Broken(copy)
  BY <1>1, <1>2, <1>3 DEF Store!Contents, Broken
<1>5. m.file[Store!Primary].v >= m.acked
  <2>1. m.file[Store!Primary] \in Copies /\ m.file[Store!Primary] # Store!None /\ Store!Primary \in Store!Slots
    BY <1>3, StoreShape, CopyShape DEF Copies, StoreInv
  <2>2. ~(m.file[Store!Primary].t < m.file[Store!Primary].t)
    BY <2>1, StoreShape, CopyShape DEF StoreInv
  <2>3. ~(m.file[Store!Primary].v < m.acked)
    BY <1>3, <2>1, <2>2 DEF StoreInv, Disk, FresherWins
  <2> QED
    BY <2>1, <2>3, StoreShape, CopyShape DEF StoreInv
<1> HIDE DEF copy, now
<1>6. /\ m'.file = m.file /\ m'.moved = m.moved /\ m'.old = m.old /\ m'.backup = copy
      /\ m'.damage = m.damage /\ m'.acked = m.acked /\ m'.writes = now /\ m'.mem = m.mem
      /\ m'.pc = "up" /\ m'.saves = m.saves
  BY <1>1 DEF StoreInv, Stores
<1>7. m' \in Stores
  <2>1. copy \in Copy
    BY <1>4, CopyShape
  <2> QED
    BY <1>1, <1>2, <2>1, Zenon DEF StoreInv, Stores
<1>8. Copies' \subseteq Copies \cup {copy} /\ \A b : Leads(b)' <=> Leads(b)
  BY <1>6 DEF Copies, Leads
<1>9. \A x \in Copies : x.t \in Int /\ x.t <= m.writes
  BY StoreShape, CopyShape DEF StoreInv, Disk, TimesPass
<1>10. TimesPass'
  <2>1. \A x \in Copies' : x.t <= now
    BY <1>2, <1>4, <1>8, <1>9
  <2> QED
    BY <1>6, <2>1 DEF StoreInv, Disk, TimesPass
<1>11. BothHold'
  BY <1>6, <1>8 DEF StoreInv, Disk, BothHold
<1>12. FresherWins'
  <2>1. SUFFICES ASSUME NEW x \in Copies', Store!Loads(x), x.v < m.acked, NEW f \in Store!Slots
                 PROVE  /\ m.file[f] # Store!None => x.t < m.file[f].t
                        /\ m.file[f] = Store!None =>
                             \A b \in m.moved : b.of = f /\ Leads(b) => x.t < b.is.t
    BY <1>6, <1>8 DEF FresherWins
  <2>2. x # copy
    BY <1>3, <1>4, <1>5, <2>1, StoreShape, CopyShape DEF StoreInv
  <2> QED
    BY <1>8, <2>1, <2>2 DEF StoreInv, Disk, FresherWins
<1>13. OneDamage'
  BY <1>4, <1>6 DEF StoreInv, Disk, OneDamage
<1>14. WriteStands' /\ MemHolds'
  BY <1>1, <1>6 DEF StoreInv, WriteStands, MemHolds
<1> QED
  BY <1>7, <1>10, <1>11, <1>12, <1>13, <1>14 DEF StoreInv, Disk

LEMMA DamageStep == ASSUME StoreLimits, OneFault, StoreInv, NEW f \in Store!Slots, Store!Damage(f) PROVE StoreInv'
<1>1. /\ m.file[f] # Store!None /\ m.damage = 0 /\ MaxDamage = 1
      /\ m' = [m EXCEPT !.file[f].kind = "damaged", !.damage = 1]
  <2>1. m.damage = 0 /\ MaxDamage = 1
    BY DEF Store!Damage, StoreInv, Stores, OneFault
  <2> QED
    BY <2>1 DEF Store!Damage, StoreInv, Stores
<1>2. /\ m'.file = [m.file EXCEPT ![f].kind = "damaged"] /\ m'.moved = m.moved
      /\ m'.old = m.old /\ m'.backup = m.backup /\ m'.damage = 1 /\ m'.acked = m.acked
      /\ m'.writes = m.writes /\ m'.mem = m.mem /\ m'.pc = m.pc /\ m'.saves = m.saves
      /\ m'.goal = m.goal /\ m'.task = m.task /\ m'.at = m.at
  BY <1>1 DEF StoreInv, Stores
<1>3. [m.file[f] EXCEPT !.kind = "damaged"] \in Store!Contents /\ m.file[f] \in Store!Contents
  <2>1. m.file[f] \in Store!Contents
    BY <1>1, StoreShape, CopyShape DEF StoreInv
  <2> QED
    BY <2>1 DEF Store!Contents
<1>4. m' \in Stores
  <2>1. m'.file \in [Store!Slots -> Copy]
    BY <1>2, <1>3, StoreShape, CopyShape DEF StoreInv
  <2>2. 1 \in 0 .. MaxDamage
    BY <1>1
  <2> QED
    BY <1>1, <1>2, <2>1, <2>2, Zenon DEF StoreInv, Stores
<1>5. Disk' /\ \A x \in Copies' : \E y \in Copies : x.t = y.t /\ x.v = y.v
  BY <1>1, <1>2, DiskDamaged DEF StoreInv
<1>6. /\ \A g \in Store!Slots : m'.file[g].t = m.file[g].t
      /\ \A g \in Store!Slots : g # f => m'.file[g] = m.file[g]
  BY <1>2, <1>3, StoreShape DEF StoreInv, Store!Contents
<1>7. WriteStands'
  <2>1. \A x \in Copies' : (\A y \in Copies : y.t = m.writes => y.v = m.goal) =>
                            (x.t = m.writes => x.v = m.goal)
    BY <1>5
  <2>2. m.pc = "swap" => m'.file[m.at] = Store!None
    BY <1>1, <1>6, StoreShape DEF StoreInv, WriteStands
  <2>3. m.at \in Store!Slots /\ Store!Primary \in Store!Slots
    BY StoreShape DEF StoreInv
  <2> QED
    BY <1>2, <1>6, <2>1, <2>2, <2>3 DEF StoreInv, WriteStands
<1>8. MemHolds'
  BY <1>2 DEF StoreInv, MemHolds
<1> QED
  BY <1>4, <1>5, <1>7, <1>8 DEF StoreInv

\* A start goes on with the state of f, written first or not.
LEMMA TakeStep ==
  ASSUME StoreLimits, StoreInv, m.pc \in {"down", "failed"}, NEW kept \in SUBSET m.moved,
         NEW f, f.v \in 0 .. MaxSaves, f.v >= m.acked, NEW write \in BOOLEAN,
         Store!Take(Store!Sweep(kept), f, write)
  PROVE  StoreInv'
<1>1. PICK moved \in SUBSET m.moved :
        /\ \A b \in m.moved : b \in moved \/ Store!Loads(m.file[b.of])
        /\ Store!Sweep(kept) = [m EXCEPT !.moved = moved]
  BY Zenon DEF Store!Sweep, Store!Residue, StoreInv, Stores
<1>2. PICK old \in {m.old, Store!None} :
        IF write
        THEN Store!Persist([m EXCEPT !.moved = moved, !.old = old], f.v, "init")
        ELSE m' = [m EXCEPT !.moved = moved, !.old = old, !.pc = "up", !.mem = f.v]
  <2>1. Store!Sweep(kept).old = m.old
    BY <1>1 DEF StoreInv, Stores
  <2> QED
    BY <1>1, <2>1, Zenon DEF Store!Take, StoreInv, Stores
<1>3. old \in Copy /\ moved \subseteq Moved /\ f.v \in -1 .. MaxSaves /\ f.v \in Int
      /\ m.acked \in Int /\ m.acked >= 0
  <2>1. f.v \in -1 .. MaxSaves
    OBVIOUS
  <2> QED
    BY <2>1, StoreShape, CopyShape DEF StoreInv
<1>4. CASE write
  <2>1. /\ m.writes < MaxWrites
        /\ m' = [m EXCEPT !.moved = moved, !.old = old, !.pc = "replace", !.at = Store!Primary,
                          !.task = "init", !.goal = f.v, !.writes = m.writes + 1]
    BY <1>2, <1>4 DEF Store!Persist, StoreInv, Stores
  <2>2. m.writes + 1 \in 0 .. MaxWrites /\ Store!Primary \in Store!Slots
    BY <2>1 DEF StoreInv, Stores, Store!Slots, StoreLimits
  <2>3. m' \in Stores
    BY <1>3, <2>1, <2>2, Zenon DEF StoreInv, Stores
  <2>4. /\ m'.file = m.file /\ m'.moved = moved /\ m'.old = old /\ m'.backup = m.backup
        /\ m'.damage = m.damage /\ m'.acked = m.acked /\ m'.writes = m.writes + 1
        /\ m'.pc = "replace" /\ m'.at = Store!Primary /\ m'.goal = f.v /\ m'.saves = m.saves
        /\ m'.task = "init"
    BY <2>1 DEF StoreInv, Stores
  <2>5. Disk' /\ WriteStands'
    BY <1>1, <1>3, <2>3, <2>4, WriteBegins DEF StoreInv
  <2>6. MemHolds'
    BY <2>4 DEF StoreInv, MemHolds
  <2> QED
    BY <2>3, <2>5, <2>6 DEF StoreInv
<1>5. CASE ~write
  <2>1. m' = [m EXCEPT !.moved = moved, !.old = old, !.pc = "up", !.mem = f.v]
    BY <1>2, <1>5
  <2>2. m' \in Stores
    BY <1>3, <2>1, Zenon DEF StoreInv, Stores
  <2>3. /\ m'.file = m.file /\ m'.moved = moved /\ m'.old = old /\ m'.backup = m.backup
        /\ m'.damage = m.damage /\ m'.acked = m.acked /\ m'.writes = m.writes /\ m'.mem = f.v
        /\ m'.pc = "up" /\ m'.saves = m.saves
    BY <2>1 DEF StoreInv, Stores
  <2>4. m.acked \in Nat /\ m.writes \in Int
    BY DEF StoreInv, Stores
  <2>5. Disk'
    BY <1>1, <2>3, <2>4, DiskSwept DEF StoreInv
  <2>6. WriteStands' /\ MemHolds'
    BY <2>3 DEF StoreInv, WriteStands, MemHolds
  <2> QED
    BY <2>2, <2>5, <2>6 DEF StoreInv
<1> QED
  BY <1>4, <1>5

LEMMA StartStep == ASSUME StoreLimits, StoreInv, Store!Start PROVE StoreInv'
<1>1. PICK kept \in SUBSET m.moved :
        LET t == Store!Sweep(kept)  p == t.file[Store!Primary]  r == t.file[Store!Recovery] IN
        \/ Store!Loads(p) /\ Store!Take(t, p, p.kind = "plain")
        \/ ~Store!Loads(p) /\ Store!Loads(r) /\ Store!Take(t, r, TRUE)
        \/ /\ ~Store!Loads(p) /\ ~Store!Loads(r)
           /\ IF \E g \in Store!Backups(t) : Store!Loads(g)
              THEN Store!Take(t, Store!Newest(t), TRUE)
              ELSE Store!Take(t, Store!File(0, 0), TRUE)
  BY Zenon DEF Store!Start
<1> DEFINE t == Store!Sweep(kept)
<1>2. m.pc \in {"down", "failed"} /\ m \in Stores /\ Disk
  BY DEF Store!Start, StoreInv
<1>3. /\ \A f \in Store!Slots : Store!Loads(t.file[f]) => t.file[f].v >= m.acked
      /\ ~Store!Loads(t.file[Store!Primary]) /\ ~Store!Loads(t.file[Store!Recovery]) =>
           IF \E g \in Store!Backups(t) : Store!Loads(g)
           THEN /\ Store!Newest(t) \in Store!Backups(t) /\ Store!Loads(Store!Newest(t)) /\ Store!Newest(t).v >= m.acked
           ELSE m.acked = 0
  BY <1>2, StartFindsAcked
<1>4. Store!Primary \in Store!Slots /\ Store!Recovery \in Store!Slots
  BY <1>2, StoreShape
<1>5. /\ \A f \in Store!Slots : Store!Loads(t.file[f]) => t.file[f].v \in 0 .. MaxSaves
      /\ \A g \in Store!Backups(t) : Store!Loads(g) => g.v \in 0 .. MaxSaves
  <2>1. t.file = m.file /\ t.moved \subseteq m.moved /\ t.old = m.old /\ t.backup = m.backup
    BY <1>2 DEF Store!Sweep, Stores
  <2>2. Store!Backups(t) \subseteq Copy
    BY <1>2, <2>1, StoreShape, CopyShape DEF Store!Backups
  <2> QED
    BY <1>2, <2>1, <2>2, StoreShape, CopyShape
<1>6. CASE Store!Loads(t.file[Store!Primary]) /\ Store!Take(t, t.file[Store!Primary], t.file[Store!Primary].kind = "plain")
  BY <1>2, <1>3, <1>4, <1>5, <1>6, TakeStep, Zenon
<1>7. CASE Store!Loads(t.file[Store!Recovery]) /\ Store!Take(t, t.file[Store!Recovery], TRUE)
  BY <1>2, <1>3, <1>4, <1>5, <1>7, TakeStep, Zenon
<1>8. CASE /\ ~Store!Loads(t.file[Store!Primary]) /\ ~Store!Loads(t.file[Store!Recovery])
           /\ \E g \in Store!Backups(t) : Store!Loads(g)
           /\ Store!Take(t, Store!Newest(t), TRUE)
  BY <1>2, <1>3, <1>5, <1>8, TakeStep, Zenon
<1>9. CASE /\ ~Store!Loads(t.file[Store!Primary]) /\ ~Store!Loads(t.file[Store!Recovery])
           /\ ~\E g \in Store!Backups(t) : Store!Loads(g)
           /\ Store!Take(t, Store!File(0, 0), TRUE)
  <2>1. Store!File(0, 0).v \in 0 .. MaxSaves /\ Store!File(0, 0).v >= m.acked
    BY <1>3, <1>9 DEF Store!File, StoreLimits
  <2> QED
    BY <1>2, <1>9, <2>1, TakeStep, Zenon
<1> QED
  BY <1>1, <1>6, <1>7, <1>8, <1>9, Zenon

-----------------------------------------------------------------------------
(* The theorem *)

LEMMA StartHolds == ASSUME StoreLimits, OneFault, Store!Init PROVE StoreInv
<1>1. PICK p \in {Store!None, [v |-> 0, t |-> 0, kind |-> "plain"]},
           o \in {Store!None, [v |-> 0, t |-> 0, kind |-> "plain"]} :
        m = [file |-> [f \in Store!Slots |-> IF f = Store!Primary THEN p ELSE Store!None],
             moved |-> {}, old |-> o, pc |-> "down", at |-> Store!Primary, task |-> "init", goal |-> 0,
             mem |-> -1, acked |-> 0, saves |-> 0, writes |-> 0, damage |-> 0,
             backup |-> Store!None]
  BY Zenon DEF Store!Init
<1>2. 0 \in 0 .. MaxSaves /\ 0 \in 0 .. MaxWrites /\ 0 \in 0 .. MaxDamage
      /\ -1 \in -1 .. MaxSaves /\ Store!Primary \in Store!Slots
  BY DEF StoreLimits, OneFault, Store!Slots
<1>3. /\ p \in Copy /\ p.t = 0 /\ ~Broken(p) /\ o \in Copy /\ o.t = 0 /\ ~Broken(o)
      /\ Store!None \in Copy /\ Store!None.t = 0 /\ ~Broken(Store!None)
  <2>1. [v |-> 0, t |-> 0, kind |-> "plain"] \in Store!Contents
    BY <1>2 DEF Store!Contents
  <2>2. ~Broken([v |-> 0, t |-> 0, kind |-> "plain"])
    BY DEF Broken
  <2> QED
    BY <2>1, <2>2, CopyShape
<1>4. /\ \A f \in Store!Slots : m.file[f] \in {p, Store!None}
      /\ m.moved = {} /\ m.old = o /\ m.backup = Store!None /\ m.pc = "down" /\ m.acked = 0
      /\ m.writes = 0 /\ m.saves = 0
  BY <1>1
<1>5. m \in Stores
  BY <1>1, <1>2, <1>3 DEF Stores
<1>6. TimesPass /\ OneDamage /\ BothHold
  BY <1>3, <1>4 DEF TimesPass, OneDamage, BothHold, Copies
<1>7. FresherWins
  BY <1>4, <1>5, StoreShape, CopyShape DEF FresherWins
<1> QED
  BY <1>4, <1>5, <1>6, <1>7 DEF StoreInv, Disk, WriteStands, MemHolds

LEMMA StepHolds == ASSUME StoreLimits, OneFault, StoreInv, [Store!Next]_m PROVE StoreInv'
<1>1. CASE UNCHANGED m
  <2>1. m' = [m EXCEPT !.pc = m.pc] /\ Disk'
    BY <1>1, DiskStays DEF StoreInv, Stores
  <2> QED
    BY <1>1, <2>1 DEF StoreInv, WriteStands, MemHolds, Copies
<1>2. ASSUME NEW f \in Store!Slots, Store!Damage(f) PROVE StoreInv'
  BY <1>2, DamageStep
<1> QED
  BY <1>1, <1>2, SaveStep, FailsStep, BackupStep, RestoreStep, StartStep, CrashStep,
     ReplaceStep, SwapStep, VerifiedStep DEF Store!Next

-----------------------------------------------------------------------------
(* The store and the lock in the desktop process *)

Guarded ==
  /\ part = "store" => StoreInv
  /\ part = "lock"  => LockInv

\* For any number of saves, writes and processes: a state whose save returned survives
\* every crash, every refused rename and one damaged file (secure-state.ts), and two
\* migrations never write it at once unless a reclaimer took a living one's claim or
\* judged a directory without a record (legacy-migration-exclusion.ts).
THEOREM StateKept ==
  ASSUME ProcsAssumption, StoreLimits, OneFault PROVE Spec => []StateIsSafe
<1>1. Init => Guarded
  BY LockStart, StartHolds DEF Init, Guarded
<1>2. Guarded /\ [Next]_vars => Guarded'
  <2> SUFFICES ASSUME Guarded, [Next]_vars PROVE Guarded'
    OBVIOUS
  <2>1. part' = part
    BY DEF Next, Of, vars
  <2>2. CASE part = "store"
    <3>1. [Store!Next]_m
      BY <2>2 DEF Next, Of, vars
    <3> QED
      BY <2>1, <2>2, <3>1, StepHolds DEF Guarded
  <2>3. CASE part = "lock"
    <3>1. [Lock!Next]_m
      BY <2>3 DEF Next, Of, vars
    <3> QED
      BY <2>1, <2>3, <3>1, LockStep DEF Guarded
  <2> QED
    BY <2>1, <2>2, <2>3 DEF Guarded
<1>3. Guarded => StateIsSafe
  BY LockMeaning DEF Guarded, StateIsSafe, StoreInv, MemHolds, Store!SavedSurvives
<1> QED
  BY <1>1, <1>2, <1>3, PTL DEF Spec

-----------------------------------------------------------------------------
(* The shell: leaving the application and updating it *)

ShellStates ==
  [quitting : BOOLEAN, controlled : BOOLEAN, gateway : {"up", "stopped", "error"},
   waits : SUBSET Sh!Waiters, leaving : BOOLEAN, stalled : BOOLEAN, watchdog : BOOLEAN,
   exit : {"no", "quit", "watchdog", "fatal", "deadline"},
   window : {"none", "shown", "hidden", "gone"}, tray : BOOLEAN, quits : Nat, eager : BOOLEAN,
   ignored : BOOLEAN,
   update : {"none", "checking", "available", "downloading", "ready", "upToDate", "error"},
   version : Versions \cup {0}, postponed : Versions \cup {0}, asks : {"none", "offer", "install"},
   manual : BOOLEAN, installing : BOOLEAN, checks : Nat]

\* While the gateway is up, a quit under way awaits its stop or was asked for twice, and
\* nothing that only follows a stop has happened.
StopComesFirst(x) ==
  x.gateway = "up" => /\ ~x.controlled /\ ~x.watchdog
                      /\ x.quitting => "quit" \in x.waits
                      /\ x.leaving => x.eager
                      /\ x.exit \in {"no", "deadline"} \/ x.eager

\* Whoever leaves is quitting; only a tray hides the window, and it is gone only in a quit.
LeavesByQuit(x) ==
  /\ x.leaving \/ "quit" \in x.waits => x.quitting
  /\ x.window = "hidden" => x.tray
  /\ x.window = "gone" => x.quitting \/ x.ignored

ShellHolds(x) == x \in ShellStates /\ StopComesFirst(x) /\ LeavesByQuit(x)
ShellInv == ShellHolds(m)

LEMMA ShellStart == Sh!Init => ShellInv
BY DEF Sh!Init, ShellInv, ShellHolds, ShellStates, StopComesFirst, LeavesByQuit, Sh!Waiters

\* The before-quit handler, from any state of which all but the last window's way out holds.
LEMMA QuitKeeps ==
  ASSUME NEW x \in ShellStates, StopComesFirst(x) \/ (x.controlled /\ x.gateway = "stopped"),
         x.leaving \/ "quit" \in x.waits => x.quitting, x.window = "hidden" => x.tray
  PROVE  /\ ShellHolds(Sh!Quit(x)) /\ (Sh!Quit(x).quitting \/ Sh!Quit(x).ignored)
         /\ Sh!Quit(x).quits = x.quits
<1>1. CASE x.quitting
  <2>1. PICK e \in BOOLEAN : e <=> x.eager \/ "quit" \in x.waits
    BY Zenon
  <2>2. Sh!Quit(x) = [x EXCEPT !.leaving = TRUE, !.eager = e]
    BY <1>1, <2>1, Zenon DEF Sh!Quit, ShellStates
  <2>3. Sh!Quit(x) \in ShellStates /\ Sh!Quit(x).quits = x.quits
    BY ZenonT(40), <2>1, <2>2 DEF ShellStates
  <2>4. StopComesFirst(Sh!Quit(x)) /\ LeavesByQuit(Sh!Quit(x)) /\ Sh!Quit(x).quitting
    BY <1>1, <2>1, <2>2 DEF ShellStates, StopComesFirst, LeavesByQuit
  <2> QED
    BY <2>3, <2>4 DEF ShellHolds
<1>2. CASE ~x.quitting /\ Sh!Blocked
  <2>1. Sh!Quit(x) = [x EXCEPT !.ignored = TRUE]
    BY <1>2 DEF Sh!Quit
  <2> QED
    BY ZenonT(40), <1>2, <2>1 DEF ShellHolds, ShellStates, StopComesFirst, LeavesByQuit
<1>3. CASE ~x.quitting /\ ~Sh!Blocked /\ x.controlled
  <2>1. Sh!Quit(x) = [x EXCEPT !.quitting = TRUE, !.leaving = TRUE]
    BY <1>3 DEF Sh!Quit
  <2> QED
    BY ZenonT(40), <1>3, <2>1 DEF ShellHolds, ShellStates, StopComesFirst, LeavesByQuit
<1>4. CASE ~x.quitting /\ ~Sh!Blocked /\ ~x.controlled
  <2>1. Sh!Quit(x) = [x EXCEPT !.quitting = TRUE, !.waits = x.waits \cup {"quit"}]
    BY <1>4 DEF Sh!Quit, ShellStates
  <2>2. Sh!Quit(x) \in ShellStates /\ Sh!Quit(x).quits = x.quits
    <3>1. x.waits \cup {"quit"} \in SUBSET Sh!Waiters
      BY DEF ShellStates, Sh!Waiters
    <3> QED
      BY <2>1, <3>1, Zenon DEF ShellStates
  <2>3. StopComesFirst(Sh!Quit(x)) /\ LeavesByQuit(Sh!Quit(x)) /\ Sh!Quit(x).quitting
    BY <1>4, <2>1 DEF ShellStates, StopComesFirst, LeavesByQuit
  <2> QED
    BY <2>2, <2>3 DEF ShellHolds
<1> QED
  BY <1>1, <1>2, <1>3, <1>4 DEF ShellStates

LEMMA QuitsKeep ==
  ASSUME ShellInv, Sh!AsksToQuit \/ Sh!ControlledClose \/ Sh!Closes PROVE ShellInv'
<1>1. CASE Sh!AsksToQuit
  <2>1. ShellHolds(Sh!Quit(m)) /\ Sh!Quit(m).quits \in Nat
    BY QuitKeeps DEF ShellInv, ShellHolds, LeavesByQuit, ShellStates
  <2>2. m' = [Sh!Quit(m) EXCEPT !.quits = Sh!Quit(m).quits + 1]
    BY <1>1, <2>1 DEF Sh!AsksToQuit, ShellHolds, ShellStates
  <2> QED
    BY <2>1, <2>2 DEF ShellInv, ShellHolds, ShellStates, StopComesFirst, LeavesByQuit
<1>2. CASE Sh!ControlledClose
  <2> DEFINE x == [m EXCEPT !.controlled = TRUE]
  <2>1. x \in ShellStates /\ x.controlled /\ x.gateway = "stopped"
        /\ (x.leaving \/ "quit" \in x.waits => x.quitting) /\ (x.window = "hidden" => x.tray)
    BY <1>2, Zenon DEF Sh!ControlledClose, ShellInv, ShellHolds, ShellStates, LeavesByQuit
  <2>2. m' = Sh!Quit(x)
    BY <1>2 DEF Sh!ControlledClose
  <2> HIDE DEF x
  <2> QED
    BY <2>1, <2>2, QuitKeeps DEF ShellInv
<1>3. CASE Sh!Closes
  <2> DEFINE x == [m EXCEPT !.window = Sh!Closed(m)]
  <2>1. /\ Sh!Closed(m) \in {"gone", "hidden"} /\ (Sh!Closed(m) = "gone" <=> m.quitting \/ ~m.tray)
    BY DEF Sh!Closed
  <2>2. /\ x \in ShellStates /\ StopComesFirst(x) /\ (x.leaving \/ "quit" \in x.waits => x.quitting)
        /\ (x.window = "hidden" => x.tray) /\ x.window = Sh!Closed(m) /\ x.tray = m.tray
        /\ x.quitting = m.quitting
    BY <2>1 DEF ShellInv, ShellHolds, ShellStates, StopComesFirst, LeavesByQuit
  <2>3. m' = IF x.window = "gone" /\ ~x.tray THEN Sh!Quit(x) ELSE x
    BY <1>3 DEF Sh!Closes
  <2> HIDE DEF x
  <2>4. CASE x.window = "gone" /\ ~x.tray
    BY <2>2, <2>3, <2>4, QuitKeeps DEF ShellInv
  <2>5. CASE ~(x.window = "gone" /\ ~x.tray)
    BY <2>1, <2>2, <2>3, <2>5 DEF ShellInv, ShellHolds, LeavesByQuit
  <2> QED
    BY <2>4, <2>5
<1> QED
  BY <1>1, <1>2, <1>3

LEMMA SettlesKeeps == ASSUME ShellInv, NEW o \in {"stopped", "error"}, Sh!Settles(o) PROVE ShellInv'
<1> DEFINE g       == IF m.gateway = "up" THEN o ELSE m.gateway
           stopped == [m EXCEPT !.gateway = g, !.waits = {}]
           quit    == IF "quit" \in m.waits
                      THEN [stopped EXCEPT !.watchdog = TRUE, !.leaving = TRUE] ELSE stopped
           install == CASE "install" \notin m.waits -> quit
                        [] "install" \in m.waits /\ g = "error" ->
                             [quit EXCEPT !.installing = FALSE, !.update = "error", !.version = 0]
                        [] OTHER -> [quit EXCEPT !.quitting = TRUE, !.leaving = TRUE]
           Fine(x) == ShellHolds(x) /\ x.gateway # "up"
<1>1. Fine(stopped) /\ stopped.gateway = g /\ stopped.quitting = m.quitting
  BY ZenonT(40) DEF ShellInv, ShellHolds, ShellStates, StopComesFirst, LeavesByQuit
<1>2. "quit" \in m.waits => m.quitting
  BY DEF ShellInv, ShellHolds, LeavesByQuit
<1>3. m' = IF "fatal" \in m.waits THEN [install EXCEPT !.exit = "fatal"] ELSE install
  <2>1. stopped = [m EXCEPT !.gateway = IF @ = "up" THEN o ELSE @, !.waits = {}]
    BY DEF ShellInv, ShellHolds, ShellStates
  <2>2. stopped.gateway = g
    BY <1>1
  <2> HIDE DEF stopped, g
  <2> QED
    BY <2>1, <2>2 DEF Sh!Settles, Sh!Armed
<1>4. ASSUME NEW x, Fine(x)
      PROVE  /\ Fine([x EXCEPT !.installing = FALSE, !.update = "error", !.version = 0])
             /\ Fine([x EXCEPT !.quitting = TRUE, !.leaving = TRUE])
             /\ Fine([x EXCEPT !.exit = "fatal"])
             /\ x.quitting => Fine([x EXCEPT !.watchdog = TRUE, !.leaving = TRUE])
  <2>1. Fine([x EXCEPT !.installing = FALSE, !.update = "error", !.version = 0])
    <3> DEFINE y == [x EXCEPT !.installing = FALSE, !.update = "error", !.version = 0]
    <3>1. y \in ShellStates
      BY <1>4, Zenon DEF ShellHolds, ShellStates
    <3>2. /\ y.gateway = x.gateway /\ y.window = x.window /\ y.tray = x.tray
          /\ y.leaving = x.leaving /\ y.waits = x.waits /\ y.quitting = x.quitting
          /\ y.ignored = x.ignored
      BY <1>4 DEF ShellHolds, ShellStates
    <3> HIDE DEF y
    <3>3. StopComesFirst(y) /\ LeavesByQuit(y) /\ y.gateway # "up"
      BY <1>4, <3>2 DEF ShellHolds, StopComesFirst, LeavesByQuit
    <3>4. Fine(y)
      BY <3>1, <3>3 DEF ShellHolds
    <3> QED
      BY <3>4 DEF y
  <2>2. Fine([x EXCEPT !.quitting = TRUE, !.leaving = TRUE])
    BY ZenonT(40), <1>4 DEF ShellHolds, ShellStates, StopComesFirst, LeavesByQuit
  <2>3. Fine([x EXCEPT !.exit = "fatal"])
    BY <1>4 DEF ShellHolds, ShellStates, StopComesFirst, LeavesByQuit
  <2>4. ASSUME x.quitting PROVE Fine([x EXCEPT !.watchdog = TRUE, !.leaving = TRUE])
    <3> DEFINE y == [x EXCEPT !.watchdog = TRUE, !.leaving = TRUE]
    <3>1. y \in ShellStates
      BY <1>4, Zenon DEF ShellHolds, ShellStates
    <3>2. /\ y.gateway = x.gateway /\ y.quitting /\ y.window = x.window /\ y.tray = x.tray
      BY <1>4, <2>4 DEF ShellHolds, ShellStates
    <3> HIDE DEF y
    <3>3. StopComesFirst(y) /\ LeavesByQuit(y) /\ y.gateway # "up"
      BY <1>4, <3>2 DEF ShellHolds, StopComesFirst, LeavesByQuit
    <3>4. Fine(y)
      BY <3>1, <3>3 DEF ShellHolds
    <3> QED
      BY <3>4 DEF y
  <2> QED
    BY <2>1, <2>2, <2>3, <2>4
<1> HIDE DEF Fine, stopped, g
<1>5. Fine(quit)
  BY Zenon, <1>1, <1>2, <1>4
<1> HIDE DEF quit
<1>6. Fine(install)
  BY Zenon, <1>4, <1>5
<1> HIDE DEF install
<1>7. Fine(m')
  BY Zenon, <1>3, <1>4, <1>6
<1> QED
  BY <1>7 DEF Fine, ShellInv

LEMMA ShellStep == ASSUME ShellInv, [Sh!Next]_m PROVE ShellInv'
<1>1. CASE UNCHANGED m
  BY <1>1 DEF ShellInv
<1>2. ASSUME Sh!Fatal \/ Sh!FatalDeadline \/ Sh!Leaves \/ Sh!Stalls \/ Sh!Watchdog \/ Sh!Reveals
      PROVE  ShellInv'
  <2>1. CASE Sh!Fatal
    <3>1. m' = [m EXCEPT !.waits = m.waits \cup {"fatal"}]
      BY <2>1 DEF Sh!Fatal, ShellInv, ShellHolds, ShellStates
    <3>2. m' \in ShellStates
      BY <3>1 DEF Sh!Waiters, ShellInv, ShellHolds, ShellStates
    <3> QED
      BY <3>1, <3>2 DEF ShellInv, ShellHolds, ShellStates, StopComesFirst, LeavesByQuit
  <2>2. CASE Sh!FatalDeadline \/ Sh!Watchdog
    BY <2>2 DEF Sh!FatalDeadline, Sh!Watchdog, ShellInv, ShellHolds, ShellStates, StopComesFirst,
       LeavesByQuit
  <2>3. CASE Sh!Leaves
    BY ZenonT(40), <2>3 DEF Sh!Leaves, ShellInv, ShellHolds, ShellStates, StopComesFirst,
       LeavesByQuit
  <2>4. CASE Sh!Stalls
    BY ZenonT(40), <2>4 DEF Sh!Stalls, ShellInv, ShellHolds, ShellStates, StopComesFirst,
       LeavesByQuit
  <2>5. CASE Sh!Reveals
    BY <2>5 DEF Sh!Reveals, ShellInv, ShellHolds, ShellStates, StopComesFirst, LeavesByQuit
  <2> QED
    BY <1>2, <2>1, <2>2, <2>3, <2>4, <2>5
<1> DEFINE Same == /\ m' \in ShellStates
                   /\ m'.gateway = m.gateway /\ m'.controlled = m.controlled
                   /\ m'.watchdog = m.watchdog /\ m'.quitting = m.quitting /\ m'.leaving = m.leaving
                   /\ m'.exit = m.exit /\ m'.eager = m.eager /\ m'.window = m.window
                   /\ m'.tray = m.tray /\ m'.ignored = m.ignored
                   /\ "quit" \in m'.waits <=> "quit" \in m.waits
<1>3. Same => ShellInv'
  BY DEF ShellInv, ShellHolds, StopComesFirst, LeavesByQuit
<1>4. ASSUME NEW manual \in BOOLEAN, Sh!Check(manual) PROVE Same
  <2>1. PICK n \in Nat : n = m.checks + 1
    BY DEF ShellInv, ShellHolds, ShellStates
  <2>2. \/ m' = [m EXCEPT !.checks = n, !.manual = manual, !.asks = "install"]
        \/ m' = [m EXCEPT !.checks = n, !.manual = manual, !.update = "checking", !.version = 0]
    BY <1>4, <2>1 DEF Sh!Check, Sh!Ask
  <2>3. CASE m' = [m EXCEPT !.checks = n, !.manual = manual, !.asks = "install"]
    BY Zenon, <2>3 DEF ShellInv, ShellHolds, ShellStates
  <2>4. CASE m' = [m EXCEPT !.checks = n, !.manual = manual, !.update = "checking", !.version = 0]
    <3> DEFINE x == [m EXCEPT !.checks = n, !.manual = manual]
    <3>1. x \in ShellStates
      BY Zenon DEF ShellInv, ShellHolds, ShellStates
    <3>2. m' = [x EXCEPT !.update = "checking", !.version = 0]
      BY Zenon, <2>4
    <3>3. m' \in ShellStates
      <4> HIDE DEF x
      <4> QED
        BY Zenon, <3>1, <3>2 DEF ShellStates
    <3> QED
      BY <2>4, <3>3 DEF ShellInv, ShellHolds, ShellStates
  <2> QED
    BY <2>2, <2>3, <2>4
<1>5. ASSUME NEW v \in Versions, Sh!Available(v) PROVE Same
  <2>1. PICK a \in {"none", "offer", "install"} :
          m' = [m EXCEPT !.update = "available", !.version = v, !.asks = a]
    <3> DEFINE s == [m EXCEPT !.update = "available", !.version = v]
    <3>1. s.asks = m.asks /\ s = [s EXCEPT !.asks = m.asks] /\ m.asks \in {"none", "offer", "install"}
      BY Zenon DEF ShellInv, ShellHolds, ShellStates
    <3>2. m' = s \/ m' = Sh!Ask(s, "offer")
      BY <1>5 DEF Sh!Available
    <3>3. m' = [s EXCEPT !.asks = m.asks] \/ m' = [s EXCEPT !.asks = "offer"]
      BY <3>1, <3>2 DEF Sh!Ask
    <3> QED
      BY <3>1, <3>3, Zenon
  <2> QED
    BY ZenonT(40), <2>1 DEF ShellInv, ShellHolds, ShellStates
<1>6. ASSUME Sh!NotAvailable \/ Sh!UpdateFails \/ Sh!Downloaded PROVE Same
  <2>1. CASE Sh!NotAvailable
    BY ZenonT(40), <2>1 DEF Sh!NotAvailable, ShellInv, ShellHolds, ShellStates
  <2>2. CASE Sh!UpdateFails
    BY <2>2, Zenon DEF Sh!UpdateFails, ShellInv, ShellHolds, ShellStates
  <2>3. CASE Sh!Downloaded
    <3>1. \/ m' = [m EXCEPT !.update = "ready", !.asks = "install"]
          \/ m' = [m EXCEPT !.update = "ready"]
      BY <2>3 DEF Sh!Downloaded, Sh!Ask, ShellInv, ShellHolds, ShellStates
    <3>2. CASE m' = [m EXCEPT !.update = "ready", !.asks = "install"]
      BY ZenonT(40), <3>2 DEF ShellInv, ShellHolds, ShellStates
    <3>3. CASE m' = [m EXCEPT !.update = "ready"]
      BY <3>3 DEF ShellInv, ShellHolds, ShellStates
    <3> QED
      BY <3>1, <3>2, <3>3
  <2> QED
    BY <1>6, <2>1, <2>2, <2>3
<1>7. ASSUME Sh!Answers PROVE Same
  <2>1. \/ m' = [m EXCEPT !.asks = "none", !.postponed = 0, !.update = "downloading"]
        \/ m' = [m EXCEPT !.asks = "none"]
        \/ m' = [m EXCEPT !.asks = "none", !.installing = TRUE, !.waits = m.waits \cup {"install"}]
        \/ m' = [m EXCEPT !.asks = "none", !.postponed = m.version]
        \/ m' = [m EXCEPT !.asks = "none", !.update = "error", !.version = 0]
    <3> DEFINE s == [m EXCEPT !.asks = "none"]
    <3>1. s.waits = m.waits
      BY DEF ShellInv, ShellHolds, ShellStates
    <3>2. \/ m' = [s EXCEPT !.postponed = 0, !.update = "downloading"]
          \/ m' = s
          \/ m' = [s EXCEPT !.installing = TRUE, !.waits = @ \cup {"install"}]
          \/ m' = [s EXCEPT !.postponed = m.version]
          \/ m' = [s EXCEPT !.update = "error", !.version = 0]
      <4> HIDE DEF s
      <4>1. m.asks \in {"none", "offer", "install"} /\ m.asks # "none"
        BY <1>7 DEF Sh!Answers, ShellInv, ShellHolds, ShellStates
      <4>2. \/ m' = CASE m.asks = "offer" -> [s EXCEPT !.postponed = 0, !.update = "downloading"]
                       [] m.asks = "install" /\ m.installing  -> s
                       [] m.asks = "install" /\ ~m.installing ->
                            [s EXCEPT !.installing = TRUE, !.waits = @ \cup {"install"}]
            \/ m' = IF m.asks = "offer" THEN [s EXCEPT !.postponed = m.version] ELSE s
            \/ m' = [s EXCEPT !.update = "error", !.version = 0]
        BY <1>7, Zenon DEF Sh!Answers, s
      <4> QED
        BY <4>1, <4>2
    <3> QED
      BY <3>1, <3>2
  <2>2. CASE m' = [m EXCEPT !.asks = "none", !.postponed = 0, !.update = "downloading"]
    BY ZenonT(40), <2>2 DEF ShellInv, ShellHolds, ShellStates
  <2>3. CASE m' = [m EXCEPT !.asks = "none"]
    BY <2>3 DEF ShellInv, ShellHolds, ShellStates
  <2>4. CASE m' = [m EXCEPT !.asks = "none", !.installing = TRUE, !.waits = m.waits \cup {"install"}]
    <3>1. m.waits \cup {"install"} \in SUBSET Sh!Waiters
      BY DEF Sh!Waiters, ShellInv, ShellHolds, ShellStates
    <3> QED
      BY <2>4, <3>1, Zenon DEF ShellInv, ShellHolds, ShellStates
  <2>5. CASE m' = [m EXCEPT !.asks = "none", !.postponed = m.version]
    BY <2>5, Zenon DEF ShellInv, ShellHolds, ShellStates
  <2>6. CASE m' = [m EXCEPT !.asks = "none", !.update = "error", !.version = 0]
    BY ZenonT(40), <2>6 DEF ShellInv, ShellHolds, ShellStates
  <2> QED
    BY <2>1, <2>2, <2>3, <2>4, <2>5, <2>6
<1> HIDE DEF Same
<1>8. CASE Sh!Next
  BY <1>2, <1>3, <1>4, <1>5, <1>6, <1>7, <1>8, QuitsKeep, SettlesKeeps DEF Sh!Next
<1> QED
  BY <1>1, <1>8

LEMMA ShellMeaning == ShellInv => Sh!PatientQuitFlushes /\ Sh!WayOut
BY DEF ShellInv, ShellHolds, ShellStates, StopComesFirst, LeavesByQuit, Sh!PatientQuitFlushes,
   Sh!StopPrecedesExit, Sh!WayOut

-----------------------------------------------------------------------------
(* The window, the tray, the GPU process and the login item *)

WinStates ==
  [kind : {"window", "gpu", "login"}, deaths : Nat, turns : Nat, started : BOOLEAN, made : BOOLEAN,
   windows : Nat, pointer : {"null", "live", "dead"}, quitting : BOOLEAN,
   fatal : {"no", "dead window", "rejection"}, tray : BOOLEAN, now : Win!Shown, shown : Win!Shown,
   menu : {"en", "ru"}, marker : BOOLEAN, software : BOOLEAN, asked : BOOLEAN, remote : BOOLEAN,
   relaunch : BOOLEAN, armed : BOOLEAN, kept : BOOLEAN, healed : BOOLEAN,
   item : {"off", "quoted", "bare", "foreign"}, cache : {"unset", "on", "off"}, edited : BOOLEAN,
   reads : Nat, acts : Nat]

\* The pointer is live exactly while the one window is, and there is none before the start.
OneAtMost(x) ==
  /\ x.pointer = "live" => x.windows = 1
  /\ x.pointer # "live" => x.windows = 0
PointerTells(x) ==
  /\ x.fatal # "dead window"
  /\ ~x.started => ~x.made
  /\ ~x.made => x.pointer = "null"
NamesTell(x) == (x.tray => x.shown = x.now) /\ (x.pointer = "live" => x.menu = x.now.lang)

\* A marker that outlives its launch could not be removed; a recovery's is there until the
\* launch that consumes it.
MarkersAge(x) ==
  x.kind = "gpu" =>
    /\ x.asked => ~x.software
    /\ x.armed => IF x.quitting THEN x.marker ELSE x.software /\ ~x.asked
    /\ x.software /\ ~x.remote /\ (x.marker \/ x.healed) => x.kept

ReadsTell(x) ==
  x.kind = "login" =>
    /\ x.cache = "unset" => x.reads = 0
    /\ x.reads <= x.acts + 1
CacheTells(x) == x.kind = "login" /\ x.cache # "unset" /\ ~x.edited => x.cache = Win!On(x)

WinHolds(x) ==
  /\ x \in WinStates /\ OneAtMost(x) /\ PointerTells(x) /\ NamesTell(x)
  /\ MarkersAge(x) /\ CacheTells(x) /\ ReadsTell(x)
WinInv == WinHolds(m)

LEMMA WinStart == Win!Init => WinInv
<1> SUFFICES ASSUME Win!Init PROVE WinInv
  OBVIOUS
<1>1. m \in WinStates
  BY DEF Win!Init, WinStates, Win!Shown
<1>2. PointerTells(m) /\ NamesTell(m) /\ MarkersAge(m) /\ CacheTells(m)
  BY DEF Win!Init, PointerTells, NamesTell, MarkersAge, CacheTells, Win!On
<1>3. OneAtMost(m) /\ ReadsTell(m)
  BY DEF Win!Init, OneAtMost, ReadsTell
<1> QED
  BY <1>1, <1>2, <1>3 DEF WinInv, WinHolds

LEMMA WinCounts ==
  ASSUME NEW x \in WinStates
  PROVE  x.deaths \in Nat /\ x.turns \in Nat /\ x.windows \in Nat /\ x.reads \in Nat /\ x.acts \in Nat
BY Zenon DEF WinStates

LEMMA WinMeaning == WinInv => Win!SurfacesHold
<1> SUFFICES ASSUME WinInv PROVE Win!SurfacesHold
  OBVIOUS
<1>1. Win!OneWindow
  <2>1. m.windows <= 1
    BY DEF WinInv, WinHolds, OneAtMost
  <2> QED
    BY <2>1, Zenon DEF WinInv, WinHolds, PointerTells, Win!OneWindow
<1>2. Win!TrayTells
  <2>1. m.windows > 0 => m.pointer = "live"
    BY DEF WinInv, WinHolds, OneAtMost
  <2> QED
    BY <2>1 DEF WinInv, WinHolds, NamesTell, Win!TrayTells
<1>3. Win!OneRecovery
  BY Zenon DEF WinInv, WinHolds, WinStates, MarkersAge, Win!OneRecovery
<1>4. Win!CacheIsBounded
  BY DEF WinInv, WinHolds, CacheTells, ReadsTell, Win!CacheIsBounded, Win!InLogin
<1> QED
  BY <1>1, <1>2, <1>3, <1>4 DEF Win!SurfacesHold

\* What a handler of the window's part may be given: no window yet for a new one.
Opens(x) == x.pointer # "live" /\ x.started /\ x.kind = "window"
LEMMA CreateKeeps ==
  ASSUME NEW x, WinHolds(x), Opens(x)
  PROVE  WinHolds(Win!Create(x))
<1>1. x.windows = 0 /\ 0 + 1 = 1
  BY DEF WinHolds, Opens, OneAtMost
<1>2. PICK l \in {"en", "ru"} : l = x.now.lang
  BY Zenon DEF WinHolds, WinStates, Win!Shown
<1>3. PICK n \in Nat : n = 1
  OBVIOUS
<1>4. x.windows + 1 = n
  BY <1>1, <1>3
<1>5. Win!Create(x) = [x EXCEPT !.windows = n, !.pointer = "live", !.made = TRUE, !.menu = l]
  BY <1>2, <1>4, Zenon DEF Win!Create
<1>a. x \in WinStates
  BY DEF WinHolds
<1> DEFINE y == Win!Create(x)
<1>b. y = [x EXCEPT !.windows = n, !.pointer = "live", !.made = TRUE, !.menu = l]
  BY <1>5
<1> HIDE DEF y
<1>6. y \in WinStates
  BY ZenonT(40), <1>a, <1>b DEF WinStates
<1>7. /\ y.windows = n /\ y.pointer = "live" /\ y.made /\ y.menu = l
      /\ y.now = x.now /\ y.kind = x.kind /\ y.fatal = x.fatal
      /\ y.started = x.started /\ y.tray = x.tray /\ y.shown = x.shown
  BY <1>a, <1>b, Zenon DEF WinStates
<1>8. PointerTells(y) /\ MarkersAge(y) /\ CacheTells(y) /\ NamesTell(y)
  BY <1>2, <1>7, Zenon DEF WinHolds, Opens, PointerTells, MarkersAge, CacheTells, NamesTell
<1>9. OneAtMost(y) /\ ReadsTell(y)
  BY <1>3, <1>7 DEF Opens, OneAtMost, ReadsTell
<1>c. WinHolds(y)
  BY <1>6, <1>8, <1>9 DEF WinHolds
<1> QED
  BY <1>c DEF y

\* The tray names what is now, whatever was in it.
LEMMA TrayKeeps ==
  ASSUME NEW x \in WinStates, OneAtMost(x), PointerTells(x), MarkersAge(x), CacheTells(x), ReadsTell(x),
         x.pointer = "live" => x.menu = x.now.lang
  PROVE  WinHolds(Win!Tray(x))
<1>1. CASE x.tray
  <2>1. Win!Tray(x) = [x EXCEPT !.shown = x.now] /\ x.now \in Win!Shown
    BY <1>1, Zenon DEF Win!Tray, WinStates
  <2>2. Win!Tray(x) \in WinStates
    BY ZenonT(40), <2>1 DEF WinStates
  <2>3. /\ Win!Tray(x).windows = x.windows /\ Win!Tray(x).pointer = x.pointer
        /\ Win!Tray(x).fatal = x.fatal
        /\ Win!Tray(x).started = x.started /\ Win!Tray(x).made = x.made /\ Win!Tray(x).shown = x.now
        /\ Win!Tray(x).now = x.now /\ Win!Tray(x).menu = x.menu
    BY <2>1, Zenon DEF WinStates
  <2>4. /\ Win!Tray(x).kind = x.kind /\ Win!Tray(x).cache = x.cache /\ Win!Tray(x).reads = x.reads
        /\ Win!Tray(x).acts = x.acts /\ Win!Tray(x).edited = x.edited /\ Win!Tray(x).item = x.item
        /\ Win!Tray(x).asked = x.asked /\ Win!Tray(x).software = x.software
        /\ Win!Tray(x).armed = x.armed /\ Win!Tray(x).quitting = x.quitting
        /\ Win!Tray(x).marker = x.marker /\ Win!Tray(x).remote = x.remote
        /\ Win!Tray(x).healed = x.healed /\ Win!Tray(x).kept = x.kept
    BY <2>1, Zenon DEF WinStates
  <2>5. PointerTells(Win!Tray(x)) /\ NamesTell(Win!Tray(x))
    BY <2>3, Zenon DEF PointerTells, NamesTell
  <2>6. MarkersAge(Win!Tray(x)) /\ CacheTells(Win!Tray(x))
    BY <2>4 DEF MarkersAge, CacheTells, Win!On
  <2>7. OneAtMost(Win!Tray(x)) /\ ReadsTell(Win!Tray(x))
    BY <2>3, <2>4 DEF OneAtMost, ReadsTell
  <2> QED
    BY <2>2, <2>5, <2>6, <2>7 DEF WinHolds
<1>2. CASE ~x.tray
  BY <1>2 DEF Win!Tray, WinHolds, NamesTell
<1> QED
  BY <1>1, <1>2

LEMMA WindowSteps ==
  ASSUME WinInv,
         \/ Win!Reveals \/ Win!Dies \/ Win!ClosedEvent \/ Win!Activates
         \/ \E ok \in BOOLEAN : Win!Starts(ok)
  PROVE  WinInv'
<1>1. CASE Win!Reveals
  <2>1. m' = (IF m.pointer = "live" \/ ~m.made THEN m ELSE Win!Create(m)) /\ m.kind = "window"
    BY <1>1 DEF Win!Reveals, Win!Used, Win!Ensure, Win!InWindow
  <2> QED
    BY <2>1, CreateKeeps, Zenon DEF WinInv, WinHolds, PointerTells, Opens
<1>2. CASE Win!Dies
  <2>1. m.kind = "window" /\ m.pointer = "live" /\ m \in WinStates
    BY <1>2 DEF Win!Dies, Win!InWindow, WinInv, WinHolds
  <2>2. PICK n, deaths \in Nat : n = 0 /\ m.windows - 1 = n /\ deaths = m.deaths + 1
    <3>1. m.windows - 1 = 0 /\ m.deaths + 1 \in Nat
      BY <2>1, WinCounts DEF WinInv, WinHolds, OneAtMost
    <3> QED
      BY <3>1
  <2>3. m' = [m EXCEPT !.windows = n, !.pointer = "dead", !.deaths = deaths]
    BY <1>2, <2>2, Zenon DEF Win!Dies
  <2>4. m' \in WinStates
    BY <2>1, <2>3, Zenon DEF WinStates
  <2>5. /\ m'.kind = m.kind /\ m'.windows = n /\ m'.pointer = "dead" /\ m'.fatal = m.fatal
        /\ m'.started = m.started /\ m'.made = m.made /\ m'.tray = m.tray
        /\ m'.shown = m.shown /\ m'.now = m.now
    BY <2>1, <2>3, Zenon DEF WinStates
  <2>6. PointerTells(m')
    BY <2>1, <2>2, <2>5, Zenon DEF WinInv, WinHolds, PointerTells
  <2>7. NamesTell(m') /\ MarkersAge(m') /\ CacheTells(m')
    BY <2>1, <2>5 DEF WinInv, WinHolds, NamesTell, MarkersAge, CacheTells
  <2>8. OneAtMost(m') /\ ReadsTell(m')
    BY <2>1, <2>2, <2>5 DEF OneAtMost, ReadsTell
  <2> QED
    BY <2>4, <2>6, <2>7, <2>8 DEF WinInv, WinHolds
<1>3. CASE Win!ClosedEvent
  <2>1. m' = [m EXCEPT !.pointer = "null"] /\ m.kind = "window" /\ m.pointer = "dead"
    BY <1>3 DEF Win!ClosedEvent, Win!InWindow
  <2>2. m' \in WinStates
    BY <2>1, Zenon DEF WinInv, WinHolds, WinStates
  <2>3. PointerTells(m') /\ NamesTell(m') /\ MarkersAge(m') /\ CacheTells(m')
    BY <2>1, Zenon DEF WinInv, WinHolds, WinStates, PointerTells, NamesTell, MarkersAge, CacheTells
  <2>4. m'.windows = m.windows /\ m'.pointer # "live" /\ m'.kind = "window"
    BY <2>1, Zenon DEF WinInv, WinHolds, WinStates
  <2>5. OneAtMost(m') /\ ReadsTell(m')
    BY <2>1, <2>4 DEF WinInv, WinHolds, OneAtMost, ReadsTell
  <2> QED
    BY <2>2, <2>3, <2>5 DEF WinInv, WinHolds
<1>4. CASE Win!Activates
  <2>1. m.kind = "window" /\ m.started /\ m.windows = 0 /\ m' = Win!Create(m)
    BY <1>4 DEF Win!Activates, Win!InWindow
  <2>2. m.pointer # "live"
    BY <2>1 DEF WinInv, WinHolds, OneAtMost
  <2> QED
    BY <2>1, <2>2, CreateKeeps DEF WinInv, Opens
<1>5. ASSUME NEW ok \in BOOLEAN, Win!Starts(ok) PROVE WinInv'
  <2> DEFINE x == [m EXCEPT !.started = TRUE]
  <2>1. m.kind = "window" /\ ~m.started /\ m' = Win!CreateTray(Win!Create(x), ok)
    BY <1>5 DEF Win!Starts, Win!InWindow
  <2>2. x \in WinStates /\ x.started /\ x.kind = "window" /\ x.pointer = "null"
    BY <2>1, Zenon DEF WinInv, WinHolds, WinStates, PointerTells
  <2>3. PointerTells(x) /\ NamesTell(x) /\ MarkersAge(x) /\ CacheTells(x)
    BY <2>1, Zenon DEF WinInv, WinHolds, WinStates, PointerTells, NamesTell, MarkersAge, CacheTells
  <2>a. x.windows = m.windows /\ x.pointer = m.pointer
    BY Zenon DEF WinInv, WinHolds, WinStates
  <2> HIDE DEF x
  <2>b. OneAtMost(x) /\ ReadsTell(x)
    BY <2>2, <2>a DEF WinInv, WinHolds, OneAtMost, ReadsTell
  <2>4. WinHolds(Win!Create(x)) /\ Win!Create(x).kind = "window"
    <3>1. WinHolds(Win!Create(x))
      BY <2>2, <2>3, <2>b, CreateKeeps DEF WinHolds, Opens
    <3>2. Win!Create(x).kind = "window"
      BY <2>2, Zenon DEF Win!Create, WinStates
    <3> QED
      BY <3>1, <3>2
  <2> DEFINE y == Win!Create(x)
             z == [y EXCEPT !.tray = TRUE]
  <2> HIDE DEF y
  <2>5. WinHolds(y) /\ y.kind = "window" /\ m' = IF ok THEN Win!Tray(z) ELSE y
    BY <2>1, <2>4 DEF Win!CreateTray, y
  <2>6. z \in WinStates /\ PointerTells(z) /\ MarkersAge(z) /\ CacheTells(z)
        /\ (z.pointer = "live" => z.menu = z.now.lang)
    BY ZenonT(40), <2>5 DEF WinHolds, WinStates, PointerTells, NamesTell, MarkersAge, CacheTells
  <2>7. z.windows = y.windows /\ z.pointer = y.pointer /\ z.kind = y.kind
    BY <2>5, Zenon DEF WinHolds, WinStates
  <2> HIDE DEF z
  <2>8. OneAtMost(z) /\ ReadsTell(z)
    BY <2>5, <2>7 DEF WinHolds, OneAtMost, ReadsTell
  <2> QED
    BY <2>5, <2>6, <2>8, TrayKeeps DEF WinInv
<1> QED
  BY <1>1, <1>2, <1>3, <1>4, <1>5

LEMMA NameSteps ==
  ASSUME WinInv,
         \/ \E s \in {"stopped", "running"} : Win!StatusChanges(s)
         \/ \E s \in {"none", "checking"} : Win!UpdateChanges(s)
         \/ \E l \in {"en", "ru"} : Win!SetsLanguage(l)
         \/ \E written \in BOOLEAN : Win!RetriesFromTray(written)
  PROVE  WinInv'
<1>0. PICK turns \in Nat : turns = m.turns + 1
  BY WinCounts DEF WinInv, WinHolds
<1>a. m.now \in Win!Shown /\ m \in WinStates
  BY Zenon DEF WinInv, WinHolds, WinStates
<1>1. ASSUME NEW now \in Win!Shown, now.lang = m.now.lang, m.kind = "window",
             m' = Win!Tray([m EXCEPT !.now = now, !.turns = turns])
      PROVE  WinInv'
  <2> DEFINE x == [m EXCEPT !.now = now, !.turns = turns]
  <2>1. x \in WinStates
    BY <1>a, Zenon DEF WinStates
  <2>2. PointerTells(x) /\ MarkersAge(x) /\ CacheTells(x) /\ (x.pointer = "live" => x.menu = x.now.lang)
    BY <1>1, Zenon DEF WinInv, WinHolds, WinStates, PointerTells, NamesTell, MarkersAge, CacheTells
  <2>3. m' = Win!Tray(x) /\ x.windows = m.windows /\ x.pointer = m.pointer /\ x.kind = m.kind
    BY <1>1, Zenon DEF WinInv, WinHolds, WinStates
  <2> HIDE DEF x
  <2>4. OneAtMost(x) /\ ReadsTell(x)
    BY <1>1, <2>3 DEF WinInv, WinHolds, OneAtMost, ReadsTell
  <2> QED
    BY <2>1, <2>2, <2>3, <2>4, TrayKeeps DEF WinInv
<1>2. ASSUME NEW s \in {"stopped", "running"}, Win!StatusChanges(s) PROVE WinInv'
  <2> DEFINE now == [m.now EXCEPT !.status = s]
  <2>1. now \in Win!Shown /\ now.lang = m.now.lang
    BY <1>a DEF Win!Shown
  <2>2. m.kind = "window" /\ m' = Win!Tray([m EXCEPT !.now = now, !.turns = turns])
    BY <1>0, <1>2 DEF Win!StatusChanges, Win!InWindow
  <2> QED
    BY <1>1, <2>1, <2>2, Zenon
<1>3. ASSUME NEW s \in {"none", "checking"}, Win!UpdateChanges(s) PROVE WinInv'
  <2> DEFINE now == [m.now EXCEPT !.update = s]
  <2>1. now \in Win!Shown /\ now.lang = m.now.lang
    BY <1>a DEF Win!Shown
  <2>2. m.kind = "window" /\ m' = Win!Tray([m EXCEPT !.now = now, !.turns = turns])
    BY <1>0, <1>3 DEF Win!UpdateChanges, Win!InWindow
  <2> QED
    BY <1>1, <2>1, <2>2, Zenon
<1>4. ASSUME NEW l \in {"en", "ru"}, Win!SetsLanguage(l) PROVE WinInv'
  <2> DEFINE now   == [m.now EXCEPT !.lang = l]
             named == IF m.tray THEN now ELSE m.shown
  <2>1. now \in Win!Shown /\ now.lang = l /\ named \in Win!Shown
    BY <1>a, Zenon DEF Win!Shown, WinInv, WinHolds, WinStates
  <2>2. /\ m.kind = "window"
        /\ m' = [[Win!Tray([m EXCEPT !.now = now]) EXCEPT !.menu = l] EXCEPT !.turns = @ + 1]
    BY <1>4, Zenon DEF Win!SetsLanguage, Win!Speaks, Win!InWindow, WinInv, WinHolds, WinStates
  <2>3. Win!Tray([m EXCEPT !.now = now]) = [m EXCEPT !.now = now, !.shown = named]
    BY Zenon DEF Win!Tray, WinInv, WinHolds, WinStates
  <2> HIDE DEF now, named
  <2>4. m' = [m EXCEPT !.now = now, !.shown = named, !.menu = l, !.turns = turns]
    BY <1>0, <2>2, <2>3, Zenon DEF WinInv, WinHolds, WinStates
  <2>5. m' \in WinStates
    BY <2>1, <2>4, Zenon DEF WinInv, WinHolds, WinStates
  <2>6. PointerTells(m') /\ MarkersAge(m') /\ CacheTells(m')
    <3>1. /\ m'.kind = "window" /\ m'.pointer = m.pointer /\ m'.fatal = m.fatal
          /\ m'.started = m.started /\ m'.made = m.made
      BY <2>2, <2>4, Zenon DEF WinInv, WinHolds, WinStates
    <3> QED
      BY <3>1, Zenon DEF WinInv, WinHolds, PointerTells, MarkersAge, CacheTells
  <2>7. NamesTell(m')
    BY <2>1, <2>4, Zenon DEF WinInv, WinHolds, WinStates, NamesTell, named
  <2>8. m'.windows = m.windows /\ m'.pointer = m.pointer /\ m'.kind = "window"
    BY <2>2, <2>4, Zenon DEF WinInv, WinHolds, WinStates
  <2>9. OneAtMost(m') /\ ReadsTell(m')
    BY <2>8 DEF WinInv, WinHolds, OneAtMost, ReadsTell
  <2> QED
    BY <2>5, <2>6, <2>7, <2>9 DEF WinInv, WinHolds
<1>5. ASSUME NEW written \in BOOLEAN, Win!RetriesFromTray(written) PROVE WinInv'
  <2>1. m.kind = "window" /\ (m' = m \/ m' = [m EXCEPT !.fatal = "rejection"])
    BY <1>5 DEF Win!RetriesFromTray, Win!InWindow
  <2>2. CASE m' = [m EXCEPT !.fatal = "rejection"]
    <3>1. m' \in WinStates
      BY <2>2, Zenon DEF WinInv, WinHolds, WinStates
    <3>2. PointerTells(m') /\ NamesTell(m') /\ MarkersAge(m') /\ CacheTells(m')
      BY <2>1, <2>2, Zenon DEF WinInv, WinHolds, WinStates, PointerTells, NamesTell, MarkersAge, CacheTells
    <3>3. m'.windows = m.windows /\ m'.pointer = m.pointer /\ m'.kind = "window"
      BY <2>1, <2>2, Zenon DEF WinInv, WinHolds, WinStates
    <3>4. OneAtMost(m') /\ ReadsTell(m')
      BY <3>3 DEF WinInv, WinHolds, OneAtMost, ReadsTell
    <3> QED
      BY <3>1, <3>2, <3>4 DEF WinInv, WinHolds
  <2> QED
    BY <2>1, <2>2 DEF WinInv
<1> QED
  BY <1>2, <1>3, <1>4, <1>5

LEMMA GpuSteps ==
  ASSUME WinInv, Win!Quits \/ (\E ok \in BOOLEAN : Win!Comes(ok))
                 \/ \E crash, written \in BOOLEAN : Win!GpuGone(crash, written)
  PROVE  WinInv'
<1>0. PICK turns, deaths \in Nat : turns = m.turns + 1 /\ deaths = m.deaths + 1
  BY WinCounts DEF WinInv, WinHolds
\* Only the fields of the recovery change.
<1>1. ASSUME m.kind = "gpu", m' \in WinStates, MarkersAge(m'), m'.kind = m.kind,
             m'.windows = m.windows, m'.pointer = m.pointer, m'.fatal = m.fatal,
             m'.started = m.started, m'.made = m.made, m'.tray = m.tray, m'.shown = m.shown,
             m'.now = m.now, m'.menu = m.menu
      PROVE  WinInv'
  <2>1. PointerTells(m') /\ NamesTell(m') /\ CacheTells(m')
    BY <1>1, Zenon DEF WinInv, WinHolds, PointerTells, NamesTell, CacheTells
  <2>2. OneAtMost(m') /\ ReadsTell(m')
    BY <1>1 DEF WinInv, WinHolds, OneAtMost, ReadsTell
  <2> QED
    BY <1>1, <2>1, <2>2 DEF WinInv, WinHolds
<1>2. CASE Win!Quits
  <2>1. m.kind = "gpu" /\ m' = [m EXCEPT !.quitting = TRUE, !.turns = turns, !.armed = FALSE]
    BY <1>0, <1>2, Zenon DEF Win!Quits, WinInv, WinHolds, WinStates
  <2>2. m' \in WinStates
    BY <1>0, <2>1, Zenon DEF WinInv, WinHolds, WinStates
  <2>3. MarkersAge(m')
    BY <2>1, Zenon DEF WinInv, WinHolds, WinStates, MarkersAge
  <2>4. /\ m'.kind = m.kind /\ m'.windows = m.windows /\ m'.pointer = m.pointer /\ m'.fatal = m.fatal
        /\ m'.started = m.started /\ m'.made = m.made /\ m'.tray = m.tray /\ m'.shown = m.shown
        /\ m'.now = m.now /\ m'.menu = m.menu
    BY <2>1, Zenon DEF WinInv, WinHolds, WinStates
  <2> QED
    BY <1>1, <2>1, <2>2, <2>3, <2>4
<1>3. ASSUME NEW ok \in BOOLEAN, Win!Comes(ok) PROVE WinInv'
  <2>1. PICK marker, kept, software, healed \in BOOLEAN :
          /\ marker <=> m.marker /\ ~ok
          /\ kept <=> m.kept \/ (m.marker /\ ~ok)
          /\ software <=> m.remote \/ m.marker
          /\ healed <=> m.software /\ ~m.remote
    BY Zenon
  <2>2. m.kind = "gpu" /\ m.quitting /\ m' = Win!Launches(m, ok)
    BY <1>3 DEF Win!Comes
  <2>3. (m.marker /\ ~ok) = marker /\ (m.kept \/ (m.marker /\ ~ok)) = kept
        /\ (m.remote \/ m.marker) = software /\ (m.software /\ ~m.remote) = healed
    BY <2>1, Zenon DEF WinInv, WinHolds, WinStates
  <2>4. m' = [m EXCEPT !.marker = marker, !.kept = kept, !.software = software, !.asked = FALSE,
                !.relaunch = FALSE, !.quitting = FALSE, !.healed = healed]
    BY <2>2, <2>3, Zenon DEF Win!Launches, Win!Consumed, WinInv, WinHolds, WinStates
  <2>a. m \in WinStates
    BY DEF WinInv, WinHolds
  <2>5. m' \in WinStates
    <3> DEFINE x == [m EXCEPT !.marker = marker, !.kept = kept, !.software = software]
    <3>1. x \in WinStates
      BY Zenon DEF WinInv, WinHolds, WinStates
    <3> DEFINE y == [x EXCEPT !.asked = FALSE, !.relaunch = FALSE]
    <3>2. m' = [y EXCEPT !.quitting = FALSE, !.healed = healed]
      BY <2>4
    <3> HIDE DEF x
    <3>3. y \in WinStates
      BY <3>1, Zenon DEF WinStates
    <3> HIDE DEF y
    <3> QED
      BY ZenonT(40), <3>2, <3>3 DEF WinStates
  <2>6. MarkersAge(m')
    <3>1. /\ m'.kind = "gpu" /\ ~m'.asked /\ m'.armed = m.armed /\ ~m'.quitting /\ m'.marker = marker
          /\ m'.software = software /\ m'.remote = m.remote /\ m'.healed = healed /\ m'.kept = kept
      <4>1. m'.kind = m.kind /\ m'.armed = m.armed /\ m'.remote = m.remote
        BY <2>4, <2>a, Zenon DEF WinStates
      <4>2. ~m'.asked /\ ~m'.quitting
        BY <2>4, <2>a, Zenon DEF WinStates
      <4>3. m'.marker = marker /\ m'.kept = kept
        BY <2>4, <2>a, Zenon DEF WinStates
      <4>4. m'.software = software /\ m'.healed = healed
        BY <2>4, <2>a, Zenon DEF WinStates
      <4> QED
        BY <2>2, <4>1, <4>2, <4>3, <4>4
    <3>2. m.armed => m.marker
      BY <2>2 DEF WinInv, WinHolds, MarkersAge
    <3> QED
      BY <2>1, <2>2, <3>1, <3>2 DEF WinInv, WinHolds, MarkersAge
  <2>7. /\ m'.kind = m.kind /\ m'.windows = m.windows /\ m'.pointer = m.pointer /\ m'.fatal = m.fatal
        /\ m'.started = m.started /\ m'.made = m.made /\ m'.tray = m.tray /\ m'.shown = m.shown
        /\ m'.now = m.now /\ m'.menu = m.menu
    BY <2>4, Zenon DEF WinInv, WinHolds, WinStates
  <2> QED
    BY <1>1, <2>2, <2>5, <2>6, <2>7
<1>4. ASSUME NEW crash \in BOOLEAN, NEW written \in BOOLEAN, Win!GpuGone(crash, written) PROVE WinInv'
  <2>1. m.kind = "gpu" /\ ~m.quitting
    BY <1>4, Zenon DEF Win!GpuGone
  <2>2. CASE m' = [m EXCEPT !.deaths = deaths]
    <3>1. m' \in WinStates
      BY <1>0, <2>2, Zenon DEF WinInv, WinHolds, WinStates
    <3>2. MarkersAge(m')
      BY <2>2, Zenon DEF WinInv, WinHolds, WinStates, MarkersAge
    <3>3. /\ m'.kind = m.kind /\ m'.windows = m.windows /\ m'.pointer = m.pointer /\ m'.fatal = m.fatal
          /\ m'.started = m.started /\ m'.made = m.made /\ m'.tray = m.tray /\ m'.shown = m.shown
          /\ m'.now = m.now /\ m'.menu = m.menu
      BY <2>2, Zenon DEF WinInv, WinHolds, WinStates
    <3> QED
      BY <1>1, <2>1, <3>1, <3>2, <3>3
  <2>3. ASSUME NEW marker \in BOOLEAN, marker <=> m.marker \/ written, ~m.asked, ~m.software,
               m' = [m EXCEPT !.deaths = deaths, !.asked = TRUE, !.relaunch = TRUE,
                       !.quitting = TRUE, !.marker = marker, !.armed = written]
        PROVE  WinInv'
    <3>1. m' \in WinStates
      <4> DEFINE x == [m EXCEPT !.deaths = deaths, !.asked = TRUE, !.relaunch = TRUE]
      <4>1. x \in WinStates
        BY Zenon DEF WinInv, WinHolds, WinStates
      <4>2. m' = [x EXCEPT !.quitting = TRUE, !.marker = marker, !.armed = written]
        BY <2>3
      <4> HIDE DEF x
      <4> QED
        BY ZenonT(40), <4>1, <4>2 DEF WinStates
    <3>2. MarkersAge(m')
      BY <2>3, Zenon DEF WinInv, WinHolds, WinStates, MarkersAge
    <3>3. /\ m'.kind = m.kind /\ m'.windows = m.windows /\ m'.pointer = m.pointer /\ m'.fatal = m.fatal
          /\ m'.started = m.started /\ m'.made = m.made /\ m'.tray = m.tray /\ m'.shown = m.shown
          /\ m'.now = m.now /\ m'.menu = m.menu
      BY <2>3, Zenon DEF WinInv, WinHolds, WinStates
    <3> QED
      BY <1>1, <2>1, <3>1, <3>2, <3>3
  <2>4. PICK marker \in BOOLEAN : marker <=> m.marker \/ written
    BY Zenon
  <2>5. \/ m' = [m EXCEPT !.deaths = deaths]
        \/ /\ ~m.asked /\ ~m.software
           /\ m' = [m EXCEPT !.deaths = deaths, !.asked = TRUE, !.relaunch = TRUE,
                      !.quitting = TRUE, !.marker = marker, !.armed = written]
    <3>1. (m.marker \/ written) = marker
      BY <2>4, Zenon DEF WinInv, WinHolds, WinStates
    <3> QED
      BY <1>0, <1>4, <3>1, Zenon DEF Win!GpuGone, Win!Plan, WinInv, WinHolds, WinStates
  <2> QED
    BY <2>2, <2>3, <2>4, <2>5, Zenon
<1> QED
  BY <1>2, <1>3, <1>4

LEMMA LoginSteps ==
  ASSUME WinInv,
         \/ Win!GetsRuntimeState \/ Win!GetsAutoLaunch
         \/ \E on, taken \in BOOLEAN : Win!Toggles(on, taken)
         \/ \E v \in {"off", "bare", "foreign"} : Win!Edited(v)
  PROVE  WinInv'
<1>0. /\ m \in WinStates /\ m.reads \in Nat /\ m.acts \in Nat
      /\ m.turns + 1 \in Nat /\ m.acts + 1 \in Nat
  BY WinCounts DEF WinInv, WinHolds
\* Only the fields of the login item change.
<1>1. ASSUME m.kind = "login", m' \in WinStates, CacheTells(m'), ReadsTell(m'), m'.kind = m.kind,
             m'.windows = m.windows, m'.pointer = m.pointer, m'.fatal = m.fatal,
             m'.started = m.started, m'.made = m.made, m'.tray = m.tray, m'.shown = m.shown,
             m'.now = m.now, m'.menu = m.menu
      PROVE  WinInv'
  <2>1. PointerTells(m') /\ NamesTell(m') /\ MarkersAge(m')
    BY <1>1, Zenon DEF WinInv, WinHolds, PointerTells, NamesTell, MarkersAge
  <2>2. OneAtMost(m')
    BY <1>1 DEF WinInv, WinHolds, OneAtMost
  <2> QED
    BY <1>1, <2>1, <2>2 DEF WinInv, WinHolds
\* One reading, after the item and the count of acts became what they are.
<1>2. ASSUME NEW item \in {"off", "quoted", "bare", "foreign"}, NEW acts \in Nat,
             m' = Win!Read([m EXCEPT !.item = item, !.acts = acts]), m.kind = "login",
             acts = m.acts + 1 \/ (acts = m.acts /\ m.cache = "unset")
      PROVE  WinInv'
  <2>1. PICK reads \in Nat : reads = IF m.reads = MaxReads THEN m.reads ELSE m.reads + 1
    BY <1>0
  <2>2. PICK cache \in {"on", "off"} : cache = IF item \in {"quoted", "bare"} THEN "on" ELSE "off"
    OBVIOUS
  <2>3. m' = [m EXCEPT !.item = item, !.acts = acts, !.cache = cache, !.edited = FALSE, !.reads = reads]
    <3> DEFINE x == [m EXCEPT !.item = item, !.acts = acts]
    <3>1. x.item = item /\ x.reads = m.reads /\ Win!On(x) = cache
      BY <2>2, Zenon DEF Win!On, WinInv, WinHolds, WinStates
    <3> HIDE DEF x
    <3>2. m' = [x EXCEPT !.cache = cache, !.edited = FALSE,
                         !.reads = IF @ = MaxReads THEN @ ELSE @ + 1]
      BY <1>2, <3>1, Zenon DEF Win!Read, x
    <3>3. m' = [[m EXCEPT !.item = item, !.acts = acts]
                  EXCEPT !.cache = cache, !.edited = FALSE, !.reads = reads]
      BY <2>1, <3>1, <3>2, Zenon DEF x, WinInv, WinHolds, WinStates
    <3> QED
      BY <3>3
  <2>4. m' \in WinStates
    <3> DEFINE x == [m EXCEPT !.item = item, !.acts = acts]
    <3>1. x \in WinStates
      BY <1>0, Zenon DEF WinStates
    <3>2. m' = [x EXCEPT !.cache = cache, !.edited = FALSE, !.reads = reads]
      BY <2>3
    <3> HIDE DEF x
    <3> QED
      BY ZenonT(40), <3>1, <3>2 DEF WinStates
  <2>5. CacheTells(m') /\ ReadsTell(m')
    <3>1. m'.cache = cache /\ Win!On(m') = cache /\ m'.reads = reads /\ m'.acts = acts
      BY <2>2, <2>3, Zenon DEF Win!On, WinInv, WinHolds, WinStates
    <3>2. reads <= acts + 1
      BY <1>0, <1>2, <2>1 DEF WinInv, WinHolds, ReadsTell
    <3>3. CacheTells(m')
      BY <3>1 DEF CacheTells
    <3>4. ReadsTell(m')
      BY <2>2, <3>1, <3>2 DEF ReadsTell
    <3> QED
      BY <3>3, <3>4
  <2>6. /\ m'.kind = m.kind /\ m'.windows = m.windows /\ m'.pointer = m.pointer /\ m'.fatal = m.fatal
        /\ m'.started = m.started /\ m'.made = m.made /\ m'.tray = m.tray /\ m'.shown = m.shown
        /\ m'.now = m.now /\ m'.menu = m.menu
    BY <2>3, Zenon DEF WinInv, WinHolds, WinStates
  <2> QED
    BY <1>1, <1>2, <2>4, <2>5, <2>6
<1>3. m.item \in {"off", "quoted", "bare", "foreign"} /\ m = [m EXCEPT !.item = m.item, !.acts = m.acts]
  BY Zenon DEF WinInv, WinHolds, WinStates
<1>4. CASE Win!GetsRuntimeState
  <2>1. m.kind = "login" /\ m' = IF m.cache = "unset" THEN Win!Read(m) ELSE m
    BY <1>4 DEF Win!GetsRuntimeState, Win!InLogin, Win!Cached
  <2> QED
    BY <1>0, <1>2, <1>3, <2>1, Zenon DEF WinInv
<1>5. CASE Win!GetsAutoLaunch
  <2>1. m.kind = "login" /\ m' = Win!Read([m EXCEPT !.item = m.item, !.acts = m.acts + 1])
    BY <1>5, Zenon DEF Win!GetsAutoLaunch, Win!InLogin, Win!Act, WinInv, WinHolds, WinStates
  <2> QED
    BY <1>0, <1>2, <1>3, <2>1, Zenon
<1>6. ASSUME NEW on \in BOOLEAN, NEW taken \in BOOLEAN, Win!Toggles(on, taken) PROVE WinInv'
  <2>1. PICK item \in {"off", "quoted", "bare", "foreign"} :
          item = IF taken THEN IF on THEN "quoted" ELSE "off" ELSE m.item
    BY <1>3
  <2>2. m.kind = "login" /\ m' = Win!Read([m EXCEPT !.item = item, !.acts = m.acts + 1])
    BY <1>6, <2>1, Zenon DEF Win!Toggles, Win!Toggled, Win!InLogin, Win!Act, WinInv, WinHolds, WinStates
  <2> QED
    BY <1>0, <1>2, <2>2, Zenon
<1>7. ASSUME NEW v \in {"off", "bare", "foreign"}, Win!Edited(v) PROVE WinInv'
  <2>1. m.kind = "login" /\ m' = [m EXCEPT !.item = v, !.edited = TRUE, !.turns = m.turns + 1]
    BY <1>7, Zenon DEF Win!Edited, Win!InLogin, WinInv, WinHolds, WinStates
  <2>2. m' \in WinStates
    BY <1>0, <2>1, Zenon DEF WinInv, WinHolds, WinStates
  <2>3. CacheTells(m') /\ ReadsTell(m')
    <3>1. m'.edited /\ m'.cache = m.cache /\ m'.reads = m.reads /\ m'.acts = m.acts /\ m'.kind = m.kind
      BY <2>1, Zenon DEF WinInv, WinHolds, WinStates
    <3>2. CacheTells(m')
      BY <3>1 DEF CacheTells
    <3>3. ReadsTell(m')
      BY <3>1 DEF WinInv, WinHolds, ReadsTell
    <3> QED
      BY <3>2, <3>3
  <2>4. /\ m'.kind = m.kind /\ m'.windows = m.windows /\ m'.pointer = m.pointer /\ m'.fatal = m.fatal
        /\ m'.started = m.started /\ m'.made = m.made /\ m'.tray = m.tray /\ m'.shown = m.shown
        /\ m'.now = m.now /\ m'.menu = m.menu
    BY <2>1, Zenon DEF WinInv, WinHolds, WinStates
  <2> QED
    BY <1>1, <2>1, <2>2, <2>3, <2>4
<1> QED
  BY <1>4, <1>5, <1>6, <1>7

LEMMA WinStep == ASSUME WinInv, [Win!Next]_m PROVE WinInv'
<1>1. CASE UNCHANGED m
  BY <1>1 DEF WinInv
<1>2. CASE Win!Next
  BY <1>2, WindowSteps, NameSteps, GpuSteps, LoginSteps DEF Win!Next
<1> QED
  BY <1>1, <1>2

-----------------------------------------------------------------------------
(* The quit paths and the surfaces in the desktop process *)

\* For any number of quits, update checks and versions: without a second request to quit
\* the process does not exit before the gateway's stop settled, and while it runs without
\* a window there is a way back or it leaves (before-quit-guard.ts, window-close-guard.ts);
\* for any number of deaths and changes, the window, tray, relaunch and login item hold to
\* SurfacesHold (index.ts, gpu-fallback.ts, login-item.ts).
THEOREM QuitPathsKept == Spec => []QuitPathsHold
<1> DEFINE I == (part = "shell" => ShellInv) /\ (part = "window" => WinInv)
<1>1. Init => I
  BY ShellStart, WinStart DEF Init
<1>2. I /\ [Next]_vars => I'
  <2> SUFFICES ASSUME I, [Next]_vars PROVE I'
    OBVIOUS
  <2>1. CASE UNCHANGED vars
    BY <2>1 DEF vars, ShellInv, WinInv
  <2>2. ASSUME Of("shell", Sh!Next) PROVE I'
    BY <2>2, ShellStep DEF Of
  <2>3. ASSUME Of("window", Win!Next) PROVE I'
    BY <2>3, WinStep DEF Of
  <2>4. part \notin {"shell", "window"} /\ UNCHANGED part => I'
    OBVIOUS
  <2> QED
    BY <2>1, <2>2, <2>3, <2>4 DEF Next, Of
<1>3. I => QuitPathsHold
  BY ShellMeaning, WinMeaning DEF QuitPathsHold
<1> QED
  BY <1>1, <1>2, <1>3, PTL DEF Spec

-----------------------------------------------------------------------------
(* The migration: what holds of its record *)

Vers  == [ver : Int, new : BOOLEAN]
Whole == [Mig!Files -> Vers]
MigStates ==
  [pc : Mig!Steps \cup Mig!Undos \cup {"off", "failed", "success"},
   disk : [phase : Mig!Phases, told : BOOLEAN], mark : BOOLEAN,
   file : Whole, kept : Whole, base : Whole,
   rec : [any : BOOLEAN, opencode : BOOLEAN, app : BOOLEAN], replaced : SUBSET Mig!OpenCode,
   verified : BOOLEAN, wroteApp : BOOLEAN, started : BOOLEAN, walked : BOOLEAN, undone : BOOLEAN,
   buffer : {"closed", "open", "reported"}, faults : Nat, crashes : Nat, edits : Nat]

Running == m.pc \in Mig!Steps \cup Mig!Undos

\* No content is newer than the last edit.
VersionsAge ==
  \A f \in Mig!Files : /\ 0 <= m.file[f].ver /\ m.file[f].ver <= m.edits
                       /\ m.base[f].ver <= m.edits /\ m.kept[f].ver <= m.edits

BufferShuts ==
  /\ m.pc \in Mig!Steps \ {"starting"} => m.started
  /\ ~Running \/ (m.pc \in Mig!Undos /\ ~m.started) => m.buffer = "closed"

\* Places of the walk behind the check of a file.
Late == {"verified", "app backup", "app journal", "app", "app?", "final"}
Behind(f) == CASE f = "json"  -> {"jsonc", "jsonc?"} \cup Late
               [] f = "jsonc" -> Late
               [] f = "app"   -> {"final"}
Done(f) == m.file[f].new \/ m.file[f].ver > m.base[f].ver
WalkIsDone ==
  /\ \A f \in Mig!Files : m.pc \in Behind(f) => Done(f)
  /\ m.pc = "success" /\ m.walked => m.disk.phase = "committed" /\ \A f \in Mig!Files : Done(f)

\* Places before a file's backup, and before the file may change.
Early     == {"starting", "commit", "ready", "lock", "mark", "read", "backup"}
Syncing   == {"json", "json?", "jsonc", "jsonc?"}
Bare(f)   == IF f = "app" THEN Early \cup {"journal"} \cup Syncing \cup {"verified", "app backup"}
             ELSE Early
Before(f) == IF f = "app" THEN Bare(f) \cup {"app journal"} ELSE Early \cup {"journal"}

\* What holds of a run that found no journal.
Grounded ==
  /\ ~m.rec.opencode /\ ~m.rec.app
  /\ \A f \in Mig!Files : /\ m.base[f].ver >= 0
                          /\ m.file[f] \in Mig!Of(m.base[f]) \/ m.file[f].ver > m.base[f].ver
                          /\ m.pc \in Before(f) => ~Mig!Changed(f)
BackedUp ==
  \A f \in Mig!Files :
    /\ m.pc \in Bare(f) => m.kept[f] = Mig!Missing
    /\ m.pc \in Mig!Steps \ Bare(f) => m.kept[f] = m.base[f]
    /\ Running => m.kept[f] \in {Mig!Missing, m.base[f]}
    /\ Running /\ m.verified /\ f # "app" => m.kept[f] = m.base[f]
Verifies == m.pc \in Late \ {"verified"} => m.verified
InJournal(f) == m.disk.phase \in IF f = "app" THEN {"app_config_backup_prepared", "committed"}
                                 ELSE Mig!Backed \cup {"committed"}
Ahead ==
  /\ m.pc \in Syncing \cup Late => m.disk.phase \in Mig!Backed
  /\ m.pc \in {"app", "app?", "final"} => m.disk.phase = "app_config_backup_prepared"
  /\ m.undone => \A f \in Mig!Files : Mig!Changed(f) => m.kept[f] = m.base[f] /\ InJournal(f)
Undoing ==
  m.undone =>
  /\ Running /\ Mig!Changed("app") => m.wroteApp
  /\ m.pc \in {"undo opencode", "undo state", "stopping", "failed"} => ~Mig!Changed("app")
  /\ \A f \in Mig!OpenCode : Mig!Changed(f) =>
       /\ Running /\ ~m.verified => f \in m.replaced /\ m.pc \notin {"undo app", "undo opencode"}
       /\ m.pc \notin {"undo state", "stopping", "failed"}

OwnRun == m.rec.any \/ (Grounded /\ BackedUp /\ Verifies /\ Ahead /\ Undoing)
MigInv == m \in MigStates /\ VersionsAge /\ BufferShuts /\ WalkIsDone /\ OwnRun

-----------------------------------------------------------------------------
FilesStay == m'.file = m.file /\ m'.base = m.base /\ m'.kept = m.kept /\ m'.rec = m.rec /\ m'.edits = m.edits
RunStays  == /\ m'.replaced = m.replaced /\ m'.verified = m.verified /\ m'.wroteApp = m.wroteApp
             /\ m'.started = m.started /\ m'.walked = m.walked /\ m'.undone = m.undone

LEMMA Places ==
  /\ Early \cap Late = {} /\ Early \cap Syncing = {} /\ Syncing \cap Late = {}
  /\ Mig!Steps = Early \cup {"journal"} \cup Syncing \cup Late
  /\ Mig!Steps \cap Mig!Undos = {} /\ "off" \notin Mig!Steps \cup Mig!Undos /\ "failed" \notin Mig!Steps \cup Mig!Undos
  /\ "success" \notin Mig!Steps \cup Mig!Undos
  /\ Mig!Files = {"json", "jsonc", "app"} /\ Mig!OpenCode = {"json", "jsonc"}
BY DEF Early, Late, Syncing, Mig!Steps, Mig!Undos, Mig!Files, Mig!OpenCode

LEMMA Frame ==
  ASSUME FilesStay
  PROVE  /\ \A f : (Mig!Changed(f)' <=> Mig!Changed(f)) /\ (Done(f)' <=> Done(f))
         /\ VersionsAge => VersionsAge'
BY DEF FilesStay, Mig!Changed, Done, VersionsAge

\* The walk gives up, before it wrote anything or with all of its own accounted for.
LEMMA GiveUp ==
  ASSUME MigInv, m' \in MigStates, FilesStay, m'.disk = m.disk, m'.started = m.started,
         m'.walked = m.walked, m'.undone = m.undone, m'.replaced = m.replaced,
         m.pc \in Mig!Steps, m'.pc = "undo app", m.pc \in Early \cup {"journal"} \cup Late,
         m.pc = "starting" => m'.buffer = "closed",
         m.wroteApp => m'.wroteApp, IF m.pc = "verified" THEN m'.verified ELSE m'.verified = m.verified
  PROVE  MigInv'
<1>1. VersionsAge' /\ BufferShuts' /\ WalkIsDone'
  BY Frame, Places, Zenon DEF MigInv, BufferShuts, WalkIsDone, Behind, Running, Mig!Undos, Early, Late
<1>2. OwnRun'
  <2>1. SUFFICES ASSUME Grounded, BackedUp, Verifies, Ahead, Undoing, ~m.rec.any
                 PROVE  Grounded' /\ BackedUp' /\ Verifies' /\ Ahead' /\ Undoing'
    BY Zenon DEF MigInv, OwnRun, FilesStay
  <2>2. Grounded' /\ Verifies'
    BY <2>1, Frame, Zenon DEF Grounded, FilesStay, Before, Bare, Early, Syncing, Verifies, Late
  <2>3. BackedUp'
    BY <2>1, Places, Zenon DEF BackedUp, FilesStay, Bare, Running, Mig!Undos, Early, Syncing, Late
  <2>4. Ahead'
    BY <2>1, Frame, Zenon DEF Ahead, FilesStay, InJournal, Syncing, Late
  <2>5. Undoing'
    BY <2>1, Frame, Places, Zenon DEF Undoing, Verifies, Running, Grounded, Before, Early, Late
  <2> QED
    BY <2>2, <2>3, <2>4, <2>5, Zenon
<1> QED
  BY <1>1, <1>2, Zenon DEF MigInv

\* The walk gives up among the files it replaces.
LEMMA TurnBack ==
  ASSUME MigInv, m' \in MigStates, FilesStay, RunStays, m'.disk = m.disk, m'.buffer = m.buffer,
         m.pc \in Syncing, m'.pc = "unsync"
  PROVE  MigInv'
<1>1. VersionsAge' /\ BufferShuts' /\ WalkIsDone'
  BY Frame, Places, Zenon DEF MigInv, BufferShuts, WalkIsDone, RunStays, Behind, Running, Mig!Undos,
     Syncing,
     Late
<1>2. OwnRun'
  <2>1. SUFFICES ASSUME Grounded, BackedUp, Verifies, Ahead, Undoing, ~m.rec.any
                 PROVE  Grounded' /\ BackedUp' /\ Verifies' /\ Ahead' /\ Undoing'
    BY DEF MigInv, OwnRun, FilesStay
  <2>2. Grounded' /\ Verifies'
    BY <2>1, Frame, Zenon DEF Grounded, FilesStay, Before, Bare, Early, Syncing, Verifies, Late
  <2>3. BackedUp'
    BY <2>1, Places, Zenon DEF BackedUp, FilesStay, RunStays, Bare, Running, Mig!Undos, Early, Syncing,
       Late
  <2>4. Ahead'
    BY <2>1, Frame, Zenon DEF Ahead, FilesStay, RunStays, InJournal, Syncing, Late
  <2>5. Undoing'
    BY <2>1, Frame, Places, Zenon DEF Undoing, RunStays, Running, Syncing
  <2> QED
    BY <2>2, <2>3, <2>4, <2>5
<1> QED
  BY <1>1, <1>2 DEF MigInv

\* The walk goes on before any file changed.
LEMMA EarlyMove ==
  ASSUME MigInv, m' \in MigStates, FilesStay, m'.replaced = m.replaced, m'.verified = m.verified,
         m'.wroteApp = m.wroteApp, m'.walked = m.walked, m'.undone = m.undone,
         m.pc \in Early, m'.pc \in Early, m'.started
  PROVE  MigInv'
<1>1. VersionsAge' /\ BufferShuts' /\ WalkIsDone'
  BY Frame, Places, Zenon DEF MigInv, BufferShuts, WalkIsDone, Behind, Running, Early, Late, Mig!Steps
<1>2. OwnRun'
  <2>1. SUFFICES ASSUME Grounded, BackedUp, Verifies, Ahead, Undoing, ~m.rec.any
                 PROVE  Grounded' /\ BackedUp' /\ Verifies' /\ Ahead' /\ Undoing'
    BY DEF MigInv, OwnRun, FilesStay
  <2>2. Grounded' /\ Verifies' /\ \A f \in Mig!Files : ~Mig!Changed(f)
    BY <2>1, Frame, Places, Zenon DEF Grounded, FilesStay, Before, Bare, Verifies
  <2>3. BackedUp'
    BY <2>1, Places, Zenon DEF BackedUp, FilesStay, Bare, Running
  <2>4. Ahead' /\ Undoing'
    BY <2>1, <2>2, Frame, Places, Zenon DEF Ahead, Undoing, FilesStay, Syncing, Late, Early
  <2> QED
    BY <2>2, <2>3, <2>4
<1> QED
  BY <1>1, <1>2 DEF MigInv

\* The walk goes on past a file that is as it should be.
LEMMA Passes ==
  ASSUME MigInv, m' \in MigStates, FilesStay, m'.disk = m.disk, m'.replaced = m.replaced,
         m'.verified = m.verified, m'.started = m.started, m'.walked = m.walked, m'.undone = m.undone,
         m.wroteApp => m'.wroteApp,
         \/ m.pc \in {"json", "json?"} /\ m'.pc = "jsonc" /\ Done("json")
         \/ m.pc \in {"jsonc", "jsonc?"} /\ m'.pc = "verified" /\ Done("jsonc")
         \/ m.pc \in {"app", "app?"} /\ m'.pc = "final" /\ Done("app")
  PROVE  MigInv'
<1>1. VersionsAge' /\ BufferShuts' /\ WalkIsDone'
  BY Frame, Places, Zenon DEF MigInv, BufferShuts, WalkIsDone, Behind, Running, Syncing, Late
<1>2. OwnRun'
  <2>1. SUFFICES ASSUME Grounded, BackedUp, Verifies, Ahead, Undoing, ~m.rec.any
                 PROVE  Grounded' /\ BackedUp' /\ Verifies' /\ Ahead' /\ Undoing'
    BY DEF MigInv, OwnRun, FilesStay
  <2>2. Grounded' /\ Verifies'
    BY <2>1, Frame, Places, Zenon DEF Grounded, FilesStay, Before, Bare, Early, Syncing, Verifies, Late
  <2>3. BackedUp'
    BY ZenonT(40), <2>1, Places DEF BackedUp, FilesStay, Bare, Running, Early, Syncing, Late
  <2>4. Ahead'
    BY <2>1, Frame, Zenon DEF Ahead, FilesStay, InJournal, Syncing, Late
  <2>5. Undoing'
    BY <2>1, Frame, Places, Zenon DEF Undoing, Running, Syncing, Late
  <2> QED
    BY <2>2, <2>3, <2>4, <2>5
<1> QED
  BY <1>1, <1>2 DEF MigInv

-----------------------------------------------------------------------------
(* The walk, action by action *)

LEMMA Counts ==
  ASSUME m \in MigStates
  PROVE  m.faults + 1 \in Nat /\ m.crashes + 1 \in Nat /\ m.edits + 1 \in Nat /\ m.edits \in Nat
BY DEF MigStates

LEMMA WalkFails ==
  ASSUME MigInv, m.pc \in (Early \ {"starting"}) \cup {"journal"} \cup (Late \ {"verified"}),
         m' = Mig!Go("undo app") \/ Mig!Fails("undo app")
  PROVE  MigInv'
<1>1. PICK n \in Nat : m' = [m EXCEPT !.pc = "undo app", !.faults = n]
  <2>1. CASE m' = Mig!Go("undo app")
    <3>1. m' = [m EXCEPT !.pc = "undo app", !.faults = m.faults] /\ m.faults \in Nat
      BY <2>1, Zenon DEF Mig!Go, MigInv, MigStates
    <3> QED
      BY <3>1, Zenon
  <2>2. CASE Mig!Fails("undo app")
    BY <2>2, Counts, Zenon DEF Mig!Fails, Mig!Go, MigInv, MigStates
  <2> QED
    BY <2>1, <2>2, Zenon
<1>2. /\ m' \in MigStates /\ FilesStay /\ RunStays /\ m'.disk = m.disk /\ m'.pc = "undo app"
      /\ m.pc \in Mig!Steps
  BY ZenonT(40), <1>1, Places DEF MigInv, MigStates, FilesStay, RunStays, Mig!Undos
<1> QED
  BY <1>2, GiveUp, Zenon DEF RunStays, Early, Late

LEMMA SyncFails ==
  ASSUME MigInv, m.pc \in Syncing, m' = Mig!Go("unsync") \/ Mig!Fails("unsync") PROVE MigInv'
<1>1. PICK n \in Nat : m' = [m EXCEPT !.pc = "unsync", !.faults = n]
  <2>1. CASE m' = Mig!Go("unsync")
    <3>1. m' = [m EXCEPT !.pc = "unsync", !.faults = m.faults] /\ m.faults \in Nat
      BY <2>1, Zenon DEF Mig!Go, MigInv, MigStates
    <3> QED
      BY <3>1, Zenon
  <2>2. CASE Mig!Fails("unsync")
    BY <2>2, Counts, Zenon DEF Mig!Fails, Mig!Go, MigInv, MigStates
  <2> QED
    BY <2>1, <2>2, Zenon
<1>2. m' \in MigStates /\ FilesStay /\ RunStays /\ m'.disk = m.disk /\ m'.buffer = m.buffer
      /\ m'.pc = "unsync"
  BY <1>1, Zenon DEF MigInv, MigStates, FilesStay, RunStays, Mig!Undos
<1> QED
  BY <1>2, TurnBack

LEMMA StartsStep == ASSUME MigInv, Mig!Starts \/ Mig!StartFails PROVE MigInv'
<1>1. CASE Mig!Starts
  <2>1. m' \in MigStates /\ FilesStay /\ m'.pc = "commit" /\ m.pc = "starting" /\ m'.started
        /\ m'.replaced = m.replaced /\ m'.verified = m.verified /\ m'.wroteApp = m.wroteApp
        /\ m'.walked = m.walked /\ m'.undone = m.undone
    BY <1>1, Zenon DEF Mig!Starts, Mig!Go, MigInv, MigStates, FilesStay, Mig!Steps
  <2> QED
    BY <2>1, EarlyMove DEF Early
<1>2. CASE Mig!StartFails
  <2>1. /\ m' \in MigStates /\ FilesStay /\ RunStays /\ m'.disk = m.disk
        /\ m'.pc = "undo app" /\ m.pc = "starting" /\ m'.buffer = "closed"
    BY <1>2, Counts, Zenon DEF Mig!StartFails, Mig!Go, MigInv, MigStates, FilesStay, RunStays, Mig!Undos
  <2> QED
    BY <2>1, GiveUp, Places, Zenon DEF RunStays, Early
<1> QED
  BY <1>1, <1>2

LEMMA EarlyPersist ==
  ASSUME MigInv, NEW at \in Early \ {"starting"}, NEW phase \in Mig!Phases, NEW to \in Early,
         Mig!Persist(at, phase, to)
  PROVE  MigInv'
<1>1. CASE Mig!Fails("undo app")
  BY <1>1, WalkFails, Zenon DEF Mig!Persist
<1>2. CASE m' = [Mig!Go(to) EXCEPT !.disk.phase = phase]
  <2>1. m.pc = at /\ at \in Early /\ at # "starting" /\ to \in Mig!Steps /\ at \in Mig!Steps
    BY Places, Zenon DEF Mig!Persist
  <2>2. m' \in MigStates /\ FilesStay /\ RunStays /\ m'.pc = to /\ m'.started
    BY <1>2, <2>1, Zenon DEF Mig!Go, MigInv, MigStates, FilesStay, RunStays, BufferShuts
  <2> QED
    BY <2>1, <2>2, EarlyMove DEF RunStays
<1> QED
  BY <1>1, <1>2, Zenon DEF Mig!Persist

LEMMA CommitStep == ASSUME MigInv, Mig!Commit \/ Mig!Ready PROVE MigInv'
<1>1. CASE Mig!Persist("commit", "state_prepared", "ready") \/ Mig!Persist("ready", "gateway_ready", "lock")
  BY <1>1, EarlyPersist DEF Early, Mig!Phases
<1>2. CASE m.pc = "commit" /\ m' = Mig!Go("ready")
  <2>1. m' \in MigStates /\ FilesStay /\ RunStays /\ m'.pc = "ready" /\ m'.started
    BY <1>2, Zenon DEF Mig!Go, MigInv, MigStates, FilesStay, RunStays, BufferShuts, Mig!Steps
  <2> QED
    BY <1>2, <2>1, EarlyMove DEF RunStays, Early
<1> QED
  BY <1>1, <1>2 DEF Mig!Commit, Mig!Ready

LEMMA MarkStep == ASSUME MigInv, Mig!NameMark \/ Mig!MakeMark PROVE MigInv'
<1>1. CASE Mig!Fails("undo app") /\ m.pc \in {"lock", "mark"}
  BY <1>1, WalkFails, Zenon DEF Early
<1>2. CASE /\ m.pc = "lock"
           /\ m' = [Mig!Go("mark") EXCEPT !.disk.phase = "opencode_lock_prepared", !.mark = FALSE]
  <2>1. m' \in MigStates /\ FilesStay /\ RunStays /\ m'.pc = "mark" /\ m'.started
    BY ZenonT(40), <1>2 DEF Mig!Go, MigInv, MigStates, FilesStay, RunStays, BufferShuts, Mig!Steps,
       Mig!Phases
  <2> QED
    BY <1>2, <2>1, EarlyMove DEF RunStays, Early
<1>3. CASE m.pc = "mark" /\ m' = [Mig!Go("read") EXCEPT !.mark = TRUE]
  <2>1. m' \in MigStates /\ FilesStay /\ RunStays /\ m'.pc = "read" /\ m'.started
    BY <1>3, Zenon DEF Mig!Go, MigInv, MigStates, FilesStay, RunStays, BufferShuts, Mig!Steps
  <2> QED
    BY <1>3, <2>1, EarlyMove DEF RunStays, Early
<1> QED
  BY <1>1, <1>2, <1>3, Zenon DEF Mig!NameMark, Mig!MakeMark

\* Of a run that found a journal nothing more is claimed than of the walk.
LEMMA RecoveredRun ==
  ASSUME MigInv, m' \in MigStates, m'.rec = m.rec, m.rec.any, VersionsAge', BufferShuts', WalkIsDone'
  PROVE  MigInv'
BY DEF MigInv, OwnRun

LEMMA ReadFilesStep == ASSUME MigInv, Mig!ReadFiles PROVE MigInv'
<1>1. CASE ~m.rec.opencode
  <2> DEFINE base == [f \in Mig!Files |-> IF f = "app" THEN m.base[f] ELSE m.file[f]]
  <2>1. base \in Whole /\ \A f \in Mig!Files : base[f] = IF f = "app" THEN m.base[f] ELSE m.file[f]
    BY DEF MigInv, MigStates, Whole
  <2>2. m' = [m EXCEPT !.pc = "backup", !.base = base] /\ m.pc = "read"
    BY <1>1 DEF Mig!ReadFiles, Mig!Go, MigInv, MigStates
  <2> HIDE DEF base
  <2>3. /\ m' \in MigStates /\ RunStays /\ m'.disk = m.disk /\ m'.buffer = m.buffer
        /\ m'.pc = "backup" /\ m'.file = m.file /\ m'.kept = m.kept /\ m'.rec = m.rec
        /\ m'.edits = m.edits /\ m'.base = base
    BY <2>1, <2>2, Zenon DEF MigInv, MigStates, RunStays, Mig!Steps
  <2>4. VersionsAge'
    BY <2>1, <2>3 DEF MigInv, VersionsAge
  <2>5. BufferShuts' /\ WalkIsDone'
    <3>1. BufferShuts'
      BY <2>2, <2>3 DEF MigInv, BufferShuts, RunStays, Running, Mig!Steps, Mig!Undos
    <3>2. WalkIsDone'
      BY <2>3 DEF WalkIsDone, Behind, Late, Mig!Files, Mig!OpenCode
    <3> QED
      BY <3>1, <3>2
  <2>6. OwnRun'
    <3>1. SUFFICES ASSUME Grounded, BackedUp, Verifies, Ahead, Undoing, ~m.rec.any
                   PROVE  Grounded' /\ BackedUp' /\ Verifies' /\ Ahead' /\ Undoing'
      BY <2>3 DEF MigInv, OwnRun
    <3>2. \A f \in Mig!Files : ~Mig!Changed(f)'
      BY <2>1, <2>2, <2>3, <3>1 DEF Mig!Changed, Grounded, Before, Bare, Early
    <3>3. Grounded'
      BY <2>1, <2>3, <3>1, <3>2 DEF MigInv, VersionsAge, Grounded, Mig!Of
    <3>4. BackedUp' /\ Verifies'
      <4>1. m.kept["json"] = Mig!Missing /\ m.base["json"] # Mig!Missing /\ "json" \in Mig!Files
        BY <2>2, <3>1 DEF BackedUp, Bare, Early, Grounded, Mig!Missing, Mig!Files, Mig!OpenCode
      <4>2. ~m.verified
        BY <2>2, <3>1, <4>1 DEF BackedUp, Running, Mig!Steps
      <4> QED
        BY <2>2, <2>3, <3>1, <4>2 DEF BackedUp, RunStays, Bare, Early, Late, Verifies, Syncing,
           Mig!Steps
    <3>5. Ahead' /\ Undoing'
      BY <2>3, <3>2, Places, Zenon DEF Ahead, Undoing, Early, Syncing, Late
    <3> QED
      BY <3>3, <3>4, <3>5
  <2> QED
    BY <2>3, <2>4, <2>5, <2>6 DEF MigInv
<1>2. CASE m.rec.opencode /\ m' = Mig!Go("json")
  <2>1. /\ m' \in MigStates /\ FilesStay /\ RunStays /\ m'.pc = "json" /\ m'.buffer = m.buffer
        /\ m.pc = "read" /\ m'.disk = m.disk
    BY <1>2, Zenon DEF Mig!ReadFiles, Mig!Go, MigInv, MigStates, FilesStay, RunStays, Mig!Steps
  <2>2. VersionsAge' /\ BufferShuts' /\ WalkIsDone'
    <3>1. VersionsAge' /\ BufferShuts'
      BY <2>1, Frame DEF MigInv, BufferShuts, RunStays, Running, Mig!Steps, Mig!Undos
    <3>2. WalkIsDone'
      BY <2>1 DEF WalkIsDone, Behind, Late, Mig!Files, Mig!OpenCode
    <3> QED
      BY <3>1, <3>2
  <2>3. m.rec.any
    BY <1>2 DEF MigInv, OwnRun, Grounded
  <2> QED
    BY <2>1, <2>2, <2>3, RecoveredRun DEF FilesStay
<1>3. CASE m' = Mig!Go("undo app")
  BY <1>3, WalkFails, Zenon DEF Mig!ReadFiles, Early
<1> QED
  BY <1>1, <1>2, <1>3, Zenon DEF Mig!ReadFiles

LEMMA MigBackupStep == ASSUME MigInv, Mig!Backup PROVE MigInv'
<1>1. CASE m' = Mig!Go("undo app") \/ Mig!Fails("undo app")
  BY <1>1, WalkFails, Zenon DEF Mig!Backup, Early
<1>2. CASE m' = [Mig!Go("journal") EXCEPT !.kept = [f \in Mig!Files |-> IF f = "app" THEN @[f] ELSE m.base[f]]]
  <2> DEFINE kept == [f \in Mig!Files |-> IF f = "app" THEN m.kept[f] ELSE m.base[f]]
  <2>1. kept \in Whole /\ \A f \in Mig!Files : kept[f] = IF f = "app" THEN m.kept[f] ELSE m.base[f]
    BY DEF MigInv, MigStates, Whole
  <2>2. m' = [m EXCEPT !.pc = "journal", !.kept = kept] /\ m.pc = "backup"
    BY <1>2, Zenon DEF Mig!Backup, Mig!Go, MigInv, MigStates
  <2> HIDE DEF kept
  <2>3. /\ m' \in MigStates /\ RunStays /\ m'.disk = m.disk /\ m'.buffer = m.buffer
        /\ m'.pc = "journal" /\ m'.file = m.file /\ m'.kept = kept /\ m'.rec = m.rec
        /\ m'.edits = m.edits /\ m'.base = m.base
    BY <2>1, <2>2, Zenon DEF MigInv, MigStates, RunStays, Mig!Steps
  <2>4. VersionsAge'
    BY <2>1, <2>3 DEF MigInv, VersionsAge
  <2>5. BufferShuts' /\ WalkIsDone'
    <3>1. BufferShuts'
      BY <2>2, <2>3 DEF MigInv, BufferShuts, RunStays, Running, Mig!Steps, Mig!Undos
    <3>2. WalkIsDone'
      BY <2>3 DEF WalkIsDone, Behind, Late, Mig!Files, Mig!OpenCode
    <3> QED
      BY <3>1, <3>2
  <2>6. OwnRun'
    <3>1. SUFFICES ASSUME Grounded, BackedUp, Verifies, Ahead, Undoing, ~m.rec.any
                   PROVE  Grounded' /\ BackedUp' /\ Verifies' /\ Ahead' /\ Undoing'
      BY <2>3 DEF MigInv, OwnRun
    <3>2. \A f \in Mig!Files : ~Mig!Changed(f) /\ ~Mig!Changed(f)'
      BY <2>2, <2>3, <3>1 DEF Mig!Changed, Grounded, Before, Bare, Early
    <3>3. Grounded'
      BY <2>3, <3>1, <3>2 DEF Grounded
    <3>4. BackedUp' /\ Verifies'
      BY <2>1, <2>2, <2>3, <3>1 DEF BackedUp, Bare, Running, Early, Late, Verifies, Mig!Steps
    <3>5. Ahead' /\ Undoing'
      BY <2>3, <3>2, Places, Zenon DEF Ahead, Undoing, Early, Syncing, Late
    <3> QED
      BY <3>3, <3>4, <3>5
  <2> QED
    BY <2>3, <2>4, <2>5, <2>6 DEF MigInv
<1> QED
  BY <1>1, <1>2, Zenon DEF Mig!Backup

LEMMA Texts ==
  \A c \in Vers : /\ Mig!Rewritten(c) \in Vers /\ Mig!Rewritten(c).ver = c.ver /\ Mig!Rewritten(c).new
                  /\ c \in Mig!Of(c) /\ Mig!Rewritten(c) \in Mig!Of(c) /\ \A d \in Mig!Of(c) : d.ver = c.ver
BY Zenon DEF Vers, Mig!Rewritten, Mig!Of

BaseStays == m'.base = m.base /\ m'.kept = m.kept /\ m'.rec = m.rec /\ m'.edits = m.edits

\* A file is written: another content of the same version.
LEMMA FileWritten ==
  ASSUME MigInv, BaseStays, NEW f \in Mig!Files, NEW c \in Vers, c.ver = m.file[f].ver,
         m'.file = [m.file EXCEPT ![f] = c]
  PROVE  /\ VersionsAge' /\ m'.file[f] = c
         /\ \A g \in Mig!Files : g # f =>
              m'.file[g] = m.file[g] /\ (Mig!Changed(g)' <=> Mig!Changed(g)) /\ (Done(g)' <=> Done(g))
<1>1. m'.file[f] = c /\ \A g \in Mig!Files : g # f => m'.file[g] = m.file[g]
  BY DEF MigInv, MigStates, Whole
<1>2. VersionsAge'
  BY <1>1 DEF MigInv, VersionsAge, BaseStays
<1> QED
  BY <1>1, <1>2 DEF Mig!Changed, Done, BaseStays

LEMMA FileTypes ==
  ASSUME MigInv, NEW f \in Mig!Files
  PROVE  m.file[f] \in Vers /\ m.base[f] \in Vers /\ m.kept[f] \in Vers
BY DEF MigInv, MigStates, Whole

LEMMA JournalStep == ASSUME MigInv, Mig!Journal PROVE MigInv'
<1>1. CASE Mig!Fails("undo app")
  BY <1>1, WalkFails, Zenon DEF Mig!Journal, Mig!Persist
<1>2. CASE m' = [Mig!Go("json") EXCEPT !.disk.phase = "opencode_backup_prepared"]
  <2>1. /\ m' \in MigStates /\ FilesStay /\ RunStays /\ m'.pc = "json" /\ m'.buffer = m.buffer
        /\ m.pc = "journal" /\ m'.disk.phase = "opencode_backup_prepared"
    BY <1>2, Zenon DEF Mig!Journal, Mig!Persist, Mig!Go, MigInv, MigStates, FilesStay, RunStays, Mig!Steps,
       Mig!Phases
  <2>2. VersionsAge' /\ BufferShuts'
    BY <2>1, Frame DEF MigInv, BufferShuts, RunStays, Running, Mig!Steps, Mig!Undos
  <2>3. WalkIsDone'
    BY <2>1 DEF WalkIsDone, Behind, Late, Mig!Files, Mig!OpenCode
  <2>4. OwnRun'
    <3>1. SUFFICES ASSUME Grounded, BackedUp, Verifies, Ahead, Undoing, ~m.rec.any
                   PROVE  Grounded' /\ BackedUp' /\ Verifies' /\ Ahead' /\ Undoing'
      BY <2>1 DEF MigInv, OwnRun, FilesStay
    <3>2. \A f \in Mig!Files : ~Mig!Changed(f)
      BY <2>1, <3>1 DEF Grounded, Before, Bare
    <3>3. Grounded' /\ Verifies'
      BY <2>1, <3>1, <3>2, Frame DEF Grounded, FilesStay, Verifies, Late
    <3>4. BackedUp'
      BY <2>1, <3>1, Places DEF BackedUp, FilesStay, RunStays, Bare, Running, Early, Syncing
    <3>5. Ahead' /\ Undoing'
      BY <2>1, <3>2, Frame, Places, Zenon DEF Ahead, Undoing, Syncing, Late, Mig!Backed, Mig!Locked
    <3> QED
      BY <3>3, <3>4, <3>5
  <2> QED
    BY <2>1, <2>2, <2>3, <2>4 DEF MigInv
<1> QED
  BY <1>1, <1>2, Zenon DEF Mig!Journal, Mig!Persist

LEMMA MigReplaceStep == ASSUME MigInv, NEW f \in Mig!OpenCode, Mig!Replace(f) PROVE MigInv'
<1>0. f \in Mig!Files /\ f # "app" /\ m.pc = f /\ m.pc \in Syncing
  BY DEF Mig!Replace, Mig!OpenCode, Mig!Files, Syncing
<1>1. CASE m' = Mig!Go("unsync") \/ Mig!Fails("unsync")
  BY <1>0, <1>1, SyncFails
<1>2. CASE m.file[f] = Mig!Rewritten(m.base[f]) /\ m' = Mig!Go(Mig!After(f))
  <2>1. /\ m' \in MigStates /\ FilesStay /\ RunStays /\ m'.pc = Mig!After(f) /\ m'.disk = m.disk
    BY <1>2, Zenon DEF Mig!After, Mig!OpenCode, Mig!Go, MigInv, MigStates, FilesStay, RunStays, Mig!Steps
  <2>2. Done(f)
    BY <1>0, <1>2, FileTypes, Texts DEF Done
  <2> QED
    BY <1>0, <2>1, <2>2, Passes DEF RunStays, Mig!After, Mig!OpenCode
<1>3. CASE /\ m.file[f] \in Mig!Of(m.base[f])
           /\ m' = [Mig!Go(IF f = "json" THEN "json?" ELSE "jsonc?")
                          EXCEPT !.file[f] = Mig!Rewritten(m.base[f]), !.replaced = @ \cup {f}]
  <2> DEFINE c == Mig!Rewritten(m.base[f])
  <2>1. c \in Vers /\ c.ver = m.file[f].ver /\ c.new /\ c \in Mig!Of(m.base[f])
    BY <1>0, <1>3, FileTypes, Texts
  <2>2. PICK to \in {"json?", "jsonc?"} : to = IF f = "json" THEN "json?" ELSE "jsonc?"
    OBVIOUS
  <2>3. m' = [m EXCEPT !.pc = to, !.file[f] = c, !.replaced = m.replaced \cup {f}]
    BY <1>3, <2>2 DEF Mig!Go, MigInv, MigStates
  <2> HIDE DEF c
  <2>4. /\ m' \in MigStates /\ BaseStays /\ m'.pc = to /\ m'.disk = m.disk /\ m'.buffer = m.buffer
        /\ m'.file = [m.file EXCEPT ![f] = c] /\ m'.replaced = m.replaced \cup {f}
        /\ m'.verified = m.verified /\ m'.wroteApp = m.wroteApp /\ m'.started = m.started
        /\ m'.undone = m.undone
    BY <2>1, <2>3, Zenon DEF MigInv, MigStates, Whole, BaseStays, Mig!Steps
  <2>5. /\ VersionsAge' /\ m'.file[f] = c
        /\ \A g \in Mig!Files : g # f =>
             m'.file[g] = m.file[g] /\ (Mig!Changed(g)' <=> Mig!Changed(g)) /\ (Done(g)' <=> Done(g))
    BY <1>0, <2>1, <2>4, FileWritten
  <2>6. BufferShuts'
    BY <1>0, <2>4, Zenon DEF MigInv, BufferShuts, Running, Syncing, Mig!Steps, Mig!Undos
  <2>7. WalkIsDone'
    BY <1>0, <2>2, <2>4, <2>5, Zenon DEF MigInv, WalkIsDone, Behind, Late, Mig!Files, Mig!OpenCode
  <2>8. OwnRun'
    <3>1. SUFFICES ASSUME Grounded, BackedUp, Verifies, Ahead, Undoing, ~m.rec.any
                   PROVE  Grounded' /\ BackedUp' /\ Verifies' /\ Ahead' /\ Undoing'
      BY <2>4 DEF MigInv, OwnRun, BaseStays
    <3>2. Grounded'
      BY <1>0, <2>1, <2>4, <2>5, <3>1, Zenon DEF Grounded, BaseStays, Before, Bare, Early, Syncing
    <3>3. BackedUp' /\ Verifies'
      BY <1>0, <2>4, <3>1, Places, Zenon
      DEF BackedUp, BaseStays, Bare, Running, Early, Syncing, Verifies, Late
    <3>4. Ahead'
      <4>1. m.kept[f] = m.base[f] /\ m.disk.phase \in Mig!Backed
        BY <1>0, <3>1, Places, Zenon DEF BackedUp, Bare, Ahead
      <4> QED
        BY ZenonT(40), <1>0, <2>4, <2>5, <3>1, <4>1 DEF Ahead, BaseStays, InJournal, Syncing, Late
    <3>5. Undoing'
      BY <1>0, <2>4, <2>5, <3>1, Places, Zenon DEF Undoing, Running, Syncing
    <3> QED
      BY <3>2, <3>3, <3>4, <3>5
  <2> QED
    BY <2>4, <2>5, <2>6, <2>7, <2>8 DEF MigInv
<1> QED
  BY <1>1, <1>2, <1>3 DEF Mig!Replace

LEMMA RecheckStep == ASSUME MigInv, NEW f \in Mig!OpenCode, Mig!Recheck(f) PROVE MigInv'
<1>0. f \in Mig!Files /\ m.pc = (IF f = "json" THEN "json?" ELSE "jsonc?") /\ m.pc \in Syncing
  BY DEF Mig!Recheck, Mig!OpenCode, Mig!Files, Syncing
<1>1. CASE m' = Mig!Go("unsync") \/ Mig!Fails("unsync")
  BY <1>0, <1>1, SyncFails
<1>2. CASE m.file[f] = Mig!Rewritten(m.base[f]) /\ m' = Mig!Go(Mig!After(f))
  <2>1. /\ m' \in MigStates /\ FilesStay /\ RunStays /\ m'.pc = Mig!After(f) /\ m'.disk = m.disk
    BY <1>2, Zenon DEF Mig!After, Mig!OpenCode, Mig!Go, MigInv, MigStates, FilesStay, RunStays, Mig!Steps
  <2>2. Done(f)
    BY <1>0, <1>2, FileTypes, Texts DEF Done
  <2> QED
    BY <1>0, <2>1, <2>2, Passes DEF RunStays, Mig!After, Mig!OpenCode
<1> QED
  BY <1>1, <1>2 DEF Mig!Recheck

LEMMA MigVerifiedStep == ASSUME MigInv, Mig!Verified PROVE MigInv'
<1>1. CASE m' = [Mig!Go("app backup") EXCEPT !.verified = TRUE, !.disk.phase = "opencode_replaced_verified"]
  <2>1. /\ m' \in MigStates /\ FilesStay /\ m'.pc = "app backup" /\ m'.buffer = m.buffer
        /\ m.pc = "verified" /\ m'.disk.phase = "opencode_replaced_verified" /\ m'.verified
        /\ m'.replaced = m.replaced /\ m'.wroteApp = m.wroteApp /\ m'.started = m.started
        /\ m'.undone = m.undone
    BY <1>1, Zenon DEF Mig!Verified, Mig!Go, MigInv, MigStates, FilesStay, Mig!Steps, Mig!Phases
  <2>2. VersionsAge' /\ BufferShuts'
    BY <2>1, Frame, Zenon DEF MigInv, BufferShuts, Running, Mig!Steps, Mig!Undos
  <2>3. WalkIsDone'
    BY <2>1, Frame, Zenon DEF MigInv, WalkIsDone, Behind, Late, Mig!Files, Mig!OpenCode
  <2>4. OwnRun'
    <3>1. SUFFICES ASSUME Grounded, BackedUp, Verifies, Ahead, Undoing, ~m.rec.any
                   PROVE  Grounded' /\ BackedUp' /\ Verifies' /\ Ahead' /\ Undoing'
      BY <2>1, Zenon DEF MigInv, OwnRun, FilesStay
    <3>2. Grounded' /\ Verifies'
      BY <2>1, <3>1, Frame, Zenon DEF Grounded, FilesStay, Before, Bare, Early, Syncing, Verifies
    <3>3. BackedUp'
      BY <2>1, <3>1, Places, Zenon DEF BackedUp, FilesStay, Bare, Running, Early, Syncing, Late
    <3>4. Ahead'
      <4>1. ~Mig!Changed("app") /\ "opencode_replaced_verified" \in Mig!Backed
        BY <2>1, <3>1, Zenon DEF Grounded, Before, Bare, Mig!Files, Mig!Backed, Mig!Locked
      <4> QED
        BY <2>1, <3>1, <4>1, Frame, Zenon DEF Ahead, FilesStay, InJournal
    <3>5. Undoing'
      BY <2>1, <3>1, Frame, Places, Zenon DEF Undoing, Running, Late
    <3> QED
      BY <3>2, <3>3, <3>4, <3>5
  <2> QED
    BY <2>1, <2>2, <2>3, <2>4, Zenon DEF MigInv
<1>2. CASE Mig!CanFail /\ m' = [Mig!Go("undo app") EXCEPT !.verified = TRUE, !.faults = @ + 1]
  <2>1. /\ m' \in MigStates /\ FilesStay /\ m'.pc = "undo app" /\ m'.disk = m.disk
        /\ m.pc = "verified" /\ m'.verified /\ m'.walked = m.walked
        /\ m'.replaced = m.replaced /\ m'.wroteApp = m.wroteApp /\ m'.started = m.started
        /\ m'.undone = m.undone
    BY <1>2, Counts, Zenon DEF Mig!Verified, Mig!Go, MigInv, MigStates, FilesStay, Mig!Undos
  <2> QED
    BY <2>1, GiveUp, Places, Zenon DEF Late
<1> QED
  BY <1>1, <1>2 DEF Mig!Verified

LEMMA AppBackupStep == ASSUME MigInv, Mig!AppBackup PROVE MigInv'
<1>0. m.pc = "app backup"
  BY Zenon DEF Mig!AppBackup
<1>1. CASE m' = Mig!Go("undo app") \/ Mig!Fails("undo app")
  BY <1>0, <1>1, WalkFails, Zenon DEF Late
<1>2. CASE m.rec.app /\ m' = Mig!Go("app journal")
  <2>1. /\ m' \in MigStates /\ FilesStay /\ RunStays /\ m'.pc = "app journal" /\ m'.buffer = m.buffer
    BY <1>2, Zenon DEF Mig!Go, MigInv, MigStates, FilesStay, RunStays, Mig!Steps
  <2>2. VersionsAge' /\ BufferShuts'
    BY <1>0, <2>1, Frame, Zenon DEF MigInv, BufferShuts, RunStays, Running, Mig!Steps, Mig!Undos
  <2>3. WalkIsDone'
    BY <1>0, <2>1, Frame, Zenon DEF MigInv, WalkIsDone, Behind, Late, Mig!Files, Mig!OpenCode
  <2>4. m.rec.any
    BY <1>2, Zenon DEF MigInv, OwnRun, Grounded
  <2> QED
    BY <2>1, <2>2, <2>3, <2>4, RecoveredRun, Zenon DEF FilesStay
<1>3. CASE m' = [Mig!Go("app journal") EXCEPT !.kept["app"] = m.base["app"]]
  <2>1. /\ m' \in MigStates /\ RunStays /\ m'.disk = m.disk /\ m'.buffer = m.buffer
        /\ m'.pc = "app journal" /\ m'.file = m.file /\ m'.rec = m.rec
        /\ m'.edits = m.edits /\ m'.base = m.base
        /\ m'.kept = [m.kept EXCEPT !["app"] = m.base["app"]]
    BY <1>3, Zenon DEF Mig!Go, MigInv, MigStates, Whole, RunStays, Mig!Steps, Mig!Files
  <2>2. "app" \in Mig!Files /\ m'.kept["app"] = m.base["app"]
        /\ \A f \in Mig!Files : f # "app" => m'.kept[f] = m.kept[f]
    BY <2>1, Zenon DEF MigInv, MigStates, Whole, Mig!Files
  <2>3. VersionsAge'
    BY <2>1, <2>2, Zenon DEF MigInv, VersionsAge
  <2>4. BufferShuts'
    BY <1>0, <2>1, Zenon DEF MigInv, BufferShuts, RunStays, Running, Mig!Steps, Mig!Undos
  <2>5. \A f : (Mig!Changed(f)' <=> Mig!Changed(f)) /\ (Done(f)' <=> Done(f))
    BY <2>1, Zenon DEF Mig!Changed, Done
  <2>6. WalkIsDone'
    BY <1>0, <2>1, <2>5, Zenon DEF MigInv, WalkIsDone, Behind, Late, Mig!Files, Mig!OpenCode
  <2>7. OwnRun'
    <3>1. SUFFICES ASSUME Grounded, BackedUp, Verifies, Ahead, Undoing, ~m.rec.any
                   PROVE  Grounded' /\ BackedUp' /\ Verifies' /\ Ahead' /\ Undoing'
      BY <2>1, Zenon DEF MigInv, OwnRun
    <3>2. Grounded' /\ Verifies' /\ ~Mig!Changed("app")
      BY <1>0, <2>1, <2>2, <2>5, <3>1, Zenon
      DEF Grounded, RunStays, Before, Bare, Early, Syncing, Verifies, Late
    <3>3. BackedUp'
      <4>1. \A f \in Mig!Files : f # "app" => m.kept[f] = m.base[f]
        BY <1>0, <3>1, Places, Zenon DEF BackedUp, Bare, Early, Late
      <4>2. \A f \in Mig!Files : m'.kept[f] = m'.base[f]
        BY <2>1, <2>2, <4>1, Zenon
      <4>3. \A f \in Mig!Files : m'.pc \notin Bare(f)
        BY <2>1, Zenon DEF Bare, Early, Syncing
      <4> QED
        BY <4>2, <4>3 DEF BackedUp
    <3>4. Ahead'
      BY <1>0, <2>1, <2>2, <2>5, <3>1, <3>2, Zenon DEF Ahead, RunStays, InJournal, Syncing, Late
    <3>5. Undoing'
      BY <1>0, <2>1, <2>5, <3>1, Places, Zenon DEF Undoing, RunStays, Running, Late
    <3> QED
      BY <3>2, <3>3, <3>4, <3>5
  <2> QED
    BY <2>1, <2>3, <2>4, <2>6, <2>7, Zenon DEF MigInv
<1> QED
  BY <1>1, <1>2, <1>3, Zenon DEF Mig!AppBackup

LEMMA AppJournalStep == ASSUME MigInv, Mig!AppJournal PROVE MigInv'
<1>0. m.pc = "app journal"
  BY Zenon DEF Mig!AppJournal, Mig!Persist
<1>1. CASE Mig!Fails("undo app")
  BY <1>0, <1>1, WalkFails, Zenon DEF Late
<1>2. CASE m' = [Mig!Go("app") EXCEPT !.disk.phase = "app_config_backup_prepared"]
  <2>1. /\ m' \in MigStates /\ FilesStay /\ RunStays /\ m'.pc = "app" /\ m'.buffer = m.buffer
        /\ m'.disk.phase = "app_config_backup_prepared"
    BY <1>2, Zenon DEF Mig!Go, MigInv, MigStates, FilesStay, RunStays, Mig!Steps, Mig!Phases
  <2>2. VersionsAge' /\ BufferShuts'
    BY <1>0, <2>1, Frame, Zenon DEF MigInv, BufferShuts, RunStays, Running, Mig!Steps, Mig!Undos
  <2>3. WalkIsDone'
    BY <1>0, <2>1, Frame, Zenon DEF MigInv, WalkIsDone, Behind, Late, Mig!Files, Mig!OpenCode
  <2>4. OwnRun'
    <3>1. SUFFICES ASSUME Grounded, BackedUp, Verifies, Ahead, Undoing, ~m.rec.any
                   PROVE  Grounded' /\ BackedUp' /\ Verifies' /\ Ahead' /\ Undoing'
      BY <2>1 DEF MigInv, OwnRun, FilesStay
    <3>2. Grounded' /\ Verifies'
      BY <1>0, <2>1, <3>1, Frame, Zenon
      DEF Grounded, FilesStay, RunStays, Before, Bare, Early, Syncing, Verifies, Late
    <3>3. BackedUp'
      BY <1>0, <2>1, <3>1, Places, Zenon DEF BackedUp, FilesStay, RunStays, Bare, Running, Early, Syncing,
         Late
    <3>4. Ahead'
      <4>1. m'.disk.phase \in Mig!Backed
        BY <2>1 DEF Mig!Backed, Mig!Locked
      <4> QED
        BY <1>0, <2>1, <3>1, <4>1, Frame, Zenon DEF Ahead, FilesStay, RunStays, InJournal, Syncing, Late
    <3>5. Undoing'
      BY <1>0, <2>1, <3>1, Frame, Places, Zenon DEF Undoing, RunStays, Running, Late
    <3> QED
      BY <3>2, <3>3, <3>4, <3>5
  <2> QED
    BY <2>1, <2>2, <2>3, <2>4 DEF MigInv
<1> QED
  BY <1>1, <1>2, Zenon DEF Mig!AppJournal, Mig!Persist

LEMMA AppWriteStep == ASSUME MigInv, Mig!AppWrite PROVE MigInv'
<1>0. m.pc = "app" /\ "app" \in Mig!Files
  BY DEF Mig!AppWrite, Mig!Files
<1>1. CASE /\ m.file["app"] = Mig!Rewritten(m.base["app"])
           /\ m' = [m EXCEPT !.wroteApp = TRUE, !.pc = "final"]
  <2>1. /\ m' \in MigStates /\ FilesStay /\ m'.pc = "final" /\ m'.disk = m.disk
        /\ m'.replaced = m.replaced /\ m'.verified = m.verified /\ m'.started = m.started
        /\ m'.walked = m.walked /\ m'.undone = m.undone /\ m'.wroteApp
    BY <1>1, Zenon DEF MigInv, MigStates, FilesStay, Mig!Steps
  <2>2. Done("app")
    BY <1>0, <1>1, FileTypes, Texts DEF Done
  <2> QED
    BY <1>0, <2>1, <2>2, Passes
<1>2. CASE \E n \in Nat : m' = [m EXCEPT !.wroteApp = TRUE, !.pc = "undo app", !.faults = n]
  <2>1. PICK n \in Nat : m' = [m EXCEPT !.wroteApp = TRUE, !.pc = "undo app", !.faults = n]
    BY <1>2, Zenon
  <2>2. /\ m' \in MigStates /\ FilesStay /\ m'.pc = "undo app" /\ m'.disk = m.disk
        /\ m'.replaced = m.replaced /\ m'.verified = m.verified /\ m'.started = m.started
        /\ m'.walked = m.walked /\ m'.undone = m.undone /\ m'.wroteApp
    BY <2>1, Zenon DEF MigInv, MigStates, FilesStay, Mig!Undos
  <2> QED
    BY <1>0, <2>2, GiveUp, Places, Zenon DEF Late
<1>3. CASE /\ m.file["app"] \in Mig!Of(m.base["app"])
           /\ m' = [m EXCEPT !.wroteApp = TRUE, !.pc = "app?", !.file["app"] = Mig!Rewritten(m.base["app"])]
  <2> DEFINE c == Mig!Rewritten(m.base["app"])
  <2>1. c \in Vers /\ c.ver = m.file["app"].ver /\ c.new /\ c \in Mig!Of(m.base["app"])
    BY <1>0, <1>3, FileTypes, Texts
  <2>2. m' = [m EXCEPT !.wroteApp = TRUE, !.pc = "app?", !.file["app"] = c]
    BY <1>3
  <2> HIDE DEF c
  <2>3. /\ m' \in MigStates /\ BaseStays /\ m'.pc = "app?" /\ m'.disk = m.disk /\ m'.buffer = m.buffer
        /\ m'.file = [m.file EXCEPT !["app"] = c] /\ m'.replaced = m.replaced
        /\ m'.verified = m.verified /\ m'.wroteApp /\ m'.started = m.started
        /\ m'.undone = m.undone
    BY <2>1, <2>2, Zenon DEF MigInv, MigStates, Whole, BaseStays, Mig!Steps
  <2>4. /\ VersionsAge' /\ m'.file["app"] = c
        /\ \A g \in Mig!Files : g # "app" =>
             m'.file[g] = m.file[g] /\ (Mig!Changed(g)' <=> Mig!Changed(g)) /\ (Done(g)' <=> Done(g))
    BY <1>0, <2>1, <2>3, FileWritten
  <2>5. BufferShuts'
    BY <1>0, <2>3 DEF MigInv, BufferShuts, Running, Mig!Steps, Mig!Undos
  <2>6. WalkIsDone'
    BY <1>0, <2>3, <2>4 DEF MigInv, WalkIsDone, Behind, Late, Mig!Files, Mig!OpenCode
  <2>7. OwnRun'
    <3>1. SUFFICES ASSUME Grounded, BackedUp, Verifies, Ahead, Undoing, ~m.rec.any
                   PROVE  Grounded' /\ BackedUp' /\ Verifies' /\ Ahead' /\ Undoing'
      BY <2>3 DEF MigInv, OwnRun, BaseStays
    <3>2. Grounded' /\ Verifies'
      BY <1>0, <2>1, <2>3, <2>4, <3>1
      DEF Grounded, BaseStays, Before, Bare, Early, Syncing, Verifies, Late
    <3>3. BackedUp'
      BY <1>0, <2>3, <3>1, Places, Zenon DEF BackedUp, BaseStays, Bare, Running, Early, Syncing, Late
    <3>4. Ahead'
      <4>1. m.kept["app"] = m.base["app"] /\ InJournal("app") /\ m.disk.phase \in Mig!Backed
        BY <1>0, <3>1, Places, Zenon DEF BackedUp, Bare, Early, Syncing, Late, Ahead, InJournal
      <4> QED
        BY <1>0, <2>3, <2>4, <3>1, <4>1 DEF Ahead, BaseStays, InJournal, Syncing, Late
    <3>5. Undoing'
      BY <1>0, <2>3, <2>4, <3>1, Places, Zenon DEF Undoing, Running, Late
    <3> QED
      BY <3>2, <3>3, <3>4, <3>5
  <2> QED
    BY <2>3, <2>4, <2>5, <2>6, <2>7 DEF MigInv
<1>4. m.faults \in Nat /\ m.faults + 1 \in Nat
  BY DEF MigInv, MigStates
<1>5. \/ m' = [m EXCEPT !.wroteApp = TRUE, !.pc = "undo app"]
      \/ m' = [m EXCEPT !.wroteApp = TRUE, !.pc = "undo app", !.faults = m.faults + 1]
      => \E n \in Nat : m' = [m EXCEPT !.wroteApp = TRUE, !.pc = "undo app", !.faults = n]
  <2>1. [m EXCEPT !.wroteApp = TRUE, !.pc = "undo app"] =
        [m EXCEPT !.wroteApp = TRUE, !.pc = "undo app", !.faults = m.faults]
    BY Zenon DEF MigInv, MigStates
  <2> QED
    BY <1>4, <2>1, Zenon
<1>6. \/ m' = CASE m.file["app"] = Mig!Rewritten(m.base["app"]) -> [m EXCEPT !.wroteApp = TRUE, !.pc = "final"]
                [] m.file["app"] \notin Mig!Of(m.base["app"])   -> [m EXCEPT !.wroteApp = TRUE, !.pc = "undo app"]
                [] OTHER -> [m EXCEPT !.wroteApp = TRUE, !.pc = "app?",
                                      !.file["app"] = Mig!Rewritten(m.base["app"])]
      \/ m' = [m EXCEPT !.wroteApp = TRUE, !.pc = "undo app", !.faults = m.faults + 1]
  BY DEF Mig!AppWrite, MigInv, MigStates
<1>7. m.file["app"] = Mig!Rewritten(m.base["app"]) => m.file["app"] \in Mig!Of(m.base["app"])
  BY DEF Mig!Of
<1> QED
  BY <1>1, <1>2, <1>3, <1>5, <1>6, <1>7, Zenon

LEMMA AppRecheckStep == ASSUME MigInv, Mig!AppRecheck PROVE MigInv'
<1>0. m.pc = "app?" /\ "app" \in Mig!Files
  BY Zenon DEF Mig!AppRecheck, Mig!Files
<1>1. CASE m' = Mig!Go("undo app") \/ Mig!Fails("undo app")
  BY <1>0, <1>1, WalkFails, Zenon DEF Late
<1>2. CASE m.file["app"] = Mig!Rewritten(m.base["app"]) /\ m' = Mig!Go("final")
  <2>1. /\ m' \in MigStates /\ FilesStay /\ RunStays /\ m'.pc = "final" /\ m'.disk = m.disk
    BY <1>2, Zenon DEF Mig!Go, MigInv, MigStates, FilesStay, RunStays, Mig!Steps
  <2>2. Done("app")
    BY <1>0, <1>2, FileTypes, Texts DEF Done
  <2> QED
    BY <1>0, <2>1, <2>2, Passes DEF RunStays
<1> QED
  BY <1>1, <1>2, Zenon DEF Mig!AppRecheck

LEMMA FinalStep == ASSUME MigInv, Mig!Final PROVE MigInv'
<1>0. m.pc = "final"
  BY DEF Mig!Final
<1>1. CASE m' = [Mig!Go("success") EXCEPT !.disk = [phase |-> "committed", told |-> Mig!Merged],
                       !.buffer = "closed", !.walked = TRUE]
  <2>1. /\ m' \in MigStates /\ FilesStay /\ m'.pc = "success" /\ m'.disk.phase = "committed"
        /\ m'.replaced = m.replaced /\ m'.verified = m.verified /\ m'.started = m.started
        /\ m'.wroteApp = m.wroteApp /\ m'.undone = m.undone /\ m'.buffer = "closed"
    <3>1. Mig!Merged \in BOOLEAN /\ "committed" \in Mig!Phases
      BY DEF Mig!Merged, MigInv, MigStates, Mig!Phases
    <3> HIDE DEF Mig!Merged
    <3> QED
      BY <1>1, <3>1, Zenon DEF Mig!Go, MigInv, MigStates, FilesStay
  <2>2. VersionsAge' /\ BufferShuts'
    BY <2>1, Frame, Places, Zenon DEF MigInv, BufferShuts, Mig!Undos
  <2>3. WalkIsDone'
    <3>1. \A f \in Mig!Files : Done(f)
      BY <1>0 DEF MigInv, WalkIsDone, Behind, Late, Mig!Files, Mig!OpenCode
    <3> QED
      BY <2>1, <3>1, Frame DEF WalkIsDone, Behind, Late, Mig!Files, Mig!OpenCode
  <2>4. OwnRun'
    <3>1. SUFFICES ASSUME Grounded, BackedUp, Verifies, Ahead, Undoing, ~m.rec.any
                   PROVE  Grounded' /\ BackedUp' /\ Verifies' /\ Ahead' /\ Undoing'
      BY <2>1 DEF MigInv, OwnRun, FilesStay
    <3>2. Grounded' /\ Verifies' /\ BackedUp'
      BY <2>1, <3>1, Frame, Places, Zenon
      DEF Grounded, FilesStay, Before, Bare, Early, Syncing, Verifies, Late, BackedUp, Running
    <3>3. Ahead' /\ Undoing'
      BY <2>1, <3>1, Frame, Places, Zenon DEF Ahead, Undoing, FilesStay, InJournal, Running
    <3> QED
      BY <3>2, <3>3
  <2> QED
    BY <2>1, <2>2, <2>3, <2>4 DEF MigInv
<1>2. CASE Mig!CanFail /\ m' = [Mig!Go("undo app") EXCEPT !.buffer = "closed", !.faults = @ + 1]
  <2>1. /\ m' \in MigStates /\ FilesStay /\ RunStays /\ m'.pc = "undo app" /\ m'.disk = m.disk
    BY <1>2, Counts, Zenon DEF Mig!Go, MigInv, MigStates, FilesStay, RunStays, Mig!Undos
  <2> QED
    BY <1>0, <2>1, GiveUp, Places, Zenon DEF RunStays, Late
<1> QED
  BY <1>1, <1>2 DEF Mig!Final

-----------------------------------------------------------------------------
(* The compensation *)

\* A step of the compensation: each of its places claims less of the walk.
LEMMA Undo ==
  ASSUME MigInv, m' \in MigStates, VersionsAge', BaseStays, m.pc \in Mig!Undos,
         m'.pc \in Mig!Undos \cup {"failed"}, m'.started = m.started, m'.verified = m.verified,
         m'.wroteApp = m.wroteApp, m'.buffer = m.buffer \/ m'.buffer = "closed",
         m'.pc = "failed" => m'.buffer = "closed",
         \A f \in Mig!Files : \/ m'.file[f] = m.file[f]
                              \/ m.file[f] = Mig!Rewritten(m.base[f]) /\ m'.file[f] = m.base[f]
                              \/ m.rec.any,
         ~m.rec.any /\ m'.undone =>
           m.undone /\ Undoing' /\ (\A f \in Mig!Files : Mig!Changed(f)' => m'.disk = m.disk)
  PROVE  MigInv'
<1>1. BufferShuts' /\ WalkIsDone'
  <2>1. BufferShuts'
    BY Places DEF MigInv, BufferShuts, Running
  <2>2. m'.pc \notin Late /\ m'.pc \notin {"jsonc", "jsonc?", "final", "success"}
    BY Places, Zenon DEF Mig!Undos, Late
  <2> QED
    BY <2>1, <2>2 DEF WalkIsDone, Behind, Mig!Files, Mig!OpenCode
<1>2. OwnRun'
  <2>1. SUFFICES ASSUME Grounded, BackedUp, Verifies, Ahead, Undoing, ~m.rec.any
                 PROVE  Grounded' /\ BackedUp' /\ Verifies' /\ Ahead' /\ Undoing'
    BY DEF MigInv, OwnRun, BaseStays
  <2>2. m'.pc \notin Early \cup {"journal"} \cup Syncing \cup Late
    BY Places, Zenon DEF Mig!Undos, Early, Syncing, Late
  <2>3. Grounded' /\ Verifies'
    BY <2>1, <2>2, Zenon DEF Grounded, BaseStays, Before, Bare, Verifies, Late, Mig!Of
  <2>4. BackedUp'
    BY <2>1, <2>2, Places, Zenon DEF BackedUp, BaseStays, Bare, Running, Late
  <2>5. \A f \in Mig!Files : Mig!Changed(f)' => Mig!Changed(f)
    BY <2>1 DEF Mig!Changed, BaseStays
  <2>6. Ahead'
    BY <2>1, <2>2, <2>5, Zenon DEF Ahead, BaseStays, InJournal, Late
  <2>7. Undoing'
    BY <2>1, Zenon DEF Undoing
  <2> QED
    BY <2>3, <2>4, <2>6, <2>7
<1> QED
  BY <1>1, <1>2 DEF MigInv

\* A step of the compensation that writes no file.
LEMMA UndoNothing ==
  ASSUME MigInv, m' \in MigStates, FilesStay, m.pc \in Mig!Undos,
         m'.pc \in Mig!Undos \cup {"failed"}, m'.started = m.started, m'.verified = m.verified,
         m'.wroteApp = m.wroteApp, m'.buffer = m.buffer \/ m'.buffer = "closed",
         m'.pc = "failed" => m'.buffer = "closed",
         ~m.rec.any /\ m'.undone =>
           m.undone /\ Undoing' /\ (\A f \in Mig!Files : Mig!Changed(f) => m'.disk = m.disk)
  PROVE  MigInv'
<1>1. VersionsAge' /\ BaseStays /\ \A f \in Mig!Files : m'.file[f] = m.file[f]
  BY Frame DEF MigInv, FilesStay, BaseStays
<1>2. \A f : Mig!Changed(f)' <=> Mig!Changed(f)
  BY Frame
<1> QED
  BY <1>1, <1>2, Undo

LEMMA UnsyncStep == ASSUME MigInv, Mig!Unsync PROVE MigInv'
<1>0. m.pc = "unsync" /\ m.pc \in Mig!Undos
  BY Zenon DEF Mig!Unsync, Mig!Undos
<1>1. ASSUME NEW f \in m.replaced, m.file[f] = Mig!Rewritten(m.base[f]),
             m' = [m EXCEPT !.file[f] = m.base[f], !.replaced = m.replaced \ {f}]
      PROVE  MigInv'
  <2>1. f \in Mig!OpenCode /\ f \in Mig!Files /\ f # "app"
    BY DEF MigInv, MigStates, Mig!OpenCode, Mig!Files
  <2>2. m.base[f] \in Vers /\ m.base[f].ver = m.file[f].ver
    BY <1>1, <2>1, FileTypes, Texts
  <2>3. /\ m' \in MigStates /\ BaseStays /\ m'.pc = m.pc /\ m'.disk = m.disk /\ m'.buffer = m.buffer
        /\ m'.file = [m.file EXCEPT ![f] = m.base[f]] /\ m'.replaced = m.replaced \ {f}
        /\ m'.verified = m.verified /\ m'.wroteApp = m.wroteApp /\ m'.started = m.started
        /\ m'.undone = m.undone
    BY <1>1, <2>2, Zenon DEF MigInv, MigStates, Whole, BaseStays
  <2>4. /\ VersionsAge' /\ m'.file[f] = m.base[f]
        /\ \A g \in Mig!Files : g # f => m'.file[g] = m.file[g] /\ (Mig!Changed(g)' <=> Mig!Changed(g))
    BY <2>1, <2>2, <2>3, FileWritten
  <2>5. ~Mig!Changed(f)'
    BY <2>3, <2>4 DEF Mig!Changed, BaseStays
  <2>6. ~m.rec.any => Undoing'
    BY <1>0, <2>1, <2>3, <2>4, <2>5 DEF MigInv, OwnRun, Undoing, Running, Mig!Files
  <2> QED
    BY <1>0, <1>1, <2>3, <2>4, <2>6, Undo
<1>2. ASSUME m' \in MigStates, FilesStay, m'.pc \in {"unsync", "undo app"}, ~m'.undone,
             m'.started = m.started, m'.verified = m.verified, m'.wroteApp = m.wroteApp,
             m'.buffer = m.buffer
      PROVE  MigInv'
  BY <1>0, <1>2, UndoNothing, Zenon DEF Mig!Undos
<1>3. CASE m' = [Mig!Go("undo app") EXCEPT !.undone = FALSE]
  <2>1. /\ m' \in MigStates /\ FilesStay /\ m'.pc = "undo app" /\ ~m'.undone /\ m'.started = m.started
        /\ m'.verified = m.verified /\ m'.wroteApp = m.wroteApp /\ m'.buffer = m.buffer
    BY <1>3, Zenon DEF Mig!Go, MigInv, MigStates, FilesStay, Mig!Undos
  <2> QED
    BY <1>2, <2>1, Zenon
<1>4. ASSUME NEW f \in m.replaced,
             m' = [m EXCEPT !.replaced = @ \ {f}, !.undone = FALSE, !.faults = @ + 1]
      PROVE  MigInv'
  <2>1. m' = [m EXCEPT !.replaced = m.replaced \ {f}, !.undone = FALSE, !.faults = m.faults + 1]
    BY <1>4 DEF MigInv, MigStates
  <2>2. /\ m' \in MigStates /\ FilesStay /\ m'.pc = m.pc /\ ~m'.undone /\ m'.started = m.started
        /\ m'.verified = m.verified /\ m'.wroteApp = m.wroteApp /\ m'.buffer = m.buffer
    BY <2>1, Counts, Zenon DEF MigInv, MigStates, FilesStay
  <2> QED
    BY <1>0, <1>2, <2>2
<1>5. CASE m.replaced = {} /\ m' = Mig!Go("undo app")
  <2>1. /\ m' \in MigStates /\ FilesStay /\ RunStays /\ m'.pc = "undo app" /\ m'.buffer = m.buffer
        /\ m'.disk = m.disk
    BY <1>5, Zenon DEF Mig!Go, MigInv, MigStates, FilesStay, RunStays, Mig!Undos
  <2>2. ~m.rec.any => Undoing'
    BY <1>0, <1>5, <2>1, Frame, Zenon DEF MigInv, OwnRun, Undoing, Running, RunStays
  <2> QED
    BY <1>0, <2>1, <2>2, UndoNothing, Zenon DEF RunStays, Mig!Undos
<1> QED
  BY <1>1, <1>3, <1>4, <1>5, Zenon DEF Mig!Unsync, MigInv, MigStates

LEMMA UndoAppStep == ASSUME MigInv, Mig!UndoApp PROVE MigInv'
<1> DEFINE touched == m.wroteApp \/ m.rec.app
           mine    == m.file["app"] = Mig!Rewritten(m.base["app"])
<1>0. m.pc = "undo app" /\ m.pc \in Mig!Undos /\ "app" \in Mig!Files
  BY Zenon DEF Mig!UndoApp, Mig!Undos, Mig!Files
<1>1. CASE touched /\ mine /\ m' = [Mig!Go("undo opencode") EXCEPT !.file["app"] = m.base["app"]]
  <2>1. m.base["app"] \in Vers /\ m.base["app"].ver = m.file["app"].ver
    BY <1>0, <1>1, FileTypes, Texts, Zenon
  <2>2. /\ m' \in MigStates /\ BaseStays /\ m'.pc = "undo opencode" /\ m'.disk = m.disk
        /\ m'.file = [m.file EXCEPT !["app"] = m.base["app"]] /\ m'.replaced = m.replaced
        /\ m'.verified = m.verified /\ m'.wroteApp = m.wroteApp /\ m'.started = m.started
        /\ m'.undone = m.undone /\ m'.buffer = m.buffer
    BY <1>1, <2>1, Zenon DEF Mig!Go, MigInv, MigStates, Whole, BaseStays, Mig!Undos
  <2>3. /\ VersionsAge' /\ m'.file["app"] = m.base["app"]
        /\ \A g \in Mig!Files : g # "app" => m'.file[g] = m.file[g] /\ (Mig!Changed(g)' <=> Mig!Changed(g))
    BY <1>0, <2>1, <2>2, FileWritten, Zenon
  <2>4. ~Mig!Changed("app")'
    BY <2>2, <2>3, Zenon DEF Mig!Changed, BaseStays
  <2>5. ~m.rec.any => Undoing'
    BY <1>0, <2>2, <2>3, <2>4, Zenon DEF MigInv, OwnRun, Undoing, Running, Mig!Files, Mig!OpenCode
  <2> QED
    BY <1>0, <1>1, <2>2, <2>3, <2>5, Undo, Zenon DEF Mig!Undos
<1>2. CASE m' = [Mig!Go("undo opencode") EXCEPT !.undone = FALSE]
           \/ m' = [Mig!Go("undo opencode") EXCEPT !.undone = FALSE, !.faults = @ + 1]
  <2>0. PICK n \in Nat : m' = [m EXCEPT !.pc = "undo opencode", !.undone = FALSE, !.faults = n]
    <3>1. m.faults \in Nat /\ m.faults + 1 \in Nat
      BY DEF MigInv, MigStates
    <3>2. CASE m' = [Mig!Go("undo opencode") EXCEPT !.undone = FALSE]
      <4>1. m' = [m EXCEPT !.pc = "undo opencode", !.undone = FALSE, !.faults = m.faults]
        BY <3>2, Zenon DEF Mig!Go, MigInv, MigStates
      <4> QED
        BY <3>1, <4>1, Zenon
    <3>3. CASE m' = [Mig!Go("undo opencode") EXCEPT !.undone = FALSE, !.faults = @ + 1]
      <4>1. m' = [m EXCEPT !.pc = "undo opencode", !.undone = FALSE, !.faults = m.faults + 1]
        BY <3>3 DEF Mig!Go, MigInv, MigStates
      <4> QED
        BY <3>1, <4>1, Zenon
    <3> QED
      BY <1>2, <3>2, <3>3, Zenon
  <2>1. /\ m' \in MigStates /\ FilesStay /\ m'.pc = "undo opencode" /\ ~m'.undone
        /\ m'.started = m.started /\ m'.verified = m.verified /\ m'.wroteApp = m.wroteApp
        /\ m'.buffer = m.buffer
    BY <2>0, Zenon DEF MigInv, MigStates, FilesStay, Mig!Undos
  <2> QED
    BY <1>0, <2>1, UndoNothing, Zenon DEF Mig!Undos
<1>3. CASE ~(touched /\ mine) /\ ~(touched /\ ~mine /\ m.file["app"] # m.base["app"])
           /\ m' = Mig!Go("undo opencode")
  <2>1. /\ m' \in MigStates /\ FilesStay /\ RunStays /\ m'.pc = "undo opencode" /\ m'.buffer = m.buffer
        /\ m'.disk = m.disk
    BY <1>3, Zenon DEF Mig!Go, MigInv, MigStates, FilesStay, RunStays, Mig!Undos
  <2>2. ~m.rec.any /\ m.undone => ~Mig!Changed("app")
    BY <1>0, <1>3, Zenon DEF MigInv, OwnRun, Undoing, Running, Mig!Changed
  <2>3. ~m.rec.any => Undoing'
    BY <1>0, <2>1, <2>2, Frame, Zenon DEF MigInv, OwnRun, Undoing, Running, RunStays
  <2> QED
    BY <1>0, <2>1, <2>3, UndoNothing, Zenon DEF RunStays, Mig!Undos
<1> QED
  BY <1>1, <1>2, <1>3, Zenon DEF Mig!UndoApp

LEMMA UndoOpenCodeStep == ASSUME MigInv, Mig!UndoOpenCode PROVE MigInv'
<1> DEFINE own(f) == m.file[f] = Mig!Rewritten(m.kept[f])
           back   == IF ~own("jsonc") THEN {} ELSE IF ~own("json") THEN {"jsonc"} ELSE Mig!OpenCode
           file   == [f \in Mig!Files |-> IF f \in back THEN m.kept[f] ELSE m.file[f]]
<1>0. m.pc = "undo opencode" /\ m.pc \in Mig!Undos
  BY Zenon DEF Mig!UndoOpenCode, Mig!Undos
<1>1. CASE ~Mig!Owed /\ m' = Mig!Go("undo state")
  <2>1. /\ m' \in MigStates /\ FilesStay /\ RunStays /\ m'.pc = "undo state" /\ m'.buffer = m.buffer
        /\ m'.disk = m.disk
    BY <1>1, Zenon DEF Mig!Go, MigInv, MigStates, FilesStay, RunStays, Mig!Undos
  <2>2. ~m.rec.any => ~m.verified
    <3>1. Mig!Missing.ver = -1 /\ "json" \in Mig!Files /\ "json" # "app"
      BY DEF Mig!Missing, Mig!Files, Mig!OpenCode
    <3>2. SUFFICES ASSUME ~m.rec.any, m.verified PROVE FALSE
      OBVIOUS
    <3>3. Running /\ Grounded /\ BackedUp
      BY <1>0, <3>2, Zenon DEF MigInv, OwnRun, Running
    <3>4. m.kept["json"] = m.base["json"] /\ m.base["json"].ver >= 0
      BY <3>1, <3>2, <3>3 DEF BackedUp, Grounded
    <3>5. m.kept["json"] = Mig!Missing
      BY <1>1, <3>2, Zenon DEF Mig!Owed
    <3> QED
      BY <3>1, <3>4, <3>5
  <2>3. ~m.rec.any => Undoing'
    BY <1>0, <2>1, <2>2, Frame, Zenon DEF MigInv, OwnRun, Undoing, Running, RunStays
  <2> QED
    BY <1>0, <2>1, <2>3, UndoNothing, Zenon DEF RunStays, Mig!Undos
<1>2. CASE m' = [Mig!Go("undo state") EXCEPT !.undone = FALSE, !.faults = @ + 1]
  <2>1. /\ m' \in MigStates /\ FilesStay /\ m'.pc = "undo state" /\ ~m'.undone
        /\ m'.started = m.started /\ m'.verified = m.verified /\ m'.wroteApp = m.wroteApp
        /\ m'.buffer = m.buffer
    BY ZenonT(40), <1>2, Counts DEF Mig!Go, MigInv, MigStates, FilesStay, Mig!Undos
  <2> QED
    BY <1>0, <2>1, UndoNothing, Zenon DEF Mig!Undos
<1>3. CASE Mig!Owed /\ m' = [Mig!Go("undo state") EXCEPT !.undone = @ /\ back = Mig!OpenCode,
                                   !.file = [f \in Mig!Files |-> IF f \in back THEN m.kept[f] ELSE @[f]]]
  <2>1. /\ file \in Whole /\ \A f \in Mig!Files : file[f] = IF f \in back THEN m.kept[f] ELSE m.file[f]
        /\ back \subseteq Mig!OpenCode /\ \A f \in back : own(f)
    BY DEF MigInv, MigStates, Whole, Mig!OpenCode
  <2>2. PICK u \in BOOLEAN : u <=> m.undone /\ back = Mig!OpenCode
    BY Zenon
  <2>3. m' = [m EXCEPT !.pc = "undo state", !.undone = u, !.file = file]
    BY <1>3, <2>2, Zenon DEF Mig!Go, MigInv, MigStates
  <2> HIDE DEF back, file
  <2>4. /\ m' \in MigStates /\ BaseStays /\ m'.pc = "undo state" /\ m'.disk = m.disk
        /\ m'.file = file /\ m'.verified = m.verified /\ m'.wroteApp = m.wroteApp
        /\ m'.started = m.started /\ m'.undone = u /\ m'.buffer = m.buffer
    BY <2>1, <2>3, Zenon DEF MigInv, MigStates, BaseStays, Mig!Undos
  <2>5. \A f \in back : f \in Mig!Files /\ f \in Mig!OpenCode /\ f # "app" /\ m.kept[f].ver = m.file[f].ver
    <3>1. \A f \in back : f \in Mig!Files /\ f \in Mig!OpenCode /\ f # "app"
      BY <2>1 DEF Mig!OpenCode, Mig!Files
    <3> QED
      BY <2>1, <3>1, FileTypes, Texts
  <2>6. VersionsAge'
    BY ZenonT(40), <2>1, <2>4, <2>5 DEF MigInv, VersionsAge, BaseStays
  <2>7. ~m.rec.any => \A f \in Mig!OpenCode : m.kept[f] = m.base[f]
    BY <1>0, <1>3, Zenon DEF Mig!Owed, MigInv, OwnRun, BackedUp, Running, Mig!Files, Mig!OpenCode
  <2>8. \A f \in Mig!Files : \/ m'.file[f] = m.file[f]
                             \/ m.file[f] = Mig!Rewritten(m.base[f]) /\ m'.file[f] = m.base[f]
                             \/ m.rec.any
    BY <2>1, <2>4, <2>5, <2>7, Zenon
  <2>9. ~m.rec.any /\ u => Undoing'
    <3>1. SUFFICES ASSUME ~m.rec.any, u PROVE Undoing'
      OBVIOUS
    <3>2. \A f \in Mig!OpenCode : ~Mig!Changed(f)'
      <4>1. \A f \in Mig!OpenCode : m'.file[f] = m.kept[f] /\ m.kept[f] = m.base[f] /\ f \in Mig!Files
        BY <2>1, <2>2, <2>4, <2>7, <3>1, Places, Zenon
      <4> QED
        BY <2>4, <4>1, Zenon DEF Mig!Changed, BaseStays
    <3>3. ~Mig!Changed("app")'
      <4>1. ~Mig!Changed("app") /\ "app" \in Mig!Files /\ "app" \notin back
        BY <1>0, <2>2, <2>5, <3>1, Places, Zenon DEF MigInv, OwnRun, Undoing
      <4> QED
        BY <2>1, <2>4, <4>1, Zenon DEF Mig!Changed, BaseStays
    <3> QED
      BY <3>2, <3>3, Zenon DEF Undoing
  <2> QED
    BY <1>0, <2>2, <2>4, <2>6, <2>8, <2>9, Undo, Zenon DEF Mig!Undos
<1> QED
  BY <1>1, <1>2, <1>3, Zenon DEF Mig!UndoOpenCode

LEMMA UndoStateStep == ASSUME MigInv, Mig!UndoState PROVE MigInv'
<1>1. PICK to \in {"stopping", "failed"} :
        /\ to = "failed" <=> ~m.started
        /\ \/ m' = [Mig!Go(to) EXCEPT !.disk = [phase |-> "none", told |-> FALSE]]
           \/ Mig!CanFail /\ m' = [Mig!Go(to) EXCEPT !.undone = FALSE, !.faults = @ + 1]
  BY Zenon DEF Mig!UndoState
<1>0. m.pc = "undo state" /\ m.pc \in Mig!Undos
  BY Zenon DEF Mig!UndoState, Mig!Undos
<1>2. to = "failed" => m.buffer = "closed"
  BY <1>0, <1>1, Zenon DEF MigInv, BufferShuts
<1>3. CASE m' = [Mig!Go(to) EXCEPT !.disk = [phase |-> "none", told |-> FALSE]]
  <2>1. /\ m' \in MigStates /\ FilesStay /\ RunStays /\ m'.pc = to /\ m'.buffer = m.buffer
    BY <1>3, Zenon DEF Mig!Go, MigInv, MigStates, FilesStay, RunStays, Mig!Undos, Mig!Phases
  <2>2. ~m.rec.any /\ m.undone => \A f \in Mig!Files : ~Mig!Changed(f)
    BY <1>0, Places, Zenon DEF MigInv, OwnRun, Undoing
  <2>3. ~m.rec.any /\ m'.undone => Undoing'
    BY <2>1, <2>2, Frame, Zenon DEF Undoing, RunStays, Mig!Files
  <2> QED
    BY <1>0, <1>2, <2>1, <2>2, <2>3, UndoNothing, Zenon DEF RunStays, Mig!Undos
<1>4. CASE m' = [Mig!Go(to) EXCEPT !.undone = FALSE, !.faults = @ + 1]
  <2>0. m' = [m EXCEPT !.pc = to, !.undone = FALSE, !.faults = m.faults + 1] /\ m.faults + 1 \in Nat
    BY <1>4 DEF Mig!Go, MigInv, MigStates
  <2>1. /\ m' \in MigStates /\ FilesStay /\ m'.pc = to /\ ~m'.undone
        /\ m'.started = m.started /\ m'.verified = m.verified /\ m'.wroteApp = m.wroteApp
        /\ m'.buffer = m.buffer
    BY <2>0, Zenon DEF MigInv, MigStates, FilesStay, Mig!Undos
  <2> QED
    BY <1>0, <1>2, <2>1, UndoNothing, Zenon DEF Mig!Undos
<1> QED
  BY <1>1, <1>3, <1>4

LEMMA StoppedStep == ASSUME MigInv, Mig!Stopped PROVE MigInv'
<1>0. m.pc = "stopping" /\ m.pc \in Mig!Undos
  BY DEF Mig!Stopped, Mig!Undos
<1>1. /\ m' \in MigStates /\ FilesStay /\ RunStays /\ m'.pc = "failed" /\ m'.buffer = "closed"
  <2>1. CASE m' = [Mig!Go("failed") EXCEPT !.buffer = "closed"]
    BY <2>1, Zenon DEF Mig!Go, MigInv, MigStates, FilesStay, RunStays
  <2>2. CASE m.buffer = "closed" /\ m' = [Mig!Go("failed") EXCEPT !.disk.phase = "committed"]
    BY <2>2, Zenon DEF Mig!Go, MigInv, MigStates, FilesStay, RunStays, Mig!Phases
  <2> QED
    BY <2>1, <2>2 DEF Mig!Stopped
<1>2. ~m.rec.any /\ m.undone => \A f \in Mig!Files : ~Mig!Changed(f)
  BY <1>0, Places DEF MigInv, OwnRun, Undoing
<1>3. ~m.rec.any /\ m'.undone => Undoing'
  BY <1>1, <1>2, Frame DEF Undoing, RunStays, Mig!Files
<1> QED
  BY <1>0, <1>1, <1>2, <1>3, UndoNothing DEF RunStays, Mig!Undos

-----------------------------------------------------------------------------
(* The process and the user *)

\* The run is over: by its own end, or by a crash.
LEMMA Halt ==
  ASSUME MigInv, m' \in MigStates, FilesStay, RunStays, m'.disk = m.disk, m'.pc = "off",
         m'.buffer = "closed"
  PROVE  MigInv'
<1>1. VersionsAge' /\ BufferShuts' /\ WalkIsDone'
  BY Frame, Places, Zenon DEF MigInv, BufferShuts, WalkIsDone, Behind, Running, Late
<1>2. OwnRun'
  <2>1. SUFFICES ASSUME Grounded, BackedUp, Verifies, Ahead, Undoing, ~m.rec.any
                 PROVE  Grounded' /\ BackedUp' /\ Verifies' /\ Ahead' /\ Undoing'
    BY DEF MigInv, OwnRun, FilesStay
  <2>2. m'.pc \notin Mig!Steps \cup Mig!Undos \cup Early \cup Syncing \cup Late \cup {"journal"}
    BY Places
  <2>3. Grounded' /\ Verifies' /\ BackedUp'
    BY <2>1, <2>2, Frame, Zenon DEF Grounded, FilesStay, Before, Bare, Verifies, BackedUp, Running
  <2>4. Ahead' /\ Undoing'
    BY <2>1, <2>2, Frame, Zenon DEF Ahead, Undoing, FilesStay, RunStays, InJournal, Running, Late
  <2> QED
    BY <2>3, <2>4
<1> QED
  BY <1>1, <1>2 DEF MigInv

LEMMA HaltsStep == ASSUME MigInv, Mig!Exits \/ Mig!Crashes PROVE MigInv'
<1>1. CASE Mig!Exits
  <2>1. m' = [m EXCEPT !.pc = "off"] /\ m.buffer = "closed"
    BY <1>1, Places DEF Mig!Exits, Mig!Go, MigInv, BufferShuts, Running
  <2>2. /\ m' \in MigStates /\ FilesStay /\ RunStays /\ m'.disk = m.disk /\ m'.pc = "off"
        /\ m'.buffer = "closed"
    BY <2>1 DEF MigInv, MigStates, FilesStay, RunStays
  <2> QED
    BY <2>2, Halt
<1>2. CASE Mig!Crashes
  <2>1. /\ m' = [m EXCEPT !.pc = "off", !.crashes = m.crashes + 1, !.buffer = "closed"]
        /\ m.crashes + 1 \in Nat
    BY <1>2 DEF Mig!Crashes, Mig!Go, MigInv, MigStates
  <2>2. /\ m' \in MigStates /\ FilesStay /\ RunStays /\ m'.disk = m.disk /\ m'.pc = "off"
        /\ m'.buffer = "closed"
    BY <2>1, Zenon DEF MigInv, MigStates, FilesStay, RunStays
  <2> QED
    BY <2>2, Halt
<1> QED
  BY <1>1, <1>2

LEMMA EditsStep == ASSUME MigInv, NEW f \in Mig!Files, Mig!Edits(f) PROVE MigInv'
<1> DEFINE c == [ver |-> m.edits + 1, new |-> FALSE]
<1>1. m.edits \in Nat /\ m.edits + 1 \in Nat /\ c \in Vers /\ c.ver = m.edits + 1
  BY DEF MigInv, MigStates, Vers
<1>2. m' = [m EXCEPT !.edits = m.edits + 1, !.file[f] = c]
  BY DEF Mig!Edits, MigInv, MigStates
<1> HIDE DEF c
<1>3. /\ m' \in MigStates /\ RunStays /\ m'.pc = m.pc /\ m'.disk = m.disk /\ m'.buffer = m.buffer
      /\ m'.base = m.base /\ m'.kept = m.kept /\ m'.rec = m.rec /\ m'.edits = m.edits + 1
      /\ m'.file = [m.file EXCEPT ![f] = c]
  BY <1>1, <1>2, Zenon DEF MigInv, MigStates, Whole, RunStays
<1>4. m'.file[f] = c /\ \A g \in Mig!Files : g # f => m'.file[g] = m.file[g]
  BY <1>3 DEF MigInv, MigStates, Whole
<1>5. \A g \in Mig!Files : m.base[g] \in Vers /\ m.base[g].ver \in Int /\ m.kept[g].ver \in Int
                           /\ m.file[g].ver \in Int
  BY FileTypes DEF Vers
<1>6. VersionsAge'
  BY <1>1, <1>3, <1>4, <1>5 DEF MigInv, VersionsAge
<1>7. m'.file[f].ver > m.base[f].ver
  BY <1>1, <1>4, <1>5 DEF MigInv, VersionsAge
<1>8. \A g \in Mig!Files : /\ Done(g) => Done(g)'
                           /\ Mig!Changed(g)' => Mig!Changed(g) /\ g # f
  BY <1>3, <1>4, <1>5, <1>7 DEF Done, Mig!Changed
<1>9. BufferShuts' /\ WalkIsDone'
  <2>1. BufferShuts'
    BY <1>3 DEF MigInv, BufferShuts, RunStays, Running
  <2>2. WalkIsDone'
    BY <1>3, <1>8, Zenon DEF MigInv, WalkIsDone, RunStays, Behind
  <2> QED
    BY <2>1, <2>2
<1>10. OwnRun'
  <2>1. SUFFICES ASSUME Grounded, BackedUp, Verifies, Ahead, Undoing, ~m.rec.any
                 PROVE  Grounded' /\ BackedUp' /\ Verifies' /\ Ahead' /\ Undoing'
    BY <1>3 DEF MigInv, OwnRun
  <2>2. Grounded' /\ Verifies'
    BY <1>3, <1>4, <1>7, <1>8, <2>1, Zenon DEF Grounded, RunStays, Before, Bare, Verifies
  <2>3. BackedUp'
    BY <1>3, <2>1, Zenon DEF BackedUp, RunStays, Bare, Running
  <2>4. Ahead'
    BY <1>3, <1>8, <2>1 DEF Ahead, RunStays, InJournal
  <2>5. Undoing'
    BY <1>3, <1>8, <2>1, Places, Zenon DEF Undoing, RunStays, Running
  <2> QED
    BY <2>2, <2>3, <2>4, <2>5
<1> QED
  BY <1>3, <1>6, <1>9, <1>10 DEF MigInv

LEMMA ChildReportsStep == ASSUME MigInv, Mig!ChildReports PROVE MigInv'
<1>1. /\ m' \in MigStates /\ FilesStay /\ RunStays /\ m'.disk = m.disk /\ m'.pc = m.pc
      /\ m.pc \in {"starting", "stopping"} /\ m.buffer = "open"
  BY DEF Mig!ChildReports, MigInv, MigStates, FilesStay, RunStays
<1>2. VersionsAge' /\ BufferShuts' /\ WalkIsDone'
  <2>1. Running
    BY <1>1, Zenon DEF Running, Mig!Steps, Mig!Undos
  <2> QED
    BY <1>1, <2>1, Frame, Zenon DEF MigInv, BufferShuts, WalkIsDone, RunStays, Behind, Running
<1>3. OwnRun'
  <2>1. SUFFICES ASSUME Grounded, BackedUp, Verifies, Ahead, Undoing, ~m.rec.any
                 PROVE  Grounded' /\ BackedUp' /\ Verifies' /\ Ahead' /\ Undoing'
    BY <1>1 DEF MigInv, OwnRun, FilesStay
  <2>2. Grounded' /\ Verifies' /\ BackedUp'
    BY <1>1, <2>1, Frame, Zenon
    DEF Grounded, FilesStay, RunStays, Before, Bare, Verifies, BackedUp, Running
  <2>3. Ahead' /\ Undoing'
    BY <1>1, <2>1, Frame, Zenon DEF Ahead, Undoing, FilesStay, RunStays, InJournal, Running
  <2> QED
    BY <2>2, <2>3
<1> QED
  BY <1>1, <1>2, <1>3 DEF MigInv

LEMMA BeginStep == ASSUME MigInv, Mig!Begin PROVE MigInv'
<1> DEFINE base == [f \in Mig!Files |-> IF Mig!Recovered(f) THEN m.kept[f] ELSE m.file[f]]
           none == [f \in Mig!Files |-> Mig!Missing]
<1>0. /\ m.pc = "off" /\ m.buffer = "closed" /\ m.faults \in Nat /\ m.faults + 1 \in Nat
      /\ m.kept \in Whole /\ m.disk.phase \in Mig!Phases
  BY Places DEF Mig!Begin, MigInv, MigStates, BufferShuts, Running
<1>1. /\ base \in Whole /\ none \in Whole
      /\ \A f \in Mig!Files : base[f] = (IF Mig!Recovered(f) THEN m.kept[f] ELSE m.file[f]) /\ none[f] = Mig!Missing
  BY DEF MigInv, MigStates, Whole, Mig!Missing, Vers
<1>2. /\ Mig!Recovery \in [any : BOOLEAN, opencode : BOOLEAN, app : BOOLEAN]
      /\ ~Mig!Recovery.any => ~Mig!Recovery.opencode /\ ~Mig!Recovery.app /\ \A f \in Mig!Files : ~Mig!Recovered(f)
  <2>1. /\ Mig!Recovery \in [any : BOOLEAN, opencode : BOOLEAN, app : BOOLEAN]
        /\ Mig!Recovery.any <=> m.disk.phase \notin {"none", "committed"}
        /\ Mig!Recovery.opencode <=> m.disk.phase \in Mig!Backed
        /\ Mig!Recovery.app <=> m.disk.phase = "app_config_backup_prepared"
    <3>1. PICK any \in BOOLEAN, opencode \in BOOLEAN, app \in BOOLEAN :
            /\ any = (m.disk.phase \notin {"none", "committed"})
            /\ opencode = (m.disk.phase \in Mig!Backed)
            /\ app = (m.disk.phase = "app_config_backup_prepared")
      <4>1. /\ (m.disk.phase \notin {"none", "committed"}) \in BOOLEAN
            /\ (m.disk.phase \in Mig!Backed) \in BOOLEAN
            /\ (m.disk.phase = "app_config_backup_prepared") \in BOOLEAN
        BY Z3
      <4> QED
        BY <4>1, Zenon
    <3>2. Mig!Recovery = [any |-> any, opencode |-> opencode, app |-> app]
      BY <3>1 DEF Mig!Recovery
    <3> QED
      BY <3>1, <3>2, Zenon
  <2>2. ~Mig!Recovery.any => ~Mig!Recovery.opencode /\ ~Mig!Recovery.app
    BY <2>1 DEF Mig!Backed, Mig!Locked
  <2> QED
    BY <2>1, <2>2 DEF Mig!Recovered
<1>3. PICK to \in {"starting", "success", "failed"}, kept \in Whole, b \in {"open", "closed"},
           n \in Nat :
        /\ m' = [m EXCEPT !.rec = Mig!Recovery, !.replaced = {}, !.verified = Mig!Recovery.app,
                   !.wroteApp = FALSE, !.started = FALSE, !.undone = TRUE, !.walked = FALSE,
                   !.base = base, !.pc = to, !.kept = kept, !.buffer = b, !.faults = n]
        /\ kept \in {m.kept, none} /\ (to = "starting" /\ ~Mig!Recovery.any => kept = none)
        /\ to # "starting" => b = "closed"
  <2> DEFINE run == [m EXCEPT !.rec = Mig!Recovery, !.replaced = {}, !.verified = Mig!Recovery.app,
                  !.wroteApp = FALSE, !.started = FALSE, !.undone = TRUE, !.walked = FALSE,
                  !.base = base]
             other == IF Mig!Recovery.any THEN m.kept ELSE none
  <2>1. other \in Whole /\ other \in {m.kept, none} /\ (~Mig!Recovery.any => other = none)
    BY <1>0, <1>1
  <2>2. \/ m' = [run EXCEPT !.pc = "success"] \/ m' = [run EXCEPT !.pc = "failed"]
        \/ m' = [run EXCEPT !.pc = "starting", !.buffer = "open",
                            !.kept = IF Mig!Recovery.any THEN @ ELSE none]
        \/ m' = [run EXCEPT !.pc = "failed", !.faults = @ + 1]
    BY DEF Mig!Begin
  <2> HIDE DEF base, none
  <2>3. /\ [run EXCEPT !.pc = "success"]
             = [run EXCEPT !.pc = "success", !.kept = m.kept, !.buffer = "closed", !.faults = m.faults]
        /\ [run EXCEPT !.pc = "failed"]
             = [run EXCEPT !.pc = "failed", !.kept = m.kept, !.buffer = "closed", !.faults = m.faults]
    BY ZenonT(40), <1>0 DEF MigInv, MigStates
  <2>4. [run EXCEPT !.pc = "starting", !.buffer = "open", !.kept = IF Mig!Recovery.any THEN @ ELSE none]
          = [run EXCEPT !.pc = "starting", !.kept = other, !.buffer = "open", !.faults = m.faults]
    BY ZenonT(40), <1>0 DEF MigInv, MigStates
  <2>5. [run EXCEPT !.pc = "failed", !.faults = @ + 1]
          = [run EXCEPT !.pc = "failed", !.kept = m.kept, !.buffer = "closed", !.faults = m.faults + 1]
    BY ZenonT(40), <1>0 DEF MigInv, MigStates
  <2> HIDE DEF other, run
  <2> DEFINE With(to, kept, b, n) == [run EXCEPT !.pc = to, !.kept = kept, !.buffer = b, !.faults = n]
  <2>6. PICK to \in {"starting", "success", "failed"}, kept \in Whole, b \in {"open", "closed"},
             n \in Nat :
          /\ m' = With(to, kept, b, n) /\ kept \in {m.kept, none}
          /\ to = "starting" /\ ~Mig!Recovery.any => kept = none
          /\ to # "starting" => b = "closed"
    <3>1. CASE m' = [run EXCEPT !.pc = "success"]
      <4>1. m' = With("success", m.kept, "closed", m.faults)
        BY <2>3, <3>1
      <4> HIDE DEF With
      <4> QED
        BY <1>0, <4>1
    <3>2. CASE m' = [run EXCEPT !.pc = "failed"]
      <4>1. m' = With("failed", m.kept, "closed", m.faults)
        BY <2>3, <3>2
      <4> HIDE DEF With
      <4> QED
        BY <1>0, <4>1
    <3>3. CASE m' = [run EXCEPT !.pc = "starting", !.buffer = "open",
                       !.kept = IF Mig!Recovery.any THEN @ ELSE none]
      <4>1. m' = With("starting", other, "open", m.faults)
        BY <2>4, <3>3
      <4> HIDE DEF With
      <4> QED
        BY <1>0, <2>1, <4>1
    <3>4. CASE m' = [run EXCEPT !.pc = "failed", !.faults = @ + 1]
      <4>1. m' = With("failed", m.kept, "closed", m.faults + 1)
        BY <2>5, <3>4
      <4> HIDE DEF With
      <4> QED
        BY <1>0, <4>1
    <3> QED
      BY Zenon, <2>2, <3>1, <3>2, <3>3, <3>4
  <2>7. m' = [m EXCEPT !.rec = Mig!Recovery, !.replaced = {}, !.verified = Mig!Recovery.app,
                !.wroteApp = FALSE, !.started = FALSE, !.undone = TRUE, !.walked = FALSE,
                !.base = base, !.pc = to, !.kept = kept, !.buffer = b, !.faults = n]
    BY <2>6 DEF run
  <2> QED
    BY <2>6, <2>7, Zenon
<1> HIDE DEF base, none
<1>4. /\ m' \in MigStates /\ m'.rec = Mig!Recovery /\ m'.replaced = {} /\ m'.verified = Mig!Recovery.app
      /\ m'.wroteApp = FALSE /\ m'.walked = FALSE /\ m'.base = base /\ m'.file = m.file
      /\ m'.pc = to /\ m'.kept = kept /\ m'.buffer = b /\ m'.edits = m.edits
  <2>1. PICK r \in [any : BOOLEAN, opencode : BOOLEAN, app : BOOLEAN], a \in BOOLEAN :
          r = Mig!Recovery /\ a = Mig!Recovery.app
    BY <1>2
  <2>2. m' = [m EXCEPT !.rec = r, !.replaced = {}, !.verified = a,
                !.wroteApp = FALSE, !.started = FALSE, !.undone = TRUE, !.walked = FALSE,
                !.base = base, !.pc = to, !.kept = kept, !.buffer = b, !.faults = n]
    BY <1>3, <2>1
  <2>3. /\ m'.rec = r /\ m'.replaced = {} /\ m'.verified = a
        /\ m'.wroteApp = FALSE /\ m'.walked = FALSE /\ m'.base = base /\ m'.file = m.file
        /\ m'.pc = to /\ m'.kept = kept /\ m'.buffer = b /\ m'.edits = m.edits
    BY <2>2 DEF MigInv, MigStates
  <2>4. m' \in MigStates
    <3>1. /\ m'.started = FALSE /\ m'.undone = TRUE /\ m'.faults = n /\ m'.disk = m.disk
          /\ m'.mark = m.mark /\ m'.crashes = m.crashes
      BY <2>2 DEF MigInv, MigStates
    <3>2. m' = [pc |-> m'.pc, disk |-> m'.disk, mark |-> m'.mark, file |-> m'.file, kept |-> m'.kept,
                base |-> m'.base, rec |-> m'.rec, replaced |-> m'.replaced, verified |-> m'.verified,
                wroteApp |-> m'.wroteApp, started |-> m'.started, walked |-> m'.walked,
                undone |-> m'.undone, buffer |-> m'.buffer, faults |-> m'.faults,
                crashes |-> m'.crashes, edits |-> m'.edits]
      BY <2>2, Zenon DEF MigInv, MigStates
    <3>3. to \in Mig!Steps \cup {"failed", "success"}
      BY Zenon DEF Mig!Steps
    <3> QED
      BY <1>0, <1>1, <2>3, <3>1, <3>2, <3>3, Zenon DEF MigInv, MigStates
  <2> QED
    BY <2>1, <2>3, <2>4
<1>5. VersionsAge'
  <2>1. \A f \in Mig!Files : kept[f] = m.kept[f] \/ kept[f].ver = -1
    BY <1>1, <1>3 DEF Mig!Missing
  <2>2. m.edits \in Nat
    BY DEF MigInv, MigStates
  <2> QED
    BY <1>1, <1>4, <2>1, <2>2 DEF MigInv, VersionsAge
<1>6. BufferShuts' /\ WalkIsDone'
  <2>1. BufferShuts'
    BY <1>3, <1>4, Places DEF BufferShuts, Running, Early
  <2>2. WalkIsDone'
    BY <1>4, Zenon DEF WalkIsDone, Behind, Late, Mig!Files, Mig!OpenCode
  <2> QED
    BY <2>1, <2>2
<1>7. OwnRun'
  <2>1. SUFFICES ASSUME ~Mig!Recovery.any
                 PROVE  Grounded' /\ BackedUp' /\ Verifies' /\ Ahead' /\ Undoing'
    BY <1>4 DEF OwnRun
  <2>2. \A f \in Mig!Files : m'.base[f] = m'.file[f] /\ ~Mig!Changed(f)'
    BY <1>1, <1>2, <1>4, <2>1 DEF Mig!Changed
  <2>3. \A f \in Mig!Files : m'.file[f].ver >= 0
    BY <1>4 DEF MigInv, VersionsAge
  <2>4. Grounded' /\ Verifies'
    BY <1>2, <1>4, <2>1, <2>2, <2>3, Zenon DEF Grounded, Mig!Of, Verifies, Late
  <2>5. BackedUp'
    <3>1. ~m'.verified
      BY <1>2, <1>4, <2>1
    <3>2. to \in {"success", "failed"} \/ (to = "starting" /\ \A f \in Mig!Files : m'.kept[f] = Mig!Missing)
      BY <1>1, <1>3, <1>4, <2>1
    <3>3. CASE to = "starting" /\ \A f \in Mig!Files : m'.kept[f] = Mig!Missing
      <4>1. \A f \in Mig!Files : "starting" \in Bare(f)
        BY DEF Bare, Early
      <4> QED
        BY <1>4, <3>1, <3>3, <4>1 DEF BackedUp
    <3>4. CASE to \in {"success", "failed"}
      BY <1>4, <3>1, <3>4, Places, Zenon DEF BackedUp, Bare, Running
    <3> QED
      BY <3>2, <3>3, <3>4
  <2>6. Ahead' /\ Undoing'
    BY <1>4, <2>2, Places, Zenon DEF Ahead, Undoing, Syncing, Late
  <2> QED
    BY <2>4, <2>5, <2>6
<1> QED
  BY <1>4, <1>5, <1>6, <1>7 DEF MigInv

LEMMA MigStep == ASSUME MigInv, [Mig!Next]_m PROVE MigInv'
<1>1. CASE UNCHANGED m
  BY ZenonT(40), <1>1 DEF MigInv, VersionsAge, BufferShuts, WalkIsDone, OwnRun, Running, Done,
     Grounded, BackedUp,
     Verifies, Ahead, InJournal, Undoing, Mig!Changed
<1>2. CASE Mig!Next
  BY <1>2, StartsStep, CommitStep, MarkStep, ReadFilesStep, MigBackupStep, JournalStep, MigReplaceStep,
     RecheckStep, MigVerifiedStep, AppBackupStep, AppJournalStep, AppWriteStep, AppRecheckStep, FinalStep,
     UnsyncStep, UndoAppStep, UndoOpenCodeStep, UndoStateStep, StoppedStep, HaltsStep, EditsStep,
     ChildReportsStep, BeginStep DEF Mig!Next
<1> QED
  BY <1>1, <1>2

LEMMA MigStart == Mig!Init => MigInv
<1> SUFFICES ASSUME Mig!Init PROVE MigInv
  OBVIOUS
<1>1. m \in MigStates /\ \A f \in Mig!Files : m.file[f].ver = 0 /\ m.base[f] = m.file[f]
                                              /\ m.kept[f].ver = -1
  BY DEF Mig!Init, MigStates, Mig!Phases, Whole, Vers, Mig!Missing
<1>2. /\ m.pc = "off" /\ m.edits = 0 /\ m.buffer = "closed" /\ ~m.rec.opencode /\ ~m.rec.app
  BY DEF Mig!Init
<1>3. VersionsAge /\ BufferShuts /\ WalkIsDone
  <2>1. VersionsAge
    BY <1>1, <1>2 DEF VersionsAge
  <2>2. BufferShuts
    BY <1>2, Places DEF BufferShuts
  <2>3. WalkIsDone
    BY <1>2 DEF WalkIsDone, Behind, Late, Mig!Files, Mig!OpenCode
  <2> QED
    BY <2>1, <2>2, <2>3
<1>4. Grounded /\ BackedUp /\ Verifies /\ Ahead /\ Undoing
  <2>1. \A f \in Mig!Files : ~Mig!Changed(f)
    BY <1>1 DEF Mig!Changed
  <2>2. m.pc \notin Mig!Steps \cup Mig!Undos \cup Early \cup Syncing \cup Late \cup {"journal"}
    BY <1>2, Places
  <2>3. Grounded
    BY <1>1, <1>2, <2>1 DEF Grounded, Mig!Of
  <2>4. BackedUp /\ Verifies
    BY <1>2, <2>2 DEF BackedUp, Bare, Running, Verifies
  <2>5. Ahead /\ Undoing
    BY <2>1, <2>2, Places, Zenon DEF Ahead, Undoing, Late
  <2> QED
    BY <2>3, <2>4, <2>5
<1> QED
  BY <1>1, <1>3, <1>4 DEF MigInv, OwnRun

LEMMA MigMeaning == MigInv => Mig!WriteAhead /\ Mig!FirstFailureUndoes /\ Mig!SuccessIsComplete
<1> SUFFICES ASSUME MigInv PROVE Mig!WriteAhead /\ Mig!FirstFailureUndoes /\ Mig!SuccessIsComplete
  OBVIOUS
<1>1. Mig!WriteAhead
  BY DEF MigInv, OwnRun, Ahead, InJournal, Mig!WriteAhead
<1>2. Mig!FirstFailureUndoes
  BY Places DEF MigInv, OwnRun, Undoing, Mig!FirstFailureUndoes
<1>3. Mig!SuccessIsComplete
  BY DEF MigInv, WalkIsDone, Done, Mig!SuccessIsComplete
<1> QED
  BY <1>1, <1>2, <1>3

-----------------------------------------------------------------------------
(* What a step keeps of the files and of the reports *)

Forward == \A f \in Mig!Files : m'.file[f].ver >= m.file[f].ver

LEMMA Still == ASSUME MigInv, m'.file = m.file PROVE Forward
BY FileTypes DEF Forward, Vers

\* One file is written, with a content of its version or a newer one.
LEMMA OneFile ==
  ASSUME MigInv, NEW f \in Mig!Files, NEW c \in Vers, c.ver >= m.file[f].ver,
         m'.file = [m.file EXCEPT ![f] = c]
  PROVE  Forward
<1>1. m'.file[f] = c /\ \A g \in Mig!Files : g # f => m'.file[g] = m.file[g]
  BY DEF MigInv, MigStates, Whole
<1> QED
  BY <1>1, FileTypes DEF Forward, Vers

LEMMA WalkGoesForward ==
  ASSUME MigInv
  PROVE  /\ \A f \in Mig!OpenCode : Mig!Replace(f) => Forward
         /\ Mig!AppWrite => Forward
         /\ \A f \in Mig!Files : Mig!Edits(f) => Forward
<1>1. ASSUME NEW f \in Mig!OpenCode, Mig!Replace(f) PROVE Forward
  <2>1. f \in Mig!Files
    BY DEF Mig!Files
  <2>2. CASE m'.file = m.file
    BY <2>2, Still
  <2>3. CASE m.file[f] \in Mig!Of(m.base[f]) /\ m'.file = [m.file EXCEPT ![f] = Mig!Rewritten(m.base[f])]
    <3>1. Mig!Rewritten(m.base[f]) \in Vers /\ Mig!Rewritten(m.base[f]).ver = m.file[f].ver
      BY <2>1, <2>3, FileTypes, Texts
    <3> QED
      BY <2>1, <2>3, <3>1, OneFile, FileTypes DEF Vers
  <2> QED
    BY ZenonT(40), <1>1, <2>2, <2>3 DEF Mig!Replace, Mig!Fails, Mig!Go, MigInv, MigStates
<1>2. ASSUME Mig!AppWrite PROVE Forward
  <2>1. "app" \in Mig!Files
    BY DEF Mig!Files
  <2>2. CASE m'.file = m.file
    BY <2>2, Still
  <2>3. CASE /\ m.file["app"] \in Mig!Of(m.base["app"])
             /\ m'.file = [m.file EXCEPT !["app"] = Mig!Rewritten(m.base["app"])]
    <3>1. Mig!Rewritten(m.base["app"]) \in Vers /\ Mig!Rewritten(m.base["app"]).ver = m.file["app"].ver
      BY <2>1, <2>3, FileTypes, Texts
    <3> QED
      BY <2>1, <2>3, <3>1, OneFile, FileTypes DEF Vers
  <2> QED
    BY <1>2, <2>2, <2>3, Zenon DEF Mig!AppWrite, MigInv, MigStates
<1>3. ASSUME NEW f \in Mig!Files, Mig!Edits(f) PROVE Forward
  <2> DEFINE c == [ver |-> m.edits + 1, new |-> FALSE]
  <2>1. m.edits \in Nat /\ c \in Vers /\ c.ver = m.edits + 1
    BY DEF MigInv, MigStates, Vers
  <2>2. m'.file = [m.file EXCEPT ![f] = c]
    BY <1>3 DEF Mig!Edits, MigInv, MigStates
  <2> HIDE DEF c
  <2>3. c.ver >= m.file[f].ver
    BY <2>1, FileTypes DEF MigInv, VersionsAge, Vers
  <2> QED
    BY <2>1, <2>2, <2>3, OneFile
<1> QED
  BY <1>1, <1>2, <1>3

LEMMA UndoGoesForward ==
  ASSUME MigInv PROVE (Mig!Unsync \/ Mig!UndoApp \/ Mig!UndoOpenCode) => Forward
<1>1. ASSUME NEW f \in Mig!Files, m.file[f] = Mig!Rewritten(m.base[f]),
             m'.file = [m.file EXCEPT ![f] = m.base[f]]
      PROVE  Forward
  <2>1. m.base[f] \in Vers /\ m.base[f].ver = m.file[f].ver
    BY <1>1, FileTypes, Texts
  <2> QED
    BY <1>1, <2>1, OneFile, FileTypes DEF Vers
<1>2. ASSUME Mig!Unsync PROVE Forward
  <2>1. CASE m'.file = m.file
    BY <2>1, Still
  <2>2. ASSUME NEW f \in m.replaced, m.file[f] = Mig!Rewritten(m.base[f]),
               m' = [m EXCEPT !.file[f] = m.base[f], !.replaced = @ \ {f}]
        PROVE  Forward
    <3>1. f \in Mig!Files /\ m'.file = [m.file EXCEPT ![f] = m.base[f]]
      BY <2>2 DEF MigInv, MigStates, Mig!Files
    <3> QED
      BY <1>1, <2>2, <3>1
  <2> QED
    BY <1>2, <2>1, <2>2, Zenon DEF Mig!Unsync, Mig!Go, MigInv, MigStates
<1>3. ASSUME Mig!UndoApp PROVE Forward
  <2>1. CASE m'.file = m.file
    BY <2>1, Still
  <2>2. CASE m.file["app"] = Mig!Rewritten(m.base["app"])
             /\ m'.file = [m.file EXCEPT !["app"] = m.base["app"]]
    BY <1>1, <2>2 DEF Mig!Files
  <2> QED
    BY <1>3, <2>1, <2>2, Zenon DEF Mig!UndoApp, Mig!Go, MigInv, MigStates
<1>4. ASSUME Mig!UndoOpenCode PROVE Forward
  <2> DEFINE own(f) == m.file[f] = Mig!Rewritten(m.kept[f])
             back   == IF ~own("jsonc") THEN {} ELSE IF ~own("json") THEN {"jsonc"} ELSE Mig!OpenCode
  <2>1. CASE m'.file = m.file
    BY <2>1, Still
  <2>2. CASE m'.file = [f \in Mig!Files |-> IF f \in back THEN m.kept[f] ELSE m.file[f]]
    <3>1. \A f \in back : own(f)
      BY DEF Mig!OpenCode
    <3>2. \A f \in Mig!Files : m'.file[f] = m.file[f] \/ (m'.file[f] = m.kept[f] /\ own(f))
      BY <2>2, <3>1
    <3> HIDE DEF back
    <3> QED
      BY <3>2, FileTypes, Texts DEF Forward, Vers
  <2> QED
    <3>1. CASE ~Mig!Owed /\ m' = Mig!Go("undo state")
      BY <2>1, <3>1, Zenon DEF Mig!Go, MigInv, MigStates
    <3>2. CASE m' = [Mig!Go("undo state") EXCEPT !.undone = FALSE, !.faults = @ + 1]
      BY <2>1, <3>2 DEF Mig!Go, MigInv, MigStates
    <3>3. CASE m' = [Mig!Go("undo state") EXCEPT !.undone = @ /\ back = Mig!OpenCode,
                           !.file = [f \in Mig!Files |-> IF f \in back THEN m.kept[f] ELSE @[f]]]
      <4> HIDE DEF back
      <4>1. m'.file = [f \in Mig!Files |-> IF f \in back THEN m.kept[f] ELSE m.file[f]]
        BY <3>3 DEF Mig!Go, MigInv, MigStates
      <4> QED
        BY <2>2, <4>1
    <3> QED
      BY <1>4, <3>1, <3>2, <3>3, Zenon DEF Mig!UndoOpenCode
<1> QED
  BY <1>2, <1>3, <1>4

\* The other actions write none of the files.
LEMMA OthersKeepFiles ==
  ASSUME MigInv,
         \/ Mig!Begin \/ Mig!Starts \/ Mig!StartFails \/ Mig!ChildReports \/ Mig!Commit \/ Mig!Ready \/ Mig!NameMark
         \/ Mig!MakeMark \/ Mig!ReadFiles \/ Mig!Backup \/ Mig!Journal \/ Mig!Verified \/ Mig!AppBackup \/ Mig!AppJournal
         \/ Mig!AppRecheck \/ Mig!Final \/ Mig!UndoState \/ Mig!Stopped \/ Mig!Exits \/ Mig!Crashes
         \/ \E f \in Mig!OpenCode : Mig!Recheck(f)
  PROVE  Forward
<1>1. \/ Mig!Begin \/ Mig!Starts \/ Mig!StartFails \/ Mig!ChildReports \/ Mig!ReadFiles \/ Mig!Backup \/ Mig!Verified
      => m'.file = m.file
  BY ZenonT(40) DEF Mig!Begin, Mig!Starts, Mig!StartFails, Mig!ChildReports, Mig!ReadFiles,
     Mig!Backup,
     Mig!Verified, Mig!Fails, Mig!Go, MigInv, MigStates
<1>2. \/ Mig!Commit \/ Mig!Ready \/ Mig!NameMark \/ Mig!MakeMark \/ Mig!Journal \/ Mig!AppBackup \/ Mig!AppJournal
      => m'.file = m.file
  BY Zenon DEF Mig!Commit, Mig!Ready, Mig!NameMark, Mig!MakeMark, Mig!Journal, Mig!AppBackup,
     Mig!AppJournal,
     Mig!Persist, Mig!Fails, Mig!Go, MigInv,
     MigStates
<1>3. \/ Mig!AppRecheck \/ Mig!Final \/ Mig!UndoState \/ Mig!Stopped \/ Mig!Exits \/ Mig!Crashes
      \/ \E f \in Mig!OpenCode : Mig!Recheck(f)
      => m'.file = m.file
  BY Zenon DEF Mig!AppRecheck, Mig!Final, Mig!UndoState, Mig!Stopped, Mig!Exits, Mig!Crashes, Mig!Recheck,
     Mig!Fails, Mig!Go, MigInv, MigStates
<1> QED
  BY <1>1, <1>2, <1>3, Still

\* No step brings an older version back.
LEMMA GoesForward == ASSUME MigInv, [Mig!Next]_m PROVE Forward
<1>1. CASE UNCHANGED m
  BY <1>1, Still
<1>2. CASE Mig!Next
  BY <1>2, WalkGoesForward, UndoGoesForward, OthersKeepFiles DEF Mig!Next
<1> QED
  BY <1>1, <1>2

\* A success is reached with what the child reported, or with a closed buffer.
LEMMA SuccessTells ==
  ASSUME MigInv, [Mig!Next]_m, m.buffer = "reported", m'.pc = "success" PROVE m'.disk.told
<1>1. Running
  BY DEF MigInv, BufferShuts
<1>2. m.pc # "off" /\ m.pc # "success" /\ m.pc # "failed"
  BY <1>1, Places DEF Running
<1>3. CASE Mig!Final
  <2>1. CASE m' = [Mig!Go("success") EXCEPT !.disk = [phase |-> "committed", told |-> Mig!Merged],
                         !.buffer = "closed", !.walked = TRUE]
    <3>1. m'.disk.told = Mig!Merged
      BY <2>1 DEF Mig!Go, MigInv, MigStates
    <3> QED
      BY <3>1, Zenon DEF Mig!Merged
  <2>2. CASE m' = [Mig!Go("undo app") EXCEPT !.buffer = "closed", !.faults = @ + 1]
    BY <2>2 DEF Mig!Go, MigInv, MigStates
  <2> QED
    BY <1>3, <2>1, <2>2 DEF Mig!Final
<1>4. ASSUME Mig!Starts \/ Mig!StartFails \/ Mig!ReadFiles \/ Mig!Backup \/ Mig!Verified \/ Mig!AppWrite \/ Mig!AppRecheck
      PROVE  FALSE
  BY ZenonT(40), <1>4 DEF Mig!Starts, Mig!StartFails, Mig!ReadFiles, Mig!Backup, Mig!Verified,
     Mig!AppWrite,
     Mig!AppRecheck, Mig!Fails, Mig!Go,
     MigInv, MigStates
<1>5. ASSUME Mig!Commit \/ Mig!Ready \/ Mig!NameMark \/ Mig!MakeMark \/ Mig!Journal \/ Mig!AppBackup \/ Mig!AppJournal
      PROVE  FALSE
  BY ZenonT(40), <1>5 DEF Mig!Commit, Mig!Ready, Mig!NameMark, Mig!MakeMark, Mig!Journal,
     Mig!AppBackup,
     Mig!AppJournal, Mig!Persist, Mig!Fails, Mig!Go,
     MigInv, MigStates
<1>6. ASSUME Mig!Unsync \/ Mig!UndoApp \/ Mig!UndoOpenCode \/ Mig!UndoState \/ Mig!Stopped \/ Mig!Crashes \/ Mig!Exits
      PROVE  FALSE
  <2>1. ASSUME Mig!Unsync \/ Mig!UndoApp PROVE FALSE
    BY ZenonT(40), <1>2, <2>1 DEF Mig!Unsync, Mig!UndoApp, Mig!Go, MigInv, MigStates
  <2>2. ASSUME Mig!UndoOpenCode PROVE FALSE
    BY <2>2, Zenon DEF Mig!UndoOpenCode, Mig!Go, MigInv, MigStates
  <2>3. ASSUME Mig!UndoState \/ Mig!Stopped \/ Mig!Crashes \/ Mig!Exits PROVE FALSE
    BY ZenonT(40), <1>2, <2>3 DEF Mig!UndoState, Mig!Stopped, Mig!Crashes, Mig!Exits, Mig!Go,
       MigInv, MigStates
  <2> QED
    BY <1>6, <2>1, <2>2, <2>3
<1>7. ASSUME NEW f \in Mig!Files, Mig!Edits(f) \/ (f \in Mig!OpenCode /\ (Mig!Replace(f) \/ Mig!Recheck(f)))
      PROVE  FALSE
  BY ZenonT(40), <1>2, <1>7 DEF Mig!Edits, Mig!Replace, Mig!Recheck, Mig!After, Mig!OpenCode,
     Mig!Fails, Mig!Go,
     MigInv, MigStates
<1>8. ~Mig!Begin /\ ~Mig!ChildReports /\ m' # m
  BY <1>2 DEF Mig!Begin, Mig!ChildReports
<1> QED
  BY <1>3, <1>4, <1>5, <1>6, <1>7, <1>8 DEF Mig!Next, Mig!Files

-----------------------------------------------------------------------------
(* The configuration: no writer loses what another one wrote                  *)

\* What is in the file is what was last meant, and nobody meant anything by a file that cannot
\* be read.
FileInv ==
  /\ m.truth \in Cfg!Content /\ m.retry \in 0 .. 2 /\ m.listed \subseteq Cfg!Models
  /\ m.file \in Cfg!Content => m.file = m.truth
  /\ m.file \notin Cfg!Content => m.file \in {Cfg!Garbled, Cfg!Absent} /\ m.truth = Cfg!Default
ConfigFields == {"file", "truth", "cache", "edited", "listed", "asking", "seen", "retry",
                 "writes", "outside"}
ConfigInv == DOMAIN m = ConfigFields /\ FileInv /\ Cfg!CacheIsCurrent

LEMMA DefaultIsContent == Cfg!Default \in Cfg!Content
  BY DEF Cfg!Default, Cfg!Content, Cfg!Models

\* Any field of the contents may be set by itself.

LEMMA FieldsAreFree ==
  ASSUME NEW f \in Cfg!Content
  PROVE  /\ [f EXCEPT !.port = 0] \in Cfg!Content /\ [f EXCEPT !.port = 1] \in Cfg!Content
         /\ [f EXCEPT !.port = 2] \in Cfg!Content
         /\ \A v \in {"en", "ru"} : [f EXCEPT !.lang = v] \in Cfg!Content
         /\ \A v \in {"none", "chosen", "bad"} : [f EXCEPT !.deadline = v] \in Cfg!Content
         /\ \A v \in [Cfg!Models -> {"norecord", "unset", "day", "night"}] :
              [f EXCEPT !.mode = v] \in Cfg!Content
         /\ \A v \in BOOLEAN : [f EXCEPT !.other = v] \in Cfg!Content
         /\ \A v \in SUBSET Cfg!Models : [f EXCEPT !.disabled = v] \in Cfg!Content
  BY DEF Cfg!Content

LEMMA HandIsContent == Cfg!Hand \in Cfg!Content
<1> DEFINE mode == [i \in Cfg!Models |-> IF i = "own" THEN "unset" ELSE "norecord"]
           f1 == [Cfg!Default EXCEPT !.port = 0]
           f2 == [f1 EXCEPT !.deadline = "bad"]
           f3 == [f2 EXCEPT !.other = TRUE]
           f4 == [f3 EXCEPT !.lang = "ru"]
           f5 == [f4 EXCEPT !.mode = mode]
           f6 == [f5 EXCEPT !.disabled = {"own"}]
<1>1. Cfg!Hand = f6
  BY DEF Cfg!Hand
<1>2. mode \in [Cfg!Models -> {"norecord", "unset", "day", "night"}] /\ {"own"} \in SUBSET Cfg!Models
  BY DEF Cfg!Models
<1> HIDE DEF mode
<1>3. f1 \in Cfg!Content
  BY FieldsAreFree, DefaultIsContent, Zenon
<1> HIDE DEF f1
<1>4. f2 \in Cfg!Content
  BY FieldsAreFree, <1>3, Zenon
<1> HIDE DEF f2
<1>5. f3 \in Cfg!Content
  BY FieldsAreFree, <1>4, Zenon
<1> HIDE DEF f3
<1>6. f4 \in Cfg!Content
  BY FieldsAreFree, <1>5, Zenon
<1> HIDE DEF f4
<1>7. f5 \in Cfg!Content
  BY FieldsAreFree, <1>2, <1>6, Zenon
<1> HIDE DEF f5
<1>8. f6 \in Cfg!Content
  BY FieldsAreFree, <1>2, <1>7, Zenon
<1> QED
  BY <1>1, <1>8

LEMMA ContentIsReadable ==
  \A f \in Cfg!Content : Cfg!Readable(f)
<1>1. ASSUME NEW f \in Cfg!Content PROVE f.lang \in {"en", "ru"}
  BY <1>1 DEF Cfg!Content
<1>2. Cfg!Garbled.lang = "garbled" /\ Cfg!Absent.lang = "absent"
  BY DEF Cfg!Garbled, Cfg!Absent, Cfg!Default
<1> QED
  BY <1>1, <1>2 DEF Cfg!Readable

LEMMA StoredIsContent ==
  /\ \A f \in Cfg!Content : Cfg!Stored(f) \in Cfg!Content
  /\ \A f : ~Cfg!Readable(f) => Cfg!Stored(f) = Cfg!Default
<1>1. ASSUME NEW f \in Cfg!Content PROVE Cfg!Stored(f) \in Cfg!Content
  <2>1. Cfg!Stored(f) = [f EXCEPT !.port = IF @ = 0 THEN 1 ELSE @,
                                  !.deadline = IF @ = "bad" THEN "none" ELSE @]
    BY ContentIsReadable DEF Cfg!Stored
  <2>2. [f EXCEPT !.port = IF @ = 0 THEN 1 ELSE @,
                  !.deadline = IF @ = "bad" THEN "none" ELSE @] =
        [f EXCEPT !.port = IF f.port = 0 THEN 1 ELSE f.port,
                  !.deadline = IF f.deadline = "bad" THEN "none" ELSE f.deadline]
    OBVIOUS
  <2>3. /\ (IF f.port = 0 THEN 1 ELSE f.port) \in 0 .. 2
        /\ (IF f.deadline = "bad" THEN "none" ELSE f.deadline) \in {"none", "chosen", "bad"}
    BY DEF Cfg!Content
  <2> QED
    BY <2>1, <2>2, <2>3, Zenon DEF Cfg!Content
<1> QED
  BY <1>1, Zenon DEF Cfg!Stored

LEMMA StoredDefault == Cfg!Stored(Cfg!Default) = Cfg!Default
<1>1. Cfg!Default.port = 1 /\ Cfg!Default.deadline = "none"
  BY DEF Cfg!Default
<1>2. \A f \in Cfg!Content : f.port = 1 /\ f.deadline = "none" => Cfg!Stored(f) = f
  <2> SUFFICES ASSUME NEW f \in Cfg!Content, f.port = 1, f.deadline = "none" PROVE Cfg!Stored(f) = f
    OBVIOUS
  <2>1. Cfg!Stored(f) = [f EXCEPT !.port = f.port, !.deadline = f.deadline]
    BY ContentIsReadable DEF Cfg!Stored
  <2> QED
    BY <2>1, Zenon DEF Cfg!Content
<1> QED
  BY <1>1, <1>2, DefaultIsContent

\* The base of a writer is what is meant to stay.

LEMMA BaseIsMeant == FileInv => Cfg!Base(m) = Cfg!Meant(m) /\ Cfg!Meant(m) \in Cfg!Content
<1> SUFFICES ASSUME FileInv PROVE Cfg!Base(m) = Cfg!Meant(m) /\ Cfg!Meant(m) \in Cfg!Content
  OBVIOUS
<1>1. Cfg!Meant(m) \in Cfg!Content
  BY StoredIsContent DEF FileInv, Cfg!Meant
<1>2. CASE m.file \in Cfg!Content
  BY <1>1, <1>2 DEF FileInv, Cfg!Base, Cfg!Meant
<1>3. CASE m.file \notin Cfg!Content
  <2>1. ~Cfg!Readable(m.file) /\ m.truth = Cfg!Default
    BY <1>3 DEF FileInv, Cfg!Readable
  <2> QED
    BY <2>1, <1>1, StoredIsContent, StoredDefault DEF Cfg!Base, Cfg!Meant
<1> QED
  BY <1>2, <1>3

\* What a writer puts over the file is its own field over what is meant to stay.

LEMMA WrittenIsMeant ==
  ASSUME FileInv, NEW q, q.file = m.file, NEW u \in Cfg!Content,
         u.other = Cfg!Meant(m).other, u.mode = Cfg!Meant(m).mode,
         NEW patch \in [Cfg!Models -> {"keep", "night"}],
         NEW mode \in [Cfg!Models -> {"norecord", "unset", "day", "night"}],
         \A i \in Cfg!Models : mode[i] = IF patch[i] = "keep" THEN u.mode[i] ELSE patch[i]
  PROVE  Cfg!Written(q, u, patch) = [u EXCEPT !.mode = mode]
<1>1. u.other \in BOOLEAN
  BY DEF Cfg!Content
<1>2. (Cfg!Readable(m.file) /\ m.file.other) = u.other
  <2>1. CASE m.file \in Cfg!Content
    <3>1. Cfg!Readable(m.file) /\ m.file = m.truth
      BY <2>1, ContentIsReadable DEF FileInv
    <3>2. Cfg!Meant(m).other = m.truth.other
      BY <3>1, <2>1 DEF Cfg!Meant, Cfg!Stored, Cfg!Content
    <3>3. m.truth.other \in BOOLEAN
      BY DEF FileInv, Cfg!Content
    <3> QED
      BY <3>1, <3>2, <3>3
  <2>2. CASE m.file \notin Cfg!Content
    <3>1. ~Cfg!Readable(m.file) /\ m.truth = Cfg!Default
      BY <2>2 DEF FileInv, Cfg!Readable
    <3>2. u.other = FALSE
      BY <3>1, StoredDefault DEF Cfg!Meant, Cfg!Default
    <3> QED
      BY <3>1, <3>2, Zenon
  <2> QED
    BY <2>1, <2>2
<1>3. Cfg!Merged(m.file, patch) = mode
  <2>1. CASE m.file \in Cfg!Content
    <3>1. Cfg!Readable(m.file) /\ m.file = m.truth
      BY <2>1, ContentIsReadable DEF FileInv
    <3>2. u.mode = m.file.mode
      BY <3>1, <2>1 DEF Cfg!Meant, Cfg!Stored, Cfg!Content
    <3> QED
      BY <3>1, <3>2 DEF Cfg!Merged
  <2>2. CASE m.file \notin Cfg!Content
    <3>1. ~Cfg!Readable(m.file) /\ m.truth = Cfg!Default
      BY <2>2 DEF FileInv, Cfg!Readable
    <3>2. u.mode = [i \in Cfg!Models |-> "norecord"]
      BY <3>1, StoredDefault DEF Cfg!Meant, Cfg!Default
    <3> QED
      BY <3>1, <3>2 DEF Cfg!Merged
  <2> QED
    BY <2>1, <2>2
<1>4. Cfg!Written(q, u, patch) = [u EXCEPT !.other = u.other, !.mode = mode]
  BY <1>2, <1>3, Zenon DEF Cfg!Written
<1> QED
  BY <1>4, <1>1, Zenon DEF Cfg!Content

LEMMA NothingElseIsWritten ==
  ASSUME FileInv, NEW q, q.file = m.file, NEW u \in Cfg!Content,
         u.other = Cfg!Meant(m).other, u.mode = Cfg!Meant(m).mode
  PROVE  Cfg!Written(q, u, Cfg!NoPatch) = u
<1>1. Cfg!NoPatch \in [Cfg!Models -> {"keep", "night"}]
          /\ \A i \in Cfg!Models : Cfg!NoPatch[i] = "keep"
  BY DEF Cfg!NoPatch
<1>2. u.mode \in [Cfg!Models -> {"norecord", "unset", "day", "night"}]
  BY DEF Cfg!Content
<1>3. Cfg!Written(q, u, Cfg!NoPatch) = [u EXCEPT !.mode = u.mode]
  BY <1>1, <1>2, WrittenIsMeant
<1> QED
  BY <1>3 DEF Cfg!Content

\* What a write leaves behind: nothing, an older cached reading gone, or the new contents.
Held(s, t) == t.retry \in {0, s.retry} /\ (t.listed = s.listed \/ t.listed \subseteq Cfg!Models)
Untouched(s, t) ==
  Held(s, t) /\ t.file = s.file /\ t.truth = s.truth /\ t.cache = s.cache /\ t.edited = s.edited
Forgotten(s, t) == Held(s, t) /\ t.file = s.file /\ t.truth = s.truth /\ t.cache = Cfg!Nothing
Replaced(s, t, f) ==
  Held(s, t) /\ t.file = f /\ t.truth = f /\ f \in Cfg!Content /\ t.cache = Cfg!Nothing

LEMMA WriteDoes ==
  ASSUME NEW q, DOMAIN q = ConfigFields, NEW u, NEW patch, NEW meant \in Cfg!Content, NEW how,
         Cfg!Written(q, u, patch) = meant
  PROVE  LET s == Cfg!Write(q, u, patch, meant, how)
         IN /\ DOMAIN s = ConfigFields
            /\ Untouched(q, s) \/ Forgotten(q, s) \/ Replaced(q, s, meant)
<1> DEFINE s == [q EXCEPT !.writes = @ + 1]
<1>1. DOMAIN s = ConfigFields /\ s.file = q.file /\ s.truth = q.truth /\ s.cache = q.cache
      /\ s.edited = q.edited /\ s.retry = q.retry /\ s.listed = q.listed
  BY DEF ConfigFields
<1>2. Cfg!Write(q, u, patch, meant, how) =
        CASE how = "temp"   -> s
          [] how = "rename" -> Cfg!Dropped(s, how)
          [] OTHER -> [Cfg!Dropped(s, how) EXCEPT !.file = meant, !.truth = meant]
  BY DEF Cfg!Write
<1> HIDE DEF s
<1>3. CASE how = "temp"
  BY <1>1, <1>2, <1>3 DEF Untouched, Held
<1>4. CASE how = "rename"
  BY <1>1, <1>2, <1>4, Zenon DEF Forgotten, Held, Cfg!Dropped, ConfigFields
<1>5. CASE how \notin {"temp", "rename"}
  <2>1. Cfg!Write(q, u, patch, meant, how)
          = [Cfg!Dropped(s, how) EXCEPT !.file = meant, !.truth = meant]
    BY <1>2, <1>5
  <2> QED
    BY <1>1, <2>1 DEF Replaced, Held, Cfg!Dropped, ConfigFields
<1> QED
  BY <1>3, <1>4, <1>5

LEMMA ConfigKept ==
  ASSUME ConfigInv, DOMAIN m' = ConfigFields, NEW f,
         Untouched(m, m') \/ Forgotten(m, m') \/ Replaced(m, m', f)
  PROVE  ConfigInv'
<1>1. CASE Untouched(m, m')
  BY <1>1 DEF ConfigInv, FileInv, Cfg!CacheIsCurrent, Untouched, Held
<1>2. CASE Forgotten(m, m')
  BY <1>2 DEF ConfigInv, FileInv, Cfg!CacheIsCurrent, Forgotten, Held
<1>3. CASE Replaced(m, m', f)
  BY <1>3 DEF ConfigInv, FileInv, Cfg!CacheIsCurrent, Replaced, Held
<1> QED
  BY <1>1, <1>2, <1>3

\* A writer of one field writes it over what is meant to stay.

LEMMA WriterKeeps ==
  ASSUME ConfigInv, NEW q, DOMAIN q = ConfigFields, Untouched(m, q), NEW u \in Cfg!Content, NEW how,
         u.other = Cfg!Meant(m).other, u.mode = Cfg!Meant(m).mode,
         m' = Cfg!Write(q, u, Cfg!NoPatch, u, how)
  PROVE  ConfigInv'
<1>1. Cfg!Written(q, u, Cfg!NoPatch) = u
  BY NothingElseIsWritten DEF ConfigInv, Untouched, Held
<1>2. DOMAIN m' = ConfigFields /\ (Untouched(q, m') \/ Forgotten(q, m') \/ Replaced(q, m', u))
  BY <1>1, WriteDoes
<1>3. Untouched(m, m') \/ Forgotten(m, m') \/ Replaced(m, m', u)
  BY <1>2 DEF Untouched, Forgotten, Replaced, Held
<1> QED
  BY <1>2, <1>3, ConfigKept

LEMMA ConfigStart == Cfg!Init => ConfigInv
<1> SUFFICES ASSUME Cfg!Init PROVE ConfigInv
  OBVIOUS
<1>1. PICK f \in {Cfg!Default, Cfg!Hand} :
        m = [file |-> f, truth |-> f, cache |-> Cfg!Nothing, edited |-> FALSE, listed |-> {},
             asking |-> "none", seen |-> Cfg!Nothing, retry |-> 0, writes |-> 0, outside |-> 0]
  BY Zenon DEF Cfg!Init
<1>2. /\ m.retry = 0 /\ m.listed = {} /\ m.file = f /\ m.truth = f
      /\ m.cache = Cfg!Nothing /\ DOMAIN m = ConfigFields
  BY <1>1 DEF ConfigFields
<1>3. f \in Cfg!Content
  BY DefaultIsContent, HandIsContent
<1> QED
  BY <1>2, <1>3 DEF ConfigInv, FileInv, Cfg!CacheIsCurrent

LEMMA ReadsKeeps == ConfigInv /\ Cfg!Reads => ConfigInv'
<1> SUFFICES ASSUME ConfigInv, Cfg!Reads PROVE ConfigInv'
  OBVIOUS
<1>1. /\ DOMAIN m' = ConfigFields /\ m'.file = m.file /\ m'.truth = m.truth
      /\ m'.cache = Cfg!Cached(m)
      /\ m'.retry = m.retry /\ m'.listed = m.listed
  BY DEF ConfigInv, ConfigFields, Cfg!Reads
<1>2. Cfg!Cached(m) # Cfg!Nothing => Cfg!Readable(m.file) /\ Cfg!Cached(m) = Cfg!Shown(m.file)
  BY DEF Cfg!Cached
<1> QED
  BY <1>1, <1>2 DEF ConfigInv, FileInv, Cfg!CacheIsCurrent

LEMMA LanguageKeeps ==
  ASSUME ConfigInv, NEW v \in {"en", "ru"}, NEW how, Cfg!SetsLanguage(v, how) PROVE ConfigInv'
<1> DEFINE u == [Cfg!Meant(m) EXCEPT !.lang = v]
<1>1. Cfg!Base(m) = Cfg!Meant(m) /\ Cfg!Meant(m) \in Cfg!Content
  BY BaseIsMeant DEF ConfigInv
<1>2. u \in Cfg!Content
  BY <1>1, FieldsAreFree, Zenon
<1>3. u.other = Cfg!Meant(m).other /\ u.mode = Cfg!Meant(m).mode
  BY <1>1 DEF Cfg!Content
<1>4. m' = Cfg!Write(m, u, Cfg!NoPatch, u, how)
  BY <1>1 DEF Cfg!SetsLanguage
<1> HIDE DEF u
<1> QED
  BY <1>2, <1>3, <1>4, WriterKeeps DEF ConfigInv, Untouched, Held

LEMMA DeadlineKeeps ==
  ASSUME ConfigInv, NEW v \in {"none", "chosen"}, NEW how, Cfg!SetsDeadline(v, how) PROVE ConfigInv'
<1> DEFINE u == [Cfg!Meant(m) EXCEPT !.deadline = v]
<1>1. Cfg!Base(m) = Cfg!Meant(m) /\ Cfg!Meant(m) \in Cfg!Content
  BY BaseIsMeant DEF ConfigInv
<1>2. u \in Cfg!Content
  BY <1>1, FieldsAreFree, Zenon
<1>3. u.other = Cfg!Meant(m).other /\ u.mode = Cfg!Meant(m).mode
  BY <1>1 DEF Cfg!Content
<1>4. m' = Cfg!Write(m, u, Cfg!NoPatch, u, how)
  BY <1>1 DEF Cfg!SetsDeadline
<1> HIDE DEF u
<1> QED
  BY <1>2, <1>3, <1>4, WriterKeeps DEF ConfigInv, Untouched, Held

LEMMA TogglesKeeps ==
  ASSUME ConfigInv, NEW i \in Cfg!Models, NEW on \in BOOLEAN, NEW how, Cfg!Toggles(i, on, how)
  PROVE  ConfigInv'
<1> DEFINE d == IF on THEN Cfg!Meant(m).disabled \ {i} ELSE Cfg!Meant(m).disabled \cup {i}
           u == [Cfg!Meant(m) EXCEPT !.disabled = d]
<1>1. Cfg!Base(m) = Cfg!Meant(m) /\ Cfg!Meant(m) \in Cfg!Content
  BY BaseIsMeant DEF ConfigInv
<1>2. d \in SUBSET Cfg!Models
  BY <1>1 DEF Cfg!Content
<1>3. m' = Cfg!Write(m, u, Cfg!NoPatch, u, how)
  BY <1>1 DEF Cfg!Toggles
<1> HIDE DEF d
<1>4. u \in Cfg!Content
  BY <1>1, <1>2, FieldsAreFree, Zenon
<1>5. u.other = Cfg!Meant(m).other /\ u.mode = Cfg!Meant(m).mode
  BY <1>1 DEF Cfg!Content
<1> HIDE DEF u
<1> QED
  BY <1>3, <1>4, <1>5, WriterKeeps DEF ConfigInv, Untouched, Held

LEMMA ModeKeeps ==
  ASSUME ConfigInv, NEW i \in Cfg!Models, NEW how, Cfg!SetsMode(i, "night", how) PROVE ConfigInv'
<1> DEFINE patch == [Cfg!NoPatch EXCEPT ![i] = "night"]
           meant == [Cfg!Meant(m) EXCEPT !.mode[i] = "night"]
           mode == [Cfg!Meant(m).mode EXCEPT ![i] = "night"]
<1>1. Cfg!Base(m) = Cfg!Meant(m) /\ Cfg!Meant(m) \in Cfg!Content
  BY BaseIsMeant DEF ConfigInv
<1>2. m' = Cfg!Write(m, Cfg!Meant(m), patch, meant, how)
  BY <1>1 DEF Cfg!SetsMode
<1>3. /\ patch \in [Cfg!Models -> {"keep", "night"}]
      /\ \A j \in Cfg!Models : patch[j] = IF j = i THEN "night" ELSE "keep"
  BY DEF Cfg!NoPatch
<1>4. Cfg!Meant(m).mode \in [Cfg!Models -> {"norecord", "unset", "day", "night"}]
  BY <1>1 DEF Cfg!Content
<1>5. /\ mode \in [Cfg!Models -> {"norecord", "unset", "day", "night"}]
      /\ \A j \in Cfg!Models : mode[j] = IF j = i THEN "night" ELSE Cfg!Meant(m).mode[j]
  BY <1>4
<1>6. meant = [Cfg!Meant(m) EXCEPT !.mode = mode]
  OBVIOUS
<1> HIDE DEF meant, patch, mode
<1>7. \A j \in Cfg!Models : mode[j] = IF patch[j] = "keep" THEN Cfg!Meant(m).mode[j] ELSE patch[j]
  BY <1>3, <1>5
<1>8. Cfg!Written(m, Cfg!Meant(m), patch) = meant
  BY <1>1, <1>3, <1>5, <1>6, <1>7, WrittenIsMeant DEF ConfigInv
<1>9. meant \in Cfg!Content
  BY <1>1, <1>5, <1>6, FieldsAreFree, Zenon
<1>10. DOMAIN m' = ConfigFields /\ (Untouched(m, m') \/ Forgotten(m, m') \/ Replaced(m, m', meant))
  BY <1>2, <1>8, <1>9, WriteDoes DEF ConfigInv
<1> QED
  BY <1>10, ConfigKept

LEMMA RetryKeeps ==
  ASSUME ConfigInv, NEW running \in BOOLEAN, NEW how, Cfg!RetryEnds(running, how) PROVE ConfigInv'
<1> DEFINE q == [m EXCEPT !.retry = 0]
           s == [q EXCEPT !.writes = @ + 1]
           f == IF Cfg!Readable(m.file) THEN m.file ELSE Cfg!Default
           t == [m.truth EXCEPT !.port = m.retry]
<1>1. /\ DOMAIN q = ConfigFields /\ Untouched(m, q) /\ DOMAIN s = ConfigFields /\ Untouched(m, s)
      /\ Cfg!Dropped(s, how) = [s EXCEPT !.cache = Cfg!Nothing, !.edited = FALSE]
  BY DEF ConfigInv, ConfigFields, Untouched, Held, Cfg!Dropped
<1>2. f = m.truth
  BY ContentIsReadable DEF ConfigInv, FileInv, Cfg!Readable
<1>3. t \in Cfg!Content
  <2>1. m.retry = 1 \/ m.retry = 2
    BY DEF Cfg!RetryEnds, ConfigInv, FileInv
  <2> QED
    BY <2>1, FieldsAreFree, Zenon DEF ConfigInv, FileInv
<1>4. m' = CASE ~running -> q
             [] running /\ how = "temp"   -> s
             [] running /\ how = "rename" -> Cfg!Dropped(s, how)
             [] OTHER -> [Cfg!Dropped(s, how) EXCEPT !.file = t, !.truth = t]
  BY <1>2, Zenon DEF Cfg!RetryEnds
<1> HIDE DEF t, f, s, q
<1>5. CASE ~running
  BY <1>1, <1>4, <1>5, ConfigKept
<1>6. CASE running /\ how = "temp"
  BY <1>1, <1>4, <1>6, ConfigKept
<1>7. CASE running /\ how = "rename"
  <2>1. m' = [s EXCEPT !.cache = Cfg!Nothing, !.edited = FALSE]
    BY <1>1, <1>4, <1>7
  <2>2. DOMAIN m' = ConfigFields /\ Forgotten(m, m')
    BY <1>1, <2>1 DEF Forgotten, Untouched, Held, ConfigFields
  <2> QED
    BY <2>2, ConfigKept
<1>8. CASE running /\ how \notin {"temp", "rename"}
  <2>1. m' = [s EXCEPT !.cache = Cfg!Nothing, !.edited = FALSE, !.file = t, !.truth = t]
    BY <1>1, <1>4, <1>8
  <2>2. DOMAIN m' = ConfigFields /\ Replaced(m, m', t)
    BY <1>1, <1>3, <2>1 DEF Replaced, Untouched, Held, ConfigFields
  <2> QED
    BY <2>2, ConfigKept
<1> QED
  BY <1>5, <1>6, <1>7, <1>8

\* The whole list, on or off, over a reading made after the wait.

LEMMA BulkKeeps ==
  ASSUME ConfigInv, NEW q, DOMAIN q = ConfigFields, Untouched(m, q), q.listed \subseteq Cfg!Models,
         NEW on \in BOOLEAN, NEW how
  PROVE  LET s == Cfg!Bulk(q, on, Cfg!Stored(q.file), how)
         IN /\ DOMAIN s = ConfigFields
            /\ \E f : Untouched(m, s) \/ Forgotten(m, s) \/ Replaced(m, s, f)
<1> DEFINE d == IF on THEN Cfg!Retired ELSE Cfg!All(Cfg!Meant(m), q.listed)
           u == [Cfg!Meant(m) EXCEPT !.disabled = d]
           w == Cfg!Write(q, u, Cfg!NoPatch, u, how)
           s == Cfg!Bulk(q, on, Cfg!Stored(q.file), how)
           listed == Cfg!Fallback(Cfg!Fresh(w))
<1>1. Cfg!Base(m) = Cfg!Meant(m) /\ Cfg!Meant(m) \in Cfg!Content
  BY BaseIsMeant DEF ConfigInv
<1>2. /\ q.file = m.file /\ Cfg!Base(q) = Cfg!Meant(m) /\ Cfg!Meant(q) = Cfg!Meant(m)
      /\ Cfg!Stored(q.file) = Cfg!Meant(m)
  BY <1>1 DEF Untouched, Held, Cfg!Base, Cfg!Meant
<1>3. s = IF how = "none" /\ q.listed = {} THEN [w EXCEPT !.listed = listed] ELSE w
  BY <1>2 DEF Cfg!Bulk
<1>4. d \in SUBSET Cfg!Models
  <2>1. Cfg!Meant(m).disabled \subseteq Cfg!Models
    BY <1>1 DEF Cfg!Content
  <2> QED
    BY <2>1 DEF Cfg!All, Cfg!Fallback, Cfg!Retired, Cfg!Configured, Cfg!Models
<1> HIDE DEF d, w, s, listed
<1>5. u \in Cfg!Content
  BY <1>1, <1>4, FieldsAreFree, Zenon
<1>6. u.other = Cfg!Meant(m).other /\ u.mode = Cfg!Meant(m).mode
  BY <1>1 DEF Cfg!Content
<1> HIDE DEF u
<1>7. Cfg!Written(q, u, Cfg!NoPatch) = u
  BY <1>2, <1>5, <1>6, NothingElseIsWritten DEF ConfigInv
<1>8. DOMAIN w = ConfigFields /\ (Untouched(q, w) \/ Forgotten(q, w) \/ Replaced(q, w, u))
  BY <1>5, <1>7, WriteDoes DEF w
<1>9. listed \subseteq Cfg!Models
  <2>1. w.file = m.file \/ w.file = u
    BY <1>2, <1>8 DEF Untouched, Forgotten, Replaced
  <2>2. \A v \in Cfg!Content : Cfg!Fallback(v) \subseteq Cfg!Models
    BY DEF Cfg!Fallback, Cfg!Configured, Cfg!Models, Cfg!Content
  <2>3. CASE w.file = m.file
    BY <1>1, <1>2, <2>2, <2>3 DEF listed, Cfg!Fresh
  <2>4. CASE w.file = u
    <3>1. Cfg!Stored(u).disabled = u.disabled \/ Cfg!Stored(u) = Cfg!Default
      BY <1>5 DEF Cfg!Stored, Cfg!Content
    <3>2. Cfg!Stored(u).disabled \subseteq Cfg!Models
      BY <1>5, <3>1, DefaultIsContent DEF Cfg!Content
    <3> QED
      BY <2>4, <3>2 DEF listed, Cfg!Fresh, Cfg!Fallback, Cfg!Configured, Cfg!Models
  <2> QED
    BY <2>1, <2>3, <2>4
<1>10. /\ DOMAIN s = ConfigFields /\ s.file = w.file /\ s.truth = w.truth /\ s.cache = w.cache
       /\ s.edited = w.edited /\ s.retry = w.retry
       /\ s.listed = w.listed \/ s.listed \subseteq Cfg!Models
  BY <1>3, <1>8, <1>9 DEF ConfigFields
<1>11. Untouched(m, s) \/ Forgotten(m, s) \/ Replaced(m, s, u)
  BY <1>8, <1>10 DEF Untouched, Forgotten, Replaced, Held
<1> QED
  BY <1>10, <1>11 DEF s

LEMMA OutsideKeeps ==
  ASSUME ConfigInv, NEW f \in {Cfg!Garbled, Cfg!Absent, Cfg!Hand}, Cfg!Outside(f) PROVE ConfigInv'
<1>1. /\ DOMAIN m' = ConfigFields /\ m'.file = f /\ m'.retry = m.retry /\ m'.cache = m.cache
      /\ m'.listed = m.listed
      /\ m'.truth = IF Cfg!Readable(f) THEN f ELSE Cfg!Default
  BY DEF ConfigInv, ConfigFields, Cfg!Outside
<1>2. m'.cache # Cfg!Nothing => m'.edited
  BY Zenon DEF ConfigInv, ConfigFields, Cfg!Outside
<1>3. Cfg!Hand \in Cfg!Content /\ Cfg!Default \in Cfg!Content /\ Cfg!Readable(Cfg!Hand)
  BY HandIsContent, DefaultIsContent, ContentIsReadable
<1>4. ~Cfg!Readable(Cfg!Garbled) /\ ~Cfg!Readable(Cfg!Absent)
  BY DEF Cfg!Readable
<1>5. Cfg!Garbled \notin Cfg!Content /\ Cfg!Absent \notin Cfg!Content
  BY <1>4, ContentIsReadable
<1> QED
  BY <1>1, <1>2, <1>3, <1>4, <1>5 DEF ConfigInv, FileInv, Cfg!CacheIsCurrent

LEMMA LaunchesKeeps == ConfigInv /\ Cfg!Launches => ConfigInv'
<1> SUFFICES ASSUME ConfigInv, Cfg!Launches PROVE ConfigInv'
  OBVIOUS
<1>1. /\ DOMAIN m' = ConfigFields /\ m'.retry = 0 /\ m'.listed = {} /\ m'.truth = m.truth
      /\ m'.cache = Cfg!Nothing
      /\ m'.file = IF m.file = Cfg!Absent THEN Cfg!Default ELSE m.file
  BY DEF ConfigInv, ConfigFields, Cfg!Launches
<1>2. m.file = Cfg!Absent => m.truth = Cfg!Default
  BY ContentIsReadable DEF ConfigInv, FileInv, Cfg!Readable
<1> QED
  BY <1>1, <1>2, DefaultIsContent DEF ConfigInv, FileInv, Cfg!CacheIsCurrent

LEMMA AsksKeeps == ASSUME ConfigInv, NEW what, Cfg!Asks(what) PROVE ConfigInv'
<1>1. DOMAIN m' = ConfigFields /\ Untouched(m, m')
  BY DEF ConfigInv, ConfigFields, Cfg!Asks, Untouched, Held
<1> QED
  BY <1>1, ConfigKept

LEMMA RetriesKeeps == ASSUME ConfigInv, NEW port \in {1, 2}, Cfg!Retries(port) PROVE ConfigInv'
<1>1. /\ DOMAIN m' = ConfigFields /\ m'.retry = port /\ m'.listed = m.listed /\ m'.file = m.file
      /\ m'.truth = m.truth /\ m'.cache = m.cache /\ m'.edited = m.edited
  BY DEF ConfigInv, ConfigFields, Cfg!Retries
<1> QED
  BY <1>1 DEF ConfigInv, FileInv, Cfg!CacheIsCurrent

LEMMA BulkNowKeeps ==
  ASSUME ConfigInv, NEW on \in BOOLEAN, NEW how, Cfg!BulkNow(on, how) PROVE ConfigInv'
<1>1. m' = Cfg!Bulk(m, on, Cfg!Stored(m.file), how)
  BY DEF Cfg!BulkNow
<1>2. DOMAIN m' = ConfigFields /\ \E f : Untouched(m, m') \/ Forgotten(m, m') \/ Replaced(m, m', f)
  BY <1>1, BulkKeeps DEF ConfigInv, FileInv, Untouched, Held
<1> QED
  BY <1>2, ConfigKept

LEMMA AnsweredKeeps ==
  ASSUME ConfigInv, NEW up \in BOOLEAN, NEW how, Cfg!Answered(up, how) PROVE ConfigInv'
<1> DEFINE q == [m EXCEPT !.asking = "none",
                          !.listed = IF up THEN {"known", "listed"} ELSE m.listed]
           s == [q EXCEPT !.seen = Cfg!Nothing]
           t == Cfg!Bulk(q, m.asking = "on", Cfg!Stored(q.file), how)
<1>1. /\ DOMAIN q = ConfigFields /\ Untouched(m, q) /\ q.listed \subseteq Cfg!Models
      /\ DOMAIN s = ConfigFields /\ Untouched(m, s)
  BY DEF ConfigInv, FileInv, ConfigFields, Untouched, Held, Cfg!Models
<1>2. m' = IF m.asking = "list" THEN s ELSE [t EXCEPT !.seen = Cfg!Nothing]
  BY DEF Cfg!Answered, Cfg!Fresh
<1> HIDE DEF q, s
<1>3. PICK f : DOMAIN t = ConfigFields /\ (Untouched(m, t) \/ Forgotten(m, t) \/ Replaced(m, t, f))
  BY <1>1, BulkKeeps, Zenon
<1> HIDE DEF t
<1>4. CASE m.asking = "list"
  BY <1>1, <1>2, <1>4, ConfigKept
<1>5. CASE m.asking # "list"
  <2>1. m' = [t EXCEPT !.seen = Cfg!Nothing]
    BY <1>2, <1>5
  <2>2. /\ DOMAIN m' = ConfigFields /\ m'.retry = t.retry /\ m'.listed = t.listed
        /\ m'.file = t.file
        /\ m'.truth = t.truth /\ m'.cache = t.cache /\ m'.edited = t.edited
    BY <1>3, <2>1 DEF ConfigFields
  <2>3. Untouched(m, m') \/ Forgotten(m, m') \/ Replaced(m, m', f)
    BY <1>3, <2>2 DEF Untouched, Forgotten, Replaced, Held
  <2> QED
    BY <2>2, <2>3, ConfigKept
<1> QED
  BY <1>4, <1>5

LEMMA ConfigStep == ConfigInv /\ [Cfg!Next]_m => ConfigInv'
<1> SUFFICES ASSUME ConfigInv, [Cfg!Next]_m PROVE ConfigInv'
  OBVIOUS
<1>1. CASE UNCHANGED m
  BY <1>1 DEF ConfigInv, FileInv, Cfg!CacheIsCurrent
<1>2. CASE Cfg!Next
  BY <1>2, ReadsKeeps, LaunchesKeeps, AsksKeeps, RetriesKeeps, OutsideKeeps, LanguageKeeps,
     DeadlineKeeps, RetryKeeps, ModeKeeps, TogglesKeeps, BulkNowKeeps, AnsweredKeeps DEF Cfg!Next
<1> QED
  BY <1>1, <1>2

LEMMA ConfigExact == ConfigInv => Cfg!ConfigIsKept
  BY ContentIsReadable DEF ConfigInv, FileInv, Cfg!ConfigIsKept, Cfg!WritersKeepTheRest,
     Cfg!Readable

-----------------------------------------------------------------------------
(* The migration in the desktop process *)

\* For any number of faults, crashes and edits: a file the run changed has its original in
\* a backup the journal on disk names, a first run that fails puts every file back, and
\* one that succeeds has done everything (final-migration-workflow.ts).
THEOREM MigrationKept == Spec => []MigrationIsAtomic
<1> DEFINE I == part = "mig" => MigInv
<1>1. Init => I
  BY MigStart DEF Init
<1>2. I /\ [Next]_vars => I'
  BY MigStep DEF Next, Of, vars
<1>3. I => MigrationIsAtomic
  BY MigMeaning DEF MigrationIsAtomic
<1> QED
  BY <1>1, <1>2, <1>3, PTL DEF Spec

\* For the same histories: no write of the run or of its compensation brings back an
\* older version of a file, and a success keeps what the child reported meanwhile.
THEOREM EditsStayReportsStay == Spec => EditsAndReportsKept
<1> DEFINE I == part = "mig" => MigInv
           A == part = "mig" => /\ \A f \in Mig!Files : m'.file[f].ver >= m.file[f].ver
                                /\ m.buffer = "reported" /\ m'.pc = "success" => m'.disk.told
<1>1. Init => I
  BY MigStart DEF Init
<1>2. I /\ [Next]_vars => I'
  BY MigStep DEF Next, Of, vars
<1>3. I /\ [Next]_vars => [A]_vars
  BY GoesForward, SuccessTells DEF Next, Of, vars, Forward
<1> QED
  BY <1>1, <1>2, <1>3, PTL DEF Spec, EditsAndReportsKept

\* For any history of writers, failed writes and edits from outside: the file holds what was
\* last meant, each writer having changed its own field only, and the cached reading is of it
\* (gateway-runtime.ts, models-ipc.ts).
THEOREM ConfigsKept == Spec => [](part = "config" => Cfg!ConfigIsKept)
<1> DEFINE I == part = "config" => ConfigInv
<1>1. Init => I
  BY ConfigStart DEF Init
<1>2. I /\ [Next]_vars => I'
  BY ConfigStep DEF Next, Of, vars
<1>3. I => (part = "config" => Cfg!ConfigIsKept)
  BY ConfigExact
<1> QED
  BY <1>1, <1>2, <1>3, PTL DEF Spec
=============================================================================

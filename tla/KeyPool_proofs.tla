---------------------------- MODULE KeyPool_proofs ----------------------------
(***************************************************************************)
(* Proofs about KeyPool, for every set of keys, models and requests and    *)
(* every choice of the windows: type correctness, the three facts that     *)
(* make automatic penalties temporary and operator disables permanent, the *)
(* bounds on windows and cooldowns, and that selection never strands a     *)
(* request.                                                                *)
(***************************************************************************)
EXTENDS KeyPool, FiniteSetTheorems, TLAPS

\* What a record must look like when the administrator's last word on it is i.
RecordOK(r, i) ==
  /\ Held(r) <=> i = "disabled"
  /\ Held(r) <=> r.prov # "none"
  /\ r.status = "disabled" /\ r.marker = "auth" => r.backoff > 0

\* The inductive invariant: the records of the pool, and the record a failed
\* mutation would put back, agree with the administrator's last word.
IInv ==
  /\ TypeOK
  /\ \A k \in pool : RecordOK(keys[k], intent[k])
  /\ mut # NoMut /\ mut.op # "add" => RecordOK(mut.rec, mut.intent)

-----------------------------------------------------------------------------
(* The pure rules *)

\* A park window is a whole number of milliseconds and never empty.
LEMMA WindowPositive ==
  ASSUME NEW base \in Nat \ {0}, NEW max \in Nat, base <= max, NEW n \in Nat
  PROVE  RetryWindow(base, max, n) \in Nat /\ RetryWindow(base, max, n) > 0
<1>1. CASE base * 2^n \in base .. max
  BY <1>1 DEF RetryWindow
<1>2. CASE base * 2^n \notin base .. max
  BY <1>2 DEF RetryWindow
<1>. QED  BY <1>1, <1>2

\* The sweep maps records to records and never changes whose word holds them.
LEMMA ReclaimedOK ==
  ASSUME KeyPoolAssumption, now \in Nat, NEW r \in KeyRecord
  PROVE  /\ Reclaimed(r) \in KeyRecord
         /\ \A i : RecordOK(r, i) => RecordOK(Reclaimed(r), i)
<1>1. ClampMax(r) \in Nat /\ (r.marker = "auth" => ClampMax(r) > 0)
  BY DEF ClampMax, KeyPoolAssumption, KeyRecord
<1>2. Clamped(r) \in KeyRecord
  BY <1>1 DEF Clamped, KeyRecord
<1>3. \A i : RecordOK(r, i) => RecordOK(Clamped(r), i)
  BY <1>1 DEF Clamped, KeyRecord, RecordOK, Held
<1>. DEFINE c == Clamped(r)
<1>. HIDE DEF c
<1>4. \A p : WithoutAdmin(p) = IF p = "admin" THEN "none" ELSE p
  BY DEF WithoutAdmin
<1>5. CASE QuotaDue(c)
  <2>1. Reclaimed(r) = [c EXCEPT !.status = "active", !.backoff = 0,
                                 !.prov = WithoutAdmin(@)]
    BY <1>5 DEF Reclaimed, QuotaDue, AuthDue, c
  <2>2. Reclaimed(r) = [status |-> "active", backoff |-> 0, marker |-> c.marker,
                        prov |-> WithoutAdmin(c.prov)]
    BY <1>2, <2>1 DEF KeyRecord, c
  <2>3. WithoutAdmin(c.prov) \in {"none", "legacy"}
    BY <1>2, <1>4 DEF KeyRecord, c
  <2>4. Reclaimed(r) \in KeyRecord
    BY <1>2, <2>2, <2>3 DEF KeyRecord, Statuses, c
  <2>5. ASSUME NEW i, RecordOK(r, i) PROVE RecordOK(Reclaimed(r), i)
    <3>1. i # "disabled" /\ c.prov = "none"
      BY <1>3, <1>5, <2>5 DEF RecordOK, Held, QuotaDue, c
    <3>. QED  BY <1>4, <2>2, <3>1 DEF RecordOK, Held
  <2>. QED  BY <2>4, <2>5
<1>6. CASE ~QuotaDue(c) /\ AuthDue(c)
  <2>1. Reclaimed(r) = [c EXCEPT !.status = "active", !.backoff = 0,
                                 !.marker = "none", !.prov = WithoutAdmin(@)]
    BY <1>6 DEF Reclaimed, c
  <2>2. Reclaimed(r) = [status |-> "active", backoff |-> 0, marker |-> "none",
                        prov |-> WithoutAdmin(c.prov)]
    BY <1>2, <2>1 DEF KeyRecord, c
  <2>3. WithoutAdmin(c.prov) \in {"none", "legacy"}
    BY <1>2, <1>4 DEF KeyRecord, c
  <2>4. Reclaimed(r) \in KeyRecord
    BY <2>2, <2>3 DEF KeyRecord, Statuses
  <2>5. ASSUME NEW i, RecordOK(r, i) PROVE RecordOK(Reclaimed(r), i)
    <3>1. i # "disabled" /\ c.prov = "none"
      BY <1>3, <1>6, <2>5 DEF RecordOK, Held, AuthDue, c
    <3>. QED  BY <1>4, <2>2, <3>1 DEF RecordOK, Held
  <2>. QED  BY <2>4, <2>5
<1>7. CASE ~QuotaDue(c) /\ ~AuthDue(c)
  <2>1. Reclaimed(r) = c
    BY <1>7 DEF Reclaimed, c
  <2>. QED  BY <1>2, <1>3, <2>1 DEF c
<1>. QED  BY <1>5, <1>6, <1>7

\* The sweep keeps the typing and the holds of every key.
LEMMA SweptOK ==
  ASSUME KeyPoolAssumption, TypeOK
  PROVE  /\ Swept \in [Keys -> KeyRecord]
         /\ \A k \in pool : \A i : RecordOK(keys[k], i) => RecordOK(Swept[k], i)
<1>1. \A k \in Keys : keys[k] \in KeyRecord
  BY DEF TypeOK
<1>2. \A k \in Keys : Swept[k] = IF k \in pool THEN Reclaimed(keys[k]) ELSE keys[k]
  BY DEF Swept
<1>. QED  BY <1>1, <1>2, ReclaimedOK DEF TypeOK, Swept

\* Selection answers with an active key of the pool.
LEMMA ChoiceActive ==
  ASSUME NEW s, NEW m, NEW excluded, NEW k \in Choice(s, m, excluded), TypeOK
  PROVE  k \in pool /\ k \in Keys /\ s[k].status = "active"
<1>1. \A S : LeastRecentlyUsed(S) \subseteq S
  BY DEF LeastRecentlyUsed
<1>. DEFINE C == IF m = NoModel THEN {} ELSE Eligible(s, m) \ excluded
<1>2. C \subseteq {j \in Keys : j \in pool /\ s[j].status = "active"}
  BY DEF Eligible, GloballyAvailable
<1>3. AffineChoice(C, m) \subseteq C
  BY <1>1 DEF AffineChoice
<1>4. PoolChoice(s, excluded) \subseteq {j \in Keys : j \in pool /\ s[j].status = "active"}
  BY <1>1 DEF PoolChoice, GloballyAvailable, TypeOK
<1>5. k \in AffineChoice(C, m) \cup PoolChoice(s, excluded)
  BY DEF Choice
<1>. QED  BY <1>2, <1>3, <1>4, <1>5

-----------------------------------------------------------------------------
(* One lemma per kind of step: it preserves the inductive invariant *)

\* A quota verdict keeps only the marker of the record it parks.
LEMMA QuotaRecord ==
  ASSUME NEW r \in KeyRecord, NEW until \in Nat, NEW q,
         q = [r EXCEPT !.status = "quota-exceeded", !.prov = "none", !.backoff = until]
  PROVE  q = [status |-> "quota-exceeded", marker |-> r.marker, prov |-> "none",
              backoff |-> until]
  BY DEF KeyRecord

\* A request's results, penalties and successes preserve the invariant.
LEMMA RequestSteps ==
  ASSUME KeyPoolAssumption, IInv, NEW r \in Requests, NEW k \in Keys, Verdict(r, k)
  PROVE  IInv'
<1>. USE DEF IInv
<1>1. now \in Nat /\ keys[k] \in KeyRecord /\ authFails[k] \in Nat /\ quotaFails[k] \in Nat
  BY DEF TypeOK
<1>2. UNCHANGED <<now, pool, issued, mut, intent>> /\ Outcome(r, k)
  BY DEF Verdict, AuthVerdict, QuotaVerdict, ModelRateLimit, ShortBackoff,
         CountedFailure, Success, Outcome
<1>3. newer' \in [Keys -> SUBSET Keys] /\ flight' \in [Requests -> Flights]
  BY <1>2 DEF TypeOK, Outcome, Touch, Flights, Idle
<1>4. CASE AuthVerdict(r, k)
  <2>1. RetryWindow(AuthBase, AuthMax, authFails[k]) \in Nat \ {0}
    BY <1>1, WindowPositive DEF KeyPoolAssumption
  <2>. DEFINE rec == [status |-> "disabled", marker |-> "auth", prov |-> "none",
                      backoff |-> now + RetryWindow(AuthBase, AuthMax, authFails[k])]
  <2>2. keys' = [keys EXCEPT ![k] = rec] /\ UNCHANGED <<quotaFails, pins, cool>>
    BY <1>4 DEF AuthVerdict
  <2>3. rec \in KeyRecord
    BY <1>1, <2>1 DEF KeyRecord, Statuses
  <2>4. k \in pool /\ ~Held(keys[k])
    BY <1>4 DEF AuthVerdict, Penalizable
  <2>5. RecordOK(rec, intent[k])
    BY <1>1, <2>1, <2>4 DEF RecordOK, Held
  <2>6. authFails' \in [Keys -> Nat]
    BY <1>1, <1>4 DEF AuthVerdict, TypeOK
  <2>. HIDE DEF rec
  <2>. QED  BY <1>2, <1>3, <2>2, <2>3, <2>5, <2>6 DEF TypeOK
<1>5. CASE QuotaVerdict(r, k)
  <2>1. RetryWindow(QuotaBase, QuotaMax, quotaFails[k]) \in Nat
    BY <1>1, WindowPositive DEF KeyPoolAssumption
  <2>. DEFINE until == now + RetryWindow(QuotaBase, QuotaMax, quotaFails[k])
              rec == [keys[k] EXCEPT !.status = "quota-exceeded", !.prov = "none",
                                     !.backoff = until]
  <2>2. keys' = [keys EXCEPT ![k] = rec]
    BY <1>5 DEF QuotaVerdict, TypeOK
  <2>3. until \in Nat
    BY <1>1, <2>1
  <2>. HIDE DEF until
  <2>4. rec = [status |-> "quota-exceeded", marker |-> keys[k].marker,
               prov |-> "none", backoff |-> until]
    BY <1>1, <2>3, QuotaRecord
  <2>. HIDE DEF rec
  <2>5. rec \in KeyRecord
    BY <1>1, <2>3, <2>4 DEF KeyRecord, Statuses
  <2>6. keys'[k] = rec /\ keys' \in [Keys -> KeyRecord]
    BY <2>2, <2>5 DEF TypeOK
  <2>7. k \in pool /\ ~Held(keys[k])
    BY <1>5 DEF QuotaVerdict, Penalizable
  <2>8. RecordOK(keys'[k], intent[k])
    BY <2>4, <2>6, <2>7 DEF RecordOK, Held
  <2>9. quotaFails' \in [Keys -> Nat] /\ UNCHANGED <<authFails, pins, cool>>
    BY <1>1, <1>5 DEF QuotaVerdict, TypeOK
  <2>10. \A j \in Keys \ {k} : keys'[j] = keys[j]
    BY <2>2 DEF TypeOK
  <2>. QED  BY <1>2, <1>3, <2>8, <2>9, <2>6, <2>10 DEF TypeOK
<1>6. ASSUME NEW d \in ShortBackoffs, ModelRateLimit(r, k, d) PROVE IInv'
  <2>1. cool' \in [Models -> [Keys -> Nat]]
    <3>. DEFINE m == flight[r].model
    <3>1. now + d \in Nat
      BY <1>1 DEF KeyPoolAssumption
    <3>2. cool' = [cool EXCEPT ![m][k] = now + d]
      BY <1>6 DEF ModelRateLimit
    <3>3. m \in Models
      BY <1>6 DEF ModelRateLimit, TypeOK, Flights
    <3>. QED  BY <3>1, <3>2, <3>3 DEF TypeOK
  <2>. QED  BY <1>2, <1>3, <1>6, <2>1 DEF ModelRateLimit, TypeOK
<1>7. ASSUME NEW d \in ShortBackoffs, ShortBackoff(r, k, d) PROVE IInv'
  <2>1. now + d \in Nat /\ now + d > 0
    <3>1. MaxBackoff \in Nat /\ d \in 1 .. MaxBackoff
      BY DEF KeyPoolAssumption
    <3>. QED  BY <1>1, <3>1
  <2>2. keys' = [keys EXCEPT ![k].backoff = now + d] /\ UNCHANGED <<quotaFails, authFails, pins, cool>>
    BY <1>7 DEF ShortBackoff
  <2>3. keys'[k] \in KeyRecord /\ keys' \in [Keys -> KeyRecord]
    BY <1>1, <2>1, <2>2 DEF KeyRecord, TypeOK
  <2>4. /\ keys'[k].status = keys[k].status /\ keys'[k].marker = keys[k].marker
        /\ keys'[k].prov = keys[k].prov /\ keys'[k].backoff > 0
    BY <1>1, <2>1, <2>2 DEF TypeOK, KeyRecord
  <2>5. \A j \in Keys \ {k} : keys'[j] = keys[j]
    BY <2>2 DEF TypeOK
  <2>6. \A i : RecordOK(keys[k], i) => RecordOK(keys'[k], i)
    BY <2>4 DEF RecordOK, Held
  <2>. QED  BY <1>2, <1>3, <2>2, <2>3, <2>5, <2>6 DEF TypeOK
<1>8. CASE CountedFailure(r, k)
  BY <1>2, <1>3, <1>8 DEF CountedFailure, TypeOK
<1>9. CASE Success(r, k)
  <2>1. quotaFails' \in [Keys -> Nat] /\ authFails' \in [Keys -> Nat]
    BY <1>9 DEF Success, TypeOK
  <2>2. pins' \in [Models -> Pins]
    BY <1>1, <1>9 DEF Success, TypeOK, Pins
  <2>. QED  BY <1>2, <1>3, <1>9, <2>1, <2>2 DEF Success, TypeOK
<1>. QED  BY <1>4, <1>5, <1>6, <1>7, <1>8, <1>9 DEF Verdict

\* Selection and the sweep preserve the invariant.
LEMMA SelectionSteps ==
  ASSUME KeyPoolAssumption, IInv, NEW m \in Models \cup {NoModel},
         \/ SweepOnly(m)
         \/ \E r \in Requests, excluded \in SUBSET Keys : Select(r, m, excluded)
  PROVE  IInv'
<1>. USE DEF IInv
<1>1. /\ Swept \in [Keys -> KeyRecord]
      /\ \A k \in pool : RecordOK(Swept[k], intent[k])
  BY SweptOK
<1>2. \A s : m # NoModel => [cool EXCEPT ![m] = CoolSeen(s, m)] \in [Models -> [Keys -> Nat]]
  <2>. SUFFICES ASSUME NEW s, m \in Models
                PROVE  CoolSeen(s, m) \in [Keys -> Nat]
    BY DEF TypeOK
  <2>1. now \in Nat /\ MaxBackoff \in Nat /\ cool[m] \in [Keys -> Nat]
    BY DEF TypeOK, KeyPoolAssumption
  <2>. QED  BY <2>1 DEF CoolSeen
<1>3. CASE SweepOnly(m)
  BY <1>1, <1>2, <1>3 DEF SweepOnly, TypeOK
<1>4. ASSUME NEW r \in Requests, NEW excluded \in SUBSET Keys, Select(r, m, excluded)
      PROVE  IInv'
  <2>1. PICK k \in Choice(Swept, m, excluded) :
          /\ keys' = [Swept EXCEPT ![k].backoff = IF Swept[k].backoff > now THEN 0 ELSE @]
          /\ flight' = [flight EXCEPT ![r] = [key |-> k, model |-> m]]
          /\ Touch(k)
    BY <1>4 DEF Select
  <2>2. k \in pool /\ k \in Keys /\ Swept[k].status = "active"
    BY <2>1, ChoiceActive
  <2>3. UNCHANGED <<now, pool, issued, quotaFails, authFails, mut, intent>>
    BY <1>4 DEF Select
  <2>4. /\ keys' \in [Keys -> KeyRecord]
        /\ \A j \in Keys \ {k} : keys'[j] = Swept[j]
        /\ keys'[k].status = "active" /\ keys'[k].marker = Swept[k].marker
        /\ keys'[k].prov = Swept[k].prov
    <3>1. Swept[k] \in KeyRecord
      BY <1>1, <2>2
    <3>. QED  BY <1>1, <2>1, <2>2, <3>1 DEF KeyRecord
  <2>5. RecordOK(keys'[k], intent[k])
    BY <1>1, <2>2, <2>4 DEF RecordOK, Held
  <2>6. newer' \in [Keys -> SUBSET Keys] /\ flight' \in [Requests -> Flights]
    BY <2>1, <2>2 DEF TypeOK, Touch, Flights
  <2>7. pins' \in [Models -> Pins]
    <3>1. \A o \in Models : PinSeen(pins[o]) \in Pins
      BY DEF TypeOK, PinSeen, Pins
    <3>. QED  BY <1>4, <3>1 DEF Select, PinsAfter, TypeOK
  <2>8. cool' \in [Models -> [Keys -> Nat]]
    BY <1>2, <1>4 DEF Select, TypeOK
  <2>. QED  BY <1>1, <2>3, <2>4, <2>5, <2>6, <2>7, <2>8 DEF TypeOK
<1>. QED  BY <1>3, <1>4

\* The beginning of a durable mutation preserves the invariant.
LEMMA MutationSteps ==
  ASSUME KeyPoolAssumption, IInv, NEW k \in Keys,
         AddKey(k) \/ RemoveKey(k) \/ (\E status \in Statuses : SetKeyStatus(k, status))
  PROVE  IInv'
<1>. USE DEF IInv
<1>1. now \in Nat /\ keys[k] \in KeyRecord /\ intent[k] \in Statuses
  BY DEF TypeOK
<1>2. UNCHANGED <<now, newer, flight>> /\ \E op \in {"add", "remove", "set"} :
        /\ mut' = SnapshotOf(op, k)
        /\ op # "add" => k \in pool
  BY DEF AddKey, RemoveKey, SetKeyStatus, Begin
<1>3. Fresh \in KeyRecord /\ RecordOK(Fresh, "active")
  BY DEF Fresh, KeyRecord, Statuses, RecordOK, Held
<1>4. NoPin \in Pins
  BY DEF NoPin, Pins
<1>5. \A op \in {"add", "remove", "set"} :
        /\ SnapshotOf(op, k) \in Snapshot
        /\ SnapshotOf(op, k).op = op
        /\ SnapshotOf(op, k).rec = keys[k] /\ SnapshotOf(op, k).intent = intent[k]
  BY <1>1, <1>4 DEF SnapshotOf, Snapshot, TypeOK
<1>6. /\ mut' \in {NoMut} \cup Snapshot
      /\ mut'.op # "add" => RecordOK(mut'.rec, mut'.intent)
  BY <1>2, <1>5
<1>7. CASE AddKey(k)
  BY <1>2, <1>3, <1>6, <1>7 DEF AddKey, TypeOK, Statuses
<1>8. CASE RemoveKey(k)
  <2>1. pins' \in [Models -> Pins] /\ cool' \in [Models -> [Keys -> Nat]]
    BY <1>4, <1>8 DEF RemoveKey, TypeOK
  <2>2. intent' \in [Keys -> Statuses] /\ keys' \in [Keys -> KeyRecord]
    BY <1>3, <1>8 DEF RemoveKey, TypeOK, Statuses
  <2>3. \A j \in pool' : j \in pool /\ keys'[j] = keys[j] /\ intent'[j] = intent[j]
    BY <1>8 DEF RemoveKey, TypeOK
  <2>. QED  BY <1>2, <1>6, <1>8, <2>1, <2>2, <2>3 DEF RemoveKey, TypeOK
<1>9. ASSUME NEW status \in Statuses, SetKeyStatus(k, status) PROVE IInv'
  <2>. DEFINE rec == AdminRecord(keys[k], status, quotaFails[k])
  <2>1. rec \in KeyRecord /\ RecordOK(rec, status)
    <3>1. CASE status = "active"
      BY <1>3, <3>1 DEF AdminRecord
    <3>2. CASE status = "disabled"
      <4>1. rec = [status |-> "disabled", backoff |-> 0, marker |-> "none",
                   prov |-> "admin"]
        BY <3>2 DEF AdminRecord, Disabled
      <4>. QED  BY <3>2, <4>1 DEF KeyRecord, Statuses, RecordOK, Held
    <3>3. CASE status = "quota-exceeded"
      <4>. DEFINE until == now + RetryWindow(QuotaBase, QuotaMax, quotaFails[k])
      <4>1. until \in Nat
        BY <1>1, WindowPositive DEF KeyPoolAssumption, TypeOK
      <4>2. rec = [keys[k] EXCEPT !.status = "quota-exceeded", !.prov = "none",
                                  !.backoff = until]
        BY <3>3 DEF AdminRecord
      <4>. HIDE DEF until, rec
      <4>3. rec = [status |-> "quota-exceeded", marker |-> keys[k].marker,
                   prov |-> "none", backoff |-> until]
        BY <1>1, <4>1, <4>2, QuotaRecord
      <4>. QED  BY <1>1, <3>3, <4>1, <4>3 DEF KeyRecord, Statuses, RecordOK, Held
    <3>. QED  BY <3>1, <3>2, <3>3 DEF Statuses
  <2>2. keys' = [keys EXCEPT ![k] = rec] /\ intent' = [intent EXCEPT ![k] = status]
    BY <1>9 DEF SetKeyStatus, TypeOK
  <2>3. quotaFails' \in [Keys -> Nat] /\ authFails' \in [Keys -> Nat]
    BY <1>9 DEF SetKeyStatus, TypeOK
  <2>. HIDE DEF rec
  <2>4. keys' \in [Keys -> KeyRecord] /\ intent' \in [Keys -> Statuses]
    BY <2>1, <2>2 DEF TypeOK
  <2>5. \A j \in pool : RecordOK(keys'[j], intent'[j])
    BY <2>1, <2>2 DEF TypeOK
  <2>. QED  BY <1>2, <1>6, <1>9, <2>3, <2>4, <2>5 DEF SetKeyStatus, TypeOK
<1>. QED  BY <1>7, <1>8, <1>9

\* The commit and the rollback of a durable mutation preserve the invariant.
LEMMA SettleSteps ==
  ASSUME KeyPoolAssumption, IInv, CommitMutation \/ RollbackMutation
  PROVE  IInv'
<1>. USE DEF IInv
<1>1. CASE CommitMutation
  BY <1>1 DEF CommitMutation, TypeOK
<1>2. CASE RollbackMutation
  <2>1. mut \in Snapshot
    BY <1>2 DEF RollbackMutation, TypeOK
  <2>2. /\ mut.key \in Keys /\ mut.rec \in KeyRecord /\ mut.intent \in Statuses
        /\ mut.quotaFails \in Nat /\ mut.authFails \in Nat
        /\ mut.pins \in [Models -> Pins] /\ mut.cool \in [Models -> Nat]
    BY <2>1 DEF Snapshot
  <2>3. /\ keys' \in [Keys -> KeyRecord] /\ intent' \in [Keys -> Statuses]
        /\ quotaFails' \in [Keys -> Nat] /\ authFails' \in [Keys -> Nat]
        /\ pool' \in SUBSET Keys
    <3>1. keys' = [keys EXCEPT ![mut.key] = mut.rec]
      BY <1>2 DEF RollbackMutation
    <3>2. intent' = [intent EXCEPT ![mut.key] = mut.intent]
      BY <1>2 DEF RollbackMutation
    <3>3. /\ quotaFails' = [quotaFails EXCEPT ![mut.key] = mut.quotaFails]
          /\ authFails' = [authFails EXCEPT ![mut.key] = mut.authFails]
      BY <1>2 DEF RollbackMutation
    <3>4. pool' \in SUBSET Keys
      BY <1>2, <2>2 DEF RollbackMutation, TypeOK
    <3>. QED  BY <2>2, <3>1, <3>2, <3>3, <3>4 DEF TypeOK
  <2>4. pins' \in [Models -> Pins] /\ cool' \in [Models -> [Keys -> Nat]]
    <3>1. CASE mut.op = "remove"
      <4>1. pins' = [m \in Models |-> IF mut.pins[m] # NoPin THEN mut.pins[m] ELSE pins[m]]
        BY <1>2, <3>1 DEF RollbackMutation
      <4>2. cool' = [m \in Models |->
                [cool[m] EXCEPT ![mut.key] = IF mut.cool[m] # 0 THEN mut.cool[m] ELSE @]]
        BY <1>2, <3>1 DEF RollbackMutation
      <4>3. pins' \in [Models -> Pins]
        BY <2>2, <4>1 DEF TypeOK
      <4>4. ASSUME NEW m \in Models
            PROVE  [cool[m] EXCEPT ![mut.key] = IF mut.cool[m] # 0 THEN mut.cool[m] ELSE @]
                     \in [Keys -> Nat]
        BY <2>2 DEF TypeOK
      <4>. QED  BY <4>2, <4>3, <4>4
    <3>2. CASE mut.op # "remove"
      BY <1>2, <3>2 DEF RollbackMutation, TypeOK
    <3>. QED  BY <3>1, <3>2
  <2>5. ASSUME NEW j \in pool' PROVE RecordOK(keys'[j], intent'[j])
    <3>1. CASE j = mut.key
      <4>1. mut.op # "add" /\ mut # NoMut
        BY <1>2, <2>5, <3>1 DEF RollbackMutation
      <4>2. keys'[j] = mut.rec /\ intent'[j] = mut.intent
        BY <1>2, <2>2, <3>1 DEF RollbackMutation, TypeOK
      <4>. QED  BY <4>1, <4>2
    <3>2. CASE j # mut.key
      BY <1>2, <2>5, <3>2 DEF RollbackMutation, TypeOK
    <3>. QED  BY <3>1, <3>2
  <2>. QED  BY <1>2, <2>3, <2>4, <2>5 DEF RollbackMutation, TypeOK
<1>. QED  BY <1>1, <1>2

\* The clock and a reload of the child preserve the invariant.
LEMMA ClockAndReloadSteps ==
  ASSUME KeyPoolAssumption, IInv, Tick \/ StepBack \/ Reload
  PROVE  IInv'
<1>. USE DEF IInv
<1>1. CASE Tick
  BY <1>1 DEF Tick, TypeOK
<1>2. CASE StepBack
  <2>1. now' \in Nat
    BY <1>2 DEF StepBack, TypeOK
  <2>. QED  BY <1>2, <2>1 DEF StepBack, TypeOK
<1>3. CASE Reload
  <2>1. ASSUME NEW r \in KeyRecord
        PROVE  /\ Loaded(r) \in KeyRecord
               /\ \A i : RecordOK(r, i) => RecordOK(Loaded(r), i)
    <3>. DEFINE b == IF Held(r) THEN 0 ELSE r.backoff
                p == IF r.prov = "admin" THEN "admin"
                     ELSE IF Held(r) THEN "legacy" ELSE "none"
    <3>1. Loaded(r) = [r EXCEPT !.backoff = b, !.prov = p]
      BY DEF Loaded
    <3>2. b \in Nat /\ p \in {"none", "admin", "legacy"}
      BY DEF KeyRecord
    <3>. HIDE DEF b, p
    <3>3. /\ Loaded(r).status = r.status /\ Loaded(r).marker = r.marker
          /\ Loaded(r).backoff = b /\ Loaded(r).prov = p
          /\ Loaded(r) \in KeyRecord
      BY <3>1, <3>2 DEF KeyRecord
    <3>. QED  BY <3>3 DEF RecordOK, Held, KeyRecord, b, p
  <2>2. /\ keys' \in [Keys -> KeyRecord]
        /\ \A k \in pool : RecordOK(keys'[k], intent[k])
    BY <1>3, <2>1 DEF Reload, TypeOK
  <2>3. pins' \in [Models -> Pins]
    <3>1. \A o \in Models : PinSeen(pins[o]) \in Pins /\ NoPin \in Pins
      BY DEF TypeOK, PinSeen, Pins, NoPin
    <3>. QED  BY <1>3, <3>1 DEF Reload
  <2>4. cool' \in [Models -> [Keys -> Nat]]
    BY <1>3 DEF Reload, TypeOK, KeyPoolAssumption
  <2>5. /\ quotaFails' \in [Keys -> Nat] /\ authFails' \in [Keys -> Nat]
        /\ flight' \in [Requests -> Flights]
    BY <1>3 DEF Reload, Flights, Idle
  <2>. QED  BY <1>3, <2>2, <2>3, <2>4, <2>5 DEF Reload, TypeOK
<1>. QED  BY <1>1, <1>2, <1>3

-----------------------------------------------------------------------------
(* The theorems *)

\* The invariant holds initially.
LEMMA InitOK ==
  ASSUME KeyPoolAssumption, Init
  PROVE  IInv
<1>. DEFINE start == {Fresh, Disabled("admin"), Disabled("legacy")}
<1>1. \A r \in start : r \in KeyRecord /\ RecordOK(r, r.status)
  BY DEF Fresh, Disabled, KeyRecord, Statuses, RecordOK, Held
<1>2. keys \in [Keys -> start]
  BY DEF Init
<1>. HIDE DEF start
<1>3. keys \in [Keys -> KeyRecord] /\ intent \in [Keys -> Statuses]
  BY <1>1, <1>2 DEF Init, KeyRecord
<1>4. \A k \in pool : RecordOK(keys[k], intent[k])
  BY <1>1, <1>2 DEF Init
<1>5. mut = NoMut
  BY DEF Init
<1>6. /\ pins \in [Models -> Pins] /\ flight \in [Requests -> Flights]
      /\ cool \in [Models -> [Keys -> Nat]] /\ newer \in [Keys -> SUBSET Keys]
  BY DEF Init, Pins, NoPin, Flights, Idle
<1>7. TypeOK
  BY <1>3, <1>5, <1>6 DEF Init, TypeOK
<1>. QED  BY <1>4, <1>5, <1>7 DEF IInv

\* Every step preserves the invariant.
LEMMA NextOK ==
  ASSUME KeyPoolAssumption, IInv, [Next]_vars
  PROVE  IInv'
<1>1. CASE \E r \in Requests, m \in Models \cup {NoModel}, excluded \in SUBSET Keys :
             Select(r, m, excluded)
  BY <1>1, SelectionSteps
<1>2. CASE \E m \in Models \cup {NoModel} : SweepOnly(m)
  BY <1>2, SelectionSteps
<1>3. CASE \E r \in Requests, k \in Keys : Verdict(r, k)
  BY <1>3, RequestSteps
<1>4. CASE \E k \in Keys : AddKey(k) \/ RemoveKey(k)
  BY <1>4, MutationSteps
<1>5. CASE \E k \in Keys, status \in Statuses : SetKeyStatus(k, status)
  BY <1>5, MutationSteps
<1>6. CASE CommitMutation \/ RollbackMutation
  BY <1>6, SettleSteps
<1>7. CASE Tick \/ StepBack \/ Reload
  BY <1>7, ClockAndReloadSteps
<1>8. CASE UNCHANGED vars
  BY <1>8 DEF vars, IInv, TypeOK
<1>. QED  BY <1>1, <1>2, <1>3, <1>4, <1>5, <1>6, <1>7, <1>8 DEF Next, Administer

\* Every reachable state satisfies the inductive invariant.
THEOREM Invariance == ASSUME KeyPoolAssumption PROVE Spec => []IInv
<1>1. Init => IInv
  BY InitOK
<1>2. IInv /\ [Next]_vars => IInv'
  BY NextOK
<1>. QED  BY <1>1, <1>2, PTL DEF Spec

\* The pool's state always has its type.
THEOREM TypeCorrect == ASSUME KeyPoolAssumption PROVE Spec => []TypeOK
<1>1. IInv => TypeOK
  BY DEF IInv
<1>. QED  BY <1>1, Invariance, PTL

\* Only an operator's disable is permanent, and no step of a request, a sweep, a
\* rollback or a reload undoes one (handleKeyError, reclaimDueParkedKeys,
\* mergeRollback, normalize).
THEOREM HoldsAreTheOperators ==
  ASSUME KeyPoolAssumption PROVE Spec => []HoldIsOperatorIntent
<1>1. IInv => HoldIsOperatorIntent
  BY DEF IInv, HoldIsOperatorIntent, RecordOK
<1>. QED  BY <1>1, Invariance, PTL

\* The provenance the administrator sees belongs to a hold (applyAdminProvenance,
\* normalize).
THEOREM ProvenanceTold ==
  ASSUME KeyPoolAssumption PROVE Spec => []ProvenanceIsTruthful
<1>1. IInv => ProvenanceIsTruthful
  BY DEF IInv, ProvenanceIsTruthful, RecordOK
<1>. QED  BY <1>1, Invariance, PTL

\* An auth park always carries the window whose end the sweep waits for
\* (parkAuthRejected, reclaimDueParkedKeys).
THEOREM AuthParksEnd ==
  ASSUME KeyPoolAssumption PROVE Spec => []AuthParkEnds
<1>1. IInv => AuthParkEnds
  BY DEF IInv, AuthParkEnds, RecordOK
<1>. QED  BY <1>1, Invariance, PTL

\* After the sweep no window outlives the cap of its state.
LEMMA SweptBounded ==
  ASSUME KeyPoolAssumption, TypeOK, NEW k \in pool
  PROVE  Swept[k].backoff <= now + ClampMax(Swept[k])
<1>. DEFINE r == keys[k]
            c == Clamped(r)
<1>1. r \in KeyRecord /\ k \in Keys /\ now \in Nat
  BY DEF TypeOK
<1>2. \A q \in KeyRecord : ClampMax(q) \in Nat
  BY DEF ClampMax, KeyPoolAssumption
<1>3. /\ c \in KeyRecord /\ c.status = r.status /\ c.marker = r.marker
      /\ c.backoff <= now + ClampMax(r)
  <2>1. ClampMax(r) \in Nat
    BY <1>1, <1>2
  <2>. HIDE DEF r
  <2>2. CASE r.backoff > now + ClampMax(r)
    BY <1>1, <2>1, <2>2 DEF Clamped, KeyRecord
  <2>3. CASE ~(r.backoff > now + ClampMax(r))
    BY <1>1, <2>1, <2>3 DEF Clamped, KeyRecord
  <2>. QED  BY <2>2, <2>3
<1>4. ClampMax(c) = ClampMax(r)
  BY <1>3 DEF ClampMax
<1>5. Swept[k] = Reclaimed(r)
  BY <1>1 DEF Swept
<1>6. Reclaimed(r) \in KeyRecord
  BY <1>1, ReclaimedOK
<1>. HIDE DEF c, r
<1>7. CASE ~QuotaDue(c) /\ ~AuthDue(c)
  <2>1. Reclaimed(r) = c
    BY <1>7 DEF Reclaimed, c
  <2>. QED  BY <1>3, <1>4, <1>5, <2>1
<1>8. CASE QuotaDue(c) \/ AuthDue(c)
  <2>1. Reclaimed(r).backoff = 0
    <3>1. CASE QuotaDue(c)
      <4>1. Reclaimed(r) = [c EXCEPT !.status = "active", !.backoff = 0,
                                     !.prov = WithoutAdmin(@)]
        BY <3>1 DEF Reclaimed, QuotaDue, AuthDue, c
      <4>. QED  BY <1>3, <4>1 DEF KeyRecord
    <3>2. CASE ~QuotaDue(c) /\ AuthDue(c)
      <4>1. Reclaimed(r) = [c EXCEPT !.status = "active", !.backoff = 0,
                                     !.marker = "none", !.prov = WithoutAdmin(@)]
        BY <3>2 DEF Reclaimed, c
      <4>. QED  BY <1>3, <4>1 DEF KeyRecord
    <3>. QED  BY <1>8, <3>1, <3>2
  <2>2. ClampMax(Reclaimed(r)) \in Nat
    BY <1>2, <1>6
  <2>. QED  BY <1>1, <1>5, <2>1, <2>2
<1>. QED  BY <1>7, <1>8

\* Every selection leaves windows that end in time, also after the clock was set
\* back (the clamp of reclaimDueParkedKeys).
THEOREM SelectionBoundsWindows ==
  ASSUME KeyPoolAssumption PROVE Spec => SweepBoundsWindows
<1>. DEFINE A == \A r \in Requests : flight[r] = Idle /\ flight'[r] # Idle =>
                   \A k \in pool : keys'[k].backoff <= now + ClampMax(keys'[k])
<1>1. ASSUME IInv, [Next]_vars PROVE [A]_vars
  <2>. SUFFICES ASSUME NEW r \in Requests, flight[r] = Idle, flight'[r] # Idle,
                       NEW k \in pool
                PROVE  keys'[k].backoff <= now + ClampMax(keys'[k])
    OBVIOUS
  <2>1. TypeOK
    BY <1>1 DEF IInv
  <2>2. PICK p \in Requests, m \in Models \cup {NoModel}, excluded \in SUBSET Keys :
          Select(p, m, excluded)
    <3>1. ASSUME NEW p \in Requests, NEW j \in Keys, Verdict(p, j)
          PROVE  flight'[r] \in {Idle, flight[r]}
      <4>1. Outcome(p, j)
        BY <3>1 DEF Verdict, AuthVerdict, QuotaVerdict, ModelRateLimit, ShortBackoff,
                    CountedFailure, Success
      <4>. QED  BY <2>1, <4>1 DEF Outcome, TypeOK
    <3>. QED  BY <1>1, <3>1 DEF Next, Administer, vars, SweepOnly, AddKey, RemoveKey, SetKeyStatus,
                    Begin, CommitMutation, RollbackMutation, Tick, StepBack, Reload
  <2>3. PICK chosen \in Choice(Swept, m, excluded) :
          keys' = [Swept EXCEPT ![chosen].backoff =
                     IF Swept[chosen].backoff > now THEN 0 ELSE @]
    BY <2>2 DEF Select
  <2>4. Swept \in [Keys -> KeyRecord] /\ chosen \in Keys /\ k \in Keys /\ now \in Nat
    BY <2>1, SweptOK, ChoiceActive DEF TypeOK
  <2>5. CASE k # chosen
    BY <2>1, <2>3, <2>4, <2>5, SweptBounded
  <2>6. CASE k = chosen
    <3>1. keys'[k] \in KeyRecord /\ keys'[k].backoff <= now
      BY <2>3, <2>4, <2>6 DEF KeyRecord
    <3>2. ClampMax(keys'[k]) \in Nat
      BY <3>1 DEF ClampMax, KeyPoolAssumption
    <3>. QED  BY <2>4, <3>1, <3>2 DEF KeyRecord
  <2>. QED  BY <2>5, <2>6
<1>. QED  BY <1>1, Invariance, PTL DEF Spec, SweepBoundsWindows

\* A selection for a model honours no cooldown beyond the cap (isRateLimited).
THEOREM CooldownsBounded ==
  ASSUME KeyPoolAssumption PROVE Spec => SelectionBoundsCooldowns
<1>. DEFINE A == \A r \in Requests : flight[r] = Idle /\ flight'[r].model # NoModel =>
                   \A k \in pool \ {flight'[r].key} :
                     keys'[k].status = "active" /\ keys'[k].backoff <= now
                     => cool'[flight'[r].model][k] <= now + MaxBackoff
<1>1. ASSUME IInv, [Next]_vars PROVE [A]_vars
  <2>. SUFFICES ASSUME NEW r \in Requests, flight[r] = Idle, flight'[r].model # NoModel,
                       NEW k \in pool, k # flight'[r].key,
                       keys'[k].status = "active", keys'[k].backoff <= now
                PROVE  cool'[flight'[r].model][k] <= now + MaxBackoff
    OBVIOUS
  <2>1. TypeOK /\ k \in Keys
    BY <1>1 DEF IInv, TypeOK
  <2>2. PICK p \in Requests, m \in Models \cup {NoModel}, excluded \in SUBSET Keys :
          Select(p, m, excluded) /\ flight'[r] # Idle
    <3>1. flight'[r] # Idle
      BY DEF Idle
    <3>2. ASSUME NEW p \in Requests, NEW j \in Keys, Verdict(p, j)
          PROVE  flight'[r] \in {Idle, flight[r]}
      <4>1. Outcome(p, j)
        BY <3>2 DEF Verdict, AuthVerdict, QuotaVerdict, ModelRateLimit, ShortBackoff,
                    CountedFailure, Success
      <4>. QED  BY <2>1, <4>1 DEF Outcome, TypeOK
    <3>. QED  BY <1>1, <3>1, <3>2 DEF Next, Administer, vars, SweepOnly, AddKey, RemoveKey, SetKeyStatus,
                    Begin, CommitMutation, RollbackMutation, Tick, StepBack, Reload
  <2>3. PICK chosen \in Choice(Swept, m, excluded) :
          /\ keys' = [Swept EXCEPT ![chosen].backoff =
                        IF Swept[chosen].backoff > now THEN 0 ELSE @]
          /\ flight' = [flight EXCEPT ![p] = [key |-> chosen, model |-> m]]
    BY <2>2 DEF Select
  <2>4. r = p /\ flight'[r] = [key |-> chosen, model |-> m]
    BY <2>1, <2>2, <2>3 DEF TypeOK
  <2>5. m \in Models /\ flight'[r].model = m /\ k # chosen
    BY <2>4
  <2>6. Swept \in [Keys -> KeyRecord] /\ chosen \in Keys /\ now \in Nat /\ cool[m][k] \in Nat
    BY <2>1, <2>3, <2>5, SweptOK, ChoiceActive DEF TypeOK
  <2>7. GloballyAvailable(Swept, k)
    <3>1. keys'[k] = Swept[k]
      BY <2>1, <2>3, <2>5, <2>6
    <3>. QED  BY <3>1 DEF GloballyAvailable
  <2>8. cool' = [cool EXCEPT ![m] = CoolSeen(Swept, m)]
    BY <2>2, <2>5 DEF Select, KeyPoolAssumption
  <2>9. cool'[m][k] = CoolSeen(Swept, m)[k]
    BY <2>1, <2>5, <2>8 DEF TypeOK
  <2>10. CoolSeen(Swept, m)[k] <= now + MaxBackoff
    BY <2>1, <2>6, <2>7 DEF CoolSeen, KeyPoolAssumption
  <2>. QED  BY <2>5, <2>9, <2>10
<1>. QED  BY <1>1, Invariance, PTL DEF Spec, SelectionBoundsCooldowns

-----------------------------------------------------------------------------
(* Selection always finds a key *)

\* "Was used after" is a strict order: no key was used after itself, and the order
\* is transitive.
UseIsOrdered ==
  /\ \A j \in Keys : j \notin newer[j]
  /\ \A i, j, k \in Keys : j \in newer[i] /\ k \in newer[j] => k \in newer[i]

\* Using a key makes it the newest and keeps the order.
LEMMA TouchOrders ==
  ASSUME TypeOK, UseIsOrdered, NEW k \in Keys, Touch(k)
  PROVE  UseIsOrdered'
<1>1. \A j \in Keys : newer'[j] = IF j = k THEN {} ELSE newer[j] \cup {k}
  BY DEF Touch
<1>2. \A j \in Keys : j \notin newer'[j]
  BY <1>1 DEF UseIsOrdered
<1>3. ASSUME NEW h \in Keys, NEW i \in Keys, NEW j \in Keys,
             i \in newer'[h], j \in newer'[i]
      PROVE  j \in newer'[h]
  <2>1. h # k /\ i # k /\ i \in newer[h]
    BY <1>1, <1>3
  <2>2. j \in newer[i] \/ j = k
    BY <1>1, <1>3, <2>1
  <2>. QED  BY <1>1, <2>1, <2>2 DEF UseIsOrdered
<1>. QED  BY <1>2, <1>3 DEF UseIsOrdered

\* The order of use is one in every reachable state.
LEMMA OrderInvariance == ASSUME KeyPoolAssumption PROVE Spec => []UseIsOrdered
<1>1. Init => UseIsOrdered
  BY DEF Init, UseIsOrdered
<1>2. ASSUME TypeOK, UseIsOrdered, [Next]_vars PROVE UseIsOrdered'
  <2>1. UNCHANGED newer \/ \E k \in Keys : Touch(k)
    <3>1. ASSUME NEW r \in Requests, NEW m \in Models \cup {NoModel},
                 NEW excluded \in SUBSET Keys, Select(r, m, excluded)
          PROVE  \E k \in Keys : Touch(k)
      BY <1>2, <3>1, ChoiceActive DEF Select
    <3>2. ASSUME NEW r \in Requests, NEW k \in Keys, Verdict(r, k)
          PROVE  UNCHANGED newer \/ Touch(k)
      <4>1. Outcome(r, k)
        BY <3>2 DEF Verdict, AuthVerdict, QuotaVerdict, ModelRateLimit, ShortBackoff,
                    CountedFailure, Success
      <4>. QED  BY <4>1 DEF Outcome
    <3>. QED  BY <1>2, <3>1, <3>2 DEF Next, Administer, vars, SweepOnly, AddKey, RemoveKey, SetKeyStatus,
                    Begin, CommitMutation, RollbackMutation, Tick, StepBack, Reload
  <2>2. CASE UNCHANGED newer
    BY <1>2, <2>2 DEF UseIsOrdered
  <2>. QED  BY <1>2, <2>1, <2>2, TouchOrders
<1>3. TypeOK /\ UseIsOrdered /\ [Next]_vars => UseIsOrdered'
  BY <1>2
<1>. QED  BY <1>1, <1>3, TypeCorrect, PTL DEF Spec

\* Some key of a nonempty set was used least recently.
LEMMA SomeIsLeastRecent ==
  ASSUME KeyPoolAssumption, TypeOK, UseIsOrdered, NEW S \in SUBSET Keys, S # {}
  PROVE  LeastRecentlyUsed(S) # {}
<1>. DEFINE older(j) == Keys \ newer[j]
            T == {older(j) : j \in S}
<1>1. T \subseteq SUBSET Keys /\ T # {}
  OBVIOUS
<1>2. IsWellFoundedOn(StrictSubsetOrdering(Keys), SUBSET Keys)
  BY FS_StrictSubsetOrderingWellFounded, FS_FiniteSubsetsOfFinite DEF KeyPoolAssumption
<1>. HIDE DEF T
<1>3. PICK o \in T : \A p \in T : ~(<<p, o>> \in StrictSubsetOrdering(Keys))
  BY <1>1, <1>2, WFMin, Zenon
<1>4. PICK k \in S : o = older(k)
  BY DEF T
<1>5. ASSUME NEW j \in S, k \in newer[j] PROVE FALSE
  <2>1. older(j) \subseteq older(k) /\ older(j) # older(k)
    BY <1>5 DEF UseIsOrdered, TypeOK
  <2>2. older(j) \in T
    BY DEF T
  <2>. QED  BY <1>3, <1>4, <2>1, <2>2 DEF StrictSubsetOrdering
<1>. QED  BY <1>5 DEF LeastRecentlyUsed

\* The least-number principle.
LEMMA LeastNatural ==
  ASSUME NEW T \in SUBSET Nat, T # {}
  PROVE  \E n \in T : \A m \in T : n <= m
<1>1. PICK n \in T : \A m \in T : ~(<<m, n>> \in OpToRel(<, Nat))
  BY WFMin, NatLessThanWellFounded, Zenon
<1>2. \A m \in T : ~(m < n)
  BY <1>1 DEF OpToRel
<1>. QED  BY <1>2

\* Without an affine key, the pool yields one as long as any active key is allowed.
LEMMA PoolYields ==
  ASSUME KeyPoolAssumption, TypeOK, UseIsOrdered, NEW excluded \in SUBSET Keys,
         {k \in pool \ excluded : Swept[k].status = "active"} # {}
  PROVE  PoolChoice(Swept, excluded) # {}
<1>. DEFINE avail == {k \in Keys \ excluded : GloballyAvailable(Swept, k)}
            waiting == {k \in pool \ excluded : Swept[k].status = "active"}
            soonest == {k \in waiting : \A j \in waiting : Swept[k].backoff <= Swept[j].backoff}
<1>1. PoolChoice(Swept, excluded) = IF avail # {} THEN LeastRecentlyUsed(avail)
                                                  ELSE LeastRecentlyUsed(soonest)
  BY DEF PoolChoice
<1>2. waiting \subseteq Keys /\ \A k \in Keys : Swept[k].backoff \in Nat
  BY SweptOK DEF TypeOK, KeyRecord
<1>3. soonest # {}
  <2>. DEFINE T == {Swept[k].backoff : k \in waiting}
  <2>1. T \in SUBSET Nat /\ T # {}
    BY <1>2
  <2>2. PICK n \in T : \A m \in T : n <= m
    BY <2>1, LeastNatural
  <2>. QED  BY <2>2
<1>4. avail \in SUBSET Keys /\ soonest \in SUBSET Keys
  BY <1>2
<1>. HIDE DEF avail, soonest
<1>. QED  BY <1>1, <1>3, <1>4, SomeIsLeastRecent

\* Neither pins nor cooldowns nor backoffs starve a request: getNextKey finds a key
\* exactly when an active one is allowed, and what it finds is one
\* (selectKeyForModel, getNextKey).
THEOREM NeverStranded ==
  ASSUME KeyPoolAssumption PROVE Spec => []SelectionNeverStrands
<1>1. ASSUME TypeOK, UseIsOrdered PROVE SelectionNeverStrands
  <2>. SUFFICES ASSUME NEW m \in Models \cup {NoModel}, NEW excluded \in SUBSET Keys
                PROVE  LET active == {k \in pool \ excluded : Swept[k].status = "active"} IN
                         /\ Choice(Swept, m, excluded) \subseteq active
                         /\ active # {} => Choice(Swept, m, excluded) # {}
    BY DEF SelectionNeverStrands
  <2>. DEFINE active == {k \in pool \ excluded : Swept[k].status = "active"}
              C == IF m = NoModel THEN {} ELSE Eligible(Swept, m) \ excluded
  <2>1. C \subseteq active /\ C \in SUBSET Keys
    BY DEF Eligible, GloballyAvailable
  <2>2. Choice(Swept, m, excluded) = IF C # {} THEN AffineChoice(C, m)
                                               ELSE PoolChoice(Swept, excluded)
    BY DEF Choice
  <2>3. PoolChoice(Swept, excluded) \subseteq active
    BY <1>1 DEF PoolChoice, GloballyAvailable, LeastRecentlyUsed, TypeOK
  <2>. HIDE DEF C
  <2>4. AffineChoice(C, m) \subseteq C
    BY DEF AffineChoice, LeastRecentlyUsed
  <2>5. C # {} => AffineChoice(C, m) # {}
    <3>. DEFINE free == C \ HeldByOthers(m)
    <3>1. ASSUME C # {} PROVE LeastRecentlyUsed(IF free # {} THEN free ELSE C) # {}
      BY <1>1, <2>1, <3>1, SomeIsLeastRecent
    <3>. QED  BY <3>1 DEF AffineChoice
  <2>6. active # {} => PoolChoice(Swept, excluded) # {}
    BY <1>1, PoolYields
  <2>. QED  BY <2>1, <2>2, <2>3, <2>4, <2>5, <2>6
<1>. QED  BY <1>1, TypeCorrect, OrderInvariance, PTL

=============================================================================

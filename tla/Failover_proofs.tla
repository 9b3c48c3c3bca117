---------------------------- MODULE Failover_proofs ----------------------------
(***************************************************************************)
(* Proofs about Failover, for every finite set of keys, every set of caps  *)
(* and any number of changes of the pool by others: type correctness, the  *)
(* soundness of the walk, and the honesty of the two answers that speak    *)
(* for more than one key.                                                  *)
(***************************************************************************)
EXTENDS Failover, FiniteSetTheorems, TLAPS

\* TypeOK, one conjunct per variable.
Answers == [kind : {"none", "empty", "poolWide", "deadline", "idle", "exhausted",
                    "delivered", "aborted"},
            status : Http \cup {""}, full : BOOLEAN]

Typed ==
  /\ avail \in [Keys -> Availability] /\ changes \in Nat
  /\ budget \in Nat /\ attempt \in Nat
  /\ current \in Keys \cup {NoKey}
  /\ attempted \subseteq Keys /\ cycle \subseteq Keys /\ answered \subseteq Keys
  /\ silent \subseteq Keys /\ discovered \subseteq Keys
  /\ markAnswered \subseteq Keys /\ markSilent \subseteq Keys
  /\ seen \subseteq Http
  /\ loud \in BOOLEAN /\ overdue \in BOOLEAN /\ gone \in BOOLEAN
  /\ at \in {"deciding", "attempt", "done"}
  /\ answer \in Answers
  /\ last \in [Keys -> Outcomes \cup {"none"}]

\* The walk's own bookkeeping: which sets grow together, and what being in an
\* attempt, deciding and being done mean.
Bookkeeping ==
  /\ cycle \subseteq attempted
  /\ attempted # {} => attempt > 0
  /\ at = "attempt" => current \in cycle
  /\ at = "deciding" => current = NoKey
  /\ at # "done" => answer = Nothing
  /\ at = "done" => current = NoKey

\* While every recorded failure is one status that can speak for the whole pool, the
\* request is in its first pass: each key that answered is in that pass, answered
\* with that status last, and is not the one being tried.
OneStatus ==
  /\ seen = {} => answered = {} /\ markAnswered = {}
  /\ \A s \in PoolWide : seen = {s} =>
       \A k \in answered \cup markAnswered :
         k \in cycle /\ k # current /\ last[k] = s

\* While no loud failure and no deadline was met, every finished attempt was silent.
OnlySilence ==
  at # "done" /\ ~loud /\ ~overdue => \A k \in attempted \ {current} : last[k] \in Silent

IInv ==
  /\ Typed /\ Bookkeeping /\ BudgetKept /\ OneStatus /\ OnlySilence
  /\ HonestVerdict /\ HonestSilence

-----------------------------------------------------------------------------
(* The operators of the walk *)

\* Sets of keys are finite, and so are their cardinalities and the budget.
LEMMA Counting ==
  ASSUME FailoverAssumption, Typed
  PROVE  /\ \A S \in SUBSET Keys : IsFiniteSet(S) /\ Cardinality(S) \in Nat
         /\ \A S, T \in SUBSET Keys : S \subseteq T => Cardinality(S) <= Cardinality(T)
         /\ Eligible \in SUBSET Keys /\ PassIds \in SUBSET Keys /\ MaxAttempts \in Nat
         /\ MaxAttempts <= budget \/ MaxAttempts <= Cardinality(discovered \cup Eligible)
<1>1. \A S \in SUBSET Keys : IsFiniteSet(S) /\ Cardinality(S) \in Nat
  BY FS_Subset, FS_CardinalityType DEF FailoverAssumption
<1>2. ASSUME NEW S \in SUBSET Keys, NEW T \in SUBSET Keys, S \subseteq T
      PROVE  Cardinality(S) <= Cardinality(T)
  BY <1>1, <1>2, FS_Subset
<1>3. Eligible \in SUBSET Keys /\ PassIds \in SUBSET Keys
  BY DEF Eligible, Ready, Active, PassIds, Marked, Removed, Typed
<1>4. discovered \cup Eligible \in SUBSET Keys
  BY <1>3 DEF Typed
<1>5. MaxAttempts \in Nat
  BY <1>1, <1>4 DEF MaxAttempts, Typed
<1>. DEFINE found == Cardinality(discovered \cup Eligible)
<1>6. found \in Nat /\ budget \in Nat /\ MaxAttempts = IF found > budget THEN found ELSE budget
  BY <1>1, <1>4 DEF MaxAttempts, Typed
<1>7. MaxAttempts <= budget \/ MaxAttempts <= found
  BY <1>6
<1>. QED  BY <1>1, <1>2, <1>3, <1>5, <1>7

\* What getNextKey may choose is an allowed active key, and an allowed active key is
\* enough for it to choose one.
LEMMA ChoiceFromAllowed ==
  ASSUME NEW allowed \in SUBSET Keys
  PROVE  /\ Choosable(allowed) \subseteq allowed \cap Active
         /\ allowed \cap Active # {} => Choosable(allowed) # {}
  BY DEF Choosable, Ready, Active

\* The keys the next attempt may use are eligible and not of the running pass.
LEMMA AllowedIsFresh ==
  /\ Allowed \subseteq Eligible /\ Eligible \subseteq Active
  /\ ~PassComplete => Allowed \cap cycle = {}
  /\ Eligible # {} => Allowed # {}
  BY DEF Allowed, PassComplete, Eligible, Ready, Active

\* A complete pass whose only recorded status can speak for the pool stops the walk.
LEMMA OneStatusStops ==
  ASSUME FailoverAssumption, Typed, Bookkeeping,
         NEW s \in PoolWide, seen = {s}, PassComplete
  PROVE  Stops
<1>1. PassIds \subseteq attempted
  BY DEF PassIds, PassComplete, Bookkeeping, Marked
<1>2. Cardinality(PassIds) <= Cardinality(attempted)
  BY <1>1, Counting DEF Typed
<1>3. Cardinality(PassIds) \in Nat /\ Cardinality(attempted) \in Nat /\ MaxAttempts \in Nat
  BY Counting DEF Typed
<1>4. s \in PoolWideStatus
  BY <1>2, <1>3 DEF PoolWideStatus
<1>5. attempt > 0
  BY DEF PassComplete, Bookkeeping
<1>. QED  BY <1>4, <1>5 DEF Stops

\* What each verdict that speaks for more than one key rests on.
LEMMA VerdictMeaning ==
  ASSUME Typed
  PROVE  /\ Verdict \in Answers
         /\ Verdict.kind = "poolWide" /\ Verdict.full =>
              /\ CircleAnswered
              /\ Verdict.status \in PoolWide /\ seen = {Verdict.status}
         /\ Verdict.kind = "idle" => IdleRound /\ ~overdue
<1>. DEFINE status == IF RateLimitStop THEN {"429"} ELSE PoolWideStatus
<1>1. \A s \in status : s \in PoolWide /\ seen = {s}
  BY DEF RateLimitStop, PoolWideStatus, PoolWide
<1>2. PoolWide \subseteq Http /\ CircleAnswered \in BOOLEAN
  BY DEF PoolWide, Http, CircleAnswered
<1>3. CASE status # {} /\ ~(attempt = 0 /\ Eligible = {})
  <2>1. PICK s \in status : s = CHOOSE t \in status : TRUE
    BY <1>3
  <2>2. Verdict = Answer("poolWide", s, CircleAnswered)
    BY <1>3, <2>1 DEF Verdict
  <2>. QED  BY <1>1, <1>2, <2>1, <2>2 DEF Answer, Answers
<1>4. CASE status = {} \/ (attempt = 0 /\ Eligible = {})
  <2>1. \/ Verdict \in {Answer("empty", "", FALSE), Answer("deadline", "", FALSE),
                       Answer("exhausted", "", FALSE)}
        \/ Verdict = Answer("idle", "", FALSE) /\ IdleRound /\ ~overdue
    BY <1>4 DEF Verdict
  <2>2. \A kind \in {"empty", "deadline", "exhausted", "idle"} :
          Answer(kind, "", FALSE) \in Answers /\ Answer(kind, "", FALSE).kind = kind
    BY DEF Answer, Answers
  <2>. QED  BY <2>1, <2>2
<1>. QED  BY <1>3, <1>4

\* A request that has not ended has no answer to be honest about.
LEMMA NothingSaid ==
  Nothing \in Answers /\ Nothing.kind = "none"
  BY DEF Nothing, Answer, Answers

-----------------------------------------------------------------------------
(* One lemma per kind of step *)

\* Choosing the next key and starting its attempt preserves the invariant.
LEMMA AttemptStep ==
  ASSUME FailoverAssumption, IInv, NEW k \in Keys, Attempt(k)
  PROVE  IInv'
<1>. USE DEF IInv
<1>1. /\ at = "deciding" /\ ~Stops /\ k \in Choosable(Allowed)
      /\ at' = "attempt" /\ current' = k /\ attempt' = attempt + 1
      /\ attempted' = attempted \cup {k} /\ discovered' = discovered \cup Eligible
      /\ cycle' = (IF PassComplete THEN {} ELSE cycle) \cup {k}
      /\ answered' = (IF PassComplete THEN {} ELSE NowAnswered)
      /\ silent' = (IF PassComplete THEN {} ELSE NowSilent)
      /\ UNCHANGED <<budget, markAnswered, markSilent, seen, loud, answer, last, changes,
                     overdue, gone>>
  BY DEF Attempt
<1>2. k \in Allowed
  BY <1>1, AllowedIsFresh, ChoiceFromAllowed, Counting
<1>3. Typed'
  <2>1. avail' \in [Keys -> Availability]
    BY DEF Attempt, Typed, Availability
  <2>2. NowAnswered \subseteq Keys /\ NowSilent \subseteq Keys
    BY DEF NowAnswered, NowSilent, Marked, Typed
  <2>3. Eligible \subseteq Keys
    BY Counting
  <2>. QED  BY <1>1, <2>1, <2>2, <2>3 DEF Typed
<1>4. Bookkeeping'
  BY <1>1 DEF Bookkeeping, Typed
<1>5. BudgetKept'
  <2>1. attempt < MaxAttempts
    <3>1. attempt \in Nat /\ MaxAttempts \in Nat
      BY Counting DEF Typed
    <3>. QED  BY <1>1, <3>1 DEF Stops
  <2>2. discovered \cup Eligible \in SUBSET Keys
    BY Counting DEF Typed
  <2>3. attempt + 1 <= budget \/ attempt + 1 <= Cardinality(discovered \cup Eligible)
    <3>1. Cardinality(discovered \cup Eligible) \in Nat /\ MaxAttempts \in Nat
      BY <2>2, Counting
    <3>. QED  BY <2>1, <3>1, Counting DEF Typed
  <2>. QED  BY <1>1, <2>3 DEF BudgetKept
<1>6. OneStatus'
  <2>1. ASSUME seen = {} PROVE answered' = {} /\ markAnswered' = {}
    BY <1>1, <2>1 DEF OneStatus, NowAnswered
  <2>2. ASSUME NEW s \in PoolWide, seen = {s}, NEW j \in answered' \cup markAnswered'
        PROVE  j \in cycle' /\ j # k /\ last[j] = s
    <3>1. ~PassComplete
      BY <1>1, <2>2, OneStatusStops
    <3>2. j \in answered \cup markAnswered
      BY <1>1, <2>2, <3>1 DEF NowAnswered
    <3>. QED  BY <1>1, <1>2, <2>2, <3>1, <3>2, AllowedIsFresh DEF OneStatus
  <2>. QED  BY <1>1, <2>1, <2>2 DEF OneStatus
<1>7. OnlySilence'
  BY <1>1 DEF OnlySilence, Bookkeeping, FailoverAssumption, Typed
<1>8. HonestVerdict' /\ HonestSilence'
  <2>1. answer'.kind = "none"
    BY <1>1, NothingSaid DEF Bookkeeping
  <2>. QED  BY <2>1 DEF HonestVerdict, HonestSilence
<1>. QED  BY <1>3, <1>4, <1>5, <1>6, <1>7, <1>8

\* Ending the request preserves the invariant: an answer about every key is given
\* only where it is true.
LEMMA EndSteps ==
  ASSUME FailoverAssumption, IInv,
         ClientGone \/ GiveUp \/ \E k \in Keys : Delivers(k)
  PROVE  IInv'
<1>. USE DEF IInv
<1>. DEFINE Own == {Answer("aborted", "", FALSE), Answer("delivered", "", FALSE)}
<1>0. /\ Answer("aborted", "", FALSE) \in Own /\ Answer("delivered", "", FALSE) \in Own
      /\ \A a \in Own : a \in Answers /\ a.kind \in {"aborted", "delivered"}
  <2>1. \A kind \in {"aborted", "delivered"} :
          Answer(kind, "", FALSE) \in Answers /\ Answer(kind, "", FALSE).kind = kind
    BY DEF Answer, Answers
  <2>. QED  BY <2>1
<1>. HIDE DEF Own
<1>1. PICK a : Finish(a) /\ (a \in Own \/ (at = "deciding" /\ a = Verdict))
  <2>1. CASE ClientGone
    <3>1. Finish(Answer("aborted", "", FALSE))
      BY <2>1 DEF ClientGone
    <3>. QED  BY <1>0, <3>1
  <2>2. CASE GiveUp
    BY <2>2 DEF GiveUp
  <2>3. CASE \E k \in Keys : Delivers(k)
    <3>1. Finish(Answer("delivered", "", FALSE))
      BY <2>3 DEF Delivers
    <3>. QED  BY <1>0, <3>1
  <2>. QED  BY <2>1, <2>2, <2>3
<1>2. /\ answer' = a /\ at' = "done" /\ current' = NoKey
      /\ UNCHANGED <<budget, attempt, attempted, cycle, answered, silent, discovered,
                     markAnswered, markSilent, seen, loud, last, avail, changes, overdue,
                     gone>>
  BY <1>1 DEF Finish
<1>3. Eligible' = Eligible
  BY <1>2 DEF Eligible, Ready, Active
<1>4. Typed'
  <2>1. a \in Answers
    BY <1>0, <1>1, VerdictMeaning
  <2>. QED  BY <1>2, <2>1 DEF Typed
<1>5. Bookkeeping' /\ BudgetKept' /\ OnlySilence'
  BY <1>2 DEF Bookkeeping, BudgetKept, OnlySilence
<1>6. OneStatus'
  BY <1>2 DEF OneStatus, FailoverAssumption, Typed
<1>7. HonestVerdict'
  <2>. SUFFICES ASSUME a.kind = "poolWide", a.full, NEW k \in Eligible
                PROVE  last[k] = a.status
    BY <1>2, <1>3 DEF HonestVerdict
  <2>1. a = Verdict
    BY <1>0, <1>1
  <2>2. k \in NowAnswered
    BY <2>1, VerdictMeaning DEF CircleAnswered, PassIds
  <2>. QED  BY <2>1, <2>2, VerdictMeaning DEF NowAnswered, OneStatus
<1>8. HonestSilence'
  <2>. SUFFICES ASSUME a.kind = "idle"
                PROVE  Eligible \subseteq attempted /\ \A k \in attempted : last[k] \in Silent
    BY <1>2, <1>3 DEF HonestSilence
  <2>1. a = Verdict /\ at = "deciding"
    BY <1>0, <1>1
  <2>2. IdleRound /\ ~overdue
    BY <2>1, VerdictMeaning
  <2>. QED  BY <2>1, <2>2 DEF IdleRound, PassComplete, Bookkeeping, OnlySilence, Typed,
                              FailoverAssumption
<1>. QED  BY <1>4, <1>5, <1>6, <1>7, <1>8

\* A retryable result preserves the invariant.
LEMMA FailsStep ==
  ASSUME FailoverAssumption, IInv, NEW k \in Keys, NEW outcome \in Retryable,
         Fails(k, outcome)
  PROVE  IInv'
<1>. USE DEF IInv
<1>1. /\ at = "attempt" /\ current = k /\ at' = "deciding" /\ current' = NoKey
      /\ seen' = (IF outcome \in Http THEN seen \cup {outcome} ELSE seen)
      /\ loud' = (loud \/ outcome \notin Silent \cup {"cut"})
      /\ overdue' = (overdue \/ outcome = "cut")
      /\ last' = [last EXCEPT ![k] = outcome]
      /\ UNCHANGED <<budget, attempt, attempted, cycle, discovered, answer, changes, gone>>
  BY DEF Fails
<1>2. /\ answered' = answered \cup (IF outcome \in Http THEN {k} ELSE {})
      /\ silent' = silent \cup (IF outcome \in Silent THEN {k} ELSE {})
      /\ markAnswered' \subseteq markAnswered \cup (answered' \cap {k})
      /\ markSilent' \subseteq markSilent \cup {k}
  <2>2. /\ answered' = answered \cup (IF outcome \in Http THEN {k} ELSE {})
        /\ silent' = silent \cup (IF outcome \in Silent THEN {k} ELSE {})
        /\ markAnswered' = Marks(markAnswered, k, k \in answered')
        /\ markSilent' = Marks(markSilent, k, k \in silent')
    BY DEF Fails
  <2>3. /\ markAnswered' \subseteq markAnswered \cup (answered' \cap {k})
        /\ markSilent' \subseteq markSilent \cup {k}
    BY <2>2 DEF Marks
  <2>. QED  BY <2>2, <2>3
<1>3. Typed'
  <2>1. \A a \in Penalties(k, outcome) : a \in Availability
    BY DEF Penalties, Availability, Typed, Retryable, Http, Silent
  <2>2. avail' \in [Keys -> Availability]
    BY <2>1 DEF Fails, Typed
  <2>3. seen' \subseteq Http /\ last' \in [Keys -> Outcomes \cup {"none"}]
    BY <1>1 DEF Typed, Outcomes
  <2>4. {loud', overdue'} \subseteq BOOLEAN
    BY <1>1 DEF Typed
  <2>. QED  BY <1>1, <1>2, <2>2, <2>3, <2>4 DEF Typed
<1>4. Bookkeeping' /\ BudgetKept'
  BY <1>1 DEF Bookkeeping, BudgetKept
<1>5. OneStatus'
  <2>1. ASSUME seen' = {} PROVE answered' = {} /\ markAnswered' = {}
    BY <1>1, <1>2, <2>1 DEF OneStatus
  <2>2. ASSUME NEW s \in PoolWide, seen' = {s}, NEW j \in answered' \cup markAnswered'
        PROVE  j \in cycle' /\ j # current' /\ last'[j] = s
    <3>1. j \in Keys
      BY <2>2, <1>3 DEF Typed
    <3>2. j # current'
      BY <1>1, <3>1 DEF FailoverAssumption
    <3>3. CASE j \in answered \cup markAnswered
      <4>1. seen = {s}
        BY <1>1, <2>2, <3>3 DEF OneStatus
      <4>. QED  BY <1>1, <2>2, <3>1, <3>2, <3>3, <4>1 DEF OneStatus, Typed
    <3>4. CASE j \notin answered \cup markAnswered
      <4>1. j = k /\ outcome \in Http
        BY <1>2, <2>2, <3>4
      <4>2. outcome = s
        BY <1>1, <2>2, <4>1
      <4>3. k \in cycle
        BY <1>1 DEF Bookkeeping
      <4>. QED  BY <1>1, <3>1, <3>2, <4>1, <4>2, <4>3 DEF Typed
    <3>. QED  BY <3>3, <3>4
  <2>. QED  BY <2>1, <2>2 DEF OneStatus
<1>6. OnlySilence'
  <2>. SUFFICES ASSUME ~loud', ~overdue', NEW j \in attempted PROVE last'[j] \in Silent
    BY <1>1 DEF OnlySilence
  <2>1. j \in Keys
    BY DEF Typed
  <2>. QED  BY <1>1, <2>1 DEF OnlySilence, Typed
<1>7. HonestVerdict' /\ HonestSilence'
  <2>1. answer'.kind = "none"
    BY <1>1, NothingSaid DEF Bookkeeping
  <2>. QED  BY <2>1 DEF HonestVerdict, HonestSilence
<1>. QED  BY <1>3, <1>4, <1>5, <1>6, <1>7

\* What others do while an attempt is in flight preserves the invariant.
LEMMA SurroundingSteps ==
  ASSUME FailoverAssumption, IInv,
         \/ DeadlinePasses \/ ClientLeaves
         \/ \E k \in Keys, a \in Availability : PoolChanges(k, a)
  PROVE  IInv'
<1>1. /\ at = "attempt" /\ UNCHANGED <<request, at>>
      /\ avail' \in [Keys -> Availability] /\ changes' \in Nat
      /\ overdue' \in BOOLEAN /\ (overdue => overdue') /\ gone' \in BOOLEAN
  <2>1. CASE DeadlinePasses \/ ClientLeaves
    BY <2>1 DEF DeadlinePasses, ClientLeaves, IInv, Typed
  <2>2. CASE \E k \in Keys, a \in Availability : PoolChanges(k, a)
    BY <2>2 DEF PoolChanges, IInv, Typed
  <2>. QED  BY <2>1, <2>2
<1>2. UNCHANGED <<budget, attempt, current, attempted, cycle, answered, silent, discovered,
                  markAnswered, markSilent, seen, loud, answer, last, at>>
  BY <1>1 DEF request
<1>3. Typed'
  BY <1>1, <1>2 DEF IInv, Typed
<1>4. Bookkeeping' /\ BudgetKept' /\ OneStatus' /\ OnlySilence'
  BY <1>1, <1>2 DEF IInv, Bookkeeping, BudgetKept, OneStatus, OnlySilence, Typed
<1>5. answer'.kind = "none"
  BY <1>1, <1>2, NothingSaid DEF IInv, Bookkeeping
<1>. QED  BY <1>3, <1>4, <1>5 DEF IInv, HonestVerdict, HonestSilence

-----------------------------------------------------------------------------
(* The theorems *)

\* The invariant of every request's walk over the pool.
THEOREM Invariance == ASSUME FailoverAssumption PROVE Spec => []IInv
<1>1. Init => IInv
  <2>. SUFFICES ASSUME Init PROVE IInv
    OBVIOUS
  <2>1. Cardinality(Ready) \in Nat /\ Cardinality(Active) \in Nat
    <3>1. Ready \subseteq Keys /\ Active \subseteq Keys
      BY DEF Ready, Active
    <3>. QED  BY <3>1, FS_Subset, FS_CardinalityType DEF FailoverAssumption
  <2>2. budget \in Nat
    BY <2>1 DEF Init, Floor, FailoverAssumption
  <2>3. Typed
    BY <2>2, NothingSaid DEF Init, Typed, Availability
  <2>4. answer = Nothing /\ answer.kind = "none"
    BY NothingSaid DEF Init
  <2>. QED  BY <2>2, <2>3, <2>4 DEF Init, IInv, Bookkeeping, BudgetKept, OneStatus,
                                    OnlySilence, HonestVerdict, HonestSilence, PoolWide
<1>2. IInv /\ [Next]_vars => IInv'
  <2>. SUFFICES ASSUME IInv, [Next]_vars PROVE IInv'
    OBVIOUS
  <2>1. CASE ClientGone \/ GiveUp \/ \E k \in Keys : Delivers(k)
    BY <2>1, EndSteps
  <2>2. CASE \E k \in Keys : Attempt(k)
    BY <2>2, AttemptStep
  <2>3. CASE \E k \in Keys, outcome \in Retryable : Fails(k, outcome)
    BY <2>3, FailsStep
  <2>4. CASE \/ DeadlinePasses \/ ClientLeaves
             \/ \E k \in Keys, a \in Availability : PoolChanges(k, a)
    BY <2>4, SurroundingSteps
  <2>5. CASE UNCHANGED vars
    <3>1. UNCHANGED <<budget, attempt, current, attempted, cycle, answered, silent,
                      discovered, markAnswered, markSilent, seen, loud, answer, last,
                      avail, changes, overdue, gone, at>>
      BY <2>5 DEF vars, request
    <3>2. Eligible' = Eligible
      BY <3>1 DEF Eligible, Ready, Active
    <3>. QED  BY <3>1, <3>2 DEF IInv, Typed, Bookkeeping, BudgetKept, OneStatus, OnlySilence,
                                HonestVerdict, HonestSilence
  <2>. QED  BY <2>1, <2>2, <2>3, <2>4, <2>5 DEF Next
<1>. QED  BY <1>1, <1>2, PTL DEF Spec

\* Every variable keeps its type.
THEOREM TypeCorrect == ASSUME FailoverAssumption PROVE Spec => []TypeOK
<1>1. IInv => TypeOK
  BY DEF IInv, Typed, TypeOK, Answers
<1>. QED  BY <1>1, Invariance, PTL

\* "All keys answered with this status" is true of every key the request could use
\* when it was said (circleAnswered and resolvePoolWideFailureStatus).
THEOREM VerdictIsHonest == ASSUME FailoverAssumption PROVE Spec => []HonestVerdict
<1>1. IInv => HonestVerdict
  BY DEF IInv
<1>. QED  BY <1>1, Invariance, PTL

\* The "temporarily unavailable" of a silent round is given only after every usable
\* key was tried and none failed otherwise (idleRound, nonSilentSeen).
THEOREM SilenceIsHonest == ASSUME FailoverAssumption PROVE Spec => []HonestSilence
<1>1. IInv => HonestSilence
  BY DEF IInv
<1>. QED  BY <1>1, Invariance, PTL

\* The walk never exceeds its budget and never finds itself without a key to select
\* while it has a reason to go on (configuredMaxAttempts, currentUnattemptedKeyIds).
THEOREM WalkSound == ASSUME FailoverAssumption PROVE Spec => []WalkIsSound
<1>1. ASSUME Typed PROVE NextKeyExists
  <2>. SUFFICES ASSUME ~Stops PROVE Choosable(Allowed) # {}
    BY DEF NextKeyExists
  <2>1. Eligible # {}
    BY DEF Stops
  <2>2. Allowed \in SUBSET Keys /\ Allowed \cap Active # {}
    BY <1>1, <2>1, AllowedIsFresh, Counting
  <2>. QED  BY <2>2, ChoiceFromAllowed
<1>2. IInv => WalkIsSound
  BY <1>1 DEF IInv, WalkIsSound
<1>. QED  BY <1>2, Invariance, PTL

=============================================================================

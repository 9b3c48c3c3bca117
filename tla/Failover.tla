------------------------------- MODULE Failover -------------------------------
(***************************************************************************)
(* One request's walk over the key pool                                    *)
(* (proxyRequestWithFailover of src/gateway/server.mjs with the verdict    *)
(* rules of src/gateway/failover-policy.mjs): circular passes over the     *)
(* keys the request's model may use, an attempt budget, a total deadline,  *)
(* and one answer to the client.  Other requests, the clock and the        *)
(* administrator change the keys while an attempt is in flight.            *)
(*                                                                         *)
(* An attempt's result and the decision it leads to are one JavaScript     *)
(* turn: nothing else moves while `at` is "deciding".                      *)
(***************************************************************************)
EXTENDS Integers, FiniteSets

CONSTANTS
  Keys, NoKey,
  Caps,        \* attempt caps a profile or the environment may configure
  MaxChanges   \* bound: changes of the pool by others during the request

ASSUME FailoverAssumption ==
  /\ NoKey \notin Keys /\ IsFiniteSet(Keys)
  /\ Caps \subseteq Nat \ {0} /\ MaxChanges \in Nat

VARIABLES
  avail,      \* what each key is to this request: see Availability
  changes,    \* bound: changes by others so far
  budget,     \* configuredMaxAttempts
  attempt,    \* attempts begun
  current,    \* the key of the attempt in flight
  attempted, cycle, answered, silent, discovered,
              \* attemptedKeyIds, cycleAttemptedKeyIds, answeredKeyIds, idleKeyIds,
              \* discoveredKeyIds
  markAnswered, markSilent,  \* removedKeyMarks
  seen,       \* the statuses in seenFailedStatuses
  loud,       \* nonSilentSeen
  overdue,    \* the deadline fired or has passed
  gone,       \* the client went away
  at,         \* "deciding" (tryNext runs), "attempt", "done"
  answer,     \* what the request ended with
  last        \* history: the last outcome of each key in this request

request == <<budget, attempt, current, attempted, cycle, answered, silent, discovered,
             markAnswered, markSilent, seen, loud, answer, last>>
vars == <<request, avail, changes, overdue, gone, at>>

\* ready: active, no backoff, not cooling down for the model.  removed: not in the
\* pool (not yet added, or deleted).
Availability == {"ready", "cooled", "backoff", "parked", "removed"}

Http     == {"429", "503", "401", "404"}  \* 404: a per-key NVCF dispatch failure
PoolWide == {"429", "503"}                \* isPoolWideCapableStatus
Silent   == {"idle", "timeout"}  \* idle: also DNS and refused; timeout: first byte
Retryable == Http \cup Silent \cup {"hangup", "cut"}
Outcomes  == Retryable \cup {"success", "final"}

Answer(kind, status, full) == [kind |-> kind, status |-> status, full |-> full]
Nothing == Answer("none", "", FALSE)

TypeOK ==
  /\ avail \in [Keys -> Availability] /\ changes \in Nat
  /\ budget \in Nat /\ attempt \in Nat
  /\ current \in Keys \cup {NoKey}
  /\ {attempted, cycle, answered, silent, discovered, markAnswered, markSilent}
       \subseteq SUBSET Keys
  /\ seen \subseteq Http
  /\ {loud, overdue, gone} \subseteq BOOLEAN
  /\ at \in {"deciding", "attempt", "done"}
  /\ answer \in [kind : {"none", "empty", "poolWide", "deadline", "idle", "exhausted",
                         "delivered", "aborted"},
                 status : Http \cup {""}, full : BOOLEAN]
  /\ last \in [Keys -> Outcomes \cup {"none"}]

(***************************************************************************)
(* What the pool offers.                                                   *)
(***************************************************************************)
Active  == {k \in Keys : avail[k] \in {"ready", "cooled", "backoff"}}
Ready   == {k \in Keys : avail[k] = "ready"}
Removed == {k \in Keys : avail[k] = "removed"}

\* When every active key is cooling down or backed off, the active pool is walked.
Eligible == IF Ready # {} THEN Ready ELSE Active

\* getNextKey among the keys not excluded: the model's own, then active ones
\* without a backoff, then a backed-off one.
Choosable(allowed) ==
  LET free == {k \in allowed \cap Active : avail[k] # "backoff"}
  IN IF allowed \cap Ready # {} THEN allowed \cap Ready
     ELSE IF free # {} THEN free ELSE allowed \cap Active

(***************************************************************************)
(* tryNext: the state of the pass and the reasons to stop.                 *)
(***************************************************************************)
\* A key removed during the request is not selected again; its last outcome counts.
Marked == attempted \cap Removed
PassIds == cycle \cup Eligible \cup Marked
PassComplete == Eligible # {} /\ Eligible \subseteq cycle
NowAnswered == answered \cup (markAnswered \cap Marked)
NowSilent   == silent \cup (markSilent \cap Marked)

\* A mutant: the budget grows by one at every decision.
BugMaxAttempts ==
  LET found == Cardinality(discovered \cup Eligible)
  IN IF found > budget THEN found ELSE budget + 1

\* A recovered or added key that was never eligible before widens the budget.
MaxAttempts ==
  LET found == Cardinality(discovered \cup Eligible)
  IN IF found > budget THEN found ELSE budget

\* shouldEarlyStopOnRateLimit
RateLimitStop ==
  /\ attempt > 0 /\ PassComplete
  /\ seen = {"429"} /\ PassIds \subseteq attempted

\* resolvePoolWideFailureStatus
PoolWideStatus ==
  LET coverage == Cardinality(PassIds)
      reachable == IF MaxAttempts < coverage THEN MaxAttempts ELSE coverage
  IN {s \in PoolWide : seen = {s} /\ Cardinality(attempted) >= reachable}

\* A mutant: earlier failures of other kinds are not looked at.
BugIdleRound == attempt > 0 /\ PassComplete /\ PassIds \subseteq NowSilent

\* Every key of one pass went silent, and nothing else failed in the request.
IdleRound == /\ attempt > 0 /\ PassComplete
             /\ PassIds \subseteq NowSilent /\ ~loud

Stops == \/ Eligible = {} \/ attempt >= MaxAttempts \/ overdue
         \/ RateLimitStop \/ (attempt > 0 /\ PassComplete /\ PoolWideStatus # {})
         \/ IdleRound

\* A mutant: a key counts as answered once it was tried.
BugCircleAnswered == PassIds # {} /\ PassIds \subseteq attempted

\* A claim about all keys needs a real answer of each key of the circle.
CircleAnswered == PassIds # {} /\ PassIds \subseteq NowAnswered

\* The verdict, in the order the code looks for one.
Verdict ==
  LET status == IF RateLimitStop THEN {"429"} ELSE PoolWideStatus
  IN IF attempt = 0 /\ Eligible = {} THEN Answer("empty", "", FALSE)
     ELSE IF status # {} THEN Answer("poolWide", CHOOSE s \in status : TRUE, CircleAnswered)
     ELSE IF overdue THEN Answer("deadline", "", FALSE)
     ELSE IF IdleRound THEN Answer("idle", "", FALSE)
     ELSE Answer("exhausted", "", FALSE)

Finish(a) ==
  /\ answer' = a /\ at' = "done" /\ current' = NoKey
  /\ UNCHANGED <<budget, attempt, attempted, cycle, answered, silent, discovered,
                 markAnswered, markSilent, seen, loud, last, avail, changes, overdue, gone>>

ClientGone == at = "deciding" /\ gone /\ Finish(Answer("aborted", "", FALSE))
GiveUp     == at = "deciding" /\ ~gone /\ Stops /\ Finish(Verdict)

\* The keys the next attempt may use, and what the pass starts from.
Allowed == IF PassComplete THEN Eligible ELSE Eligible \ cycle

\* A mutant: only the first attempt is counted.
BugAttempt(k) ==
  /\ at = "deciding" /\ ~gone /\ ~Stops
  /\ k \in Choosable(Allowed)
  /\ at' = "attempt" /\ current' = k /\ attempt' = IF attempt = 0 THEN 1 ELSE attempt
  /\ attempted' = attempted \cup {k}
  /\ discovered' = discovered \cup Eligible
  /\ cycle'    = (IF PassComplete THEN {} ELSE cycle) \cup {k}
  /\ answered' = IF PassComplete THEN {} ELSE NowAnswered
  /\ silent'   = IF PassComplete THEN {} ELSE NowSilent
  /\ UNCHANGED <<avail, budget, markAnswered, markSilent, seen, loud, answer, last, changes,
                 overdue, gone>>

Attempt(k) ==
  /\ at = "deciding" /\ ~gone /\ ~Stops
  /\ k \in Choosable(Allowed)
  /\ at' = "attempt" /\ current' = k /\ attempt' = attempt + 1
  /\ attempted' = attempted \cup {k}
  /\ discovered' = discovered \cup Eligible
  /\ cycle'    = (IF PassComplete THEN {} ELSE cycle) \cup {k}
  /\ answered' = IF PassComplete THEN {} ELSE NowAnswered
  /\ silent'   = IF PassComplete THEN {} ELSE NowSilent
  /\ IF avail[k] = "backoff"
       THEN \E a \in {"ready", "cooled"} : avail' = [avail EXCEPT ![k] = a]
       ELSE UNCHANGED avail
  /\ UNCHANGED <<budget, markAnswered, markSilent, seen, loud, answer, last, changes,
                 overdue, gone>>

(***************************************************************************)
(* The attempt's result.                                                   *)
(***************************************************************************)

\* What handleKeyError leaves behind: a 429 cools the key for the model (backs it
\* off when the request names none) or, with a quota body, parks it; 401 parks; a
\* 5xx, a first-byte timeout and a hang-up back off; idle, infrastructure and
\* dispatch failures and the deadline's cut cost nothing. A key that is not active
\* keeps its state.
Penalties(k, outcome) ==
  CASE k \notin Active -> {avail[k]}
    [] k \in Active /\ outcome = "429" -> {"cooled", "backoff", "parked"}
    [] k \in Active /\ outcome = "401" -> {"parked"}
    [] k \in Active /\ outcome \in {"503", "timeout", "hangup"} -> {"backoff"}
    [] OTHER -> {avail[k]}

\* A final result (a success, a client error, a stream already committed) ends it.
Delivers(k) ==
  /\ at = "attempt" /\ current = k
  /\ Finish(Answer("delivered", "", FALSE))

Marks(set, k, member) == IF member THEN set \cup {k} ELSE set \ {k}

\* A retryable result is recorded, and tryNext decides.
Fails(k, outcome) ==
  LET nowAnswered == answered \cup (IF outcome \in Http THEN {k} ELSE {})
      nowSilent   == silent \cup (IF outcome \in Silent THEN {k} ELSE {})
  IN /\ at = "attempt" /\ current = k
     /\ \E a \in Penalties(k, outcome) : avail' = [avail EXCEPT ![k] = a]
     /\ answered' = nowAnswered /\ markAnswered' = Marks(markAnswered, k, k \in nowAnswered)
     /\ silent' = nowSilent /\ markSilent' = Marks(markSilent, k, k \in nowSilent)
     /\ seen' = IF outcome \in Http THEN seen \cup {outcome} ELSE seen
     /\ loud' = (loud \/ outcome \notin Silent \cup {"cut"})
     /\ overdue' = (overdue \/ outcome = "cut")
     /\ last' = [last EXCEPT ![k] = outcome]
     /\ at' = "deciding" /\ current' = NoKey
     /\ UNCHANGED <<budget, attempt, attempted, cycle, discovered, answer, changes, gone>>

(***************************************************************************)
(* What happens around an attempt in flight.                               *)
(***************************************************************************)
\* Another request's verdict, an expired window, an administrator's change, a
\* deletion, its rollback, or a new key.
PoolChanges(k, a) ==
  /\ at = "attempt" /\ changes < MaxChanges /\ a # avail[k]
  /\ avail' = [avail EXCEPT ![k] = a]
  /\ changes' = changes + 1
  /\ UNCHANGED <<request, overdue, gone, at>>

DeadlinePasses == /\ at = "attempt" /\ ~overdue /\ overdue' = TRUE
                  /\ UNCHANGED <<request, avail, changes, gone, at>>
ClientLeaves   == /\ at = "attempt" /\ ~gone /\ gone' = TRUE
                  /\ UNCHANGED <<request, avail, changes, overdue, at>>

\* The configured cap, raised to the keys this request may use at its start.
Floor == IF Ready # {} THEN Cardinality(Ready)
         ELSE IF Active # {} THEN Cardinality(Active) ELSE 1

Init ==
  /\ avail \in [Keys -> Availability] /\ changes = 0
  /\ \E cap \in Caps : budget = IF cap > Floor THEN cap ELSE Floor
  /\ attempt = 0 /\ current = NoKey
  /\ attempted = {} /\ cycle = {} /\ answered = {} /\ silent = {} /\ discovered = {}
  /\ markAnswered = {} /\ markSilent = {} /\ seen = {}
  /\ loud = FALSE /\ overdue = FALSE /\ gone = FALSE
  /\ at = "deciding" /\ answer = Nothing /\ last = [k \in Keys |-> "none"]

Next ==
  \/ ClientGone \/ GiveUp \/ DeadlinePasses \/ ClientLeaves
  \/ \E k \in Keys : \/ Attempt(k) \/ Delivers(k)
                     \/ \E outcome \in Retryable : Fails(k, outcome)
                     \/ \E a \in Availability : PoolChanges(k, a)

Spec == Init /\ [][Next]_vars

\* tryNext runs to its end in its own turn, and every attempt is bounded by its
\* first-byte, idle and deadline timers.
Progress == ClientGone \/ GiveUp \/ \E k \in Keys : \/ Attempt(k) \/ Delivers(k)
                                     \/ \E outcome \in Retryable : Fails(k, outcome)
FairSpec == Spec /\ WF_vars(Progress)

-------------------------------------------------------------------------------
(***************************************************************************)
(* Properties.                                                             *)
(***************************************************************************)
\* An answer that speaks for all keys is true of every key the request might use at
\* that moment: each one's last outcome in this request is that very status,
\* although keys came, went and recovered on the way (circleAnswered).
HonestVerdict ==
  answer.kind = "poolWide" /\ answer.full => \A k \in Eligible : last[k] = answer.status

\* "Temporarily unavailable" after a silent round: every key that could serve was
\* tried, and no attempt of the request ended otherwise (idleRound).
HonestSilence ==
  answer.kind = "idle" => /\ Eligible \subseteq attempted
                          /\ \A k \in attempted : last[k] \in Silent

\* Rotation costs at most the budget: the configured cap, or one attempt for each
\* key the request ever found eligible (configuredMaxAttempts, discoveredKeyIds).
BudgetKept == attempt <= budget \/ attempt <= Cardinality(discovered)

\* While the loop goes on there is a key to select, so the "no available keys"
\* answer after failed attempts never happens (currentUnattemptedKeyIds against
\* the fallbacks of getNextKey).
NextKeyExists == at = "deciding" /\ ~gone /\ ~Stops => Choosable(Allowed) # {}

\* The walk over the pool neither runs away nor ends early.
WalkIsSound == BudgetKept /\ NextKeyExists

\* server.mjs says of the budget: it "must cover the keys this request may use (the
\* model's eligible set, else the whole active pool)".
BudgetCoversEligible ==
  answer.kind \in {"poolWide", "exhausted", "idle"} /\ ~overdue => Eligible \subseteq attempted

===============================================================================

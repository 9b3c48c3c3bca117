------------------------------- MODULE KeyPool -------------------------------
(***************************************************************************)
(* The key pool of the gateway child (src/gateway/rotation.mjs together    *)
(* with src/gateway/model-key-affinity.mjs): keys are parked by upstream   *)
(* verdicts, reclaimed by a sweep, pinned to models, and changed by the    *)
(* administrator, while requests that already hold a key are in flight.    *)
(*                                                                         *)
(* One JavaScript turn is one action: the child is single-threaded, and    *)
(* everything between two awaits of the code is atomic here.               *)
(***************************************************************************)
EXTENDS Integers, FiniteSets

CONSTANTS
  Keys,          \* key ids (UUIDs in the code)
  Models,        \* model ids a request may name
  Requests,      \* slots for requests in flight
  NoModel,       \* a request that names no model
  NoKey,         \* "no key": an idle slot, a model without a pin
  ShortBackoffs, \* durations of a 429 / 5xx backoff (10 s, 20 s, Retry-After)
  MaxBackoff,    \* MAX_BACKOFF_MS and MAX_MODEL_COOLDOWN_MS
  QuotaBase, QuotaMax,   \* QUOTA_RETRY_BASE_MS, QUOTA_RETRY_MAX_MS
  AuthBase, AuthMax,     \* AUTH_RETRY_BASE_MS, AUTH_RETRY_MAX_MS
  PinTTL,        \* AFFINITY_TTL_MS
  MaxNow,        \* bound: last instant of the clock
  MaxFails,      \* bound: length of a retry ladder
  ClockStepsBack \* may the wall clock be set back (NTP, resume from sleep)?

ASSUME KeyPoolAssumption ==
  /\ NoModel \notin Models /\ NoKey \notin Keys /\ IsFiniteSet(Keys)
  /\ MaxBackoff \in Nat /\ QuotaBase \in Nat \ {0} /\ QuotaMax \in Nat
  /\ AuthBase \in Nat \ {0} /\ AuthMax \in Nat
  /\ QuotaBase <= QuotaMax /\ AuthBase <= AuthMax
  /\ ShortBackoffs \subseteq (1 .. MaxBackoff)
  /\ PinTTL \in Nat /\ MaxNow \in Nat /\ MaxFails \in Nat
  /\ ClockStepsBack \in BOOLEAN

VARIABLES
  now,        \* Date.now()
  pool,       \* the ids in `keys`
  issued,     \* the ids ever drawn: randomUUID never draws one twice
  keys,       \* the record of each key (meaningful for ids in pool)
  quotaFails, \* quotaRetries: consecutive quota verdicts, 0 when absent
  authFails,  \* authRetries
  newer,      \* usage.lastUsed as an order: newer[k] were used after k
  pins,       \* assignments: model -> [key, at]
  cool,       \* cooldowns: the instant until which (model, key) is parked
  flight,     \* the key and model each request in flight is using
  mut,        \* the durable mutation awaiting its acknowledgement
  intent      \* history: what the administrator last asked of each key

vars == <<now, pool, issued, keys, quotaFails, authFails, newer, pins, cool, flight,
          mut, intent>>

Statuses == {"active", "disabled", "quota-exceeded"}

\* A key record. marker is parkedReason; prov is the disable provenance:
\* disabledBy = "admin", the in-memory legacyDisabled flag, or neither.
KeyRecord == [status : Statuses, backoff : Nat,
              marker : {"none", "auth"}, prov : {"none", "admin", "legacy"}]

Fresh == [status |-> "active", backoff |-> 0, marker |-> "none", prov |-> "none"]

\* Disabled until an administrator acts.
Disabled(by) == [status |-> "disabled", backoff |-> 0, marker |-> "none", prov |-> by]

Idle  == [key |-> NoKey, model |-> NoModel]
NoPin == [key |-> NoKey, at |-> 0]
NoMut == [op |-> "none", key |-> NoKey]

Flights == [key : Keys \cup {NoKey}, model : Models \cup {NoModel}]
Pins    == [key : Keys \cup {NoKey}, at : Nat]

\* What executeDurableMutation keeps for the rollback of a mutation of one key:
\* its record, its ladders, and the routing references removeKeyReferences drops.
Snapshot == [op : {"add", "remove", "set"}, key : Keys, rec : KeyRecord, quotaFails : Nat,
             authFails : Nat, pins : [Models -> Pins], cool : [Models -> Nat],
             intent : Statuses]

TypeOK ==
  /\ now \in Nat
  /\ pool \in SUBSET Keys /\ issued \in SUBSET Keys
  /\ keys \in [Keys -> KeyRecord]
  /\ quotaFails \in [Keys -> Nat] /\ authFails \in [Keys -> Nat]
  /\ newer \in [Keys -> SUBSET Keys]
  /\ pins \in [Models -> Pins]
  /\ cool \in [Models -> [Keys -> Nat]]
  /\ flight \in [Requests -> Flights]
  /\ mut \in {NoMut} \cup Snapshot
  /\ intent \in [Keys -> Statuses]

-----------------------------------------------------------------------------
(* Pure rules *)

\* Disabled until an administrator acts: no runtime-park marker (adminHeld).
Held(r) == r.status = "disabled" /\ r.marker # "auth"

\* The window of the nth consecutive failure doubles from base up to max.
RetryWindow(base, max, n) ==
  IF base * 2^n \in base .. max THEN base * 2^n ELSE max

\* The widest window the sweep tolerates on a record.
ClampMax(r) == CASE r.marker = "auth" -> AuthMax
                 [] r.marker # "auth" /\ r.status = "quota-exceeded" -> QuotaMax
                 [] OTHER -> MaxBackoff

BugClamped(r) == r   \* a mutant: the sweep forgets the clamp

Clamped(r) ==
  IF r.backoff > now + ClampMax(r)
  THEN [r EXCEPT !.backoff = now + ClampMax(r)] ELSE r

QuotaDue(r) == r.status = "quota-exceeded" /\ r.backoff <= now
AuthDue(r)  == /\ r.status = "disabled" /\ r.marker = "auth"
               /\ r.backoff > 0 /\ r.backoff <= now

WithoutAdmin(p) == IF p = "admin" THEN "none" ELSE p

Reclaimed(r) ==
  LET c == Clamped(r) IN
  CASE QuotaDue(c) -> [c EXCEPT !.status = "active", !.backoff = 0,
                                !.prov = WithoutAdmin(@)]
    [] AuthDue(c)  -> [c EXCEPT !.status = "active", !.backoff = 0,
                                !.marker = "none", !.prov = WithoutAdmin(@)]
    [] OTHER -> c

\* reclaimDueParkedKeys over the whole pool.
Swept == [k \in Keys |-> IF k \in pool THEN Reclaimed(keys[k]) ELSE keys[k]]

\* Usable now, in a pool of records s, whatever the model.
GloballyAvailable(s, k) ==
  k \in pool /\ s[k].status = "active" /\ s[k].backoff <= now

Eligible(s, m) == {k \in Keys : GloballyAvailable(s, k) /\ cool[m][k] <= now}

\* A mutant: a pin from the future is backdated past its life instead of cut to the present.
BugPinSeen(p) == IF p.at > now THEN [p EXCEPT !.at = now - PinTTL - 1] ELSE p

\* A pin made in the future (the clock stepped back) counts from now on.
PinSeen(p) == IF p.at > now THEN [p EXCEPT !.at = now] ELSE p
PinLive(p) == p.key # NoKey /\ now - p.at <= PinTTL

\* The keys other models hold (liveHolders).
HeldByOthers(m) == {pins[o].key : o \in {o \in Models \ {m} : PinLive(PinSeen(pins[o]))}}

\* The members of S no other member is older than.
LeastRecentlyUsed(S) == {k \in S : \A j \in S : k \notin newer[j]}

\* Whom selectKeyForModel may return among the candidates C of model m.
AffineChoice(C, m) ==
  LET free == C \ HeldByOthers(m) IN
  IF PinLive(PinSeen(pins[m])) /\ pins[m].key \in C THEN {pins[m].key}
  ELSE LeastRecentlyUsed(IF free # {} THEN free ELSE C)

\* lastUsed = Date.now(). (A clock set back stamps k older than some keys used before
\* it; here k is always the newest. The exclusion sets of later selections are free,
\* so both orders reach the same choices.)
Touch(k) == newer' = [j \in Keys |-> IF j = k THEN {} ELSE newer[j] \cup {k}]

\* The key chosen by getNextKey when no key is affine: least recently used of
\* the available ones, else the active key whose backoff ends first.
PoolChoice(s, excluded) ==
  LET avail == {k \in Keys \ excluded : GloballyAvailable(s, k)}
      waiting == {k \in pool \ excluded : s[k].status = "active"}
      soonest == {k \in waiting : \A j \in waiting : s[k].backoff <= s[j].backoff}
  IN  IF avail # {} THEN LeastRecentlyUsed(avail) ELSE LeastRecentlyUsed(soonest)

-----------------------------------------------------------------------------
(* Selection: getNextKey and getCurrentEligibleKeyIds *)

\* A mutant: a cooldown from before a step back is taken at its word.
BugCoolSeen(s, m) == [k \in Keys |-> cool[m][k]]

\* isRateLimited cuts a cooldown that outlives the cap (only after a step back).
CoolSeen(s, m) ==
  [k \in Keys |-> IF GloballyAvailable(s, k) /\ cool[m][k] > now + MaxBackoff
                  THEN now + MaxBackoff ELSE cool[m][k]]

\* A mutant: a request for a model waits for a key that is free for the model.
BugChoice(s, m, excluded) ==
  IF m = NoModel THEN PoolChoice(s, excluded) ELSE AffineChoice(Eligible(s, m) \ excluded, m)

\* Whom getNextKey may return: a key affine to the model, else any pool choice.
Choice(s, m, excluded) ==
  LET C == IF m = NoModel THEN {} ELSE Eligible(s, m) \ excluded
  IN  IF C # {} THEN AffineChoice(C, m) ELSE PoolChoice(s, excluded)

\* The pins selection looked at, and so moved to the present.
PinsAfter(s, m, excluded) ==
  LET C == IF m = NoModel THEN {} ELSE Eligible(s, m) \ excluded
      sticky == PinLive(PinSeen(pins[m])) /\ pins[m].key \in C
  IN  [o \in Models |-> IF C # {} /\ (o = m \/ ~sticky)
                        THEN PinSeen(pins[o]) ELSE pins[o]]

\* getNextKey: sweep, choose, and end the backoff of a key handed out early.
Select(r, m, excluded) ==
  /\ flight[r] = Idle
  /\ LET s == Swept IN
       /\ \E k \in Choice(s, m, excluded) :
            /\ keys' = [s EXCEPT ![k].backoff = IF s[k].backoff > now THEN 0 ELSE @]
            /\ flight' = [flight EXCEPT ![r] = [key |-> k, model |-> m]]
            /\ Touch(k)
       /\ pins' = PinsAfter(s, m, excluded)
       /\ cool' = IF m = NoModel THEN cool ELSE [cool EXCEPT ![m] = CoolSeen(s, m)]
  /\ UNCHANGED <<now, pool, issued, quotaFails, authFails, mut, intent>>

\* getNextKey returning null and getCurrentEligibleKeyIds: the sweep alone.
SweepOnly(m) ==
  /\ keys' = Swept
  /\ cool' = IF m = NoModel THEN cool ELSE [cool EXCEPT ![m] = CoolSeen(Swept, m)]
  /\ UNCHANGED <<now, pool, issued, quotaFails, authFails, newer, pins, flight,
                 mut, intent>>

-----------------------------------------------------------------------------
(* Outcomes of a request in flight: handleKeyError and the success path *)

\* Every outcome ends the attempt and stamps lastUsed of a key still in pool.
Outcome(r, k) ==
  /\ flight[r] # Idle /\ flight[r].key = k
  /\ flight' = [flight EXCEPT ![r] = Idle]
  /\ IF k \in pool THEN Touch(k) ELSE UNCHANGED newer
  /\ UNCHANGED <<now, pool, issued, mut, intent>>

\* A mutant: the adminHeld guard is missing.
BugPenalizable(k) == k \in pool

\* May a verdict move this key? Not one that left, nor one an admin holds.
Penalizable(k) == k \in pool /\ ~Held(keys[k])

\* 401 / 403: park behind the auth ladder and stamp the marker.
AuthVerdict(r, k) ==
  /\ Outcome(r, k) /\ Penalizable(k)
  /\ authFails[k] < MaxFails
  /\ keys' = [keys EXCEPT ![k] =
                [status |-> "disabled", marker |-> "auth", prov |-> "none",
                 backoff |-> now + RetryWindow(AuthBase, AuthMax, authFails[k])]]
  /\ authFails' = [authFails EXCEPT ![k] = @ + 1]
  /\ UNCHANGED <<quotaFails, pins, cool>>

\* 429 whose body says the credits are gone: park behind the quota ladder.
QuotaVerdict(r, k) ==
  /\ Outcome(r, k) /\ Penalizable(k)
  /\ quotaFails[k] < MaxFails
  /\ keys' = [keys EXCEPT ![k] =
                [@ EXCEPT !.status = "quota-exceeded", !.prov = "none",
                   !.backoff = now + RetryWindow(QuotaBase, QuotaMax, quotaFails[k])]]
  /\ quotaFails' = [quotaFails EXCEPT ![k] = @ + 1]
  /\ UNCHANGED <<authFails, pins, cool>>

\* 429 of a request that names a model: the pair cools down, the key does not.
ModelRateLimit(r, k, d) ==
  /\ Outcome(r, k) /\ Penalizable(k)
  /\ LET m == flight[r].model IN
       /\ m # NoModel
       /\ cool' = [cool EXCEPT ![m][k] = now + d]
  /\ UNCHANGED <<keys, quotaFails, authFails, pins>>

\* 5xx, or a 429 of a request without a model: a short backoff pool-wide.
ShortBackoff(r, k, d) ==
  /\ Outcome(r, k) /\ Penalizable(k)
  /\ keys' = [keys EXCEPT ![k].backoff = now + d]
  /\ UNCHANGED <<quotaFails, authFails, pins, cool>>

\* Any other failure, and every failure of a key held by an admin or removed,
\* only counts; so does a request abandoned by its client.
CountedFailure(r, k) ==
  /\ Outcome(r, k)
  /\ UNCHANGED <<keys, quotaFails, authFails, pins, cool>>

\* A served request: the ladders start over and the model is pinned to the key.
Success(r, k) ==
  /\ Outcome(r, k)
  /\ LET cleared(f) == IF k \in pool THEN [f EXCEPT ![k] = 0] ELSE f IN
       /\ quotaFails' = cleared(quotaFails) /\ authFails' = cleared(authFails)
  /\ LET m == flight[r].model IN
       pins' = IF m = NoModel THEN pins
               ELSE [pins EXCEPT ![m] = [key |-> k, at |-> now]]
  /\ UNCHANGED <<keys, cool>>

-----------------------------------------------------------------------------
(* Durable administrator mutations: visible at once, rolled back on failure *)

SnapshotOf(op, k) ==
  [op |-> op, key |-> k, rec |-> keys[k],
   quotaFails |-> quotaFails[k], authFails |-> authFails[k],
   pins |-> [m \in Models |->
               IF op = "remove" /\ pins[m].key = k THEN pins[m] ELSE NoPin],
   cool |-> [m \in Models |-> IF op = "remove" THEN cool[m][k] ELSE 0],
   intent |-> intent[k]]

Begin(op, k) ==
  /\ mut = NoMut
  /\ mut' = SnapshotOf(op, k)
  /\ UNCHANGED <<now, newer, flight>>

AddKey(k) ==
  /\ k \notin issued
  /\ Begin("add", k)
  /\ pool' = pool \cup {k} /\ issued' = issued \cup {k}
  /\ keys' = [keys EXCEPT ![k] = Fresh]
  /\ intent' = [intent EXCEPT ![k] = "active"]
  /\ UNCHANGED <<quotaFails, authFails, pins, cool>>

RemoveKey(k) ==
  /\ k \in pool
  /\ Begin("remove", k)
  /\ pool' = pool \ {k}
  /\ keys' = [keys EXCEPT ![k] = Fresh]
  /\ quotaFails' = [quotaFails EXCEPT ![k] = 0]
  /\ authFails' = [authFails EXCEPT ![k] = 0]
  /\ pins' = [m \in Models |-> IF pins[m].key = k THEN NoPin ELSE pins[m]]
  /\ cool' = [m \in Models |-> [cool[m] EXCEPT ![k] = 0]]
  /\ intent' = [intent EXCEPT ![k] = "active"]
  /\ UNCHANGED issued

\* The record after an administrator's status change (with applyAdminProvenance).
AdminRecord(r, status, fails) ==
  CASE status = "active" -> Fresh
    [] status = "disabled" -> Disabled("admin")
    [] status = "quota-exceeded" ->
         [r EXCEPT !.status = "quota-exceeded", !.prov = "none",
                   !.backoff = now + RetryWindow(QuotaBase, QuotaMax, fails)]

SetKeyStatus(k, status) ==
  /\ k \in pool
  /\ Begin("set", k)
  /\ keys' = [keys EXCEPT ![k] = AdminRecord(@, status, quotaFails[k])]
  /\ LET reset(f) == IF status = "active" THEN [f EXCEPT ![k] = 0] ELSE f IN
       /\ quotaFails' = reset(quotaFails) /\ authFails' = reset(authFails)
  /\ intent' = [intent EXCEPT ![k] = status]
  /\ UNCHANGED <<pool, issued, pins, cool>>

\* The main process acknowledged the projection.
CommitMutation ==
  /\ mut # NoMut
  /\ mut' = NoMut
  /\ UNCHANGED <<now, pool, issued, keys, quotaFails, authFails, newer, pins,
                 cool, flight, intent>>

\* mergeRollback: the touched key is restored wholesale, the others stay live;
\* a failed removal also restores the key's pins and cooldowns verbatim.
RollbackMutation ==
  /\ mut # NoMut
  /\ LET k == mut.key IN
       /\ pool' = IF mut.op = "add" THEN pool \ {k} ELSE pool \cup {k}
       /\ keys' = [keys EXCEPT ![k] = mut.rec]
       /\ quotaFails' = [quotaFails EXCEPT ![k] = mut.quotaFails]
       /\ authFails' = [authFails EXCEPT ![k] = mut.authFails]
       /\ intent' = [intent EXCEPT ![k] = mut.intent]
       /\ IF mut.op = "remove"
          THEN /\ pins' = [m \in Models |->
                            IF mut.pins[m] # NoPin THEN mut.pins[m] ELSE pins[m]]
               /\ cool' = [m \in Models |->
                            [cool[m] EXCEPT ![k] = IF mut.cool[m] # 0
                                                   THEN mut.cool[m] ELSE @]]
          ELSE UNCHANGED <<pins, cool>>
  /\ mut' = NoMut
  /\ UNCHANGED <<now, issued, newer, flight>>

-----------------------------------------------------------------------------
(* Time, and a child reloading the state it flushed *)

Tick == /\ now < MaxNow
        /\ now' = now + 1
        /\ UNCHANGED <<pool, issued, keys, quotaFails, authFails, newer, pins,
                       cool, flight, mut, intent>>

StepBack == /\ ClockStepsBack
            /\ now' \in 0 .. (now - 1)
            /\ UNCHANGED <<pool, issued, keys, quotaFails, authFails, newer, pins,
                           cool, flight, mut, intent>>

\* Mutants: normalize drops the window of every disabled record; it flags every
\* disabled record without an administrator's stamp as a legacy disable.
BugLoadedWindow(r) == [r EXCEPT !.backoff = IF r.status = "disabled" THEN 0 ELSE @]
BugLoadedProvenance(r) ==
  [r EXCEPT !.prov = IF @ # "admin" /\ r.status = "disabled" THEN "legacy" ELSE @]

\* normalize: a disabled record without the marker loses its window, and one
\* without provenance is flagged as a legacy disable.
Loaded(r) ==
  LET p == WithoutAdmin(r.prov)
      adminStamp == r.prov = "admin" IN
  [r EXCEPT !.backoff = IF Held(r) THEN 0 ELSE @,
            !.prov = CASE adminStamp -> "admin"
                       [] ~adminStamp /\ Held(r) -> "legacy"
                       [] OTHER -> "none"]

\* A graceful restart: projectKeyState, the file, normalize, pruneExpired. The
\* ladders live in memory only; requests in flight die with the child.
Reload ==
  /\ mut = NoMut
  /\ keys' = [k \in Keys |-> IF k \in pool THEN Loaded(keys[k]) ELSE keys[k]]
  /\ quotaFails' = [k \in Keys |-> 0] /\ authFails' = [k \in Keys |-> 0]
  /\ pins' = [m \in Models |-> IF PinLive(PinSeen(pins[m])) THEN PinSeen(pins[m]) ELSE NoPin]
  /\ cool' = [m \in Models |-> [k \in Keys |->
                IF cool[m][k] <= now THEN 0
                ELSE IF cool[m][k] > now + MaxBackoff THEN now + MaxBackoff
                ELSE cool[m][k]]]
  /\ flight' = [r \in Requests |-> Idle]
  /\ UNCHANGED <<now, pool, issued, newer, mut, intent>>

-----------------------------------------------------------------------------
\* A pool as an earlier run left it: keys active, or disabled by an admin, or
\* disabled without provenance by an old version.
Init ==
  /\ now = 0
  /\ pool \in SUBSET Keys /\ issued = pool
  /\ keys \in [Keys -> {Fresh, Disabled("admin"), Disabled("legacy")}]
  /\ \A k \in Keys \ pool : keys[k] = Fresh
  /\ quotaFails = [k \in Keys |-> 0] /\ authFails = [k \in Keys |-> 0]
  /\ newer = [k \in Keys |-> {}]
  /\ pins = [m \in Models |-> NoPin]
  /\ cool = [m \in Models |-> [k \in Keys |-> 0]]
  /\ flight = [r \in Requests |-> Idle]
  /\ mut = NoMut
  /\ intent = [k \in Keys |-> keys[k].status]

Verdict(r, k) ==
  \/ AuthVerdict(r, k)
  \/ QuotaVerdict(r, k)
  \/ \E d \in ShortBackoffs : ModelRateLimit(r, k, d) \/ ShortBackoff(r, k, d)
  \/ CountedFailure(r, k)
  \/ Success(r, k)

Administer ==
  \/ \E k \in Keys : AddKey(k) \/ RemoveKey(k)
  \/ \E k \in Keys, status \in Statuses : SetKeyStatus(k, status)
  \/ CommitMutation \/ RollbackMutation

Next ==
  \/ \E r \in Requests, m \in Models \cup {NoModel}, excluded \in SUBSET Keys :
       Select(r, m, excluded)
  \/ \E m \in Models \cup {NoModel} : SweepOnly(m)
  \/ \E r \in Requests, k \in Keys : Verdict(r, k)
  \/ Administer
  \/ Tick \/ StepBack \/ Reload

Spec == Init /\ [][Next]_vars

-----------------------------------------------------------------------------
(* Properties *)

\* "Every automatic penalty is temporary; only an admin disable is permanent"
\* (tests/e3-r6-recovery.test.mjs:3): a key of the pool is disabled without the
\* runtime marker exactly when the administrator's last request for it, not
\* counting requests rolled back, was to disable it. No late verdict, sweep,
\* rollback or reload turns a hold into a park the sweep would undo, nor a park
\* into a hold nobody asked for.
HoldIsOperatorIntent ==
  \A k \in pool : Held(keys[k]) <=> intent[k] = "disabled"

\* The provenance shown to the administrator is that of the hold: a held key
\* always carries "admin" or the legacy flag, and no other key does.
ProvenanceIsTruthful ==
  \A k \in pool : Held(keys[k]) <=> keys[k].prov # "none"

\* An auth park always has an end the sweep will see: the sweep revives only a
\* window that is set, so a park with window 0 would be permanent.
AuthParkEnds ==
  \A k \in pool : keys[k].status = "disabled" /\ keys[k].marker = "auth"
                    => keys[k].backoff > 0

\* A selection sweeps first, so afterwards no key waits longer than the cap of
\* its state, even when the clock was set back under a running window.
SweepBoundsWindows ==
  [][\A r \in Requests : flight[r] = Idle /\ flight'[r] # Idle =>
       \A k \in pool : keys'[k].backoff <= now + ClampMax(keys'[k])]_vars

\* The same for a model: a cooldown that selection honours ends within the cap.
SelectionBoundsCooldowns ==
  [][\A r \in Requests : flight[r] = Idle /\ flight'[r].model # NoModel =>
       \A k \in pool \ {flight'[r].key} :
         keys'[k].status = "active" /\ keys'[k].backoff <= now
         => cool'[flight'[r].model][k] <= now + MaxBackoff]_vars

\* Whatever the pins, cooldowns and order of use, getNextKey answers null only
\* when no active key is left outside the excluded ones, and what it answers is
\* such a key: neither affinity nor a cooldown may starve a request.
SelectionNeverStrands ==
  LET s == Swept IN
  \A m \in Models \cup {NoModel}, excluded \in SUBSET Keys :
    LET active == {k \in pool \ excluded : s[k].status = "active"}
        choice == Choice(s, m, excluded)
    IN  choice \subseteq active /\ (active # {} => choice # {})

=============================================================================

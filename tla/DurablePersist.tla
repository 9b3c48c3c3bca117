---------------------------- MODULE DurablePersist ----------------------------
(***************************************************************************)
(* How a key change becomes durable. The gateway child owns the live keys  *)
(* (src/gateway/rotation.mjs) and has no file: it sends projections over   *)
(* an ordered ipc channel to the Electron main process, which writes them  *)
(* to the encrypted store (src/main/private-state-channel.ts, index.ts) and*)
(* acknowledges the durable ones. An administrator's change is visible at  *)
(* once, answered only after the acknowledgement, and rolled back when it  *)
(* is refused, times out, or the channel closes.                           *)
(*                                                                         *)
(* A write of the store runs to its end inside one turn of the main        *)
(* process, so handling one message is one action.                         *)
(*                                                                         *)
(* The code breaks an answer in two cases, and nothing here rules them out:*)
(* a child started with the state of the launch serves another value than  *)
(* the one answered, and a request is acknowledged again as a replay after *)
(* a background save failed once the primary file was replaced. The history*)
(* "voided" holds the keys whose answer met one of them. The properties    *)
(* speak of the other answers; the runs durable_stale_v and durable_replay_v*)
(* show the two cases.                                                     *)
(***************************************************************************)
EXTENDS Integers, Sequences

CONSTANTS
  Keys,            \* credentials the administrator manages
  DurableFaults,   \* how the write of a durable request may fail
  SaveFaults,      \* how the write of a background save may fail
  ChildMayRestart, \* may the child be replaced while the application runs?
  MaxUse,          \* bound: changes of runtime data (usage counters, parks)
  MaxRequests,     \* bound: durable requests of one application run
  MaxLaunches      \* bound: launches of the application

\* A write fails before the primary file is replaced, or between the
\* replacement of the primary file and that of the recovery file.
Faults == {"before-primary", "after-primary"}

ASSUME DurablePersistAssumption ==
  /\ DurableFaults \subseteq Faults /\ SaveFaults \subseteq Faults
  /\ ChildMayRestart \in BOOLEAN
  /\ MaxUse \in Nat /\ MaxRequests \in Nat /\ MaxLaunches \in Nat

VARIABLES
  child,      \* "up", "closing" (flushed, channel closing) or "down"
  keys,       \* child: what each credential is
  use,        \* child: runtime data, which any save carries along
  unsaved,    \* child: the debounced save timer is armed
  deferred,   \* child: deferredSave
  revision,   \* child: persistenceRevision
  mut,        \* child: the durable mutation awaiting its answer
  toMain,     \* ipc channel to the main process
  toChild,    \* ipc channel to the child
  ledger,     \* main: lastPersistedRevision
  recorded,   \* main: lastPersistedProjection
  launch,     \* main: the initialState the lifecycle starts every child with
  disk,       \* the primary file
  launches,   \* counts launches of the application
  requests,   \* counts durable requests: their ids (a UUID in the code)
  failures,   \* history: how background saves have failed since a write last succeeded
  answered,   \* history: the value last answered "done" and not changed since
  voided      \* history: keys whose answer one of the code's two known gaps may break

vars == <<child, keys, use, unsaved, deferred, revision, mut, toMain, toChild,
          ledger, recorded, launch, disk, launches, requests, failures, answered, voided>>
childVars == <<child, keys, use, unsaved, deferred, revision, mut>>
mainVars  == <<ledger, recorded, launch, disk, launches, failures>>

Values == {"absent", "active", "disabled"}
Projection == [keys : [Keys -> Values], use : Nat]
NoMut      == [id |-> 0]
Mutation   == [id : Nat \ {0}, key : Keys, old : Values, new : Values,
               revision : Nat \ {0}, attempt : {1, 2}]
Nothing    == [use |-> 0]   \* no projection recorded yet
Unknown    == "unknown"     \* no answer stands

Durable(s, id, rev) == [type |-> "durable", state |-> s, id |-> id, revision |-> rev]
Legacy(s)           == [type |-> "legacy", state |-> s]
Ack(id, rev)        == [type |-> "ack", id |-> id, revision |-> rev]
Rejected(id, code)  == [type |-> "rejected", id |-> id, code |-> code, ledger |-> ledger]

ToMain  == [type : {"durable"}, state : Projection, id : Nat \ {0}, revision : Nat \ {0}]
             \cup [type : {"legacy"}, state : Projection]
ToChild == [type : {"ack"}, id : Nat \ {0}, revision : Nat \ {0}]
             \cup [type : {"rejected"}, id : Nat \ {0}, code : {"revision", "write-failed"},
                   ledger : Nat]

TypeOK ==
  /\ child \in {"up", "closing", "down"}
  /\ keys \in [Keys -> Values] /\ use \in Nat
  /\ unsaved \in BOOLEAN /\ deferred \in BOOLEAN
  /\ revision \in Nat
  /\ mut \in {NoMut} \cup Mutation
  /\ toMain \in Seq(ToMain) /\ toChild \in Seq(ToChild)
  /\ ledger \in Nat /\ recorded \in {Nothing} \cup Projection
  /\ launch \in Projection /\ disk \in Projection
  /\ launches \in Nat /\ requests \in Nat
  /\ failures \in SUBSET Faults
  /\ answered \in [Keys -> Values \cup {Unknown}] /\ voided \in SUBSET Keys

-----------------------------------------------------------------------------
(* The child *)

Project(ks) == [keys |-> ks, use |-> use]   \* projectKeyState

\* A mutant: the deferred save is forgotten when the mutation settles.
BugSavesAfter(ks, reconcile) == IF reconcile THEN <<Legacy(Project(ks))>> ELSE <<>>

\* The legacy saves due when a mutation settles with live keys ks: the reconcile
\* write of a rollback, then the save deferred while the mutation was pending.
SavesAfter(ks, reconcile) ==
  (IF reconcile THEN <<Legacy(Project(ks))>> ELSE <<>>)
    \o (IF deferred THEN <<Legacy(Project(ks))>> ELSE <<>>)

\* A request, a sweep, a verdict: runtime data changes and a save is scheduled.
RuntimeChange ==
  /\ child = "up" /\ use < MaxUse
  /\ use' = use + 1 /\ unsaved' = TRUE
  /\ UNCHANGED <<child, keys, deferred, revision, mut, toMain, toChild, mainVars,
                 requests, answered, voided>>

\* saveState when the debounce timer fires.
Save ==
  /\ child = "up" /\ unsaved
  /\ unsaved' = FALSE
  /\ IF mut # NoMut
     THEN deferred' = TRUE /\ UNCHANGED toMain
     ELSE toMain' = Append(toMain, Legacy(Project(keys))) /\ UNCHANGED deferred
  /\ UNCHANGED <<child, keys, use, revision, mut, toChild, mainVars, requests, answered, voided>>

\* A mutant: the request is stamped with the revision already used.
BugAsked(k, new, rev, attempt) ==
  [id |-> requests + 1, key |-> k, old |-> keys[k], new |-> new,
   revision |-> rev - 1, attempt |-> attempt]

\* What executeDurableMutation remembers of a change of key k, asked at rev.
Asked(k, new, rev, attempt) ==
  [id |-> requests + 1, key |-> k, old |-> keys[k], new |-> new,
   revision |-> rev, attempt |-> attempt]

\* An administrator's add, status change or remove starts: it is visible at once.
Begin(k, new) ==
  /\ child = "up" /\ mut = NoMut /\ requests < MaxRequests
  /\ keys[k] = "absent" => new = "active"
  /\ mut' = Asked(k, new, revision + 1, 1)
  /\ requests' = requests + 1
  /\ keys' = [keys EXCEPT ![k] = new]
  /\ toMain' = Append(toMain, Durable(Project(keys'), mut'.id, mut'.revision))
  /\ answered' = [answered EXCEPT ![k] = Unknown] /\ voided' = voided \ {k}
  /\ UNCHANGED <<child, use, unsaved, deferred, revision, toChild, mainVars>>

Expected == mut # NoMut /\ toChild # <<>> /\ Head(toChild).id = mut.id

\* A late answer, of a request already given up, finds no waiter.
DropLate ==
  /\ child = "up" /\ toChild # <<>> /\ ~Expected
  /\ toChild' = Tail(toChild)
  /\ UNCHANGED <<childVars, toMain, mainVars, requests, answered, voided>>

\* The exact acknowledgement arrives: the change stands and is answered.
Commit ==
  /\ child = "up" /\ Expected
  /\ Head(toChild).type = "ack" /\ Head(toChild).revision = mut.revision
  /\ toChild' = Tail(toChild)
  /\ revision' = mut.revision
  /\ answered' = [answered EXCEPT ![mut.key] = mut.new]
  /\ voided' = IF "after-primary" \in failures THEN voided \cup {mut.key} ELSE voided
  /\ mut' = NoMut /\ deferred' = FALSE
  /\ toMain' = toMain \o SavesAfter(keys, FALSE)
  /\ UNCHANGED <<child, keys, use, unsaved, mainVars, requests>>

\* A mutant: an answer that may follow a partial write is not reconciled either.
BugMustReconcile(reply) == FALSE

\* Did the refusal leave the disk in doubt? Only a refusal of the revision, which
\* precedes any write, proves that it did not.
MustReconcile(reply) == reply.code = "write-failed"

RolledBack == [keys EXCEPT ![mut.key] = mut.old]   \* mergeRollback

\* The mutation fails for good: roll back, reconcile the disk where in doubt.
GiveUp(reconcile) ==
  /\ keys' = RolledBack
  /\ mut' = NoMut /\ deferred' = FALSE
  /\ toMain' = toMain \o SavesAfter(RolledBack, reconcile)
  /\ UNCHANGED <<child, use, unsaved, revision, mainVars, requests, answered, voided>>

\* The refusal shows a ledger ahead of ours: a change believed lost was committed.
LedgerAhead == Head(toChild).ledger > revision /\ mut.attempt = 1

\* The main process refused: final, unless its ledger is ahead of ours.
Refused ==
  /\ child = "up" /\ Expected /\ Head(toChild).type = "rejected"
  /\ ~LedgerAhead
  /\ toChild' = Tail(toChild)
  /\ GiveUp(MustReconcile(Head(toChild)))

\* A mutant: the retry keeps the stale counter instead of adopting the ledger.
BugRetryRevision(reply) == revision + 1

\* The revision of the retry: our counter is fast-forwarded to the ledger first.
RetryRevision(reply) == reply.ledger + 1

\* executeDurableWithSingleRetry: roll back, adopt the ledger, ask exactly once more.
RefusedThenRetry ==
  /\ child = "up" /\ Expected /\ Head(toChild).type = "rejected"
  /\ LedgerAhead
  /\ LET rev == RetryRevision(Head(toChild)) IN
       /\ mut' = [mut EXCEPT !.id = requests + 1, !.revision = rev, !.attempt = 2]
       /\ toMain' = toMain \o SavesAfter(RolledBack, MustReconcile(Head(toChild)))
                      \o <<Durable(Project(keys), requests + 1, rev)>>
  /\ revision' = Head(toChild).ledger
  /\ requests' = requests + 1
  /\ toChild' = Tail(toChild)
  /\ deferred' = FALSE
  /\ UNCHANGED <<child, keys, use, unsaved, mainVars, answered, voided>>

\* DURABLE_ACK_TIMEOUT_MS elapses: the outcome is unknown, so reconcile.
Timeout ==
  /\ child = "up" /\ mut # NoMut
  /\ GiveUp(TRUE)
  /\ UNCHANGED toChild

-----------------------------------------------------------------------------
(* The main process: one message of the child *)

Received(type) == toMain # <<>> /\ Head(toMain).type = type /\ toMain' = Tail(toMain)

\* A mutant: the durable projection on record does not follow background saves.
BugHandleLegacy ==
  /\ Received("legacy")
  /\ \E outcome \in {"written"} \cup SaveFaults :
       /\ disk' = IF outcome = "before-primary" THEN disk ELSE Head(toMain).state
       /\ failures' = IF outcome = "written" THEN {} ELSE failures \cup {outcome}
  /\ UNCHANGED <<childVars, toChild, ledger, recorded, launch, launches, requests, answered, voided>>

\* A background save; its failure is only logged.
HandleLegacy ==
  /\ Received("legacy")
  /\ \E outcome \in {"written"} \cup SaveFaults :
       /\ disk' = IF outcome = "before-primary" THEN disk ELSE Head(toMain).state
       /\ recorded' = IF outcome = "written" THEN Head(toMain).state ELSE recorded
       /\ failures' = IF outcome = "written" THEN {} ELSE failures \cup {outcome}
  /\ UNCHANGED <<childVars, toChild, ledger, launch, launches, requests, answered, voided>>

\* A mutant: any request at the committed revision counts as its replay.
BugIsReplay(msg) == msg.revision = ledger

\* The identical replay of the last committed revision.
IsReplay(msg) == msg.revision = ledger /\ msg.state = recorded

\* A durable request: answered again, refused, or written and then answered.
HandleDurable ==
  /\ Received("durable")
  /\ LET msg == Head(toMain)
         reply(r) == toChild' = IF child = "up" THEN Append(toChild, r) ELSE toChild IN
       \/ /\ IsReplay(msg)
          /\ reply(Ack(msg.id, msg.revision))
          /\ UNCHANGED <<ledger, recorded, disk, failures>>
       \/ /\ ~IsReplay(msg) /\ msg.revision # ledger + 1
          /\ reply(Rejected(msg.id, "revision"))
          /\ UNCHANGED <<ledger, recorded, disk, failures>>
       \/ /\ msg.revision = ledger + 1
          /\ ledger' = msg.revision /\ recorded' = msg.state /\ disk' = msg.state
          /\ failures' = {}
          /\ reply(Ack(msg.id, msg.revision))
       \/ /\ msg.revision = ledger + 1
          /\ \E fault \in DurableFaults :
               disk' = IF fault = "before-primary" THEN disk ELSE msg.state
          /\ reply(Rejected(msg.id, "write-failed"))
          /\ UNCHANGED <<ledger, recorded, failures>>
  /\ UNCHANGED <<childVars, launch, launches, requests, answered, voided>>

-----------------------------------------------------------------------------
(* Stops and starts *)

\* A child starts with state s: fresh memory, and a fresh channel on both sides.
ChildStarts(s) ==
  /\ child' = "up" /\ keys' = s.keys /\ use' = s.use
  /\ unsaved' = FALSE /\ deferred' = FALSE /\ revision' = 0 /\ mut' = NoMut
  /\ toMain' = <<>> /\ toChild' = <<>>
  /\ ledger' = 0 /\ recorded' = Nothing /\ failures' = {}

\* The child dies; what it sent and main has not read is lost.
ChildCrash ==
  /\ ChildMayRestart /\ child # "down"
  /\ child' = "down" /\ toMain' = <<>> /\ toChild' = <<>>
  /\ mut' = NoMut /\ unsaved' = FALSE /\ deferred' = FALSE
  /\ UNCHANGED <<keys, use, revision, mainVars, requests, answered, voided>>

\* shutdown(): flush unless a durable mutation is pending, then disconnect,
\* which fails that mutation; the reconcile write finds the channel closed.
ChildShutdown ==
  /\ ChildMayRestart /\ child = "up"
  /\ child' = "closing"
  /\ toMain' = IF mut = NoMut THEN Append(toMain, Legacy(Project(keys))) ELSE toMain
  /\ toChild' = <<>>
  /\ mut' = NoMut /\ unsaved' = FALSE /\ deferred' = FALSE
  /\ UNCHANGED <<keys, use, revision, mainVars, requests, answered, voided>>

\* A crash recovery, a retry or a start: the lifecycle hands every child the state
\* of the launch; nothing refreshes it as changes are persisted.
ChildRestart ==
  /\ child = "down" \/ (child = "closing" /\ toMain = <<>>)
  /\ ChildStarts(launch)
  /\ voided' = voided \cup {k \in Keys : answered[k] \notin {Unknown, launch.keys[k]}}
  /\ UNCHANGED <<launch, disk, launches, requests, answered>>

\* The application ends, or crashes, and is launched again: it reads the file.
Relaunch ==
  /\ launches < MaxLaunches
  /\ launches' = launches + 1
  /\ launch' = disk
  /\ ChildStarts(disk)
  /\ UNCHANGED <<disk, requests, answered, voided>>

-----------------------------------------------------------------------------
Init ==
  /\ disk \in [keys : [Keys -> Values], use : {0}]
  /\ launch = disk /\ keys = disk.keys /\ use = 0
  /\ child = "up" /\ unsaved = FALSE /\ deferred = FALSE
  /\ revision = 0 /\ mut = NoMut /\ toMain = <<>> /\ toChild = <<>>
  /\ ledger = 0 /\ recorded = Nothing
  /\ launches = 0 /\ requests = 0
  /\ failures = {} /\ answered = [k \in Keys |-> Unknown] /\ voided = {}

ChildStep ==
  \/ RuntimeChange \/ Save
  \/ \E k \in Keys, new \in Values : Begin(k, new)
  \/ DropLate \/ Commit \/ Refused \/ RefusedThenRetry \/ Timeout

MainStep == HandleLegacy \/ HandleDurable

Next == ChildStep \/ MainStep \/ ChildCrash \/ ChildShutdown \/ ChildRestart \/ Relaunch

\* Both processes keep running their event loops; a pending wait is bounded by a
\* timer. Nothing obliges anyone to change keys, crash or relaunch.
Spec == Init /\ [][Next]_vars
FairSpec == Spec /\ WF_vars(MainStep) /\ WF_vars(Commit) /\ WF_vars(Refused)
                 /\ WF_vars(RefusedThenRetry) /\ WF_vars(DropLate) /\ WF_vars(Timeout)
                 /\ WF_vars(Save)

-----------------------------------------------------------------------------
(* Properties *)

\* "The UI never reports a change that was never persisted" (rotation.mjs): a
\* change answered as done is what the file holds until the administrator changes
\* that key again, through later saves, refusals, time-outs, failed writes of every
\* kind, crashes of the child and relaunches; unless the answer was a replay given
\* after a save that failed half-way, or a child was started with another value.
AnsweredIsOnDisk ==
  \A k \in Keys \ voided : answered[k] # Unknown => disk.keys[k] = answered[k]

\* The promise as DurableKeys states it, for the answers that stand: the protocol
\* implements it. An answer is withdrawn where the code may break it, and only there.
Standing == [k \in Keys |-> IF k \in voided THEN Unknown ELSE answered[k]]
Promise  == INSTANCE DurableKeys WITH stored <- disk.keys, answered <- Standing
ImplementsThePromise == Promise!Spec

\* "The recorded durable projection MUST follow whatever actually lands on disk"
\* (private-state-channel.ts:166), lest a replay be acknowledged for a change that is
\* not there: a disable answered as done is on disk.
AnsweredDisableIsOnDisk ==
  \A k \in Keys : answered[k] = "disabled" => disk.keys[k] = "disabled"

\* A failed change leaves no trace: once nothing is pending or on its way to the
\* main process, the file holds the keys the child serves from, unless the last
\* background save failed. A child that has not sent its first state yet may serve
\* others: those of the launch.
DiskAgreesWhenQuiet ==
  child = "up" /\ mut = NoMut /\ toMain = <<>> /\ recorded # Nothing /\ failures = {}
    => disk.keys = keys

\* The child's counter never overtakes the ledger, and the one retry after a
\* re-synchronisation is never refused for its revision: a lost acknowledgement
\* cannot block later changes for good.
RetryHeals ==
  child = "up" =>
    /\ revision <= ledger
    /\ mut # NoMut /\ mut.attempt = 2 =>
         \A i \in 1 .. Len(toMain) :
           toMain[i].type = "durable" /\ toMain[i].id = mut.id => mut.revision = ledger + 1

\* Runtime data reaches the file: no change of a child that lives on stays unsaved
\* because its save was deferred behind a durable mutation, however that mutation ends:
\* what may keep it from the file is a write that failed.
RuntimeDataReachesDisk ==
  \A u \in 1 .. MaxUse : use = u ~> disk.use >= u \/ use < u \/ child # "up" \/ failures # {}

\* "Admin disable is permanent across time and restart" (the recovery tests): a
\* child serves no key whose disable was answered as done.
DisableSurvivesRestart ==
  \A k \in Keys : child = "up" /\ answered[k] = "disabled" => keys[k] = "disabled"
=============================================================================

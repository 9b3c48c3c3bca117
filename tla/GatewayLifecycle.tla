--------------------------- MODULE GatewayLifecycle ---------------------------
(***************************************************************************)
(* The main process's owner of the gateway child                           *)
(* (src/main/gateway-lifecycle.ts): start, retry, stop, the bounded        *)
(* auto-restart and the answer to a protocol violation are operations of   *)
(* one promise queue; a child may exit between any two awaits of the       *)
(* operation that runs.                                                    *)
(*                                                                         *)
(* An action is a macrotask with every microtask that follows it: an idle  *)
(* queue starts its next operation before anything else happens (Calm).    *)
(* The application runs on Windows, where only this process sends the      *)
(* child signals: an exit nobody asked for carries an exit code.           *)
(***************************************************************************)
EXTENDS Integers, Sequences

CONSTANTS
  Children,     \* the processes that can be spawned
  NoChild,
  Ports, NoPort,
  MaxAttempts,  \* autoRestart.maxAttempts
  MaxRequests   \* bound: operator requests

ASSUME LifecycleAssumption ==
  /\ NoChild \notin Children /\ NoPort \notin Ports
  /\ MaxAttempts \in Nat /\ MaxRequests \in Nat

VARIABLES
  child,       \* this.child
  managedPort,
  status,
  proc,        \* each process and its ManagedChildLifecycle
  queue,       \* operationQueue: operations that have not started
  op,          \* the operation that runs and the await it stands at
  generation,  \* restartGeneration
  timer,       \* restartTimer: what the pending auto-restart captured
  attempts,    \* restartAttempts
  owner,       \* the child the owner record on disk names
  requests,    \* bound: operator requests so far
  down,        \* history: a stop ended as stopped, and no start was asked for since
  streak       \* history: auto-restarts begun since the counter last started over

vars == <<child, managedPort, status, proc, queue, op, generation, timer, attempts, owner,
          requests, down, streak>>

Process == [state : {"unborn", "alive", "exited"},
            coded : BOOLEAN,      \* exitCode !== null
            killed : BOOLEAN,     \* a signal was sent
            port : Ports \cup {NoPort},
            committed : BOOLEAN,  \* committedRunning
            intentional : BOOLEAN,\* intentionalStop
            invalid : BOOLEAN,    \* boundAttestation.invalid
            listeners : {"startup", "runtime", "detached"},
            late : BOOLEAN]       \* retained: an exit listener cleans up after it

Unborn == [state |-> "unborn", coded |-> FALSE, killed |-> FALSE, port |-> NoPort,
           committed |-> FALSE, intentional |-> FALSE, invalid |-> FALSE,
           listeners |-> "startup", late |-> FALSE]

Status(state, code, port) == [state |-> state, code |-> code, port |-> port]
Stopped == Status("stopped", "", NoPort)

Kinds  == {"start", "retry", "stop", "auto", "violation"}
Points == {"queued", "retryPreflight", "preflight", "health", "verify", "record",
           "failing", "stopping", "violating"}
Op(kind, port, gen, target) ==
  [kind |-> kind, port |-> port, gen |-> gen, child |-> target, at |-> "queued",
   stage |-> "none"]
Ops  == [kind : Kinds, port : Ports \cup {NoPort}, gen : Nat, child : Children \cup {NoChild},
         at : Points, stage : {"none", "ask", "term", "kill"}]
NoOp == [Op("stop", NoPort, 0, NoChild) EXCEPT !.kind = "none"]

NoTimer == [port |-> NoPort, gen |-> 0]

TypeOK ==
  /\ child \in Children \cup {NoChild} /\ managedPort \in Ports \cup {NoPort}
  /\ status \in [state : {"stopped", "starting", "running", "error"},
                 code : {"", "START_FAILED", "RUNTIME_EXIT", "PORT_IN_USE"},
                 port : Ports \cup {NoPort}]
  /\ proc \in [Children -> Process]
  /\ queue \in Seq(Ops) /\ op \in Ops \cup {NoOp}
  /\ generation \in Nat /\ attempts \in Nat /\ requests \in Nat
  /\ streak \in 0 .. MaxAttempts   \* no crash loop: auto-restarts in a row
  /\ timer \in [port : Ports \cup {NoPort}, gen : Nat]
  /\ owner \in Children \cup {NoChild} /\ down \in BOOLEAN

Calm == op # NoOp \/ queue = << >>

\* isStopping: a stop or a retry was asked for and has not settled.
IsStopping == \/ op.kind \in {"stop", "retry"}
              \/ \E i \in DOMAIN queue : queue[i].kind \in {"stop", "retry"}

Awaiting(c) == op.child = c /\ op.at \in {"failing", "stopping", "violating"}
PortFreedBy(c) == IF managedPort = proc[c].port THEN NoPort ELSE managedPort

OwnerClearedOf(c) == IF owner = c THEN NoChild ELSE owner

(***************************************************************************)
(* The auto-restart.                                                       *)
(***************************************************************************)

\* A mutant: scheduling opens a new generation, so the restart supersedes itself.
BugScheduleBumps(port, tries) ==
  IF IsStopping \/ tries >= MaxAttempts
    THEN attempts' = tries /\ UNCHANGED timer
    ELSE attempts' = tries + 1 /\ timer' = [port |-> port, gen |-> generation + 1]

\* A mutant: the counter runs the wrong way.
BugScheduleCountsDown(port, tries) ==
  IF IsStopping \/ tries >= MaxAttempts
    THEN attempts' = tries /\ UNCHANGED timer
    ELSE attempts' = tries - 1 /\ timer' = [port |-> port, gen |-> generation]

\* Another restart is scheduled, unless an operator's stop or retry owns the next
\* transition or the allowance is used up. tries: the attempts taken so far.
ScheduleAutoRestart(port, tries) ==
  IF IsStopping \/ tries >= MaxAttempts
    THEN attempts' = tries /\ UNCHANGED timer
    ELSE attempts' = tries + 1 /\ timer' = [port |-> port, gen |-> generation]

TimerFires ==
  /\ Calm /\ timer # NoTimer
  /\ timer' = NoTimer
  /\ queue' = Append(queue, Op("auto", timer.port, timer.gen, NoChild))
  /\ UNCHANGED <<child, managedPort, status, proc, op, generation, attempts, owner,
                 requests, down, streak>>

\* A mutant: a queued restart never looks at the generation.
BugSuperseded(o) == FALSE

\* An operator's stop or retry came after the restart was scheduled.
Superseded(o) == o.gen # generation

(***************************************************************************)
(* startInternal, once its preflight has begun.                            *)
(***************************************************************************)
\* The operation ends without a running child; an auto-restart tries again.
StartEndsWith(st) ==
  /\ status' = st /\ op' = NoOp
  /\ IF op.kind = "auto" THEN ScheduleAutoRestart(op.port, attempts)
                         ELSE UNCHANGED <<timer, attempts>>

\* The ports are taken or cannot be probed, or spawn throws.
StartRefused ==
  /\ op.at \in {"preflight", "retryPreflight"}
  /\ \E code \in {"PORT_IN_USE", "START_FAILED"} : StartEndsWith(Status("error", code, op.port))
  /\ UNCHANGED <<child, managedPort, proc, queue, generation, owner, requests, down, streak>>

Spawn(c) ==
  /\ op.at = "preflight" /\ proc[c].state = "unborn"
  /\ status' = Status("starting", "", op.port)
  /\ child' = c /\ managedPort' = op.port
  /\ proc' = [proc EXCEPT ![c].state = "alive", ![c].port = op.port]
  /\ op' = [op EXCEPT !.at = "health", !.child = c]
  /\ UNCHANGED <<queue, generation, timer, attempts, owner, requests, down, streak>>

\* A mutant: the verification does not look at the exit code.
BugOwned(c) == child = c /\ ~proc[c].killed /\ ~proc[c].invalid

\* The synchronous checks of verifyChildOwnership around its health request, and
\* the attestation's.
Owned(c) == child = c /\ ~proc[c].coded /\ ~proc[c].killed /\ ~proc[c].invalid

\* stopChild: an exited child is stopped at once; a live one is asked over ipc when
\* the channel takes the request, and is sent SIGTERM otherwise. Other listeners
\* of its exit stay where they are.
StopChild(o, c, at, stage) ==
  /\ op' = [o EXCEPT !.at = at, !.child = c, !.stage = stage]
  /\ proc' = [proc EXCEPT ![c].intentional = TRUE,
                          ![c].killed = @ \/ stage = "term"]

\* failStartedChild: the child that did not make it is stopped.
FailStarted(c) ==
  IF proc[c].coded
    THEN /\ proc' = [proc EXCEPT ![c].intentional = TRUE]
         /\ owner' = OwnerClearedOf(c) /\ managedPort' = PortFreedBy(c)
         /\ child' = IF child = c THEN NoChild ELSE child
         /\ StartEndsWith(Status("error", "START_FAILED", proc[c].port))
    ELSE /\ \E stage \in {"ask", "term"} : StopChild(op, c, "failing", stage)
         /\ UNCHANGED <<child, managedPort, status, timer, attempts, owner>>

\* The startup deadline, a failed private channel, an invalid attestation, or the
\* exit the startup listeners saw.
HealthFails ==
  /\ op.at = "health"
  /\ FailStarted(op.child)
  /\ UNCHANGED <<queue, generation, requests, down, streak>>

\* Both health endpoints answered, possibly just before the exit was seen: the
\* runtime listeners take over.
HealthPasses ==
  /\ op.at = "health" /\ ~proc[op.child].invalid
  /\ IF Owned(op.child)
       THEN /\ proc' = [proc EXCEPT ![op.child].listeners = "runtime"]
            /\ op' = [op EXCEPT !.at = "verify"]
            /\ UNCHANGED <<child, managedPort, status, timer, attempts, owner>>
       ELSE FailStarted(op.child)
  /\ UNCHANGED <<queue, generation, requests, down, streak>>

VerificationFails ==
  /\ op.at \in {"verify", "record"}
  /\ FailStarted(op.child)
  /\ UNCHANGED <<queue, generation, requests, down, streak>>

\* Ownership is verified twice, before and after the owner record is written.
WriteOwner ==
  /\ op.at = "verify" /\ Owned(op.child)
  /\ owner' = op.child
  /\ op' = [op EXCEPT !.at = "record"]
  /\ UNCHANGED <<child, managedPort, status, proc, queue, generation, timer, attempts,
                 requests, down, streak>>

CommitRunning ==
  /\ op.at = "record" /\ Owned(op.child)
  /\ proc' = [proc EXCEPT ![op.child].committed = TRUE]
  /\ status' = Status("running", "", op.port)
  /\ op' = NoOp
  /\ UNCHANGED <<child, managedPort, queue, generation, timer, attempts, owner, requests,
                 down, streak>>

(***************************************************************************)
(* stopInternal and the escalation of stopChild.                           *)
(***************************************************************************)
\* The child is known to be gone: a stop ends, a retry goes on to its start.
AfterStop(o) ==
  /\ status' = Stopped
  /\ op' = IF o.kind = "retry"
             THEN [Op("retry", o.port, o.gen, NoChild) EXCEPT !.at = "preflight"]
             ELSE NoOp
  /\ down' = (o.kind = "stop" /\ \A i \in DOMAIN queue : queue[i].kind \notin {"start", "retry"})

\* The bump, and the pending restart dropped, at the moment the stop runs.
BeginStop(o) ==
  /\ generation' = generation + 1 /\ timer' = NoTimer /\ attempts' = 0 /\ streak' = 0
  /\ IF child = NoChild
       THEN AfterStop(o) /\ managedPort' = NoPort /\ UNCHANGED <<child, proc, owner>>
     ELSE IF proc[child].coded
       THEN /\ proc' = [proc EXCEPT ![child].intentional = TRUE]
            /\ owner' = OwnerClearedOf(child) /\ managedPort' = PortFreedBy(child)
            /\ child' = NoChild /\ AfterStop(o)
       ELSE /\ \E stage \in {"ask", "term"} : StopChild(o, child, "stopping", stage)
            /\ UNCHANGED <<child, managedPort, status, owner, down>>

RetryPreflightClear ==
  /\ op.at = "retryPreflight"
  /\ BeginStop(op)
  /\ UNCHANGED <<queue, requests>>

\* The wait for the exit runs out: the next means, and at the end the child is
\* kept, with an exit listener to clean up after it whenever it dies.
Escalates ==
  /\ op.stage \in {"ask", "term"}
  /\ op' = [op EXCEPT !.stage = IF op.stage = "ask" THEN "term" ELSE "kill"]
  /\ proc' = [proc EXCEPT ![op.child].killed = TRUE]
  /\ UNCHANGED <<child, managedPort, status, queue, generation, timer, attempts, owner,
                 requests, down, streak>>

\* A mutant: the child that did not die is forgotten.
BugForgets ==
  /\ op.stage = "kill"
  /\ proc' = [proc EXCEPT ![op.child].late = TRUE]
  /\ child' = NoChild /\ managedPort' = NoPort
  /\ StartEndsWith(Status("error", "START_FAILED", managedPort))
  /\ UNCHANGED <<queue, generation, owner, requests, down, streak>>

\* A mutant: the last wait for the exit has no end.
BugWaitsForever == FALSE

StopUnconfirmed ==
  /\ op.stage = "kill"
  /\ proc' = [proc EXCEPT ![op.child].late = TRUE]
  /\ StartEndsWith(Status("error", "START_FAILED", managedPort))
  /\ UNCHANGED <<child, managedPort, queue, generation, owner, requests, down, streak>>

(***************************************************************************)
(* The child's exit event, by who listens for it. coded: the exit carries  *)
(* a code; it may lack one only after a signal of ours.                    *)
(***************************************************************************)
Exited(c, coded) ==
  /\ proc[c].state = "alive" /\ (coded \/ proc[c].killed)
  /\ proc' = [proc EXCEPT ![c].state = "exited", ![c].coded = coded,
                          ![c].listeners = "detached"]

\* claimUnexpectedRuntimeFailure: only a committed child nobody meant to stop. A
\* child that stayed up for stableUptimeMs starts the counter over.
RuntimeExit(c) ==
  /\ Calm /\ child = c /\ proc[c].listeners = "runtime"
  /\ proc[c].committed /\ ~proc[c].intentional
  /\ Exited(c, TRUE)
  /\ child' = NoChild /\ managedPort' = NoPort /\ owner' = OwnerClearedOf(c)
  /\ status' = Status("error", "RUNTIME_EXIT", proc[c].port)
  /\ \E stable \in BOOLEAN :
       /\ ScheduleAutoRestart(proc[c].port, IF stable THEN 0 ELSE attempts)
       /\ streak' = IF stable THEN 0 ELSE streak
  /\ UNCHANGED <<queue, op, generation, requests, down>>

StartupExit(c) ==
  /\ op.at = "health" /\ op.child = c
  /\ Exited(c, TRUE)
  /\ child' = NoChild
  /\ UNCHANGED <<managedPort, status, queue, op, generation, timer, attempts, owner,
                 requests, down, streak>>

\* After the listeners were swapped and before the commit nobody claims the exit:
\* the next verification sees it.
UnclaimedExit(c) ==
  /\ op.at \in {"verify", "record"} /\ op.child = c
  /\ Exited(c, TRUE)
  /\ UNCHANGED <<child, managedPort, status, queue, op, generation, timer, attempts, owner,
                 requests, down, streak>>

\* The exit an operation waits for; the operation finishes in the same turn.
AwaitedExit(c) ==
  /\ Awaiting(c)
  /\ \E coded \in BOOLEAN : Exited(c, coded)
  /\ child' = NoChild /\ managedPort' = PortFreedBy(c) /\ owner' = OwnerClearedOf(c)
  /\ IF op.at = "stopping"
       THEN AfterStop(op) /\ UNCHANGED <<timer, attempts>>
       ELSE StartEndsWith(Status("error", "START_FAILED", proc[c].port)) /\ UNCHANGED down
  /\ UNCHANGED <<queue, generation, requests, streak>>

\* retainFailedChildUntilExit and retainStoppedChildUntilExit.
LateExit(c) ==
  /\ Calm /\ proc[c].late /\ ~Awaiting(c)
  /\ \E coded \in BOOLEAN : Exited(c, coded)
  /\ child' = IF child = c THEN NoChild ELSE child
  /\ managedPort' = PortFreedBy(c) /\ owner' = OwnerClearedOf(c)
  /\ UNCHANGED <<status, queue, op, generation, timer, attempts, requests, down, streak>>

\* A ports:bound message that is malformed, repeated, early or for other ports.
ProtocolViolation(c) ==
  /\ Calm /\ proc[c].state = "alive" /\ ~proc[c].invalid /\ proc[c].listeners # "detached"
  /\ proc' = [proc EXCEPT ![c].invalid = TRUE]
  /\ queue' = Append(queue, Op("violation", NoPort, 0, c))
  /\ UNCHANGED <<child, managedPort, status, op, generation, timer, attempts, owner, requests,
                 down, streak>>

(***************************************************************************)
(* Requests, and the start of the next operation of the queue.             *)
(***************************************************************************)
Request(kind, port) ==
  /\ Calm /\ requests < MaxRequests
  /\ requests' = requests + 1
  /\ queue' = Append(queue, Op(kind, port, 0, NoChild))
  /\ generation' = IF kind = "start" THEN generation ELSE generation + 1
  /\ down' = (down /\ kind = "stop")
  /\ UNCHANGED <<child, managedPort, status, proc, op, timer, attempts, owner, streak>>

Start(port) == Request("start", port)
Retry(port) == Request("retry", port)
Stop        == Request("stop", NoPort)

\* An operation that finds nothing to do.
Skip == op' = NoOp /\ UNCHANGED <<child, managedPort, status, proc, generation, timer,
                                  attempts, owner, down, streak>>
GoTo(o, at) == op' = [o EXCEPT !.at = at] /\ UNCHANGED <<child, managedPort, status, proc,
                                  generation, timer, attempts, owner, down>>

BeginOperation ==
  /\ op = NoOp /\ queue # << >>
  /\ queue' = Tail(queue) /\ UNCHANGED requests
  /\ LET o == Head(queue) IN
       \/ /\ o.kind = "start"
          /\ IF child # NoChild THEN Skip ELSE GoTo(o, "preflight") /\ UNCHANGED streak
       \/ /\ o.kind = "retry"
          /\ IF child # NoChild /\ managedPort # o.port
               THEN GoTo(o, "retryPreflight") /\ UNCHANGED streak
               ELSE BeginStop(o)
       \/ o.kind = "stop" /\ BeginStop(o)
       \/ /\ o.kind = "auto"
          /\ IF Superseded(o) \/ child # NoChild \/ status.state = "running"
               THEN Skip ELSE GoTo(o, "preflight") /\ streak' = streak + 1
       \/ /\ o.kind = "violation"
          /\ IF child # o.child \/ status.state = "starting" THEN Skip
             ELSE /\ \E stage \in {"ask", "term"} : StopChild(o, child, "violating", stage)
                  /\ UNCHANGED <<child, managedPort, status, generation, timer, attempts,
                                 owner, down, streak>>

(***************************************************************************)
(* The specification.                                                      *)
(***************************************************************************)
Init ==
  /\ child = NoChild /\ managedPort = NoPort /\ status = Stopped
  /\ proc = [c \in Children |-> Unborn]
  /\ queue = << >> /\ op = NoOp /\ generation = 0 /\ timer = NoTimer /\ attempts = 0
  /\ owner = NoChild /\ requests = 0 /\ down = FALSE /\ streak = 0

\* The steps of the operation that runs; each has a deadline of its own.
OperationSteps ==
  \/ BeginOperation \/ StartRefused \/ HealthFails \/ HealthPasses
  \/ VerificationFails \/ WriteOwner \/ CommitRunning \/ RetryPreflightClear
  \/ Escalates \/ StopUnconfirmed
  \/ \E c \in Children : Spawn(c)

Exits == \E c \in Children : \/ RuntimeExit(c) \/ StartupExit(c) \/ UnclaimedExit(c)
                             \/ AwaitedExit(c) \/ LateExit(c)

Next ==
  \/ OperationSteps \/ TimerFires \/ Exits
  \/ \E c \in Children : ProtocolViolation(c)
  \/ \E p \in Ports : Start(p) \/ Retry(p)
  \/ Stop

Spec == Init /\ [][Next]_vars

\* Every await of an operation is bounded by a timeout, and a pending timer fires.
FairSpec == Spec /\ WF_vars(OperationSteps) /\ WF_vars(TimerFires)

-------------------------------------------------------------------------------
(***************************************************************************)
(* Properties.                                                             *)
(***************************************************************************)
\* Every live process this application spawned is the one the lifecycle holds, on
\* the port it holds: a child whose death was not confirmed is never let go of
\* (stopInternal, failStartedChild, handleProtocolViolation).
LiveChildIsTracked ==
  \A c \in Children : proc[c].state = "alive" => child = c /\ managedPort = proc[c].port

\* Between operations the owner record on disk names the managed child or nothing
\* (clearOwnerRecordFor on every way out).
OwnerNamesChild == op = NoOp => owner \in {NoChild, child}

\* The two together: what runs, what the lifecycle holds and what the disk says agree.
ChildIsTracked == LiveChildIsTracked /\ OwnerNamesChild

\* "running" is only said of a verified child whose exit has not been seen, however
\* the exit falls between the health answers, the owner record and the commit
\* (startInternal).
RunningIsTrue ==
  status.state = "running" => /\ child # NoChild
                              /\ proc[child].committed /\ proc[child].state = "alive"

\* Between operations the lifecycle holds no dead child: start answers "already
\* managed" for as long as it does (startInternal, the late-exit listeners).
KeptChildLives == op = NoOp /\ child # NoChild => proc[child].state = "alive"

\* The two together: what is said to run does, and nothing dead is kept.
ServiceIsTrue == RunningIsTrue /\ KeptChildLives

\* Once a stop has ended as stopped, nothing runs until an operator asks for it: no
\* auto-restart scheduled or already fired before the stop resurrects the child
\* (restartGeneration, isStopping, clearRestartTimer).
StopWins == down => \A c \in Children : proc[c].state # "alive"

\* Every operation settles, so no request waits for ever behind a child that does
\* not answer or does not die (waitForHealthOrFailure, waitForChildExit).
QueueDrains == []<>(op = NoOp /\ queue = << >>)

\* A reported runtime exit does not stay unattended: another status follows, unless
\* the allowance is used up (reportUnexpectedRuntimeExit, scheduleAutoRestart).
GaveUp == attempts >= MaxAttempts /\ timer = NoTimer /\ op = NoOp /\ queue = << >>
CrashIsFollowedUp ==
  status.code = "RUNTIME_EXIT" ~> status.code # "RUNTIME_EXIT" \/ GaveUp

===============================================================================

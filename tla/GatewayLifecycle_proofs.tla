------------------------ MODULE GatewayLifecycle_proofs ------------------------
(***************************************************************************)
(* Theorems about GatewayLifecycle and their proofs: for any number of     *)
(* processes, ports, requests and auto-restarts.                           *)
(***************************************************************************)
EXTENDS GatewayLifecycle, SequenceTheorems, TLAPS

-----------------------------------------------------------------------------
(* The inductive invariant: first what ties the operation to the processes. *)

Alive(c) == proc[c].state = "alive"

Starting == {"health", "verify", "record"}
Waiting  == {"failing", "stopping", "violating"}
Starts   == {"start", "retry", "auto"}

\* TypeOK but for the bound of streak, which the restarts' part gives.
Typed ==
  /\ child \in Children \cup {NoChild} /\ managedPort \in Ports \cup {NoPort}
  /\ status \in [state : {"stopped", "starting", "running", "error"},
                 code : {"", "START_FAILED", "RUNTIME_EXIT", "PORT_IN_USE"},
                 port : Ports \cup {NoPort}]
  /\ proc \in [Children -> Process]
  /\ queue \in Seq(Ops) /\ op \in Ops \cup {NoOp}
  /\ generation \in Nat /\ attempts \in Nat /\ requests \in Nat /\ streak \in Nat
  /\ timer \in [port : Ports \cup {NoPort}, gen : Nat]
  /\ owner \in Children \cup {NoChild} /\ down \in BOOLEAN

\* What the await an operation stands at says of the child. A start checked in its
\* preflight that nothing is managed. Until the commit the spawned child is the managed
\* one, unless the startup listeners saw its exit, and no owner record is left of
\* another. An operation that waits for an exit
\* waits for the managed child, alive and meant to stop.
OperationStands ==
  /\ op # NoOp => op.at # "queued"
  /\ op.at = "preflight" => op.kind \in Starts /\ child = NoChild
  /\ op.at = "retryPreflight" => op.kind = "retry"
  /\ op.at \in Starting =>
       /\ op.kind \in Starts /\ op.child \in Children /\ status.state = "starting"
       /\ ~proc[op.child].committed /\ ~proc[op.child].late
       /\ \/ child = op.child
          \/ op.at = "health" /\ child = NoChild /\ proc[op.child].coded
       /\ op.at = "health" => owner = NoChild
  /\ op.at \in Waiting =>
       /\ op.child \in Children /\ child = op.child /\ Alive(child) /\ proc[child].intentional
       /\ op.at = "failing" => op.kind \in Starts
       /\ op.at = "stopping" => op.kind \in {"stop", "retry"}
       /\ op.at = "violating" => op.kind = "violation"
  /\ op.stage # "none" => op.at \in Waiting

\* A queued operation has not begun; a violation is some process's.
QueueStands ==
  \A i \in DOMAIN queue :
    /\ queue[i].at = "queued" /\ queue[i].stage = "none"
    /\ queue[i].kind = "violation" => queue[i].child \in Children

\* A process that never started has left no mark; an exit code is that of the dead.
ProcessesAge ==
  \A c \in Children :
    /\ proc[c].state = "unborn" => ~proc[c].committed /\ ~proc[c].late
    /\ proc[c].coded => proc[c].state = "exited"

\* The managed child is alive, or its exit is one nobody has claimed yet, between the
\* swap of the listeners and the commit.
ManagedLives ==
  child # NoChild =>
    Alive(child) \/ /\ op.at \in {"verify", "record"} /\ op.child = child
                    /\ proc[child].coded

\* The owner record names the managed child or nothing, even while an operation runs.
OwnerFollows == owner \in {NoChild, child}

\* A child that outlived its stop is not said to run.
LateIsNotRunning == \A c \in Children : Alive(c) /\ proc[c].late => status.state # "running"

Conforms == /\ Typed /\ OperationStands /\ QueueStands /\ ProcessesAge /\ LiveChildIsTracked
            /\ ManagedLives /\ OwnerFollows /\ RunningIsTrue /\ LateIsNotRunning

-----------------------------------------------------------------------------
(* Records and the queue. *)

LEMMA OpsShape ==
  /\ \A o \in Ops : /\ o.kind \in Kinds /\ o.port \in Ports \cup {NoPort} /\ o.gen \in Nat
                    /\ o.child \in Children \cup {NoChild} /\ o.at \in Points
                    /\ o.stage \in {"none", "ask", "term", "kill"}
                    /\ o # NoOp
  /\ NoOp.kind = "none" /\ NoOp.at = "queued" /\ NoOp.stage = "none" /\ NoOp.child = NoChild
<1>1. NoOp.kind = "none" /\ NoOp.at = "queued" /\ NoOp.stage = "none" /\ NoOp.child = NoChild
  BY DEF NoOp, Op
<1>2. ASSUME NEW o \in Ops
      PROVE  /\ o.kind \in Kinds /\ o.port \in Ports \cup {NoPort} /\ o.gen \in Nat
             /\ o.child \in Children \cup {NoChild} /\ o.at \in Points
             /\ o.stage \in {"none", "ask", "term", "kill"}
  BY DEF Ops
<1>3. "none" \notin Kinds
  BY DEF Kinds
<1> QED
  BY <1>1, <1>2, <1>3

LEMMA OpShape ==
  ASSUME NEW kind \in Kinds, NEW port \in Ports \cup {NoPort}, NEW gen \in Nat,
         NEW target \in Children \cup {NoChild}, NEW o, o = Op(kind, port, gen, target)
  PROVE  /\ o \in Ops /\ o.kind = kind /\ o.port = port /\ o.gen = gen /\ o.child = target
         /\ o.at = "queued" /\ o.stage = "none"
<1>1. "queued" \in Points
  BY DEF Points
<1> QED
  BY <1>1 DEF Op, Ops

\* What an edit of one process leaves as it was.
Untouched(c) == \A d \in Children \ {c} : proc'[d] = proc[d]
Lasting(c) == /\ proc'[c].coded = proc[c].coded /\ proc'[c].port = proc[c].port
              /\ proc'[c].state = proc[c].state

LEMMA ProcessShape ==
  \A p \in Process : /\ p.state \in {"unborn", "alive", "exited"} /\ p.port \in Ports \cup {NoPort}
                     /\ p.coded \in BOOLEAN /\ p.killed \in BOOLEAN /\ p.committed \in BOOLEAN
                     /\ p.intentional \in BOOLEAN /\ p.invalid \in BOOLEAN /\ p.late \in BOOLEAN
BY DEF Process

\* One process edited, several fields of its record at a time.
LEMMA ProcessBorn ==
  ASSUME NEW p \in Process, NEW q, NEW port \in Ports \cup {NoPort},
         q = [p EXCEPT !.state = "alive", !.port = port]
  PROVE  /\ q \in Process /\ q.state = "alive" /\ q.port = port /\ q.coded = p.coded
         /\ q.committed = p.committed /\ q.late = p.late
BY DEF Process

LEMMA ProcessToldToStop ==
  ASSUME NEW p \in Process, NEW q, NEW killed \in BOOLEAN,
         \/ q = [p EXCEPT !.intentional = TRUE, !.killed = killed]
         \/ q = [p EXCEPT !.intentional = TRUE]
  PROVE  /\ q \in Process /\ q.intentional = TRUE /\ q.state = p.state /\ q.coded = p.coded
         /\ q.port = p.port /\ q.committed = p.committed /\ q.late = p.late
<1>1. CASE q = [p EXCEPT !.intentional = TRUE, !.killed = killed]
  BY <1>1 DEF Process
<1>2. CASE q = [p EXCEPT !.intentional = TRUE]
  BY <1>2 DEF Process
<1> QED
  BY <1>1, <1>2

LEMMA ProcessDead ==
  ASSUME NEW p \in Process, NEW q, NEW coded \in BOOLEAN,
         q = [p EXCEPT !.state = "exited", !.coded = coded, !.listeners = "detached"]
  PROVE  /\ q \in Process /\ q.state = "exited" /\ q.coded = coded /\ q.port = p.port
         /\ q.committed = p.committed /\ q.late = p.late
BY DEF Process

LEMMA MeantToStop ==
  ASSUME proc \in [Children -> Process], NEW c \in Children,
         \/ proc' = [proc EXCEPT ![c].intentional = TRUE]
         \/ \E stage \in {"ask", "term"} :
              proc' = [proc EXCEPT ![c].intentional = TRUE, ![c].killed = @ \/ stage = "term"]
  PROVE  /\ proc' \in [Children -> Process] /\ Untouched(c) /\ Lasting(c)
         /\ proc'[c].intentional = TRUE /\ proc'[c].late = proc[c].late
         /\ proc'[c].committed = proc[c].committed
<1>1. PICK killed \in BOOLEAN :
        \/ proc'[c] = [proc[c] EXCEPT !.intentional = TRUE, !.killed = killed]
        \/ proc'[c] = [proc[c] EXCEPT !.intentional = TRUE]
  <2>1. CASE proc' = [proc EXCEPT ![c].intentional = TRUE]
    BY <2>1
  <2>2. ASSUME NEW stage \in {"ask", "term"},
               proc' = [proc EXCEPT ![c].intentional = TRUE, ![c].killed = @ \/ stage = "term"]
        PROVE  proc'[c] = [proc[c] EXCEPT !.intentional = TRUE,
                                          !.killed = proc[c].killed \/ stage = "term"]
    BY <2>2
  <2>3. \A stage : (proc[c].killed \/ stage = "term") \in BOOLEAN
    OBVIOUS
  <2> QED
    BY <2>1, <2>2, <2>3
<1>2. proc[c] \in Process
  OBVIOUS
<1>3. /\ proc'[c] \in Process /\ proc'[c].intentional = TRUE /\ proc'[c].state = proc[c].state
      /\ proc'[c].coded = proc[c].coded /\ proc'[c].port = proc[c].port
      /\ proc'[c].committed = proc[c].committed /\ proc'[c].late = proc[c].late
  BY <1>1, <1>2, ProcessToldToStop
<1>4. Untouched(c) /\ proc' = [d \in Children |-> proc'[d]]
  BY DEF Untouched
<1> QED
  BY <1>3, <1>4 DEF Untouched, Lasting

LEMMA ChildBorn ==
  ASSUME proc \in [Children -> Process], NEW c \in Children,
         NEW port \in Ports \cup {NoPort},
         proc' = [proc EXCEPT ![c].state = "alive", ![c].port = port]
  PROVE  /\ proc' \in [Children -> Process] /\ Untouched(c)
         /\ proc'[c].state = "alive" /\ proc'[c].port = port /\ proc'[c].coded = proc[c].coded
         /\ proc'[c].committed = proc[c].committed /\ proc'[c].late = proc[c].late
<1>1. proc'[c] = [proc[c] EXCEPT !.state = "alive", !.port = port] /\ proc[c] \in Process
  OBVIOUS
<1>2. Untouched(c) /\ proc' = [d \in Children |-> proc'[d]]
  BY DEF Untouched
<1>3. /\ proc'[c] \in Process /\ proc'[c].state = "alive" /\ proc'[c].port = port
      /\ proc'[c].coded = proc[c].coded
      /\ proc'[c].committed = proc[c].committed /\ proc'[c].late = proc[c].late
  <2>1. PICK p, q : /\ p \in Process /\ p = proc[c] /\ q = proc'[c]
                    /\ q = [p EXCEPT !.state = "alive", !.port = port]
    BY <1>1
  <2>2. q = [p EXCEPT !.state = "alive", !.port = port]
    BY <2>1
  <2>3. p \in Process
    BY <2>1
  <2>4. /\ q \in Process /\ q.state = "alive" /\ q.port = port /\ q.coded = p.coded
        /\ q.committed = p.committed /\ q.late = p.late
    BY <2>2, <2>3, ProcessBorn
  <2> QED
    BY <2>1, <2>4
<1> QED
  BY <1>2, <1>3 DEF Untouched

LEMMA ChildHandedOver ==
  ASSUME proc \in [Children -> Process], NEW c \in Children,
         proc' = [proc EXCEPT ![c].listeners = "runtime"]
  PROVE  /\ proc' \in [Children -> Process] /\ Untouched(c) /\ Lasting(c)
         /\ proc'[c].committed = proc[c].committed /\ proc'[c].late = proc[c].late
BY DEF Process, Untouched, Lasting

LEMMA ChildCommitted ==
  ASSUME proc \in [Children -> Process], NEW c \in Children,
         proc' = [proc EXCEPT ![c].committed = TRUE]
  PROVE  /\ proc' \in [Children -> Process] /\ Untouched(c) /\ Lasting(c)
         /\ proc'[c].committed = TRUE /\ proc'[c].late = proc[c].late
BY DEF Process, Untouched, Lasting

LEMMA ChildSignalled ==
  ASSUME proc \in [Children -> Process], NEW c \in Children,
         proc' = [proc EXCEPT ![c].killed = TRUE]
  PROVE  /\ proc' \in [Children -> Process] /\ Untouched(c) /\ Lasting(c)
         /\ proc'[c].committed = proc[c].committed /\ proc'[c].late = proc[c].late
         /\ proc'[c].intentional = proc[c].intentional
BY DEF Process, Untouched, Lasting

LEMMA ChildKept ==
  ASSUME proc \in [Children -> Process], NEW c \in Children,
         proc' = [proc EXCEPT ![c].late = TRUE]
  PROVE  /\ proc' \in [Children -> Process] /\ Untouched(c) /\ Lasting(c)
         /\ proc'[c].committed = proc[c].committed /\ proc'[c].late = TRUE
BY DEF Process, Untouched, Lasting

LEMMA ChildInvalid ==
  ASSUME proc \in [Children -> Process], NEW c \in Children,
         proc' = [proc EXCEPT ![c].invalid = TRUE]
  PROVE  /\ proc' \in [Children -> Process] /\ Untouched(c) /\ Lasting(c)
         /\ proc'[c].committed = proc[c].committed /\ proc'[c].late = proc[c].late
         /\ proc'[c].intentional = proc[c].intentional
BY DEF Process, Untouched, Lasting

LEMMA ChildDied ==
  ASSUME proc \in [Children -> Process], NEW c \in Children,
         NEW coded \in BOOLEAN, Exited(c, coded)
  PROVE  /\ proc' \in [Children -> Process] /\ Untouched(c)
         /\ proc[c].state = "alive" /\ proc'[c].state = "exited" /\ proc'[c].coded = coded
         /\ proc'[c].port = proc[c].port
         /\ proc'[c].committed = proc[c].committed /\ proc'[c].late = proc[c].late
<1>1. /\ proc'[c] = [proc[c] EXCEPT !.state = "exited", !.coded = coded, !.listeners = "detached"]
      /\ proc[c] \in Process /\ proc[c].state = "alive"
  BY DEF Exited
<1>2. Untouched(c) /\ proc' = [d \in Children |-> proc'[d]]
  BY DEF Untouched, Exited
<1>3. /\ proc'[c] \in Process /\ proc'[c].state = "exited" /\ proc'[c].coded = coded
      /\ proc'[c].port = proc[c].port
      /\ proc'[c].committed = proc[c].committed /\ proc'[c].late = proc[c].late
  <2>1. PICK p, q :
          /\ p \in Process /\ p = proc[c] /\ q = proc'[c]
          /\ q = [p EXCEPT !.state = "exited", !.coded = coded, !.listeners = "detached"]
    BY <1>1
  <2>2. q = [p EXCEPT !.state = "exited", !.coded = coded, !.listeners = "detached"]
    BY <2>1
  <2>3. p \in Process
    BY <2>1
  <2>4. /\ q \in Process /\ q.state = "exited" /\ q.coded = coded /\ q.port = p.port
        /\ q.committed = p.committed /\ q.late = p.late
    BY <2>2, <2>3, ProcessDead
  <2> QED
    BY <2>1, <2>4
<1> QED
  BY <1>1, <1>2, <1>3 DEF Untouched

\* The queue after its head is taken, and after an operation is asked for.
LEMMA QueueTaken ==
  ASSUME queue \in Seq(Ops), queue # <<>>, queue' = Tail(queue)
  PROVE  /\ queue' \in Seq(Ops) /\ 1 \in DOMAIN queue
         /\ Head(queue) = queue[1] /\ queue[1] \in Ops
         /\ \A i \in DOMAIN queue' : queue'[i] = queue[i + 1] /\ i + 1 \in DOMAIN queue
                                      /\ i + 1 # 1 /\ i \in Nat
<1>1. /\ Head(queue) \in Ops /\ Tail(queue) \in Seq(Ops)
      /\ Len(Tail(queue)) = Len(queue) - 1
      /\ \A i \in 1 .. Len(Tail(queue)) : Tail(queue)[i] = queue[i + 1]
  BY HeadTailProperties
<1>2. Len(queue) \in Nat /\ Len(queue) # 0 /\ DOMAIN queue = 1 .. Len(queue)
      /\ DOMAIN Tail(queue) = 1 .. Len(Tail(queue))
  BY <1>1, LenProperties, EmptySeq
<1>3. Head(queue) = queue[1]
  OBVIOUS
<1>4. ASSUME NEW i \in DOMAIN queue'
      PROVE  queue'[i] = queue[i + 1] /\ i + 1 \in DOMAIN queue /\ i + 1 # 1 /\ i \in Nat
  BY <1>1, <1>2
<1>5. 1 \in DOMAIN queue
  BY <1>2
<1> QED
  BY <1>1, <1>3, <1>4, <1>5

LEMMA QueueAsked ==
  ASSUME queue \in Seq(Ops), NEW o \in Ops, queue' = Append(queue, o)
  PROVE  /\ queue' \in Seq(Ops)
         /\ \A i \in DOMAIN queue' : \/ i \in DOMAIN queue /\ queue'[i] = queue[i]
                                     \/ i = Len(queue) + 1 /\ queue'[i] = o
         /\ \A i \in DOMAIN queue : queue'[i] = queue[i] /\ i \in DOMAIN queue'
<1>1. /\ Append(queue, o) \in Seq(Ops) /\ Len(Append(queue, o)) = Len(queue) + 1
      /\ \A i \in 1 .. Len(queue) : Append(queue, o)[i] = queue[i]
      /\ Append(queue, o)[Len(queue) + 1] = o
  BY AppendProperties
<1>2. Len(queue) \in Nat /\ DOMAIN queue = 1 .. Len(queue)
      /\ DOMAIN Append(queue, o) = 1 .. Len(Append(queue, o))
  BY <1>1, LenProperties
<1> QED
  BY <1>1, <1>2

-----------------------------------------------------------------------------
(* The steps of the invariant's first part. *)

States == {"stopped", "starting", "running", "error"}
Codes  == {"", "START_FAILED", "RUNTIME_EXIT", "PORT_IN_USE"}
Statuses == [state : States, code : Codes, port : Ports \cup {NoPort}]
Timers   == [port : Ports \cup {NoPort}, gen : Nat]

LEMMA StatusShape ==
  ASSUME NEW state \in States, NEW code \in Codes, NEW port \in Ports \cup {NoPort}
  PROVE  Status(state, code, port) \in Statuses /\ Status(state, code, port).state = state
BY DEF Status, Statuses

LEMMA TypedShape ==
  ASSUME Typed
  PROVE  /\ child \in Children \cup {NoChild} /\ managedPort \in Ports \cup {NoPort}
         /\ status \in Statuses
         /\ proc \in [Children -> Process]
         /\ queue \in Seq(Ops) /\ op \in Ops \cup {NoOp}
         /\ generation \in Nat /\ attempts \in Nat /\ requests \in Nat /\ streak \in Nat
         /\ timer \in Timers
         /\ owner \in Children \cup {NoChild} /\ down \in BOOLEAN
BY DEF Typed, Statuses, States, Codes, Timers

LEMMA TypedNext ==
  ASSUME /\ child' \in Children \cup {NoChild} /\ managedPort' \in Ports \cup {NoPort}
         /\ status' \in Statuses
         /\ proc' \in [Children -> Process]
         /\ queue' \in Seq(Ops) /\ op' \in Ops \cup {NoOp}
         /\ generation' \in Nat /\ attempts' \in Nat /\ requests' \in Nat /\ streak' \in Nat
         /\ timer' \in Timers
         /\ owner' \in Children \cup {NoChild} /\ down' \in BOOLEAN
  PROVE  Typed'
BY DEF Typed, Statuses, States, Codes, Timers

LEMMA TimerShape ==
  /\ \A t \in Timers : t.port \in Ports \cup {NoPort} /\ t.gen \in Nat
  /\ \A port \in Ports \cup {NoPort}, gen \in Nat : [port |-> port, gen |-> gen] \in Timers
  /\ NoTimer \in Timers /\ NoTimer.gen = 0
BY DEF Timers, NoTimer

LEMMA Scheduled ==
  ASSUME Typed, NEW port \in Ports \cup {NoPort}, NEW tries \in Nat,
         ScheduleAutoRestart(port, tries)
  PROVE  attempts' \in Nat /\ timer' \in Timers
<1>1. generation \in Nat /\ timer \in Timers
  BY TypedShape
<1>2. [port |-> port, gen |-> generation] \in Timers
  BY <1>1, TimerShape
<1> QED
  BY <1>1, <1>2 DEF ScheduleAutoRestart

\* An idle lifecycle stands at no await.
LEMMA Idle ==
  op' = NoOp => OperationStands'
BY OpsShape DEF OperationStands, Starting, Waiting

LEMMA StartEnds ==
  ASSUME Typed, op \in Ops, NEW st \in Statuses, StartEndsWith(st)
  PROVE  /\ status' = st /\ op' = NoOp /\ op' \in Ops \cup {NoOp}
         /\ status' \in Statuses /\ OperationStands'
         /\ attempts' \in Nat /\ timer' \in Timers
<1>1. attempts' \in Nat /\ timer' \in Timers
  BY OpsShape, Scheduled, TypedShape DEF StartEndsWith
<1> QED
  BY <1>1, Idle DEF StartEndsWith

LEMMA StartRefusedConforms ==
  ASSUME LifecycleAssumption, Conforms, StartRefused
  PROVE  Conforms'
<1>1. op \in Ops /\ op.at \in {"preflight", "retryPreflight"}
  BY OpsShape DEF Conforms, Typed, StartRefused
<1>2. PICK code \in {"PORT_IN_USE", "START_FAILED"} :
        StartEndsWith(Status("error", code, op.port))
  BY DEF StartRefused
<1>3. Status("error", code, op.port) \in Statuses
      /\ Status("error", code, op.port).state = "error"
  <2>1. "error" \in States /\ code \in Codes /\ op.port \in Ports \cup {NoPort}
    BY <1>1, OpsShape DEF States, Codes
  <2> QED
    BY <2>1, StatusShape
<1>4. /\ status'.state = "error" /\ op' = NoOp /\ op' \in Ops \cup {NoOp}
      /\ status' \in Statuses /\ OperationStands'
      /\ attempts' \in Nat /\ timer' \in Timers
  BY <1>1, <1>2, <1>3, StartEnds DEF Conforms
<1>5. Typed'
  BY <1>4, TypedShape, TypedNext DEF Conforms, StartRefused
<1>6. QueueStands' /\ ProcessesAge' /\ LiveChildIsTracked' /\ OwnerFollows'
  BY DEF Conforms, QueueStands, ProcessesAge, LiveChildIsTracked, OwnerFollows, StartRefused
<1>7. ManagedLives'
  BY <1>1, OpsShape DEF Conforms, ManagedLives, Alive, StartRefused
<1>8. RunningIsTrue' /\ LateIsNotRunning'
  BY <1>4 DEF RunningIsTrue, LateIsNotRunning
<1> QED
  BY <1>4, <1>5, <1>6, <1>7, <1>8 DEF Conforms

LEMMA SpawnConforms ==
  ASSUME LifecycleAssumption, Conforms, NEW c \in Children, Spawn(c)
  PROVE  Conforms'
<1>1. op \in Ops /\ op.at = "preflight" /\ op.kind \in Starts /\ child = NoChild
      /\ op.port \in Ports \cup {NoPort} /\ op.stage = "none"
  BY OpsShape DEF Conforms, Typed, OperationStands, Spawn, Waiting
<1>2. /\ op' \in Ops /\ op'.at = "health" /\ op'.kind = op.kind /\ op'.child = c
      /\ op'.stage = "none" /\ op' # NoOp
  <2>1. "health" \in Points
    BY DEF Points
  <2> QED
    <3>1. op' = [op EXCEPT !.at = "health", !.child = c]
      BY DEF Spawn
    <3>2. op' \in Ops /\ op'.at = "health" /\ op'.kind = op.kind /\ op'.child = c
          /\ op'.stage = op.stage
      BY <1>1, <2>1, <3>1 DEF Ops
    <3> QED
      BY <1>1, <3>2, OpsShape
<1>3. /\ proc' \in [Children -> Process] /\ Untouched(c)
      /\ proc'[c].state = "alive" /\ proc'[c].port = op.port /\ proc'[c].coded = proc[c].coded
      /\ proc'[c].committed = proc[c].committed /\ proc'[c].late = proc[c].late
  BY <1>1, ChildBorn DEF Conforms, Typed, Spawn
<1>4. status' \in Statuses /\ status'.state = "starting"
  <2>1. "starting" \in States /\ "" \in Codes
    BY DEF States, Codes
  <2> QED
    BY <1>1, <2>1, StatusShape DEF Spawn
<1>5. /\ ~proc[c].committed /\ ~proc[c].late /\ ~proc[c].coded
      /\ \A d \in Children : ~Alive(d)
  <2>1. proc[c] \in Process
    BY DEF Conforms, Typed
  <2> QED
    BY <1>1, <2>1, ProcessShape
    DEF Conforms, ProcessesAge, Spawn, LiveChildIsTracked, Alive, LifecycleAssumption
<1>6. Typed'
  BY <1>1, <1>2, <1>3, <1>4, TypedShape, TypedNext DEF Conforms, Spawn
<1>7. OperationStands'
  BY <1>1, <1>2, <1>3, <1>4, <1>5
  DEF Conforms, OperationStands, OwnerFollows, Starting, Waiting, Spawn
<1>8. QueueStands' /\ OwnerFollows'
  BY <1>1 DEF Conforms, QueueStands, OwnerFollows, Spawn
<1>9. ProcessesAge' /\ LiveChildIsTracked' /\ ManagedLives'
  BY <1>1, <1>3, <1>5 DEF Conforms, ProcessesAge, LiveChildIsTracked, ManagedLives, Alive,
                          Untouched, Spawn
<1>10. RunningIsTrue' /\ LateIsNotRunning'
  BY <1>4 DEF RunningIsTrue, LateIsNotRunning
<1> QED
  BY <1>6, <1>7, <1>8, <1>9, <1>10 DEF Conforms

\* No process lives, and the lifecycle holds none.
NoneLeft == child = NoChild /\ owner = NoChild /\ \A c \in Children : ~Alive(c)

LEMMA NoneLeftConforms ==
  ASSUME NoneLeft', status'.state # "running"
  PROVE  /\ LiveChildIsTracked' /\ ManagedLives' /\ OwnerFollows'
         /\ RunningIsTrue' /\ LateIsNotRunning'
BY DEF NoneLeft, LiveChildIsTracked, ManagedLives, OwnerFollows, RunningIsTrue, LateIsNotRunning,
       Alive

\* Without a live managed child, no child is alive.
LEMMA NobodyElseLives ==
  ASSUME LifecycleAssumption, Conforms, NEW c \in Children, child \in {c, NoChild}
  PROVE  /\ \A d \in Children \ {c} : ~Alive(d)
         /\ owner \in {c, NoChild}
         /\ OwnerClearedOf(c) = NoChild
         /\ child = NoChild => owner = NoChild
BY DEF LifecycleAssumption, Conforms, LiveChildIsTracked, OwnerFollows, OwnerClearedOf, Alive

\* An operation begins to wait for the exit of the managed child.
LEMMA WaitBegins ==
  ASSUME LifecycleAssumption, Conforms, NEW o \in Ops, child \in Children, Alive(child),
         NEW at \in Waiting, NEW stage \in {"ask", "term"}, StopChild(o, child, at, stage),
         /\ at = "failing" => o.kind \in Starts
         /\ at = "stopping" => o.kind \in {"stop", "retry"}
         /\ at = "violating" => o.kind = "violation",
         UNCHANGED <<child, managedPort, status, owner>>
  PROVE  /\ op' \in Ops /\ op'.kind = o.kind /\ proc' \in [Children -> Process]
         /\ OperationStands' /\ ProcessesAge' /\ LiveChildIsTracked' /\ ManagedLives'
         /\ OwnerFollows' /\ RunningIsTrue' /\ LateIsNotRunning'
<1>1. op' \in Ops /\ op'.kind = o.kind /\ op'.child = child /\ op'.at = at /\ op'.stage = stage
  <2>1. at \in Points /\ stage \in {"none", "ask", "term", "kill"}
    BY DEF Waiting, Points
  <2>2. op' = [o EXCEPT !.at = at, !.child = child, !.stage = stage]
    BY DEF StopChild
  <2> QED
    BY <2>1, <2>2 DEF Ops
<1>2. /\ proc' \in [Children -> Process] /\ Untouched(child) /\ Lasting(child)
      /\ proc'[child].intentional = TRUE /\ proc'[child].late = proc[child].late
      /\ proc'[child].committed = proc[child].committed
  BY TypedShape, MeantToStop DEF Conforms, StopChild
<1>3. op' # NoOp
  BY <1>1, OpsShape
<1>4. OperationStands'
  BY <1>1, <1>2, <1>3 DEF OperationStands, Starting, Waiting, Alive, Lasting
<1>5. ProcessesAge' /\ LiveChildIsTracked'
  BY <1>2 DEF Conforms, ProcessesAge, LiveChildIsTracked, Untouched, Lasting
<1>6. ManagedLives' /\ OwnerFollows'
  BY <1>2 DEF Conforms, ManagedLives, OwnerFollows, Alive, Lasting
<1>7. RunningIsTrue' /\ LateIsNotRunning'
  BY <1>2 DEF Conforms, RunningIsTrue, LateIsNotRunning, Untouched, Lasting, Alive
<1> QED
  BY <1>1, <1>2, <1>4, <1>5, <1>6, <1>7

LEMMA PortFreed ==
  ASSUME Typed, NEW c \in Children
  PROVE  PortFreedBy(c) \in Ports \cup {NoPort} /\ OwnerClearedOf(c) \in Children \cup {NoChild}
         /\ proc[c].port \in Ports \cup {NoPort}
BY TypedShape, ProcessShape DEF PortFreedBy, OwnerClearedOf

LEMMA FailStartedConforms ==
  ASSUME LifecycleAssumption, Conforms, op.at \in Starting, FailStarted(op.child),
         UNCHANGED <<queue, generation, requests, down, streak>>
  PROVE  Conforms'
<1> DEFINE c == op.child
<1>1. /\ op \in Ops /\ op.kind \in Starts /\ c \in Children /\ child \in {c, NoChild}
      /\ child = c \/ proc[c].coded
  BY OpsShape, TypedShape DEF Conforms, OperationStands, Starting
<1>2. Typed /\ proc \in [Children -> Process] /\ proc[c].coded \in BOOLEAN
  BY <1>1, TypedShape, ProcessShape DEF Conforms
<1>3. QueueStands'
  BY DEF Conforms, QueueStands
<1>4. CASE proc[c].coded
  <2>1. /\ proc' = [proc EXCEPT ![c].intentional = TRUE]
        /\ owner' = OwnerClearedOf(c) /\ managedPort' = PortFreedBy(c)
        /\ child' = NoChild
        /\ StartEndsWith(Status("error", "START_FAILED", proc[c].port))
    BY <1>1, <1>4 DEF FailStarted
  <2>2. /\ proc' \in [Children -> Process] /\ Untouched(c) /\ Lasting(c)
        /\ proc'[c].late = proc[c].late /\ proc'[c].committed = proc[c].committed
    BY <1>1, <1>2, <2>1, MeantToStop
  <2>3. PortFreedBy(c) \in Ports \cup {NoPort} /\ proc[c].port \in Ports \cup {NoPort}
    BY <1>1, <1>2, PortFreed
  <2>4. Status("error", "START_FAILED", proc[c].port) \in Statuses
        /\ Status("error", "START_FAILED", proc[c].port).state = "error"
    <3>1. "error" \in States /\ "START_FAILED" \in Codes
      BY DEF States, Codes
    <3> QED
      BY <2>3, <3>1, StatusShape
  <2>5. /\ status'.state = "error" /\ op' \in Ops \cup {NoOp}
        /\ status' \in Statuses /\ OperationStands' /\ attempts' \in Nat /\ timer' \in Timers
    BY <1>1, <1>2, <2>1, <2>4, StartEnds
  <2>6. NoneLeft'
    <3>1. ~Alive(c)
      BY <1>1, <1>4 DEF Conforms, ProcessesAge, Alive
    <3> QED
      BY <1>1, <2>1, <2>2, <3>1, NobodyElseLives DEF NoneLeft, Alive, Untouched, Lasting
  <2>7. Typed'
    BY <1>1, <1>2, <2>1, <2>2, <2>3, <2>5, <2>6, TypedShape, TypedNext DEF NoneLeft
  <2>8. ProcessesAge'
    BY <1>1, <2>2 DEF Conforms, ProcessesAge, Untouched, Lasting
  <2>9. LiveChildIsTracked' /\ ManagedLives' /\ OwnerFollows' /\ RunningIsTrue' /\ LateIsNotRunning'
    BY <2>5, <2>6, NoneLeftConforms
  <2> QED
    BY <1>3, <2>5, <2>7, <2>8, <2>9 DEF Conforms
<1>5. CASE ~proc[c].coded
  <2>1. PICK stage \in {"ask", "term"} : StopChild(op, c, "failing", stage)
    BY <1>5 DEF FailStarted
  <2>2. UNCHANGED <<child, managedPort, status, timer, attempts, owner>>
    BY <1>5 DEF FailStarted
  <2>3. child = c /\ Alive(child) /\ "failing" \in Waiting /\ child \in Children
    BY <1>1, <1>5, OpsShape DEF Conforms, ManagedLives, LifecycleAssumption, Waiting
  <2>4. /\ op' \in Ops /\ proc' \in [Children -> Process]
        /\ OperationStands' /\ ProcessesAge' /\ LiveChildIsTracked' /\ ManagedLives'
        /\ OwnerFollows' /\ RunningIsTrue' /\ LateIsNotRunning'
    BY <1>1, <2>1, <2>2, <2>3, WaitBegins
  <2>5. Typed'
    BY <1>2, <2>2, <2>4, TypedShape, TypedNext
  <2> QED
    BY <1>3, <2>4, <2>5 DEF Conforms
<1> QED
  BY <1>2, <1>4, <1>5

LEMMA StartStepConforms ==
  ASSUME LifecycleAssumption, Conforms, HealthFails \/ VerificationFails \/ HealthPasses
  PROVE  Conforms'
<1>1. CASE HealthFails
  BY <1>1, FailStartedConforms DEF HealthFails, Starting
<1>2. CASE VerificationFails
  BY <1>2, FailStartedConforms DEF VerificationFails, Starting
<1>3. CASE HealthPasses /\ ~Owned(op.child)
  BY <1>3, FailStartedConforms DEF HealthPasses, Starting
<1>4. CASE HealthPasses /\ Owned(op.child)
  <2> DEFINE c == op.child
  <2>1. /\ op \in Ops /\ op.kind \in Starts /\ c \in Children /\ child = c /\ ~proc[c].coded
        /\ op.at = "health" /\ op.stage = "none" /\ status.state = "starting"
        /\ ~proc[c].committed /\ ~proc[c].late
    BY <1>4, OpsShape, TypedShape
    DEF Conforms, OperationStands, Starting, Waiting, HealthPasses, Owned
  <2>2. /\ proc' = [proc EXCEPT ![c].listeners = "runtime"]
        /\ op' = [op EXCEPT !.at = "verify"]
        /\ UNCHANGED <<child, managedPort, status, timer, attempts, owner>>
        /\ UNCHANGED <<queue, generation, requests, down, streak>>
    BY <1>4 DEF HealthPasses
  <2>3. /\ proc' \in [Children -> Process] /\ Untouched(c) /\ Lasting(c)
        /\ proc'[c].committed = proc[c].committed /\ proc'[c].late = proc[c].late
    BY <2>1, <2>2, TypedShape, ChildHandedOver DEF Conforms
  <2>4. /\ op' \in Ops /\ op'.at = "verify" /\ op'.kind = op.kind /\ op'.child = c
        /\ op'.stage = op.stage
    <3>1. "verify" \in Points
      BY DEF Points
    <3> QED
      BY <2>1, <2>2, <3>1 DEF Ops
  <2>5. Typed'
    BY <2>2, <2>3, <2>4, TypedShape, TypedNext DEF Conforms
  <2>6. OperationStands'
    BY <2>1, <2>2, <2>3, <2>4, OpsShape DEF OperationStands, Starting, Waiting
  <2>7. QueueStands' /\ OwnerFollows' /\ RunningIsTrue' /\ LateIsNotRunning'
    BY <2>1, <2>2 DEF Conforms, QueueStands, OwnerFollows, RunningIsTrue, LateIsNotRunning
  <2>8. ProcessesAge' /\ LiveChildIsTracked'
    BY <2>1, <2>2, <2>3 DEF Conforms, ProcessesAge, LiveChildIsTracked, Untouched, Lasting
  <2>9. ManagedLives'
    BY <2>1, <2>2, <2>3, <2>4 DEF Conforms, ManagedLives, Alive, Lasting
  <2> QED
    BY <2>5, <2>6, <2>7, <2>8, <2>9 DEF Conforms
<1> QED
  BY <1>1, <1>2, <1>3, <1>4

LEMMA WriteOwnerConforms ==
  ASSUME LifecycleAssumption, Conforms, WriteOwner
  PROVE  Conforms'
<1>1. /\ op \in Ops /\ op.kind \in Starts /\ op.child \in Children /\ child = op.child
      /\ op.at = "verify" /\ op.stage = "none" /\ status.state = "starting"
      /\ ~proc[child].committed /\ ~proc[child].late
  BY OpsShape, TypedShape DEF Conforms, OperationStands, Starting, Waiting, WriteOwner, Owned
<1>2. /\ op' \in Ops /\ op'.at = "record" /\ op'.kind = op.kind /\ op'.child = op.child
      /\ op'.stage = op.stage
  <2>1. "record" \in Points /\ op' = [op EXCEPT !.at = "record"]
    BY DEF Points, WriteOwner
  <2> QED
    BY <1>1, <2>1 DEF Ops
<1>3. Typed'
  BY <1>1, <1>2, TypedShape, TypedNext DEF Conforms, WriteOwner
<1>4. OperationStands'
  BY <1>1, <1>2, OpsShape DEF OperationStands, Starting, Waiting, WriteOwner
<1>5. OwnerFollows' /\ ManagedLives'
  BY <1>1, <1>2 DEF Conforms, OwnerFollows, ManagedLives, Alive, WriteOwner
<1>6. QueueStands' /\ RunningIsTrue' /\ LateIsNotRunning' /\ ProcessesAge' /\ LiveChildIsTracked'
  BY DEF Conforms, QueueStands, RunningIsTrue, LateIsNotRunning, ProcessesAge,
         LiveChildIsTracked, Alive, WriteOwner
<1> QED
  BY <1>3, <1>4, <1>5, <1>6 DEF Conforms

LEMMA CommitRunningConforms ==
  ASSUME LifecycleAssumption, Conforms, CommitRunning
  PROVE  Conforms'
<1> DEFINE c == op.child
<1>1. /\ op \in Ops /\ c \in Children /\ child = c /\ ~proc[c].coded
      /\ ~proc[c].late /\ op.port \in Ports \cup {NoPort}
  BY OpsShape, TypedShape DEF Conforms, OperationStands, Starting, CommitRunning, Owned
<1>2. Alive(c)
  BY <1>1 DEF Conforms, ManagedLives, LifecycleAssumption
<1>3. /\ proc' \in [Children -> Process] /\ Untouched(c) /\ Lasting(c)
      /\ proc'[c].committed = TRUE /\ proc'[c].late = proc[c].late
  BY <1>1, TypedShape, ChildCommitted DEF Conforms, CommitRunning
<1>4. status' \in Statuses
  <2>1. "running" \in States /\ "" \in Codes
    BY DEF States, Codes
  <2> QED
    BY <1>1, <2>1, StatusShape DEF CommitRunning
<1>5. op' = NoOp /\ OperationStands'
  BY Idle DEF CommitRunning
<1>6. Typed'
  BY <1>3, <1>4, <1>5, TypedShape, TypedNext DEF Conforms, CommitRunning
<1>7. QueueStands' /\ OwnerFollows'
  BY DEF Conforms, QueueStands, OwnerFollows, CommitRunning
<1>8. ProcessesAge' /\ LiveChildIsTracked'
  BY <1>1, <1>2, <1>3 DEF Conforms, ProcessesAge, LiveChildIsTracked, Alive, Untouched, Lasting,
                          CommitRunning
<1>9. ManagedLives' /\ RunningIsTrue'
  BY <1>1, <1>2, <1>3 DEF ManagedLives, RunningIsTrue, Alive, Lasting, LifecycleAssumption,
                          CommitRunning
<1>10. LateIsNotRunning'
  <2>1. \A d \in Children \ {c} : ~Alive(d)
    BY <1>1, NobodyElseLives
  <2> QED
    BY <1>1, <1>3, <2>1 DEF LateIsNotRunning, Alive, Untouched
<1> QED
  BY <1>5, <1>6, <1>7, <1>8, <1>9, <1>10 DEF Conforms

LEMMA EscalatesConforms ==
  ASSUME LifecycleAssumption, Conforms, Escalates
  PROVE  Conforms'
<1>1. /\ op \in Ops /\ op.at \in Waiting /\ op.child \in Children /\ child = op.child
      /\ Alive(child) /\ proc[child].intentional
  BY OpsShape, TypedShape DEF Conforms, OperationStands, Escalates
<1>2. /\ op' \in Ops /\ op'.at = op.at /\ op'.kind = op.kind /\ op'.child = op.child
  <2>1. PICK stage \in {"term", "kill"} : op' = [op EXCEPT !.stage = stage]
    BY DEF Escalates
  <2> QED
    BY <1>1, <2>1 DEF Ops
<1>3. /\ proc' \in [Children -> Process] /\ Untouched(child) /\ Lasting(child)
      /\ proc'[child].committed = proc[child].committed /\ proc'[child].late = proc[child].late
      /\ proc'[child].intentional = proc[child].intentional
  BY <1>1, TypedShape, ChildSignalled DEF Conforms, Escalates
<1>4. Typed'
  BY <1>2, <1>3, TypedShape, TypedNext DEF Conforms, Escalates
<1>5. OperationStands'
  BY <1>1, <1>2, <1>3, OpsShape
  DEF Conforms, OperationStands, Starting, Waiting, Alive, Lasting, Escalates
<1>6. QueueStands' /\ OwnerFollows'
  BY DEF Conforms, QueueStands, OwnerFollows, Escalates
<1>7. ProcessesAge' /\ LiveChildIsTracked'
  BY <1>1, <1>3 DEF Conforms, ProcessesAge, LiveChildIsTracked, Alive, Untouched, Lasting,
                    Escalates
<1>8. ManagedLives' /\ RunningIsTrue' /\ LateIsNotRunning'
  BY <1>1, <1>3 DEF Conforms, ManagedLives, RunningIsTrue, LateIsNotRunning, Alive, Untouched,
                    Lasting, Escalates
<1> QED
  BY <1>4, <1>5, <1>6, <1>7, <1>8 DEF Conforms

LEMMA StopUnconfirmedConforms ==
  ASSUME LifecycleAssumption, Conforms, StopUnconfirmed
  PROVE  Conforms'
<1>1. /\ op \in Ops /\ op.at \in Waiting /\ op.child \in Children /\ child = op.child
      /\ Alive(child)
  BY OpsShape, TypedShape DEF Conforms, OperationStands, StopUnconfirmed
<1>2. /\ proc' \in [Children -> Process] /\ Untouched(child) /\ Lasting(child)
      /\ proc'[child].committed = proc[child].committed /\ proc'[child].late = TRUE
  BY <1>1, TypedShape, ChildKept DEF Conforms, StopUnconfirmed
<1>3. /\ status'.state = "error" /\ op' \in Ops \cup {NoOp}
      /\ status' \in Statuses /\ OperationStands' /\ attempts' \in Nat /\ timer' \in Timers
  <2>1. Status("error", "START_FAILED", managedPort) \in Statuses
        /\ Status("error", "START_FAILED", managedPort).state = "error"
    <3>1. "error" \in States /\ "START_FAILED" \in Codes /\ managedPort \in Ports \cup {NoPort}
      BY TypedShape DEF States, Codes, Conforms
    <3> QED
      BY <3>1, StatusShape
  <2> QED
    BY <1>1, <2>1, StartEnds DEF Conforms, StopUnconfirmed
<1>4. Typed'
  BY <1>2, <1>3, TypedShape, TypedNext DEF Conforms, StopUnconfirmed
<1>5. QueueStands' /\ OwnerFollows'
  BY DEF Conforms, QueueStands, OwnerFollows, StopUnconfirmed
<1>6. ProcessesAge' /\ LiveChildIsTracked'
  <2>1. proc[child].state # "unborn"
    BY <1>1 DEF Alive
  <2> QED
    BY <1>1, <1>2, <2>1 DEF Conforms, ProcessesAge, LiveChildIsTracked, Alive, Untouched, Lasting,
                    StopUnconfirmed
<1>7. ManagedLives' /\ RunningIsTrue' /\ LateIsNotRunning'
  BY <1>1, <1>2, <1>3 DEF ManagedLives, RunningIsTrue, LateIsNotRunning, Alive, Lasting,
                          StopUnconfirmed
<1> QED
  BY <1>3, <1>4, <1>5, <1>6, <1>7 DEF Conforms

\* Asking for an operation changes nothing the operation that runs stands on.
LEMMA QueueStandsOn ==
  ASSUME Conforms, NEW o \in Ops, o.at = "queued", o.stage = "none",
         o.kind = "violation" => o.child \in Children,
         queue' = Append(queue, o)
  PROVE  queue' \in Seq(Ops) /\ QueueStands'
BY TypedShape, QueueAsked DEF Conforms, QueueStands

LEMMA AskedConforms ==
  ASSUME LifecycleAssumption, Conforms,
         TimerFires \/ \E kind \in {"start", "retry", "stop"}, port \in Ports \cup {NoPort} :
                         Request(kind, port)
  PROVE  Conforms'
<1>1. /\ queue' \in Seq(Ops) /\ QueueStands' /\ generation' \in Nat /\ requests' \in Nat
      /\ timer' \in Timers /\ down' \in BOOLEAN
      /\ UNCHANGED <<child, managedPort, status, proc, op, attempts, owner, streak>>
  <2>1. CASE TimerFires
    <3>1. "auto" \in Kinds /\ timer.port \in Ports \cup {NoPort} /\ timer.gen \in Nat
      BY TypedShape, TimerShape DEF Kinds, Conforms
    <3>2. PICK o \in Ops : /\ queue' = Append(queue, o) /\ o.kind = "auto"
                           /\ o.at = "queued" /\ o.stage = "none"
      BY <2>1, <3>1, OpShape DEF TimerFires
    <3> QED
      BY <2>1, <3>2, QueueStandsOn, TypedShape, TimerShape DEF TimerFires, Conforms
  <2>2. ASSUME NEW kind \in {"start", "retry", "stop"}, NEW port \in Ports \cup {NoPort},
               Request(kind, port)
        PROVE  /\ queue' \in Seq(Ops) /\ QueueStands' /\ generation' \in Nat
               /\ requests' \in Nat /\ timer' \in Timers /\ down' \in BOOLEAN
               /\ UNCHANGED <<child, managedPort, status, proc, op, attempts, owner, streak>>
    <3>1. kind \in Kinds /\ 0 \in Nat
      BY DEF Kinds
    <3>2. PICK o \in Ops : /\ queue' = Append(queue, o) /\ o.kind = kind
                           /\ o.at = "queued" /\ o.stage = "none"
      <4>1. PICK o \in Ops : /\ o = Op(kind, port, 0, NoChild) /\ o.kind = kind
                             /\ o.at = "queued" /\ o.stage = "none"
        BY <3>1, OpShape
      <4> QED
        BY <2>2, <4>1 DEF Request
    <3>3. queue' \in Seq(Ops) /\ QueueStands'
      BY <3>2, QueueStandsOn
    <3>4. generation' \in Nat /\ requests' \in Nat /\ timer' \in Timers /\ down' \in BOOLEAN
      BY <2>2, TypedShape DEF Request, Conforms
    <3> QED
      BY <2>2, <3>3, <3>4 DEF Request
  <2> QED
    BY <2>1, <2>2
<1>2. Typed'
  BY <1>1, TypedShape, TypedNext DEF Conforms
<1> QED
  BY <1>1, <1>2 DEF Conforms, OperationStands, ProcessesAge, LiveChildIsTracked, ManagedLives,
                    OwnerFollows, RunningIsTrue, LateIsNotRunning, Alive

LEMMA ProtocolViolationConforms ==
  ASSUME LifecycleAssumption, Conforms, NEW c \in Children, ProtocolViolation(c)
  PROVE  Conforms'
<1>1. /\ proc' \in [Children -> Process] /\ Untouched(c) /\ Lasting(c)
      /\ proc'[c].committed = proc[c].committed /\ proc'[c].late = proc[c].late
      /\ proc'[c].intentional = proc[c].intentional
  BY TypedShape, ChildInvalid DEF Conforms, ProtocolViolation
<1>2. queue' \in Seq(Ops) /\ QueueStands'
  <2>1. "violation" \in Kinds /\ NoPort \in Ports \cup {NoPort} /\ 0 \in Nat
        /\ c \in Children \cup {NoChild}
    BY DEF Kinds
  <2>2. PICK o \in Ops : /\ o = Op("violation", NoPort, 0, c) /\ o.kind = "violation"
                         /\ o.child = c /\ o.at = "queued" /\ o.stage = "none"
    BY <2>1, OpShape
  <2> QED
    BY <2>2, QueueStandsOn DEF ProtocolViolation
<1>3. Typed'
  BY <1>1, <1>2, TypedShape, TypedNext DEF Conforms, ProtocolViolation
<1>4. OperationStands'
  BY <1>1 DEF Conforms, OperationStands, Alive, Untouched, Lasting, ProtocolViolation
<1>5. ProcessesAge' /\ LiveChildIsTracked'
  BY <1>1 DEF Conforms, ProcessesAge, LiveChildIsTracked, Untouched, Lasting, ProtocolViolation
<1>6. ManagedLives' /\ OwnerFollows'
  BY <1>1 DEF Conforms, ManagedLives, OwnerFollows, Alive, Untouched, Lasting, ProtocolViolation
<1>7. RunningIsTrue' /\ LateIsNotRunning'
  BY <1>1 DEF Conforms, RunningIsTrue, LateIsNotRunning, Alive, Untouched, Lasting,
              ProtocolViolation
<1> QED
  BY <1>2, <1>3, <1>4, <1>5, <1>6, <1>7 DEF Conforms

\* The end of a stop: an idle lifecycle, or a retry that goes on to its start.
LEMMA AfterStopConforms ==
  ASSUME Typed, NEW o \in Ops, o.kind \in {"stop", "retry"}, AfterStop(o), child' = NoChild
  PROVE  /\ op' \in Ops \cup {NoOp} /\ OperationStands' /\ status' \in Statuses
         /\ status'.state = "stopped" /\ down' \in BOOLEAN
         /\ o.kind = "stop" => op' = NoOp
         /\ o.kind = "retry" => op'.kind = "retry"
<1>1. status' \in Statuses /\ status'.state = "stopped"
  <2>1. "stopped" \in States /\ "" \in Codes /\ NoPort \in Ports \cup {NoPort}
    BY DEF States, Codes
  <2> QED
    BY <2>1, StatusShape DEF AfterStop, Stopped
<1>2. down' \in BOOLEAN
  BY DEF AfterStop
<1>3. CASE o.kind = "stop"
  BY <1>1, <1>2, <1>3, Idle DEF AfterStop
<1>4. CASE o.kind = "retry"
  <2>1. "retry" \in Kinds /\ o.port \in Ports \cup {NoPort} /\ o.gen \in Nat
        /\ "preflight" \in Points
    BY OpsShape DEF Kinds, Points
  <2>2. op' \in Ops /\ op'.at = "preflight" /\ op'.kind = "retry" /\ op'.stage = "none"
    <3>1. op' = [Op("retry", o.port, o.gen, NoChild) EXCEPT !.at = "preflight"]
      BY <1>4 DEF AfterStop
    <3> QED
      BY <2>1, <3>1 DEF Op, Ops
  <2>3. OperationStands'
    BY <2>2 DEF OperationStands, Starting, Waiting, Starts
  <2> QED
    BY <1>1, <1>2, <1>4, <2>2, <2>3
<1> QED
  BY <1>3, <1>4

\* A stop begins while the managed child lives, or while there is none.
LEMMA BeginStopConforms ==
  ASSUME LifecycleAssumption, Conforms, NEW o \in Ops, o.kind \in {"stop", "retry"},
         op.at \notin Starting, BeginStop(o), requests' = requests,
         queue' \in Seq(Ops), QueueStands'
  PROVE  Conforms'
<1>1. child # NoChild => child \in Children /\ Alive(child) /\ ~proc[child].coded
  BY TypedShape DEF Conforms, ManagedLives, ProcessesAge, Alive, Starting
<1>2. /\ generation' \in Nat /\ timer' \in Timers /\ attempts' \in Nat /\ streak' \in Nat
  BY TypedShape, TimerShape DEF Conforms, BeginStop
<1>3. CASE child = NoChild
  <2>1. AfterStop(o) /\ managedPort' = NoPort /\ UNCHANGED <<child, proc, owner>>
    BY <1>3 DEF BeginStop
  <2>2. /\ op' \in Ops \cup {NoOp} /\ OperationStands' /\ status' \in Statuses
        /\ status'.state = "stopped" /\ down' \in BOOLEAN
    BY <1>3, <2>1, AfterStopConforms DEF Conforms
  <2>3. NoneLeft'
    BY <1>3, <2>1 DEF Conforms, NoneLeft, LiveChildIsTracked, OwnerFollows, Alive,
                      LifecycleAssumption
  <2>4. ProcessesAge'
    BY <2>1 DEF Conforms, ProcessesAge
  <2>5. Typed'
    BY <1>2, <2>1, <2>2, TypedShape, TypedNext DEF Conforms
  <2>6. /\ LiveChildIsTracked' /\ ManagedLives' /\ OwnerFollows' /\ RunningIsTrue'
        /\ LateIsNotRunning'
    BY <2>2, <2>3, NoneLeftConforms
  <2> QED
    BY <2>2, <2>4, <2>5, <2>6 DEF Conforms
<1>4. CASE child # NoChild
  <2>1. PICK stage \in {"ask", "term"} : StopChild(o, child, "stopping", stage)
    BY <1>1, <1>4 DEF BeginStop
  <2>2. UNCHANGED <<child, managedPort, status, owner, down>>
    BY <1>1, <1>4 DEF BeginStop
  <2>3. /\ op' \in Ops /\ proc' \in [Children -> Process]
        /\ OperationStands' /\ ProcessesAge' /\ LiveChildIsTracked' /\ ManagedLives'
        /\ OwnerFollows' /\ RunningIsTrue' /\ LateIsNotRunning'
    <3>1. "stopping" \in Waiting
      BY DEF Waiting
    <3> QED
      BY <1>1, <1>4, <2>1, <2>2, <3>1, WaitBegins
  <2>4. Typed'
    BY <1>2, <2>2, <2>3, TypedShape, TypedNext DEF Conforms
  <2> QED
    BY <2>3, <2>4 DEF Conforms
<1> QED
  BY <1>3, <1>4

LEMMA RetryPreflightClearConforms ==
  ASSUME LifecycleAssumption, Conforms, RetryPreflightClear
  PROVE  Conforms'
<1>1. op \in Ops /\ op.kind \in {"stop", "retry"} /\ op.at \notin Starting
  BY OpsShape, TypedShape DEF Conforms, OperationStands, RetryPreflightClear, Starting
<1>2. queue' \in Seq(Ops) /\ QueueStands' /\ requests' = requests /\ BeginStop(op)
  BY TypedShape DEF Conforms, QueueStands, RetryPreflightClear
<1> QED
  BY <1>1, <1>2, BeginStopConforms

\* The operation at the head of the queue.
HeadStands(o) ==
  /\ o \in Ops /\ o = Head(queue) /\ o.stage = "none"
  /\ o.kind = "violation" => o.child \in Children

LEMMA HeadTaken ==
  ASSUME Conforms, BeginOperation
  PROVE  HeadStands(Head(queue)) /\ queue' \in Seq(Ops) /\ QueueStands'
<1>1. queue \in Seq(Ops) /\ queue # <<>> /\ queue' = Tail(queue) /\ QueueStands
  BY TypedShape DEF Conforms, BeginOperation
<1>2. /\ queue' \in Seq(Ops) /\ 1 \in DOMAIN queue
      /\ Head(queue) = queue[1] /\ queue[1] \in Ops
      /\ \A i \in DOMAIN queue' : queue'[i] = queue[i + 1] /\ i + 1 \in DOMAIN queue
  BY <1>1, QueueTaken
<1> QED
  BY <1>1, <1>2 DEF HeadStands, QueueStands

\* An operation stands at a preflight.
LEMMA GoesTo ==
  ASSUME LifecycleAssumption, Conforms, NEW o \in Ops, o.stage = "none",
         NEW at \in {"preflight", "retryPreflight"}, GoTo(o, at),
         at = "preflight" => o.kind \in Starts /\ child = NoChild,
         at = "retryPreflight" => o.kind = "retry",
         op = NoOp, queue' \in Seq(Ops), QueueStands', streak' \in Nat, requests' = requests
  PROVE  Conforms'
<1>1. /\ op' \in Ops /\ op'.at = at /\ op'.kind = o.kind /\ op'.stage = "none"
  <2>1. at \in Points /\ op' = [o EXCEPT !.at = at]
    BY DEF Points, GoTo
  <2> QED
    BY <2>1 DEF Ops
<1>2. OperationStands'
  BY <1>1 DEF OperationStands, Starting, Waiting, GoTo
<1>3. Typed'
  BY <1>1, TypedShape, TypedNext DEF Conforms, GoTo
<1>4. ManagedLives'
  BY OpsShape DEF Conforms, ManagedLives, Alive, GoTo
<1>5. /\ ProcessesAge' /\ LiveChildIsTracked' /\ OwnerFollows' /\ RunningIsTrue'
      /\ LateIsNotRunning'
  BY DEF Conforms, ProcessesAge, LiveChildIsTracked, OwnerFollows, RunningIsTrue,
         LateIsNotRunning, Alive, GoTo
<1> QED
  BY <1>2, <1>3, <1>4, <1>5 DEF Conforms

LEMMA BeginOperationConforms ==
  ASSUME LifecycleAssumption, Conforms, BeginOperation
  PROVE  Conforms'
<1> DEFINE o == Head(queue)
<1>1. HeadStands(o) /\ queue' \in Seq(Ops) /\ QueueStands'
  BY HeadTaken
<1>2. op = NoOp /\ requests' = requests
  BY DEF BeginOperation
<1> HIDE DEF o
<1>3. CASE Skip
  <2>1. op' = NoOp /\ OperationStands'
    BY <1>3, Idle DEF Skip
  <2>2. Typed'
    BY <1>1, <1>2, <1>3, <2>1, TypedShape, TypedNext DEF Conforms, Skip
  <2> QED
    BY <1>1, <1>2, <1>3, <2>1, <2>2
    DEF Conforms, ProcessesAge, LiveChildIsTracked, ManagedLives, OwnerFollows, RunningIsTrue,
        LateIsNotRunning, Alive, Skip
<1>4. CASE /\ GoTo(o, "preflight") /\ child = NoChild /\ o.kind \in {"start", "auto"}
           /\ streak' \in {streak, streak + 1}
  <2>1. streak' \in Nat /\ o.kind \in Starts
    BY <1>4, TypedShape DEF Conforms, Starts
  <2> QED
    BY <1>1, <1>2, <1>4, <2>1, GoesTo DEF HeadStands
<1>5. CASE GoTo(o, "retryPreflight") /\ o.kind = "retry" /\ streak' = streak
  <2>1. streak' \in Nat
    BY <1>5, TypedShape DEF Conforms
  <2> QED
    BY <1>1, <1>2, <1>5, <2>1, GoesTo DEF HeadStands
<1>6. CASE BeginStop(o) /\ o.kind \in {"stop", "retry"}
  <2>1. op.at \notin Starting
    BY <1>2, OpsShape DEF Starting
  <2> QED
    BY <1>1, <1>2, <1>6, <2>1, BeginStopConforms DEF HeadStands
<1>7. ASSUME NEW stage \in {"ask", "term"}, StopChild(o, child, "violating", stage),
             child = o.child, o.kind = "violation",
             UNCHANGED <<child, managedPort, status, generation, timer, attempts, owner,
                         down, streak>>
      PROVE  Conforms'
  <2>1. child \in Children /\ Alive(child) /\ "violating" \in Waiting
    BY <1>1, <1>2, <1>7, OpsShape
    DEF HeadStands, Conforms, ManagedLives, LifecycleAssumption, Waiting
  <2>2. /\ op' \in Ops /\ proc' \in [Children -> Process]
        /\ OperationStands' /\ ProcessesAge' /\ LiveChildIsTracked' /\ ManagedLives'
        /\ OwnerFollows' /\ RunningIsTrue' /\ LateIsNotRunning'
    BY <1>1, <1>7, <2>1, WaitBegins DEF HeadStands
  <2>3. Typed'
    BY <1>1, <1>2, <1>7, <2>2, TypedShape, TypedNext DEF Conforms
  <2> QED
    BY <1>1, <2>2, <2>3 DEF Conforms
<1>8. \/ Skip
      \/ /\ GoTo(o, "preflight") /\ child = NoChild /\ o.kind \in {"start", "auto"}
         /\ streak' \in {streak, streak + 1}
      \/ GoTo(o, "retryPreflight") /\ o.kind = "retry" /\ streak' = streak
      \/ BeginStop(o) /\ o.kind \in {"stop", "retry"}
      \/ \E stage \in {"ask", "term"} :
           /\ StopChild(o, child, "violating", stage)
           /\ child = o.child /\ o.kind = "violation"
           /\ UNCHANGED <<child, managedPort, status, generation, timer, attempts, owner,
                          down, streak>>
  BY DEF BeginOperation, o
<1> QED
  BY <1>3, <1>4, <1>5, <1>6, <1>7, <1>8

\* What an exit leaves of the invariant, whoever hears of it.
LEMMA Departed ==
  ASSUME LifecycleAssumption, Conforms, NEW c \in Children, \E coded \in BOOLEAN : Exited(c, coded)
  PROVE  /\ proc' \in [Children -> Process] /\ ProcessesAge' /\ Alive(c) /\ ~Alive(c)'
         /\ child = c /\ managedPort = proc[c].port
         /\ \A d \in Children \ {c} : proc'[d] = proc[d] /\ ~Alive(d)
         /\ OwnerClearedOf(c) = NoChild
<1>1. PICK coded \in BOOLEAN : Exited(c, coded)
  OBVIOUS
<1>2. /\ proc' \in [Children -> Process] /\ Untouched(c)
      /\ proc[c].state = "alive" /\ proc'[c].state = "exited"
      /\ proc'[c].committed = proc[c].committed /\ proc'[c].late = proc[c].late
  BY <1>1, TypedShape, ChildDied DEF Conforms
<1>3. child = c /\ managedPort = proc[c].port
  BY <1>2 DEF Conforms, LiveChildIsTracked
<1>4. /\ \A d \in Children \ {c} : ~Alive(d)
      /\ OwnerClearedOf(c) = NoChild
  BY <1>3, NobodyElseLives
<1>5. ProcessesAge'
  BY <1>2 DEF Conforms, ProcessesAge, Untouched
<1> QED
  BY <1>2, <1>3, <1>4, <1>5 DEF Alive, Untouched

LEMMA RuntimeExitConforms ==
  ASSUME LifecycleAssumption, Conforms, NEW c \in Children, RuntimeExit(c)
  PROVE  Conforms'
<1>1. /\ proc' \in [Children -> Process] /\ ProcessesAge' /\ Alive(c) /\ ~Alive(c)'
      /\ \A d \in Children \ {c} : proc'[d] = proc[d] /\ ~Alive(d)
      /\ OwnerClearedOf(c) = NoChild
  BY Departed DEF RuntimeExit
<1>2. NoneLeft'
  BY <1>1 DEF NoneLeft, Alive, RuntimeExit
<1>3. proc[c].port \in Ports \cup {NoPort} /\ op \in Ops \cup {NoOp}
  BY TypedShape, PortFreed DEF Conforms
<1>4. status' \in Statuses /\ status'.state = "error"
  <2>1. "error" \in States /\ "RUNTIME_EXIT" \in Codes
    BY DEF States, Codes
  <2> QED
    BY <1>3, <2>1, StatusShape DEF RuntimeExit
<1>5. attempts' \in Nat /\ timer' \in Timers /\ streak' \in Nat
  <2>1. PICK stable \in BOOLEAN :
          /\ ScheduleAutoRestart(proc[c].port, IF stable THEN 0 ELSE attempts)
          /\ streak' = IF stable THEN 0 ELSE streak
    BY DEF RuntimeExit
  <2>2. (IF stable THEN 0 ELSE attempts) \in Nat /\ streak' \in Nat
    BY <2>1, TypedShape DEF Conforms
  <2> QED
    BY <1>3, <2>1, <2>2, Scheduled DEF Conforms
<1>6. Typed'
  BY <1>1, <1>2, <1>4, <1>5, TypedShape, TypedNext DEF NoneLeft, Conforms, RuntimeExit
<1>7. op.at \notin Starting /\ op.at \notin Waiting /\ op' = op /\ child' = NoChild
  BY DEF Conforms, OperationStands, Starting, RuntimeExit
<1>8. OperationStands'
  BY <1>7 DEF Conforms, OperationStands
<1>9. QueueStands'
  BY DEF Conforms, QueueStands, RuntimeExit
<1>10. LiveChildIsTracked' /\ ManagedLives' /\ OwnerFollows' /\ RunningIsTrue' /\ LateIsNotRunning'
  BY <1>2, <1>4, NoneLeftConforms
<1> QED
  BY <1>1, <1>6, <1>8, <1>9, <1>10 DEF Conforms

LEMMA StartupExitConforms ==
  ASSUME LifecycleAssumption, Conforms, NEW c \in Children, StartupExit(c)
  PROVE  Conforms'
<1>1. Exited(c, TRUE) /\ TRUE \in BOOLEAN
  BY DEF StartupExit
<1>2. /\ proc' \in [Children -> Process] /\ ProcessesAge' /\ Alive(c) /\ ~Alive(c)'
      /\ \A d \in Children \ {c} : proc'[d] = proc[d] /\ ~Alive(d)
      /\ child = c
  BY <1>1, Departed
<1>3. /\ proc'[c].coded = TRUE /\ proc'[c].committed = proc[c].committed
      /\ proc'[c].late = proc[c].late
  BY <1>1, TypedShape, ChildDied DEF Conforms
<1>4. /\ op \in Ops /\ op.at = "health" /\ op.child = c /\ op.kind \in Starts
      /\ status.state = "starting" /\ ~proc[c].committed /\ ~proc[c].late /\ owner = NoChild
      /\ op.stage = "none" /\ op # NoOp
  BY OpsShape, TypedShape DEF Conforms, OperationStands, Starting, Waiting, StartupExit
<1>5. UNCHANGED <<managedPort, status, queue, op, generation, timer, attempts, owner,
                  requests, down, streak>> /\ child' = NoChild
  BY DEF StartupExit
<1>6. OperationStands'
  BY <1>3, <1>4, <1>5 DEF OperationStands, Starting, Waiting
<1>7. NoneLeft'
  BY <1>2, <1>4, <1>5 DEF NoneLeft, Alive
<1>8. Typed'
  BY <1>2, <1>5, <1>7, TypedShape, TypedNext DEF Conforms, NoneLeft
<1>9. QueueStands'
  BY <1>5 DEF Conforms, QueueStands
<1>10. /\ LiveChildIsTracked' /\ ManagedLives' /\ OwnerFollows' /\ RunningIsTrue'
       /\ LateIsNotRunning'
  BY <1>4, <1>5, <1>7, NoneLeftConforms
<1> QED
  BY <1>2, <1>6, <1>8, <1>9, <1>10 DEF Conforms

LEMMA UnclaimedExitConforms ==
  ASSUME LifecycleAssumption, Conforms, NEW c \in Children, UnclaimedExit(c)
  PROVE  Conforms'
<1>1. Exited(c, TRUE) /\ TRUE \in BOOLEAN
  BY DEF UnclaimedExit
<1>2. /\ proc' \in [Children -> Process] /\ ProcessesAge' /\ Alive(c) /\ ~Alive(c)'
      /\ \A d \in Children \ {c} : proc'[d] = proc[d] /\ ~Alive(d)
      /\ child = c
  BY <1>1, Departed
<1>3. /\ proc'[c].coded = TRUE /\ proc'[c].committed = proc[c].committed
      /\ proc'[c].late = proc[c].late
  BY <1>1, TypedShape, ChildDied DEF Conforms
<1>4. /\ op.at \in {"verify", "record"} /\ op.child = c /\ op.kind \in Starts
      /\ status.state = "starting" /\ ~proc[c].committed /\ ~proc[c].late
      /\ op.stage = "none" /\ op # NoOp
  BY OpsShape DEF Conforms, OperationStands, Starting, Waiting, UnclaimedExit
<1>5. UNCHANGED <<child, managedPort, status, queue, op, generation, timer, attempts, owner,
                  requests, down, streak>>
  BY DEF UnclaimedExit
<1>6. OperationStands'
  BY <1>2, <1>3, <1>4, <1>5 DEF OperationStands, Starting, Waiting
<1>7. Typed'
  BY <1>2, <1>5, TypedShape, TypedNext DEF Conforms
<1>8. QueueStands' /\ OwnerFollows'
  BY <1>5 DEF Conforms, QueueStands, OwnerFollows
<1>9. LiveChildIsTracked' /\ ManagedLives'
  BY <1>2, <1>3, <1>4, <1>5 DEF LiveChildIsTracked, ManagedLives, Alive
<1>10. RunningIsTrue' /\ LateIsNotRunning'
  BY <1>4, <1>5 DEF RunningIsTrue, LateIsNotRunning
<1> QED
  BY <1>2, <1>6, <1>7, <1>8, <1>9, <1>10 DEF Conforms

LEMMA AwaitedExitConforms ==
  ASSUME LifecycleAssumption, Conforms, NEW c \in Children, AwaitedExit(c)
  PROVE  Conforms'
<1>1. /\ proc' \in [Children -> Process] /\ ProcessesAge' /\ Alive(c) /\ ~Alive(c)'
      /\ \A d \in Children \ {c} : proc'[d] = proc[d] /\ ~Alive(d)
      /\ OwnerClearedOf(c) = NoChild
  BY Departed DEF AwaitedExit
<1>2. /\ op \in Ops /\ op.at \in Waiting
      /\ op.at = "stopping" => op.kind \in {"stop", "retry"}
  BY OpsShape, TypedShape DEF Conforms, OperationStands, Waiting, AwaitedExit, Awaiting
<1>3. NoneLeft'
  BY <1>1 DEF NoneLeft, Alive, AwaitedExit
<1>4. managedPort' \in Ports \cup {NoPort} /\ proc[c].port \in Ports \cup {NoPort}
  BY PortFreed DEF Conforms, AwaitedExit
<1>5. /\ op' \in Ops \cup {NoOp} /\ OperationStands' /\ status' \in Statuses
      /\ status'.state # "running" /\ down' \in BOOLEAN /\ attempts' \in Nat
      /\ timer' \in Timers
  <2>1. CASE op.at = "stopping"
    <3>1. AfterStop(op) /\ UNCHANGED <<timer, attempts>> /\ child' = NoChild
      BY <2>1 DEF AwaitedExit
    <3> QED
      BY <1>2, <2>1, <3>1, AfterStopConforms, TypedShape DEF Conforms
  <2>2. CASE op.at # "stopping"
    <3>1. StartEndsWith(Status("error", "START_FAILED", proc[c].port)) /\ UNCHANGED down
      BY <2>2 DEF AwaitedExit
    <3>2. Status("error", "START_FAILED", proc[c].port) \in Statuses
          /\ Status("error", "START_FAILED", proc[c].port).state = "error"
      <4>1. "error" \in States /\ "START_FAILED" \in Codes
        BY DEF States, Codes
      <4> QED
        BY <1>4, <4>1, StatusShape
    <3> QED
      BY <1>2, <3>1, <3>2, StartEnds, TypedShape DEF Conforms
  <2> QED
    BY <2>1, <2>2
<1>6. Typed'
  BY <1>1, <1>3, <1>4, <1>5, TypedShape, TypedNext DEF Conforms, NoneLeft, AwaitedExit
<1>7. QueueStands'
  BY DEF Conforms, QueueStands, AwaitedExit
<1>8. /\ LiveChildIsTracked' /\ ManagedLives' /\ OwnerFollows' /\ RunningIsTrue'
      /\ LateIsNotRunning'
  BY <1>3, <1>5, NoneLeftConforms
<1> QED
  BY <1>1, <1>5, <1>6, <1>7, <1>8 DEF Conforms

LEMMA LateExitConforms ==
  ASSUME LifecycleAssumption, Conforms, NEW c \in Children, LateExit(c)
  PROVE  Conforms'
<1>1. /\ proc' \in [Children -> Process] /\ ProcessesAge' /\ Alive(c) /\ ~Alive(c)'
      /\ child = c
      /\ \A d \in Children \ {c} : proc'[d] = proc[d] /\ ~Alive(d)
      /\ OwnerClearedOf(c) = NoChild
  BY Departed DEF LateExit
<1>2. child' = NoChild /\ status.state # "running" /\ op.at \notin Starting /\ op.at \notin Waiting
  BY <1>1 DEF Conforms, OperationStands, LateIsNotRunning, Starting, Waiting, Awaiting, LateExit
<1>3. NoneLeft'
  BY <1>1, <1>2 DEF NoneLeft, Alive, LateExit
<1>4. managedPort' \in Ports \cup {NoPort}
  BY PortFreed DEF Conforms, LateExit
<1>5. Typed'
  BY <1>1, <1>3, <1>4, TypedShape, TypedNext DEF Conforms, NoneLeft, LateExit
<1>6. OperationStands'
  BY <1>2 DEF Conforms, OperationStands, LateExit
<1>7. QueueStands'
  BY DEF Conforms, QueueStands, LateExit
<1>8. /\ LiveChildIsTracked' /\ ManagedLives' /\ OwnerFollows' /\ RunningIsTrue'
      /\ LateIsNotRunning'
  BY <1>2, <1>3, NoneLeftConforms DEF LateExit
<1> QED
  BY <1>1, <1>5, <1>6, <1>7, <1>8 DEF Conforms

LEMMA ConformsStep ==
  ASSUME LifecycleAssumption, Conforms, [Next]_vars
  PROVE  Conforms'
<1>1. CASE UNCHANGED vars
  <2>1. Typed'
    BY <1>1, TypedShape, TypedNext DEF vars, Conforms
  <2>2. QueueStands' /\ ProcessesAge' /\ LiveChildIsTracked' /\ ManagedLives'
    BY <1>1 DEF vars, Conforms, QueueStands, ProcessesAge, LiveChildIsTracked, ManagedLives, Alive
  <2>3. OwnerFollows' /\ RunningIsTrue' /\ LateIsNotRunning'
    BY <1>1 DEF vars, Conforms, OwnerFollows, RunningIsTrue, LateIsNotRunning, Alive
  <2>4. OperationStands'
    BY <1>1 DEF vars, Conforms, OperationStands, Alive
  <2> QED
    BY <2>1, <2>2, <2>3, <2>4 DEF Conforms
<1>2. CASE OperationSteps
  BY <1>2, BeginOperationConforms, StartRefusedConforms, StartStepConforms, WriteOwnerConforms,
     CommitRunningConforms, RetryPreflightClearConforms, EscalatesConforms,
     StopUnconfirmedConforms, SpawnConforms DEF OperationSteps
<1>3. CASE Exits
  BY <1>3, RuntimeExitConforms, StartupExitConforms, UnclaimedExitConforms,
     AwaitedExitConforms, LateExitConforms DEF Exits
<1>4. ASSUME NEW c \in Children, ProtocolViolation(c)
      PROVE  Conforms'
  BY <1>4, ProtocolViolationConforms
<1>5. CASE TimerFires
  BY <1>5, AskedConforms
<1>6. ASSUME NEW p \in Ports, Start(p) \/ Retry(p)
      PROVE  Conforms'
  BY <1>6, AskedConforms DEF Start, Retry
<1>7. CASE Stop
  BY <1>7, AskedConforms DEF Stop
<1> QED
  BY <1>1, <1>2, <1>3, <1>4, <1>5, <1>6, <1>7 DEF Next

LEMMA ConformsInitially ==
  ASSUME LifecycleAssumption, Init
  PROVE  Conforms
<1>1. Unborn \in Process
  BY DEF Unborn, Process
<1>2. /\ child = NoChild /\ managedPort = NoPort /\ owner = NoChild /\ queue = << >> /\ op = NoOp
      /\ generation = 0 /\ attempts = 0 /\ requests = 0 /\ streak = 0 /\ timer = NoTimer
      /\ down = FALSE /\ proc = [c \in Children |-> Unborn]
  BY DEF Init
<1>3. status \in [state : {"stopped", "starting", "running", "error"},
                  code : {"", "START_FAILED", "RUNTIME_EXIT", "PORT_IN_USE"},
                  port : Ports \cup {NoPort}] /\ status.state = "stopped"
  BY DEF Init, Stopped, Status
<1>4. timer \in [port : Ports \cup {NoPort}, gen : Nat]
  BY <1>2 DEF NoTimer
<1>5. Typed
  <2>1. queue \in Seq(Ops) /\ proc \in [Children -> Process]
    BY <1>1, <1>2, EmptySeq
  <2> QED
    BY <1>2, <1>3, <1>4, <2>1 DEF Typed
<1>6. /\ \A c \in Children : /\ proc[c].state = "unborn" /\ ~proc[c].coded /\ ~proc[c].committed
                             /\ ~proc[c].late
  BY <1>2 DEF Unborn
<1>7. OperationStands
  BY <1>2, OpsShape DEF OperationStands, Starting, Waiting
<1>8. QueueStands /\ ProcessesAge /\ LiveChildIsTracked
  BY <1>2, <1>6 DEF QueueStands, ProcessesAge, LiveChildIsTracked
<1>9. ManagedLives /\ OwnerFollows /\ RunningIsTrue /\ LateIsNotRunning
  BY <1>2, <1>3, <1>6 DEF ManagedLives, OwnerFollows, RunningIsTrue, LateIsNotRunning, Alive
<1> QED
  BY <1>5, <1>7, <1>8, <1>9 DEF Conforms

-----------------------------------------------------------------------------
(* The inductive invariant: the auto-restarts. *)

\* A restart that will run when its turn comes: its timer is pending or its operation is
\* queued, and no operator's stop or retry came after it was scheduled.
TimerCounts     == timer # NoTimer /\ timer.gen = generation
QueuedCounts(i) == queue[i].kind = "auto" /\ queue[i].gen = generation
NothingCounts   == ~TimerCounts /\ \A i \in DOMAIN queue : ~QueuedCounts(i)

\* Restarts are scheduled in the present: none is of a later generation.
GenerationsPass ==
  /\ timer.gen <= generation
  /\ \A i \in DOMAIN queue : queue[i].kind = "auto" => queue[i].gen <= generation

\* At most one restart counts, none while an operator's stop or retry is to come, and none
\* beside a restart that runs.
OneRestart ==
  /\ IsStopping \/ op.kind = "auto" => NothingCounts
  /\ TimerCounts => \A i \in DOMAIN queue : ~QueuedCounts(i)
  /\ \A i, j \in DOMAIN queue : QueuedCounts(i) /\ QueuedCounts(j) => i = j

\* The allowance: a restart that counts is one of the attempts.
AllowanceHolds ==
  /\ streak <= attempts /\ attempts <= MaxAttempts
  /\ ~NothingCounts => streak < attempts

\* Once a stop has ended as stopped no process lives, and nothing is on its way that could
\* start one: no operation, no start or retry in the queue, no restart that counts.
StopHolds ==
  down => /\ \A c \in Children : ~Alive(c)
          /\ NothingCounts /\ op.kind \notin Starts
          /\ \A i \in DOMAIN queue : queue[i].kind \notin {"start", "retry"}

Restarts == GenerationsPass /\ OneRestart /\ AllowanceHolds

IInv == Conforms /\ Restarts /\ StopHolds

-----------------------------------------------------------------------------
(* The steps of the restarts' part. *)

\* A step that leaves the queue, the timer and the counters alone, and no operation begins.
LEMMA RestartsStay ==
  ASSUME Restarts, UNCHANGED <<queue, generation, timer, attempts, streak>>,
         op'.kind \in {op.kind, "none"}
  PROVE  Restarts' /\ (NothingCounts <=> NothingCounts')
<1>1. /\ TimerCounts <=> TimerCounts'
      /\ \A i \in DOMAIN queue : QueuedCounts(i) <=> QueuedCounts(i)'
      /\ DOMAIN queue' = DOMAIN queue
  BY DEF TimerCounts, QueuedCounts
<1>2. IsStopping' \/ op'.kind = "auto" => IsStopping \/ op.kind = "auto"
  BY DEF IsStopping
<1> QED
  BY <1>1, <1>2 DEF Restarts, GenerationsPass, OneRestart, AllowanceHolds, NothingCounts

\* An operator's stop or retry: every restart scheduled so far is of an earlier generation.
LEMMA Supersedes ==
  ASSUME Typed, GenerationsPass, generation' = generation + 1, timer' \in {timer, NoTimer},
         \A i \in DOMAIN queue' : queue'[i].kind = "auto" =>
            \E j \in DOMAIN queue : queue[j].kind = "auto" /\ queue'[i].gen = queue[j].gen
                                   /\ queue[j].gen \in Nat,
         streak' \in Nat, attempts' \in Nat, streak' <= attempts', attempts' <= MaxAttempts
  PROVE  Restarts' /\ NothingCounts'
<1>1. generation \in Nat /\ timer.gen \in Nat /\ timer'.gen <= generation /\ timer'.gen \in Nat
  BY TypedShape, TimerShape DEF GenerationsPass
<1>2. \A i \in DOMAIN queue' : queue'[i].kind = "auto" =>
         queue'[i].gen <= generation /\ queue'[i].gen \in Nat
  BY DEF GenerationsPass
<1>3. GenerationsPass'
  BY <1>1, <1>2 DEF GenerationsPass
<1>4. NothingCounts'
  BY <1>1, <1>2 DEF NothingCounts, TimerCounts, QueuedCounts
<1> QED
  BY <1>3, <1>4 DEF Restarts, OneRestart, AllowanceHolds, NothingCounts

\* The queue grows by an operation that is no restart and no stop.
LEMMA RestartsStayAsked ==
  ASSUME Typed, Restarts, UNCHANGED <<op, generation, timer, attempts, streak>>,
         NEW o \in Ops, o.kind \notin {"auto", "stop", "retry"}, queue' = Append(queue, o)
  PROVE  Restarts' /\ (NothingCounts => NothingCounts')
<1>1. /\ \A i \in DOMAIN queue' : \/ i \in DOMAIN queue /\ queue'[i] = queue[i]
                                  \/ i = Len(queue) + 1 /\ queue'[i] = o
      /\ \A i \in DOMAIN queue : queue'[i] = queue[i] /\ i \in DOMAIN queue'
  BY QueueAsked, TypedShape
<1>2. /\ TimerCounts <=> TimerCounts'
      /\ \A i \in DOMAIN queue' : QueuedCounts(i)' => i \in DOMAIN queue /\ QueuedCounts(i)
      /\ \A i \in DOMAIN queue : QueuedCounts(i) => i \in DOMAIN queue' /\ QueuedCounts(i)'
  BY <1>1 DEF TimerCounts, QueuedCounts
<1>3. IsStopping' => IsStopping
  BY <1>1 DEF IsStopping
<1>4. GenerationsPass'
  BY <1>1 DEF Restarts, GenerationsPass
<1>5. NothingCounts <=> NothingCounts'
  BY <1>2 DEF NothingCounts
<1>6. OneRestart'
  BY <1>2, <1>3, <1>5 DEF Restarts, OneRestart
<1> QED
  BY <1>4, <1>5, <1>6 DEF Restarts, AllowanceHolds

\* The timer's restart joins the queue.
LEMMA TimerFiresKeeps ==
  ASSUME LifecycleAssumption, IInv, TimerFires
  PROVE  Restarts' /\ StopHolds'
<1>1. PICK o \in Ops : /\ queue' = Append(queue, o) /\ o.kind = "auto" /\ o.gen = timer.gen
  <2>1. "auto" \in Kinds /\ timer.port \in Ports \cup {NoPort} /\ timer.gen \in Nat
    BY TypedShape, TimerShape DEF Kinds, IInv, Conforms
  <2> QED
    BY <2>1, OpShape DEF TimerFires
<1>2. /\ \A i \in DOMAIN queue' : \/ i \in DOMAIN queue /\ queue'[i] = queue[i]
                                  \/ i = Len(queue) + 1 /\ queue'[i] = o
      /\ \A i \in DOMAIN queue : queue'[i] = queue[i] /\ i \in DOMAIN queue'
  BY <1>1, QueueAsked, TypedShape DEF IInv, Conforms
<1>3. /\ timer # NoTimer /\ timer' = NoTimer /\ generation' = generation /\ op' = op
      /\ attempts' = attempts /\ streak' = streak /\ down' = down /\ proc' = proc
      /\ GenerationsPass /\ OneRestart /\ AllowanceHolds /\ generation \in Nat
  BY TypedShape DEF TimerFires, IInv, Restarts, Conforms
<1>4. /\ ~TimerCounts'
      /\ \A i \in DOMAIN queue' : QueuedCounts(i)' =>
           \/ i \in DOMAIN queue /\ QueuedCounts(i)
           \/ i = Len(queue) + 1 /\ TimerCounts
  BY <1>1, <1>2, <1>3 DEF TimerCounts, QueuedCounts
<1>5. IsStopping' => IsStopping
  BY <1>1, <1>2, <1>3 DEF IsStopping
<1>6. GenerationsPass'
  BY <1>1, <1>2, <1>3, TimerShape DEF GenerationsPass
<1>7. NothingCounts => NothingCounts'
  BY <1>4 DEF NothingCounts
<1>8. OneRestart'
  BY <1>3, <1>4, <1>5, <1>7 DEF OneRestart
<1>9. AllowanceHolds'
  BY <1>3, <1>7 DEF AllowanceHolds
<1>10. StopHolds'
  BY <1>1, <1>2, <1>3, <1>7 DEF IInv, StopHolds, Alive
<1> QED
  BY <1>6, <1>8, <1>9, <1>10 DEF Restarts

LEMMA RequestKeeps ==
  ASSUME LifecycleAssumption, IInv, NEW kind \in {"start", "retry", "stop"},
         NEW port \in Ports \cup {NoPort}, Request(kind, port)
  PROVE  Restarts' /\ StopHolds'
<1>1. PICK o \in Ops : queue' = Append(queue, o) /\ o.kind = kind
  <2>1. kind \in Kinds /\ 0 \in Nat
    BY DEF Kinds
  <2>2. PICK o \in Ops : o = Op(kind, port, 0, NoChild) /\ o.kind = kind
    BY <2>1, OpShape
  <2> QED
    BY <2>2 DEF Request
<1>2. /\ \A i \in DOMAIN queue' : \/ i \in DOMAIN queue /\ queue'[i] = queue[i]
                                  \/ i = Len(queue) + 1 /\ queue'[i] = o
      /\ \A i \in DOMAIN queue : queue'[i] = queue[i] /\ i \in DOMAIN queue'
  BY <1>1, QueueAsked, TypedShape DEF IInv, Conforms
<1>3. CASE kind = "start"
  <2>1. UNCHANGED <<op, generation, timer, attempts, streak>> /\ down' = FALSE
    BY <1>3 DEF Request
  <2> QED
    BY <1>1, <1>3, <2>1, RestartsStayAsked DEF IInv, Conforms, StopHolds
<1>4. CASE kind # "start"
  <2>1. /\ generation' = generation + 1 /\ timer' = timer
        /\ UNCHANGED <<attempts, streak, op, proc>> /\ down' = (down /\ kind = "stop")
    BY <1>4 DEF Request
  <2>2. /\ attempts \in Nat /\ streak \in Nat /\ streak <= attempts /\ attempts <= MaxAttempts
        /\ GenerationsPass /\ Typed
    BY TypedShape DEF IInv, Conforms, Restarts, AllowanceHolds
  <2>3. \A i \in DOMAIN queue' : queue'[i].kind = "auto" =>
           \E j \in DOMAIN queue : queue[j].kind = "auto" /\ queue'[i].gen = queue[j].gen
                                  /\ queue[j].gen \in Nat
    <3>1. \A j \in DOMAIN queue : queue[j].gen \in Nat
      BY OpsShape, TypedShape DEF IInv, Conforms
    <3> QED
      BY <1>1, <1>2, <3>1
  <2>4. Restarts' /\ NothingCounts'
    BY <2>1, <2>2, <2>3, Supersedes
  <2>5. StopHolds'
    BY <1>1, <1>2, <2>1, <2>4 DEF IInv, StopHolds, Alive
  <2> QED
    BY <2>4, <2>5
<1> QED
  BY <1>3, <1>4

\* A stop that has won stays so while nothing is born and nothing is asked for.
LEMMA StopHoldsOn ==
  ASSUME StopHolds, NothingCounts => NothingCounts', down' => down, queue' = queue,
         op'.kind \in {op.kind, "none"}, \A c \in Children : Alive(c)' => Alive(c)
  PROVE  StopHolds'
BY DEF StopHolds, Starts

\* The steps of a start, of an escalation and of an exit that leave the restarts alone.
QuietStep ==
  /\ UNCHANGED <<queue, generation, timer, attempts, streak, down>>
  /\ op'.kind \in {op.kind, "none"} /\ \A c \in Children : Alive(c)' => Alive(c)

LEMMA QuietStepKeeps ==
  ASSUME IInv, QuietStep
  PROVE  Restarts' /\ StopHolds'
BY RestartsStay, StopHoldsOn DEF IInv, QuietStep

\* A start, the wait for a failed child or the answer to a violation ends.
LEMMA StartEndsKeeps ==
  ASSUME LifecycleAssumption, IInv, op \in Ops, NEW st, StartEndsWith(st),
         UNCHANGED <<queue, generation, streak, down>>,
         \A c \in Children : Alive(c)' => Alive(c)
  PROVE  Restarts' /\ StopHolds'
<1>1. op' = NoOp /\ op'.kind = "none"
  BY OpsShape DEF StartEndsWith
<1>2. CASE UNCHANGED <<timer, attempts>>
  BY <1>1, <1>2, QuietStepKeeps DEF QuietStep
<1>3. CASE /\ op.kind = "auto" /\ ~IsStopping /\ attempts < MaxAttempts
           /\ attempts' = attempts + 1 /\ timer' = [port |-> op.port, gen |-> generation]
  <2>1. /\ NothingCounts /\ streak <= attempts /\ attempts \in Nat /\ streak \in Nat
        /\ generation \in Nat /\ GenerationsPass /\ MaxAttempts \in Nat
    BY <1>3, TypedShape
    DEF IInv, Conforms, Restarts, OneRestart, AllowanceHolds, LifecycleAssumption
  <2>2. timer'.gen = generation
    BY <1>3
  <2>3. \A i \in DOMAIN queue' : ~QueuedCounts(i)'
    BY <2>1 DEF NothingCounts, QueuedCounts
  <2>4. ~IsStopping'
    BY <1>1, <1>3 DEF IsStopping
  <2>5. GenerationsPass'
    BY <2>1, <2>2 DEF GenerationsPass
  <2>6. OneRestart'
    BY <1>1, <2>3, <2>4 DEF OneRestart
  <2>7. AllowanceHolds'
    BY <1>3, <2>1 DEF AllowanceHolds
  <2>8. StopHolds'
    BY <1>3 DEF IInv, StopHolds, Starts
  <2> QED
    BY <2>5, <2>6, <2>7, <2>8 DEF Restarts
<1>4. \/ UNCHANGED <<timer, attempts>>
      \/ /\ op.kind = "auto" /\ ~IsStopping /\ attempts < MaxAttempts
         /\ attempts' = attempts + 1 /\ timer' = [port |-> op.port, gen |-> generation]
  <2>1. attempts \in Nat /\ MaxAttempts \in Nat
    BY TypedShape DEF IInv, Conforms, LifecycleAssumption
  <2> QED
    BY <2>1 DEF StartEndsWith, ScheduleAutoRestart
<1> QED
  BY <1>2, <1>3, <1>4

\* A stop or a retry begins.
LEMMA BeginStopKeeps ==
  ASSUME LifecycleAssumption, IInv, NEW o \in Ops, BeginStop(o),
         \/ o.kind = "stop"
         \/ o.kind = "retry" /\ ~down,
         op.at \notin Starting,
         \A i \in DOMAIN queue' : \E j \in DOMAIN queue : queue'[i] = queue[j]
  PROVE  Restarts' /\ StopHolds'
<1>1. /\ Typed /\ GenerationsPass /\ generation' = generation + 1 /\ timer' = NoTimer
      /\ attempts' = 0 /\ streak' = 0 /\ MaxAttempts \in Nat
  BY DEF IInv, Conforms, Restarts, BeginStop, LifecycleAssumption
<1>2. \A i \in DOMAIN queue' : queue'[i].kind = "auto" =>
         \E j \in DOMAIN queue : queue[j].kind = "auto" /\ queue'[i].gen = queue[j].gen
                                /\ queue[j].gen \in Nat
  <2>1. \A j \in DOMAIN queue : queue[j].gen \in Nat
    BY OpsShape, TypedShape DEF IInv, Conforms
  <2> QED
    BY <2>1
<1>3. Restarts' /\ NothingCounts'
  BY <1>1, <1>2, Supersedes
<1>4. child # NoChild => child \in Children /\ Alive(child) /\ ~proc[child].coded
  BY TypedShape DEF IInv, Conforms, ManagedLives, ProcessesAge, Alive, Starting
<1>5. CASE child = NoChild
  <2>1. AfterStop(o) /\ UNCHANGED <<child, proc>>
    BY <1>5 DEF BeginStop
  <2>2. \A c \in Children : ~Alive(c)'
    BY <1>5, <2>1 DEF IInv, Conforms, LiveChildIsTracked, Alive, LifecycleAssumption
  <2>3. down' => /\ op' = NoOp
                 /\ \A i \in DOMAIN queue : queue[i].kind \notin {"start", "retry"}
    BY <2>1 DEF AfterStop
  <2>4. NoOp.kind \notin Starts
    BY OpsShape DEF Starts
  <2> QED
    BY <1>3, <2>2, <2>3, <2>4 DEF StopHolds
<1>6. CASE child # NoChild
  <2>1. down' = down /\ Alive(child) /\ child \in Children
    BY <1>4, <1>6 DEF BeginStop
  <2>2. ~down'
    BY <2>1 DEF IInv, StopHolds
  <2> QED
    BY <1>3, <2>2 DEF StopHolds
<1> QED
  BY <1>5, <1>6

LEMMA RuntimeExitKeeps ==
  ASSUME LifecycleAssumption, IInv, NEW c \in Children, RuntimeExit(c)
  PROVE  Restarts' /\ StopHolds'
<1>1. /\ Typed /\ GenerationsPass /\ OneRestart /\ AllowanceHolds /\ Alive(c)
      /\ attempts \in Nat /\ streak \in Nat /\ generation \in Nat /\ MaxAttempts \in Nat
      /\ UNCHANGED <<queue, op, generation, down>>
  BY TypedShape
  DEF IInv, Conforms, Restarts, RuntimeExit, Exited, Alive, LifecycleAssumption
<1>2. ~down /\ StopHolds'
  BY <1>1 DEF IInv, StopHolds
<1>3. ~IsStopping => queue = << >> /\ op = NoOp
  <2>1. op = NoOp \/ op.at = "retryPreflight"
    BY OpsShape, TypedShape
    DEF IInv, Conforms, OperationStands, Starting, Waiting, RuntimeExit, Points,
        LifecycleAssumption
  <2> QED
    BY <2>1 DEF IInv, Conforms, OperationStands, IsStopping, RuntimeExit, Calm
<1>4. PICK tries \in {0, attempts} :
        /\ ScheduleAutoRestart(proc[c].port, tries)
        /\ \/ tries = 0 /\ streak' = 0
           \/ tries = attempts /\ streak' = streak
  BY DEF RuntimeExit
<1>5. IsStopping' <=> IsStopping
  BY <1>1 DEF IsStopping
<1>6. \A i \in DOMAIN queue : QueuedCounts(i)' <=> QueuedCounts(i)
  BY <1>1 DEF QueuedCounts
<1>7. CASE IsStopping
  <2>1. attempts' = tries /\ timer' = timer /\ NothingCounts
    BY <1>1, <1>4, <1>7 DEF ScheduleAutoRestart, OneRestart
  <2>2. NothingCounts'
    BY <1>1, <1>6, <2>1 DEF NothingCounts, TimerCounts
  <2>3. GenerationsPass' /\ OneRestart'
    BY <1>1, <1>6, <2>1, <2>2 DEF GenerationsPass, OneRestart, NothingCounts
  <2>4. AllowanceHolds'
    BY <1>1, <1>4, <2>1, <2>2 DEF AllowanceHolds
  <2> QED
    BY <1>2, <2>3, <2>4 DEF Restarts
<1>8. CASE ~IsStopping
  <2>1. queue' = << >> /\ op' = NoOp /\ op'.kind = "none"
    BY <1>1, <1>3, <1>8, OpsShape
  <2>2. OneRestart'
    BY <1>5, <1>8, <2>1 DEF OneRestart, QueuedCounts
  <2>3. CASE tries < MaxAttempts
    <3>1. attempts' = tries + 1 /\ timer' = [port |-> proc[c].port, gen |-> generation]
      BY <1>1, <1>4, <1>8, <2>3 DEF ScheduleAutoRestart
    <3>2. timer'.gen = generation
      BY <3>1
    <3>3. GenerationsPass'
      BY <1>1, <2>1, <3>2 DEF GenerationsPass
    <3>4. AllowanceHolds'
      BY <1>1, <1>4, <2>3, <3>1 DEF AllowanceHolds
    <3> QED
      BY <1>2, <2>2, <3>3, <3>4 DEF Restarts
  <2>4. CASE tries >= MaxAttempts
    <3>1. attempts' = tries /\ timer' = timer
      BY <1>1, <1>4, <1>8, <2>4 DEF ScheduleAutoRestart
    <3>2. GenerationsPass'
      BY <1>1, <3>1 DEF GenerationsPass
    <3>3. NothingCounts' <=> NothingCounts
      BY <1>1, <1>6, <3>1 DEF NothingCounts, TimerCounts
    <3>4. AllowanceHolds'
      BY <1>1, <1>4, <2>4, <3>1, <3>3 DEF AllowanceHolds
    <3> QED
      BY <1>2, <2>2, <3>2, <3>4 DEF Restarts
  <2> QED
    BY <1>1, <1>4, <2>3, <2>4
<1> QED
  BY <1>7, <1>8

LEMMA AwaitedExitKeeps ==
  ASSUME LifecycleAssumption, IInv, NEW c \in Children, AwaitedExit(c)
  PROVE  Restarts' /\ StopHolds'
<1>1. /\ ~Alive(c)' /\ \A d \in Children \ {c} : proc'[d] = proc[d] /\ ~Alive(d)
  BY Departed DEF AwaitedExit, IInv
<1>2. \A d \in Children : ~Alive(d)'
  BY <1>1 DEF Alive
<1>3. op \in Ops /\ UNCHANGED <<queue, generation, streak>>
  BY OpsShape, TypedShape DEF IInv, Conforms, AwaitedExit, Awaiting
<1>4. CASE op.at = "stopping"
  <2>1. AfterStop(op) /\ UNCHANGED <<timer, attempts>> /\ op.kind \in {"stop", "retry"}
    BY <1>4 DEF AwaitedExit, IInv, Conforms, OperationStands, Waiting
  <2>2. op'.kind \in {op.kind, "none"}
    <3>1. CASE op.kind = "stop"
      BY <2>1, <3>1, OpsShape DEF AfterStop
    <3>2. CASE op.kind = "retry"
      <4>1. Typed /\ child' = NoChild
        BY DEF AwaitedExit, IInv, Conforms
      <4> QED
        BY <1>3, <2>1, <3>2, <4>1, AfterStopConforms
    <3> QED
      BY <2>1, <3>1, <3>2
  <2>3. Restarts' /\ (NothingCounts <=> NothingCounts')
    BY <1>3, <2>1, <2>2, RestartsStay DEF IInv
  <2>4. NothingCounts
    BY <2>1 DEF IInv, Restarts, OneRestart, IsStopping
  <2>5. down' => /\ op' = NoOp
                 /\ \A i \in DOMAIN queue : queue[i].kind \notin {"start", "retry"}
    BY <2>1 DEF AfterStop
  <2>6. NoOp.kind \notin Starts
    BY OpsShape DEF Starts
  <2> QED
    BY <1>2, <1>3, <2>3, <2>4, <2>5, <2>6 DEF StopHolds
<1>5. CASE op.at # "stopping"
  BY <1>2, <1>3, <1>5, StartEndsKeeps DEF AwaitedExit
<1> QED
  BY <1>4, <1>5

\* A step of a start that fails, or waits for its child to die.
LEMMA FailStartedKeeps ==
  ASSUME LifecycleAssumption, IInv, op.at \in Starting, FailStarted(op.child),
         UNCHANGED <<queue, generation, requests, down, streak>>
  PROVE  Restarts' /\ StopHolds'
<1> DEFINE c == op.child
<1>1. op \in Ops /\ c \in Children /\ proc \in [Children -> Process]
  BY OpsShape, TypedShape DEF IInv, Conforms, OperationStands, Starting
<1>2. /\ \A d \in Children : Alive(d)' => Alive(d)
  <2>1. \/ proc' = [proc EXCEPT ![c].intentional = TRUE]
        \/ \E stage \in {"ask", "term"} :
             proc' = [proc EXCEPT ![c].intentional = TRUE, ![c].killed = @ \/ stage = "term"]
    BY DEF FailStarted, StopChild
  <2>2. Untouched(c) /\ Lasting(c)
    BY <1>1, <2>1, MeantToStop
  <2> QED
    BY <2>2 DEF Untouched, Lasting, Alive
<1>3. CASE proc[c].coded
  BY <1>1, <1>2, <1>3, StartEndsKeeps DEF FailStarted
<1>4. CASE ~proc[c].coded
  <2>1. PICK stage \in {"ask", "term"} : StopChild(op, c, "failing", stage)
    BY <1>4 DEF FailStarted
  <2>2. op'.kind = op.kind
    BY <1>1, <2>1 DEF StopChild, Ops
  <2> QED
    BY <1>2, <1>4, <2>2, QuietStepKeeps DEF FailStarted, QuietStep
<1> QED
  BY <1>3, <1>4

LEMMA OperationStepKeeps ==
  ASSUME LifecycleAssumption, IInv,
         \/ StartRefused \/ HealthFails \/ HealthPasses \/ VerificationFails \/ WriteOwner
         \/ CommitRunning \/ RetryPreflightClear \/ Escalates \/ StopUnconfirmed
         \/ \E c \in Children : Spawn(c)
  PROVE  Restarts' /\ StopHolds'
<1>1. CASE StartRefused
  <2>1. op \in Ops /\ \A c \in Children : Alive(c)' => Alive(c)
    BY <1>1, OpsShape, TypedShape DEF StartRefused, IInv, Conforms, Alive
  <2> QED
    BY <1>1, <2>1, StartEndsKeeps DEF StartRefused
<1>2. CASE HealthFails \/ VerificationFails \/ (HealthPasses /\ ~Owned(op.child))
  BY <1>2, FailStartedKeeps DEF HealthFails, VerificationFails, HealthPasses, Starting
<1>3. CASE HealthPasses /\ Owned(op.child)
  <2>1. op \in Ops /\ op.child \in Children /\ proc \in [Children -> Process]
    BY <1>3, OpsShape, TypedShape DEF IInv, Conforms, OperationStands, Starting, HealthPasses
  <2>2. op'.kind = op.kind
    BY <1>3, <2>1 DEF HealthPasses, Ops
  <2>3. Untouched(op.child) /\ Lasting(op.child)
    BY <1>3, <2>1, ChildHandedOver DEF HealthPasses
  <2>4. \A d \in Children : Alive(d)' => Alive(d)
    BY <2>3 DEF Untouched, Lasting, Alive
  <2> QED
    BY <1>3, <2>2, <2>4, QuietStepKeeps DEF HealthPasses, QuietStep
<1>4. CASE WriteOwner
  <2>1. op \in Ops
    BY <1>4, OpsShape, TypedShape DEF IInv, Conforms, WriteOwner
  <2>2. op'.kind = op.kind
    BY <1>4, <2>1 DEF WriteOwner, Ops
  <2> QED
    BY <1>4, <2>2, QuietStepKeeps DEF WriteOwner, QuietStep, Alive
<1>5. CASE CommitRunning
  <2>1. op.child \in Children /\ proc \in [Children -> Process] /\ op'.kind = "none"
    BY <1>5, OpsShape, TypedShape DEF IInv, Conforms, OperationStands, Starting, CommitRunning
  <2>2. Untouched(op.child) /\ Lasting(op.child)
    BY <1>5, <2>1, ChildCommitted DEF CommitRunning
  <2>3. \A d \in Children : Alive(d)' => Alive(d)
    BY <2>2 DEF Untouched, Lasting, Alive
  <2> QED
    BY <1>5, <2>1, <2>3, QuietStepKeeps DEF CommitRunning, QuietStep
<1>6. CASE RetryPreflightClear
  <2>1. /\ op \in Ops /\ BeginStop(op) /\ op.kind = "retry" /\ ~down /\ op.at \notin Starting
        /\ queue' = queue
    BY <1>6, OpsShape, TypedShape
    DEF IInv, Conforms, OperationStands, StopHolds, Starts, Starting, RetryPreflightClear
  <2> QED
    BY <2>1, BeginStopKeeps
<1>7. CASE Escalates
  <2>1. op \in Ops /\ op.child \in Children /\ proc \in [Children -> Process]
    BY <1>7, OpsShape, TypedShape DEF IInv, Conforms, OperationStands, Escalates
  <2>2. op'.kind = op.kind
    BY <1>7, <2>1 DEF Escalates, Ops
  <2>3. Untouched(op.child) /\ Lasting(op.child)
    BY <1>7, <2>1, ChildSignalled DEF Escalates
  <2>4. \A d \in Children : Alive(d)' => Alive(d)
    BY <2>3 DEF Untouched, Lasting, Alive
  <2> QED
    BY <1>7, <2>2, <2>4, QuietStepKeeps DEF Escalates, QuietStep
<1>8. CASE StopUnconfirmed
  <2>1. op \in Ops /\ op.child \in Children /\ proc \in [Children -> Process]
    BY <1>8, OpsShape, TypedShape DEF IInv, Conforms, OperationStands, StopUnconfirmed
  <2>2. Untouched(op.child) /\ Lasting(op.child)
    BY <1>8, <2>1, ChildKept DEF StopUnconfirmed
  <2>3. \A d \in Children : Alive(d)' => Alive(d)
    BY <2>2 DEF Untouched, Lasting, Alive
  <2> QED
    BY <1>8, <2>1, <2>3, StartEndsKeeps DEF StopUnconfirmed
<1>9. ASSUME NEW c \in Children, Spawn(c)
      PROVE  Restarts' /\ StopHolds'
  <2>1. op \in Ops /\ op.kind \in Starts
    BY <1>9, OpsShape, TypedShape DEF IInv, Conforms, OperationStands, Spawn
  <2>2. op'.kind = op.kind
    BY <1>9, <2>1 DEF Spawn, Ops
  <2>3. ~down'
    BY <1>9, <2>1 DEF IInv, StopHolds, Spawn
  <2> QED
    BY <1>9, <2>2, <2>3, RestartsStay DEF IInv, Spawn, StopHolds
<1> QED
  BY <1>1, <1>2, <1>3, <1>4, <1>5, <1>6, <1>7, <1>8, <1>9

\* The next operation of the queue begins: a restart that counts is then no longer queued.
LEMMA BeginOperationKeeps ==
  ASSUME LifecycleAssumption, IInv, BeginOperation
  PROVE  Restarts' /\ StopHolds'
<1> DEFINE o == Head(queue)
<1>1. o \in Ops
  BY HeadTaken DEF HeadStands, IInv
<1>2. /\ 1 \in DOMAIN queue /\ o = queue[1]
      /\ \A i \in DOMAIN queue' : queue'[i] = queue[i + 1] /\ i + 1 \in DOMAIN queue
                                  /\ i + 1 # 1 /\ i \in Nat
  BY QueueTaken, TypedShape DEF IInv, Conforms, BeginOperation
<1>3. /\ op = NoOp /\ op.kind = "none" /\ op.at \notin Starting
      /\ Typed /\ GenerationsPass /\ OneRestart /\ AllowanceHolds
      /\ attempts \in Nat /\ streak \in Nat /\ generation \in Nat
  BY OpsShape, TypedShape DEF BeginOperation, IInv, Conforms, Restarts, Starting
<1> HIDE DEF o
<1>4. ASSUME UNCHANGED <<generation, timer, attempts, down>>,
             \A c \in Children : Alive(c)' => Alive(c),
             \/ op'.kind \in {"none", "start", "violation"} /\ streak' = streak
             \/ op'.kind = "retry" /\ streak' = streak
             \/ op'.kind = "auto" /\ o.gen = generation /\ streak' = streak + 1,
             op'.kind \in {"none", o.kind}
      PROVE  Restarts' /\ StopHolds'
  <2>1. /\ TimerCounts' <=> TimerCounts
        /\ \A i \in DOMAIN queue' : QueuedCounts(i)' => /\ i + 1 \in DOMAIN queue
                                                       /\ QueuedCounts(i + 1) /\ i + 1 # 1
                                                       /\ i \in Nat
    BY <1>2, <1>4 DEF TimerCounts, QueuedCounts
  <2>2. NothingCounts => NothingCounts'
    BY <2>1 DEF NothingCounts
  <2>3. (\E i \in DOMAIN queue' : queue'[i].kind \in {"stop", "retry"}) => IsStopping
    BY <1>2 DEF IsStopping
  <2>4. op'.kind = "retry" => IsStopping
    BY <1>2, <1>4 DEF IsStopping
  <2>5. op'.kind = "auto" => ~NothingCounts /\ NothingCounts'
    <3>1. SUFFICES ASSUME op'.kind = "auto"
                   PROVE  ~NothingCounts /\ NothingCounts'
      OBVIOUS
    <3>2. QueuedCounts(1)
      BY <1>2, <1>4, <3>1 DEF QueuedCounts
    <3>3. ~TimerCounts /\ \A i \in DOMAIN queue : QueuedCounts(i) => i = 1
      BY <1>2, <1>3, <3>2 DEF OneRestart
    <3>4. NothingCounts'
      BY <2>1, <3>3 DEF NothingCounts
    <3> QED
      BY <1>2, <3>2, <3>4 DEF NothingCounts
  <2>6. GenerationsPass'
    BY <1>2, <1>3, <1>4 DEF GenerationsPass
  <2>7. OneRestart'
    <3>1. IsStopping' => IsStopping
      BY <1>4, <2>3, <2>4 DEF IsStopping
    <3>2. IsStopping' \/ op'.kind = "auto" => NothingCounts'
      BY <1>3, <2>2, <2>5, <3>1 DEF OneRestart
    <3>3. TimerCounts' => \A i \in DOMAIN queue' : ~QueuedCounts(i)'
      BY <1>3, <2>1 DEF OneRestart
    <3>4. \A i, j \in DOMAIN queue' : QueuedCounts(i)' /\ QueuedCounts(j)' => i = j
      <4>1. SUFFICES ASSUME NEW i \in DOMAIN queue', NEW j \in DOMAIN queue',
                            QueuedCounts(i)', QueuedCounts(j)'
                     PROVE  i = j
        OBVIOUS
      <4>2. i + 1 = j + 1 /\ i \in Nat /\ j \in Nat
        BY <1>3, <2>1, <4>1 DEF OneRestart
      <4> QED
        BY <4>2
    <3> QED
      BY <3>2, <3>3, <3>4 DEF OneRestart
  <2>8. AllowanceHolds'
    BY <1>3, <1>4, <2>2, <2>5 DEF AllowanceHolds
  <2>9. StopHolds'
    <3>1. SUFFICES ASSUME down'
                   PROVE  /\ \A c \in Children : ~Alive(c)'
                          /\ NothingCounts' /\ op'.kind \notin Starts
                          /\ \A i \in DOMAIN queue' : queue'[i].kind \notin {"start", "retry"}
      BY DEF StopHolds
    <3>2. /\ \A c \in Children : ~Alive(c)
          /\ NothingCounts
          /\ \A i \in DOMAIN queue : queue[i].kind \notin {"start", "retry"}
      BY <1>4, <3>1 DEF IInv, StopHolds
    <3>3. op'.kind \notin Starts
      BY <1>2, <1>4, <2>5, <3>2 DEF Starts
    <3> QED
      BY <1>2, <1>4, <2>2, <3>2, <3>3
  <2> QED
    BY <2>6, <2>7, <2>8, <2>9 DEF Restarts
<1>5. CASE BeginStop(o) /\ o.kind \in {"stop", "retry"}
  <2>1. o.kind = "retry" => ~down
    BY <1>2 DEF IInv, StopHolds
  <2>2. \A i \in DOMAIN queue' : \E j \in DOMAIN queue : queue'[i] = queue[j]
    BY <1>2
  <2> QED
    BY <1>1, <1>3, <1>5, <2>1, <2>2, BeginStopKeeps
<1>6. CASE Skip
  BY <1>3, <1>4, <1>6 DEF Skip, Alive
<1>7. CASE GoTo(o, "preflight") /\ o.kind = "start" /\ streak' = streak
  <2>1. op'.kind = o.kind
    BY <1>1, <1>7 DEF GoTo, Ops
  <2> QED
    BY <1>4, <1>7, <2>1 DEF GoTo, Alive
<1>8. CASE GoTo(o, "preflight") /\ o.kind = "auto" /\ ~Superseded(o) /\ streak' = streak + 1
  <2>1. op'.kind = o.kind
    BY <1>1, <1>8 DEF GoTo, Ops
  <2> QED
    BY <1>4, <1>8, <2>1 DEF GoTo, Alive, Superseded
<1>9. CASE GoTo(o, "retryPreflight") /\ o.kind = "retry" /\ streak' = streak
  <2>1. op'.kind = o.kind
    BY <1>1, <1>9 DEF GoTo, Ops
  <2> QED
    BY <1>4, <1>9, <2>1 DEF GoTo, Alive
<1>10. ASSUME NEW stage \in {"ask", "term"}, StopChild(o, child, "violating", stage),
              o.kind = "violation", child = o.child,
              UNCHANGED <<child, generation, timer, attempts, down, streak>>
       PROVE  Restarts' /\ StopHolds'
  <2>1. op'.kind = o.kind
    BY <1>1, <1>10 DEF StopChild, Ops
  <2>2. child \in Children /\ proc \in [Children -> Process]
    BY <1>10, HeadTaken, TypedShape DEF HeadStands, IInv, Conforms, o
  <2>3. Untouched(child) /\ Lasting(child)
    BY <1>10, <2>2, MeantToStop DEF StopChild
  <2>4. \A c \in Children : Alive(c)' => Alive(c)
    BY <2>3 DEF Untouched, Lasting, Alive
  <2> QED
    BY <1>4, <1>10, <2>1, <2>4
<1>11. \/ Skip
       \/ GoTo(o, "preflight") /\ o.kind = "start" /\ streak' = streak
       \/ GoTo(o, "preflight") /\ o.kind = "auto" /\ ~Superseded(o) /\ streak' = streak + 1
       \/ GoTo(o, "retryPreflight") /\ o.kind = "retry" /\ streak' = streak
       \/ BeginStop(o) /\ o.kind \in {"stop", "retry"}
       \/ \E stage \in {"ask", "term"} :
            /\ StopChild(o, child, "violating", stage)
            /\ o.kind = "violation" /\ child = o.child
            /\ UNCHANGED <<child, generation, timer, attempts, down, streak>>
  BY DEF BeginOperation, o
<1> QED
  BY <1>5, <1>6, <1>7, <1>8, <1>9, <1>10, <1>11

LEMMA KeepsStep ==
  ASSUME LifecycleAssumption, IInv, [Next]_vars
  PROVE  Restarts' /\ StopHolds'
<1>1. CASE UNCHANGED vars
  BY <1>1, QuietStepKeeps DEF vars, QuietStep, Alive
<1>2. CASE OperationSteps
  BY <1>2, BeginOperationKeeps, OperationStepKeeps DEF OperationSteps
<1>3. ASSUME NEW c \in Children,
             RuntimeExit(c) \/ StartupExit(c) \/ UnclaimedExit(c) \/ AwaitedExit(c) \/ LateExit(c)
      PROVE  Restarts' /\ StopHolds'
  <2>1. CASE RuntimeExit(c)
    BY <2>1, RuntimeExitKeeps
  <2>2. CASE AwaitedExit(c)
    BY <2>2, AwaitedExitKeeps
  <2>3. CASE StartupExit(c) \/ UnclaimedExit(c) \/ LateExit(c)
    <3>1. ~Alive(c)' /\ \A d \in Children \ {c} : proc'[d] = proc[d]
      BY <2>3, Departed DEF StartupExit, UnclaimedExit, LateExit, IInv
    <3>2. \A d \in Children : Alive(d)' => Alive(d)
      BY <3>1 DEF Alive
    <3> QED
      BY <2>3, <3>2, QuietStepKeeps DEF QuietStep, StartupExit, UnclaimedExit, LateExit
  <2> QED
    BY <1>3, <2>1, <2>2, <2>3
<1>4. ASSUME NEW c \in Children, ProtocolViolation(c)
      PROVE  Restarts' /\ StopHolds'
  <2>1. PICK o \in Ops : queue' = Append(queue, o) /\ o.kind = "violation"
    <3>1. "violation" \in Kinds /\ NoPort \in Ports \cup {NoPort} /\ 0 \in Nat
          /\ c \in Children \cup {NoChild}
      BY DEF Kinds
    <3>2. PICK o \in Ops : o = Op("violation", NoPort, 0, c) /\ o.kind = "violation"
      BY <3>1, OpShape
    <3> QED
      BY <1>4, <3>2 DEF ProtocolViolation
  <2>2. Restarts' /\ (NothingCounts => NothingCounts')
    BY <1>4, <2>1, RestartsStayAsked DEF IInv, Conforms, ProtocolViolation
  <2>3. \A d \in Children : Alive(d)' => Alive(d)
    <3>1. Untouched(c) /\ Lasting(c)
      BY <1>4, TypedShape, ChildInvalid DEF IInv, Conforms, ProtocolViolation
    <3> QED
      BY <3>1 DEF Untouched, Lasting, Alive
  <2>4. \A i \in DOMAIN queue' : \/ i \in DOMAIN queue /\ queue'[i] = queue[i]
                                 \/ queue'[i] = o
    BY <2>1, QueueAsked, TypedShape DEF IInv, Conforms
  <2> QED
    BY <1>4, <2>1, <2>2, <2>3, <2>4 DEF IInv, StopHolds, ProtocolViolation
<1>5. CASE TimerFires
  BY <1>5, TimerFiresKeeps
<1>6. ASSUME NEW p \in Ports, Start(p) \/ Retry(p)
      PROVE  Restarts' /\ StopHolds'
  BY <1>6, RequestKeeps DEF Start, Retry
<1>7. CASE Stop
  BY <1>7, RequestKeeps DEF Stop
<1> QED
  BY <1>1, <1>2, <1>3, <1>4, <1>5, <1>6, <1>7 DEF Next, Exits

-----------------------------------------------------------------------------
(* The theorems. *)

LEMMA Initially ==
  ASSUME LifecycleAssumption, Init
  PROVE  IInv
<1>1. Conforms
  BY ConformsInitially
<1>2. /\ queue = << >> /\ op = NoOp /\ generation = 0 /\ attempts = 0 /\ streak = 0
      /\ timer = NoTimer /\ down = FALSE
  BY DEF Init
<1>3. NothingCounts /\ ~IsStopping /\ op.kind # "auto"
  BY <1>2, OpsShape DEF NothingCounts, TimerCounts, QueuedCounts, IsStopping
<1>4. GenerationsPass /\ OneRestart
  BY <1>2, <1>3, TimerShape DEF GenerationsPass, OneRestart, QueuedCounts
<1>5. AllowanceHolds /\ StopHolds
  BY <1>2, <1>3 DEF AllowanceHolds, StopHolds, LifecycleAssumption
<1> QED
  BY <1>1, <1>4, <1>5 DEF IInv, Restarts

\* The inductive invariant holds in every reachable state.
THEOREM Invariance ==
  ASSUME LifecycleAssumption
  PROVE  Spec => []IInv
<1>1. Init => IInv
  BY Initially
<1>2. IInv /\ [Next]_vars => IInv'
  BY ConformsStep, KeepsStep DEF IInv
<1> QED
  BY <1>1, <1>2, PTL DEF Spec

\* Every variable keeps its type, and no crash loop outlives its allowance: since the
\* counter last started over, at most MaxAttempts auto-restarts have begun
\* (scheduleAutoRestart).
THEOREM TypeCorrect ==
  ASSUME LifecycleAssumption
  PROVE  Spec => []TypeOK
<1>1. IInv => TypeOK
  <2>1. SUFFICES ASSUME IInv PROVE TypeOK
    OBVIOUS
  <2>2. streak \in 0 .. MaxAttempts
    BY <2>1, TypedShape DEF IInv, Conforms, Restarts, AllowanceHolds, LifecycleAssumption
  <2> QED
    BY <2>1, <2>2 DEF IInv, Conforms, Typed, TypeOK
<1> QED
  BY <1>1, Invariance, PTL

\* Whatever lives is the process the lifecycle holds, on the port it holds, and the owner
\* record names that process or nothing.
THEOREM ChildTracked ==
  ASSUME LifecycleAssumption
  PROVE  Spec => []ChildIsTracked
<1>1. IInv => ChildIsTracked
  BY DEF IInv, Conforms, ChildIsTracked, OwnerFollows, OwnerNamesChild
<1> QED
  BY <1>1, Invariance, PTL

\* What is said to run was verified and lives; between operations nothing dead is kept.
THEOREM ServiceTrue ==
  ASSUME LifecycleAssumption
  PROVE  Spec => []ServiceIsTrue
<1>1. IInv => ServiceIsTrue
  BY OpsShape DEF IInv, Conforms, ServiceIsTrue, ManagedLives, KeptChildLives, Alive
<1> QED
  BY <1>1, Invariance, PTL

\* After a stop nothing runs until an operator asks for it, whatever restart was scheduled,
\* fired or queued before.
THEOREM StopPrevails ==
  ASSUME LifecycleAssumption
  PROVE  Spec => []StopWins
<1>1. IInv => StopWins
  BY DEF IInv, StopHolds, StopWins, Alive
<1> QED
  BY <1>1, Invariance, PTL

=============================================================================

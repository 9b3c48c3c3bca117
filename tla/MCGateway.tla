------------------------------ MODULE MCGateway ------------------------------
(***************************************************************************)
(* Machines of the gateway child that share no variable, checked in one    *)
(* run: a behaviour belongs to one part, chosen at its start, and the      *)
(* variables of the other parts are idle. Failover's verdicts are checked  *)
(* in a run of their own, on more keys; here its requests settle. The      *)
(* parts whose state is one record take turns in the variable m.           *)
(***************************************************************************)
EXTENDS Integers, Sequences, FiniteSets

CONSTANTS Keys, NoKey, Caps, MaxChanges,   \* Failover, ModelsRoute
          MaxChunks,                       \* ProxyAttempt
          MaxWork,                         \* ChildLife
          MaxBody,                         \* Inbound
          MaxRestarts,                     \* CapabilityProbe
          MaxBytes, MaxSent, MaxFrame,     \* SseFraming
          MaxFrames,                       \* Translate
          MaxTurns,                        \* Conversation
          MaxGood,                         \* ModelSources
          MaxIds,                          \* AdminApi
          Window, MinSamples, Confirmations, MinCompleted, MaxFirstByte,  \* PerformanceMode
          Names, MaxTracked, TTL, MaxTime, MaxEvents                      \* RoutingMemory

\* The ids the pool hands out count from 1 up to their bound.
ASSUME IdsAreCounted == MaxIds \in Nat

\* The confirmations a change of mode needs are a number.
ASSUME ConfirmationsAreCounted == Confirmations \in Nat

VARIABLES
  part, m,
  avail, changes, budget, attempt, current, attempted, cycle, answered, silent, discovered,
  markAnswered, markSilent, seen, loud, overdue, gone, at, answer, last,
  a, queue, tr

failover == <<avail, changes, budget, attempt, current, attempted, cycle, answered, silent,
              discovered, markAnswered, markSilent, seen, loud, overdue, gone, at, answer, last>>
proxy    == <<a, queue, tr>>
vars     == <<part, m, failover, proxy>>

Request == INSTANCE Failover
Proxy   == INSTANCE ProxyAttempt
Models  == INSTANCE ModelsRoute     WITH w <- m
Child   == INSTANCE ChildLife       WITH c <- m
Router  == INSTANCE Inbound         WITH r <- m
Probe   == INSTANCE CapabilityProbe WITH p <- m
Frames  == INSTANCE SseFraming      WITH z <- m
Stream  == INSTANCE Translate       WITH x <- m
Talk    == INSTANCE Conversation    WITH d <- m
Sources == INSTANCE ModelSources    WITH b <- m
Admin   == INSTANCE AdminApi        WITH y <- m
Mode    == INSTANCE PerformanceMode WITH f <- m
Ranks   == INSTANCE Ranking         WITH g <- m
Memory  == INSTANCE RoutingMemory   WITH v <- m
Refusal == INSTANCE ErrorEcho       WITH e <- m

Idle == "idle"
FailoverIdle ==
  /\ avail = Idle /\ changes = Idle /\ budget = Idle /\ attempt = Idle /\ current = Idle
  /\ attempted = Idle /\ cycle = Idle /\ answered = Idle /\ silent = Idle
  /\ discovered = Idle /\ markAnswered = Idle /\ markSilent = Idle /\ seen = Idle
  /\ loud = Idle /\ overdue = Idle /\ gone = Idle /\ at = Idle /\ answer = Idle /\ last = Idle
ProxyIdle == a = Idle /\ queue = Idle /\ tr = Idle

OfRequest(A) == part = "request" /\ A /\ UNCHANGED <<part, m, proxy>>
OfProxy(A)   == part = "proxy"   /\ A /\ UNCHANGED <<part, m, failover>>
Of(name, A)  == part = name      /\ A /\ UNCHANGED <<part, failover, proxy>>

Init ==
  \/ part = "request" /\ Request!Init /\ ProxyIdle    /\ m = Idle
  \/ part = "proxy"   /\ Proxy!Init   /\ FailoverIdle /\ m = Idle
  \/ /\ FailoverIdle /\ ProxyIdle
     /\ \/ part = "models"  /\ Models!Init
        \/ part = "child"   /\ Child!Init
        \/ part = "router"  /\ Router!Init
        \/ part = "probe"   /\ Probe!Init
        \/ part = "frames"  /\ Frames!Init
        \/ part = "stream"  /\ Stream!Init
        \/ part = "talk"    /\ Talk!Init
        \/ part = "sources" /\ Sources!Init
        \/ part = "admin"   /\ Admin!Init
        \/ part = "mode"    /\ Mode!Init
        \/ part = "ranks"   /\ Ranks!Init
        \/ part = "memory"  /\ Memory!Init
        \/ part = "refusal" /\ Refusal!Init

Next ==
  \/ OfRequest(Request!Next)
  \/ OfProxy(Proxy!Next)
  \/ Of("models", Models!Next)
  \/ Of("child", Child!Next)
  \/ Of("router", Router!Next)
  \/ Of("probe", Probe!Next)
  \/ Of("frames", Frames!Next)
  \/ Of("stream", Stream!Next)
  \/ Of("talk", Talk!Next)
  \/ Of("sources", Sources!Next)
  \/ Of("admin", Admin!Next)
  \/ Of("mode", Mode!Next)
  \/ Of("ranks", Ranks!Next)
  \/ Of("memory", Memory!Next)
  \/ Of("refusal", Refusal!Next)

\* The fairness of the parts, each as its module states it.
Fairness ==
  /\ WF_vars(OfRequest(Request!Progress))
  /\ WF_vars(OfProxy(\E clamped \in BOOLEAN : Proxy!SocketTimer(clamped)))
  /\ WF_vars(OfProxy(Proxy!MaxStreamTimer)) /\ WF_vars(OfProxy(Proxy!Internal))
  /\ WF_vars(OfProxy(Proxy!Resume)) /\ WF_vars(OfProxy(Proxy!ResponseCloses))
  /\ WF_vars(OfProxy(a.up = "dying" /\ Proxy!ResponseBreaks))
  /\ WF_vars(Of("models", Models!Progress))
  /\ WF_vars(Of("child", Child!Progress))
  /\ WF_vars(Of("router", Router!Route)) /\ WF_vars(Of("router", Router!DrainTimer))
  /\ WF_vars(Of("sources", Sources!Fetch))

FairSpec == Init /\ [][Next]_vars /\ Fairness

-----------------------------------------------------------------------------
\* The types of the part's variables.
TypeOK ==
  CASE part = "request" -> Request!TypeOK
    [] part = "proxy"   -> Proxy!TypeOK
    [] part = "models"  -> Models!TypeOK
    [] part = "child"   -> Child!TypeOK
    [] part = "router"  -> Router!TypeOK
    [] part = "probe"   -> Probe!TypeOK
    [] part = "frames"  -> Frames!TypeOK
    [] part = "stream"  -> Stream!TypeOK
    [] part = "talk"    -> Talk!TypeOK
    [] part = "sources" -> Sources!TypeOK
    [] part = "admin"   -> Admin!TypeOK
    [] part = "mode"    -> Mode!TypeOK
    [] part = "ranks"   -> Ranks!TypeOK
    [] part = "memory"  -> Memory!TypeOK
    [] part = "refusal" -> Refusal!TypeOK

\* ProxyAttempt: an attempt that passed the request on leaves the response alone, and a
\* clean end is the end of a whole answer. ErrorEcho: a refusal of upstream's reaches the
\* client scrubbed, whole and in a shape it can parse.
AnswerIsClean ==
  /\ part = "proxy"   => Proxy!RetryIsInvisible /\ Proxy!CleanEndIsWhole
  /\ part = "refusal" => Refusal!EchoIsSafe

\* ProxyAttempt: the key is judged by what upstream did.
KeyIsJudgedFairly == part = "proxy" => Proxy!KeyIsJudgedFairly

\* ModelsRoute: the list's request blames the network only when no key got through, and
\* charges a key for nothing but upstream's faults. ModelSources: the lists the gateway
\* keeps survive failed and empty refreshes. Ranking: a model is shown with its own rank,
\* and with the one it has.
ListsAreHonest ==
  /\ part = "models"  => Models!RouteIsHonest
  /\ part = "sources" => Sources!SourcesAreKept
  /\ part = "ranks"   => Ranks!RanksAreHonest

\* ChildLife: what the child says it has saved or is ready for, it has and is.
\* RoutingMemory: what it remembers is on disk or about to be.
ChildKeepsItsWord ==
  /\ part = "child"  => Child!ChildKeepsItsWord
  /\ part = "memory" => Memory!MemoryIsKept

\* Inbound: no key is spent on a request the router must refuse. AdminApi: nobody without
\* the token changes the pool, and a mutation is in force when it was acknowledged.
KeysAreGuarded ==
  /\ part = "router" => Router!KeysAreGuarded
  /\ part = "admin"  => Admin!AdminIsExact

\* SseFraming: the readers of a stream find upstream's frames however the bytes are cut.
\* Translate: the facade's events are a well-formed account of the frames.
StreamsAreHonest ==
  /\ part = "frames" => Frames!FramesAreUpstreams
  /\ part = "stream" => Stream!TranslationIsHonest

\* Conversation: a turn that a client sends back reaches the model as it was said.
ConversationIsFaithful == part = "talk" => Talk!ConversationIsFaithful

\* CapabilityProbe: what the registry shows was seen, and not taken back by a transient
\* reply. PerformanceMode: the mode changes on confirmed evidence and follows the file.
SettingsAreHonest ==
  /\ part = "probe" => Probe!CapabilityIsHonest
  /\ part = "mode"  => Mode!ModeIsSteady

\* Every request gets an answer; every attempt passes the request on or ends the client's
\* response; the list's request settles unless its client has left; a child told to stop
\* ends; an oversized request is cut off; nobody waits for a list for ever.
RequestsSettle ==
  /\ <>(part = "request" => at = "done")
  /\ <>(part = "proxy" => a.settled = "retry" \/ a.ended \/ a.torn)
  /\ <>(part = "models" => m.at = "done" \/ m.dropped)
  /\ (part = "child" /\ m.stopping) ~> (part = "child" /\ m.exit # "no")
  /\ (part = "router" /\ m.at = "draining") ~> (part = "router" /\ m.at = "closed")
  /\ (part = "sources" /\ m.caller # "none") ~> (part = "sources" /\ m.caller = "none")
=============================================================================

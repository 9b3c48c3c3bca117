-------------------------- MODULE MCGateway_proofs --------------------------
(***************************************************************************)
(* Proofs about eight machines of the gateway child, for every value of    *)
(* their bounds: the router (Inbound), the admin API (AdminApi), the       *)
(* child's startup and shutdown (ChildLife), the routing memory            *)
(* (RoutingMemory), the capability probe (CapabilityProbe), the            *)
(* performance mode (PerformanceMode), the models route (ModelsRoute) and  *)
(* the sources of the ranking (ModelSources). Each has an inductive        *)
(* invariant of its own; a behaviour of MCGateway belongs to one of them   *)
(* and the others stand still, which the theorems at the end put together. *)
(* One upstream attempt has its module, MCGatewayAttempt_proofs.           *)
(***************************************************************************)
EXTENDS MCGateway, FiniteSetTheorems, TLAPS

-----------------------------------------------------------------------------
(* The router: what reaches a handler was let in and read (server.mjs)        *)

RouterStates ==
  [route : Router!Routes, body : Router!Bodies, origin : {"none", "listed", "foreign"},
   bearer : {"none", "local", "admin", "wrong"}, apiKey : {"none", "local", "wrong"},
   at : {"arrived", "reading", "draining", "handed", "closed"}, size : Int, complete : BOOLEAN,
   timer : BOOLEAN, answer : Int, writes : Int, preflight : BOOLEAN, parseable : BOOLEAN,
   ready : BOOLEAN, tokens : BOOLEAN]

\* A request whose body is read has passed the router and has no answer; one over the limit
\* cannot be handed on; the safety timer belongs to it.
Admitted == m.tokens /\ m.origin # "foreign" /\ Router!Authorized(m)
BodyIsRead ==
  /\ m.at = "arrived" => m.answer = 0 /\ m.size <= Router!Limit
  /\ m.at = "reading" =>
       Admitted /\ m.route \in Router!Posts /\ m.answer = 0 /\ m.size <= Router!Limit
  /\ m.at = "draining" => m.size > Router!Limit
  /\ m.timer => m.at = "draining"
  /\ m.route \notin Router!Posts => m.body = "empty"
RouterInv == m \in RouterStates /\ BodyIsRead /\ Router!KeysAreGuarded

LEMMA RouterStart == Router!Init => RouterInv
BY DEF Router!Init, RouterInv, RouterStates, BodyIsRead, Router!KeysAreGuarded, Router!Routes,
   Router!Bodies, Router!Posts, Router!Limit

LEMMA Replies ==
  ASSUME NEW s \in RouterStates, NEW status \in Int
  PROVE  \E n \in Int, w \in Int : Router!Reply(s, status) = [s EXCEPT !.answer = n, !.writes = w]
<1>1. PICK n \in Int : n = IF s.writes = 0 THEN status ELSE s.answer
  BY DEF RouterStates
<1>2. PICK w \in Int : w = IF s.writes = 0 THEN 1 ELSE s.writes
  BY DEF RouterStates
<1>3. Router!Reply(s, status) = [s EXCEPT !.answer = n, !.writes = w]
  BY Zenon, <1>1, <1>2 DEF Router!Reply
<1> QED
  BY <1>3

LEMMA RouteStep == ASSUME RouterInv, Router!Route PROVE RouterInv'
<1>1. m.at = "arrived" /\ m \in RouterStates /\ m.answer = 0
  BY DEF Router!Route, RouterInv, BodyIsRead
<1>2. CASE \E status \in Int : m' = [Router!Reply(m, status) EXCEPT !.at = "closed"]
  <2>0. PICK status \in Int : m' = [Router!Reply(m, status) EXCEPT !.at = "closed"]
    BY <1>2
  <2>1. PICK n \in Int, w \in Int : Router!Reply(m, status) = [m EXCEPT !.answer = n, !.writes = w]
    BY <1>1, Replies
  <2>2. m' \in RouterStates /\ m'.at = "closed" /\ m'.timer = m.timer /\ m'.body = m.body
            /\ m'.route = m.route
    BY <1>1, <2>0, <2>1 DEF RouterStates
  <2> QED
    BY <1>1, <2>2 DEF RouterInv, BodyIsRead, Router!KeysAreGuarded
<1>3. CASE Router!Refusal(m) = 0 /\ \/ m.route = "models" /\ m' = [m EXCEPT !.at = "handed"]
                                    \/ m.route \in Router!Posts /\ m' = [m EXCEPT !.at = "reading"]
  <2>1. m.origin # "foreign" /\ Router!Authorized(m) /\ m.tokens
    BY <1>1, <1>3 DEF Router!Refusal, Router!Authorized, RouterStates
  <2>2. CASE m.route = "models" /\ m' = [m EXCEPT !.at = "handed"]
    <3>1. m' \in RouterStates
      BY <1>1, <2>2 DEF RouterStates
    <3>2. m'.at = "handed" /\ m'.timer = m.timer /\ m'.body = m.body /\ m'.route = m.route
          /\ m'.tokens = m.tokens /\ m'.origin = m.origin /\ m'.answer = m.answer
          /\ m'.bearer = m.bearer /\ m'.apiKey = m.apiKey
      BY <1>1, <2>2 DEF RouterStates
    <3> QED
      BY <1>1, <2>1, <2>2, <3>1, <3>2
      DEF RouterInv, BodyIsRead, Router!KeysAreGuarded, Router!Authorized, Router!Token,
          Router!Posts
  <2>3. CASE m.route \in Router!Posts /\ m' = [m EXCEPT !.at = "reading"]
    <3>1. m' \in RouterStates
      BY <1>1, <2>3 DEF RouterStates
    <3>2. m'.at = "reading" /\ m'.timer = m.timer /\ m'.body = m.body /\ m'.route = m.route
          /\ m'.tokens = m.tokens /\ m'.origin = m.origin /\ m'.answer = m.answer
          /\ m'.bearer = m.bearer /\ m'.apiKey = m.apiKey /\ m'.size = m.size
      BY <1>1, <2>3 DEF RouterStates
    <3>3. m.size <= Router!Limit
      BY <1>1 DEF RouterInv, BodyIsRead
    <3> QED
      BY <1>1, <2>1, <2>3, <3>1, <3>2, <3>3
      DEF RouterInv, BodyIsRead, Router!KeysAreGuarded, Admitted, Router!Authorized, Router!Token,
          Router!Posts
  <2> QED
    BY <1>3, <2>2, <2>3
<1>4. Router!Refusal(m) \in Int
  BY DEF Router!Refusal
<1> QED
  BY <1>2, <1>3, <1>4 DEF Router!Route

LEMMA ReadStep ==
  ASSUME RouterInv,
         Router!Chunk \/ Router!BodyEnds \/ Router!BreaksOff \/ Router!DrainTimer
  PROVE  RouterInv'
<1>0. m \in RouterStates /\ m.size \in Int /\ BodyIsRead /\ Router!KeysAreGuarded
  BY DEF RouterInv, RouterStates
\* An end without a hand-over.
<1>1. ASSUME NEW stage \in {"draining", "closed"}, NEW n \in Int, NEW w \in Int, NEW size \in Int,
             NEW complete \in BOOLEAN, NEW timer \in BOOLEAN,
             stage = "draining" => size > Router!Limit, timer => stage = "draining",
             m' = [m EXCEPT !.at = stage, !.answer = n, !.writes = w, !.size = size,
                            !.complete = complete, !.timer = timer]
      PROVE  RouterInv'
  <2>1. m' \in RouterStates
    <3> DEFINE x == [m EXCEPT !.at = stage, !.answer = n, !.writes = w]
    <3>1. x \in RouterStates
      BY <1>0 DEF RouterStates
    <3>2. m' = [x EXCEPT !.size = size, !.complete = complete, !.timer = timer]
      BY <1>1
    <3> HIDE DEF x
    <3> QED
      BY <3>1, <3>2 DEF RouterStates
  <2>2. m'.at = stage /\ m'.size = size /\ m'.timer = timer /\ m'.route = m.route
            /\ m'.body = m.body
    BY <1>0, <1>1 DEF RouterStates
  <2> QED
    BY <1>0, <1>1, <2>1, <2>2 DEF RouterInv, BodyIsRead, Router!KeysAreGuarded
<1>2. CASE Router!Chunk
  <2>1. PICK size \in Int : size = m.size + 1
    BY <1>0
  <2>2. CASE size <= Router!Limit /\ m' = [m EXCEPT !.size = size]
    <3>1. m.at = "reading"
      BY <1>0, <1>2, <2>1, <2>2 DEF Router!Chunk, BodyIsRead, Router!Limit
    <3>2. m' \in RouterStates
      BY <1>0, <2>2 DEF RouterStates
    <3>3. /\ m'.at = m.at /\ m'.size = size /\ m'.timer = m.timer /\ m'.route = m.route
          /\ m'.body = m.body /\ m'.answer = m.answer /\ m'.tokens = m.tokens
          /\ m'.origin = m.origin /\ m'.bearer = m.bearer /\ m'.apiKey = m.apiKey
      BY <1>0, <2>2 DEF RouterStates
    <3> QED
      BY <1>0, <2>2, <3>1, <3>2, <3>3
      DEF RouterInv, BodyIsRead, Router!KeysAreGuarded, Admitted, Router!Authorized, Router!Token
  <2>3. CASE size > Router!Limit /\ m' = [Router!Reply([m EXCEPT !.size = size], 413)
                                     EXCEPT !.at = "draining", !.timer = TRUE]
    <3> DEFINE x == [m EXCEPT !.size = size]
    <3>1. x \in RouterStates
      BY <1>0 DEF RouterStates
    <3>2. PICK status \in Int : status = 413
      OBVIOUS
    <3>3. PICK n \in Int, w \in Int :
            Router!Reply(x, status) = [x EXCEPT !.answer = n, !.writes = w]
      <4> HIDE DEF x
      <4> QED
        BY <3>1, Replies
    <3>4. m' = [[x EXCEPT !.answer = n, !.writes = w] EXCEPT !.at = "draining", !.timer = TRUE]
      BY Zenon, <2>3, <3>2, <3>3
    <3>5. PICK timer \in BOOLEAN :
            m' = [m EXCEPT !.at = "draining", !.answer = n, !.writes = w, !.size = size,
                           !.complete = m.complete, !.timer = timer]
      BY <1>0, <3>4 DEF RouterStates
    <3>6. m.complete \in BOOLEAN /\ size > Router!Limit
      BY <1>0, <2>3 DEF RouterStates
    <3> QED
      BY Zenon, <1>1, <3>5, <3>6
  <2>4. (size <= Router!Limit /\ m' = [m EXCEPT !.size = size])
        \/ (~(size <= Router!Limit) /\ m' = [Router!Reply([m EXCEPT !.size = size], 413)
                                        EXCEPT !.at = "draining", !.timer = TRUE])
    <3>1. [m EXCEPT !.size = size].size = size
      BY <1>0 DEF RouterStates
    <3>2. m' = IF [m EXCEPT !.size = size].size <= Router!Limit THEN [m EXCEPT !.size = size]
               ELSE [Router!Reply([m EXCEPT !.size = size], 413)
                       EXCEPT !.at = "draining", !.timer = TRUE]
      BY <1>2, <2>1 DEF Router!Chunk
    <3> QED
      BY ZenonT(60), <3>1, <3>2
  <2>5. size <= Router!Limit \/ size > Router!Limit
    BY DEF Router!Limit
  <2> QED
    BY <2>2, <2>3, <2>4, <2>5
<1>3. CASE Router!BodyEnds
  <2> DEFINE s == [m EXCEPT !.complete = TRUE]
  <2>1. /\ s \in RouterStates /\ s.size = m.size /\ s.body = m.body /\ s.route = m.route
        /\ s.tokens = m.tokens
    BY <1>0 DEF RouterStates
  <2>2. CASE Router!Oversized(s) /\ m' = [s EXCEPT !.timer = FALSE, !.at = "closed"]
    <3>1. m' = [m EXCEPT !.at = "closed", !.answer = m.answer, !.writes = m.writes, !.size = m.size,
                         !.complete = TRUE, !.timer = FALSE]
      BY <1>0, <2>2 DEF RouterStates
    <3>2. m.answer \in Int /\ m.writes \in Int
      BY <1>0 DEF RouterStates
    <3> QED
      BY <1>0, <1>1, <3>1, <3>2
  <2>3. ASSUME ~Router!Oversized(s), NEW v \in Int, m' = [Router!Reply(s, v) EXCEPT !.at = "closed"]
        PROVE RouterInv'
    <3>1. ~m.timer
      BY <1>0, <1>3, <2>1, <2>3 DEF Router!BodyEnds, BodyIsRead, Router!Oversized
    <3>2. PICK n \in Int, w \in Int : Router!Reply(s, v) = [s EXCEPT !.answer = n, !.writes = w]
      BY Zenon, <2>1, <2>3, Replies
    <3>3. m' = [m EXCEPT !.at = "closed", !.answer = n, !.writes = w, !.size = m.size,
                         !.complete = TRUE, !.timer = m.timer]
      BY ZenonT(60), <1>0, <2>3, <3>2 DEF RouterStates
    <3>4. m.timer \in BOOLEAN
      BY <1>0 DEF RouterStates
    <3> QED
      BY <1>0, <1>1, <3>1, <3>3, <3>4
  <2>4. CASE ~Router!Oversized(s) /\ Router!Verdict(s) = 0 /\ m' = [s EXCEPT !.at = "handed"]
    <3>1. m.at = "reading"
      BY <1>0, <1>3, <2>1, <2>4 DEF Router!BodyEnds, BodyIsRead, Router!Oversized
    <3>2. m' \in RouterStates
      BY <2>1, <2>4 DEF RouterStates
    <3>3. /\ m'.at = "handed" /\ m'.size = m.size /\ m'.timer = m.timer /\ m'.route = m.route
          /\ m'.body = m.body /\ m'.answer = m.answer /\ m'.tokens = m.tokens /\ m'.complete
          /\ m'.origin = m.origin /\ m'.bearer = m.bearer /\ m'.apiKey = m.apiKey
      BY <1>0, <2>4 DEF RouterStates
    <3>4. m.body \in {"good", "empty"}
      BY <1>0, <2>1, <2>4 DEF Router!Verdict, RouterStates, Router!Bodies
    <3> QED
      BY <1>0, <3>1, <3>2, <3>3, <3>4
      DEF RouterInv, BodyIsRead, Router!KeysAreGuarded, Admitted, Router!Authorized, Router!Token,
          Router!Posts
  <2>5. Router!Verdict(s) \in Int
    BY DEF Router!Verdict
  <2> QED
    BY <1>3, <2>2, <2>3, <2>4, <2>5 DEF Router!BodyEnds
<1>4. CASE Router!BreaksOff
  <2>1. PICK status \in Int : status = 400
    OBVIOUS
  <2>2. PICK n \in Int, w \in Int : Router!Reply(m, status) = [m EXCEPT !.answer = n, !.writes = w]
    BY <1>0, Replies
  <2>3. m' = [m EXCEPT !.at = "closed", !.answer = n, !.writes = w, !.size = m.size,
                       !.complete = m.complete, !.timer = FALSE]
    <3>1. m' = [Router!Reply(m, status) EXCEPT !.timer = FALSE, !.at = "closed"]
      BY <1>4, <2>1 DEF Router!BreaksOff
    <3> QED
      BY ZenonT(60), <1>0, <2>2, <3>1 DEF RouterStates
  <2>4. m.complete \in BOOLEAN
    BY <1>0 DEF RouterStates
  <2> QED
    BY <1>0, <1>1, <2>3, <2>4
<1>5. CASE Router!DrainTimer
  <2>2. m.at = "draining"
    BY <1>0, <1>5 DEF Router!DrainTimer, BodyIsRead
  <2>1. PICK stage \in {"draining", "closed"} : m' = [m EXCEPT !.timer = FALSE, !.at = stage]
    BY <1>0, <1>5, <2>2 DEF Router!DrainTimer, Router!Drained, RouterStates
  <2>3. m' = [m EXCEPT !.at = stage, !.answer = m.answer, !.writes = m.writes, !.size = m.size,
                       !.complete = m.complete, !.timer = FALSE]
    BY <1>0, <2>1 DEF RouterStates
  <2>4. m.answer \in Int /\ m.writes \in Int /\ m.complete \in BOOLEAN
    BY <1>0 DEF RouterStates
  <2>5. stage = "draining" => m.size > Router!Limit
    BY <1>0, <2>2 DEF BodyIsRead
  <2> QED
    BY ZenonT(60), <1>0, <1>1, <2>2, <2>3, <2>4, <2>5
<1> QED
  BY <1>2, <1>3, <1>4, <1>5

LEMMA RouterStep == ASSUME RouterInv, [Router!Next]_m PROVE RouterInv'
<1>1. CASE UNCHANGED m
  BY <1>1 DEF RouterInv, BodyIsRead, Router!KeysAreGuarded, Admitted, Router!Authorized,
     Router!Token
<1> QED
  BY <1>1, RouteStep, ReadStep DEF Router!Next

-----------------------------------------------------------------------------
(* The admin API: the pool, its durable copy and the models' keys             *)

Slots == Admin!Tokens \cup {Admin!NoToken}
Calling == [op : {"none", "add", "remove", "validate"}, token : Slots, id : Int,
            at : {"idle", "body", "queued", "validating", "done"}, code : Int]
Shelf    == [Admin!Ids -> Slots]
Board    == [Admin!Requests -> Calling]
CheckSet == SUBSET (Admin!Ids \X Admin!Tokens)
AdminStates ==
  [pool : Shelf, models : Shelf, durable : Shelf, next : Int, req : Board,
   owner : Admin!Requests \cup {"nobody"}, checks : CheckSet, strange : SUBSET Admin!Requests]

\* What waits for its turn says what it wants.
AsksAreWhole ==
  \A q \in Admin!Requests :
    /\ m.req[q].at = "queued" => /\ m.req[q].op = "add" => m.req[q].token \in Admin!Tokens
                                 /\ m.req[q].op # "add" => m.req[q].id \in Admin!Ids
    /\ m.req[q].at = "validating" => m.req[q].token \in Admin!Tokens

\* The mutation that is being made: an added key is in the pool and not yet durable, a
\* removed one is durable and out of the pool.
OneUnderWay ==
  m.owner # "nobody" =>
    /\ m.req[m.owner].at = "queued" /\ m.req[m.owner].id \in Admin!Ids /\ m.req[m.owner].id < m.next
    /\ m.req[m.owner].op = "add" => /\ m.req[m.owner].token \in Admin!Tokens
                                    /\ m.pool[m.req[m.owner].id] = m.req[m.owner].token
                                    /\ m.durable[m.req[m.owner].id] = Admin!NoToken
    /\ m.req[m.owner].op # "add" => /\ m.pool[m.req[m.owner].id] = Admin!NoToken
                                    /\ m.durable[m.req[m.owner].id] # Admin!NoToken

Distinct(f) == \A i, j \in Admin!Ids : i # j /\ f[i] # Admin!NoToken => f[i] # f[j]
Fresh == \A i \in Admin!Ids : i >= m.next =>
           /\ m.pool[i] = Admin!NoToken /\ m.durable[i] = Admin!NoToken
           /\ m.models[i] = Admin!NoToken
Settled == \A i \in Admin!Ids :
             m.pool[i] # m.durable[i] => m.owner # "nobody" /\ m.req[m.owner].id = i
Owned == \A i \in Admin!Ids : m.models[i] # Admin!NoToken =>
           /\ m.pool[i] # Admin!NoToken => m.models[i] = m.pool[i]
           /\ m.durable[i] # Admin!NoToken => m.models[i] = m.durable[i]

\* A late validation belongs to the key it was begun for, or to nothing.
ChecksAreOwn ==
  \A c \in m.checks : /\ c[1] < m.next /\ m.pool[c[1]] \in {Admin!NoToken, c[2]}
                      /\ m.durable[c[1]] \in {Admin!NoToken, c[2]}

PoolInv == /\ Distinct(m.pool) /\ Distinct(m.durable) /\ Fresh /\ Settled /\ Owned /\ ChecksAreOwn
           /\ OneUnderWay
AdminInv == m \in AdminStates /\ m.next >= 1 /\ AsksAreWhole /\ Admin!StrangersStayOut /\ PoolInv

LEMMA AdminStart == Admin!Init => AdminInv
<1> SUFFICES ASSUME Admin!Init PROVE AdminInv
  OBVIOUS
<1> DEFINE none == [i \in Admin!Ids |-> Admin!NoToken]
           idle == [q \in Admin!Requests |-> Admin!Ready]
<1>1. /\ m.pool = none /\ m.models = none /\ m.durable = none /\ m.next = 1 /\ m.req = idle
      /\ m.owner = "nobody" /\ m.checks = {} /\ m.strange = {}
  BY DEF Admin!Init
<1>2. none \in [Admin!Ids -> Slots] /\ \A i \in Admin!Ids : none[i] = Admin!NoToken
  BY DEF Slots
<1>3. idle \in [Admin!Requests -> Calling] /\ \A q \in Admin!Requests : idle[q].at = "idle"
  BY DEF Admin!Ready, Calling, Slots
<1>4. m \in AdminStates
  <2> HIDE DEF none, idle
  <2> QED
    BY <1>2, <1>3 DEF Admin!Init, AdminStates, Shelf, Board, CheckSet, none, idle
<1> HIDE DEF none, idle
<1> QED
  BY <1>1, <1>2, <1>3, <1>4
  DEF AdminInv, AsksAreWhole, Admin!StrangersStayOut, PoolInv, Distinct, Fresh, Settled, Owned,
      ChecksAreOwn, OneUnderWay

LEMMA AnswerDone ==
  ASSUME NEW code \in Int
  PROVE  Admin!Answers(code) \in Calling /\ Admin!Answers(code).at = "done"
            /\ Admin!Answers(code).code = code
<1>1. Admin!Ready \in Calling
  BY DEF Admin!Ready, Calling, Slots
<1>2. Admin!Answers(code) = [Admin!Ready EXCEPT !.at = "done", !.code = code]
  BY DEF Admin!Answers
<1> QED
  BY <1>1, <1>2 DEF Calling

\* A request changes that is not the one whose mutation is being made.
Turns(q, rec, strange, models) ==
  /\ m' \in AdminStates /\ m'.req = [m.req EXCEPT ![q] = rec]
  /\ m'.strange = strange /\ m'.models = models
  /\ m'.pool = m.pool /\ m'.durable = m.durable /\ m'.next = m.next /\ m'.owner = m.owner
  /\ m'.checks = m.checks

LEMMA Turned ==
  ASSUME AdminInv, NEW q \in Admin!Requests, NEW rec \in Calling,
         NEW strange \in SUBSET Admin!Requests,
         NEW models \in Shelf,
         \/ m' = [m EXCEPT !.req[q] = rec, !.strange = strange] /\ models = m.models
         \/ m' = [m EXCEPT !.req[q] = rec, !.models = models] /\ strange = m.strange
  PROVE  Turns(q, rec, strange, models)
<1>0. m \in AdminStates /\ m.req \in Board
  BY DEF AdminInv, AdminStates
<1> DEFINE req == [m.req EXCEPT ![q] = rec]
<1>1. req \in Board
  BY <1>0 DEF Board
<1>2. \/ m' = [m EXCEPT !.req = req, !.strange = strange] /\ models = m.models
      \/ m' = [m EXCEPT !.req = req, !.models = models] /\ strange = m.strange
  OBVIOUS
<1> SUFFICES /\ m' \in AdminStates /\ m'.req = req
             /\ m'.strange = strange /\ m'.models = models
             /\ m'.pool = m.pool /\ m'.durable = m.durable /\ m'.next = m.next
             /\ m'.owner = m.owner /\ m'.checks = m.checks
  BY DEF Turns
<1> HIDE DEF req
<1>3. CASE m' = [m EXCEPT !.req = req, !.strange = strange] /\ models = m.models
  BY <1>0, <1>1, <1>3 DEF AdminStates
<1>4. CASE m' = [m EXCEPT !.req = req, !.models = models] /\ strange = m.strange
  BY <1>0, <1>1, <1>4 DEF AdminStates
<1> QED
  BY <1>2, <1>3, <1>4

LEMMA TurnedAlone ==
  ASSUME AdminInv, NEW q \in Admin!Requests, NEW rec \in Calling, m' = [m EXCEPT !.req[q] = rec]
  PROVE  Turns(q, rec, m.strange, m.models)
<1>0. m \in AdminStates /\ m.req \in Board
  BY DEF AdminInv, AdminStates
<1> DEFINE req == [m.req EXCEPT ![q] = rec]
<1>1. req \in Board
  BY <1>0 DEF Board
<1>2. m' = [m EXCEPT !.req = req]
  OBVIOUS
<1> SUFFICES /\ m' \in AdminStates /\ m'.req = req
             /\ m'.strange = m.strange /\ m'.models = m.models
             /\ m'.pool = m.pool /\ m'.durable = m.durable /\ m'.next = m.next
             /\ m'.owner = m.owner /\ m'.checks = m.checks
  BY DEF Turns
<1> HIDE DEF req
<1> QED
  BY <1>0, <1>1, <1>2 DEF AdminStates

LEMMA OthersStep ==
  ASSUME AdminInv, NEW q \in Admin!Requests, q # m.owner, NEW rec \in Calling,
         NEW strange \in SUBSET Admin!Requests,
         NEW models \in Shelf, Turns(q, rec, strange, models),
         strange \ {q} = m.strange \ {q},
         q \in strange => rec.at \in {"idle", "done"} /\ rec.code \notin {200, 201},
         rec.at = "queued" => /\ rec.op = "add" => rec.token \in Admin!Tokens
                              /\ rec.op # "add" => rec.id \in Admin!Ids,
         rec.at = "validating" => rec.token \in Admin!Tokens,
         \A i \in Admin!Ids : models[i] = m.models[i]
                              \/ (m.pool[i] # Admin!NoToken /\ models[i] = m.pool[i])
  PROVE  AdminInv'
<1>0. m \in AdminStates /\ m.req \in Board
  BY DEF AdminInv, AdminStates
<1> DEFINE req == [m.req EXCEPT ![q] = rec]
<1>1. req \in Board /\ req[q] = rec /\ \A o \in Admin!Requests \ {q} : req[o] = m.req[o]
  BY <1>0 DEF Board
<1> HIDE DEF req
<1>2. /\ m' \in AdminStates /\ m'.req = req /\ m'.strange = strange /\ m'.models = models
      /\ m'.pool = m.pool /\ m'.durable = m.durable /\ m'.next = m.next /\ m'.owner = m.owner
      /\ m'.checks = m.checks
  BY DEF req, Turns
<1>3. AsksAreWhole'
  BY <1>1, <1>2 DEF AdminInv, AsksAreWhole
<1>4. Admin!StrangersStayOut'
  BY <1>1, <1>2 DEF AdminInv, Admin!StrangersStayOut
<1>5. m.owner # "nobody" => req[m.owner] = m.req[m.owner]
  BY <1>0, <1>1 DEF AdminStates
<1>6. OneUnderWay' /\ Settled'
  BY <1>2, <1>5 DEF AdminInv, PoolInv, OneUnderWay, Settled
<1>7. Distinct(m.pool)' /\ Distinct(m.durable)' /\ ChecksAreOwn'
  BY <1>2 DEF AdminInv, PoolInv, Distinct, ChecksAreOwn
<1>8. Fresh'
  BY <1>2 DEF AdminInv, PoolInv, Fresh
<1>9. Owned'
  <2> SUFFICES ASSUME NEW i \in Admin!Ids, models[i] # Admin!NoToken
               PROVE  /\ m.pool[i] # Admin!NoToken => models[i] = m.pool[i]
                      /\ m.durable[i] # Admin!NoToken => models[i] = m.durable[i]
    BY <1>2 DEF Owned
  <2>1. CASE models[i] = m.models[i]
    BY <2>1 DEF AdminInv, PoolInv, Owned
  <2>2. CASE m.pool[i] # Admin!NoToken /\ models[i] = m.pool[i]
    <3>1. m.durable[i] = m.pool[i] \/ m.durable[i] = Admin!NoToken
      BY <2>2 DEF AdminInv, PoolInv, Settled, OneUnderWay
    <3> QED
      BY <2>2, <3>1
  <2> QED
    BY <2>1, <2>2
<1> QED
  BY <1>2, <1>3, <1>4, <1>6, <1>7, <1>8, <1>9 DEF AdminInv, PoolInv

\* The same with the models as they were.

LEMMA TurnStep ==
  ASSUME AdminInv, NEW q \in Admin!Requests, q # m.owner, NEW rec \in Calling,
         NEW strange \in SUBSET Admin!Requests, Turns(q, rec, strange, m.models),
         strange \ {q} = m.strange \ {q},
         q \in strange => rec.at \in {"idle", "done"} /\ rec.code \notin {200, 201},
         rec.at = "queued" => /\ rec.op = "add" => rec.token \in Admin!Tokens
                              /\ rec.op # "add" => rec.id \in Admin!Ids,
         rec.at = "validating" => rec.token \in Admin!Tokens
  PROVE  AdminInv'
<1>0. m \in AdminStates /\ m.models \in Shelf
  BY DEF AdminInv, AdminStates
<1> DEFINE models == m.models
<1>1. Turns(q, rec, strange, models)
  OBVIOUS
<1>2. models \in Shelf /\ \A i \in Admin!Ids : models[i] = m.models[i]
  BY <1>0
<1>3. \A i \in Admin!Ids : \/ models[i] = m.models[i]
                           \/ m.pool[i] # Admin!NoToken /\ models[i] = m.pool[i]
  BY <1>2
<1> HIDE DEF models
<1> QED
  BY <1>1, <1>2, <1>3, OthersStep

LEMMA CallStep ==
  ASSUME AdminInv, NEW q \in Admin!Requests, NEW op \in {"add", "remove", "validate"},
         NEW call \in [origin : BOOLEAN, known : BOOLEAN, token : BOOLEAN], Admin!Calls(q, call, op)
  PROVE  AdminInv'
<1>0. /\ m \in AdminStates /\ m.req \in Board /\ m.strange \in SUBSET Admin!Requests
      /\ m.models \in Shelf /\ m.req[q] \in Calling
  BY DEF AdminInv, AdminStates, Board
<1>q. q # m.owner
  BY DEF AdminInv, PoolInv, OneUnderWay, Admin!Calls, Admin!Requests
<1> DEFINE strange == IF call.origin \/ ~call.token THEN m.strange \cup {q} ELSE m.strange \ {q}
<1>1. strange \in SUBSET Admin!Requests /\ strange \ {q} = m.strange \ {q}
      /\ (q \in strange => call.origin \/ ~call.token)
  BY <1>0
<1>2. CASE Admin!Refusal(call) # 0
  <2>1. PICK code \in Int : code = Admin!Refusal(call) /\ code \notin {200, 201}
    BY DEF Admin!Refusal
  <2> DEFINE rec == Admin!Answers(code)
  <2>2. Admin!Answers(Admin!Refusal(call)) = rec
    BY <2>1
  <2>3. rec \in Calling /\ rec.at = "done" /\ rec.code = code
    BY <2>1, AnswerDone
  <2>4. m' = [m EXCEPT !.req[q] = rec, !.strange = strange]
    BY <1>0, <1>2, <2>2 DEF Admin!Calls, AdminStates
  <2> HIDE DEF rec, strange
  <2>5. Turns(q, rec, strange, m.models)
    BY Zenon, <1>0, <1>1, <2>3, <2>4, Turned
  <2> QED
    BY <1>q, <1>1, <2>1, <2>3, <2>5, TurnStep
<1>3. CASE Admin!Refusal(call) = 0
  <2> DEFINE rec == [m.req[q] EXCEPT !.op = op, !.at = "body"]
  <2>1. ~call.origin /\ call.token
    BY <1>3 DEF Admin!Refusal
  <2>2. rec \in Calling /\ rec.at = "body"
    BY <1>0 DEF Calling
  <2>3. m' = [m EXCEPT !.req[q] = rec, !.strange = strange]
    BY <1>0, <1>3 DEF Admin!Calls, AdminStates
  <2> HIDE DEF rec, strange
  <2>4. Turns(q, rec, strange, m.models)
    BY Zenon, <1>0, <1>1, <2>2, <2>3, Turned
  <2> QED
    BY <1>q, <1>1, <2>1, <2>2, <2>4, TurnStep
<1> QED
  BY <1>2, <1>3

LEMMA BodyStep ==
  ASSUME AdminInv, NEW q \in Admin!Requests, NEW fault \in {0, 400}, NEW token \in Admin!Tokens,
         NEW id \in Admin!Ids,
         Admin!Body(q, fault, token, id)
  PROVE  AdminInv'
<1>0. /\ m \in AdminStates /\ m.req \in Board /\ m.strange \in SUBSET Admin!Requests
      /\ m.models \in Shelf /\ m.req[q] \in Calling
  BY DEF AdminInv, AdminStates, Board
<1>q. q # m.owner
  BY DEF AdminInv, PoolInv, OneUnderWay, Admin!Body, Admin!Requests
<1>1. q \notin m.strange /\ m.req[q].at = "body"
  BY DEF Admin!Body, AdminInv, Admin!StrangersStayOut
<1>2. PICK strange \in SUBSET Admin!Requests : strange = m.strange
  BY <1>0
<1>3. ASSUME NEW rec \in Calling, m' = [m EXCEPT !.req[q] = rec],
             rec.at = "queued" => /\ rec.op = "add" => rec.token \in Admin!Tokens
                                  /\ rec.op # "add" => rec.id \in Admin!Ids,
             rec.at = "validating" => rec.token \in Admin!Tokens
      PROVE  AdminInv'
  <2>1. Turns(q, rec, strange, m.models)
    <3>1. Turns(q, rec, m.strange, m.models)
      BY <1>3, TurnedAlone
    <3> QED
      BY <1>2, <3>1
  <2>2. strange \ {q} = m.strange \ {q} /\ q \notin strange
    BY <1>1, <1>2
  <2> QED
    BY <1>q, TurnStep, <1>3, <2>1, <2>2
<1>4. CASE fault # 0
  <2> DEFINE rec == Admin!Answers(fault)
  <2>2. rec \in Calling /\ rec.at = "done"
    BY AnswerDone
  <2>3. m' = [m EXCEPT !.req[q] = rec]
    <3>1. m.req[q].op \in {"none", "add", "remove", "validate"}
      BY <1>0 DEF Calling
    <3> HIDE DEF rec
    <3> QED
      BY <1>4 DEF Admin!Body, rec
  <2> HIDE DEF rec
  <2> QED
    BY <1>3, <2>2, <2>3
<1>5. CASE fault = 0 /\ m.req[q].op = "validate"
  <2> DEFINE rec == [m.req[q] EXCEPT !.at = "validating", !.token = token]
  <2>1. rec \in Calling /\ rec.at = "validating" /\ rec.token = token
    BY <1>0 DEF Calling, Slots
  <2>2. m' = [m EXCEPT !.req[q] = rec]
    BY <1>0, <1>5 DEF Admin!Body, AdminStates
  <2> HIDE DEF rec
  <2> QED
    BY <1>3, <2>1, <2>2
<1>6. CASE fault = 0 /\ m.req[q].op = "add"
  <2> DEFINE rec == [m.req[q] EXCEPT !.at = "queued", !.token = token]
  <2>1. rec \in Calling /\ rec.at = "queued" /\ rec.token = token /\ rec.op = "add"
    BY <1>0, <1>6 DEF Calling, Slots
  <2>2. m' = [m EXCEPT !.req[q] = rec]
    BY <1>0, <1>6 DEF Admin!Body, AdminStates
  <2> HIDE DEF rec
  <2> QED
    BY <1>3, <2>1, <2>2
<1>7. CASE fault = 0 /\ m.req[q].op \notin {"validate", "add"}
  <2> DEFINE rec == [m.req[q] EXCEPT !.at = "queued", !.id = id]
  <2>0. id \in Int
    BY IdsAreCounted DEF Admin!Ids
  <2>1. rec \in Calling /\ rec.at = "queued" /\ rec.id = id /\ rec.op = m.req[q].op
    BY <1>0, <2>0 DEF Calling
  <2>2. m' = [m EXCEPT !.req[q] = rec]
    BY <1>0, <1>7 DEF Admin!Body, AdminStates
  <2> HIDE DEF rec
  <2> QED
    BY <1>3, <1>7, <2>1, <2>2
<1> QED
  BY <1>4, <1>5, <1>6, <1>7

LEMMA CloseStep == ASSUME AdminInv, NEW q \in Admin!Requests, Admin!Closes(q) PROVE AdminInv'
<1>0. /\ m \in AdminStates /\ m.req \in Board /\ m.strange \in SUBSET Admin!Requests
      /\ m.models \in Shelf /\ m.req[q] \in Calling
  BY DEF AdminInv, AdminStates, Board
<1>q. q # m.owner
  BY DEF AdminInv, PoolInv, OneUnderWay, Admin!Closes, Admin!Requests
<1> DEFINE strange == m.strange \ {q}
<1>1. m' = [m EXCEPT !.req[q] = Admin!Ready, !.strange = strange]
  BY DEF Admin!Closes
<1>2. strange \in SUBSET Admin!Requests /\ strange \ {q} = m.strange \ {q} /\ q \notin strange
  BY <1>0
<1>3. Admin!Ready \in Calling /\ Admin!Ready.at = "idle"
  BY DEF Admin!Ready, Calling, Slots
<1> HIDE DEF strange
<1>4. Turns(q, Admin!Ready, strange, m.models)
  BY Zenon, <1>0, <1>1, <1>2, <1>3, Turned
<1> QED
  BY <1>q, <1>2, <1>3, <1>4, TurnStep

\* The end of a request that changes nothing of the pool.

LEMMA EndsWith ==
  ASSUME AdminInv, NEW q \in Admin!Requests, q # m.owner, q \notin m.strange, NEW code \in Int,
         NEW models \in Shelf,
         \A i \in Admin!Ids : \/ models[i] = m.models[i]
                              \/ m.pool[i] # Admin!NoToken /\ models[i] = m.pool[i],
         m' = [m EXCEPT !.req[q] = Admin!Answers(code), !.models = models]
  PROVE  AdminInv'
<1>0. m \in AdminStates /\ m.req \in Board /\ m.strange \in SUBSET Admin!Requests
  BY DEF AdminInv, AdminStates
<1>1. PICK strange \in SUBSET Admin!Requests : strange = m.strange
  BY <1>0
<1>2. Admin!Answers(code) \in Calling /\ Admin!Answers(code).at = "done"
  BY AnswerDone
<1>3. PICK rec \in Calling : rec = Admin!Answers(code)
  BY <1>2
<1>4. Turns(q, rec, strange, models)
  BY <1>1, <1>3, Turned
<1>5. rec.at = "done" /\ q \notin strange /\ strange \ {q} = m.strange \ {q}
  BY <1>1, <1>2, <1>3
<1> QED
  BY <1>4, <1>5, OthersStep

LEMMA ValidateStep ==
  ASSUME AdminInv, NEW q \in Admin!Requests, NEW ok \in BOOLEAN, Admin!Validated(q, ok)
  PROVE AdminInv'
<1>0. /\ m \in AdminStates /\ m.models \in Shelf /\ m.pool \in Shelf /\ m.checks \in CheckSet
      /\ m.req \in Board
  BY DEF AdminInv, AdminStates
<1> DEFINE wanted == m.req[q].token
           owners == {i \in Admin!Ids : m.pool[i] = wanted}
           owner == CHOOSE i \in owners : TRUE
           models == IF ok /\ owners # {} THEN Admin!Kept(m.models, owner, wanted) ELSE m.models
<1>1. m.req[q].at = "validating" /\ m' = [m EXCEPT !.req[q] = Admin!Answers(200), !.models = models]
  BY <1>0 DEF Admin!Validated, AdminStates
<1>2. wanted \in Admin!Tokens /\ q \notin m.strange /\ q # m.owner
  BY <1>1 DEF AdminInv, AsksAreWhole, Admin!StrangersStayOut, PoolInv, OneUnderWay, Admin!Requests
<1>3. wanted # Admin!NoToken /\ wanted \in Slots
  BY <1>2 DEF Admin!Tokens, Admin!NoToken, Slots
<1>4. owners # {} => owner \in Admin!Ids /\ m.pool[owner] = wanted
  OBVIOUS
<1> HIDE DEF owner, wanted
<1>5. models \in Shelf /\ \A i \in Admin!Ids : models[i] = m.models[i]
                                             \/ (m.pool[i] # Admin!NoToken /\ models[i] = m.pool[i])
  <2>1. CASE ok /\ owners # {}
    <3>1. models = [m.models EXCEPT ![owner] = wanted]
      BY <1>3, <1>4, <2>1 DEF Admin!Kept
    <3> QED
      BY <1>0, <1>3, <1>4, <2>1, <3>1 DEF Shelf
  <2>2. CASE ~(ok /\ owners # {})
    BY <1>0, <2>2
  <2> QED
    BY <2>1, <2>2
<1>6. PICK code \in Int : code = 200
  OBVIOUS
<1>7. m' = [m EXCEPT !.req[q] = Admin!Answers(code), !.models = models]
  BY <1>1, <1>6
<1> HIDE DEF models
<1> QED
  BY <1>2, <1>5, <1>7, EndsWith

LEMMA CheckStep ==
  ASSUME AdminInv, NEW id \in Admin!Ids, NEW token \in Admin!Tokens, NEW ok \in BOOLEAN,
         Admin!Checked(id, token, ok)
  PROVE  AdminInv'
<1>0. /\ m \in AdminStates /\ m.models \in Shelf /\ m.pool \in Shelf /\ m.checks \in CheckSet
      /\ m.req \in Board
  BY DEF AdminInv, AdminStates
<1> DEFINE checks == m.checks \ {<<id, token>>}
           models == IF ok THEN Admin!Kept(m.models, id, token) ELSE m.models
<1>1. <<id, token>> \in m.checks /\ m' = [m EXCEPT !.checks = checks, !.models = models]
  BY <1>0 DEF Admin!Checked, AdminStates
<1>2. id < m.next /\ m.pool[id] \in {Admin!NoToken, token}
          /\ m.durable[id] \in {Admin!NoToken, token}
  <2>1. PICK c \in m.checks : c = <<id, token>>
    BY <1>1
  <2>2. c[1] = id /\ c[2] = token
    BY <2>1
  <2> QED
    BY <2>2 DEF AdminInv, PoolInv, ChecksAreOwn
<1>3. token # Admin!NoToken /\ token \in Slots
  BY DEF Admin!Tokens, Admin!NoToken, Slots
<1>4. models \in Shelf /\ \A i \in Admin!Ids :
        models[i] = m.models[i] \/ (i = id /\ m.pool[i] # Admin!NoToken /\ models[i] = token)
  BY <1>0, <1>3 DEF Admin!Kept, Shelf
<1>5. checks \in CheckSet /\ checks \subseteq m.checks
  BY <1>0 DEF CheckSet
<1> HIDE DEF checks, models
<1>6. /\ m' \in AdminStates /\ m'.checks = checks /\ m'.models = models /\ m'.pool = m.pool
      /\ m'.durable = m.durable /\ m'.next = m.next /\ m'.owner = m.owner /\ m'.req = m.req
      /\ m'.strange = m.strange
  BY <1>0, <1>1, <1>4, <1>5 DEF AdminStates
<1>7. AsksAreWhole' /\ Admin!StrangersStayOut' /\ OneUnderWay' /\ Settled' /\ Distinct(m.pool)'
      /\ Distinct(m.durable)'
  BY <1>6 DEF AdminInv, AsksAreWhole, Admin!StrangersStayOut, PoolInv, OneUnderWay, Settled,
     Distinct
<1>8. ChecksAreOwn'
  BY <1>5, <1>6 DEF AdminInv, PoolInv, ChecksAreOwn
<1>9. Fresh'
  BY <1>4, <1>6 DEF AdminInv, PoolInv, Fresh
<1>10. Owned'
  BY <1>2, <1>4, <1>6 DEF AdminInv, PoolInv, Owned
<1> QED
  BY <1>6, <1>7, <1>8, <1>9, <1>10 DEF AdminInv, PoolInv

LEMMA MutateStep == ASSUME AdminInv, NEW q \in Admin!Requests, Admin!Mutates(q) PROVE AdminInv'
<1> DEFINE id == m.req[q].id
           token == m.req[q].token
<1>0. /\ m \in AdminStates /\ m.models \in Shelf /\ m.pool \in Shelf /\ m.durable \in Shelf
      /\ m.req \in Board /\ m.req[q] \in Calling /\ m.next \in Int /\ m.next >= 1
      /\ m.checks \in CheckSet
  BY DEF AdminInv, AdminStates, Board
<1>s. m.strange \in SUBSET Admin!Requests
  BY DEF AdminInv, AdminStates
<1>1. /\ m.req[q].at = "queued" /\ m.owner = "nobody" /\ q # "nobody"
      /\ (m.req[q].op = "add" => m.next <= MaxIds) /\ q \notin m.strange
      /\ (m.req[q].op = "add" => token \in Admin!Tokens)
      /\ (m.req[q].op # "add" => id \in Admin!Ids)
  BY DEF Admin!Mutates, AdminInv, AsksAreWhole, Admin!StrangersStayOut, Admin!Requests
<1>2. q # m.owner
  BY <1>1
\* Nothing to change.
<1>3. ASSUME NEW n \in {404, 409}, m' = [m EXCEPT !.req[q] = Admin!Answers(n)] PROVE AdminInv'
  <2>1. PICK code \in Int : code = n
    BY <1>3
  <2>2. PICK rec \in Calling : rec = Admin!Answers(n) /\ rec.at = "done"
    BY <2>1, AnswerDone
  <2>3. Turns(q, rec, m.strange, m.models)
    BY <1>3, <2>2, TurnedAlone
  <2> QED
    BY <1>s, <1>1, <1>2, <2>2, <2>3, TurnStep
\* Before the change the pool is what is durable.
<1>4. \A i \in Admin!Ids : m.pool[i] = m.durable[i]
  BY <1>1 DEF AdminInv, PoolInv, Settled
<1>5. CASE m.req[q].op = "add" /\ ~Admin!Twice(token)
  <2> DEFINE rec == [m.req[q] EXCEPT !.id = m.next]
             req == [m.req EXCEPT ![q] = rec]
             pool == [m.pool EXCEPT ![m.next] = token]
  <2>1. m.next \in Admin!Ids /\ token \in Admin!Tokens /\ token # Admin!NoToken /\ token \in Slots
    BY <1>0, <1>1, <1>5, IdsAreCounted DEF Admin!Ids, Admin!Tokens, Admin!NoToken, Slots
  <2>2. PICK next \in Int : next = m.next + 1
    BY <1>0
  <2>3. m' = [m EXCEPT !.pool = pool, !.req = req, !.next = next, !.owner = q]
    BY <1>0, <1>5, <2>2 DEF Admin!Mutates, AdminStates
  <2>4. rec \in Calling /\ rec.id = m.next /\ rec.at = "queued" /\ rec.op = "add"
            /\ rec.token = token
    BY <1>0, <1>1, <1>5 DEF Calling
  <2> HIDE DEF rec, token
  <2>5. req \in Board /\ req[q] = rec /\ \A o \in Admin!Requests \ {q} : req[o] = m.req[o]
    BY <1>0, <2>4 DEF Board
  <2>6. pool \in Shelf /\ pool[m.next] = token
            /\ \A i \in Admin!Ids : i # m.next => pool[i] = m.pool[i]
    BY <1>0, <2>1 DEF Shelf
  <2> HIDE DEF req, pool
  <2>7. /\ m' \in AdminStates /\ m'.pool = pool /\ m'.req = req /\ m'.next = next /\ m'.owner = q
        /\ m'.models = m.models /\ m'.durable = m.durable /\ m'.checks = m.checks
        /\ m'.strange = m.strange
    <3> DEFINE x == [m EXCEPT !.pool = pool, !.req = req]
    <3>1. /\ x \in AdminStates /\ x.pool = pool /\ x.req = req
          /\ x.models = m.models /\ x.durable = m.durable /\ x.checks = m.checks
          /\ x.strange = m.strange
      BY <1>0, <2>5, <2>6 DEF AdminStates
    <3>2. m' = [x EXCEPT !.next = next, !.owner = q]
      BY <2>3
    <3> HIDE DEF x
    <3> QED
      BY <3>1, <3>2 DEF AdminStates
  <2>8. AsksAreWhole' /\ Admin!StrangersStayOut'
    <3>1. AsksAreWhole'
      BY <2>1, <2>4, <2>5, <2>7 DEF AdminInv, AsksAreWhole
    <3>2. Admin!StrangersStayOut'
      BY <1>s, <1>1, <2>5, <2>7 DEF AdminInv, Admin!StrangersStayOut
    <3> QED
      BY <3>1, <3>2
  <2>9. m.durable[m.next] = Admin!NoToken /\ m.models[m.next] = Admin!NoToken
    BY <1>0, <2>1 DEF AdminInv, PoolInv, Fresh
  <2>10. OneUnderWay'
    <3>1. m.next < next
      BY <1>0, <2>2
    <3> QED
      BY <2>1, <2>4, <2>5, <2>6, <2>7, <2>9, <3>1 DEF OneUnderWay
  <2>11. Distinct(m.pool)' /\ Distinct(m.durable)'
    <3>1. \A i \in Admin!Ids : m.pool[i] # token
      BY <1>5 DEF Admin!Twice, Admin!Held, token
    <3> QED
      BY <2>1, <2>6, <2>7, <3>1 DEF AdminInv, PoolInv, Distinct
  <2>12. Fresh'
    <3>1. \A i \in Admin!Ids : i \in Int /\ (i >= next => i >= m.next /\ i # m.next)
      BY <1>0, <2>2, IdsAreCounted DEF Admin!Ids
    <3> QED
      BY <2>6, <2>7, <3>1 DEF AdminInv, PoolInv, Fresh
  <2>13. Settled'
    BY <1>1, <1>4, <2>4, <2>5, <2>6, <2>7 DEF Settled
  <2>14. Owned'
    BY <2>6, <2>7, <2>9 DEF AdminInv, PoolInv, Owned
  <2>15. ChecksAreOwn'
    <3> SUFFICES ASSUME NEW c \in m.checks
                 PROVE  /\ c[1] < next /\ pool[c[1]] \in {Admin!NoToken, c[2]}
                        /\ m.durable[c[1]] \in {Admin!NoToken, c[2]}
      BY <2>7 DEF ChecksAreOwn
    <3>1. /\ c[1] < m.next /\ m.pool[c[1]] \in {Admin!NoToken, c[2]}
          /\ m.durable[c[1]] \in {Admin!NoToken, c[2]}
      BY DEF AdminInv, PoolInv, ChecksAreOwn
    <3>2. c[1] \in Admin!Ids
      BY <1>0 DEF CheckSet
    <3>3. c[1] \in Int
      BY <3>2, IdsAreCounted DEF Admin!Ids
    <3>4. c[1] < next /\ c[1] # m.next
      BY <1>0, <2>2, <3>1, <3>3
    <3> QED
      BY <2>6, <3>1, <3>2, <3>4
  <2>16. m'.next >= 1
    BY <1>0, <2>2, <2>7
  <2> QED
    BY <2>7, <2>8, <2>10, <2>11, <2>12, <2>13, <2>14, <2>15, <2>16 DEF AdminInv, PoolInv
<1>6. CASE m.req[q].op # "add" /\ m.pool[id] # Admin!NoToken
  <2> DEFINE pool == [m.pool EXCEPT ![id] = Admin!NoToken]
  <2>1. m' = [m EXCEPT !.pool = pool, !.owner = q]
    BY <1>0, <1>6 DEF Admin!Mutates, AdminStates
  <2>2. id \in Admin!Ids /\ id \in Int
    BY <1>1, <1>6, IdsAreCounted DEF Admin!Ids
  <2> HIDE DEF id
  <2>3. pool \in Shelf /\ pool[id] = Admin!NoToken
            /\ \A i \in Admin!Ids : i # id => pool[i] = m.pool[i]
    BY <1>0, <2>2 DEF Shelf, Slots
  <2>4. \A i \in Admin!Ids : pool[i] = m.pool[i] \/ pool[i] = Admin!NoToken
    BY <2>3
  <2> HIDE DEF pool
  <2>5. /\ m' \in AdminStates /\ m'.pool = pool /\ m'.req = m.req /\ m'.next = m.next
        /\ m'.owner = q
        /\ m'.models = m.models /\ m'.durable = m.durable /\ m'.checks = m.checks
        /\ m'.strange = m.strange
    BY <1>0, <2>1, <2>3 DEF AdminStates
  <2>6. id < m.next
    BY <1>0, <1>6, <2>2 DEF AdminInv, PoolInv, Fresh
  <2>7. m.durable[id] # Admin!NoToken
    BY <1>4, <1>6, <2>2
  <2>8. OneUnderWay'
    BY <1>1, <1>6, <2>2, <2>3, <2>5, <2>6, <2>7 DEF OneUnderWay, id
  <2>9. AsksAreWhole' /\ Admin!StrangersStayOut'
    BY <2>5 DEF AdminInv, AsksAreWhole, Admin!StrangersStayOut
  <2>10. Distinct(m.pool)' /\ Distinct(m.durable)'
    BY <2>4, <2>5 DEF AdminInv, PoolInv, Distinct
  <2>11. Fresh'
    BY <2>4, <2>5 DEF AdminInv, PoolInv, Fresh
  <2>12. Settled'
    BY <1>1, <1>4, <2>3, <2>5 DEF Settled, id
  <2>13. Owned'
    BY <2>4, <2>5 DEF AdminInv, PoolInv, Owned
  <2>14. ChecksAreOwn'
    <3> SUFFICES ASSUME NEW c \in m.checks PROVE pool[c[1]] \in {Admin!NoToken, c[2]}
      BY <2>5 DEF AdminInv, PoolInv, ChecksAreOwn
    <3>1. c[1] \in Admin!Ids
      BY <1>0 DEF CheckSet
    <3> QED
      BY <2>4, <3>1 DEF AdminInv, PoolInv, ChecksAreOwn
  <2> QED
    BY <1>0, <2>5, <2>8, <2>9, <2>10, <2>11, <2>12, <2>13, <2>14 DEF AdminInv, PoolInv
<1>7. CASE m.req[q].op = "add" /\ Admin!Twice(token)
  <2>1. m' = [m EXCEPT !.req[q] = Admin!Answers(409)]
    BY <1>7 DEF Admin!Mutates
  <2> QED
    BY <1>3, <2>1
<1>8. CASE m.req[q].op # "add" /\ m.pool[id] = Admin!NoToken
  <2>1. m' = [m EXCEPT !.req[q] = Admin!Answers(404)]
    BY <1>8 DEF Admin!Mutates
  <2> QED
    BY <1>3, <2>1
<1> QED
  BY <1>5, <1>6, <1>7, <1>8

LEMMA PersistStep ==
  ASSUME AdminInv, NEW q \in Admin!Requests, NEW ok \in BOOLEAN, Admin!Persisted(q, ok)
  PROVE AdminInv'
<1> DEFINE id == m.req[q].id
           token == m.req[q].token
           add == m.req[q].op = "add"
           pool == IF ok THEN m.pool ELSE [m.pool EXCEPT ![id] = m.durable[id]]
           durable == IF ok THEN [m.durable EXCEPT ![id] = m.pool[id]] ELSE m.durable
           models == [m.models EXCEPT ![id] =
                        IF (ok /\ add) \/ (~ok /\ m.durable[id] # Admin!NoToken)
                        THEN m.models[id] ELSE Admin!NoToken]
           checks == IF ok /\ add THEN m.checks \cup {<<id, token>>} ELSE m.checks
<1>0. /\ m \in AdminStates /\ m.models \in Shelf /\ m.pool \in Shelf /\ m.durable \in Shelf
      /\ m.req \in Board /\ m.req[q] \in Calling /\ m.next \in Int /\ m.next >= 1
      /\ m.checks \in CheckSet
  BY DEF AdminInv, AdminStates, Board
<1>s. m.strange \in SUBSET Admin!Requests
  BY DEF AdminInv, AdminStates
<1>1. /\ m.owner = q /\ q # "nobody" /\ id \in Admin!Ids /\ id < m.next /\ q \notin m.strange
      /\ add => token \in Admin!Tokens /\ m.pool[id] = token /\ m.durable[id] = Admin!NoToken
      /\ ~add => m.pool[id] = Admin!NoToken /\ m.durable[id] # Admin!NoToken
  BY DEF Admin!Persisted, AdminInv, PoolInv, OneUnderWay, Admin!StrangersStayOut, Admin!Requests
<1>2. \A i \in Admin!Ids : i # id => m.pool[i] = m.durable[i]
  BY <1>1 DEF AdminInv, PoolInv, Settled
<1> DEFINE code == IF ok THEN (IF add THEN 201 ELSE 200) ELSE 503
           req == [m.req EXCEPT ![q] = Admin!Answers(code)]
<1>3. m' = IF ok THEN [m EXCEPT !.durable = durable, !.owner = "nobody", !.req = req,
                                !.models = models, !.checks = checks]
           ELSE [m EXCEPT !.pool = pool, !.models = models, !.owner = "nobody", !.req = req]
  <2>1. CASE ok /\ add
    BY <2>1 DEF Admin!Persisted
  <2>2. CASE ok /\ ~add
    <3>1. m' = [m EXCEPT !.durable[id] = m.pool[id], !.owner = "nobody",
                         !.req[q] = Admin!Answers(200),
                         !.models[id] = Admin!NoToken, !.checks = m.checks]
      BY <1>0, <2>2 DEF Admin!Persisted, AdminStates
    <3>2. code = 200 /\ checks = m.checks /\ models = [m.models EXCEPT ![id] = Admin!NoToken]
          /\ durable = [m.durable EXCEPT ![id] = m.pool[id]]
      BY <2>2
    <3>3. m' = [m EXCEPT !.durable = [m.durable EXCEPT ![id] = m.pool[id]], !.owner = "nobody",
                         !.req = [m.req EXCEPT ![q] = Admin!Answers(200)],
                         !.models = [m.models EXCEPT ![id] = Admin!NoToken], !.checks = m.checks]
      BY <3>1
    <3>4. req = [m.req EXCEPT ![q] = Admin!Answers(200)]
      BY <3>2
    <3> HIDE DEF code, checks, models, durable, req
    <3> QED
      BY Zenon, <2>2, <3>2, <3>3, <3>4
  <2>3. CASE ~ok
    <3>1. Admin!Undone(q) = [m EXCEPT !.pool = pool, !.models = models]
      BY <2>3 DEF Admin!Undone
    <3>2. m' = [Admin!Undone(q) EXCEPT !.owner = "nobody", !.req[q] = Admin!Answers(503)]
      BY <2>3 DEF Admin!Persisted
    <3>3. [m EXCEPT !.pool = pool, !.models = models].req = m.req
      <4> HIDE DEF pool, models
      <4> QED
        BY <1>0 DEF AdminStates
    <3> QED
      BY <2>3, <3>1, <3>2, <3>3
  <2> QED
    BY <2>1, <2>2, <2>3
<1> HIDE DEF add
<1>4. /\ pool \in Shelf /\ durable \in Shelf /\ models \in Shelf
      /\ \A i \in Admin!Ids : /\ pool[i] = durable[i]
                              /\ i # id => /\ pool[i] = m.pool[i] /\ durable[i] = m.durable[i]
                                           /\ models[i] = m.models[i]
  BY <1>0, <1>1, <1>2 DEF Shelf, Slots
<1>5. /\ pool[id] = m.pool[id] \/ pool[id] = m.durable[id]
      /\ ok => pool[id] = m.pool[id]
      /\ models[id] # Admin!NoToken => models[id] = m.models[id] /\ (ok => add)
                                   /\ (~ok => m.durable[id] # Admin!NoToken)
  BY <1>0, <1>1 DEF Shelf
<1>6. checks \in CheckSet /\ \A c \in checks : c \in m.checks \/ (ok /\ add /\ c = <<id, token>>)
  BY <1>0, <1>1 DEF CheckSet
<1>7. Admin!Answers(code) \in Calling /\ Admin!Answers(code).at = "done"
  <2>1. code \in Int
    OBVIOUS
  <2> QED
    BY <2>1, AnswerDone
<1> HIDE DEF code
<1>8. req \in Board /\ req[q] = Admin!Answers(code)
          /\ \A o \in Admin!Requests \ {q} : req[o] = m.req[o]
  BY <1>0, <1>7 DEF Board
<1>9. (ok => pool = m.pool) /\ (~ok => durable = m.durable /\ checks = m.checks)
  OBVIOUS
<1> HIDE DEF pool, durable, models, checks, req, token
<1>10. /\ m' \in AdminStates /\ m'.pool = pool /\ m'.durable = durable /\ m'.models = models
       /\ m'.owner = "nobody" /\ m'.req = req /\ m'.checks = checks /\ m'.next = m.next
       /\ m'.strange = m.strange
  <2>1. CASE ok
    <3> DEFINE x == [m EXCEPT !.durable = durable, !.owner = "nobody", !.req = req]
    <3>1. /\ x \in AdminStates /\ x.pool = m.pool /\ x.durable = durable /\ x.owner = "nobody"
          /\ x.req = req /\ x.next = m.next /\ x.strange = m.strange
      BY <1>0, <1>4, <1>8 DEF AdminStates
    <3>2. m' = [x EXCEPT !.models = models, !.checks = checks]
      BY <1>3, <2>1
    <3> HIDE DEF x
    <3> QED
      BY <1>4, <1>6, <1>9, <2>1, <3>1, <3>2 DEF AdminStates
  <2>2. CASE ~ok
    <3> DEFINE x == [m EXCEPT !.pool = pool, !.models = models]
    <3>1. /\ x \in AdminStates /\ x.pool = pool /\ x.durable = m.durable /\ x.models = models
          /\ x.next = m.next /\ x.strange = m.strange /\ x.checks = m.checks
      BY <1>0, <1>4 DEF AdminStates
    <3>2. m' = [x EXCEPT !.owner = "nobody", !.req = req]
      BY <1>3, <2>2
    <3> HIDE DEF x
    <3> QED
      BY <1>8, <1>9, <2>2, <3>1, <3>2 DEF AdminStates
  <2> QED
    BY <2>1, <2>2
<1>11. AsksAreWhole' /\ Admin!StrangersStayOut'
  <2>1. AsksAreWhole'
    BY <1>7, <1>8, <1>10 DEF AdminInv, AsksAreWhole
  <2>2. Admin!StrangersStayOut'
    BY <1>s, <1>1, <1>8, <1>10 DEF AdminInv, Admin!StrangersStayOut
  <2> QED
    BY <2>1, <2>2
<1>12. OneUnderWay' /\ Settled'
  BY <1>4, <1>10 DEF OneUnderWay, Settled
<1>13. Distinct(pool)
  <2>1. CASE ok
    <3>1. \A i \in Admin!Ids : pool[i] = m.pool[i]
      BY <1>4, <1>5, <2>1
    <3> QED
      BY <3>1 DEF AdminInv, PoolInv, Distinct
  <2>2. CASE ~ok
    <3>1. \A i \in Admin!Ids : pool[i] = m.durable[i]
      BY <1>1, <1>2, <1>4, <1>0, <2>2 DEF pool, Shelf
    <3> QED
      BY <3>1 DEF AdminInv, PoolInv, Distinct
  <2> QED
    BY <2>1, <2>2
<1>14. Distinct(m.pool)' /\ Distinct(m.durable)'
  BY <1>4, <1>10, <1>13 DEF Distinct
<1>15. Fresh'
  <2>1. \A i \in Admin!Ids : i \in Int
    BY IdsAreCounted DEF Admin!Ids
  <2>2. \A i \in Admin!Ids : i >= m.next => i # id
    BY <1>0, <1>1, <2>1
  <2> QED
    BY <1>4, <1>10, <2>2 DEF AdminInv, PoolInv, Fresh
<1>16. Owned'
  <2> SUFFICES ASSUME NEW i \in Admin!Ids, models[i] # Admin!NoToken
               PROVE  pool[i] # Admin!NoToken => models[i] = pool[i]
    BY <1>4, <1>10 DEF Owned
  <2>1. CASE i # id
    BY <1>4, <2>1 DEF AdminInv, PoolInv, Owned
  <2>2. CASE i = id
    <3>1. models[id] = m.models[id]
      BY <1>5, <2>2
    <3> QED
      BY <1>1, <1>5, <2>2, <3>1 DEF AdminInv, PoolInv, Owned
  <2> QED
    BY <2>1, <2>2
<1>17. ChecksAreOwn'
  <2> SUFFICES ASSUME NEW c \in checks PROVE c[1] < m.next /\ pool[c[1]] \in {Admin!NoToken, c[2]}
    <3>1. \A c \in checks : c[1] \in Admin!Ids
      BY <1>6 DEF CheckSet
    <3> QED
      BY <1>4, <1>10, <3>1 DEF ChecksAreOwn
  <2>1. CASE c \in m.checks
    <3>1. c[1] \in Admin!Ids
      BY <1>0, <2>1 DEF CheckSet
    <3> QED
      BY <1>4, <1>5, <2>1, <3>1 DEF AdminInv, PoolInv, ChecksAreOwn
  <2>2. CASE ok /\ add /\ c = <<id, token>>
    <3>1. c[1] = id /\ c[2] = token
      BY <2>2
    <3> QED
      BY <1>1, <1>5, <2>2, <3>1
  <2> QED
    BY <1>6, <2>1, <2>2
<1> QED
  BY <1>0, <1>10, <1>11, <1>12, <1>14, <1>15, <1>16, <1>17 DEF AdminInv, PoolInv

LEMMA AdminStep == ASSUME AdminInv, [Admin!Next]_m PROVE AdminInv'
<1>1. CASE UNCHANGED m
  BY <1>1 DEF AdminInv, AsksAreWhole, Admin!StrangersStayOut, PoolInv, Distinct, Fresh, Settled,
     Owned,
              ChecksAreOwn, OneUnderWay
<1>2. ASSUME NEW q \in Admin!Requests, NEW op \in {"add", "remove", "validate"},
             NEW call \in [origin : BOOLEAN, known : BOOLEAN, token : BOOLEAN],
             Admin!Calls(q, call, op)
      PROVE  AdminInv'
  BY Zenon, <1>2, CallStep
<1>3. ASSUME NEW q \in Admin!Requests, NEW fault \in {0, 400}, NEW token \in Admin!Tokens,
             NEW id \in Admin!Ids,
             Admin!Body(q, fault, token, id)
      PROVE  AdminInv'
  BY Zenon, <1>3, BodyStep
<1>4. ASSUME NEW q \in Admin!Requests, Admin!Mutates(q) \/ Admin!Closes(q) PROVE AdminInv'
  BY <1>4, MutateStep, CloseStep
<1>5. ASSUME NEW q \in Admin!Requests, NEW ok \in BOOLEAN,
             Admin!Persisted(q, ok) \/ Admin!Validated(q, ok)
      PROVE  AdminInv'
  BY <1>5, PersistStep, ValidateStep
<1>6. ASSUME NEW id \in Admin!Ids, NEW token \in Admin!Tokens, NEW ok \in BOOLEAN,
             Admin!Checked(id, token, ok)
      PROVE  AdminInv'
  BY <1>6, CheckStep
<1> QED
  BY <1>1, <1>2, <1>3, <1>4, <1>5, <1>6 DEF Admin!Next

LEMMA AdminExact == AdminInv => Admin!AdminIsExact
BY DEF AdminInv, PoolInv, Admin!AdminIsExact, Admin!PoolIsAcknowledged, Admin!ModelsAreItsOwn,
   Distinct, Settled, Owned

-----------------------------------------------------------------------------
(* The child process: what it says it has saved, it has                       *)

ChildStates ==
  [http : BOOLEAN, admin : BOOLEAN, tokens : BOOLEAN, ready : BOOLEAN, channel : BOOLEAN,
   stopping : BOOLEAN, ending : {"no", "startup", "fatal"},
   exit : {"no", "drained", "startup", "fatal"}, unsaved : SUBSET Child!Sinks,
   timers : SUBSET Child!Sinks,
   mutation : {"none", "pending", "rejected"}, deferred : BOOLEAN, work : Int,
   suppressed : Int, held : BOOLEAN, late : BOOLEAN]

\* A child that could not bind does not listen; the channel is open until the stop.
ChildInv ==
  /\ m \in ChildStates
  /\ m.ending = "startup" => ~m.http /\ ~m.ready
  /\ m.channel = ~m.stopping
  /\ Child!StopFlushes /\ Child!SaveIsPending

\* What saving leaves alone.
Fixed(s, t) ==
  /\ t \in ChildStates
  /\ t.http = s.http /\ t.ready = s.ready /\ t.channel = s.channel /\ t.stopping = s.stopping
  /\ t.ending = s.ending /\ t.exit = s.exit /\ t.held = s.held /\ t.late = s.late

LEMMA ChildStart == Child!Init => ChildInv
<1> SUFFICES ASSUME Child!Init PROVE ChildInv
  OBVIOUS
<1>1. PICK bound \in BOOLEAN :
        m = [http |-> bound, admin |-> bound, tokens |-> FALSE, ready |-> FALSE,
             channel |-> TRUE, stopping |-> FALSE, ending |-> IF bound THEN "no" ELSE "startup",
             exit |-> "no", unsaved |-> {"log"}, timers |-> {"log"},
             mutation |-> "none", deferred |-> FALSE, work |-> 0, suppressed |-> 0,
             held |-> FALSE, late |-> FALSE]
  BY DEF Child!Init
<1>2. PICK ending \in {"no", "startup", "fatal"} : ending = IF bound THEN "no" ELSE "startup"
  OBVIOUS
<1>3. m \in ChildStates
  BY <1>1, <1>2 DEF ChildStates, Child!Sinks
<1>4. /\ m.http = bound /\ ~m.ready /\ m.channel /\ ~m.stopping /\ m.ending = ending
      /\ m.unsaved = {"log"} /\ m.timers = {"log"}
  BY <1>1, <1>2
<1> QED
  BY <1>2, <1>3, <1>4 DEF ChildInv, Child!StopFlushes, Child!SaveIsPending

LEMMA KeysSaved ==
  ASSUME NEW s \in ChildStates, NEW t, t = Child!SaveKeys(s)
  PROVE  /\ Fixed(s, t) /\ t.timers = s.timers /\ t.mutation = s.mutation
         /\ s.mutation = "pending" => t.unsaved = s.unsaved /\ t.deferred
         /\ s.mutation # "pending" =>
              /\ t.deferred = s.deferred
              /\ t.unsaved = IF s.channel THEN s.unsaved \ {"keys"} ELSE s.unsaved
<1>1. CASE s.mutation = "pending"
  <2>1. t = [s EXCEPT !.deferred = TRUE]
    BY <1>1 DEF Child!SaveKeys
  <2> QED
    BY <1>1, <2>1 DEF ChildStates, Fixed
<1>2. CASE s.mutation # "pending" /\ s.channel
  <2>0. PICK left \in SUBSET Child!Sinks : left = s.unsaved \ {"keys"}
    BY DEF ChildStates
  <2>1. t = [s EXCEPT !.unsaved = left]
    BY <1>2, <2>0 DEF Child!SaveKeys
  <2>2. t \in ChildStates /\ t.unsaved = left
    BY <2>1 DEF ChildStates
  <2> QED
    BY <1>2, <2>0, <2>1, <2>2 DEF ChildStates, Fixed
<1>3. CASE s.mutation # "pending" /\ ~s.channel
  <2>1. t = s
    BY <1>3 DEF Child!SaveKeys
  <2> QED
    BY <1>3, <2>1 DEF ChildStates, Fixed
<1> QED
  BY <1>1, <1>2, <1>3

LEMMA LogSaved ==
  ASSUME NEW s \in ChildStates, NEW works \in BOOLEAN, NEW t, t = Child!SaveLog(s, works)
  PROVE  /\ Fixed(s, t) /\ t.timers = s.timers /\ t.mutation = s.mutation
         /\ t.deferred = s.deferred /\ t.unsaved = s.unsaved \ {"log"}
<1>1. CASE "log" \notin s.unsaved
  BY <1>1 DEF Child!SaveLog, ChildStates, Fixed
<1>2. CASE "log" \in s.unsaved
  <2>0. PICK n \in Int : n = IF works THEN 0 ELSE 1
    OBVIOUS
  <2>1. PICK left \in SUBSET Child!Sinks : left = s.unsaved \ {"log"}
    BY DEF ChildStates
  <2>2. t = [s EXCEPT !.unsaved = left, !.suppressed = n]
    BY <1>2, <2>0, <2>1 DEF Child!SaveLog
  <2>3. t \in ChildStates /\ t.unsaved = left
    BY <2>2 DEF ChildStates
  <2> QED
    BY <1>2, <2>1, <2>2, <2>3 DEF ChildStates, Fixed
<1> QED
  BY <1>1, <1>2

LEMMA Saved ==
  ASSUME NEW s \in ChildStates, NEW sink \in Child!Sinks, NEW works \in BOOLEAN,
         NEW t, t = Child!Save(s, sink, works)
  PROVE  /\ Fixed(s, t) /\ t.timers = s.timers \ {sink} /\ t.mutation = s.mutation
         /\ s.deferred => t.deferred
         /\ t.unsaved = s.unsaved \ {sink} \/ (sink = "keys" /\ t.unsaved = s.unsaved)
         /\ sink = "keys" /\ "keys" \in t.unsaved =>
              (s.mutation = "pending" /\ t.deferred) \/ ~s.channel
<1> DEFINE q == [s EXCEPT !.timers = s.timers \ {sink}]
<1>1. /\ Fixed(s, q) /\ q.timers = s.timers \ {sink} /\ q.mutation = s.mutation
      /\ q.unsaved = s.unsaved /\ q.deferred = s.deferred
  BY DEF ChildStates, Fixed
<1>2. q \in ChildStates
  BY <1>1 DEF Fixed
<1>3. CASE sink = "keys"
  <2>1. t = Child!SaveKeys(q)
    BY <1>3 DEF Child!Save
  <2> HIDE DEF q
  <2> QED
    <3>1. /\ Fixed(q, t) /\ t.timers = q.timers /\ t.mutation = q.mutation
          /\ q.mutation = "pending" => t.unsaved = q.unsaved /\ t.deferred
          /\ q.mutation # "pending" =>
               /\ t.deferred = q.deferred
               /\ t.unsaved = IF q.channel THEN q.unsaved \ {"keys"} ELSE q.unsaved
      BY <1>2, <2>1, KeysSaved
    <3> QED
      BY <1>1, <1>3, <3>1 DEF Fixed
<1>4. CASE sink = "routing"
  <2>1. t = IF "routing" \in q.unsaved THEN Child!SaveRouting(q) ELSE q
    BY <1>4 DEF Child!Save
  <2> HIDE DEF q
  <2>2. CASE "routing" \in q.unsaved
    <3>1. t = [q EXCEPT !.unsaved = q.unsaved \ {"routing"}]
      BY <2>1, <2>2 DEF Child!SaveRouting
    <3>2. /\ Fixed(q, t) /\ t.timers = q.timers /\ t.mutation = q.mutation
          /\ t.unsaved = q.unsaved \ {"routing"} /\ t.deferred = q.deferred
      BY <1>2, <3>1 DEF ChildStates, Fixed
    <3> QED
      BY <1>1, <1>4, <3>2 DEF Fixed
  <2>3. CASE "routing" \notin q.unsaved
    BY <1>1, <1>4, <2>1, <2>3 DEF Fixed
  <2> QED
    BY <2>2, <2>3
<1>5. CASE sink = "log"
  <2>1. t = Child!SaveLog(q, works)
    BY <1>5 DEF Child!Save
  <2> HIDE DEF q
  <2> QED
    BY <1>1, <1>2, <1>5, <2>1, LogSaved DEF Fixed
<1> QED
  BY <1>3, <1>4, <1>5 DEF Child!Sinks

\* The keys that a flush could not send wait for a mutation, or the channel is gone.

LEMMA FlushSaves ==
  ASSUME NEW s \in ChildStates, NEW works \in BOOLEAN, NEW t, t = Child!Flushed(s, works)
  PROVE  /\ Fixed(s, t) /\ t.mutation = s.mutation /\ t.unsaved \subseteq s.unsaved
         /\ "routing" \notin t.unsaved
         /\ "keys" \in t.unsaved => s.mutation = "pending" \/ ~s.channel
<1> DEFINE k == Child!Save(s, "keys", works)
           l == Child!Save(k, "routing", works)
<1>1. t = Child!Save(l, "log", works)
  BY DEF Child!Flushed
<1>2. "keys" \in Child!Sinks /\ "routing" \in Child!Sinks /\ "log" \in Child!Sinks
  BY DEF Child!Sinks
<1>3. /\ Fixed(s, k) /\ k.mutation = s.mutation /\ k.unsaved \subseteq s.unsaved
      /\ "keys" \in k.unsaved => s.mutation = "pending" \/ ~s.channel
  <2>1. k = Child!Save(s, "keys", works)
    OBVIOUS
  <2> HIDE DEF k
  <2> QED
    BY <1>2, <2>1, Saved
<1>4. k \in ChildStates
  BY <1>3 DEF Fixed
<1>5. Fixed(k, l) /\ l.mutation = k.mutation /\ l.unsaved = k.unsaved \ {"routing"}
  <2>1. l = Child!Save(k, "routing", works)
    OBVIOUS
  <2> HIDE DEF k, l
  <2> QED
    BY <1>2, <1>4, <2>1, Saved
<1> HIDE DEF k, l
<1>6. l \in ChildStates
  BY <1>5 DEF Fixed
<1>7. Fixed(l, t) /\ t.mutation = l.mutation /\ t.unsaved = l.unsaved \ {"log"}
  BY <1>1, <1>2, <1>6, Saved
<1> QED
  BY <1>3, <1>5, <1>7 DEF Fixed

LEMMA Changed ==
  ASSUME NEW s \in ChildStates, NEW S \in SUBSET Child!Sinks, NEW t, t = Child!Changes(s, S)
  PROVE  /\ Fixed(s, t) /\ t.timers = s.timers \cup S /\ t.mutation = s.mutation
         /\ t.unsaved = s.unsaved \cup S /\ t.deferred = s.deferred
<1> DEFINE u == s.unsaved \cup S
           w == s.timers \cup S
<1>1. t = [s EXCEPT !.unsaved = u, !.timers = w]
  BY DEF Child!Changes
<1>2. u \in SUBSET Child!Sinks /\ w \in SUBSET Child!Sinks
  BY DEF ChildStates
<1>3. ASSUME NEW f \in SUBSET Child!Sinks, NEW g \in SUBSET Child!Sinks,
             t = [s EXCEPT !.unsaved = f, !.timers = g]
      PROVE  /\ Fixed(s, t) /\ t.timers = g /\ t.mutation = s.mutation
             /\ t.unsaved = f /\ t.deferred = s.deferred
  BY <1>3 DEF ChildStates, Fixed
<1> QED
  BY Zenon, <1>1, <1>2, <1>3

LEMMA WorkStep ==
  ASSUME ChildInv, NEW sink \in Child!Sinks, NEW works \in BOOLEAN,
         NEW kind \in {"success", "limited", "verdict"},
         NEW acknowledged \in BOOLEAN,
         Child!TimerFires(sink, works) \/ Child!Serves(kind) \/ Child!Mutates
             \/ Child!Settles(acknowledged) \/ Child!Breaks(works)
  PROVE  ChildInv'
<1>0. m \in ChildStates
  BY DEF ChildInv
<1>1. CASE Child!TimerFires(sink, works)
  <2>1. m' = Child!Save(m, sink, works) /\ Child!Up
    BY <1>1 DEF Child!TimerFires
  <2>2. /\ Fixed(m, m') /\ m'.timers = m.timers \ {sink} /\ (m.deferred => m'.deferred)
        /\ m'.unsaved = m.unsaved \ {sink} \/ (sink = "keys" /\ m'.unsaved = m.unsaved)
        /\ sink = "keys" /\ "keys" \in m'.unsaved =>
             (m.mutation = "pending" /\ m'.deferred) \/ ~m.channel
    BY <1>0, <2>1, Saved
  <2> QED
    BY <2>1, <2>2 DEF ChildInv, Fixed, Child!StopFlushes, Child!SaveIsPending, Child!Up
<1>2. CASE Child!Serves(kind)
  <2> DEFINE s == [m EXCEPT !.work = m.work + 1, !.late = m.late \/ m.stopping]
  <2>1. /\ s \in ChildStates /\ s.late = (m.late \/ m.stopping)
        /\ s.http = m.http /\ s.ready = m.ready /\ s.channel = m.channel /\ s.stopping = m.stopping
        /\ s.ending = m.ending /\ s.exit = m.exit /\ s.held = m.held
        /\ s.unsaved = m.unsaved /\ s.timers = m.timers /\ s.mutation = m.mutation
        /\ s.deferred = m.deferred
    <3>1. PICK late \in BOOLEAN : late = (m.late \/ m.stopping)
      OBVIOUS
    <3>2. PICK work \in Int : work = m.work + 1
      BY <1>0 DEF ChildStates
    <3>3. s = [m EXCEPT !.work = work, !.late = late]
      BY <3>1, <3>2
    <3> HIDE DEF s
    <3>4. /\ s \in ChildStates /\ s.late = late
          /\ s.http = m.http /\ s.ready = m.ready /\ s.channel = m.channel
          /\ s.stopping = m.stopping /\ s.ending = m.ending /\ s.exit = m.exit
          /\ s.held = m.held /\ s.unsaved = m.unsaved /\ s.timers = m.timers
          /\ s.mutation = m.mutation /\ s.deferred = m.deferred
      BY <1>0, <3>3 DEF ChildStates
    <3> QED
      BY <3>1, <3>4
  <2>2. Child!Up /\ m' = CASE kind = "success" -> Child!Changes(s, Child!Sinks)
                        [] kind = "limited" -> Child!Changes(s, {"routing", "log"})
                        [] kind = "verdict" ->
                             Child!SaveKeys(Child!Changes([s EXCEPT !.unsaved = @ \cup {"keys"}],
                                                          {"log"}))
    BY <1>2 DEF Child!Serves
  <2> HIDE DEF s
  <2>3. Child!Sinks \in SUBSET Child!Sinks /\ {"routing", "log"} \in SUBSET Child!Sinks
            /\ {"log"} \in SUBSET Child!Sinks
    BY DEF Child!Sinks
  <2>4. ASSUME NEW S \in SUBSET Child!Sinks, m' = Child!Changes(s, S) PROVE ChildInv'
    <3>1. /\ Fixed(s, m') /\ m'.timers = s.timers \cup S /\ m'.unsaved = s.unsaved \cup S
          /\ m'.deferred = s.deferred
      BY <2>1, <2>4, Changed
    <3>2. /\ m' \in ChildStates /\ m'.http = m.http /\ m'.ready = m.ready /\ m'.channel = m.channel
          /\ m'.stopping = m.stopping /\ m'.ending = m.ending /\ m'.exit = m.exit
          /\ m'.held = m.held /\ m'.late = (m.late \/ m.stopping)
          /\ m'.timers = m.timers \cup S /\ m'.unsaved = m.unsaved \cup S
          /\ m'.deferred = m.deferred
      BY <2>1, <3>1 DEF Fixed
    <3>3. Child!StopFlushes'
      BY <2>2, <3>2 DEF ChildInv, Child!StopFlushes, Child!Up
    <3>4. Child!SaveIsPending'
      BY <2>2, <3>2 DEF ChildInv, Child!SaveIsPending, Child!Up
    <3> QED
      BY <3>2, <3>3, <3>4 DEF ChildInv
  <2>5. CASE kind = "verdict"
    <3> DEFINE k == [s EXCEPT !.unsaved = s.unsaved \cup {"keys"}]
               l == Child!Changes(k, {"log"})
    <3>1. Fixed(s, k) /\ k.unsaved = s.unsaved \cup {"keys"} /\ k.timers = s.timers
          /\ k.mutation = s.mutation /\ k.deferred = s.deferred
      BY <2>1 DEF ChildStates, Fixed, Child!Sinks
    <3>2. l = Child!Changes(k, {"log"}) /\ m' = Child!SaveKeys(l)
      BY <2>2, <2>5
    <3> HIDE DEF k, l
    <3>3. Fixed(k, l) /\ l.unsaved = k.unsaved \cup {"log"} /\ l.timers = k.timers \cup {"log"}
          /\ l.mutation = k.mutation /\ l.deferred = k.deferred
      BY <2>3, <3>1, <3>2, Changed DEF Fixed
    <3>4. /\ Fixed(l, m') /\ m'.timers = l.timers /\ m'.mutation = l.mutation
          /\ l.mutation = "pending" => m'.unsaved = l.unsaved /\ m'.deferred
          /\ l.mutation # "pending" =>
              /\ m'.deferred = l.deferred
              /\ m'.unsaved = IF l.channel THEN l.unsaved \ {"keys"} ELSE l.unsaved
      BY <3>2, <3>3, KeysSaved DEF Fixed
    <3>5. /\ m' \in ChildStates /\ m'.http = m.http /\ m'.ready = m.ready
          /\ m'.channel = m.channel /\ m'.stopping = m.stopping /\ m'.ending = m.ending
          /\ m'.exit = m.exit /\ m'.late = (m.late \/ m.stopping)
          /\ m'.timers = m.timers \cup {"log"}
          /\ m.channel => "keys" \notin m'.unsaved \/ m'.deferred
          /\ m'.unsaved \subseteq m.unsaved \cup {"log", "keys"}
      BY <2>1, <3>1, <3>3, <3>4 DEF Fixed
    <3>6. m'.deferred \/ ~m.deferred \/ "keys" \notin m'.unsaved \/ ~m.channel
      BY <3>5
    <3> QED
      BY <3>5, <3>6, <2>2 DEF ChildInv, Child!StopFlushes, Child!SaveIsPending, Child!Up
  <2> QED
    BY <2>2, <2>3, <2>4, <2>5
<1>3. CASE Child!Mutates
  <2>0. PICK work \in Int : work = m.work + 1
    BY <1>0 DEF ChildStates
  <2>1. m' = [m EXCEPT !.work = work, !.mutation = "pending"]
    BY <1>3, <2>0 DEF Child!Mutates
  <2>2. Fixed(m, m') /\ m'.unsaved = m.unsaved /\ m'.timers = m.timers /\ m'.deferred = m.deferred
    BY <1>0, <2>1 DEF ChildStates, Fixed
  <2> QED
    BY <2>2 DEF ChildInv, Fixed, Child!StopFlushes, Child!SaveIsPending, Child!Up
<1>4. CASE Child!Settles(acknowledged)
  <2> DEFINE s == [m EXCEPT !.mutation = "none", !.deferred = FALSE]
             t == IF acknowledged THEN s ELSE Child!Changes(s, {"log"})
  <2>1. Fixed(m, s) /\ s.unsaved = m.unsaved /\ s.timers = m.timers /\ s.mutation = "none"
        /\ ~s.deferred
    BY <1>0 DEF ChildStates, Fixed
  <2>2. t = (IF acknowledged THEN s ELSE Child!Changes(s, {"log"}))
        /\ m' = IF m.deferred \/ ~acknowledged THEN Child!SaveKeys(t) ELSE t
    BY <1>4 DEF Child!Settles
  <2> HIDE DEF s, t
  <2>3. {"log"} \in SUBSET Child!Sinks /\ s \in ChildStates
    BY <2>1 DEF Child!Sinks, Fixed
  <2>4. Fixed(s, t) /\ t.mutation = "none" /\ ~t.deferred
        /\ \/ t.unsaved = s.unsaved /\ t.timers = s.timers
           \/ t.unsaved = s.unsaved \cup {"log"} /\ t.timers = s.timers \cup {"log"}
    BY <2>1, <2>2, <2>3, Changed DEF Fixed
  <2>5. CASE m.deferred \/ ~acknowledged
    <3>1. /\ Fixed(t, m') /\ m'.timers = t.timers /\ ~m'.deferred
          /\ m'.unsaved = IF t.channel THEN t.unsaved \ {"keys"} ELSE t.unsaved
      BY <2>2, <2>4, <2>5, KeysSaved DEF Fixed
    <3> QED
      BY <2>1, <2>4, <3>1 DEF ChildInv, Fixed, Child!StopFlushes, Child!SaveIsPending, Child!Up
  <2>6. CASE ~(m.deferred \/ ~acknowledged)
    <3>1. m' = t
      BY <2>2, <2>6
    <3> QED
      BY <2>1, <2>4, <2>6, <3>1 DEF ChildInv, Fixed, Child!StopFlushes, Child!SaveIsPending,
         Child!Up
  <2> QED
    BY <2>5, <2>6
<1>5. CASE Child!Breaks(works)
  <2> DEFINE s == [m EXCEPT !.unsaved = m.unsaved \cup {"log"}, !.timers = m.timers \ {"log"}]
             t == Child!SaveLog(s, works)
  <2>1. Fixed(m, s) /\ s.unsaved = m.unsaved \cup {"log"} /\ s.timers = m.timers \ {"log"}
        /\ s.deferred = m.deferred
    BY <1>0 DEF ChildStates, Fixed, Child!Sinks
  <2>2. t = Child!SaveLog(s, works) /\ m' = [t EXCEPT !.ending = "fatal"] /\ Child!Up
    BY <1>5 DEF Child!Breaks
  <2> HIDE DEF s, t
  <2>3. Fixed(s, t) /\ t.timers = s.timers /\ t.deferred = s.deferred
        /\ t.unsaved = s.unsaved \ {"log"}
    BY <2>1, <2>2, LogSaved DEF Fixed
  <2>4. /\ m' \in ChildStates /\ m'.ending = "fatal"
        /\ m'.http = t.http /\ m'.ready = t.ready /\ m'.channel = t.channel
        /\ m'.stopping = t.stopping /\ m'.exit = t.exit /\ m'.held = t.held /\ m'.late = t.late
        /\ m'.unsaved = t.unsaved /\ m'.timers = t.timers /\ m'.deferred = t.deferred
    BY <2>2, <2>3 DEF ChildStates, Fixed
  <2> QED
    BY <2>1, <2>3, <2>4 DEF ChildInv, Fixed, Child!StopFlushes, Child!SaveIsPending, Child!Up
<1> QED
  BY <1>1, <1>2, <1>3, <1>4, <1>5

LEMMA EndStep ==
  ASSUME ChildInv, NEW genuine \in BOOLEAN, NEW parentGone \in BOOLEAN, NEW works \in BOOLEAN,
         Child!Initialised(genuine) \/ Child!Stops(parentGone, works) \/ Child!Drains \/ Child!Exits
  PROVE  ChildInv'
<1>0. m \in ChildStates
  BY DEF ChildInv
<1>1. CASE Child!Initialised(genuine)
  <2> DEFINE tokens == m.tokens \/ genuine
             ready == tokens /\ m.http /\ m.admin
  <2>1. m' = [m EXCEPT !.tokens = tokens, !.ready = ready]
    BY <1>0, <1>1 DEF Child!Initialised, Child!Serving, ChildStates
  <2>2. /\ m' \in ChildStates /\ m'.ready = ready /\ m'.http = m.http /\ m'.channel = m.channel
        /\ m'.stopping = m.stopping /\ m'.ending = m.ending /\ m'.exit = m.exit
        /\ m'.held = m.held /\ m'.late = m.late /\ m'.unsaved = m.unsaved /\ m'.timers = m.timers
        /\ m'.deferred = m.deferred
    BY <1>0, <2>1 DEF ChildStates
  <2> QED
    BY <2>2 DEF ChildInv, Child!StopFlushes, Child!SaveIsPending, Child!Up
<1>2. CASE Child!Stops(parentGone, works)
  <2> DEFINE s == [m EXCEPT !.channel = IF parentGone THEN FALSE ELSE m.channel]
             h == Child!Flushed(s, works)
             t == [h EXCEPT !.stopping = TRUE, !.http = FALSE, !.admin = FALSE,
                            !.channel = FALSE, !.held = s.mutation = "pending"]
             u == IF m.stopping THEN s ELSE t
  <2>1. /\ s \in ChildStates /\ s.channel = (~parentGone /\ m.channel) /\ s.mutation = m.mutation
        /\ s.http = m.http /\ s.ready = m.ready /\ s.stopping = m.stopping /\ s.ending = m.ending
        /\ s.exit = m.exit /\ s.held = m.held /\ s.late = m.late /\ s.unsaved = m.unsaved
    BY <1>0 DEF ChildStates
  <2>2. /\ parentGone => m.channel
        /\ m' = [u EXCEPT !.mutation = IF u.mutation = "pending" THEN "rejected" ELSE u.mutation,
                          !.late = u.late \/ (parentGone /\ "keys" \in m.unsaved)]
    BY Zenon, <1>2 DEF Child!Stops
  <2>3. Fixed(s, h) /\ h.unsaved \subseteq s.unsaved /\ "routing" \notin h.unsaved
        /\ ("keys" \in h.unsaved => s.mutation = "pending" \/ ~s.channel)
    <3>1. h = Child!Flushed(s, works)
      OBVIOUS
    <3> HIDE DEF s, h
    <3> QED
      BY <2>1, <3>1, FlushSaves
  <2>4. PICK held \in BOOLEAN : held = (s.mutation = "pending")
    OBVIOUS
  <2>5. /\ t \in ChildStates /\ t.stopping /\ ~t.http /\ ~t.channel /\ t.held = held
        /\ t.ready = h.ready /\ t.ending = h.ending /\ t.exit = h.exit /\ t.late = h.late
        /\ t.unsaved = h.unsaved
    <3> DEFINE x == [h EXCEPT !.stopping = TRUE, !.http = FALSE, !.admin = FALSE]
    <3>1. /\ x \in ChildStates /\ x.stopping /\ ~x.http /\ x.ready = h.ready
          /\ x.ending = h.ending /\ x.exit = h.exit /\ x.late = h.late /\ x.unsaved = h.unsaved
      <4> HIDE DEF h
      <4> QED
        BY <2>3 DEF ChildStates, Fixed
    <3>2. t = [x EXCEPT !.channel = FALSE, !.held = held]
      BY <2>4
    <3> HIDE DEF x, t, h
    <3> QED
      BY <3>1, <3>2 DEF ChildStates
  <2> HIDE DEF s, h, t
  <2>6. u \in ChildStates
    BY <2>1, <2>5
  <2>7. /\ m' \in ChildStates /\ m'.late = (u.late \/ (parentGone /\ "keys" \in m.unsaved))
        /\ m'.http = u.http /\ m'.ready = u.ready /\ m'.channel = u.channel
        /\ m'.stopping = u.stopping /\ m'.ending = u.ending /\ m'.exit = u.exit
        /\ m'.held = u.held /\ m'.unsaved = u.unsaved
    <3> HIDE DEF u
    <3>1. PICK late \in BOOLEAN : late = (u.late \/ (parentGone /\ "keys" \in m.unsaved))
      BY <2>6 DEF ChildStates
    <3>2. PICK mu \in {"none", "pending", "rejected"} :
            mu = IF u.mutation = "pending" THEN "rejected" ELSE u.mutation
      BY <2>6 DEF ChildStates
    <3>3. m' = [u EXCEPT !.mutation = mu, !.late = late]
      BY <2>2, <3>1, <3>2
    <3>4. /\ m' \in ChildStates /\ m'.late = late
          /\ m'.http = u.http /\ m'.ready = u.ready /\ m'.channel = u.channel
          /\ m'.stopping = u.stopping /\ m'.ending = u.ending /\ m'.exit = u.exit
          /\ m'.held = u.held /\ m'.unsaved = u.unsaved
      BY <2>6, <3>3 DEF ChildStates
    <3> QED
      BY <3>1, <3>4
  <2>8. CASE m.stopping
    BY <2>1, <2>2, <2>7, <2>8 DEF ChildInv, Child!StopFlushes, Child!SaveIsPending
  <2>9. CASE ~m.stopping
    <3>1. /\ m' \in ChildStates /\ m'.stopping /\ ~m'.http /\ ~m'.channel
          /\ m'.ready = m.ready /\ m'.ending = m.ending
          /\ m'.late = (m.late \/ (parentGone /\ "keys" \in m.unsaved))
      BY <2>1, <2>3, <2>5, <2>7, <2>9 DEF Fixed
    <3>2. /\ m'.unsaved \subseteq m.unsaved /\ "routing" \notin m'.unsaved
          /\ ("keys" \in m'.unsaved => m.mutation = "pending" \/ parentGone \/ ~m.channel)
          /\ m.mutation = "pending" => m'.held
      <4>1. m'.unsaved = h.unsaved /\ m'.held = held
        BY <2>1, <2>5, <2>7, <2>9
      <4> QED
        BY <2>1, <2>3, <2>4, <4>1
    <3>3. m.channel
      BY <2>9 DEF ChildInv
    <3>4. ~m'.late => m'.held \/ "keys" \notin m'.unsaved
      BY <3>1, <3>2, <3>3
    <3>5. m.ending = "startup" => ~m.ready
      BY DEF ChildInv
    <3>6. m'.channel = ~m'.stopping
      BY <3>1 DEF ChildStates
    <3> QED
      BY <3>1, <3>2, <3>4, <3>5, <3>6 DEF ChildInv, Child!StopFlushes, Child!SaveIsPending
  <2> QED
    BY <2>8, <2>9
<1>3. CASE Child!Drains \/ Child!Exits
  <2>1. PICK exit \in {"drained", "startup", "fatal"} : m' = [m EXCEPT !.exit = exit]
    BY <1>0, <1>3 DEF Child!Drains, Child!Exits, ChildStates
  <2>2. /\ m' \in ChildStates /\ m'.ready = m.ready /\ m'.http = m.http /\ m'.channel = m.channel
        /\ m'.stopping = m.stopping /\ m'.ending = m.ending /\ m'.exit # "no"
        /\ m'.held = m.held /\ m'.late = m.late /\ m'.unsaved = m.unsaved
    BY <1>0, <2>1 DEF ChildStates
  <2> QED
    BY <2>2 DEF ChildInv, Child!StopFlushes, Child!SaveIsPending, Child!Up
<1> QED
  BY <1>1, <1>2, <1>3

LEMMA ChildStep == ASSUME ChildInv, [Child!Next]_m PROVE ChildInv'
<1>1. CASE UNCHANGED m
  BY <1>1 DEF ChildInv, Child!StopFlushes, Child!SaveIsPending, Child!Up
<1>2. ASSUME NEW kind \in {"success", "limited", "verdict"}, Child!Serves(kind) PROVE ChildInv'
  <2>1. "keys" \in Child!Sinks
    BY DEF Child!Sinks
  <2> QED
    BY <1>2, <2>1, WorkStep
<1>3. ASSUME NEW sink \in Child!Sinks, NEW works \in BOOLEAN, Child!TimerFires(sink, works)
      PROVE ChildInv'
  BY <1>3, WorkStep
<1>4. ASSUME Child!Mutates PROVE ChildInv'
  <2>1. "keys" \in Child!Sinks
    BY DEF Child!Sinks
  <2> QED
    BY <1>4, <2>1, WorkStep
<1>5. ASSUME NEW acknowledged \in BOOLEAN, Child!Settles(acknowledged) PROVE ChildInv'
  <2>1. "keys" \in Child!Sinks
    BY DEF Child!Sinks
  <2> QED
    BY <1>5, <2>1, WorkStep
<1>6. ASSUME NEW works \in BOOLEAN, Child!Breaks(works) PROVE ChildInv'
  <2>1. "keys" \in Child!Sinks
    BY DEF Child!Sinks
  <2> QED
    BY <1>6, <2>1, WorkStep
<1>7. ASSUME NEW genuine \in BOOLEAN, Child!Initialised(genuine) PROVE ChildInv'
  BY <1>7, EndStep
<1>8. ASSUME NEW parentGone \in BOOLEAN, NEW works \in BOOLEAN, Child!Stops(parentGone, works)
      PROVE ChildInv'
  BY <1>8, EndStep
<1>9. ASSUME Child!Drains \/ Child!Exits PROVE ChildInv'
  BY <1>9, EndStep
<1> QED
  BY <1>1, <1>2, <1>3, <1>4, <1>5, <1>6, <1>7, <1>8, <1>9 DEF Child!Next

LEMMA ChildKept == ChildInv => Child!ChildKeepsItsWord
BY DEF ChildInv, Child!ChildKeepsItsWord, Child!NoHalfStart

-----------------------------------------------------------------------------
(* The routing memory: what it remembers is on disk or about to be            *)

Times == {i \in Int : i >= Memory!None}
Made  == [Names -> Times]
Files == [is : {"absent", "broken", "whole"}, at : Made]
MemoryStates ==
  [at : Made, file : Files, now : Int, up : BOOLEAN, loaded : BOOLEAN, pending : BOOLEAN,
   timer : BOOLEAN, removing : SUBSET Names, away : Made, events : Int, failed : BOOLEAN,
   stepped : BOOLEAN, pruned : SUBSET Names, evicted : Made]

\* While the clock runs forward nothing was made in the future.
NothingIsLater(s) ==
  ~s.stepped => \A n \in Names : /\ s.at[n] <= s.now /\ s.away[n] <= s.now
                                 /\ s.evicted[n] <= s.now /\ s.file.at[n] <= s.now
MemoryInv ==
  /\ m \in MemoryStates /\ m.now >= 0
  /\ m.up /\ ~m.loaded => m.evicted = Memory!Empty /\ m.removing = {}
  /\ NothingIsLater(m)
  /\ Memory!MemoryIsKept

\* What a step leaves alone of a state.
Steady(s, t) ==
  /\ t \in MemoryStates
  /\ t.now = s.now /\ t.stepped = s.stepped /\ t.failed = s.failed /\ t.up = s.up

LEMMA EmptyTable == Memory!Empty \in Made
BY DEF Memory!Empty, Made, Times, Memory!None

LEMMA DiskTable == ASSUME NEW s \in MemoryStates PROVE Memory!OnDisk(s) \in Made
BY EmptyTable DEF Memory!OnDisk, MemoryStates, Files

LEMMA MemoryStart == Memory!Init => MemoryInv
<1> SUFFICES ASSUME Memory!Init PROVE MemoryInv
  OBVIOUS
<1>1. PICK is \in {"absent", "broken"} :
        m = [at |-> Memory!Empty, file |-> [is |-> is, at |-> Memory!Empty], now |-> 0, up |-> TRUE,
             loaded |-> FALSE, pending |-> FALSE, timer |-> FALSE, removing |-> {},
             away |-> Memory!Empty, events |-> 0, failed |-> FALSE, stepped |-> FALSE,
             pruned |-> {},
             evicted |-> Memory!Empty]
  BY DEF Memory!Init
<1>2. m \in MemoryStates
  BY <1>1, EmptyTable DEF MemoryStates, Files
<1>3. /\ m.now = 0 /\ ~m.loaded /\ ~m.pending /\ m.at = Memory!Empty /\ m.away = Memory!Empty
      /\ m.evicted = Memory!Empty /\ m.file.at = Memory!Empty /\ m.removing = {}
  BY <1>1
<1>4. \A n \in Names : Memory!Empty[n] = Memory!None
  BY DEF Memory!Empty
<1>5. Memory!Present(Memory!Empty) = {}
  BY <1>4 DEF Memory!Present
<1> QED
  BY <1>2, <1>3, <1>4, <1>5
  DEF MemoryInv, NothingIsLater, Memory!MemoryIsKept, Memory!QueueIsArmed, Memory!SavedOrQueued,
      Memory!OldestLeaves, Memory!None

LEMMA Loads ==
  ASSUME NEW s \in MemoryStates, NEW t, t = Memory!Loaded(s)
  PROVE  /\ Steady(s, t) /\ t.loaded /\ t.at = (IF s.loaded THEN s.at ELSE Memory!OnDisk(s))
         /\ t.file = s.file /\ t.pending = s.pending /\ t.timer = s.timer
         /\ t.removing = s.removing /\ t.away = s.away /\ t.pruned = s.pruned
         /\ t.evicted = s.evicted
<1>1. CASE s.loaded
  BY <1>1 DEF Memory!Loaded, Steady, MemoryStates
<1>2. CASE ~s.loaded
  <2>1. PICK disk \in Made : disk = Memory!OnDisk(s)
    BY DiskTable
  <2>2. t = [s EXCEPT !.loaded = TRUE, !.at = disk]
    BY <1>2, <2>1 DEF Memory!Loaded
  <2> QED
    BY <1>2, <2>1, <2>2 DEF Steady, MemoryStates
<1> QED
  BY <1>1, <1>2

LEMMA Schedules ==
  ASSUME NEW s \in MemoryStates, NEW t, t = Memory!Scheduled(s)
  PROVE  /\ Steady(s, t) /\ t.loaded = s.loaded /\ t.at = s.at /\ t.file = s.file
         /\ t.pending /\ t.timer /\ t.away = s.away /\ t.evicted = s.evicted
         /\ t.removing = s.removing
<1>1. t = [s EXCEPT !.pending = TRUE, !.timer = TRUE]
  BY DEF Memory!Scheduled
<1> QED
  BY <1>1 DEF Steady, MemoryStates

LEMMA Persists ==
  ASSUME NEW s \in MemoryStates, NEW works \in BOOLEAN, NEW t, t = Memory!Persisted(s, works)
  PROVE  /\ t \in MemoryStates
         /\ t.now = s.now /\ t.stepped = s.stepped /\ t.failed = ~works /\ t.up = s.up
         /\ t.loaded = s.loaded /\ t.at = s.at /\ ~t.pending /\ t.timer = s.timer
         /\ t.removing = s.removing /\ t.away = s.away /\ t.evicted = s.evicted
         /\ works => t.file.is = "whole" /\ t.file.at = s.at
         /\ ~works => t.file = s.file
<1>1. PICK events \in Int : events = IF works THEN s.events ELSE s.events + 1
  BY DEF MemoryStates
<1>2. PICK file \in Files : file = IF works THEN [is |-> "whole", at |-> s.at] ELSE s.file
  BY DEF MemoryStates, Files
<1>3. PICK failed \in BOOLEAN : failed = ~works
  OBVIOUS
<1>4. t = [s EXCEPT !.pending = FALSE, !.failed = failed, !.events = events, !.file = file]
  BY <1>1, <1>2, <1>3 DEF Memory!Persisted
<1> DEFINE x == [s EXCEPT !.pending = FALSE, !.failed = failed]
<1>5. /\ x \in MemoryStates /\ x.now = s.now /\ x.stepped = s.stepped /\ x.failed = failed
      /\ x.up = s.up /\ x.loaded = s.loaded /\ x.at = s.at /\ ~x.pending /\ x.timer = s.timer
      /\ x.removing = s.removing /\ x.away = s.away /\ x.evicted = s.evicted
  BY DEF MemoryStates
<1>6. t = [x EXCEPT !.events = events, !.file = file]
  BY <1>4
<1> HIDE DEF x
<1>7. /\ t \in MemoryStates /\ t.now = s.now /\ t.stepped = s.stepped /\ t.failed = failed
      /\ t.up = s.up /\ t.loaded = s.loaded /\ t.at = s.at /\ ~t.pending /\ t.timer = s.timer
      /\ t.removing = s.removing /\ t.away = s.away /\ t.evicted = s.evicted /\ t.file = file
  BY <1>5, <1>6 DEF MemoryStates
<1>8. (works => file.is = "whole" /\ file.at = s.at) /\ (~works => file = s.file)
  BY <1>2
<1> QED
  BY <1>3, <1>7, <1>8

\* A write: nothing but the file changes, and the queue is empty.

LEMMA Writes ==
  ASSUME MemoryInv, NEW s \in MemoryStates, NEW works \in BOOLEAN,
         s.now = m.now, s.stepped = m.stepped, s.failed = m.failed, s.up => m.up,
         s.loaded = m.loaded, s.at = m.at, s.file = m.file, s.pending = m.pending,
         s.removing = m.removing, s.away = m.away, s.evicted = m.evicted, s.pruned = m.pruned,
         m' = IF m.pending THEN Memory!Persisted(s, works) ELSE s
  PROVE  MemoryInv'
<1>1. CASE m.pending
  <2>1. m' = Memory!Persisted(s, works)
    BY <1>1
  <2>2. /\ m' \in MemoryStates
        /\ m'.now = s.now /\ m'.stepped = s.stepped /\ m'.failed = ~works /\ m'.up = s.up
        /\ m'.loaded = s.loaded /\ m'.at = s.at /\ ~m'.pending
        /\ m'.removing = s.removing /\ m'.away = s.away /\ m'.evicted = s.evicted
        /\ works => m'.file.is = "whole" /\ m'.file.at = s.at
        /\ ~works => m'.file = s.file
    BY <2>1, Persists
  <2>3. works => m'.file.is = "whole" /\ m'.file.at = m'.at
    BY <2>2
  <2>4. m'.file.at = m.file.at \/ m'.file.at = m.at
    BY <2>2, <2>3
  <2>5. NothingIsLater(m)'
    BY Zenon, <2>2, <2>4 DEF MemoryInv, NothingIsLater
  <2>6. Memory!SavedOrQueued'
    <3>1. CASE works
      <4>1. Memory!OnDisk(m)' = m'.at
        BY <2>3, <3>1 DEF Memory!OnDisk
      <4>2. \A n \in Names : m'.at[n] \in Int
        BY <2>2 DEF MemoryStates, Made, Times
      <4>3. \A n \in Names : m'.at[n] >= m'.at[n]
        BY <4>2
      <4> QED
        BY <4>1, <4>3 DEF Memory!SavedOrQueued
    <3>2. CASE ~works
      BY <2>2, <3>2 DEF Memory!SavedOrQueued
    <3> QED
      BY <3>1, <3>2
  <2> QED
    BY <2>2, <2>5, <2>6 DEF MemoryInv, Memory!MemoryIsKept, Memory!QueueIsArmed, Memory!OldestLeaves
<1>2. CASE ~m.pending
  <2>1. m' = s
    BY <1>2
  <2> QED
    BY <1>2, <2>1
    DEF MemoryInv, Memory!MemoryIsKept, Memory!QueueIsArmed, Memory!OldestLeaves, NothingIsLater,
        Memory!SavedOrQueued, Memory!OnDisk
<1> QED
  BY <1>1, <1>2

LEMMA FileStep ==
  ASSUME MemoryInv, NEW works \in BOOLEAN,
         Memory!TimerFires(works) \/ Memory!Stops(works) \/ Memory!Dies \/ Memory!Starts
  PROVE  MemoryInv'
<1>0. m \in MemoryStates
  BY DEF MemoryInv
<1>1. CASE Memory!TimerFires(works)
  <2> DEFINE s == [m EXCEPT !.timer = FALSE]
  <2>1. m' = IF m.pending THEN Memory!Persisted(s, works) ELSE s
    BY <1>1 DEF Memory!TimerFires
  <2>2. /\ s \in MemoryStates /\ s.now = m.now /\ s.stepped = m.stepped /\ s.failed = m.failed
        /\ s.up = m.up /\ s.loaded = m.loaded /\ s.at = m.at /\ s.file = m.file
        /\ s.pending = m.pending /\ s.removing = m.removing /\ s.away = m.away
        /\ s.evicted = m.evicted /\ s.pruned = m.pruned
    BY <1>0 DEF MemoryStates
  <2> HIDE DEF s
  <2> QED
    BY <2>1, <2>2, Writes
<1>2. CASE Memory!Stops(works)
  <2> DEFINE s == [m EXCEPT !.timer = FALSE, !.up = FALSE]
  <2>1. m' = IF m.pending THEN Memory!Persisted(s, works) ELSE s
    BY <1>2 DEF Memory!Stops
  <2>2. /\ s \in MemoryStates /\ s.now = m.now /\ s.stepped = m.stepped /\ s.failed = m.failed
        /\ ~s.up /\ s.loaded = m.loaded /\ s.at = m.at /\ s.file = m.file
        /\ s.pending = m.pending /\ s.removing = m.removing /\ s.away = m.away
        /\ s.evicted = m.evicted /\ s.pruned = m.pruned
    BY <1>0 DEF MemoryStates
  <2> HIDE DEF s
  <2> QED
    BY <2>1, <2>2, Writes
<1>3. CASE Memory!Dies
  <2> DEFINE x == [m EXCEPT !.up = FALSE, !.timer = FALSE, !.pending = FALSE]
  <2>1. /\ x \in MemoryStates /\ x.now = m.now /\ x.stepped = m.stepped /\ ~x.up
        /\ x.away = m.away /\ x.evicted = m.evicted /\ x.file = m.file
    BY <1>0 DEF MemoryStates
  <2>2. m' = [x EXCEPT !.loaded = FALSE, !.at = Memory!Empty]
    BY <1>3 DEF Memory!Dies
  <2> HIDE DEF x
  <2>3. /\ m' \in MemoryStates /\ m'.now = m.now /\ m'.stepped = m.stepped /\ ~m'.up
        /\ m'.away = m.away /\ m'.evicted = m.evicted /\ m'.file = m.file /\ ~m'.loaded
        /\ m'.at = Memory!Empty
    BY <2>1, <2>2, EmptyTable DEF MemoryStates
  <2>4. m.now \in Int /\ \A n \in Names : Memory!Empty[n] = Memory!None
    BY <1>0 DEF Memory!Empty, MemoryStates
  <2>5. \A n \in Names : m'.at[n] <= m'.now
    BY <2>3, <2>4 DEF MemoryInv, Memory!None
  <2>6. NothingIsLater(m)'
    BY <2>3, <2>5 DEF MemoryInv, NothingIsLater
  <2> QED
    BY <2>3, <2>6 DEF MemoryInv, Memory!MemoryIsKept, Memory!QueueIsArmed, Memory!OldestLeaves,
       Memory!SavedOrQueued
<1>4. CASE Memory!Starts
  <2> DEFINE x == [m EXCEPT !.up = TRUE, !.loaded = FALSE, !.at = Memory!Empty,
                            !.events = m.events + 1,
                            !.pending = FALSE, !.removing = {}, !.away = Memory!Empty,
                            !.evicted = Memory!Empty]
             l == Memory!Loaded(x)
             now == [n \in Names |-> IF l.at[n] > l.now THEN l.now ELSE l.at[n]]
             clamped == [l EXCEPT !.at = now]
             old == {n \in Names : Memory!Expired(clamped, n)}
             kept == [n \in Names |-> IF n \in old THEN Memory!None ELSE now[n]]
  <2>1. /\ x \in MemoryStates /\ x.now = m.now /\ x.stepped = m.stepped /\ x.failed = m.failed
        /\ x.file = m.file /\ ~x.loaded /\ ~x.pending /\ x.removing = {} /\ x.away = Memory!Empty
        /\ x.evicted = Memory!Empty
    <3> DEFINE u == [m EXCEPT !.up = TRUE, !.loaded = FALSE, !.at = Memory!Empty]
               w == [u EXCEPT !.pending = FALSE, !.removing = {}, !.away = Memory!Empty,
                              !.evicted = Memory!Empty]
    <3>1. PICK events \in Int : events = m.events + 1
      BY <1>0 DEF MemoryStates
    <3>2. /\ u \in MemoryStates /\ u.now = m.now /\ u.stepped = m.stepped
          /\ u.failed = m.failed /\ u.file = m.file /\ ~u.loaded
      BY <1>0, EmptyTable DEF MemoryStates
    <3>3. /\ w \in MemoryStates /\ w.now = m.now /\ w.stepped = m.stepped
          /\ w.failed = m.failed /\ w.file = m.file /\ ~w.loaded
          /\ ~w.pending /\ w.removing = {} /\ w.away = Memory!Empty /\ w.evicted = Memory!Empty
      <4> HIDE DEF u
      <4> QED
        BY <3>2, EmptyTable DEF MemoryStates
    <3>4. x = [w EXCEPT !.events = events]
      BY <1>0, <3>1 DEF MemoryStates
    <3> HIDE DEF x, w
    <3> QED
      BY <3>3, <3>4 DEF MemoryStates
  <2>2. m' = [[l EXCEPT !.at = now] EXCEPT !.at = kept, !.pruned = old]
    <3>1. m' = Memory!Pruned(l)
      BY Zenon, <1>4 DEF Memory!Starts
    <3>2. clamped.at = now
      <4>1. l \in MemoryStates
        <5> HIDE DEF x
        <5> QED
          BY <2>1, Loads DEF Steady
      <4> HIDE DEF l, now
      <4> QED
        BY <4>1 DEF MemoryStates
    <3>3. m' = [clamped EXCEPT
                  !.at = [n \in Names |-> IF n \in old THEN Memory!None ELSE clamped.at[n]],
                               !.pruned = old]
      BY Zenon, <3>1 DEF Memory!Pruned
    <3>4. m' = [clamped EXCEPT !.at = kept, !.pruned = old]
      BY Zenon, <3>2, <3>3
    <3> QED
      BY Zenon, <3>4
  <2> HIDE DEF x
  <2>3. /\ Steady(x, l) /\ l.loaded /\ l.at = Memory!OnDisk(x) /\ l.file = x.file /\ ~l.pending
        /\ l.removing = {} /\ l.away = Memory!Empty /\ l.evicted = Memory!Empty
    BY <2>1, Loads
  <2>4. Memory!OnDisk(x) = Memory!OnDisk(m)
    BY <2>1 DEF Memory!OnDisk
  <2> HIDE DEF l
  <2>5. l \in MemoryStates /\ l.now = m.now /\ m.now \in Int /\ m.now >= 0 /\ l.at \in Made
    BY <1>0, <2>1, <2>3 DEF Steady, MemoryInv, MemoryStates
  <2>6. now \in Made
    BY <2>5 DEF Made, Times, Memory!None
  <2>7. kept \in Made /\ old \in SUBSET Names
    <3> HIDE DEF now
    <3> QED
      BY <2>6 DEF Made, Times, Memory!None
  <2>8. \A n \in Names : /\ now[n] <= l.at[n] /\ (now[n] = Memory!None => l.at[n] = Memory!None)
                         /\ now[n] <= m.now
    BY <2>5 DEF Made, Times, Memory!None
  <2>9. \A n \in Names : /\ kept[n] = Memory!None => n \in old \/ now[n] = Memory!None
                         /\ kept[n] # Memory!None => kept[n] = now[n]
    <3> HIDE DEF old, now
    <3> QED
      OBVIOUS
  <2> HIDE DEF now, old, kept
  <2>10. /\ m' \in MemoryStates /\ m'.at = kept /\ m'.pruned = old /\ m'.now = m.now
         /\ m'.stepped = m.stepped /\ m'.file = m.file /\ m'.loaded /\ ~m'.pending
         /\ m'.removing = {} /\ m'.away = Memory!Empty /\ m'.evicted = Memory!Empty
    <3> DEFINE w == [l EXCEPT !.at = kept]
    <3>1. /\ w \in MemoryStates /\ w.at = kept /\ w.now = m.now
          /\ w.stepped = m.stepped /\ w.file = m.file /\ w.loaded /\ ~w.pending
          /\ w.removing = {} /\ w.away = Memory!Empty /\ w.evicted = Memory!Empty
      BY <2>1, <2>3, <2>5, <2>7 DEF MemoryStates, Steady
    <3>2. m' = [w EXCEPT !.pruned = old]
      BY <2>2, <2>5 DEF MemoryStates
    <3> HIDE DEF w
    <3> QED
      BY <2>7, <3>1, <3>2 DEF MemoryStates
  <2>11. \A n \in Names : Memory!Empty[n] = Memory!None
    BY DEF Memory!Empty
  <2>12. \A n \in Names : kept[n] \in Int /\ kept[n] >= Memory!None /\ kept[n] <= m.now
    BY <2>5, <2>7, <2>8, <2>9 DEF Made, Times, Memory!None
  <2>13. NothingIsLater(m)'
    BY <2>5, <2>10, <2>11, <2>12 DEF MemoryInv, NothingIsLater, Memory!None
  <2>14. Memory!SavedOrQueued'
    <3>1. Memory!OnDisk(m)' = l.at
      BY <2>3, <2>4, <2>10 DEF Memory!OnDisk
    <3>2. ASSUME NEW n \in Names
          PROVE  IF kept[n] = Memory!None THEN l.at[n] = Memory!None \/ n \in old
                                          ELSE l.at[n] >= kept[n]
      <4>1. l.at[n] \in Int /\ kept[n] \in Int
        BY <2>5, <2>12 DEF Made, Times
      <4> QED
        BY <2>8, <2>9, <4>1
    <3> QED
      BY <2>10, <3>1, <3>2 DEF Memory!SavedOrQueued
  <2>15. Memory!OldestLeaves'
    BY <2>10, <2>11, <2>12 DEF Memory!OldestLeaves, Memory!Present
  <2> QED
    BY <2>5, <2>10, <2>13, <2>14, <2>15 DEF MemoryInv, Memory!MemoryIsKept, Memory!QueueIsArmed
<1> QED
  BY <1>1, <1>2, <1>3, <1>4

\* A change that waits for its timer: nothing is left to show of the file.

LEMMA Queues ==
  ASSUME MemoryInv, NEW s \in MemoryStates, m' = Memory!Scheduled(s),
         s.now = m.now, s.stepped = m.stepped, s.file = m.file, s.up => s.loaded,
         NothingIsLater(s),
         ~s.stepped => \A n \in Names, o \in Memory!Present(s.at) : s.evicted[n] <= s.at[o]
  PROVE  MemoryInv'
<1>1. /\ Steady(s, m') /\ m'.loaded = s.loaded /\ m'.at = s.at /\ m'.file = s.file
      /\ m'.pending /\ m'.timer /\ m'.away = s.away /\ m'.evicted = s.evicted
  BY Schedules
<1>2. NothingIsLater(m)'
  BY Zenon, <1>1 DEF NothingIsLater, Steady
<1>3. Memory!OldestLeaves'
  BY <1>1 DEF Memory!OldestLeaves, Steady
<1> QED
  BY <1>1, <1>2, <1>3 DEF MemoryInv, Steady, Memory!MemoryIsKept, Memory!QueueIsArmed,
     Memory!SavedOrQueued

\* The tables as an access finds them.

LEMMA Looks ==
  ASSUME MemoryInv, m.up, NEW l, l = Memory!Loaded(m)
  PROVE  /\ l \in MemoryStates /\ l.loaded /\ l.now = m.now /\ l.stepped = m.stepped
         /\ l.up /\ l.failed = m.failed /\ l.pending = m.pending /\ l.timer = m.timer
         /\ l.file = m.file /\ l.removing = m.removing /\ l.pruned = m.pruned
         /\ NothingIsLater(l)
         /\ ~l.stepped => \A n \in Names, o \in Memory!Present(l.at) : l.evicted[n] <= l.at[o]
         /\ ~l.pending /\ ~l.failed /\ l.removing = {} =>
              \A n \in Names :
                IF l.at[n] = Memory!None THEN Memory!OnDisk(l)[n] = Memory!None \/ n \in l.pruned
                                         ELSE Memory!OnDisk(l)[n] >= l.at[n]
<1>0. m \in MemoryStates /\ m.now \in Int /\ m.now >= 0
  BY DEF MemoryInv, MemoryStates
<1>1. /\ Steady(m, l) /\ l.loaded /\ l.at = (IF m.loaded THEN m.at ELSE Memory!OnDisk(m))
      /\ l.file = m.file /\ l.pending = m.pending /\ l.timer = m.timer
      /\ l.removing = m.removing /\ l.away = m.away /\ l.pruned = m.pruned
      /\ l.evicted = m.evicted
  BY <1>0, Loads
<1>2. Memory!OnDisk(l) = Memory!OnDisk(m) /\ Memory!OnDisk(m) \in Made
  BY <1>0, <1>1, DiskTable DEF Memory!OnDisk
<1>3. \A n \in Names : Memory!Empty[n] = Memory!None
  BY DEF Memory!Empty
<1>4. CASE m.loaded
  <2>1. NothingIsLater(l)
    BY Zenon, <1>1, <1>4 DEF MemoryInv, NothingIsLater, Steady
  <2> QED
    BY <1>1, <1>2, <1>4, <2>1
    DEF MemoryInv, Memory!MemoryIsKept, Memory!OldestLeaves, Memory!SavedOrQueued, Steady
<1>5. CASE ~m.loaded
  <2>1. l.at = Memory!OnDisk(m) /\ l.evicted = Memory!Empty
    BY <1>1, <1>5 DEF MemoryInv
  <2>2. \A n \in Names : Memory!OnDisk(m)[n] \in Int /\ Memory!OnDisk(m)[n] >= Memory!None
    BY <1>2 DEF Made, Times
  <2>3. \A n \in Names : Memory!OnDisk(m)[n] = Memory!None \/ Memory!OnDisk(m)[n] = m.file.at[n]
    BY <1>3 DEF Memory!OnDisk
  <2>4. \A n \in Names : ~m.stepped => Memory!OnDisk(m)[n] <= m.now
    BY <1>0, <2>3 DEF MemoryInv, NothingIsLater, Memory!None
  <2>5. NothingIsLater(l)
    BY <1>1, <2>1, <2>4 DEF MemoryInv, NothingIsLater, Steady
  <2>6. \A n \in Names, o \in Memory!Present(l.at) : l.evicted[n] <= l.at[o]
    BY <1>3, <2>1, <2>2 DEF Memory!Present
  <2>7. \A n \in Names : Memory!OnDisk(l)[n] >= l.at[n]
    BY <1>2, <2>1, <2>2
  <2>8. \A n \in Names : l.at[n] = Memory!None => Memory!OnDisk(l)[n] = Memory!None
    BY <1>2, <2>1
  <2> QED
    BY <1>1, <2>5, <2>6, <2>7, <2>8 DEF Steady
<1> QED
  BY <1>4, <1>5

LEMMA RecordStep == ASSUME MemoryInv, NEW name \in Names, Memory!Records(name) PROVE MemoryInv'
<1> DEFINE l == Memory!Loaded(m)
           s == [l EXCEPT !.at[name] = m.now, !.evicted[name] = Memory!None,
                          !.events = l.events + 1,
                          !.pruned = l.pruned \ {name}]
           made == [l.at EXCEPT ![name] = m.now]
           evicted == [l.evicted EXCEPT ![name] = Memory!None]
<1>1. /\ m.up
      /\ \/ m' = Memory!Scheduled(s)
         \/ \E D \in Memory!Evictable(s, name, l.at[name] = Memory!None) :
              m' = Memory!Scheduled([s EXCEPT
                     !.at = [n \in Names |-> IF n \in D THEN Memory!None ELSE @[n]],
                     !.evicted = [n \in Names |-> IF n \in D THEN s.at[n] ELSE @[n]]])
  BY Zenon DEF Memory!Records
<1>2. /\ l \in MemoryStates /\ l.loaded /\ l.now = m.now /\ l.stepped = m.stepped /\ l.up
      /\ l.file = m.file /\ NothingIsLater(l)
      /\ ~l.stepped => \A n \in Names, o \in Memory!Present(l.at) : l.evicted[n] <= l.at[o]
  <2>1. l = Memory!Loaded(m)
    OBVIOUS
  <2> HIDE DEF l
  <2> QED
    BY <1>1, <2>1, Looks
<1> HIDE DEF l
<1>3. m.now \in Int /\ m.now >= 0 /\ l.at \in Made /\ l.evicted \in Made /\ l.file.at \in Made
      /\ l.away \in Made
  BY <1>2 DEF MemoryInv, MemoryStates, Files
<1>4. made \in Made /\ evicted \in Made
  BY <1>3 DEF Made, Times, Memory!None
<1>5. /\ s \in MemoryStates /\ s.loaded /\ s.now = m.now /\ s.stepped = m.stepped
      /\ s.up /\ s.file = m.file /\ s.away = l.away /\ s.at = made /\ s.evicted = evicted
  <2>1. PICK events \in Int : events = l.events + 1
    BY <1>2 DEF MemoryStates
  <2>2. s = [l EXCEPT !.at = made, !.evicted = evicted, !.events = events,
                      !.pruned = l.pruned \ {name}]
    BY <2>1
  <2> DEFINE x == [l EXCEPT !.at = made, !.evicted = evicted]
  <2> HIDE DEF s, made, evicted
  <2>3. /\ x \in MemoryStates /\ x.loaded /\ x.now = m.now /\ x.stepped = m.stepped
        /\ x.up /\ x.file = m.file /\ x.away = l.away /\ x.at = made /\ x.evicted = evicted
        /\ x.pruned = l.pruned
    BY <1>2, <1>4 DEF MemoryStates
  <2>4. s = [x EXCEPT !.events = events, !.pruned = l.pruned \ {name}]
    BY <2>2
  <2> HIDE DEF x
  <2> QED
    BY <2>3, <2>4 DEF MemoryStates
<1>6. \A n \in Names : /\ made[n] = (IF n = name THEN m.now ELSE l.at[n])
                       /\ evicted[n] = (IF n = name THEN Memory!None ELSE l.evicted[n])
  BY <1>3 DEF Made
<1> HIDE DEF made, evicted
<1>7. NothingIsLater(s)
  BY <1>2, <1>3, <1>5, <1>6 DEF NothingIsLater, Memory!None
<1>8. ~s.stepped => \A n \in Names, o \in Memory!Present(s.at) : s.evicted[n] <= s.at[o]
  <2> SUFFICES ASSUME ~s.stepped, NEW n \in Names, NEW o \in Names, made[o] # Memory!None
               PROVE  evicted[n] <= made[o]
    BY <1>5 DEF Memory!Present
  <2>1. made[o] \in Int /\ evicted[n] \in Int /\ made[o] >= Memory!None /\ l.evicted[n] \in Int
    BY <1>3, <1>4 DEF Made, Times
  <2>2. CASE n = name
    BY <1>6, <2>1, <2>2
  <2>3. CASE n # name /\ o = name
    BY <1>2, <1>5, <1>6, <2>1, <2>3 DEF NothingIsLater
  <2>4. CASE n # name /\ o # name
    BY <1>2, <1>5, <1>6, <2>4 DEF Memory!Present
  <2> QED
    BY <2>2, <2>3, <2>4
<1> HIDE DEF s
<1>9. CASE m' = Memory!Scheduled(s)
  BY <1>5, <1>7, <1>8, <1>9, <1>2, Queues
<1>10. ASSUME NEW D \in Memory!Evictable(s, name, l.at[name] = Memory!None),
              m' = Memory!Scheduled([s EXCEPT
                     !.at = [n \in Names |-> IF n \in D THEN Memory!None ELSE @[n]],
                     !.evicted = [n \in Names |-> IF n \in D THEN s.at[n] ELSE @[n]]])
       PROVE  MemoryInv'
  <2> DEFINE left == [n \in Names |-> IF n \in D THEN Memory!None ELSE made[n]]
             lost == [n \in Names |-> IF n \in D THEN made[n] ELSE evicted[n]]
             t == [s EXCEPT !.at = left, !.evicted = lost]
  <2>1. m' = Memory!Scheduled(t)
    BY <1>5, <1>10
  <2>2. left \in Made /\ lost \in Made
    BY <1>4 DEF Made, Times, Memory!None
  <2>3. /\ t \in MemoryStates /\ t.loaded /\ t.now = m.now /\ t.stepped = m.stepped
        /\ t.file = m.file /\ t.away = s.away /\ t.at = left /\ t.evicted = lost
    <3> HIDE DEF left, lost
    <3> QED
      BY <1>5, <2>2 DEF MemoryStates
  <2>4. \A d \in D : d \in Memory!Present(made)
            /\ \A n \in Memory!Present(made) \ D : made[d] < made[n] \/ made[d] = made[n]
    BY <1>5 DEF Memory!Evictable
  <2>5. \A n \in Names : /\ left[n] = (IF n \in D THEN Memory!None ELSE made[n])
                         /\ lost[n] = (IF n \in D THEN made[n] ELSE evicted[n])
    OBVIOUS
  <2> HIDE DEF left, lost, t
  <2>6. \A n \in Names : made[n] \in Int /\ evicted[n] \in Int
    BY <1>4 DEF Made, Times
  <2>7. NothingIsLater(t)
    BY <1>3, <1>5, <1>7, <2>3, <2>5, <2>6 DEF NothingIsLater, Memory!None
  <2>8. ~t.stepped => \A n \in Names, o \in Memory!Present(t.at) : t.evicted[n] <= t.at[o]
    <3> SUFFICES ASSUME ~t.stepped, NEW n \in Names, NEW o \in Names, left[o] # Memory!None
                 PROVE  lost[n] <= left[o]
      BY <2>3 DEF Memory!Present
    <3>1. o \notin D /\ left[o] = made[o] /\ o \in Memory!Present(made)
      BY <2>5 DEF Memory!Present
    <3>2. CASE n \in D
      BY <2>4, <2>5, <2>6, <3>1, <3>2
    <3>3. CASE n \notin D
      BY <1>5, <1>8, <2>3, <2>5, <3>1, <3>3
    <3> QED
      BY <3>2, <3>3
  <2> QED
    BY <2>1, <2>3, <2>7, <2>8, Queues
<1> QED
  BY <1>1, <1>9, <1>10

LEMMA LookUpStep == ASSUME MemoryInv, NEW name \in Names, Memory!Reads(name) PROVE MemoryInv'
<1> DEFINE l == Memory!Loaded(m)
           made == [l.at EXCEPT ![name] = IF l.at[name] > l.now THEN l.now ELSE l.at[name]]
<1>1. m.up /\ m' = [l EXCEPT !.at[name] = IF @ > m.now THEN m.now ELSE @]
  BY Zenon DEF Memory!Reads
<1>2. /\ l \in MemoryStates /\ l.loaded /\ l.now = m.now /\ l.stepped = m.stepped /\ l.up
      /\ l.failed = m.failed /\ l.pending = m.pending /\ l.timer = m.timer
      /\ l.file = m.file /\ l.removing = m.removing /\ l.pruned = m.pruned
      /\ NothingIsLater(l)
      /\ ~l.stepped => \A n \in Names, o \in Memory!Present(l.at) : l.evicted[n] <= l.at[o]
      /\ ~l.pending /\ ~l.failed /\ l.removing = {} =>
              \A n \in Names :
                IF l.at[n] = Memory!None THEN Memory!OnDisk(l)[n] = Memory!None \/ n \in l.pruned
                                         ELSE Memory!OnDisk(l)[n] >= l.at[n]
  <2>1. l = Memory!Loaded(m)
    OBVIOUS
  <2> HIDE DEF l
  <2> QED
    BY <1>1, <2>1, Looks
<1>3. m' = [l EXCEPT !.at = made]
  BY <1>1, <1>2
<1> HIDE DEF l
<1>4. m.now \in Int /\ m.now >= 0 /\ l.at \in Made /\ l.evicted \in Made
          /\ Memory!OnDisk(l) \in Made
  BY <1>2, DiskTable DEF MemoryInv, MemoryStates, Files
<1>5. made \in Made
  BY <1>2, <1>4 DEF Made, Times, Memory!None
<1>6. \A n \in Names : /\ made[n] \in Int /\ l.at[n] \in Int /\ made[n] <= l.at[n]
                       /\ made[n] = Memory!None <=> l.at[n] = Memory!None
                       /\ l.at[n] <= m.now => made[n] = l.at[n]
  BY <1>2, <1>4 DEF Made, Times, Memory!None
<1> HIDE DEF made
<1>7. /\ m' \in MemoryStates /\ m'.at = made /\ m'.loaded /\ m'.now = l.now
      /\ m'.stepped = l.stepped /\ m'.up /\ m'.failed = l.failed /\ m'.pending = l.pending
      /\ m'.timer = l.timer /\ m'.file = l.file /\ m'.removing = l.removing
      /\ m'.pruned = l.pruned /\ m'.away = l.away /\ m'.evicted = l.evicted
  BY <1>2, <1>3, <1>5 DEF MemoryStates
<1>8. NothingIsLater(m)'
  BY <1>2, <1>6, <1>7 DEF NothingIsLater
<1>9. Memory!OldestLeaves'
  BY <1>2, <1>6, <1>7 DEF Memory!OldestLeaves, Memory!Present, NothingIsLater
<1>10. Memory!SavedOrQueued'
  <2>1. Memory!OnDisk(m)' = Memory!OnDisk(l)
    BY <1>7 DEF Memory!OnDisk
  <2>2. \A n \in Names : Memory!OnDisk(l)[n] \in Int
    BY <1>4 DEF Made, Times
  <2> QED
    BY <1>2, <1>6, <1>7, <2>1, <2>2 DEF Memory!SavedOrQueued
<1>11. Memory!QueueIsArmed'
  BY <1>1, <1>2, <1>7 DEF MemoryInv, Memory!MemoryIsKept, Memory!QueueIsArmed
<1> QED
  BY <1>2, <1>7, <1>8, <1>9, <1>10, <1>11 DEF MemoryInv, Memory!MemoryIsKept

LEMMA RemovalStep ==
  ASSUME MemoryInv, NEW S \in SUBSET Names, NEW ok \in BOOLEAN,
         Memory!Removes(S) \/ Memory!RemovalSettles(ok)
  PROVE  MemoryInv'
<1>0. m \in MemoryStates /\ m.now \in Int /\ m.now >= 0 /\ m.at \in Made /\ m.away \in Made
      /\ m.evicted \in Made
  BY DEF MemoryInv, MemoryStates
<1>1. CASE Memory!Removes(S)
  <2> DEFINE away == [n \in Names |-> IF n \in S THEN m.at[n] ELSE Memory!None]
             left == [n \in Names |-> IF n \in S THEN Memory!None ELSE m.at[n]]
             x == [m EXCEPT !.removing = S, !.events = m.events + 1]
  <2>1. m' = [x EXCEPT !.away = away, !.at = left] /\ S # {} /\ m.up /\ m.loaded
    BY <1>0, <1>1 DEF Memory!Removes, MemoryStates
  <2>2. away \in Made /\ left \in Made
    BY <1>0 DEF Made, Times, Memory!None
  <2>3. \A n \in Names : /\ away[n] = m.at[n] \/ away[n] = Memory!None
                         /\ left[n] = m.at[n] \/ left[n] = Memory!None
    OBVIOUS
  <2> HIDE DEF away, left
  <2>4. /\ x \in MemoryStates /\ x.now = m.now /\ x.stepped = m.stepped /\ x.up = m.up
        /\ x.loaded = m.loaded /\ x.pending = m.pending /\ x.timer = m.timer /\ x.file = m.file
        /\ x.evicted = m.evicted /\ x.removing = S
    <3>1. PICK events \in Int : events = m.events + 1
      BY <1>0 DEF MemoryStates
    <3>2. x = [m EXCEPT !.removing = S, !.events = events]
      BY <3>1
    <3> HIDE DEF x
    <3> QED
      BY <1>0, <3>2 DEF MemoryStates
  <2> HIDE DEF x
  <2>5. /\ m' \in MemoryStates /\ m'.now = m.now /\ m'.stepped = m.stepped /\ m'.up = m.up
        /\ m'.loaded = m.loaded /\ m'.pending = m.pending /\ m'.timer = m.timer
        /\ m'.file = m.file /\ m'.evicted = m.evicted /\ m'.removing = S
        /\ m'.at = left /\ m'.away = away
    BY <2>1, <2>2, <2>4 DEF MemoryStates
  <2>6. NothingIsLater(m)'
    BY <1>0, <2>3, <2>5 DEF MemoryInv, NothingIsLater, Memory!None
  <2>7. Memory!OldestLeaves'
    BY <2>3, <2>5 DEF MemoryInv, Memory!MemoryIsKept, Memory!OldestLeaves, Memory!Present
  <2> QED
    BY <2>1, <2>5, <2>6, <2>7 DEF MemoryInv, Memory!MemoryIsKept, Memory!QueueIsArmed,
       Memory!SavedOrQueued
<1>2. CASE Memory!RemovalSettles(ok)
  <2> DEFINE s == [m EXCEPT !.removing = {}, !.away = Memory!Empty]
             back == [n \in Names |-> IF n \in m.removing THEN m.away[n] ELSE m.at[n]]
             t == [s EXCEPT !.at = back, !.evicted = Memory!Empty, !.pruned = m.pruned \ m.removing]
  <2>1. /\ m.up
        /\ m' = Memory!Scheduled(
                  IF ok THEN s
                  ELSE [s EXCEPT
                          !.at = [n \in Names |-> IF n \in m.removing THEN m.away[n] ELSE @[n]],
                          !.evicted = Memory!Empty, !.pruned = @ \ m.removing])
    BY Zenon, <1>2 DEF Memory!RemovalSettles
  <2>2. /\ s \in MemoryStates /\ s.now = m.now /\ s.stepped = m.stepped /\ s.up = m.up
        /\ s.file = m.file /\ s.evicted = m.evicted /\ s.at = m.at /\ s.away = Memory!Empty
        /\ s.loaded = m.loaded /\ s.pruned = m.pruned
    BY <1>0, EmptyTable DEF MemoryStates
  <2>3. m' = Memory!Scheduled(IF ok THEN s ELSE t)
    BY <2>1, <2>2
  <2>4. back \in Made
    BY <1>0 DEF Made, Times, Memory!None
  <2>5. \A n \in Names : back[n] = m.away[n] \/ back[n] = m.at[n]
    OBVIOUS
  <2>6. \A n \in Names : Memory!Empty[n] = Memory!None
    BY DEF Memory!Empty
  <2> HIDE DEF s, back
  <2>7. /\ t \in MemoryStates /\ t.now = m.now /\ t.stepped = m.stepped /\ t.up = m.up
        /\ t.file = m.file /\ t.evicted = Memory!Empty /\ t.at = back /\ t.away = Memory!Empty
        /\ t.loaded = m.loaded
    BY <2>2, <2>4, EmptyTable DEF MemoryStates
  <2> HIDE DEF t
  <2>8. NothingIsLater(s) /\ NothingIsLater(t)
    BY <1>0, <2>2, <2>5, <2>6, <2>7 DEF MemoryInv, NothingIsLater, Memory!None
  <2>9. ~s.stepped => \A n \in Names, o \in Memory!Present(s.at) : s.evicted[n] <= s.at[o]
    BY <2>1, <2>2 DEF MemoryInv, Memory!MemoryIsKept, Memory!OldestLeaves
  <2>10. \A n \in Names, o \in Memory!Present(t.at) : t.evicted[n] <= t.at[o]
    BY <2>4, <2>6, <2>7 DEF Memory!Present, Made, Times
  <2>11. m.loaded
    BY <1>2, <2>1 DEF Memory!RemovalSettles, MemoryInv
  <2>12. CASE ok
    BY <2>2, <2>3, <2>8, <2>9, <2>11, <2>12, Queues
  <2>13. CASE ~ok
    BY <2>3, <2>7, <2>8, <2>10, <2>11, <2>13, Queues
  <2> QED
    BY <2>12, <2>13
<1> QED
  BY <1>1, <1>2

LEMMA ClockStep == ASSUME MemoryInv, Memory!Tick \/ Memory!StepBack PROVE MemoryInv'
<1>0. m \in MemoryStates /\ m.now \in Int /\ m.now >= 0 /\ m.stepped \in BOOLEAN
  BY DEF MemoryInv, MemoryStates
<1>1. PICK now \in Int, events \in Int, stepped \in BOOLEAN :
        /\ m' = [m EXCEPT !.now = now, !.stepped = stepped, !.events = events]
        /\ now >= 0 /\ (stepped \/ (now >= m.now /\ stepped = m.stepped))
  <2>1. CASE Memory!Tick
    <3>1. PICK now \in Int : now = m.now + 1
      BY <1>0
    <3>2. m' = [m EXCEPT !.now = now, !.stepped = m.stepped, !.events = m.events]
      BY <1>0, <2>1, <3>1 DEF Memory!Tick, MemoryStates
    <3>3. m.events \in Int /\ now >= 0 /\ now >= m.now
      BY <1>0, <3>1 DEF MemoryStates
    <3> QED
      BY <1>0, <3>2, <3>3
  <2>2. CASE Memory!StepBack
    <3>1. PICK now \in Int : now = 0
      OBVIOUS
    <3>2. PICK events \in Int : events = m.events + 1
      BY <1>0 DEF MemoryStates
    <3>0. PICK stepped \in BOOLEAN : stepped = TRUE
      OBVIOUS
    <3>3. m' = [m EXCEPT !.now = now, !.stepped = stepped, !.events = events]
      BY <2>2, <3>0, <3>1, <3>2 DEF Memory!StepBack
    <3>4. now >= 0 /\ stepped
      BY <3>0, <3>1
    <3> QED
      BY Zenon, <3>3, <3>4
  <2> QED
    BY <2>1, <2>2
<1>2. /\ m' \in MemoryStates /\ m'.now = now /\ m'.stepped = stepped /\ m'.up = m.up
      /\ m'.loaded = m.loaded /\ m'.pending = m.pending /\ m'.timer = m.timer
      /\ m'.file = m.file /\ m'.evicted = m.evicted /\ m'.removing = m.removing
      /\ m'.at = m.at /\ m'.away = m.away /\ m'.failed = m.failed /\ m'.pruned = m.pruned
  BY <1>0, <1>1 DEF MemoryStates
<1>3. NothingIsLater(m)'
  <2> SUFFICES ASSUME ~stepped
               PROVE  \A n \in Names : /\ m.at[n] <= now /\ m.away[n] <= now
                                       /\ m.evicted[n] <= now /\ m.file.at[n] <= now
    BY <1>2 DEF NothingIsLater
  <2>1. \A n \in Names : m.at[n] \in Int /\ m.away[n] \in Int /\ m.evicted[n] \in Int
                         /\ m.file.at[n] \in Int
    BY <1>0 DEF MemoryStates, Files, Made, Times
  <2> QED
    BY <1>0, <1>1, <2>1 DEF MemoryInv, NothingIsLater
<1>4. Memory!OldestLeaves' /\ Memory!QueueIsArmed'
  BY <1>1, <1>2 DEF MemoryInv, Memory!MemoryIsKept, Memory!OldestLeaves, Memory!QueueIsArmed
<1>5. Memory!SavedOrQueued'
  <2>1. Memory!OnDisk(m)' = Memory!OnDisk(m)
    BY <1>2 DEF Memory!OnDisk
  <2> QED
    BY <1>2, <2>1 DEF MemoryInv, Memory!MemoryIsKept, Memory!SavedOrQueued
<1> QED
  BY <1>1, <1>2, <1>3, <1>4, <1>5 DEF MemoryInv, Memory!MemoryIsKept

LEMMA MemoryStep == ASSUME MemoryInv, [Memory!Next]_m PROVE MemoryInv'
<1>1. CASE UNCHANGED m
  BY <1>1 DEF MemoryInv, Memory!MemoryIsKept, Memory!OldestLeaves, Memory!QueueIsArmed,
     Memory!SavedOrQueued, NothingIsLater, Memory!OnDisk
<1>2. ASSUME NEW works \in BOOLEAN, Memory!TimerFires(works) \/ Memory!Stops(works) PROVE MemoryInv'
  BY <1>2, FileStep
<1>3. ASSUME NEW name \in Names, Memory!Records(name) \/ Memory!Reads(name) PROVE MemoryInv'
  BY <1>3, RecordStep, LookUpStep
<1>4. ASSUME NEW S \in SUBSET Names, Memory!Removes(S) PROVE MemoryInv'
  BY <1>4, RemovalStep
<1>5. ASSUME NEW ok \in BOOLEAN, Memory!RemovalSettles(ok) PROVE MemoryInv'
  BY <1>5, RemovalStep
<1>6. CASE Memory!Dies \/ Memory!Starts
  BY Zenon, <1>6, FileStep
<1>7. CASE Memory!Tick \/ Memory!StepBack
  BY <1>7, ClockStep
<1> QED
  BY <1>1, <1>2, <1>3, <1>4, <1>5, <1>6, <1>7 DEF Memory!Next

-----------------------------------------------------------------------------
(* The capability probe: what it knows of a model, it was told                *)

ProbeFields == {"at", "left", "accepted", "unknown", "saw", "silent", "run", "entry", "fresh",
                "file", "restarts", "reasoned", "silences", "missed", "lost", "unproven",
                "unearned"}
EntryFields == {"modes", "supported", "control", "rejected", "none"}
EntryShape(e) ==
  /\ DOMAIN e = EntryFields /\ e.modes \subseteq Probe!Modes /\ e.supported \in BOOLEAN
  /\ e.control \in Probe!Controls /\ e.none \in BOOLEAN /\ (e.none => e.modes = {})

\* What a probe counts is what the replies tell: evidence, silent probes in a row, and the
\* modes that one probe missed and the entry still holds.
ProbeInv ==
  /\ DOMAIN m = ProbeFields /\ EntryShape(m.entry)
  /\ m.left \subseteq Probe!Modes /\ m.accepted \subseteq Probe!Modes
  /\ m.unknown \subseteq Probe!Modes
  /\ m.saw \in BOOLEAN /\ m.silent \in BOOLEAN /\ m.reasoned \in BOOLEAN
  /\ m.saw = m.reasoned /\ (m.at # "candidates" => ~m.reasoned)
  /\ m.run \in {0, 1} /\ m.silences \in 0 .. 2 /\ (m.run = 1 => m.silences >= 1)
  /\ m.entry.modes # {} => m.entry.rejected \subseteq m.entry.modes \cap m.missed
  /\ ~m.lost /\ ~m.unproven /\ ~m.unearned

-----------------------------------------------------------------------------

LEMMA NoneIsShaped == EntryShape(Probe!None)
  BY DEF EntryShape, EntryFields, Probe!None, Probe!Controls

LEMMA EntriesAreShaped ==
  ASSUME NEW modes \in SUBSET Probe!Modes, NEW supported \in BOOLEAN,
         NEW control \in Probe!Controls,
         NEW rejected
  PROVE  LET e == Probe!Entry(modes, supported, control, rejected)
         IN /\ EntryShape(e) /\ ~e.none /\ e.modes = modes /\ e.rejected = rejected
            /\ (e.supported <=> supported) /\ e.control = control
  BY DEF EntryShape, EntryFields, Probe!Entry

\* A repair takes modes away or leaves them.

LEMMA RepairDoes ==
  ASSUME NEW e, EntryShape(e)
  PROVE  /\ EntryShape(Probe!Repair(e)) /\ Probe!Repair(e).rejected = e.rejected
         /\ Probe!Repair(e).modes = e.modes \/ Probe!Repair(e).modes = {}
<1> DEFINE t == [e EXCEPT !.control = "null", !.modes = IF e.supported THEN {} ELSE e.modes]
<1>1. Probe!Repair(e) = e \/ Probe!Repair(e) = t
  BY DEF Probe!Repair, EntryShape, Probe!Controls
<1>2. /\ DOMAIN t = EntryFields /\ t.supported = e.supported /\ t.none = e.none
      /\ t.rejected = e.rejected /\ t.modes = IF e.supported THEN {} ELSE e.modes
  BY DEF EntryShape, EntryFields
<1>3. t.control = "null"
  BY DEF EntryShape, EntryFields
<1> HIDE DEF t
<1> QED
  BY <1>1, <1>2, <1>3 DEF EntryShape, Probe!Controls

LEMMA LoadedDoes ==
  ASSUME NEW q, DOMAIN q = ProbeFields, NEW entry, EntryShape(entry), NEW fresh
  PROVE  LET s == Probe!Loaded(q, entry, fresh)
         IN /\ DOMAIN s = ProbeFields /\ s.entry = Probe!Repair(entry)
            /\ s.at = "idle" /\ s.left = {}
            /\ s.accepted = {} /\ s.unknown = {} /\ s.saw = FALSE /\ s.silent = FALSE
            /\ s.reasoned = FALSE /\ s.run = 0 /\ s.silences = q.silences /\ s.missed = q.missed
            /\ s.lost = q.lost /\ s.unproven = q.unproven /\ s.unearned = q.unearned
  BY DEF Probe!Loaded, Probe!Cleared, ProbeFields

LEMMA ProbeStart == Probe!Init => ProbeInv
<1> SUFFICES ASSUME Probe!Init PROVE ProbeInv
  OBVIOUS
<1>1. ASSUME NEW file, m = Probe!Fresh0(file) PROVE ProbeInv
  BY <1>1, NoneIsShaped DEF ProbeInv, ProbeFields, Probe!Fresh0, Probe!None
<1>2. ASSUME NEW control \in Probe!Controls, NEW supported \in BOOLEAN, NEW fresh,
             m = Probe!Loaded(Probe!Fresh0(TRUE),
                              Probe!Entry(Probe!Modes, supported, control, {}), fresh)
      PROVE  ProbeInv
  <2> DEFINE e == Probe!Entry(Probe!Modes, supported, control, {})
             q == Probe!Fresh0(TRUE)
  <2>1. EntryShape(e) /\ e.rejected = {}
    BY EntriesAreShaped
  <2>2. /\ DOMAIN q = ProbeFields /\ q.silences = 0 /\ q.missed = {} /\ q.lost = FALSE
        /\ q.unproven = FALSE /\ q.unearned = FALSE
    BY DEF Probe!Fresh0, ProbeFields
  <2>3. m = Probe!Loaded(q, e, fresh)
    BY <1>2
  <2> HIDE DEF e, q
  <2>6. /\ DOMAIN m = ProbeFields /\ m.entry = Probe!Repair(e) /\ m.at = "idle" /\ m.left = {}
        /\ m.accepted = {} /\ m.unknown = {} /\ m.saw = FALSE /\ m.silent = FALSE
        /\ m.reasoned = FALSE /\ m.run = 0 /\ m.silences = q.silences
        /\ m.lost = q.lost /\ m.unproven = q.unproven /\ m.unearned = q.unearned
    BY <2>2, <2>3 DEF Probe!Loaded, Probe!Cleared, ProbeFields
  <2>4. /\ DOMAIN m = ProbeFields /\ m.entry = Probe!Repair(e) /\ m.at = "idle" /\ m.left = {}
        /\ m.accepted = {} /\ m.unknown = {} /\ m.saw = FALSE /\ m.silent = FALSE
        /\ m.reasoned = FALSE /\ m.run = 0 /\ m.silences = 0
        /\ m.lost = FALSE /\ m.unproven = FALSE /\ m.unearned = FALSE
    BY <2>2, <2>6
  <2>5. EntryShape(m.entry) /\ m.entry.rejected = {}
    BY <2>1, <2>4, RepairDoes
  <2>7. /\ m.saw \in BOOLEAN /\ m.silent \in BOOLEAN /\ m.reasoned \in BOOLEAN
        /\ m.saw = m.reasoned /\ ~m.reasoned /\ ~m.lost /\ ~m.unproven /\ ~m.unearned
    BY <2>4
  <2>8. /\ DOMAIN m = ProbeFields /\ m.left \subseteq Probe!Modes
        /\ m.accepted \subseteq Probe!Modes
        /\ m.unknown \subseteq Probe!Modes /\ m.run = 0 /\ m.silences = 0
    BY <2>4
  <2> QED
    BY <2>5, <2>7, <2>8 DEF ProbeInv
<1> QED
  BY <1>1, <1>2 DEF Probe!Init, Probe!Controls

\* A verdict on an entry: a mode goes only when it was missed before, and the modes that

\* were kept without being seen are the ones marked.
LEMMA ReconcileDoes ==
  ASSUME NEW old, NEW new, NEW missed, EntryShape(old), EntryShape(new), ~new.none,
         new.rejected = {}, new.supported /\ new.control = "null" => new.modes = {},
         old.modes # {} => old.rejected \subseteq old.modes \cap missed
  PROVE  LET e == Probe!Reconcile(old, new)
         IN /\ EntryShape(e) /\ (e.supported <=> new.supported)
            /\ ~(e.supported /\ e.control = "null") => old.modes \subseteq e.modes \cup missed
            /\ e.modes # {} => e.rejected \subseteq e.modes \cap (e.modes \ new.modes)
<1> DEFINE held == (old.modes \ new.modes) \ old.rejected
           kept == IF new.supported /\ new.control = "null" THEN {} ELSE new.modes \cup held
           e == [new EXCEPT !.modes = kept, !.rejected = (old.rejected \ old.modes) \cup held]
<1>1. CASE old.none \/ old.modes = {}
  <2>1. Probe!Reconcile(old, new) = new /\ old.modes = {}
    BY <1>1 DEF Probe!Reconcile, EntryShape
  <2> QED
    BY <2>1
<1>2. CASE ~(old.none \/ old.modes = {})
  <2>1. Probe!Reconcile(old, new) = e
    BY <1>2 DEF Probe!Reconcile
  <2>2. /\ DOMAIN e = EntryFields /\ e.modes = kept /\ e.supported = new.supported
        /\ e.control = new.control /\ e.none = new.none
        /\ e.rejected = (old.rejected \ old.modes) \cup held
    BY DEF EntryShape, EntryFields
  <2> HIDE DEF e
  <2>3. e.rejected = held
    BY <1>2, <2>2
  <2>4. kept \subseteq Probe!Modes
    BY DEF EntryShape
  <2>5. EntryShape(e)
    BY <2>2, <2>4 DEF EntryShape
  <2>6. e.supported <=> new.supported
    BY <2>2
  <2>7. ~(e.supported /\ e.control = "null") => kept = new.modes \cup held
    BY <2>2
  <2>8. kept # {} => kept = new.modes \cup held
    OBVIOUS
  <2>9. held \cap new.modes = {}
    OBVIOUS
  <2>10. old.modes \subseteq new.modes \cup held \cup missed
    BY <1>2
  <2> HIDE DEF kept, held
  <2>11. ~(e.supported /\ e.control = "null") => old.modes \subseteq e.modes \cup missed
    BY <2>2, <2>7, <2>10
  <2>12. e.modes # {} => e.rejected \subseteq e.modes \cap (e.modes \ new.modes)
    BY <2>2, <2>3, <2>8, <2>9
  <2> QED
    BY <2>1, <2>5, <2>6, <2>11, <2>12
<1> QED
  BY <1>1, <1>2

\* What may end a probe.

LEMMA VerdictIs ==
  ASSUME ProbeInv, ~Probe!Verdict(m).none
  PROVE  LET v == Probe!Verdict(m)
         IN /\ EntryShape(v) /\ v.rejected = {}
            /\ v.supported /\ v.control = "null" => v.modes = {}
            /\ v.supported => m.saw
            /\ ~v.supported => Probe!Refused(m) \/ Probe!Silences(m) >= 2
<1> DEFINE v == Probe!Verdict(m)
<1> SUFFICES /\ EntryShape(v) /\ v.rejected = {}
             /\ v.supported /\ v.control = "null" => v.modes = {}
             /\ v.supported => m.saw
             /\ ~v.supported => Probe!Refused(m) \/ Probe!Silences(m) >= 2
  OBVIOUS
<1>1. m.accepted \cup m.unknown \subseteq Probe!Modes /\ {} \subseteq Probe!Modes
  BY DEF ProbeInv
<1>2. \/ v = Probe!Entry({}, TRUE, "null", {}) /\ m.saw
      \/ v = Probe!Entry({}, FALSE, "null", {}) /\ m.accepted = {} /\ m.unknown = {} /\ ~m.saw
      \/ v = Probe!Entry(m.accepted \cup m.unknown, TRUE, "effort", {}) /\ m.saw
      \/ /\ v = Probe!Entry(m.accepted \cup m.unknown, FALSE, "null", {})
         /\ m.accepted # {} /\ ~m.saw /\ m.silent /\ m.run = 1
      \/ v = Probe!None
  BY DEF Probe!Verdict
<1>3. v # Probe!None
  BY DEF Probe!None
<1> HIDE DEF v
<1>4. CASE v = Probe!Entry({}, TRUE, "null", {}) /\ m.saw
  BY <1>1, <1>4 DEF Probe!Entry, EntryShape, EntryFields, Probe!Controls
<1>5. CASE v = Probe!Entry({}, FALSE, "null", {}) /\ m.accepted = {} /\ m.unknown = {} /\ ~m.saw
  <2>1. Probe!Refused(m)
    BY <1>5 DEF Probe!Refused, ProbeInv
  <2> QED
    BY <1>1, <1>5, <2>1 DEF Probe!Entry, EntryShape, EntryFields, Probe!Controls
<1>6. CASE v = Probe!Entry(m.accepted \cup m.unknown, TRUE, "effort", {}) /\ m.saw
  BY <1>1, <1>6 DEF Probe!Entry, EntryShape, EntryFields, Probe!Controls
<1>7. CASE /\ v = Probe!Entry(m.accepted \cup m.unknown, FALSE, "null", {})
           /\ m.accepted # {} /\ ~m.saw /\ m.silent /\ m.run = 1
  <2>1. ~Probe!Refused(m) /\ ~m.reasoned /\ m.silences \in 1 .. 2
    BY <1>7 DEF Probe!Refused, ProbeInv
  <2>2. Probe!Silences(m) >= 2
    BY <1>7, <2>1 DEF Probe!Silences
  <2> QED
    BY <1>1, <1>7, <2>2 DEF Probe!Entry, EntryShape, EntryFields, Probe!Controls
<1> QED
  BY <1>2, <1>3, <1>4, <1>5, <1>6, <1>7

LEMMA StartsKeeps == ProbeInv /\ Probe!Starts => ProbeInv'
<1> SUFFICES ASSUME ProbeInv, Probe!Starts PROVE ProbeInv'
  OBVIOUS
<1>1. m' = [m EXCEPT !.at = "sentinel"] /\ m.at # "candidates"
  BY DEF Probe!Starts
<1> QED
  BY <1>1 DEF ProbeInv, ProbeFields

LEMMA AgesKeeps == ProbeInv /\ Probe!Ages => ProbeInv'
<1> SUFFICES ASSUME ProbeInv, Probe!Ages PROVE ProbeInv'
  OBVIOUS
<1>1. m' = [m EXCEPT !.fresh = FALSE]
  BY DEF Probe!Ages
<1> QED
  BY <1>1 DEF ProbeInv, ProbeFields

LEMMA SentinelKeeps ==
  ASSUME ProbeInv, NEW reply, NEW listed \in {{}, {"high"}}, Probe!Sentinel(reply, listed)
  PROVE  ProbeInv'
<1>1. listed \subseteq Probe!Modes
  BY DEF Probe!Modes
<1>2. m.at = "sentinel" /\ ~m.reasoned
  BY DEF Probe!Sentinel, ProbeInv
<1>3. CASE reply = "unknown"
  <2>1. m' = [m EXCEPT !.at = "idle", !.run = 0, !.silences = 0]
    BY <1>3 DEF Probe!Sentinel
  <2> QED
    BY <1>2, <2>1 DEF ProbeInv, ProbeFields
<1>4. CASE reply = "rejected"
  <2>1. m' = [m EXCEPT !.at = "candidates", !.left = IF listed = {} THEN Probe!Modes ELSE listed]
    BY <1>4 DEF Probe!Sentinel
  <2> QED
    BY <1>1, <2>1 DEF ProbeInv, ProbeFields
<1>5. CASE reply \notin {"unknown", "rejected"}
  <2>1. m' = [m EXCEPT !.at = "candidates", !.left = Probe!Modes, !.saw = reply = "reasoned",
                       !.reasoned = reply = "reasoned"]
    BY <1>5 DEF Probe!Sentinel
  <2> QED
    BY <2>1 DEF ProbeInv, ProbeFields
<1> QED
  BY <1>3, <1>4, <1>5

LEMMA CandidateKeeps == ASSUME ProbeInv, NEW reply, Probe!Candidate(reply) PROVE ProbeInv'
<1> DEFINE k == CHOOSE x \in m.left : \A y \in m.left : Probe!Rank[x] <= Probe!Rank[y]
           l == m.left \ {k}
           acc == m.accepted \cup (IF reply \in {"reasoned", "silent", "cut"} THEN {k} ELSE {})
           unk == m.unknown \cup (IF reply \in {"cut", "unknown"} THEN {k} ELSE {})
<1>1. k \in Probe!Modes
  <2>1. \E x \in m.left : \A y \in m.left : Probe!Rank[x] <= Probe!Rank[y]
    BY DEF Probe!Candidate, ProbeInv, Probe!Modes, Probe!Rank
  <2>2. k \in m.left
    BY <2>1
  <2> QED
    BY <2>2 DEF ProbeInv
<1>2. l \subseteq Probe!Modes /\ acc \subseteq Probe!Modes /\ unk \subseteq Probe!Modes
  BY <1>1 DEF ProbeInv
<1> DEFINE h == Probe!Heard(m, k, reply)
<1>3. m' = [h EXCEPT !.left = @ \ {k}, !.reasoned = @ \/ reply = "reasoned"]
  BY DEF Probe!Candidate
<1>4. /\ DOMAIN h = ProbeFields /\ h.accepted = acc /\ h.unknown = unk /\ h.at = m.at
      /\ h.left = m.left /\ h.entry = m.entry /\ h.run = m.run /\ h.silences = m.silences
      /\ h.missed = m.missed /\ h.lost = m.lost /\ h.unproven = m.unproven
      /\ h.unearned = m.unearned /\ h.reasoned = m.reasoned
  BY DEF Probe!Heard, ProbeInv, ProbeFields
<1>5. /\ h.saw \in BOOLEAN /\ (h.saw <=> m.saw \/ reply = "reasoned")
      /\ h.silent \in BOOLEAN
  BY DEF Probe!Heard, ProbeInv, ProbeFields
<1>6. m.at = "candidates"
  BY DEF Probe!Candidate
<1> HIDE DEF k, h, acc, unk
<1>7. /\ DOMAIN m' = ProbeFields /\ m'.accepted = acc /\ m'.unknown = unk
      /\ m'.at = h.at /\ m'.left = l /\ m'.entry = h.entry /\ m'.run = h.run
      /\ m'.silences = h.silences /\ m'.missed = h.missed /\ m'.lost = h.lost
      /\ m'.unproven = h.unproven /\ m'.unearned = h.unearned /\ m'.saw = h.saw
      /\ m'.silent = h.silent
  BY <1>3, <1>4 DEF ProbeFields
<1>8. m'.reasoned \in BOOLEAN /\ (m'.reasoned <=> m.reasoned \/ reply = "reasoned")
  BY <1>3, <1>4 DEF ProbeFields, ProbeInv
<1>9. m'.saw = m'.reasoned
  BY <1>5, <1>7, <1>8 DEF ProbeInv
<1> HIDE DEF l
<1> QED
  BY <1>2, <1>4, <1>5, <1>6, <1>7, <1>8, <1>9 DEF ProbeInv

LEMMA RestartsKeeps == ASSUME ProbeInv, NEW fresh, Probe!Restarts(fresh) PROVE ProbeInv'
<1> DEFINE q == [m EXCEPT !.restarts = @ + 1]
           s == IF m.file THEN Probe!Loaded(q, m.entry, fresh)
                ELSE Probe!Loaded(q, Probe!None, FALSE)
           e == IF m.file THEN m.entry ELSE Probe!None
<1>1. /\ DOMAIN q = ProbeFields /\ q.silences = m.silences /\ q.missed = m.missed
      /\ q.lost = m.lost /\ q.unproven = m.unproven /\ q.unearned = m.unearned
  BY DEF ProbeInv, ProbeFields
<1>2. m' = IF m.file THEN s ELSE [s EXCEPT !.missed = {}]
  BY DEF Probe!Restarts
<1> HIDE DEF q
<1>3. /\ DOMAIN s = ProbeFields /\ s.entry = Probe!Repair(e) /\ s.at = "idle" /\ s.left = {}
      /\ s.accepted = {} /\ s.unknown = {} /\ s.run = 0 /\ s.silences = q.silences
      /\ s.missed = q.missed /\ s.lost = q.lost /\ s.unproven = q.unproven
      /\ s.unearned = q.unearned
  BY <1>1 DEF Probe!Loaded, Probe!Cleared, ProbeFields
<1>4. s.saw \in BOOLEAN /\ s.silent \in BOOLEAN /\ s.reasoned \in BOOLEAN /\ ~s.saw /\ ~s.reasoned
  BY <1>1 DEF Probe!Loaded, Probe!Cleared, ProbeFields
<1> HIDE DEF s
<1>5. /\ DOMAIN m' = ProbeFields /\ m'.entry = s.entry /\ m'.at = s.at /\ m'.left = s.left
      /\ m'.accepted = s.accepted /\ m'.unknown = s.unknown /\ m'.run = s.run
      /\ m'.silences = s.silences /\ m'.lost = s.lost /\ m'.unproven = s.unproven
      /\ m'.unearned = s.unearned /\ m'.saw = s.saw /\ m'.silent = s.silent
      /\ m'.reasoned = s.reasoned /\ (m.file => m'.missed = s.missed)
  BY <1>2, <1>3 DEF ProbeFields
<1>6. EntryShape(e) /\ (e.modes # {} => m.file /\ e.rejected \subseteq e.modes \cap m.missed)
  BY NoneIsShaped DEF ProbeInv, Probe!None
<1>7. /\ EntryShape(m'.entry) /\ m'.entry.rejected = e.rejected
      /\ m'.entry.modes = e.modes \/ m'.entry.modes = {}
  BY <1>3, <1>5, <1>6, RepairDoes
<1>8. m'.entry.modes # {} => m'.entry.rejected \subseteq m'.entry.modes \cap m'.missed
  BY <1>1, <1>3, <1>5, <1>6, <1>7
<1>9. ~m'.lost /\ ~m'.unproven /\ ~m'.unearned
  BY <1>1, <1>3, <1>5 DEF ProbeInv
<1>10. m'.saw \in BOOLEAN /\ m'.silent \in BOOLEAN /\ m'.reasoned \in BOOLEAN
           /\ m'.saw = m'.reasoned
       /\ ~m'.reasoned
  BY <1>4, <1>5
<1>11. /\ m'.left \subseteq Probe!Modes /\ m'.accepted \subseteq Probe!Modes
       /\ m'.unknown \subseteq Probe!Modes
       /\ m'.run = 0 /\ m'.silences \in 0 .. 2 /\ DOMAIN m' = ProbeFields
  BY <1>1, <1>3, <1>5 DEF ProbeInv
<1> QED
  BY <1>7, <1>8, <1>9, <1>10, <1>11 DEF ProbeInv

\* The runs of silent probes that the verdict goes by are those the replies tell.

LEMMA RunsAreCounted ==
  ASSUME ProbeInv
  PROVE  Probe!Run(m) \in {0, 1} /\ Probe!Silences(m) \in 0 .. 2
            /\ (Probe!Run(m) = 1 => Probe!Silences(m) >= 1)
<1>1. CASE m.accepted = {} /\ m.unknown = {} /\ ~m.saw
  BY <1>1 DEF ProbeInv, Probe!Run, Probe!Silences, Probe!Refused
<1>2. CASE m.accepted # {} /\ ~m.saw /\ m.silent
  <2>1. Probe!Run(m) = (m.run + 1) % 2
            /\ Probe!Silences(m) = IF m.silences = 2 THEN 2 ELSE m.silences + 1
    BY <1>2 DEF ProbeInv, Probe!Run, Probe!Silences, Probe!Refused
  <2>2. (m.run + 1) % 2 \in {0, 1}
    BY DEF ProbeInv
  <2> QED
    BY <2>1, <2>2 DEF ProbeInv
<1>3. CASE /\ ~(m.accepted = {} /\ m.unknown = {} /\ ~m.saw)
           /\ ~(m.accepted # {} /\ ~m.saw /\ m.silent)
  <2>1. Probe!Run(m) = 0
    BY <1>3 DEF Probe!Run
  <2>2. Probe!Silences(m) \in {m.silences, 0, 2, m.silences + 1} /\ Probe!Silences(m) \in 0 .. 2
    BY DEF ProbeInv, Probe!Silences
  <2> QED
    BY <2>1, <2>2
<1> QED
  BY <1>1, <1>2, <1>3

LEMMA ConcludesKeeps == ProbeInv /\ Probe!Concludes => ProbeInv'
<1> SUFFICES ASSUME ProbeInv, Probe!Concludes PROVE ProbeInv'
  OBVIOUS
<1> DEFINE v == Probe!Verdict(m)
           e == Probe!Reconcile(m.entry, v)
           q == [m EXCEPT !.at = "idle", !.run = Probe!Run(m), !.silences = Probe!Silences(m)]
           c == Probe!Cleared(q)
<1>1. /\ DOMAIN c = ProbeFields /\ c.at = "idle" /\ c.left = {} /\ c.accepted = {}
      /\ c.unknown = {} /\ c.run = Probe!Run(m) /\ c.silences = Probe!Silences(m)
      /\ c.entry = m.entry
      /\ c.missed = m.missed /\ c.lost = m.lost /\ c.unproven = m.unproven
      /\ c.unearned = m.unearned
  BY DEF ProbeInv, ProbeFields, Probe!Cleared
<1>2. /\ c.saw \in BOOLEAN /\ c.silent \in BOOLEAN /\ c.reasoned \in BOOLEAN
      /\ ~c.saw /\ ~c.reasoned
  BY DEF ProbeInv, ProbeFields, Probe!Cleared
<1>3. Probe!Run(m) \in {0, 1} /\ Probe!Silences(m) \in 0 .. 2
          /\ (Probe!Run(m) = 1 => Probe!Silences(m) >= 1)
  BY RunsAreCounted
<1>4. CASE v.none
  <2>1. m' = c
    BY <1>4 DEF Probe!Concludes
  <2> HIDE DEF c
  <2> QED
    BY <1>1, <1>2, <1>3, <2>1 DEF ProbeInv
<1>5. CASE ~v.none
  <2>1. m' = [c EXCEPT !.entry = e, !.fresh = TRUE, !.missed = e.modes \ v.modes,
                       !.lost = /\ ~(e.supported /\ e.control = "null")
                                /\ m.entry.modes \ (e.modes \cup m.missed) # {},
                       !.unproven = e.supported /\ ~m.reasoned,
                       !.unearned = ~e.supported /\ ~Probe!Refused(m) /\ Probe!Silences(m) < 2]
    BY <1>5 DEF Probe!Concludes
  <2>2. /\ EntryShape(v) /\ v.rejected = {} /\ (v.supported /\ v.control = "null" => v.modes = {})
        /\ v.supported => m.saw
        /\ ~v.supported => Probe!Refused(m) \/ Probe!Silences(m) >= 2
    BY <1>5, VerdictIs
  <2> HIDE DEF v, c
  <2>3. /\ EntryShape(e) /\ (e.supported <=> v.supported)
        /\ ~(e.supported /\ e.control = "null") => m.entry.modes \subseteq e.modes \cup m.missed
        /\ e.modes # {} => e.rejected \subseteq e.modes \cap (e.modes \ v.modes)
    BY <1>5, <2>2, ReconcileDoes DEF ProbeInv
  <2> HIDE DEF e
  <2>4. /\ DOMAIN m' = ProbeFields /\ m'.entry = e /\ m'.missed = e.modes \ v.modes
        /\ m'.at = c.at /\ m'.left = c.left /\ m'.accepted = c.accepted
        /\ m'.unknown = c.unknown /\ m'.run = c.run /\ m'.silences = c.silences
        /\ m'.saw = c.saw /\ m'.silent = c.silent /\ m'.reasoned = c.reasoned
    BY <1>1, <2>1 DEF ProbeFields
  <2>5. ~m'.lost
    BY <1>1, <2>1, <2>3 DEF ProbeFields
  <2>6. ~m'.unproven
    BY <1>1, <2>1, <2>2, <2>3 DEF ProbeFields, ProbeInv
  <2>7. ~m'.unearned
    <3>1. m'.unearned = (~e.supported /\ ~Probe!Refused(m) /\ Probe!Silences(m) < 2)
      BY <1>1, <2>1 DEF ProbeFields
    <3>2. ~(~e.supported /\ ~Probe!Refused(m) /\ Probe!Silences(m) < 2)
      <4>1. ~e.supported => Probe!Refused(m) \/ Probe!Silences(m) >= 2
        BY <2>2, <2>3
      <4>2. Probe!Silences(m) \in Int
        BY <1>3
      <4> HIDE DEF Probe!Refused, Probe!Silences
      <4>3. Probe!Silences(m) >= 2 => ~(Probe!Silences(m) < 2)
        BY <4>2
      <4> QED
        BY <4>1, <4>3
    <3> QED
      BY <3>1, <3>2
  <2>8. m'.saw \in BOOLEAN /\ m'.silent \in BOOLEAN /\ m'.reasoned \in BOOLEAN
            /\ m'.saw = m'.reasoned
        /\ ~m'.reasoned
    BY <1>2, <2>4
  <2> QED
    BY <1>1, <1>3, <2>3, <2>4, <2>5, <2>6, <2>7, <2>8 DEF ProbeInv
<1> QED
  BY <1>4, <1>5

LEMMA ProbeStep == ProbeInv /\ [Probe!Next]_m => ProbeInv'
<1>1. ASSUME ProbeInv, UNCHANGED m PROVE ProbeInv'
  BY <1>1 DEF ProbeInv
<1> QED
  BY <1>1, StartsKeeps, AgesKeeps, SentinelKeeps, CandidateKeeps, ConcludesKeeps, RestartsKeeps
     DEF Probe!Next

-----------------------------------------------------------------------------

\* What the registry holds.

LEMMA RowsAre ==
  ASSUME NEW row \in Probe!Registry
  PROVE  /\ row.known \in BOOLEAN /\ row.supported \in BOOLEAN /\ row.curated \in BOOLEAN
         /\ row.exempt \in BOOLEAN /\ row.control \in {"null", "effort", "kwargs"}
         /\ row.modes \subseteq Probe!Modes /\ (row.supported => row.known)
         /\ row.curated => row.supported /\ row.control = "effort" /\ row.modes = {"high"}
         /\ row.curated => ~row.exempt
         /\ ~row.supported => row.control = "null"
         /\ row.control = "null" => row.modes = {}
         /\ row.control = "kwargs" => row.supported /\ row.modes = {} /\ ~row.exempt
         /\ row.control = "effort" => row.modes # {} /\ row.supported
<1>1. \/ row = Probe!Row(FALSE, FALSE, "null", {}, FALSE, FALSE)
      \/ row = Probe!Row(TRUE, FALSE, "null", {}, FALSE, FALSE)
      \/ row = Probe!Row(TRUE, TRUE, "effort", Probe!Modes, FALSE, FALSE)
      \/ row = Probe!Row(TRUE, TRUE, "kwargs", {}, FALSE, FALSE)
      \/ row = Probe!Row(TRUE, TRUE, "effort", {"high"}, TRUE, FALSE)
      \/ row = Probe!Row(TRUE, TRUE, "null", {}, FALSE, TRUE)
  BY DEF Probe!Registry
<1>2. CASE row = Probe!Row(FALSE, FALSE, "null", {}, FALSE, FALSE)
  BY <1>2 DEF Probe!Row
<1>3. CASE row = Probe!Row(TRUE, FALSE, "null", {}, FALSE, FALSE)
  BY <1>3 DEF Probe!Row
<1>4. CASE row = Probe!Row(TRUE, TRUE, "effort", Probe!Modes, FALSE, FALSE)
  BY <1>4 DEF Probe!Row, Probe!Modes
<1>5. CASE row = Probe!Row(TRUE, TRUE, "kwargs", {}, FALSE, FALSE)
  BY <1>5 DEF Probe!Row
<1>6. CASE row = Probe!Row(TRUE, TRUE, "effort", {"high"}, TRUE, FALSE)
  BY <1>6 DEF Probe!Row, Probe!Modes
<1>7. CASE row = Probe!Row(TRUE, TRUE, "null", {}, FALSE, TRUE)
  BY <1>7 DEF Probe!Row
<1> QED
  BY <1>1, <1>2, <1>3, <1>4, <1>5, <1>6, <1>7

\* What a probe may add to a row.

LEMMA ResolveIs ==
  ASSUME NEW row \in Probe!Registry, NEW e, EntryShape(e), NEW fresh
  PROVE  LET adv == Probe!Resolve(row, e, fresh)
         IN \/ adv = Probe!Untrusted
            \/ adv = Probe!Advertised(TRUE, FALSE, "null", {}) /\ ~row.supported
            \/ adv = Probe!Advertised(TRUE, TRUE, "effort", {"high"}) /\ row.curated
            \/ /\ ~row.curated
               /\ \/ adv = Probe!Advertised(TRUE, TRUE, "null", e.modes)
                  \/ adv = Probe!Advertised(TRUE, TRUE, "effort", e.modes) /\ e.modes # {}
                  \/ adv = Probe!Advertised(TRUE, TRUE, "kwargs", e.modes)
<1> DEFINE adv == Probe!Resolve(row, e, fresh)
<1>1. /\ row.curated \in BOOLEAN /\ row.supported \in BOOLEAN
      /\ row.curated => row.control = "effort" /\ row.modes = {"high"}
  BY RowsAre
<1>2. CASE e.none \/ ~fresh \/ (~e.supported /\ row.supported)
  BY <1>2 DEF Probe!Resolve
<1>3. CASE ~e.none /\ fresh /\ ~e.supported /\ ~row.supported
  BY <1>3 DEF Probe!Resolve
<1>4. CASE ~e.none /\ fresh /\ e.supported /\ row.curated
  <2> DEFINE both == IF row.modes \cap e.modes = {} THEN row.modes ELSE row.modes \cap e.modes
  <2>1. adv = Probe!Advertised(TRUE, TRUE, row.control, both)
    BY <1>4 DEF Probe!Resolve
  <2>2. both = {"high"}
    BY <1>1, <1>4
  <2> QED
    BY <1>1, <1>4, <2>1, <2>2
<1>5. CASE ~e.none /\ fresh /\ e.supported /\ ~row.curated
  <2> DEFINE c == IF e.modes = {} THEN "null" ELSE Probe!ControlOf(e)
  <2>1. adv = Probe!Advertised(TRUE, TRUE, c, e.modes)
    BY <1>5 DEF Probe!Resolve
  <2>2. c \in {"null", "effort", "kwargs"} /\ (c = "effort" => e.modes # {})
    BY DEF Probe!ControlOf
  <2> QED
    BY <1>5, <2>1, <2>2
<1> QED
  BY <1>2, <1>3, <1>4, <1>5

\* The two views of a row agree, and an effort shown is one that is listed.

LEMMA ViewsAgree ==
  ASSUME NEW row \in Probe!Registry, NEW e, EntryShape(e), NEW fresh
  PROVE  LET adv == Probe!Resolve(row, e, fresh)
             s == Probe!Shown(row, adv)
             b == Probe!Believed(row, adv)
         IN /\ s.supported \in BOOLEAN /\ (b.supported <=> s.supported)
            /\ b.control = s.control /\ b.modes = s.modes
            /\ s.modes \subseteq Probe!Modes /\ s.control \in {"null", "effort", "kwargs"}
            /\ s.control = "effort" => s.modes # {} /\ s.supported
            /\ row.supported => s.supported
            /\ row.curated => s.modes = {"high"}
            /\ row.curated => Probe!ChatDefault(row, adv) = Probe!Pick({"high"})
<1> DEFINE adv == Probe!Resolve(row, e, fresh)
           s == Probe!Shown(row, adv)
           b == Probe!Believed(row, adv)
           Agree == /\ s.supported \in BOOLEAN /\ (b.supported <=> s.supported)
                    /\ b.control = s.control /\ b.modes = s.modes
                    /\ s.modes \subseteq Probe!Modes /\ s.control \in {"null", "effort", "kwargs"}
                    /\ s.control = "effort" => s.modes # {} /\ s.supported
                    /\ row.supported => s.supported
                    /\ row.curated => s.modes = {"high"}
                    /\ row.curated => Probe!ChatDefault(row, adv) = Probe!Pick({"high"})
<1> SUFFICES Agree
  OBVIOUS
<1>1. /\ row.supported \in BOOLEAN /\ row.curated \in BOOLEAN
      /\ row.exempt \in BOOLEAN /\ row.control \in {"null", "effort", "kwargs"}
      /\ row.modes \subseteq Probe!Modes
      /\ row.curated => row.supported /\ row.control = "effort" /\ row.modes = {"high"}
      /\ row.curated => ~row.exempt
      /\ ~row.supported => row.control = "null"
      /\ row.control = "null" => row.modes = {}
      /\ row.control = "kwargs" => row.supported /\ row.modes = {} /\ ~row.exempt
      /\ row.control = "effort" => row.modes # {} /\ row.supported
  BY RowsAre
<1>2. e.modes \subseteq Probe!Modes
  BY DEF EntryShape
<1>3. \/ adv = Probe!Untrusted
      \/ adv = Probe!Advertised(TRUE, FALSE, "null", {}) /\ ~row.supported
      \/ adv = Probe!Advertised(TRUE, TRUE, "effort", {"high"}) /\ row.curated
      \/ /\ ~row.curated
         /\ \/ adv = Probe!Advertised(TRUE, TRUE, "null", e.modes)
            \/ adv = Probe!Advertised(TRUE, TRUE, "effort", e.modes) /\ e.modes # {}
            \/ adv = Probe!Advertised(TRUE, TRUE, "kwargs", e.modes)
  BY ResolveIs
<1> HIDE DEF adv
<1>4. CASE adv = Probe!Untrusted \/ row.exempt
  <2>3. row.exempt \/ ~adv.trusted
    BY <1>4 DEF Probe!Untrusted, Probe!Advertised
  <2>4. s = Probe!Said(row.supported, row.control, row.modes)
    BY <2>3 DEF Probe!Shown
  <2>5. b = Probe!Said(row.supported, row.control, row.modes)
    BY <2>3 DEF Probe!Believed
  <2>1. /\ s = Probe!Said(row.supported, row.control, row.modes) /\ b = s
        /\ row.curated => adv = Probe!Untrusted
    BY <1>1, <1>4, <2>4, <2>5
  <2>2. row.curated => Probe!ChatDefault(row, adv) = Probe!Pick(row.modes)
    BY <2>1 DEF Probe!ChatDefault, Probe!Untrusted, Probe!Advertised
  <2> HIDE DEF s, b
  <2> QED
    BY <1>1, <2>1, <2>2 DEF Probe!Said
<1>5. CASE adv = Probe!Advertised(TRUE, FALSE, "null", {}) /\ ~row.supported /\ ~row.exempt
  <2>1. s = Probe!Said(FALSE, "null", {}) /\ b = s
    BY <1>1, <1>5 DEF Probe!Shown, Probe!Believed, Probe!Advertised
  <2> HIDE DEF s, b
  <2> QED
    BY <1>1, <1>5, <2>1 DEF Probe!Said
<1>6. CASE adv = Probe!Advertised(TRUE, TRUE, "effort", {"high"}) /\ row.curated /\ ~row.exempt
  <2>1. s = Probe!Said(TRUE, "effort", {"high"}) /\ b = s
    BY <1>1, <1>6 DEF Probe!Shown, Probe!Believed, Probe!Advertised
  <2>2. Probe!ChatDefault(row, adv) = Probe!Pick({"high"})
    BY <1>6 DEF Probe!ChatDefault, Probe!Advertised
  <2> HIDE DEF s, b
  <2> QED
    BY <1>1, <2>1, <2>2 DEF Probe!Said, Probe!Modes
<1>7. CASE /\ ~row.curated /\ ~row.exempt
           /\ \/ adv = Probe!Advertised(TRUE, TRUE, "null", e.modes)
              \/ adv = Probe!Advertised(TRUE, TRUE, "effort", e.modes) /\ e.modes # {}
              \/ adv = Probe!Advertised(TRUE, TRUE, "kwargs", e.modes)
  <2>3. /\ adv.trusted /\ adv.supported = TRUE /\ ~row.exempt
        /\ adv.control \in {"null", "effort", "kwargs"} /\ adv.modes = e.modes
        /\ adv.control = "effort" => e.modes # {}
    BY <1>7 DEF Probe!Advertised
  <2>1. CASE row.control = "kwargs"
    <3>1. s = Probe!Said(TRUE, row.control, row.modes)
      BY <2>1, <2>3 DEF Probe!Shown
    <3>2. b = Probe!Said(adv.supported \/ row.supported, row.control, row.modes)
      BY <2>1, <2>3 DEF Probe!Believed
    <3>3. b = Probe!Said(TRUE, row.control, row.modes)
      BY <2>3, <3>2
    <3> HIDE DEF s, b
    <3> QED
      BY <1>1, <1>7, <2>1, <3>1, <3>3 DEF Probe!Said
  <2>2. CASE row.control # "kwargs"
    <3> DEFINE c == IF adv.control = "null" THEN {} ELSE adv.modes
    <3>1. s = Probe!Said(adv.supported, adv.control, c)
      BY <2>2, <2>3 DEF Probe!Shown
    <3>2. b = Probe!Said(adv.supported, adv.control, c)
      BY <2>2, <2>3 DEF Probe!Believed
    <3>3. s = Probe!Said(TRUE, adv.control, c) /\ b = s
      BY <2>3, <3>1, <3>2
    <3>4. c \subseteq Probe!Modes /\ (adv.control = "effort" => c # {})
      BY <1>2, <2>3
    <3> HIDE DEF s, b, c
    <3> QED
      BY <1>7, <2>3, <3>3, <3>4 DEF Probe!Said
  <2> QED
    BY <2>1, <2>2
<1> QED
  BY <1>1, <1>3, <1>4, <1>5, <1>6, <1>7

\* An effort the model lacks is clamped to one it has.

LEMMA ClampIsListed ==
  ASSUME NEW modes \in SUBSET Probe!Modes, modes # {}, NEW wanted \in Probe!Modes
  PROVE  Probe!Clamp(wanted, modes) \in modes
<1>1. \A below \in SUBSET Probe!Modes : below # {} =>
        (CHOOSE k \in below : \A n \in below : Probe!Rank[k] >= Probe!Rank[n]) \in below
  <2> SUFFICES ASSUME NEW below \in SUBSET Probe!Modes, below # {}
               PROVE  \E k \in below : \A n \in below : Probe!Rank[k] >= Probe!Rank[n]
    OBVIOUS
  <2>1. Probe!Rank["high"] = 1 /\ Probe!Rank["none"] = 0
    BY DEF Probe!Modes, Probe!Rank
  <2>2. CASE "high" \in below
    BY <2>1, <2>2 DEF Probe!Modes
  <2>3. CASE "high" \notin below
    <3>1. below = {"none"}
      BY <2>3 DEF Probe!Modes
    <3> QED
      BY <2>1, <3>1
  <2> QED
    BY <2>2, <2>3
<1>2. Probe!Pick(modes) \in modes
  BY <1>1 DEF Probe!Pick
<1> DEFINE below == {k \in modes : Probe!Rank[k] <= Probe!Rank[wanted]}
<1>3. below \in SUBSET Probe!Modes /\ below \subseteq modes
  OBVIOUS
<1>4. CASE below # {}
  <2>1. Probe!Clamp(wanted, modes)
          = CHOOSE k \in below : \A n \in below : Probe!Rank[k] >= Probe!Rank[n]
    BY <1>4 DEF Probe!Clamp
  <2> QED
    BY <1>1, <1>3, <1>4, <2>1
<1>5. CASE below = {}
  BY <1>2, <1>5 DEF Probe!Clamp
<1> QED
  BY <1>4, <1>5

LEMMA ProbeHonest == ProbeInv => Probe!CapabilityIsHonest
<1> SUFFICES ASSUME ProbeInv PROVE Probe!CapabilityIsHonest
  OBVIOUS
<1>1. Probe!EvidenceOnly /\ Probe!ModesFadeSlowly
  BY DEF Probe!EvidenceOnly, Probe!ModesFadeSlowly, ProbeInv
<1>2. EntryShape(m.entry)
  BY DEF ProbeInv
<1>3. ASSUME NEW row \in Probe!Registry
      PROVE  LET s == Probe!Shown(row, Probe!Adv(row))
                 b == Probe!Believed(row, Probe!Adv(row))
             IN /\ row.supported => s.supported
                /\ row.curated => s.modes \subseteq row.modes /\ s.modes # {}
                /\ \A on, glm \in BOOLEAN, wanted \in Probe!Modes :
                     LET sent == Probe!Sent(row, b, on, wanted, glm)
                     IN /\ sent \in Probe!Modes => sent \in s.modes \/ (~row.known /\ ~s.supported)
                        /\ on /\ s.modes # {} /\ s.control = "effort" => sent \in s.modes
                        /\ s.supported /\ s.control = "null" => sent = "nothing"
                /\ row.curated => Probe!ChatDefault(row, Probe!Adv(row)) = Probe!Pick(s.modes)
  <2> DEFINE s == Probe!Shown(row, Probe!Adv(row))
             b == Probe!Believed(row, Probe!Adv(row))
  <2> SUFFICES
        /\ row.supported => s.supported
        /\ row.curated => s.modes \subseteq row.modes /\ s.modes # {}
        /\ \A on, glm \in BOOLEAN, wanted \in Probe!Modes :
             LET sent == Probe!Sent(row, b, on, wanted, glm)
             IN /\ sent \in Probe!Modes => sent \in s.modes \/ (~row.known /\ ~s.supported)
                /\ on /\ s.modes # {} /\ s.control = "effort" => sent \in s.modes
                /\ s.supported /\ s.control = "null" => sent = "nothing"
        /\ row.curated => Probe!ChatDefault(row, Probe!Adv(row)) = Probe!Pick(s.modes)
    OBVIOUS
  <2>1. /\ s.supported \in BOOLEAN /\ (b.supported <=> s.supported)
        /\ b.control = s.control /\ b.modes = s.modes
        /\ s.modes \subseteq Probe!Modes /\ s.control \in {"null", "effort", "kwargs"}
        /\ s.control = "effort" => s.modes # {} /\ s.supported
        /\ row.supported => s.supported
        /\ row.curated => s.modes = {"high"}
        /\ row.curated => Probe!ChatDefault(row, Probe!Adv(row)) = Probe!Pick({"high"})
    BY <1>2, ViewsAgree DEF Probe!Adv
  <2>2. row.known \in BOOLEAN /\ (row.curated => row.modes = {"high"})
    BY RowsAre
  <2> HIDE DEF s, b
  <2>3. ASSUME NEW on \in BOOLEAN, NEW glm \in BOOLEAN, NEW wanted \in Probe!Modes
        PROVE  LET sent == Probe!Sent(row, b, on, wanted, glm)
               IN /\ sent \in Probe!Modes => sent \in s.modes \/ (~row.known /\ ~s.supported)
                  /\ on /\ s.modes # {} /\ s.control = "effort" => sent \in s.modes
                  /\ s.supported /\ s.control = "null" => sent = "nothing"
    <3> DEFINE sent == Probe!Sent(row, b, on, wanted, glm)
    <3> SUFFICES /\ sent \in Probe!Modes => sent \in s.modes \/ (~row.known /\ ~s.supported)
                 /\ on /\ s.modes # {} /\ s.control = "effort" => sent \in s.modes
                 /\ s.supported /\ s.control = "null" => sent = "nothing"
      OBVIOUS
    <3>1. /\ "refused" \notin Probe!Modes /\ "switch" \notin Probe!Modes
          /\ "nothing" \notin Probe!Modes
          /\ "none" \in Probe!Modes
      BY DEF Probe!Modes
    <3>2. CASE ~s.supported
      <4>1. sent \in {"refused", "nothing"} \/ (sent = wanted /\ ~row.known)
        BY <2>1, <2>2, <3>2 DEF Probe!Sent
      <4> HIDE DEF sent
      <4> QED
        BY <2>1, <3>1, <3>2, <4>1
    <3>3. CASE s.supported /\ s.control = "effort"
      <4>1. Probe!Clamp(wanted, s.modes) \in s.modes /\ Probe!Clamp("none", s.modes) \in s.modes
        BY <2>1, <3>1, <3>3, ClampIsListed
      <4>2. CASE on
        BY <2>1, <3>1, <3>3, <4>1, <4>2 DEF Probe!Sent
      <4>3. CASE ~on
        <5>1. \/ sent = Probe!Clamp("none", s.modes) \/ sent = "nothing"
              \/ sent = "none" /\ "none" \in s.modes
          BY <2>1, <3>3, <4>3 DEF Probe!Sent
        <5> HIDE DEF sent
        <5> QED
          BY <3>1, <3>3, <4>1, <4>3, <5>1
      <4> QED
        BY <4>2, <4>3
    <3>4. CASE s.supported /\ s.control # "effort"
      <4>1. sent \in {"switch", "nothing"} /\ (s.control = "null" => sent = "nothing")
        BY <2>1, <3>4 DEF Probe!Sent
      <4> HIDE DEF sent
      <4> QED
        BY <3>1, <3>4, <4>1
    <3> QED
      BY <2>1, <3>2, <3>3, <3>4
  <2> QED
    BY <2>1, <2>2, <2>3
<1>4. Probe!RegistryStands
  BY <1>3 DEF Probe!RegistryStands
<1>5. Probe!WireMatchesRow
  BY <1>3 DEF Probe!WireMatchesRow
<1> QED
  BY <1>1, <1>4, <1>5 DEF Probe!CapabilityIsHonest

-----------------------------------------------------------------------------
(* The performance mode: what applies was asked for or agreed on              *)

\* What a reading of the file gives.
Said(content) == IF content.mode = "corrupt" THEN Mode!Default ELSE content
ModeFields == {"window", "effective", "pending", "agreed", "newer", "dwelt", "file", "known",
               "there", "read", "current", "missed", "served", "asked", "hasty"}

\* The evaluations that agreed are counted by the marks, and a reading that is thought current
\* is the file's, unless a change of it went unseen.
ModeInv ==
  /\ DOMAIN m = ModeFields /\ DOMAIN m.served = {"mode", "model"}
  /\ m.agreed \in Nat /\ m.asked = 1 .. m.agreed
  /\ m.there /\ m.read /\ m.current /\ ~m.missed => m.known = Said(m.file)
  /\ Mode!ModeIsSteady

LEMMA ModeStart == Mode!Init => ModeInv
  BY DEF Mode!Init, ModeInv, ModeFields, Mode!ModeIsSteady, Mode!ChangesAreConfirmed,
     Mode!ProfileIsTheFiles

\* The module's own cardinality is the one the library's theorems speak of.

LEMMA SameCount == \A S : Mode!Cardinality(S) = Cardinality(S)
BY Zenon DEF Cardinality, Mode!Cardinality

\* What an evaluation of the outcomes changes.

LEMMA AutoDoes ==
  ASSUME NEW q, DOMAIN q = ModeFields, q.agreed \in Nat, q.asked = 1 .. q.agreed, ~q.hasty
  PROVE  LET r == Mode!Auto(q)
         IN /\ DOMAIN r = ModeFields /\ r.agreed \in Nat /\ r.asked = 1 .. r.agreed /\ ~r.hasty
            /\ r.known = q.known /\ r.file = q.file /\ r.there = q.there /\ r.read = q.read
            /\ r.current = q.current /\ r.missed = q.missed /\ r.served = q.served
<1> DEFINE n == Mode!Agreement(q, Mode!Decided)
           marks == IF Mode!Decided # q.pending THEN {1}
                    ELSE IF q.newer THEN q.asked \cup {Mode!Cardinality(q.asked) + 1} ELSE q.asked
           s == [q EXCEPT !.pending = Mode!Decided, !.agreed = n, !.newer = FALSE, !.asked = marks]
           t == [s EXCEPT !.effective = Mode!Decided, !.dwelt = FALSE,
                          !.pending = "none", !.agreed = 0,
                          !.hasty = Mode!Cardinality(s.asked) < Confirmations, !.asked = {}]
           u == [s EXCEPT !.agreed = IF n > Confirmations THEN Confirmations ELSE n,
                          !.asked = marks \cap 1 .. Confirmations]
<1>1. Mode!Cardinality(q.asked) = q.agreed
  BY FS_Interval, SameCount
<1>2. n \in Nat /\ marks = 1 .. n
  <2>1. CASE Mode!Decided # q.pending
    BY <2>1 DEF Mode!Agreement
  <2>2. CASE Mode!Decided = q.pending /\ q.newer
    BY <1>1, <2>2 DEF Mode!Agreement
  <2>3. CASE Mode!Decided = q.pending /\ ~q.newer
    BY <2>3 DEF Mode!Agreement
  <2> QED
    BY <2>1, <2>2, <2>3
<1>3. Mode!Cardinality(marks) = n
  BY <1>2, FS_Interval, SameCount
<1>4. Mode!Auto(q) = IF Mode!Decided = q.effective
                     THEN [q EXCEPT !.pending = "none", !.agreed = 0, !.asked = {}]
                     ELSE IF n >= Confirmations /\ q.dwelt THEN t ELSE u
  BY DEF Mode!Auto, ModeFields
<1> HIDE DEF n, marks
<1>5. /\ DOMAIN t = ModeFields /\ t.agreed = 0 /\ t.asked = {} /\ t.known = q.known
      /\ t.file = q.file /\ t.there = q.there /\ t.read = q.read /\ t.current = q.current
      /\ t.missed = q.missed /\ t.served = q.served
      /\ t.hasty = (Mode!Cardinality(marks) < Confirmations)
  BY DEF ModeFields
<1>6. /\ DOMAIN u = ModeFields /\ u.known = q.known
      /\ u.agreed = IF n > Confirmations THEN Confirmations ELSE n
      /\ u.asked = marks \cap 1 .. Confirmations /\ u.hasty = q.hasty
      /\ u.file = q.file /\ u.there = q.there /\ u.read = q.read /\ u.current = q.current
      /\ u.missed = q.missed /\ u.served = q.served
  BY DEF ModeFields
<1> HIDE DEF s, t, u
<1>7. CASE Mode!Decided = q.effective
  BY <1>4, <1>7 DEF ModeFields
<1>8. CASE Mode!Decided # q.effective /\ n >= Confirmations /\ q.dwelt
  <2>1. ~(Mode!Cardinality(marks) < Confirmations)
    BY <1>2, <1>3, <1>8, ConfirmationsAreCounted
  <2>2. ~t.hasty
    BY <1>5, <2>1
  <2>3. t.agreed \in Nat /\ t.asked = 1 .. t.agreed
    BY <1>5
  <2>4. Mode!Auto(q) = t
    BY <1>4, <1>8
  <2> QED
    BY <1>5, <2>2, <2>3, <2>4
<1>9. CASE Mode!Decided # q.effective /\ ~(n >= Confirmations /\ q.dwelt)
  <2>1. u.agreed \in Nat /\ u.asked = 1 .. u.agreed
    BY <1>2, <1>6, ConfirmationsAreCounted
  <2> QED
    BY <1>4, <1>6, <1>9, <2>1
<1> QED
  BY <1>7, <1>8, <1>9

LEMMA LookDoes ==
  ASSUME ModeInv
  PROVE  LET q == Mode!Look(m)
         IN /\ DOMAIN q = ModeFields /\ q.agreed = m.agreed /\ q.asked = m.asked
            /\ q.hasty = m.hasty /\ q.served = m.served /\ q.there = m.there /\ q.file = m.file
            /\ q.there /\ ~q.missed => q.known = Said(q.file)
<1>1. CASE ~m.there \/ (m.read /\ m.current)
  BY <1>1 DEF Mode!Look, ModeInv
<1>2. CASE m.there /\ ~(m.read /\ m.current)
  BY <1>2 DEF Mode!Look, Mode!Config, ModeInv, ModeFields, Said
<1> QED
  BY <1>1, <1>2

LEMMA ResolvesKeeps == ModeInv /\ Mode!Resolves => ModeInv'
<1> SUFFICES ASSUME ModeInv, Mode!Resolves PROVE ModeInv'
  OBVIOUS
<1> DEFINE q == Mode!Look(m)
           r == IF q.known.mode = "auto" THEN Mode!Auto(q) ELSE q
<1>1. /\ DOMAIN q = ModeFields /\ q.agreed = m.agreed /\ q.asked = m.asked
      /\ q.hasty = m.hasty /\ q.served = m.served /\ q.there = m.there /\ q.file = m.file
      /\ q.there /\ ~q.missed => q.known = Said(q.file)
  BY LookDoes
<1>2. m' = [r EXCEPT !.served = Mode!Served(r)]
  BY DEF Mode!Resolves
<1> HIDE DEF q
<1>3. /\ DOMAIN r = ModeFields /\ r.agreed \in Nat /\ r.asked = 1 .. r.agreed /\ ~r.hasty
      /\ r.known = q.known /\ r.file = q.file /\ r.there = q.there /\ r.missed = q.missed
  BY <1>1, AutoDoes DEF ModeInv, Mode!ModeIsSteady, Mode!ChangesAreConfirmed
<1> HIDE DEF r
<1>4. /\ DOMAIN m' = ModeFields /\ m'.agreed = r.agreed /\ m'.asked = r.asked /\ m'.hasty = r.hasty
      /\ m'.known = r.known /\ m'.file = r.file /\ m'.there = r.there /\ m'.missed = r.missed
      /\ m'.served = Mode!Served(r) /\ m'.effective = r.effective
  BY <1>2, <1>3 DEF ModeFields
<1>5. m'.there /\ ~m'.missed => m'.known = Said(m'.file)
  BY <1>1, <1>3, <1>4
<1>6. DOMAIN m'.served = {"mode", "model"}
  BY <1>4 DEF Mode!Served
<1>7. m'.served.mode = IF m'.known.model # "none" THEN m'.known.model
                       ELSE IF m'.known.mode = "auto" THEN m'.effective ELSE "day"
  BY <1>4 DEF Mode!Served
<1>8. Mode!ProfileIsTheFiles'
  BY <1>5, <1>7 DEF Mode!ProfileIsTheFiles, Said
<1>9. ~m'.hasty
  BY <1>3, <1>4
<1> QED
  BY <1>3, <1>4, <1>5, <1>6, <1>8, <1>9 DEF ModeInv, Mode!ModeIsSteady, Mode!ChangesAreConfirmed

\* What changes the evidence or the file takes back what was served.

LEMMA OthersKeep ==
  ASSUME ModeInv, \/ \E outcome \in Mode!Outcomes : Mode!Observes(outcome)
                  \/ Mode!Dwells \/ Mode!Vanishes
                  \/ \E content \in Mode!Written, noted \in BOOLEAN : Mode!Writes(content, noted)
  PROVE  ModeInv'
<1>1. ASSUME NEW outcome, Mode!Observes(outcome) PROVE ModeInv'
  <2>1. /\ DOMAIN m' = ModeFields /\ m'.agreed = m.agreed /\ m'.asked = m.asked
        /\ m'.hasty = m.hasty /\ m'.known = m.known /\ m'.file = m.file /\ m'.there = m.there
        /\ m'.read = m.read /\ m'.current = m.current /\ m'.missed = m.missed
        /\ DOMAIN m'.served = {"mode", "model"} /\ m'.served.mode = "none"
    BY <1>1 DEF Mode!Observes, ModeInv, ModeFields
  <2> QED
    BY <2>1 DEF ModeInv, Mode!ModeIsSteady, Mode!ChangesAreConfirmed, Mode!ProfileIsTheFiles
<1>2. ASSUME Mode!Dwells PROVE ModeInv'
  <2>1. /\ DOMAIN m' = ModeFields /\ m'.agreed = m.agreed /\ m'.asked = m.asked
        /\ m'.hasty = m.hasty /\ m'.known = m.known /\ m'.file = m.file /\ m'.there = m.there
        /\ m'.read = m.read /\ m'.current = m.current /\ m'.missed = m.missed
        /\ m'.served = m.served /\ m'.effective = m.effective
    BY <1>2 DEF Mode!Dwells, ModeInv, ModeFields
  <2> QED
    BY <2>1 DEF ModeInv, Mode!ModeIsSteady, Mode!ChangesAreConfirmed, Mode!ProfileIsTheFiles
<1>3. ASSUME Mode!Vanishes PROVE ModeInv'
  <2>1. /\ DOMAIN m' = ModeFields /\ m'.agreed = m.agreed /\ m'.asked = m.asked
        /\ m'.hasty = m.hasty /\ m'.there = FALSE
        /\ DOMAIN m'.served = {"mode", "model"} /\ m'.served.mode = "none"
    BY <1>3 DEF Mode!Vanishes, ModeInv, ModeFields
  <2> QED
    BY <2>1 DEF ModeInv, Mode!ModeIsSteady, Mode!ChangesAreConfirmed, Mode!ProfileIsTheFiles
<1>4. ASSUME NEW content, NEW noted, Mode!Writes(content, noted) PROVE ModeInv'
  <2>1. /\ DOMAIN m' = ModeFields /\ m'.agreed = m.agreed /\ m'.asked = m.asked
        /\ m'.hasty = m.hasty /\ m'.known = m.known /\ m'.read = m.read
        /\ DOMAIN m'.served = {"mode", "model"} /\ m'.served.mode = "none"
    BY <1>4 DEF Mode!Writes, ModeInv, ModeFields
  <2>2. ~(m'.there /\ m'.read /\ m'.current /\ ~m'.missed)
    BY <1>4 DEF Mode!Writes, ModeInv, ModeFields
  <2> QED
    BY <2>1, <2>2 DEF ModeInv, Mode!ModeIsSteady, Mode!ChangesAreConfirmed, Mode!ProfileIsTheFiles
<1> QED
  BY <1>1, <1>2, <1>3, <1>4

LEMMA ModeStep == ModeInv /\ [Mode!Next]_m => ModeInv'
<1>1. ASSUME ModeInv, UNCHANGED m PROVE ModeInv'
  BY <1>1 DEF ModeInv, Mode!ModeIsSteady, Mode!ChangesAreConfirmed, Mode!ProfileIsTheFiles
<1> QED
  BY <1>1, ResolvesKeeps, OthersKeep DEF Mode!Next

-----------------------------------------------------------------------------
(* The models route: who is charged for a list that does not come             *)

ListFields == {"at", "avail", "changes", "attempt", "max", "key", "pass", "silent", "loud", "fired",
                "overdue", "stall", "up", "released", "cut", "clientGone", "answer", "last",
                "charges", "faults", "dropped"}

\* The keys that are thought silent are keys of this pass whose last attempt was lost in front
\* of upstream; the key under way is not one of them, and the flags remember every other end.
ListInv ==
  /\ DOMAIN m = ListFields /\ m.last \in [Keys -> {"none", "infra", "loud", "cut"}]
  /\ m.loud \in BOOLEAN /\ m.fired \in BOOLEAN
  /\ m.at # "done" => m.answer = "none"
  /\ m.silent \subseteq m.pass
  /\ m.at = "attempt" /\ m.up # "over" => m.key \in Keys /\ m.key \in m.pass \ m.silent
  /\ \A k \in Keys : (m.last[k] = "loud" => m.loud) /\ (m.last[k] = "cut" => m.fired)
  /\ m.pass \subseteq Keys /\ \A k \in m.silent : m.last[k] = "infra"
  /\ Models!RouteIsHonest

-----------------------------------------------------------------------------

LEMMA ListStart == Models!Init => ListInv
<1> SUFFICES ASSUME Models!Init PROVE ListInv
  OBVIOUS
<1>1. /\ DOMAIN m = ListFields /\ m.last = [k \in Keys |-> "none"] /\ m.loud = FALSE
      /\ m.fired = FALSE /\ m.at = "deciding" /\ m.answer = "none" /\ m.silent = {} /\ m.pass = {}
      /\ m.charges = 0 /\ m.faults = 0
  BY DEF Models!Init, ListFields
<1> QED
  BY <1>1 DEF ListInv, Models!RouteIsHonest, Models!SilenceIsHonest, Models!ChargedForFaults

\* A step that leaves what the invariant speaks of.

LEMMA QuietKeeps ==
  ASSUME ListInv, DOMAIN m' = ListFields, m'.last = m.last, m'.loud = m.loud,
         m'.fired = m.fired, m'.answer = m.answer, m'.silent = m.silent, m'.pass = m.pass,
         m'.charges = m'.faults, m.answer = "silent" => m'.avail = m.avail,
         m'.at = m.at,
         m'.at = "attempt" /\ m'.up # "over" => m.up # "over" /\ m'.key = m.key
  PROVE  ListInv'
<1>1. m.answer = "silent" => Models!Eligible' = Models!Eligible
  BY DEF Models!Eligible, Models!Ready, Models!Active
<1>2. Models!RouteIsHonest'
  BY <1>1 DEF ListInv, Models!RouteIsHonest, Models!SilenceIsHonest, Models!ChargedForFaults
<1> HIDE DEF Models!RouteIsHonest
<1> QED
  BY <1>2 DEF ListInv

\* A step that ends the request with another answer.

LEMMA EndsKeeps ==
  ASSUME ListInv, DOMAIN m' = ListFields, m'.last = m.last, m'.loud = m.loud,
         m'.fired = m.fired, m'.answer # "silent", m'.silent = m.silent, m'.pass = m.pass,
         m'.charges = m'.faults, m'.at = "done"
  PROVE  ListInv'
  BY DEF ListInv, Models!RouteIsHonest, Models!SilenceIsHonest, Models!ChargedForFaults

LEMMA GiveUpKeeps == ListInv /\ Models!GiveUp => ListInv'
<1> SUFFICES ASSUME ListInv, Models!GiveUp PROVE ListInv'
  OBVIOUS
<1> DEFINE v == Models!Verdict
<1>1. m.at = "deciding" /\ m' = [m EXCEPT !.at = "done", !.answer = v]
  BY DEF Models!GiveUp
<1>2. v = "silent" => Models!SilentPass /\ ~m.fired
  BY DEF Models!Verdict, Models!TooLate
<1> HIDE DEF v
<1>3. /\ DOMAIN m' = ListFields /\ m'.last = m.last /\ m'.loud = m.loud
      /\ m'.fired = m.fired /\ m'.answer = v /\ m'.silent = m.silent /\ m'.pass = m.pass
      /\ m'.charges = m.charges /\ m'.faults = m.faults /\ m'.at = "done" /\ m'.avail = m.avail
  BY <1>1 DEF ListInv, ListFields
<1>4. Models!Eligible' = Models!Eligible
  BY <1>3 DEF Models!Eligible, Models!Ready, Models!Active
<1>5. CASE v = "silent"
  <2>1. /\ Models!Eligible # {} /\ Models!Eligible \subseteq m.pass /\ ~m.loud /\ ~m.fired
        /\ m.pass \subseteq m.silent
    BY <1>2, <1>5 DEF Models!SilentPass, Models!PassComplete, Models!Fresh
  <2>2. Models!SilenceIsHonest'
    <3>1. ASSUME NEW k \in Keys PROVE m.last[k] \in {"none", "infra"}
      BY <2>1 DEF ListInv
    <3>2. ASSUME NEW k \in m.pass PROVE m.last[k] = "infra"
      BY <2>1 DEF ListInv
    <3> QED
      BY <1>3, <1>4, <2>1, <3>1, <3>2 DEF Models!SilenceIsHonest
  <2> QED
    BY <1>3, <2>2 DEF ListInv, Models!RouteIsHonest, Models!ChargedForFaults
<1>6. CASE v # "silent"
  BY <1>3, <1>6, EndsKeeps DEF ListInv, Models!RouteIsHonest, Models!ChargedForFaults
<1> QED
  BY <1>5, <1>6

LEMMA AttemptKeeps == ASSUME ListInv, NEW k \in Keys, Models!Attempt(k) PROVE ListInv'
<1> DEFINE pass   == (IF Models!PassComplete THEN {} ELSE m.pass) \cup {k}
           quiet == IF Models!PassComplete THEN {} ELSE m.silent
<1>1. /\ m.at = "deciding"
      /\ k \in Models!Choosable(IF Models!PassComplete THEN Models!Eligible ELSE Models!Fresh)
      /\ m' = [m EXCEPT !.at = "attempt", !.attempt = @ + 1, !.key = k, !.pass = pass,
                        !.silent = quiet, !.up = "connecting", !.released = FALSE,
                        !.cut = FALSE, !.charges = 0, !.faults = 0]
  BY DEF Models!Attempt
<1>2. ~Models!PassComplete => k \notin m.pass
  BY <1>1 DEF Models!Choosable, Models!Fresh
<1>3. /\ k \in pass \ quiet /\ quiet \subseteq pass /\ pass \subseteq Keys
      /\ quiet \subseteq m.silent
  BY <1>2 DEF ListInv
<1> HIDE DEF pass, quiet
<1>4. /\ DOMAIN m' = ListFields /\ m'.last = m.last /\ m'.loud = m.loud
      /\ m'.fired = m.fired /\ m'.answer = m.answer /\ m'.silent = quiet /\ m'.pass = pass
      /\ m'.charges = 0 /\ m'.faults = 0 /\ m'.at = "attempt" /\ m'.key = k
  BY <1>1 DEF ListInv, ListFields
<1>5. m.answer = "none"
  BY <1>1 DEF ListInv
<1>6. Models!RouteIsHonest'
  BY <1>4, <1>5 DEF Models!RouteIsHonest, Models!SilenceIsHonest, Models!ChargedForFaults
<1> HIDE DEF Models!RouteIsHonest
<1> QED
  BY <1>3, <1>4, <1>5, <1>6 DEF ListInv

\* A failed attempt that the loop goes on after.

LEMMA RetriesKeeps ==
  ASSUME ListInv, Models!Flying, NEW s, DOMAIN s = ListFields, s.last = m.last, s.loud = m.loud,
         s.fired = m.fired, s.answer = m.answer, s.silent = m.silent, s.pass = m.pass,
         s.key = m.key, s.charges = s.faults, NEW kind \in {"infra", "loud", "cut"}, NEW stall,
         m' = Models!Retries(s, kind, stall)
  PROVE  ListInv'
<1> DEFINE quiet == IF kind = "infra" THEN m.silent \cup {m.key} ELSE m.silent
<1>1. /\ DOMAIN m' = ListFields /\ m'.last = [m.last EXCEPT ![m.key] = kind]
      /\ m'.answer = m.answer /\ m'.silent = quiet /\ m'.pass = m.pass
      /\ m'.charges = s.charges /\ m'.faults = s.faults /\ m'.at = "deciding"
  BY DEF Models!Retries, ListFields
<1>2. /\ m'.loud \in BOOLEAN /\ (m'.loud <=> m.loud \/ kind = "loud")
      /\ m'.fired \in BOOLEAN /\ (m'.fired <=> m.fired \/ kind = "cut")
  BY DEF Models!Retries, ListFields, ListInv
<1>3. m.key \in Keys /\ m.key \in m.pass \ m.silent /\ m.answer = "none"
  BY DEF ListInv, Models!Flying
<1>4. m'.last \in [Keys -> {"none", "infra", "loud", "cut"}]
  <2>1. m.last \in [Keys -> {"none", "infra", "loud", "cut"}]
    BY DEF ListInv
  <2>2. [m.last EXCEPT ![m.key] = kind] \in [Keys -> {"none", "infra", "loud", "cut"}]
    BY <2>1
  <2> QED
    BY <1>1, <2>2
<1>5. ASSUME NEW k \in Keys
      PROVE  (m'.last[k] = "loud" => m'.loud) /\ (m'.last[k] = "cut" => m'.fired)
  BY <1>1, <1>2, <1>3 DEF ListInv
<1>6. ASSUME NEW k \in quiet PROVE m'.last[k] = "infra"
  BY <1>1, <1>3 DEF ListInv
<1>7. quiet \subseteq m.pass
  BY <1>3 DEF ListInv
<1> HIDE DEF quiet
<1> QED
  BY <1>1, <1>2, <1>3, <1>4, <1>5, <1>6, <1>7
     DEF ListInv, Models!RouteIsHonest, Models!SilenceIsHonest, Models!ChargedForFaults

LEMMA ChargedDoes ==
  ASSUME NEW s, DOMAIN s = ListFields, NEW kind
  PROVE  LET r == Models!Charged(s, kind)
         IN /\ DOMAIN r = ListFields /\ r.last = s.last /\ r.loud = s.loud /\ r.fired = s.fired
            /\ r.answer = s.answer /\ r.silent = s.silent /\ r.pass = s.pass /\ r.key = s.key
            /\ r.charges = s.charges + 1 /\ r.faults = s.faults /\ r.at = s.at /\ r.up = s.up
  BY DEF Models!Charged, ListFields

\* What upstream sends.

LEMMA BodyKeeps ==
  ASSUME ListInv, \/ \E status \in {"ok", "bad"}, is200 \in BOOLEAN : Models!Answers(status, is200)
                   \/ \E kind \in {"none", "401", "502", "dispatch", "client"} :
                        Models!BodyEnds(kind)
                   \/ Models!Overflows \/ Models!BreaksOff
  PROVE  ListInv'
<1>0. DOMAIN m = ListFields /\ m.charges = m.faults
  BY DEF ListInv, Models!RouteIsHonest, Models!ChargedForFaults
<1>1. ASSUME NEW status \in {"ok", "bad"}, NEW is200 \in BOOLEAN, Models!Answers(status, is200)
      PROVE  ListInv'
  <2>1. m' = [m EXCEPT !.up = status, !.released = status = "ok" /\ is200] /\ m.up # "over"
    BY <1>1 DEF Models!Answers, Models!Flying
  <2>2. /\ DOMAIN m' = ListFields /\ m'.last = m.last /\ m'.loud = m.loud
        /\ m'.fired = m.fired /\ m'.answer = m.answer /\ m'.silent = m.silent /\ m'.pass = m.pass
        /\ m'.charges = m.charges /\ m'.faults = m.faults /\ m'.at = m.at /\ m'.key = m.key
        /\ m'.avail = m.avail
    BY <1>0, <2>1 DEF ListFields
  <2> QED
    BY <1>0, <2>1, <2>2, QuietKeeps
<1>2. ASSUME NEW reply, reply # "silent", m' = Models!Ends(m, reply) PROVE ListInv'
  <2>1. /\ DOMAIN m' = ListFields /\ m'.last = m.last /\ m'.loud = m.loud
        /\ m'.fired = m.fired /\ m'.answer = reply /\ m'.silent = m.silent /\ m'.pass = m.pass
        /\ m'.charges = m.charges /\ m'.faults = m.faults /\ m'.at = "done"
    BY <1>0, <1>2 DEF Models!Ends, ListFields
  <2> QED
    BY <1>0, <1>2, <2>1, EndsKeeps
<1>3. ASSUME NEW kind, Models!BodyEnds(kind), m.up # "ok" PROVE ListInv'
  <2> DEFINE u == [m EXCEPT !.faults = @ + 1]
             s == Models!Charged(u, kind)
  <2>1. Models!Flying /\ m' = IF kind = "client" THEN Models!Ends(s, "final")
                              ELSE Models!Retries(s, "loud", FALSE)
    BY <1>3 DEF Models!BodyEnds
  <2>2. /\ DOMAIN u = ListFields /\ u.last = m.last /\ u.loud = m.loud
        /\ u.fired = m.fired /\ u.answer = m.answer /\ u.silent = m.silent /\ u.pass = m.pass
        /\ u.charges = m.charges /\ u.faults = m.faults + 1 /\ u.key = m.key
    BY <1>0 DEF ListFields
  <2> HIDE DEF u
  <2>3. /\ DOMAIN s = ListFields /\ s.last = m.last /\ s.loud = m.loud
        /\ s.fired = m.fired /\ s.answer = m.answer /\ s.silent = m.silent /\ s.pass = m.pass
        /\ s.charges = s.faults /\ s.key = m.key
    BY <1>0, <2>2, ChargedDoes
  <2> HIDE DEF s
  <2>4. CASE kind = "client"
    <3>1. /\ DOMAIN m' = ListFields /\ m'.last = s.last /\ m'.loud = s.loud
          /\ m'.fired = s.fired /\ m'.answer = "final" /\ m'.silent = s.silent /\ m'.pass = s.pass
          /\ m'.charges = s.charges /\ m'.faults = s.faults /\ m'.at = "done"
      BY <2>1, <2>3, <2>4 DEF Models!Ends, ListFields
    <3> QED
      BY <2>3, <3>1, EndsKeeps
  <2>5. CASE kind # "client"
    BY <2>1, <2>3, <2>5, RetriesKeeps
  <2> QED
    BY <2>4, <2>5
<1>4. ASSUME NEW kind, Models!BodyEnds(kind) PROVE ListInv'
  BY <1>2, <1>3, <1>4 DEF Models!BodyEnds
<1>5. ASSUME Models!Overflows \/ Models!BreaksOff PROVE ListInv'
  BY <1>2, <1>5 DEF Models!Overflows, Models!BreaksOff
<1> QED
  BY <1>1, <1>4, <1>5

\* The request fails, or is destroyed.

LEMMA FailsKeeps ==
  ASSUME ListInv, (\E infra \in BOOLEAN : Models!RequestFails(infra)) \/ Models!Destroyed
  PROVE  ListInv'
<1>0. DOMAIN m = ListFields /\ m.charges = m.faults
  BY DEF ListInv, Models!RouteIsHonest, Models!ChargedForFaults
<1>1. ASSUME NEW infra \in BOOLEAN, Models!RequestFails(infra) PROVE ListInv'
  <2> DEFINE n == IF m.clientGone THEN m.faults ELSE m.faults + 1
             s == [m EXCEPT !.faults = n]
             u == [s EXCEPT !.faults = m.faults]
             c == Models!Charged(s, "502")
  <2>1. Models!Flying /\ m' = IF Models!Held(m) THEN [m EXCEPT !.up = "over", !.dropped = TRUE]
                              ELSE IF infra THEN Models!Retries(u, "infra", FALSE)
                              ELSE Models!Retries(c, "loud", m.released)
    BY <1>1 DEF Models!RequestFails
  <2>2. CASE Models!Held(m)
    <3>1. /\ DOMAIN m' = ListFields /\ m'.last = m.last /\ m'.loud = m.loud
          /\ m'.fired = m.fired /\ m'.answer = m.answer /\ m'.silent = m.silent
          /\ m'.pass = m.pass /\ m'.charges = m.charges /\ m'.faults = m.faults /\ m'.at = m.at
          /\ m'.up = "over" /\ m'.avail = m.avail
      BY <1>0, <2>1, <2>2 DEF ListFields
    <3> QED
      BY <1>0, <3>1, QuietKeeps
  <2>3. CASE ~Models!Held(m)
    <3>1. n = m.faults + 1
      BY <2>3 DEF Models!Held
    <3> HIDE DEF n
    <3>2. /\ DOMAIN s = ListFields /\ s.last = m.last /\ s.loud = m.loud
          /\ s.fired = m.fired /\ s.answer = m.answer /\ s.silent = m.silent /\ s.pass = m.pass
          /\ s.charges = m.charges /\ s.faults = n /\ s.key = m.key
      BY <1>0 DEF ListFields
    <3> HIDE DEF s
    <3>3. /\ DOMAIN u = ListFields /\ u.last = m.last /\ u.loud = m.loud
          /\ u.fired = m.fired /\ u.answer = m.answer /\ u.silent = m.silent /\ u.pass = m.pass
          /\ u.charges = u.faults /\ u.key = m.key
      BY <1>0, <3>2 DEF ListFields
    <3>4. /\ DOMAIN c = ListFields /\ c.last = m.last /\ c.loud = m.loud
          /\ c.fired = m.fired /\ c.answer = m.answer /\ c.silent = m.silent /\ c.pass = m.pass
          /\ c.charges = c.faults /\ c.key = m.key
      BY <1>0, <3>1, <3>2, ChargedDoes
    <3> HIDE DEF u, c
    <3>5. CASE infra
      BY <2>1, <2>3, <3>3, <3>5, RetriesKeeps
    <3>6. CASE ~infra
      BY <2>1, <2>3, <3>4, <3>6, RetriesKeeps
    <3> QED
      BY <3>5, <3>6
  <2> QED
    BY <2>2, <2>3
<1> QED
  BY <1>1, BodyKeeps DEF Models!Destroyed

\* What comes late, and the world around the request.

LEMMA AroundKeeps ==
  ASSUME ListInv,
         \/ Models!LateReset \/ Models!LateError \/ Models!DeadlineCuts \/ Models!ClientLeaves
         \/ Models!DeadlinePasses
                   \/ \E k \in Keys, state \in {"ready", "backoff", "parked"} :
                        Models!PoolChanges(k, state)
  PROVE  ListInv'
<1>0. DOMAIN m = ListFields /\ m.charges = m.faults
  BY DEF ListInv, Models!RouteIsHonest, Models!ChargedForFaults
<1>1. ASSUME Models!LateReset PROVE ListInv'
  <2> DEFINE u == [m EXCEPT !.faults = @ + 1]
  <2>1. m.at = "done" /\ m.answer # "silent" /\ (m' = m \/ m' = Models!Charged(u, "502"))
    BY <1>1 DEF Models!LateReset
  <2>2. /\ DOMAIN u = ListFields /\ u.last = m.last /\ u.loud = m.loud
        /\ u.fired = m.fired /\ u.answer = m.answer /\ u.silent = m.silent /\ u.pass = m.pass
        /\ u.charges = m.charges /\ u.faults = m.faults + 1 /\ u.at = m.at
    BY <1>0 DEF ListFields
  <2> HIDE DEF u
  <2>3. /\ DOMAIN m' = ListFields /\ m'.last = m.last /\ m'.loud = m.loud
        /\ m'.fired = m.fired /\ m'.answer = m.answer /\ m'.silent = m.silent
        /\ m'.pass = m.pass /\ m'.charges = m'.faults /\ m'.at = "done"
    BY <1>0, <2>1, <2>2, ChargedDoes
  <2> QED
    BY <2>1, <2>3, EndsKeeps
<1>2. ASSUME Models!LateError PROVE ListInv'
  <2>1. m.at # "attempt" /\ m' = [m EXCEPT !.key = NoKey]
    BY <1>2 DEF Models!LateError, Models!Held
  <2>2. /\ DOMAIN m' = ListFields /\ m'.last = m.last /\ m'.loud = m.loud
        /\ m'.fired = m.fired /\ m'.answer = m.answer /\ m'.silent = m.silent
        /\ m'.pass = m.pass /\ m'.charges = m.charges /\ m'.faults = m.faults /\ m'.at = m.at
        /\ m'.avail = m.avail
    BY <1>0, <2>1 DEF ListFields
  <2> QED
    BY <1>0, <2>1, <2>2, QuietKeeps
<1>3. ASSUME Models!DeadlineCuts PROVE ListInv'
  <2> DEFINE s == [m EXCEPT !.cut = TRUE]
  <2>1. Models!Flying /\ m' = Models!Retries(s, "cut", FALSE)
    BY <1>3 DEF Models!DeadlineCuts
  <2>2. /\ DOMAIN s = ListFields /\ s.last = m.last /\ s.loud = m.loud
        /\ s.fired = m.fired /\ s.answer = m.answer /\ s.silent = m.silent /\ s.pass = m.pass
        /\ s.charges = m.charges /\ s.faults = m.faults /\ s.key = m.key
    BY <1>0 DEF ListFields
  <2> HIDE DEF s
  <2> QED
    BY <1>0, <2>1, <2>2, RetriesKeeps
<1>4. ASSUME \/ Models!ClientLeaves \/ Models!DeadlinePasses
             \/ \E k \in Keys, state \in {"ready", "backoff", "parked"} :
                  Models!PoolChanges(k, state)
      PROVE  ListInv'
  <2>1. m.at = "attempt" /\ m.answer = "none"
    BY <1>4 DEF Models!ClientLeaves, Models!DeadlinePasses, Models!PoolChanges, ListInv
  <2>2. /\ DOMAIN m' = ListFields /\ m'.last = m.last /\ m'.loud = m.loud
        /\ m'.fired = m.fired /\ m'.answer = m.answer /\ m'.silent = m.silent
        /\ m'.pass = m.pass /\ m'.charges = m.charges /\ m'.faults = m.faults /\ m'.at = m.at
        /\ m'.up = m.up /\ m'.key = m.key
    BY <1>0, <1>4 DEF Models!ClientLeaves, Models!DeadlinePasses, Models!PoolChanges, ListFields
  <2> QED
    BY <1>0, <2>1, <2>2, QuietKeeps
<1> QED
  BY <1>1, <1>2, <1>3, <1>4

LEMMA ListStep == ListInv /\ [Models!Next]_m => ListInv'
<1> SUFFICES ASSUME ListInv, [Models!Next]_m PROVE ListInv'
  OBVIOUS
<1>1. CASE UNCHANGED m
  BY <1>1, QuietKeeps DEF ListInv, Models!RouteIsHonest, Models!ChargedForFaults
<1>2. CASE Models!Progress
  BY <1>2, GiveUpKeeps, AttemptKeeps, BodyKeeps, FailsKeeps, AroundKeeps DEF Models!Progress
<1>3. CASE \/ \E status \in {"ok", "bad"}, is200 \in BOOLEAN : Models!Answers(status, is200)
           \/ Models!LateReset \/ Models!LateError \/ Models!ClientLeaves \/ Models!DeadlinePasses
           \/ \E k \in Keys, state \in {"ready", "backoff", "parked"} : Models!PoolChanges(k, state)
  BY <1>3, BodyKeeps, AroundKeeps
<1> QED
  BY <1>1, <1>2, <1>3 DEF Models!Next

-----------------------------------------------------------------------------
(* The sources of the ranking: what is kept was good                          *)

SourceFields == {"source", "cache", "fresh", "failing", "loaded", "enabled", "file", "good", "best",
                 "http", "result", "whole", "caller", "answer", "index", "moved"}

\* A fetch that ended has its outcome, and the ranking's file is read before its first fetch.
SourceInv ==
  /\ DOMAIN m = SourceFields /\ m.source \in {"models", "catalog", "ranking"}
  /\ m.http \in {"no", "asked", "body", "ended", "over"}
  /\ m.http \in {"ended", "over"} => m.result # "none"
  /\ m.source = "ranking" /\ (m.http # "no" \/ m.best > 0) => m.loaded
  /\ Sources!SourcesAreKept

-----------------------------------------------------------------------------

LEMMA SourceStart == Sources!Init => SourceInv
<1> SUFFICES ASSUME NEW source \in {"models", "catalog", "ranking"},
                    m = [source |-> source, cache |-> Sources!Unset,
                         fresh |-> FALSE, failing |-> FALSE,
                         loaded |-> FALSE, enabled |-> TRUE, file |-> Sources!Unset, good |-> 0,
                         best |-> Sources!Unset, http |-> "no", result |-> "none", whole |-> "none",
                         caller |-> "none", answer |-> "none", index |-> <<>>, moved |-> FALSE]
             PROVE  SourceInv
  BY DEF Sources!Init
<1>1. /\ DOMAIN m = SourceFields /\ m.source = source /\ m.http = "no" /\ m.best = -1
      /\ m.index = <<>>
  BY DEF SourceFields, Sources!Unset
<1> QED
  BY <1>1 DEF SourceInv, Sources!SourcesAreKept, Sources!FirstOutcomeCounts, Sources!GoodListsStay,
     Sources!IdsFindTheirOwn,
              Sources!InFlight

\* An id leads to itself, and an alias to an id.

LEMMA IndexIsFaithful ==
  ASSUME NEW rows \in [1 .. 2 -> Sources!Rows]
  PROVE  LET f == Sources!Index(rows) IN \A k \in {f[j] : j \in DOMAIN f} : f[k] = k
<1> DEFINE ids == {rows[i].id : i \in DOMAIN rows}
           keys == ids \cup {rows[i].alias : i \in DOMAIN rows}
           OfAlias(k) == CHOOSE i \in DOMAIN rows :
                           rows[i].alias = k /\ \A j \in 1 .. i - 1 : rows[j].alias # k
           f == [k \in keys |-> IF k \in ids THEN k ELSE rows[OfAlias(k)].id]
<1>1. Sources!Index(rows) = f
  BY DEF Sources!Index
<1>2. ASSUME NEW j \in keys PROVE f[j] \in ids
  <2>1. CASE j \in ids
    BY <2>1
  <2>2. CASE j \notin ids
    <3>1. PICK i \in 1 .. 2 : rows[i].alias = j
      BY <2>2
    <3>2. \E i1 \in DOMAIN rows :
            rows[i1].alias = j /\ \A j1 \in 1 .. i1 - 1 : rows[j1].alias # j
      <4>1. CASE rows[1].alias = j
        BY <4>1
      <4>2. CASE rows[1].alias # j
        <5>1. i = 2 /\ \A j1 \in 1 .. 2 - 1 : rows[j1].alias # j
          BY <3>1, <4>2
        <5> QED
          BY <3>1, <5>1
      <4> QED
        BY <4>1, <4>2
    <3>3. OfAlias(j) \in DOMAIN rows
      BY <3>2
    <3>4. f[j] = rows[OfAlias(j)].id
      BY <2>2
    <3> QED
      BY <3>3, <3>4
  <2> QED
    BY <2>1, <2>2
<1>3. ASSUME NEW k \in ids PROVE k \in keys /\ f[k] = k
  OBVIOUS
<1>4. DOMAIN f = keys
  OBVIOUS
<1> HIDE DEF f, keys, ids
<1> QED
  BY <1>1, <1>2, <1>3, <1>4

\* What stays of a source that a call or a fetch touches.

LEMMA AskedDoes ==
  ASSUME NEW q, DOMAIN q = SourceFields
  PROVE  LET r == Sources!Asked(q)
         IN /\ DOMAIN r = SourceFields /\ r.source = q.source /\ r.cache = q.cache
            /\ r.best = q.best /\ r.index = q.index /\ r.loaded = q.loaded
            /\ Sources!InFlight => r = q
            /\ ~Sources!InFlight => r.http = "asked" /\ r.result = "none" /\ r.whole = "none"
  BY DEF Sources!Asked, SourceFields

LEMMA StoredDoes ==
  ASSUME NEW q, DOMAIN q = SourceFields, NEW n
  PROVE  LET r == Sources!Stored(q, n)
         IN /\ DOMAIN r = SourceFields /\ r.source = q.source /\ r.cache = n
            /\ r.best = q.best /\ r.index = q.index /\ r.loaded = q.loaded
  BY DEF Sources!Stored, SourceFields

LEMMA FetchKeeps ==
  ASSUME SourceInv, \/ Sources!Headers \/ Sources!Overflows \/ Sources!Breaks \/ Sources!Closes
                    \/ \E outcome \in {"good", "empty", "useless", "failed"} :
                         Sources!BodyEnds(outcome)
  PROVE  SourceInv'
<1>1. ASSUME Sources!Headers PROVE SourceInv'
  <2>1. m.http = "asked" /\ m' = [m EXCEPT !.http = "body"]
    BY <1>1 DEF Sources!Headers
  <2>2. /\ DOMAIN m' = SourceFields /\ m'.source = m.source /\ m'.cache = m.cache
        /\ m'.best = m.best /\ m'.index = m.index /\ m'.loaded = m.loaded /\ m'.http = "body"
        /\ m'.result = m.result /\ m'.whole = m.whole
    BY <2>1 DEF SourceInv, SourceFields
  <2> QED
    BY <2>1, <2>2 DEF SourceInv, Sources!SourcesAreKept, Sources!FirstOutcomeCounts,
       Sources!GoodListsStay, Sources!IdsFindTheirOwn,
                      Sources!InFlight
<1>2. ASSUME NEW outcome, outcome # "none", NEW http \in {"ended", "over"}, m.http # "no",
             m' = [Sources!Happened(m, outcome) EXCEPT !.http = http]
      PROVE  SourceInv'
  <2>1. m.result = m.whole
    BY <1>2 DEF SourceInv, Sources!SourcesAreKept, Sources!FirstOutcomeCounts, Sources!InFlight
  <2>2. /\ DOMAIN m' = SourceFields /\ m'.source = m.source /\ m'.cache = m.cache
        /\ m'.best = m.best /\ m'.index = m.index /\ m'.loaded = m.loaded /\ m'.http = http
        /\ m'.result = (IF m.result = "none" THEN outcome ELSE m.result)
        /\ m'.whole = (IF m.whole = "none" THEN outcome ELSE m.whole)
    BY <1>2 DEF SourceInv, SourceFields, Sources!Happened, Sources!Settled
  <2>3. m'.result = m'.whole /\ m'.result # "none"
    BY <1>2, <2>1, <2>2
  <2> QED
    BY <1>2, <2>2, <2>3 DEF SourceInv, Sources!SourcesAreKept, Sources!FirstOutcomeCounts,
       Sources!GoodListsStay,
                            Sources!IdsFindTheirOwn, Sources!InFlight
<1>3. ASSUME Sources!Closes PROVE SourceInv'
  <2>1. m.http = "ended" /\ m.result # "none"
    BY <1>3 DEF Sources!Closes, SourceInv
  <2>2. m' = [m EXCEPT !.http = "over"]
    BY <1>3, <2>1 DEF Sources!Closes, Sources!Settled
  <2>3. /\ DOMAIN m' = SourceFields /\ m'.source = m.source /\ m'.cache = m.cache
        /\ m'.best = m.best /\ m'.index = m.index /\ m'.loaded = m.loaded /\ m'.http = "over"
        /\ m'.result = m.result /\ m'.whole = m.whole
    BY <2>2 DEF SourceInv, SourceFields
  <2> QED
    BY <2>1, <2>3 DEF SourceInv, Sources!SourcesAreKept, Sources!FirstOutcomeCounts,
       Sources!GoodListsStay, Sources!IdsFindTheirOwn,
                      Sources!InFlight
<1>4. ASSUME Sources!Overflows PROVE SourceInv'
  BY <1>2, <1>4 DEF Sources!Overflows
<1>5. ASSUME Sources!Breaks PROVE SourceInv'
  BY <1>2, <1>5 DEF Sources!Breaks
<1>6. ASSUME NEW outcome \in {"good", "empty", "useless", "failed"}, Sources!BodyEnds(outcome)
      PROVE  SourceInv'
  BY <1>2, <1>6 DEF Sources!BodyEnds
<1> QED
  BY <1>1, <1>3, <1>4, <1>5, <1>6

\* A fetch that lands renews the list or leaves it.

LEMMA LandsKeeps ==
  ASSUME SourceInv, NEW rows, m.source = "catalog" => rows \in [1 .. 2 -> Sources!Rows],
         NEW written,
         Sources!Lands(rows, written)
  PROVE  SourceInv'
<1> DEFINE q == CASE m.result = "good" -> Sources!Good(m, rows, written)
                  [] m.result \in {"empty", "useless"} -> Sources!Barren(m)
                  [] OTHER -> Sources!Failed(m)
<1>1. DOMAIN m = SourceFields /\ m.source \in {"models", "catalog", "ranking"}
      /\ (m.source = "ranking" => m.loaded)
  BY DEF Sources!Lands, SourceInv
<1>2. ASSUME NEW r, DOMAIN r = SourceFields, r.source = m.source, r.loaded = m.loaded,
             r.best > 0 /\ m.source # "models" => r.cache = r.best,
             \A k \in {r.index[j] : j \in DOMAIN r.index} : r.index[k] = k,
             m' = [Sources!Answered(r) EXCEPT !.http = "no"]
      PROVE  SourceInv'
  <2> DEFINE t == Sources!Answered(r)
  <2>1. /\ DOMAIN t = SourceFields /\ t.source = r.source /\ t.loaded = r.loaded
        /\ t.best = r.best /\ t.cache = r.cache /\ t.index = r.index
    BY <1>2 DEF Sources!Answered, SourceFields
  <2> HIDE DEF t
  <2>2. /\ DOMAIN m' = SourceFields /\ m'.source = r.source /\ m'.loaded = r.loaded
        /\ m'.best = r.best /\ m'.cache = r.cache /\ m'.index = r.index /\ m'.http = "no"
    BY <1>2, <2>1 DEF SourceFields, t
  <2> QED
    BY <1>1, <1>2, <2>2 DEF SourceInv, Sources!SourcesAreKept, Sources!FirstOutcomeCounts,
       Sources!GoodListsStay,
                            Sources!IdsFindTheirOwn, Sources!InFlight
<1>3. m' = [Sources!Answered(q) EXCEPT !.http = "no"]
  BY DEF Sources!Lands
<1>4. /\ m.best > 0 /\ m.source # "models" => m.cache = m.best
      /\ \A k \in {m.index[j] : j \in DOMAIN m.index} : m.index[k] = k
  BY DEF SourceInv, Sources!SourcesAreKept, Sources!GoodListsStay, Sources!IdsFindTheirOwn
<1>5. CASE m.result = "good"
  <2> DEFINE n == m.good + 1
             s == Sources!Stored(m, n)
             r == [s EXCEPT !.good = @ + 1, !.best = n]
  <2>1. q = CASE m.source = "catalog" -> [r EXCEPT !.index = Sources!Index(rows)]
              [] m.source = "ranking" -> [r EXCEPT !.failing = FALSE,
                                                   !.file = IF written THEN r.cache ELSE @]
              [] OTHER -> r
    BY <1>5 DEF Sources!Good
  <2>2. /\ DOMAIN s = SourceFields /\ s.source = m.source /\ s.cache = n
        /\ s.best = m.best /\ s.index = m.index /\ s.loaded = m.loaded
    BY <1>1, StoredDoes
  <2> HIDE DEF q, s, n
  <2>3. /\ DOMAIN r = SourceFields /\ r.source = m.source /\ r.cache = n
        /\ r.best = n /\ r.index = m.index /\ r.loaded = m.loaded
    BY <2>2 DEF SourceFields
  <2> HIDE DEF r
  <2>4. /\ DOMAIN q = SourceFields /\ q.source = m.source /\ q.cache = n
        /\ q.best = n /\ q.loaded = m.loaded
        /\ q.index = IF m.source = "catalog" THEN Sources!Index(rows) ELSE m.index
    BY <1>1, <2>1, <2>3 DEF SourceFields
  <2>5. \A k \in {q.index[j] : j \in DOMAIN q.index} : q.index[k] = k
    <3>1. CASE m.source = "catalog"
      BY <2>4, <3>1, IndexIsFaithful
    <3>2. CASE m.source # "catalog"
      BY <1>4, <2>4, <3>2
    <3> QED
      BY <3>1, <3>2
  <2> QED
    BY <1>2, <1>3, <2>4, <2>5
<1>6. CASE m.result \in {"empty", "useless"}
  <2> DEFINE s == Sources!Stored(m, 0)
  <2>1. /\ DOMAIN s = SourceFields /\ s.source = m.source /\ s.cache = 0
        /\ s.best = m.best /\ s.index = m.index /\ s.loaded = m.loaded
    BY <1>1, StoredDoes
  <2>2. q = Sources!Barren(m)
    BY <1>6
  <2>3. \/ q = m \/ q = [m EXCEPT !.failing = TRUE]
        \/ q = s /\ (m.source = "models" \/ ~(m.cache > 0))
    BY <1>1, <2>2 DEF Sources!Barren
  <2> HIDE DEF q, s
  <2>4. CASE q = m \/ q = [m EXCEPT !.failing = TRUE]
    <3>1. /\ DOMAIN q = SourceFields /\ q.source = m.source /\ q.cache = m.cache
          /\ q.best = m.best /\ q.index = m.index /\ q.loaded = m.loaded
      BY <1>1, <2>4 DEF SourceFields
    <3> QED
      BY <1>2, <1>3, <1>4, <3>1
  <2>5. CASE q = s /\ (m.source = "models" \/ ~(m.cache > 0))
    <3>1. q.best > 0 /\ m.source # "models" => q.cache = q.best
      BY <1>4, <2>1, <2>5
    <3> QED
      BY <1>2, <1>3, <1>4, <2>1, <2>5, <3>1
  <2> QED
    BY <2>3, <2>4, <2>5
<1>7. CASE m.result \notin {"good", "empty", "useless"}
  <2>1. q = m \/ q = [m EXCEPT !.failing = TRUE]
    BY <1>7 DEF Sources!Failed
  <2> HIDE DEF q
  <2>2. /\ DOMAIN q = SourceFields /\ q.source = m.source /\ q.cache = m.cache
        /\ q.best = m.best /\ q.index = m.index /\ q.loaded = m.loaded
    BY <1>1, <2>1 DEF SourceFields
  <2> QED
    BY <1>2, <1>3, <1>4, <2>2
<1> QED
  BY <1>5, <1>6, <1>7

\* Who asks for a list changes none that is known to be good.

LEMMA CallsKeeps == ASSUME SourceInv, NEW aged, Sources!Calls(aged) PROVE SourceInv'
<1> DEFINE q == Sources!Loaded(m, aged)
           served == [q EXCEPT !.answer = Sources!Served(q)]
           waits == [q EXCEPT !.caller = "waits", !.answer = "none"]
<1>1. /\ DOMAIN q = SourceFields /\ q.source = m.source /\ q.best = m.best /\ q.index = m.index
      /\ q.http = m.http /\ q.result = m.result /\ q.whole = m.whole
  BY DEF Sources!Loaded, SourceInv, SourceFields
<1>2. /\ m.source = "ranking" => q.loaded
      /\ m.source # "ranking" \/ m.loaded => q.cache = m.cache
  BY DEF Sources!Loaded, SourceInv, SourceFields
<1>3. \/ m' = [m EXCEPT !.answer = "unranked"]
      \/ m' = served \/ m' = Sources!Asked(served) \/ m' = Sources!Asked(waits)
  BY DEF Sources!Calls
<1> HIDE DEF q
<1>4. ASSUME NEW r, r = served \/ r = waits
      PROVE  /\ DOMAIN r = SourceFields /\ r.source = m.source /\ r.best = m.best
             /\ r.index = m.index /\ r.http = m.http /\ r.result = m.result
             /\ r.whole = m.whole /\ r.cache = q.cache /\ r.loaded = q.loaded
  BY <1>1, <1>4 DEF SourceFields
<1> HIDE DEF served, waits
<1>5. m.best > 0 /\ m.source # "models" => q.cache = m.best
  BY <1>2 DEF SourceInv, Sources!SourcesAreKept, Sources!GoodListsStay
<1>6. CASE m' = [m EXCEPT !.answer = "unranked"]
  <2>1. /\ DOMAIN m' = SourceFields /\ m'.source = m.source /\ m'.cache = m.cache
        /\ m'.best = m.best /\ m'.index = m.index /\ m'.loaded = m.loaded /\ m'.http = m.http
        /\ m'.result = m.result /\ m'.whole = m.whole
    BY <1>6 DEF SourceInv, SourceFields
  <2> QED
    BY <2>1 DEF SourceInv, Sources!SourcesAreKept, Sources!FirstOutcomeCounts,
       Sources!GoodListsStay, Sources!IdsFindTheirOwn,
                Sources!InFlight
<1>7. ASSUME NEW r, r = served \/ r = waits, m' = r \/ m' = Sources!Asked(r) PROVE SourceInv'
  <2>1. /\ DOMAIN m' = SourceFields /\ m'.source = m.source /\ m'.cache = q.cache
        /\ m'.best = m.best /\ m'.index = m.index /\ m'.loaded = q.loaded
        /\ \/ m'.http = m.http /\ m'.result = m.result /\ m'.whole = m.whole
           \/ m'.http = "asked" /\ m'.result = "none" /\ m'.whole = "none"
    BY <1>4, <1>7, AskedDoes
  <2> QED
    BY <1>2, <1>5, <2>1 DEF SourceInv, Sources!SourcesAreKept, Sources!FirstOutcomeCounts,
       Sources!GoodListsStay,
                            Sources!IdsFindTheirOwn, Sources!InFlight
<1> QED
  BY <1>3, <1>6, <1>7

LEMMA RenewsKeeps == SourceInv /\ Sources!Renews => SourceInv'
<1> SUFFICES ASSUME SourceInv, Sources!Renews PROVE SourceInv'
  OBVIOUS
<1> DEFINE r == [m EXCEPT !.caller = IF m.source = "catalog" THEN "syncs" ELSE "waits",
                          !.answer = "none", !.moved = FALSE]
<1>1. m' = Sources!Asked(r) /\ m.source # "ranking"
  BY DEF Sources!Renews
<1>2. /\ DOMAIN r = SourceFields /\ r.source = m.source /\ r.cache = m.cache
      /\ r.best = m.best /\ r.index = m.index /\ r.loaded = m.loaded
      /\ r.http = m.http /\ r.result = m.result /\ r.whole = m.whole
  BY DEF SourceInv, SourceFields
<1> HIDE DEF r
<1>3. /\ DOMAIN m' = SourceFields /\ m'.source = m.source /\ m'.cache = m.cache
      /\ m'.best = m.best /\ m'.index = m.index /\ m'.loaded = m.loaded
      /\ \/ m'.http = m.http /\ m'.result = m.result /\ m'.whole = m.whole
         \/ m'.http = "asked" /\ m'.result = "none" /\ m'.whole = "none"
  BY <1>1, <1>2, AskedDoes
<1> QED
  BY <1>1, <1>3 DEF SourceInv, Sources!SourcesAreKept, Sources!FirstOutcomeCounts,
     Sources!GoodListsStay, Sources!IdsFindTheirOwn,
                    Sources!InFlight

\* Time, the owner and a restart.

LEMMA RestKeeps ==
  ASSUME SourceInv,
         Sources!WaitTimer \/ Sources!Ages \/ Sources!BackoffPasses \/ Sources!Toggles
             \/ Sources!Restarts
  PROVE  SourceInv'
<1>1. ASSUME Sources!WaitTimer \/ Sources!Ages \/ Sources!BackoffPasses \/ Sources!Toggles
      PROVE SourceInv'
  <2>1. /\ DOMAIN m' = SourceFields /\ m'.source = m.source /\ m'.cache = m.cache
        /\ m'.best = m.best /\ m'.index = m.index /\ m'.loaded = m.loaded /\ m'.http = m.http
        /\ m'.result = m.result /\ m'.whole = m.whole
    BY <1>1 DEF SourceInv, SourceFields, Sources!WaitTimer, Sources!Ages, Sources!BackoffPasses,
       Sources!Toggles
  <2> QED
    BY <2>1 DEF SourceInv, Sources!SourcesAreKept, Sources!FirstOutcomeCounts,
       Sources!GoodListsStay, Sources!IdsFindTheirOwn,
                Sources!InFlight
<1>2. ASSUME Sources!Restarts PROVE SourceInv'
  <2>1. /\ DOMAIN m' = SourceFields /\ m'.source = m.source /\ m'.best = -1 /\ m'.index = <<>>
        /\ m'.http = "no"
    BY <1>2 DEF SourceInv, SourceFields, Sources!Restarts, Sources!Unset
  <2> QED
    BY <2>1 DEF SourceInv, Sources!SourcesAreKept, Sources!FirstOutcomeCounts,
       Sources!GoodListsStay, Sources!IdsFindTheirOwn,
                Sources!InFlight
<1> QED
  BY <1>1, <1>2

LEMMA SourceStep == SourceInv /\ [Sources!Next]_m => SourceInv'
<1> SUFFICES ASSUME SourceInv, [Sources!Next]_m PROVE SourceInv'
  OBVIOUS
<1>1. CASE UNCHANGED m
  BY <1>1 DEF SourceInv, Sources!SourcesAreKept, Sources!FirstOutcomeCounts, Sources!GoodListsStay,
     Sources!IdsFindTheirOwn,
              Sources!InFlight
<1>2. CASE Sources!Fetch
  BY <1>2, FetchKeeps, LandsKeeps DEF Sources!Fetch
<1>3. CASE \E aged \in BOOLEAN : Sources!Calls(aged)
  BY <1>3, CallsKeeps
<1>4. CASE Sources!Renews
  BY <1>4, RenewsKeeps
<1>5. CASE Sources!WaitTimer \/ Sources!Ages \/ Sources!BackoffPasses \/ Sources!Toggles
               \/ Sources!Restarts
  BY <1>5, RestKeeps
<1> QED
  BY <1>1, <1>2, <1>3, <1>4, <1>5 DEF Sources!Next

-----------------------------------------------------------------------------
(* The machines in the gateway child                                          *)

\* For any request and any number of keys ever added: what the router hands over has the
\* token, comes from an allowed origin, has no answer yet and is read whole within the limit
\* (server.mjs); nobody without the token gets a success from the admin API, no key is in
\* the pool twice, the pool differs from its durable copy only by the mutation under way,
\* and the models kept for an entry were found with its key (admin-api.mjs,
\* rotation.mjs).
THEOREM KeysKept == Init /\ [][Next]_vars => []KeysAreGuarded
<1> DEFINE I == (part = "router" => RouterInv) /\ (part = "admin" => AdminInv)
<1>1. Init => I
  BY RouterStart, AdminStart DEF Init
<1>2. I /\ [Next]_vars => I'
  <2> SUFFICES ASSUME I, [Next]_vars PROVE I'
    OBVIOUS
  <2>1. CASE UNCHANGED vars
    <3>1. part' = part /\ m' = m
      BY <2>1 DEF vars
    <3>2. [Router!Next]_m /\ [Admin!Next]_m
      BY <3>1
    <3> QED
      BY <3>1, <3>2, RouterStep, AdminStep
  <2>2. ASSUME Of("router", Router!Next) PROVE I'
    BY <2>2, RouterStep DEF Of
  <2>3. ASSUME Of("admin", Admin!Next) PROVE I'
    BY <2>3, AdminStep DEF Of
  <2>4. part \notin {"router", "admin"} /\ UNCHANGED part => I'
    OBVIOUS
  <2> QED
    BY <2>1, <2>2, <2>3, <2>4 DEF Next, Of, OfRequest, OfProxy
<1>3. I => KeysAreGuarded
  BY AdminExact DEF KeysAreGuarded, RouterInv
<1> QED
  BY <1>1, <1>2, <1>3, PTL

\* For any amount of work and any table: a child that failed to start never
\* says it is ready, a stop leaves nothing unsaved that could be saved, and what waits to be
\* saved has its timer (server.mjs, logger.mjs); what the routing memory holds and has
\* not queued is on disk, a queued change has its timer, and the bound costs the oldest
\* entries, through crashes, failed writes and clocks set back (model-key-affinity.mjs).
THEOREM WordKept == Init /\ [][Next]_vars => []ChildKeepsItsWord
<1> DEFINE I == (part = "child" => ChildInv) /\ (part = "memory" => MemoryInv)
<1>1. Init => I
  BY ChildStart, MemoryStart DEF Init
<1>2. I /\ [Next]_vars => I'
  <2> SUFFICES ASSUME I, [Next]_vars PROVE I'
    OBVIOUS
  <2>1. CASE UNCHANGED vars
    <3>1. part' = part /\ m' = m
      BY <2>1 DEF vars
    <3>2. [Child!Next]_m /\ [Memory!Next]_m
      BY <3>1
    <3> QED
      BY <3>1, <3>2, ChildStep, MemoryStep
  <2>2. ASSUME Of("child", Child!Next) PROVE I'
    BY <2>2, ChildStep DEF Of
  <2>3. ASSUME Of("memory", Memory!Next) PROVE I'
    BY <2>3, MemoryStep DEF Of
  <2>4. part \notin {"child", "memory"} /\ UNCHANGED part => I'
    OBVIOUS
  <2> QED
    BY <2>1, <2>2, <2>3, <2>4 DEF Next, Of, OfRequest, OfProxy
<1>3. I => ChildKeepsItsWord
  BY ChildKept DEF ChildKeepsItsWord, MemoryInv
<1> QED
  BY <1>1, <1>2, <1>3, PTL

\* For any number of restarts, any window and any number of confirmations: what the cache says
\* of a model was shown by its probes, a mode it listed fades only after two probes without
\* it, what was curated by hand is never widened and what a facade sends agrees with the row
\* that /v1/models shows (reasoning-capability-probe.mjs); the automatic mode changes only on
\* evidence that held, and a request gets the mode its file says (performance-mode.mjs).
THEOREM SettingsAreSound == Init /\ [][Next]_vars => []SettingsAreHonest
<1> DEFINE I == (part = "probe" => ProbeInv) /\ (part = "mode" => ModeInv)
<1>1. Init => I
  BY ProbeStart, ModeStart DEF Init
<1>2. I /\ [Next]_vars => I'
  <2> SUFFICES ASSUME I, [Next]_vars PROVE I'
    OBVIOUS
  <2>1. CASE UNCHANGED vars
    <3>1. part' = part /\ m' = m
      BY <2>1 DEF vars
    <3>2. [Probe!Next]_m /\ [Mode!Next]_m
      BY <3>1
    <3> QED
      BY <3>1, <3>2, ProbeStep, ModeStep
  <2>2. ASSUME Of("probe", Probe!Next) PROVE I'
    BY <2>2, ProbeStep DEF Of
  <2>3. ASSUME Of("mode", Mode!Next) PROVE I'
    BY <2>3, ModeStep DEF Of
  <2>4. part \notin {"probe", "mode"} /\ UNCHANGED part => I'
    OBVIOUS
  <2> QED
    BY <2>1, <2>2, <2>3, <2>4 DEF Next, Of, OfRequest, OfProxy
<1>3. I => SettingsAreHonest
  BY ProbeHonest DEF SettingsAreHonest, ModeInv
<1> QED
  BY <1>1, <1>2, <1>3, PTL

ListAndSourcesAreKept ==
  /\ part = "models"  => Models!RouteIsHonest
  /\ part = "sources" => Sources!SourcesAreKept

\* For any set of keys: the models route says that no key reached upstream only when every
\* key that can serve was tried in this pass and failed so, and a key is charged once for
\* each fault of upstream and for nothing else (server.mjs). For any number of good answers:
\* the promise of a fetch says what happened first, no failure and no empty answer replaces
\* a good list, and an id finds its own record (model-quality-sources.mjs).
THEOREM ListsAreKept == Init /\ [][Next]_vars => []ListAndSourcesAreKept
<1> DEFINE I == (part = "models" => ListInv) /\ (part = "sources" => SourceInv)
<1>1. Init => I
  BY ListStart, SourceStart DEF Init
<1>2. I /\ [Next]_vars => I'
  <2> SUFFICES ASSUME I, [Next]_vars PROVE I'
    OBVIOUS
  <2>1. CASE UNCHANGED vars
    <3>1. part' = part /\ m' = m
      BY <2>1 DEF vars
    <3>2. [Models!Next]_m /\ [Sources!Next]_m
      BY <3>1
    <3> QED
      BY <3>1, <3>2, ListStep, SourceStep
  <2>2. ASSUME Of("models", Models!Next) PROVE I'
    BY <2>2, ListStep DEF Of
  <2>3. ASSUME Of("sources", Sources!Next) PROVE I'
    BY <2>3, SourceStep DEF Of
  <2>4. part \notin {"models", "sources"} /\ UNCHANGED part => I'
    OBVIOUS
  <2> QED
    BY <2>1, <2>2, <2>3, <2>4 DEF Next, Of, OfRequest, OfProxy
<1>3. I => ListAndSourcesAreKept
  BY DEF ListInv, SourceInv, ListAndSourcesAreKept
<1> QED
  BY <1>1, <1>2, <1>3, PTL
=============================================================================

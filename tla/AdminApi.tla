------------------------------- MODULE AdminApi -------------------------------
(***************************************************************************)
(* The key routes of the admin server (handleAdminRequest,                 *)
(* src/gateway/admin-api.mjs) with the validation of a key against         *)
(* upstream (validation.mjs).  Key changes are durable mutations, made one *)
(* after the other (DurableKeys has them in full): here each is made, and  *)
(* acknowledged or undone.                                                 *)
(***************************************************************************)
EXTENDS Integers, Sequences, FiniteSets

CONSTANT MaxIds         \* bound: keys ever added

VARIABLE y              \* the admin server, one record

Tokens == {"t1", "t2"}
Ids == 1 .. MaxIds
Requests == {"q1", "q2"}
NoToken == "none"

Ready == [op |-> "none", token |-> NoToken, id |-> 0, at |-> "idle", code |-> 0]

TypeOK ==
  /\ y.pool \in [Ids -> Tokens \cup {NoToken}] /\ y.models \in [Ids -> Tokens \cup {NoToken}]
  /\ y.durable \in [Ids -> Tokens \cup {NoToken}] /\ y.next \in 1 .. MaxIds + 1
  /\ y.req \in [Requests -> [op : {"none", "add", "remove", "validate"},
                             token : Tokens \cup {NoToken}, id : 0 .. MaxIds,
                             at : {"idle", "body", "queued", "validating", "done"},
                             code : {0, 200, 201, 400, 401, 403, 404, 409, 503}]]
  /\ y.owner \in Requests \cup {"nobody"}                   \* whose mutation is being made
  /\ y.checks \subseteq Ids \X Tokens                       \* validations after an add
  /\ y.strange \subseteq Requests

Held(token) == \E id \in Ids : y.pool[id] = token
Answers(code) == [Ready EXCEPT !.at = "done", !.code = code]

-----------------------------------------------------------------------------
(* The gate *)

\* Browsers are refused, then paths that are not canonical or not there (404 stands for
\* 405 as well), then strangers.
Refusal(call) ==
  CASE call.origin -> 403
    [] ~call.origin /\ ~call.known -> 404
    [] ~call.origin /\ call.known /\ ~call.token -> 401
    [] OTHER -> 0

Calls(q, call, op) ==
  /\ y.req[q].at = "idle"
  /\ y' = [y EXCEPT !.req[q] = IF Refusal(call) # 0
                               THEN Answers(Refusal(call))
                               ELSE [@ EXCEPT !.op = op, !.at = "body"],
                    !.strange = IF call.origin \/ ~call.token THEN @ \cup {q} ELSE @ \ {q}]

-----------------------------------------------------------------------------
(* A request *)

\* The body is read: too long, broken, or not what the route wants (400 stands for 413 and
\* 422 as well); or a mutation is queued, or a validation begun.
Body(q, fault, token, id) ==
  /\ y.req[q].at = "body"
  /\ y' = [y EXCEPT !.req[q] =
             CASE fault # 0 -> Answers(fault)
               [] fault = 0 /\ y.req[q].op = "validate" -> [@ EXCEPT !.at = "validating", !.token = token]
               [] fault = 0 /\ y.req[q].op = "add" -> [@ EXCEPT !.at = "queued", !.token = token]
               [] OTHER -> [@ EXCEPT !.at = "queued", !.id = id]]

Twice(token) == Held(token)

\* The mutation of a request has its turn: nothing to change is answered at once; the
\* change is made in memory before it is persisted.
Mutates(q) ==
  /\ y.req[q].at = "queued" /\ y.owner = "nobody"
  /\ y.req[q].op = "add" => y.next <= MaxIds
  /\ LET add == y.req[q].op = "add"   id == y.req[q].id
     IN y' = CASE add /\ Twice(y.req[q].token) -> [y EXCEPT !.req[q] = Answers(409)]
               [] add /\ ~Twice(y.req[q].token) ->
                    [y EXCEPT !.pool[y.next] = y.req[q].token, !.req[q].id = y.next,
                              !.next = @ + 1, !.owner = q]
               [] ~add /\ y.pool[id] = NoToken -> [y EXCEPT !.req[q] = Answers(404)]
               [] OTHER -> [y EXCEPT !.pool[id] = NoToken, !.owner = q]

\* An added record goes with its models; a removed one comes back as it was.
Undone(q) ==
  LET id == y.req[q].id
  IN [y EXCEPT !.pool[id] = y.durable[id], !.models[id] = IF y.durable[id] = NoToken THEN NoToken ELSE @]

\* The main process answers: persisted, and the add is validated behind its answer; or not,
\* and the change is undone.
Persisted(q, ok) ==
  /\ y.owner = q
  /\ LET add == y.req[q].op = "add"   id == y.req[q].id
     IN y' = IF ok THEN [y EXCEPT !.durable[id] = y.pool[id], !.owner = "nobody",
                                  !.req[q] = Answers(IF add THEN 201 ELSE 200),
                                  !.models[id] = IF add THEN @ ELSE NoToken,
                                  !.checks = IF add THEN @ \cup {<<id, y.req[q].token>>} ELSE @]
             ELSE [Undone(q) EXCEPT !.owner = "nobody", !.req[q] = Answers(503)]

\* A mutant: the models of a validation go to the first key there is.
BugKept(models, id, token) ==
  [i \in Ids |-> IF y.pool[i] # NoToken /\ \A j \in 1 .. i - 1 : y.pool[j] = NoToken THEN token
                 ELSE models[i]]

\* The models are kept for a key that is still there.
Kept(models, id, token) == [models EXCEPT ![id] = IF y.pool[id] # NoToken THEN token ELSE @]

\* The validation of an added key ends: valid, with what it may use, or not.
Checked(id, token, valid) ==
  /\ <<id, token>> \in y.checks
  /\ y' = [y EXCEPT !.checks = @ \ {<<id, token>>}, !.models = IF valid THEN Kept(@, id, token) ELSE @]

\* A validation that was asked for ends: the key is looked up by its token now.
Validated(q, listed) ==
  /\ y.req[q].at = "validating"
  /\ LET owners == {id \in Ids : y.pool[id] = y.req[q].token}
     IN y' = [y EXCEPT !.req[q] = Answers(200),
                       !.models = IF listed /\ owners # {}
                                  THEN Kept(@, CHOOSE id \in owners : TRUE, y.req[q].token) ELSE @]

\* The connection is free for another request.
Closes(q) == y.req[q].at = "done" /\ y' = [y EXCEPT !.req[q] = Ready, !.strange = @ \ {q}]

-----------------------------------------------------------------------------

Init ==
  y = [pool |-> [i \in Ids |-> NoToken], models |-> [i \in Ids |-> NoToken],
       durable |-> [i \in Ids |-> NoToken], next |-> 1, req |-> [q \in Requests |-> Ready],
       owner |-> "nobody", checks |-> {}, strange |-> {}]

Next ==
  \/ (\E q \in Requests, op \in {"add", "remove", "validate"},
         call \in [origin : BOOLEAN, known : BOOLEAN, token : BOOLEAN] :
         Calls(q, call, op))
  \/ (\E q \in Requests, fault \in {0, 400}, token \in Tokens, id \in Ids :
         Body(q, fault, token, id))
  \/ (\E q \in Requests : Mutates(q) \/ Closes(q))
  \/ (\E q \in Requests, ok \in BOOLEAN : Persisted(q, ok) \/ Validated(q, ok))
  \/ (\E id \in Ids, token \in Tokens, valid \in BOOLEAN : Checked(id, token, valid))

Spec == Init /\ [][Next]_y

-----------------------------------------------------------------------------
(* Properties *)

\* No browser and no stranger gets beyond the gate.
StrangersStayOut == \A q \in y.strange : y.req[q].at \in {"idle", "done"} /\ y.req[q].code \notin {200, 201}

\* A token is in the pool once; the pool is what was acknowledged, but for the one mutation
\* that is being made, and a failed one leaves no trace.
PoolIsAcknowledged ==
  /\ \A i, j \in Ids : i # j /\ y.pool[i] # NoToken => y.pool[i] # y.pool[j]
  /\ \A i \in Ids : y.pool[i] # y.durable[i] => y.owner # "nobody" /\ y.req[y.owner].id = i

\* The models of a key are those of its own token, however late a validation ends.
ModelsAreItsOwn == \A i \in Ids : y.models[i] # NoToken /\ y.pool[i] # NoToken => y.models[i] = y.pool[i]

AdminIsExact == StrangersStayOut /\ PoolIsAcknowledged /\ ModelsAreItsOwn
=============================================================================

------------------------------- MODULE Inbound -------------------------------
(***************************************************************************)
(* One request of a client on its way to the keys: the router of           *)
(* src/gateway/server.mjs, its guards, and the body of the three POST      *)
(* routes, collected to five megabytes, parsed and translated.  What       *)
(* happens behind the hand-over is in Failover and ModelsRoute.            *)
(***************************************************************************)
EXTENDS Integers

CONSTANT MaxBody       \* bound: chunks a client sends; a chunk is half of MAX_PAYLOAD_SIZE

VARIABLE r             \* the request, one record

Routes  == {"health", "refresh", "cached", "models", "chat", "messages", "responses", "other"}
Posts   == {"chat", "messages", "responses"}
Limit   == 2           \* MAX_PAYLOAD_SIZE in chunks
\* What the body turns out to be. alien: JSON that is not an object, or that the facade
\* cannot translate.
Bodies  == {"empty", "garbled", "alien", "disabled", "good"}

TypeOK ==
  /\ r.route \in Routes /\ r.body \in Bodies
  /\ r.origin \in {"none", "listed", "foreign"}
  \* The credential: the local token or the administration's, as a bearer or an x-api-key.
  /\ r.bearer \in {"none", "local", "admin", "wrong"} /\ r.apiKey \in {"none", "local", "wrong"}
  /\ r.at \in {"arrived", "reading", "draining", "handed", "closed"}
  /\ r.size \in 0 .. MaxBody /\ {r.complete, r.timer} \subseteq BOOLEAN
  /\ r.answer \in {0, 200, 204, 400, 401, 403, 404, 413, 500, 503}
  /\ r.writes \in Nat                                      \* history
  /\ {r.preflight, r.parseable, r.ready, r.tokens} \subseteq BOOLEAN

Reply(s, status) ==
  [s EXCEPT !.answer = IF s.writes = 0 THEN status ELSE @,
            !.writes = IF s.writes = 0 THEN 1 ELSE @]

-----------------------------------------------------------------------------
(* The router *)

\* The route's token: the administration's for a refresh. Without tokens nobody passes.
Token(s) == IF s.route = "refresh" THEN "admin" ELSE "local"

\* isGatewayRouteAuthorized: a bearer decides wherever there is one; an x-api-key counts
\* on the Anthropic route only.
Authorized(s) ==
  /\ s.tokens
  /\ \/ s.bearer = Token(s)
     \/ s.bearer = "none" /\ s.route = "messages" /\ s.apiKey = "local"

\* The first answer that applies, in the order of the code; 0: none.
Refusal(s) ==
  CASE ~s.parseable -> 400
    [] s.parseable /\ s.origin = "foreign" -> 403
    [] s.parseable /\ s.origin # "foreign" /\ s.preflight ->
         IF s.origin = "listed" /\ s.route \in Posts \cup {"models"} THEN 204 ELSE 403
    [] s.route = "health" /\ s.origin # "foreign" /\ s.parseable /\ ~s.preflight ->
         IF s.ready THEN 200 ELSE 503
    [] s.route = "other" /\ s.origin # "foreign" /\ s.parseable /\ ~s.preflight -> 404
    [] OTHER -> IF Authorized(s) THEN 0 ELSE 401

\* The request is refused, handed to the walk over the models route, answered from the
\* catalog (or not, when its fetch fails), or its body is read.
Route ==
  /\ r.at = "arrived"
  /\ LET status == Refusal(r) IN
     \/ status # 0 /\ r' = [Reply(r, status) EXCEPT !.at = "closed"]
     \/ status = 0 /\ r.route \in {"refresh", "cached"}
        /\ \E s \in {200, 500} : r' = [Reply(r, s) EXCEPT !.at = "closed"]
     \/ status = 0 /\ r.route = "models" /\ r' = [r EXCEPT !.at = "handed"]
     \/ status = 0 /\ r.route \in Posts /\ r' = [r EXCEPT !.at = "reading"]

-----------------------------------------------------------------------------
(* The body *)

\* Over the limit the answer goes out at once; what still comes is thrown away, and a
\* timer bounds a client that never stops.
Chunk ==
  /\ r.at \in {"reading", "draining"} /\ ~r.complete /\ r.size < MaxBody /\ r.body # "empty"
  /\ LET s == [r EXCEPT !.size = @ + 1]
     IN r' = IF s.size <= Limit THEN s
             ELSE [Reply(s, 413) EXCEPT !.at = "draining", !.timer = TRUE]

\* What the whole body leads to; 0: the walk over the keys. A chat body that is empty is
\* passed on as it is.
Verdict(s) ==
  CASE s.body = "garbled" \/ s.body = "alien" -> 400
    [] s.body = "empty" -> IF s.route = "chat" THEN 0 ELSE 400
    [] s.body = "disabled" -> 404
    [] OTHER -> 0

Oversized(s) == s.size > Limit

BodyEnds ==
  /\ r.at \in {"reading", "draining"} /\ ~r.complete
  /\ r.body # "empty" => r.size > 0
  /\ LET s == [r EXCEPT !.complete = TRUE] IN
     r' = CASE Oversized(s) -> [s EXCEPT !.timer = FALSE, !.at = "closed"]
            [] ~Oversized(s) /\ Verdict(s) # 0 -> [Reply(s, Verdict(s)) EXCEPT !.at = "closed"]
            [] OTHER -> [s EXCEPT !.at = "handed"]

\* The client breaks off: an error of the request, then its close.
BreaksOff ==
  /\ r.at \in {"reading", "draining"} /\ ~r.complete
  /\ r' = [Reply(r, 400) EXCEPT !.timer = FALSE, !.at = "closed"]

\* The safety timer ends the request of a client that goes on sending.
Drained(s) == IF s.complete THEN [s EXCEPT !.timer = FALSE]
              ELSE [s EXCEPT !.timer = FALSE, !.at = "closed"]
DrainTimer == r.timer /\ r' = Drained(r)

-----------------------------------------------------------------------------

Init ==
  \E route \in Routes, body \in Bodies, origin \in {"none", "listed", "foreign"},
     bearer \in {"none", "local", "admin", "wrong"}, apiKey \in {"none", "local", "wrong"},
     preflight, parseable, tokens, ready \in BOOLEAN :
    /\ route \notin Posts => body = "empty"
    /\ ready => tokens
    /\ r = [route |-> route, body |-> body, origin |-> origin, bearer |-> bearer,
            apiKey |-> apiKey, at |-> "arrived", size |-> 0, complete |-> FALSE,
            timer |-> FALSE, answer |-> 0, writes |-> 0, preflight |-> preflight,
            parseable |-> parseable, ready |-> ready, tokens |-> tokens]

Next == Route \/ Chunk \/ BodyEnds \/ BreaksOff \/ DrainTimer
Spec == Init /\ [][Next]_r

\* The router runs in its turn; the safety timer fires. A client need not send anything.
FairSpec == Spec /\ WF_r(Route) /\ WF_r(DrainTimer)

-----------------------------------------------------------------------------
(* Properties *)

\* Only a request of a client that holds this route's token, with a body that came whole,
\* below the limit and acceptable, ever touches a key; and it has no answer yet, so that
\* the walk's own is the only one.
KeysAreGuarded ==
  r.at = "handed" => /\ r.tokens /\ r.origin # "foreign" /\ r.answer = 0
                     /\ \/ r.bearer = "local"
                        \/ r.route = "messages" /\ r.bearer = "none" /\ r.apiKey = "local"
                     /\ r.route \in Posts => r.complete /\ r.size <= Limit
                     /\ r.body \in {"good", "empty"}
=============================================================================

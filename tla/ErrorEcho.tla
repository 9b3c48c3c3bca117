------------------------------ MODULE ErrorEcho ------------------------------
(***************************************************************************)
(* What a client reads when upstream refuses a request for good            *)
(* (src/gateway/server.mjs: the error echo of the chat route, of the       *)
(* Anthropic facade and of the Responses facade).  Upstream's body is      *)
(* third-party text: a record of what its parts hold, the text itself      *)
(* being clean, blank or dirty (one that scrubbing changes: it is too long,*)
(* or has a credential, a query or a stack frame in it).                   *)
(***************************************************************************)
EXTENDS Integers, FiniteSets

VARIABLE e               \* the body, how it was sent, and the answer: one record

Modes == {"chat", "messages", "responses"}
Texts == {"none", "blank", "clean", "dirty"}

\* The slot that holds the message: error.message, error or message; the other leaf may be
\* filed under a name that means a credential, and a key may itself hold one.
Bodies ==
  [shape : {"object", "other", "text", "empty"}, big : BOOLEAN,
   slot : {"error.message", "error", "message"}, message : Texts,
   leaf : Texts \cup {"named"}, key : {"plain", "dirty"}]

\* Bodies that exist: only an object has slots and keys, other JSON has leaves, text its one
\* text.
Possible(b) ==
  /\ b.shape # "object" => b.slot = "message" /\ b.key = "plain" /\ b.leaf \in {"none", "dirty"}
  /\ b.shape = "text"   => b.message \in {"clean", "dirty"} /\ b.leaf = "none"
  /\ b.shape = "other"  => b.message = "none"
  /\ b.shape = "empty"  => b.message = "none" /\ b.leaf = "none" /\ ~b.big
  /\ b.message = "none" => b.slot = "message"
  /\ b.leaf = "none" => b.key = "plain"

Waits == [body |-> "none"]

\* An answer: whose envelope, how the message reads, whether anything dirty is in it, and
\* the length it is announced with.
Envelopes == {"upstream", "anthropic", "openai", "chat"}
Answers   == [by : Envelopes, message : {"none", "status", "blank", "clean", "scrubbed", "dirty"},
              dirt : BOOLEAN, length : {"upstream", "own"}]

TypeOK == e = Waits \/ (e.body \in Bodies /\ e.mode \in Modes /\ e.answer \in Answers)

-----------------------------------------------------------------------------
(* The message *)

Scrubbed(text) == IF text = "dirty" THEN "scrubbed" ELSE text

\* upstreamErrorMessage: the slot, or the text as a whole; a blank one is none.
Message(b) == IF b.message \in {"clean", "dirty"} THEN b.message ELSE "none"

\* safeUpstreamErrorMessage: the message made safe, or the status in its place.
SafeMessage(b) == IF Message(b) = "none" THEN "status" ELSE Scrubbed(Message(b))

\* scrubUpstreamErrorLeaves changes something: every leaf and every key is looked at,
\* blank ones are left alone.
LeavesChange(b) == b.message = "dirty" \/ b.leaf \in {"dirty", "named"} \/ b.key = "dirty"

\* upstreamErrorEchoNeedsRewrite; a body without any text counts as changed.
NeedsRewrite(b) == b.big \/ b.shape = "empty" \/ LeavesChange(b)

-----------------------------------------------------------------------------
(* The answers *)

\* headersForRewrittenBody: upstream's framing goes with upstream's bytes only.
Length(rewritten) == IF rewritten THEN "own" ELSE "upstream"

Verbatim(b) ==
  [by |-> "upstream", message |-> b.message, dirt |-> LeavesChange(b), length |-> Length(FALSE)]

Rebuilt(b, by) == [by |-> by, message |-> SafeMessage(b), dirt |-> FALSE, length |-> Length(TRUE)]

\* chatUpstreamErrorEcho: an object within the bound keeps its own envelope, leaf by leaf.
ChatEcho(b) ==
  CASE ~NeedsRewrite(b) -> Verbatim(b)
    [] NeedsRewrite(b) /\ ~b.big /\ b.shape = "object" ->
         [Verbatim(b) EXCEPT !.message = Scrubbed(b.message), !.dirt = FALSE, !.length = Length(TRUE)]
    [] OTHER -> Rebuilt(b, "chat")

\* buildResponsesUpstreamError: what is OpenAI's shape, clean and bounded passes.
ResponsesEcho(b) ==
  IF b.shape = "object" /\ b.slot = "error.message" /\ b.message # "none" /\ ~NeedsRewrite(b)
  THEN ChatEcho(b) ELSE Rebuilt(b, "openai")

Echo(mode, b) ==
  CASE mode = "messages"  -> Rebuilt(b, "anthropic")
    [] mode = "responses" -> ResponsesEcho(b)
    [] mode = "chat"      -> ChatEcho(b)

\* The error body has ended and nobody can serve the request better.
Refuses(mode, b) == e' = [body |-> b, mode |-> mode, answer |-> Echo(mode, b)]

Init == e = Waits
Next == e = Waits /\ \E mode \in Modes, b \in {c \in Bodies : Possible(c)} : Refuses(mode, b)
Spec == Init /\ [][Next]_e

-----------------------------------------------------------------------------
(* Properties *)

Dirty(b) == b.message = "dirty" \/ b.leaf \in {"dirty", "named"} \/ b.key = "dirty"

\* Nothing reaches a client, in any mode and from any part of the body, that the gateway
\* would scrub elsewhere.
NothingLeaks == ~e.answer.dirt /\ e.answer.message # "dirty"

\* A body that needs nothing is upstream's own on the chat route; and whatever is not
\* upstream's own is announced with its own length.
PassesOrFits ==
  /\ e.mode = "chat" /\ ~Dirty(e.body) /\ ~e.body.big /\ e.body.shape # "empty" =>
       e.answer.by = "upstream" /\ e.answer.length = "upstream" /\ e.answer.message = e.body.message
  /\ e.answer.length = "upstream" => ~Dirty(e.body) /\ e.answer.by = "upstream"

\* Each facade's client can parse the answer, and reads what upstream said if upstream
\* said something.
ClientUnderstands ==
  /\ e.mode = "messages" => e.answer.by = "anthropic"
  /\ e.mode = "responses" /\ e.answer.by = "upstream" => e.body.slot = "error.message"
  /\ e.body.message = "clean" => e.answer.message = "clean"

EchoIsSafe == e # Waits => NothingLeaks /\ PassesOrFits /\ ClientUnderstands
=============================================================================

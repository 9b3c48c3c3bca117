------------------------------ MODULE Translate ------------------------------
(***************************************************************************)
(* The two facades' streams: frames of an OpenAI stream, as the readers of *)
(* SseFraming cut them, become the events of an Anthropic message          *)
(* (translateAnthropicSseStream, src/gateway/anthropic-adapter.mjs) or of  *)
(* a response (translateResponsesSseStream, responses-adapter.mjs).  The   *)
(* server always asks for an error when the stream is incomplete.          *)
(*                                                                         *)
(* An event is the change it makes to what the client holds: blocks or     *)
(* items open and done, the calls they carry, the end.                     *)
(***************************************************************************)
EXTENDS Integers, FiniteSets

CONSTANT MaxFrames      \* bound: frames of the stream

VARIABLE x              \* the translation, one record

Calls == {"c0", "c1"}   \* tool calls by their index; c0 is a custom tool
Items == Calls \cup {"text"}

TypeOK ==
  /\ x.form \in {"anthropic", "responses"} /\ x.frames \in 0 .. MaxFrames
  /\ {x.started, x.bad, x.tail, x.done} \subseteq BOOLEAN
  /\ x.block \in {"none", "text", "thinking", "tool"} /\ x.call \in Calls \cup {"none"}
  /\ x.items \subseteq Items                      \* Responses: items not done
  /\ x.end \in {"none", "ok", "error", "thrown"}
  /\ x.held \in [Calls -> 0 .. 2]                 \* history: blocks or items a call is in
  /\ x.kind \in [Calls -> {"none", "custom", "function"}]
  /\ {x.broken, x.late, x.said} \subseteq SUBSET Calls
  /\ {x.early, x.odd, x.failed} \subseteq BOOLEAN

Live == x.end = "none"
Anthropic == x.form = "anthropic"

\* A frame, bounded; the client's message starts with the first that means something.
Reads(starts) == [x EXCEPT !.frames = @ + 1, !.started = @ \/ starts]
Frame == Live /\ x.frames < MaxFrames

-----------------------------------------------------------------------------
(* Deltas *)

\* The open block gives way to one of another type.
Block(q, type, call) ==
  IF q.block = type /\ q.call = call THEN q
  ELSE [q EXCEPT !.block = type, !.call = call, !.early = @ \/ ~q.started]

\* Text, or thinking, which the Responses facade has no item for.
Says(type) ==
  /\ Frame
  /\ LET q == Reads(TRUE)
     IN x' = CASE Anthropic -> [Block(q, type, "none") EXCEPT
                                  !.broken = @ \cup {c \in Calls : q.held[c] > 0}]
               [] ~Anthropic /\ type = "text" -> [q EXCEPT !.items = @ \cup {"text"}]
               [] OTHER -> q

\* Content that is not a string, in a delta that carries nothing else: no sign of a
\* message, yet the Anthropic translator opens a block for it.
SaysOddly ==
  /\ Frame
  /\ LET q == [Reads(FALSE) EXCEPT !.odd = TRUE]
     IN x' = IF Anthropic THEN [Block(q, "text", "none") EXCEPT
                                  !.broken = @ \cup {c \in Calls : q.held[c] > 0}]
             ELSE q

\* The open block is this call's.
Same(q, c) == q.block = "tool" /\ q.call = c

\* A fragment of a tool call; the first carries the name, or a later one does.
Fragment(c, named) ==
  /\ Frame
  /\ LET q == Reads(TRUE)
         new == IF Anthropic THEN ~Same(q, c) ELSE c \notin q.items
         r == [q EXCEPT !.held[c] = IF new /\ @ < 2 THEN @ + 1 ELSE @, !.said = @ \cup {c},
                        !.broken = @ \cup {d \in Calls \ {c} : q.held[d] > 0},
                        !.late = @ \cup (IF new /\ q.held[c] = 0 /\ ~named THEN {c} ELSE {})]
     IN x' = CASE Anthropic -> IF new THEN Block(r, "tool", c) ELSE r
               [] ~Anthropic /\ new ->
                    [r EXCEPT !.items = (@ \ {"text"}) \cup {c},
                              !.kind[c] = IF c = "c0" /\ named THEN "custom" ELSE "function"]
               [] OTHER -> r

\* A role, a finish reason; or nothing that counts: a keepalive, an empty delta, usage.
Nothing(starts) == Frame /\ x' = Reads(starts)

\* A data frame that is not JSON, or a frame above the cap.
Malformed == Frame /\ x' = [Reads(FALSE) EXCEPT !.bad = TRUE]

-----------------------------------------------------------------------------
(* Ends *)

Closed(q) == [q EXCEPT !.block = "none", !.call = "none"]
Ends(q, end) == [Closed(q) EXCEPT !.end = end, !.items = IF end = "ok" THEN {} ELSE @]
Throws(q) == [q EXCEPT !.end = "thrown"]

\* A mutant: a stream with a frame missing ends like any other.
BugFinished(q) == Ends([q EXCEPT !.started = TRUE, !.done = TRUE], "ok")

\* [DONE]: the message ends, in an error when a frame was lost. A stream without any
\* message yet fails as a whole, so that another key may be tried.
Finished(q) ==
  CASE q.bad /\ ~q.started -> Throws(q)
    [] q.bad /\ q.started -> Ends([q EXCEPT !.tail = TRUE], "error")
    [] OTHER -> Ends([q EXCEPT !.started = TRUE, !.done = TRUE], "ok")

Done == Frame /\ x' = Finished(Reads(FALSE))

\* A frame that carries an error.
Failure ==
  /\ Frame
  /\ LET q == [Reads(FALSE) EXCEPT !.failed = TRUE]
     IN x' = IF q.started THEN Ends(q, "error") ELSE Throws(q)

\* What is left when upstream's bytes end: nothing, [DONE] without its line end, or
\* a part of a frame.
Tail(q, rest) == IF rest = "partial" THEN [q EXCEPT !.bad = TRUE] ELSE q

Eof(rest) ==
  /\ Live
  /\ LET q == Tail(x, rest)
     IN x' = CASE q.bad /\ ~q.started -> Throws(q)
               [] ~q.bad /\ rest = "done" -> Finished(q)
               [] OTHER -> Ends([q EXCEPT !.started = TRUE, !.tail = TRUE], "error")

-----------------------------------------------------------------------------

Init ==
  \E form \in {"anthropic", "responses"} :
    x = [form |-> form, frames |-> 0, started |-> FALSE, bad |-> FALSE, tail |-> FALSE,
         done |-> FALSE, block |-> "none", call |-> "none", items |-> {}, end |-> "none",
         held |-> [c \in Calls |-> 0], kind |-> [c \in Calls |-> "none"], broken |-> {},
         late |-> {}, said |-> {}, early |-> FALSE, odd |-> FALSE, failed |-> FALSE]

Next ==
  \/ (\E type \in {"text", "thinking"} : Says(type)) \/ SaysOddly
  \/ (\E c \in Calls, named \in BOOLEAN : Fragment(c, named))
  \/ (\E starts \in BOOLEAN : Nothing(starts)) \/ Malformed \/ Done \/ Failure
  \/ (\E rest \in {"nothing", "done", "partial"} : Eof(rest))

Spec == Init /\ [][Next]_x

-----------------------------------------------------------------------------
(* Properties *)

\* The translation fails as a whole only while the client has nothing, and no block comes
\* before its message, but for content that is not a string.
FailsBeforeTheFirstEvent ==
  ~x.odd => (x.end = "thrown" => ~x.started) /\ ~x.early

\* A clean end is the end of a whole stream: [DONE] was seen, no frame was lost, no block
\* or item is open. Any other end says so, and the server hears of it unless upstream
\* itself reported an error.
CleanEndIsHonest ==
  /\ x.end = "ok" => x.done /\ ~x.bad /\ x.block = "none" /\ x.items = {}
  /\ x.end = "error" => (x.tail \/ x.failed) /\ x.block = "none"
  /\ x.bad /\ x.end # "none" => x.end # "ok"

\* A tool call stays in one item, whatever comes between its fragments; in one block,
\* when nothing does. No two calls share one: the first fragment of each opens its own.
CallsStayWhole ==
  \A c \in Calls :
    /\ x.held[c] > 1 => Anthropic /\ c \in x.broken
    /\ c \in x.said => x.held[c] > 0
    /\ ~Anthropic /\ x.held[c] > 0 => x.kind[c] = (IF c = "c0" /\ c \notin x.late THEN "custom"
                                               ELSE "function")

TranslationIsHonest == FailsBeforeTheFirstEvent /\ CleanEndIsHonest /\ CallsStayWhole
=============================================================================

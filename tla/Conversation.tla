----------------------------- MODULE Conversation -----------------------------
(***************************************************************************)
(* A conversation over the two facades, which keep nothing between its     *)
(* requests: each answer of upstream goes to the client in the facade's    *)
(* words (translateAnthropicResponse, translateChatCompletionToResponse),  *)
(* comes back in the next request, and is translated again for upstream    *)
(* (translateAnthropicRequest, translateResponsesRequest).                 *)
(*                                                                         *)
(* The client replays what it was told and answers every call in its next  *)
(* turn.  A text is a marker; a call is <<its turn, its place>>.           *)
(***************************************************************************)
EXTENDS Integers, Sequences, FiniteSets, SequencesExt

CONSTANT MaxTurns       \* bound: answers of upstream

VARIABLE d              \* the conversation, one record

Unasked == [tools |-> {}, choice |-> "none"]

\* A message as upstream gets it; `of' is the turn an assistant's part was said in.
Message(role, of, text, think, calls) ==
  [role |-> role, of |-> of, text |-> text, think |-> think, calls |-> calls]

TypeOK ==
  /\ d.form \in {"anthropic", "responses"} /\ d.echo \in BOOLEAN
  /\ d.turn \in 0 .. MaxTurns /\ d.next \in {"user", "upstream", "over"}
  /\ d.said \in Seq([text : {"none", "before", "after"}, think : BOOLEAN, n : 0 .. 2])
  /\ \A i \in DOMAIN d.out : d.out[i].role \in {"user", "assistant", "tool"}
  /\ d.owed \subseteq (1 .. MaxTurns) \X (1 .. 2)         \* calls the client has to answer
  /\ {d.warned, d.refused} \subseteq BOOLEAN
  /\ d.sent.tools \subseteq {"function", "custom", "hosted"}

Anthropic == d.form = "anthropic"
CallsOf(turn, n) == {<<turn, i>> : i \in 1 .. n}

-----------------------------------------------------------------------------
(* Responses: an item at a time *)

\* Consecutive calls, and the text before them, are one assistant turn.
WithCall(out, call) ==
  IF out # <<>> /\ Last(out).role = "assistant"
  THEN [out EXCEPT ![Len(out)].calls = @ \cup {call}]
  ELSE Append(out, Message("assistant", call[1], FALSE, FALSE, {call}))

WithText(out, turn) == Append(out, Message("assistant", turn, TRUE, FALSE, {}))

\* An answer, item by item: the stream shows a text after the calls as an item of its own;
\* an answer that was thought about loses the thoughts.
Items(out, answer, turn) ==
  LET begun == IF answer.text = "before" THEN WithText(out, turn) ELSE out
      called == FoldLeft(WithCall, begun, [i \in 1 .. answer.n |-> <<turn, i>>])
  IN IF answer.text = "after" THEN WithText(called, turn) ELSE called

-----------------------------------------------------------------------------
(* Anthropic: a message at a time *)

\* The blocks of an answer, in whatever order, are one message; its thoughts go along to
\* the families that take them.
Blocks(out, answer, turn) ==
  LET think == answer.think /\ d.echo
  IN IF answer.text = "none" /\ answer.n = 0 /\ ~think THEN out
     ELSE Append(out, Message("assistant", turn, answer.text # "none", think,
                              CallsOf(turn, answer.n)))

-----------------------------------------------------------------------------
(* Turns *)

\* Upstream answers, and the client replays it.
Answers(answer) ==
  /\ d.next = "upstream" /\ d.turn < MaxTurns
  /\ answer.text # "none" \/ answer.n > 0 \/ answer.think
  /\ LET turn == d.turn + 1
     IN d' = [d EXCEPT !.turn = turn, !.next = "user", !.said = Append(@, answer),
                       !.owed = CallsOf(turn, answer.n),
                       !.out = IF Anthropic THEN Blocks(@, answer, turn) ELSE Items(@, answer, turn),
                       !.warned = @ \/ (answer.think /\ Anthropic /\ ~d.echo)]

\* A mutant: the text of a turn goes ahead of its results.
BugTurn(results, text) == (IF text THEN <<Message("user", 0, TRUE, FALSE, {})>> ELSE <<>>) \o results

\* The results come first, then the text.
Turn(results, text) ==
  results \o (IF text THEN <<Message("user", 0, TRUE, FALSE, {})>> ELSE <<>>)

\* The client's turn: the results of the calls, a text, and perhaps a part the facade
\* does not know, an image, or a result that names no call.
Says(text, extra) ==
  /\ d.next = "user" /\ (d.owed = {} => text \/ extra # "none")
  /\ LET results == [i \in 1 .. Cardinality(d.owed) |->
                        Message("tool", d.turn, TRUE, FALSE, {<<d.turn, i>>})]
         \* Responses keeps the message of a part it dropped; Anthropic skips it when empty
         shown == text \/ (~Anthropic /\ extra \in {"unknown", "image"})
         refuses == extra = "stray" \/ (Anthropic /\ extra = "image")
     IN d' = [d EXCEPT !.next = IF refuses THEN "over" ELSE "upstream", !.refused = refuses,
                       !.out = IF refuses THEN @ ELSE @ \o Turn(results, shown), !.owed = {},
                       !.warned = @ \/ extra = "unknown"]

-----------------------------------------------------------------------------
(* The fields of a request *)

\* A choice is passed on beside the tools there are; it may name one that was dropped.
Choice(choice, tools) == IF tools = {} \/ choice = "odd" THEN "none" ELSE choice

\* Tools by their kind; `odd' is what the facade refuses: no bound of tokens (Anthropic),
\* a conversation to be continued or a tool named twice (Responses).
Asks(tools, choice, odd) ==
  /\ d.next = "user" /\ d.turn = 0
  /\ LET kept == tools \cap (IF Anthropic THEN {"function", "custom", "hosted"}
                             ELSE {"function", "custom"})
     IN d' = [d EXCEPT !.next = "over", !.refused = odd, !.warned = tools # kept \/ choice = "odd",
                       !.sent = IF odd THEN Unasked
                                ELSE [tools |-> kept, choice |-> Choice(choice, kept)]]

-----------------------------------------------------------------------------

Init ==
  \E form \in {"anthropic", "responses"}, echo \in BOOLEAN :
    /\ form = "responses" => ~echo
    /\ d = [form |-> form, echo |-> echo, turn |-> 0, next |-> "user", said |-> <<>>,
            out |-> <<>>, owed |-> {}, warned |-> FALSE, refused |-> FALSE, sent |-> Unasked]

Next ==
  \/ (\E text \in {"none", "before", "after"}, think \in BOOLEAN, n \in 0 .. 2 :
        Answers([text |-> text, think |-> think, n |-> n]))
  \/ (\E text \in BOOLEAN, extra \in {"none", "unknown", "image", "stray"} : Says(text, extra))
  \/ (\E tools \in SUBSET {"function", "custom", "hosted", "malformed"},
         choice \in {"none", "auto", "named", "odd"}, odd \in BOOLEAN : Asks(tools, choice, odd))

Spec == Init /\ [][Next]_d

-----------------------------------------------------------------------------
(* Properties *)

\* A text that follows the calls of its answer, which only a stream can say.
Trails(turn) == ~Anthropic /\ d.said[turn].text = "after" /\ d.said[turn].n > 0

\* What upstream said comes back to it as one message with the same text and calls, or not
\* at all when it was thoughts only and the model takes none.
AnswersComeBack ==
  \A turn \in 1 .. d.turn :
    LET mine == {i \in DOMAIN d.out : d.out[i].role = "assistant" /\ d.out[i].of = turn}
        answer == d.said[turn]
    IN ~Trails(turn) =>
         /\ Cardinality(mine) <= 1
         /\ mine = {} => answer.text = "none" /\ answer.n = 0 /\ (d.warned \/ ~Anthropic)
         /\ \A i \in mine : /\ d.out[i].text = (answer.text # "none")
                            /\ d.out[i].calls = CallsOf(turn, answer.n)
                            /\ ~d.out[i].think /\ answer.think => d.warned \/ ~Anthropic

\* Every result comes right after the message with its call, or after another result of
\* it; every call of an answered turn has its result, unless the request was refused.
ResultsFollowCalls ==
  /\ \A i \in DOMAIN d.out : d.out[i].role = "tool" /\ ~Trails(d.out[i].of) =>
       \E j \in 1 .. i - 1 : /\ d.out[i].calls \subseteq d.out[j].calls
                             /\ d.out[j].role = "assistant"
                             /\ \A k \in j + 1 .. i - 1 : d.out[k].role = "tool"
  /\ d.owed = {} /\ ~d.refused =>
       \A i \in DOMAIN d.out : d.out[i].role = "assistant" =>
         \A call \in d.out[i].calls :
           \E j \in DOMAIN d.out : d.out[j].role = "tool" /\ d.out[j].calls = {call}

\* A choice of tools comes with tools.
FieldsFit == d.sent.choice # "none" => d.sent.tools # {}

ConversationIsFaithful == AnswersComeBack /\ ResultsFollowCalls /\ FieldsFit
=============================================================================

----------------------------- MODULE SseFraming ------------------------------
(***************************************************************************)
(* Three readers cut the same upstream bytes into SSE frames, each in its  *)
(* own way and each fed chunk by chunk as TCP delivers them: the observer  *)
(* and the pre-commit gate (createSseObserver, createPrecommitSseGate in   *)
(* src/gateway/server.mjs: one algorithm, a pattern over pending text),    *)
(* the Anthropic translator (anthropic-adapter.mjs: byte by byte) and the  *)
(* Responses translator (responses-adapter.mjs: text with its line ends    *)
(* rewritten). What ends a stream cleanly, charges a key or fails over is  *)
(* decided by one and shown to the client by another, so they must see the *)
(* same frames, however the bytes were cut.                                *)
(*                                                                         *)
(* A byte is a line end or data; a frame is the lengths of its data lines. *)
(***************************************************************************)
EXTENDS Integers, Sequences, SequencesExt

CONSTANTS MaxBytes,     \* bound: bytes of the stream
          MaxSent,      \* bound: bytes of one chunk
          MaxFrame      \* the cap on a frame (MAX_SSE_FRAME_CHARS, MAX_FRAME_CHARS, ...)

VARIABLE z              \* the stream so far and the three readers

Bytes == {"cr", "lf", "data"}

\* The lines of a text, by their lengths; empty lines carry nothing.
Lines(t) ==
  FoldLeft(LAMBDA acc, b : CASE b # "data" -> [acc EXCEPT !.open = FALSE]
                             [] b = "data" /\ ~acc.open -> [open |-> TRUE, is |-> Append(acc.is, 1)]
                             [] OTHER -> [acc EXCEPT !.is[Len(acc.is)] = @ + 1],
           [open |-> FALSE, is |-> <<>>], t).is

Take(t, n) == SubSeq(t, 1, n)
Drop(t, n) == SubSeq(t, n + 1, Len(t))

\* A frame without a data line says nothing to anybody.
Seen(frames, t) == IF Lines(t) = <<>> THEN frames ELSE Append(frames, Lines(t))

-----------------------------------------------------------------------------
(* The observer and the gate *)

\* The separator that starts at i, by its length: a line end, then another.
LineEnd(t, i) ==
  CASE i > Len(t) \/ t[IF i > Len(t) THEN 1 ELSE i] = "data" -> 0
    [] i < Len(t) /\ t[i] = "cr" /\ t[i + 1] = "lf" -> 2
    [] OTHER -> 1
Separator(t, i) ==
  LET first == LineEnd(t, i)
      next  == IF first = 0 THEN 0 ELSE LineEnd(t, i + first)
  IN IF next = 0 THEN 0 ELSE first + next
Separated(t) == {i \in 1 .. Len(t) : Separator(t, i) > 0}
FirstOf(S) == CHOOSE i \in S : \A j \in S : i <= j

\* One frame off the pending text; all of them, as each cut takes something.
Cut(o) ==
  LET i == FirstOf(Separated(o.pending))
  IN [o EXCEPT !.frames  = Seen(@, Take(o.pending, i - 1)),
               !.pending = Drop(@, i - 1 + Separator(o.pending, i))]
Frames(o) ==
  FoldLeft(LAMBDA q, b : IF Separated(q.pending) = {} THEN q ELSE Cut(q), o, o.pending)

\* One turn of consume: text is taken up to the cap; a frame that fills it is thrown away,
\* and what follows is read for a separator only.
Turn(o, text) ==
  IF o.discarding
  THEN IF Separated(text) = {} THEN [of |-> o, text |-> <<>>]
       ELSE LET i == FirstOf(Separated(text))
            IN [of |-> [o EXCEPT !.discarding = FALSE],
                text |-> Drop(text, i - 1 + Separator(text, i))]
  ELSE LET room == MaxFrame - Len(o.pending)
           n    == IF Len(text) < room THEN Len(text) ELSE room
           q    == Frames([o EXCEPT !.pending = @ \o Take(text, n)])
           full == Len(q.pending) = MaxFrame
       IN [of |-> [q EXCEPT !.pending = IF full THEN <<>> ELSE @, !.discarding = full],
           text |-> Drop(text, n)]

\* consume: every turn takes something of the text.
Consume(o, text) ==
  FoldLeft(LAMBDA c, b : IF c.text = <<>> THEN c ELSE Turn(c.of, c.text),
           [of |-> o, text |-> text], text).of

-----------------------------------------------------------------------------
(* The Anthropic translator *)

\* One byte: the LF of a CRLF is swallowed, a line end at the start of a line ends the
\* frame, and one line end before it is not part of it.
Byte(t, b) ==
  LET lineEnd == b # "data"
      ends    == lineEnd /\ t.lineStart
      stored  == IF ends \/ Len(t.buffer) > MaxFrame + 4 THEN t.buffer ELSE Append(t.buffer, b)
      content == IF t.buffer # <<>> /\ Last(t.buffer) # "data" THEN Front(t.buffer) ELSE t.buffer
      keeps   == ~t.discarding /\ Len(content) <= MaxFrame
      q       == [t EXCEPT !.lineStart = lineEnd, !.afterCr = b = "cr"]
  IN CASE b = "lf" /\ t.afterCr -> [t EXCEPT !.afterCr = FALSE]
       [] ~(b = "lf" /\ t.afterCr) /\ ends ->
            [q EXCEPT !.buffer = <<>>, !.discarding = FALSE,
                      !.frames = IF keeps THEN Seen(@, content) ELSE @,
                      !.malformed = @ \/ ~keeps]
       [] OTHER -> [q EXCEPT !.buffer = stored, !.discarding = @ \/ Len(stored) > MaxFrame + 4,
                             !.malformed = @ \/ Len(stored) > MaxFrame + 4]

-----------------------------------------------------------------------------
(* The Responses translator *)

\* Every line end becomes LF.
Rewritten(t) ==
  FoldLeft(LAMBDA acc, b : CASE b = "data" -> [cr |-> FALSE, is |-> Append(acc.is, "data")]
                             [] b = "lf" /\ acc.cr -> [acc EXCEPT !.cr = FALSE]
                             [] OTHER -> [cr |-> b = "cr", is |-> Append(acc.is, "lf")],
           [cr |-> FALSE, is |-> <<>>], t).is

Blank(t) == {i \in 1 .. Len(t) - 1 : t[i] = "lf" /\ t[i + 1] = "lf"}

\* The parts between blank lines; the last is what is left.
Split(t) ==
  LET cut(c, b) ==
        IF Blank(c.rest) = {} THEN c
        ELSE LET i == FirstOf(Blank(c.rest))
             IN [parts |-> Append(c.parts, Take(c.rest, i - 1)), rest |-> Drop(c.rest, i + 1)]
      all == FoldLeft(cut, [parts |-> <<>>, rest |-> t], t)
  IN Append(all.parts, all.rest)

\* collectFrames: a CR at the end of a chunk waits for its LF.
Collect(r, text) ==
  LET whole == r.carry \o text
      held  == Last(whole) = "cr"
      parts == Split(Rewritten(IF held THEN Front(whole) ELSE whole))
      body(q, t) ==
        CASE q.discarding -> [q EXCEPT !.discarding = FALSE, !.malformed = TRUE]
          [] ~q.discarding /\ Len(t) > MaxFrame -> [q EXCEPT !.malformed = TRUE]
          [] OTHER -> [q EXCEPT !.frames = Seen(@, t)]
      q     == FoldLeft(body, r, Front(parts))
      carry == Last(parts) \o (IF held THEN <<"cr">> ELSE <<>>)
      over  == Len(carry) > MaxFrame
  IN [q EXCEPT !.carry = IF over THEN <<>> ELSE carry, !.discarding = @ \/ over]

-----------------------------------------------------------------------------

Chunk(c) ==
  /\ Len(z.sent) + Len(c) <= MaxBytes
  /\ z' = [sent |-> z.sent \o c,
           observer |-> Consume(z.observer, c),
           anthropic |-> FoldLeft(Byte, z.anthropic, c),
           responses |-> Collect(z.responses, c)]

Init ==
  z = [sent |-> <<>>,
       observer |-> [pending |-> <<>>, discarding |-> FALSE, frames |-> <<>>],
       anthropic |-> [buffer |-> <<>>, discarding |-> FALSE, frames |-> <<>>, malformed |-> FALSE,
                      lineStart |-> TRUE, afterCr |-> FALSE],
       responses |-> [carry |-> <<>>, discarding |-> FALSE, frames |-> <<>>, malformed |-> FALSE]]

Next == \E n \in 1 .. MaxSent : \E c \in [1 .. n -> Bytes] : Chunk(c)

Spec == Init /\ [][Next]_z

TypeOK ==
  /\ z.sent \in Seq(Bytes) /\ Len(z.sent) <= MaxBytes
  /\ Len(z.observer.pending) < MaxFrame /\ Len(z.anthropic.buffer) <= MaxFrame + 5
  /\ Len(z.responses.carry) <= MaxFrame
  /\ {z.observer.discarding, z.anthropic.discarding, z.responses.discarding} \subseteq BOOLEAN

-----------------------------------------------------------------------------
(* Properties *)

\* Reference: a frame ends at an empty line, whatever its line ends; Raw: every complete
\* one, blank ones too, with its line ends rewritten.
Raw(t) ==
  FoldLeft(LAMBDA acc, b : IF b = "lf" /\ acc.start
                           THEN [is |-> Append(acc.is, acc.open), open |-> <<>>, start |-> TRUE]
                           ELSE [acc EXCEPT !.open = Append(@, b), !.start = b = "lf"],
           [is |-> <<>>, open |-> <<>>, start |-> TRUE], Rewritten(t)).is

Complete(t) == FoldLeft(LAMBDA frames, f : Seen(frames, f), <<>>, Raw(t))

\* No frame, complete or not, comes near the cap: what each reader counts besides data
\* (line ends before and after a frame) fits as well.
Short(t) ==
  LET n == Rewritten(t)
  IN \A i \in 1 .. Len(t) : i + MaxFrame - 1 <= Len(t) =>
       \E j \in i .. i + MaxFrame - 2 : Separator(t, j) > 0 /\ j + Separator(t, j) <= i + MaxFrame

\* All that two readers can disagree on is a frame whose last line end is a CR nothing
\* follows yet.
Waiting(t) == Last(t) = "cr"

\* However the bytes were cut into chunks, the three readers have seen the same frames.
FramersAgree ==
  z.sent # <<>> /\ Short(z.sent) =>
    LET frames == Complete(z.sent)
    IN /\ z.observer.frames = frames /\ z.anthropic.frames = frames
       /\ \/ z.responses.frames = frames
          \/ Waiting(z.sent) /\ z.responses.frames = Complete(Front(z.sent))
       /\ ~z.anthropic.malformed /\ ~z.responses.malformed

\* With a frame too large the Anthropic translator goes on with the next one, and says
\* that one is missing.
OversizedIsAlone ==
  LET kept == SelectSeq(Raw(z.sent), LAMBDA f : Len(f) - (IF f # <<>> /\ Last(f) = "lf" THEN 1 ELSE 0) <= MaxFrame)
  IN /\ z.anthropic.frames = FoldLeft(LAMBDA frames, f : Seen(frames, f), <<>>, kept)
     /\ Len(kept) < Len(Raw(z.sent)) => z.anthropic.malformed

\* No reader ever sees a frame upstream did not send.
IsSubSeq(s, t) ==
  FoldLeft(LAMBDA i, f : IF i < Len(s) /\ s[IF i < Len(s) THEN i + 1 ELSE 1] = f THEN i + 1 ELSE i, 0, t)
    = Len(s)
NothingInvented ==
  z.sent # <<>> =>
    \A frames \in {z.observer.frames, z.responses.frames} : IsSubSeq(frames, Complete(z.sent))

FramesAreUpstreams == FramersAgree /\ OversizedIsAlone /\ NothingInvented

=============================================================================

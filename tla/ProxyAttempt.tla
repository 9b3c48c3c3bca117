---------------------------- MODULE ProxyAttempt ----------------------------
(***************************************************************************)
(* One attempt of a request with one key: proxyRequest of                  *)
(* src/gateway/server.mjs with its pre-commit gate and its SSE observer.   *)
(* Upstream's bytes, its end or its breaks, the socket's two windows, the  *)
(* request's deadline, the longest stream, a slow client and a client that *)
(* leaves all race to end the attempt, and each has its own handler.  A    *)
(* handler is one JavaScript turn: here one action, written as a change of *)
(* the record `a`.                                                         *)
(***************************************************************************)
EXTENDS Naturals, Sequences

CONSTANT MaxChunks   \* bound: chunks upstream sends in one attempt

(***************************************************************************)
(* "openai": an SSE body passed through.  "raw": a stream was asked for    *)
(* and the body is not SSE.  "facade": an SSE body translated for the      *)
(* Anthropic or the Responses client.  "plain", "translated": no stream.   *)
(***************************************************************************)
Modes   == {"openai", "raw", "facade", "plain", "translated"}
Streams == {"openai", "raw", "facade"}

\* What the gate and the translators tell apart in a chunk.  partial: no frame ends
\* in it; malformed: a data frame that is not JSON.
Frames == {"partial", "benign", "meaningful", "error", "malformed", "done"}

Failures == {"upstream_sse_error", "upstream_stream_error", "incomplete_stream"}
Outcomes == Failures \cup
  {"none", "completed", "client_aborted", "request_deadline", "first_byte_timeout",
   "idle_timeout", "max_stream_duration", "upstream_http_error", "infra"}

VARIABLES
  a,      \* the attempt: flags and counters of the closure, and what the client got
  queue,  \* upstreamQueue: chunks the translator has not read
  tr      \* the translator: "off", "ready", "stalled" (awaits a drain), "done"
vars == <<a, queue, tr>>

\* up: connecting, error (a non-2xx body), body, dying (destroyed by the gateway or
\* reset; its last events are to come), over.
\* is: the closure's Boolean flags that are set.
Flags == {"intentional", "deadline", "closed", "resTorn", "idleTorn", "accounted",
          "first", "committed", "released", "meaningful", "sawDone", "sawError",
          "bad", "tail", "heldStop", "finishing", "clean", "ending", "wake",
          "aborting", "whole", "closeSeen", "gone", "thrown", "later"}

TypeOK ==
  /\ a.mode \in Modes /\ a.up \in {"connecting", "error", "body", "dying", "over"}
  /\ a.chunks \in 0 .. MaxChunks /\ a.is \subseteq Flags
  /\ a.timers \subseteq {"deadline", "max"}
  /\ a.outcome \in Outcomes /\ a.settled \in {"pending", "success", "retry", "final"}
  /\ a.credit \in 0 .. 1 /\ a.charge \in 0 .. 3
  /\ {a.held, a.headers, a.ended, a.torn, a.retryable} \subseteq BOOLEAN
  /\ queue \in Seq(Frames) /\ Len(queue) <= MaxChunks
  /\ tr \in {"off", "ready", "stalled", "done"}

(***************************************************************************)
(* The helpers of the closure, as functions of the attempt's record.       *)
(***************************************************************************)
Is(x, f) == f \in x.is
Set(x, fs) == [x EXCEPT !.is = @ \cup fs]

\* A mutant: every outcome judges the key again.
BugFinish(x, o) ==
  [x EXCEPT !.outcome = o, !.credit = IF o = "completed" THEN @ + 1 ELSE @,
            !.charge = IF o \in Failures THEN @ + 1 ELSE @]

\* recordOutcome, accountOutcome: the first terminal outcome wins, and it judges the
\* key unless handleKeyError has.
Finish(x, o) ==
  IF x.outcome # "none" THEN x
  ELSE LET judge == ~Is(x, "accounted")
       IN Set([x EXCEPT !.outcome = o,
                        !.credit = IF judge /\ o = "completed" THEN 1 ELSE @,
                        !.charge = IF judge /\ o \in Failures THEN @ + 1 ELSE @],
              {"accounted"})

\* handleKeyError; keyOutcomeAccounted = true
Penalise(x) == Set([x EXCEPT !.charge = @ + 1], {"accounted"})

\* The onResult wrapper: the first result wins and stops the deadline.
Settle(x, r) ==
  IF x.settled # "pending" THEN x
  ELSE [x EXCEPT !.settled = r, !.timers = @ \ {"deadline"}]

Disarm(x, ts) == [x EXCEPT !.timers = @ \ ts]
Destroy(x)  == IF x.up = "over" THEN x ELSE [x EXCEPT !.up = "dying"]
Headers(x)  == [x EXCEPT !.headers = TRUE]
Send(x, c)  == [Headers(x) EXCEPT !.content = IF @ = "meaningful" THEN @ ELSE c]
End(x)      == [Headers(x) EXCEPT !.ended = TRUE]
Tear(x)     == [x EXCEPT !.torn = TRUE]
EndOnce(x)  == IF x.ended THEN x ELSE End(x)

\* abortCommittedResponse: the response is destroyed once its bytes are flushed.
AbortCommitted(x) == IF x.ended THEN x ELSE Set(x, {"aborting"})
Precommit(x) == ~x.headers /\ ~x.ended /\ ~x.torn

\* abortUpstream
AbortUpstream(x) ==
  IF x.ended THEN x
  ELSE Settle(Destroy(Finish(Set(Disarm(x, {"deadline", "max"}),
                                 {"intentional", "resTorn", "wake"}),
                             "client_aborted")), "final")

\* The promises of the translator and of those who await it run before any other event.
Micro ==
  \/ tr = "ready" /\ (queue # <<>> \/ Is(a, "wake"))
  \/ tr \in {"off", "done"} /\ Is(a, "ending")
  \/ tr = "done" /\ Is(a, "finishing")
Turn == ~Micro

(***************************************************************************)
(* Upstream's answer begins.                                               *)
(***************************************************************************)
FirstByte(kind) ==
  /\ Turn
  /\ a.up = "connecting"
  /\ LET x == [a EXCEPT !.up = "body", !.responded = TRUE]
     IN a' = IF kind \in {"retryable", "fatal"}
             THEN [x EXCEPT !.up = "error", !.erring = TRUE, !.retryable = kind = "retryable"]
             ELSE IF kind = "empty" /\ a.mode = "plain"
             THEN [Settle(Finish(End(x), "completed"), "success") EXCEPT !.up = "over"]
             ELSE IF kind = "empty" /\ a.mode = "translated"
             THEN [Settle(Finish(End(x), "upstream_stream_error"), "final") EXCEPT !.up = "over"]
             ELSE IF a.mode = "plain" THEN Settle(Headers(x), "success")
             ELSE IF a.mode \in Streams THEN [x EXCEPT !.timers = @ \cup {"max"}]
             ELSE x
  /\ UNCHANGED <<queue, tr>>

(***************************************************************************)
(* A non-2xx answer.                                                       *)
(***************************************************************************)
ErrorBodyEnds ==
  /\ Turn
  /\ a.up = "error" /\ ~Is(a, "closed")
  /\ LET x == Finish(Penalise(Set([a EXCEPT !.up = "over"], {"closed"})),
                     "upstream_http_error")
     IN a' = IF a.retryable /\ ~a.headers THEN Settle(x, "retry")
             ELSE Settle(End(x), "final")
  /\ UNCHANGED <<queue, tr>>

ErrorBodyTooLarge ==
  /\ Turn
  /\ a.up = "error" /\ ~Is(a, "closed")
  /\ LET x == Settle(Set(a, {"intentional", "closed"}), "final")
     IN a' = Destroy(IF a.headers THEN x ELSE End(x))
  /\ UNCHANGED <<queue, tr>>

(***************************************************************************)
(* The pass-through stream: the pre-commit gate.                           *)
(***************************************************************************)
\* commitHeldSseStream: what was held goes out and the loop is told.
Commit(x, c) ==
  Settle(Set([Send(x, c) EXCEPT !.held = FALSE], {"committed"}), "success")

\* An error frame before anything meaningful: the key is charged, the socket dropped.
SseError(x, r) ==
  Settle(Finish(Penalise(Destroy(Set(Disarm(x, {"max"}), {"closed", "intentional"}))),
                "upstream_sse_error"), r)

\* A mutant: a benign prelude reaches the client and the error behind it is retried.
BugReleasedChunk(x, f) ==
  CASE f = "error" -> AbortCommitted(SseError(x, "retry"))
    [] f = "meaningful" -> Set(Commit(x, f), {"meaningful", "released"})
    [] OTHER -> x

\* Headers are out, nothing meaningful is: an error can no longer fail over.
ReleasedChunk(x, f) ==
  CASE f = "error" -> AbortCommitted(SseError(x, "final"))
    [] f = "meaningful" -> Set(Commit(x, f), {"meaningful", "released"})
    [] OTHER -> x

\* Headers are not out.  overflow: the chunk fills MAX_PRECOMMIT_HOLD_BYTES.
HeldChunk(x, f, overflow) ==
  CASE f = "error" -> SseError(x, "retry")
    [] f = "meaningful" -> Set(Commit(x, f), {"meaningful"})
    [] f = "partial" -> IF overflow THEN Commit(x, "benign") ELSE [x EXCEPT !.held = TRUE]
    [] OTHER -> Disarm([Send(x, "benign") EXCEPT !.held = FALSE], {"deadline"})

\* forwardCommittedSse
CommittedChunk(x, f) ==
  CASE f = "meaningful" -> Set(Send(x, f), {"meaningful"})
    [] f = "malformed" /\ Is(x, "meaningful") -> Set(x, {"bad"})
    [] OTHER -> x

\* createSseObserver sees every chunk of every stream.
Observe(x, f) ==
  Set(x, CASE f = "done" -> {"sawDone"} [] f = "error" -> {"sawError"} [] OTHER -> {})

Chunk(f, overflow) ==
  /\ Turn
  /\ a.up = "body" /\ a.mode \in Streams /\ a.chunks < MaxChunks /\ ~Is(a, "closed")
  /\ LET x == [Observe(a, f) EXCEPT !.chunks = @ + 1]
     IN \/ /\ a.mode = "openai"
           /\ a' = IF Is(a, "committed") THEN CommittedChunk(x, f)
                   ELSE IF a.headers THEN ReleasedChunk(x, f)
                   ELSE HeldChunk(x, f, overflow)
           /\ UNCHANGED <<queue, tr>>
        \/ /\ a.mode = "raw"  \* checkFirstChunkForSseError, then the body as it comes
           /\ a' = IF Is(a, "first") THEN x
                   ELSE IF f = "error" /\ ~a.headers
                        THEN SseError(Set(x, {"first"}), "retry")
                   ELSE Settle(Set(Send(x, "meaningful"), {"first"}), "success")
           /\ UNCHANGED <<queue, tr>>
        \/ /\ a.mode = "facade"
           /\ a' = Set(x, {"first"})
           /\ queue' = IF tr = "done" THEN queue ELSE Append(queue, f)
           /\ tr' = IF tr = "off" THEN "ready" ELSE tr

(***************************************************************************)
(* The translated stream: an async generator drains the queue into the     *)
(* client and waits whenever the client does not read.                     *)
(***************************************************************************)
\* The first event commits the response.
Emit(x, c) == Settle(Set(Send(x, c), {"committed"}), "success")

\* errorOnIncomplete: an error event, and message_stop is held back.
BrokenTail(x) == Set(Emit(x, "benign"), {"tail", "heldStop"})

\* The translator throws: only before the commit does this end the attempt.
Throws(x, semantic) ==
  IF Is(x, "deadline") \/ Is(x, "closed") \/ Is(x, "committed") THEN x
  ELSE Settle(Finish(Penalise(Disarm(Set(x, {"closed", "thrown"}), {"max"})),
                     IF semantic THEN "upstream_sse_error" ELSE "incomplete_stream"),
              "retry")

\* One frame, or the end of the queue ("eof").  `stops`: the generator returns.
Translated(x, f) ==
  LET started == Is(x, "committed")
      broken  == Is(x, "bad") \/ x.lastFrame = "partial"
  IN CASE f = "meaningful" -> [to |-> Emit(x, f), stops |-> FALSE]
       [] f = "malformed" -> [to |-> Set(x, {"bad"}), stops |-> FALSE]
       [] f = "error" -> [to |-> IF started THEN Emit(x, "benign") ELSE Throws(x, TRUE),
                          stops |-> TRUE]
       [] f = "done" -> [to |-> IF ~Is(x, "bad") THEN Emit(x, "benign")
                                ELSE IF started THEN BrokenTail(x) ELSE Throws(x, FALSE),
                         stops |-> TRUE]
       [] f = "eof" -> [to |-> IF broken /\ ~started THEN Throws(x, FALSE) ELSE BrokenTail(x),
                        stops |-> TRUE]
       [] OTHER -> [to |-> x, stops |-> FALSE]

\* for await (const ev of translated): a finished attempt stops the loop.
Silenced(x) == Is(x, "closed") \/ Is(x, "deadline") \/ x.ended

Translate ==
  /\ tr = "ready" /\ (queue # <<>> \/ Is(a, "wake"))
  /\ LET f == IF queue = <<>> THEN "eof" ELSE Head(queue)
         step == Translated(a, f)
     IN IF Silenced(a)
        THEN tr' = "done" /\ queue' = <<>> /\ UNCHANGED a
        ELSE /\ a' = [step.to EXCEPT !.lastFrame = IF f = "eof" THEN @ ELSE f]
             /\ queue' = IF queue = <<>> THEN queue ELSE Tail(queue)
             /\ \/ tr' = IF step.stops THEN "done" ELSE "ready"
                \/ ~step.stops /\ f = "meaningful" /\ ~a.torn /\ tr' = "stalled"

\* The client reads again (drain), or its response dies under the waiting writer.
Resume ==
  /\ Turn
  /\ tr = "stalled"
  /\ tr' = "ready"
  /\ UNCHANGED <<a, queue>>

(***************************************************************************)
(* Upstream's body ends.                                                   *)
(***************************************************************************)

\* Without [DONE] only a body that held no content ends cleanly.
CutShort(x, z) == IF Is(x, "meaningful") THEN AbortCommitted(z) ELSE EndOnce(z)

\* The verdict on an SSE body that was passed through.
OpenAiEnd(x) ==
  LET y == Disarm(Set(x, {"closed"}), {"max"})
  IN IF ~Is(x, "committed")
     THEN IF Is(x, "sawDone") THEN EndOnce(Finish(Commit(y, "benign"), "completed"))
          ELSE IF x.headers  \* a benign body is real output: never retried
          THEN AbortCommitted(Settle(Finish([y EXCEPT !.held = FALSE],
                                            "incomplete_stream"), "final"))
          ELSE Settle(Finish(y, "incomplete_stream"), "retry")
     ELSE IF Is(x, "sawError") /\ ~Is(x, "released")
          THEN EndOnce(Finish(y, "upstream_sse_error"))
     ELSE IF Is(x, "sawDone")
          THEN IF Is(x, "bad") THEN AbortCommitted(Finish(y, "completed"))
               ELSE EndOnce(Finish(y, "completed"))
     ELSE IF Is(x, "released") THEN CutShort(x, Finish(y, "incomplete_stream"))
     ELSE CutShort(x, Finish(Penalise(y), "incomplete_stream"))

RawEnd(x) ==
  LET y == Disarm(Set(x, {"closed", "first"}), {"max"})
  IN IF ~Is(x, "first") /\ ~x.headers
     THEN Settle(Finish(y, "incomplete_stream"), "retry")
     ELSE EndOnce(Finish(y, "completed"))

\* Without a single chunk the next key is tried; else the translator must finish first.
FacadeEnd(x) ==
  IF Is(x, "first") THEN Set(x, {"wake", "ending"})
  ELSE LET y == Finish(Disarm(Set(x, {"closed", "first"}), {"max"}), "incomplete_stream")
       IN IF x.headers THEN y ELSE Settle(y, "retry")

PlainEnd(x) == Finish(End(Set(x, {"closed"})), "completed")

\* good: a completion; poor: an error envelope or a malformed one; huge: over the limit.
TranslatedEnd(x, body) ==
  CASE body = "good" -> End(x)  \* the success is reported when the body is flushed
    [] body = "poor" -> Settle(Finish(Penalise(Set(x, {"closed"})),
                                      "upstream_stream_error"), "retry")
    [] body = "huge" -> Finish(IF x.headers THEN x ELSE End(x), "upstream_stream_error")

UpstreamEnds(body) ==
  /\ Turn
  /\ a.up = "body"
  /\ LET x == Set([a EXCEPT !.up = "over"], {"whole"})
     IN a' = IF Is(a, "closed") THEN x
             ELSE CASE a.mode = "openai" -> OpenAiEnd(x)
                    [] a.mode = "raw" -> RawEnd(x)
                    [] a.mode = "facade" -> FacadeEnd(x)
                    [] a.mode = "plain" -> PlainEnd(x)
                    [] OTHER -> TranslatedEnd(x, body)
  /\ UNCHANGED <<queue, tr>>

\* The callback of res.end: the translated body has been flushed.
BodyFlushed ==
  /\ Turn
  /\ a.mode = "translated" /\ Is(a, "whole") /\ a.ended /\ ~a.torn /\ a.outcome = "none"
  /\ a' = Settle(Finish(a, "completed"), "success")
  /\ UNCHANGED <<queue, tr>>

\* The end handler goes on once the translator has finished.
FacadeFinishes ==
  /\ Is(a, "ending") /\ (tr = "done" \/ tr = "off")
  /\ LET x == Disarm(Set([a EXCEPT !.is = @ \ {"ending"}], {"closed"}), {"max"})
         cut(y) == IF Is(a, "tail") /\ ~y.ended /\ ~y.torn
                   THEN AbortCommitted(y) ELSE EndOnce(y)
     IN a' = IF Is(a, "closed") THEN [a EXCEPT !.is = @ \ {"ending"}]
             ELSE IF Is(a, "sawError")
                  THEN cut(Finish(Penalise(x), "upstream_sse_error"))
             ELSE IF Is(a, "sawDone") THEN cut(Finish(x, "completed"))
             ELSE LET y == Finish(Penalise(x), "incomplete_stream")
                  IN IF y.ended THEN cut(y) ELSE AbortCommitted(y)
  /\ UNCHANGED <<queue, tr>>

(***************************************************************************)
(* Upstream's connection breaks: "error", "aborted" or "close" of the      *)
(* response, of a live body or of one the gateway has destroyed.           *)
(***************************************************************************)
\* Decision 4a: a break behind a normally completed stream is not a break.
CompletedNormally(x) ==
  /\ x.mode = "openai" /\ Is(x, "committed") /\ Is(x, "sawDone") /\ ~Is(x, "bad")
  /\ Is(x, "sawError") => Is(x, "released")

PassThroughBreaks(x) ==
  LET y == Disarm(Set(x, {"closed"}), {"max"})
      z == Finish(y, "upstream_stream_error")
  IN IF Is(x, "deadline") \/ Is(x, "intentional") \/ Is(x, "closed") THEN x
     ELSE IF CompletedNormally(x)
          THEN IF x.torn THEN Finish(y, "completed") ELSE EndOnce(Finish(y, "completed"))
     ELSE IF ~x.headers /\ ~Is(x, "first") THEN Settle(Penalise(z), "retry")
     ELSE Tear(z)

\* failAnthropicBeforeCommit, else finishAnthropicAfterCommitFailure.
FacadeBreaks(x) ==
  LET own == Is(x, "intentional")
      y == Set(x, {"intentional", "wake"})
      clean == Is(x, "sawDone") /\ ~Is(x, "sawError")
      charge(z) == Finish(Penalise(z), "upstream_stream_error")
  IN IF Is(x, "deadline") THEN x
     ELSE IF Is(x, "closed") THEN y
     ELSE IF ~own /\ ~Is(x, "committed")
          THEN Settle(charge(Disarm(Set(y, {"closed"}), {"max"})), "retry")
     ELSE IF Is(x, "committed")
          THEN IF Is(x, "resTorn") \/ Is(x, "idleTorn") THEN Disarm(y, {"max"})
               ELSE IF Is(x, "finishing") THEN y
               ELSE LET z == Disarm(Set(y, {"finishing"} \cup
                                           (IF clean THEN {"clean"} ELSE {})), {"max"})
                    IN IF clean THEN z ELSE charge(z)
     ELSE Tear(Finish(Disarm(Set(y, {"closed"}), {"max"}), "upstream_stream_error"))

\* failTruncatedBody
PlainBreaks(x) ==
  IF Is(x, "closed") \/ Is(x, "deadline") \/ Is(x, "intentional") THEN x
  ELSE AbortCommitted(Finish(Set(x, {"closed"}), "upstream_stream_error"))

TranslatedBreaks(x) ==
  IF Is(x, "closed") \/ Is(x, "deadline") \/ Is(x, "intentional") THEN x
  ELSE Settle(Finish(Penalise(Set(x, {"closed"})), "upstream_stream_error"), "retry")

\* closeInterruptedResponse
ErrorBodyBreaks(x) ==
  IF Is(x, "closed") \/ Is(x, "deadline") THEN x
  ELSE Tear(Headers(Finish(Set(x, {"closed"}), "upstream_stream_error")))

Broken(x) ==
  IF x.erring THEN ErrorBodyBreaks(x)
  ELSE CASE x.mode \in {"openai", "raw"} -> PassThroughBreaks(x)
         [] x.mode = "facade" -> FacadeBreaks(x)
         [] x.mode = "plain" -> PlainBreaks(x)
         [] OTHER -> TranslatedBreaks(x)

ResponseBreaks ==
  /\ Turn
  /\ a.up \in {"error", "body", "dying"} /\ a.responded
  /\ a' = [Broken(a) EXCEPT !.up = "over"]
  /\ UNCHANGED <<queue, tr>>

\* The error handler of the request: before the answer, or a reset in the middle of it
\* (the response's own break follows).  infra: DNS, refused.
RequestFails(infra) ==
  /\ Turn
  /\ a.up \in {"connecting", "error", "body", "dying"}
  /\ infra => a.up = "connecting"
  /\ LET silent == Is(a, "intentional") \/ Is(a, "deadline")
         x == [a EXCEPT !.up = IF a.responded THEN "dying" ELSE "over"]
         y == Finish(x, "upstream_stream_error")
     IN a' = IF silent THEN x
             ELSE IF infra THEN Settle(Finish(Set(x, {"accounted"}), "infra"), "retry")
             ELSE IF ~a.responded
                  THEN Settle(Finish(Penalise(x), "upstream_stream_error"), "retry")
             ELSE Settle(IF a.headers THEN Tear(y) ELSE End(y), "final")
  /\ UNCHANGED <<queue, tr>>

\* The rest of finishAnthropicAfterCommitFailure, once the translator has finished.
FailureFinishes ==
  /\ Is(a, "finishing") /\ tr = "done"
  /\ LET x == [a EXCEPT !.is = @ \ {"finishing"}]
         whole == Is(a, "clean") /\ ~Is(a, "tail")
         y == Set(IF ~Is(a, "clean") \/ a.outcome # "none" THEN x
                  ELSE IF whole THEN Finish(x, "completed")
                  ELSE Finish(Penalise(x), "upstream_stream_error"), {"closed"})
     IN a' = IF Is(a, "closed") THEN x
             ELSE IF whole THEN (IF a.torn THEN y ELSE EndOnce(y))
             ELSE AbortCommitted(y)
  /\ UNCHANGED <<queue, tr>>

(***************************************************************************)
(* Timers.                                                                 *)
(***************************************************************************)
\* A mutant: the deadline counts as the key's failure.
BugPastDeadline(x) ==
  Settle(Destroy(Finish(Penalise(Set(Disarm(x, {"max"}),
                                     {"deadline", "intentional", "wake"})),
                        "request_deadline")), "retry")

\* The request's deadline ends the attempt without a word about the key.
PastDeadline(x) ==
  Settle(Destroy(Finish(Set(Disarm(x, {"max"}), {"deadline", "intentional", "wake"}),
                        "request_deadline")), "retry")

\* The first-byte window, then the idle window, of the socket.  clamped: the window was
\* cut down to the deadline, or the deadline has passed.
SocketTimer(clamped) ==
  /\ Turn
  /\ a.up \in {"connecting", "error", "body"}
  /\ ~Is(a, "deadline")
  /\ a.settled # "pending" => ~Is(a, "intentional") /\ a.headers
  /\ clamped => ~a.headers
  /\ LET x == Destroy(Set(a, {"intentional"}))
         idle == Finish(Set(Disarm(x, {"max"}), {"idleTorn", "wake"}), "idle_timeout")
     IN a' = IF clamped THEN PastDeadline(a)
             ELSE IF a.up = "connecting"
                  THEN Settle(Finish(Penalise(x), "first_byte_timeout"), "retry")
             ELSE IF Precommit(a) THEN Settle(Set(idle, {"deadline"}), "retry")
             ELSE Tear(Settle(idle, "final"))
  /\ UNCHANGED <<queue, tr>>

MaxStreamTimer ==
  /\ Turn
  /\ "max" \in a.timers
  /\ LET x == Finish(Destroy(Set(Disarm(a, {"max"}), {"closed", "intentional", "wake"})),
                     "max_stream_duration")
     IN a' = IF Is(a, "closed") THEN Disarm(a, {"max"})
             ELSE IF Precommit(a) THEN Settle(Set(x, {"deadline"}), "retry")
             ELSE Tear(Settle(x, "final"))
  /\ UNCHANGED <<queue, tr>>

DeadlineTimer ==
  /\ Turn
  /\ "deadline" \in a.timers
  /\ a' = IF a.settled = "pending" /\ Precommit(a) THEN PastDeadline(a)
          ELSE Disarm(a, {"deadline"})
  /\ UNCHANGED <<queue, tr>>

(***************************************************************************)
(* The client's side.                                                      *)
(***************************************************************************)
\* "close" of the response: onClientClose, then the stream's own handler.  A retryable
\* settle has detached both.
Closes(x) ==
  LET y == AbortUpstream(x)
      streaming == x.mode \in Streams /\ x.responded /\ ~x.erring
      z == Set(y, {"closeSeen"} \cup (IF streaming THEN {"wake"} ELSE {}))
  IN IF x.settled = "retry" THEN Set(x, {"closeSeen"})
     ELSE IF streaming /\ ~Is(z, "closed") /\ ~z.ended
     THEN Destroy(Finish(Disarm(Set(z, {"closed", "intentional"}), {"max"}),
                         "client_aborted"))
     ELSE z

\* The client's socket closes: "aborted" and "close" come in one turn.
ClientLeaves ==
  /\ Turn
  /\ ~a.torn
  /\ a' = Closes(Tear(Set(a, {"gone"})))
  /\ UNCHANGED <<queue, tr>>

\* The gateway has destroyed the response: "close" comes later.
ResponseCloses ==
  /\ Turn
  /\ a.torn /\ ~Is(a, "closeSeen")
  /\ a' = Closes(a)
  /\ UNCHANGED <<queue, tr>>

\* abortCommittedResponse destroys the response after the flush, or after two seconds.
Flushed ==
  /\ Turn
  /\ Is(a, "aborting")
  /\ a' = Tear([a EXCEPT !.is = @ \ {"aborting"}])
  /\ UNCHANGED <<queue, tr>>

\* The next key's attempt writes to the same response.
LaterAttemptStreams ==
  /\ Turn
  /\ a.settled = "retry" /\ Precommit(a)
  /\ a' = Set(Headers(a), {"later"})
  /\ UNCHANGED <<queue, tr>>

Init ==
  /\ \E m \in Modes :
       a = [mode |-> m, up |-> "connecting", responded |-> FALSE, erring |-> FALSE,
            retryable |-> FALSE, chunks |-> 0, lastFrame |-> "benign", is |-> {},
            timers |-> {"deadline"}, held |-> FALSE, outcome |-> "none",
            settled |-> "pending", credit |-> 0, charge |-> 0,
            headers |-> FALSE, content |-> "none", ended |-> FALSE, torn |-> FALSE]
  /\ queue = <<>> /\ tr = "off"

Upstream ==
  \/ \E kind \in {"ok", "empty", "retryable", "fatal"} : FirstByte(kind)
  \/ ErrorBodyEnds \/ ErrorBodyTooLarge
  \/ \E f \in Frames, overflow \in BOOLEAN : Chunk(f, overflow)
  \/ \E body \in {"good", "poor", "huge"} : UpstreamEnds(body)
  \/ ResponseBreaks \/ \E infra \in BOOLEAN : RequestFails(infra)

Timers == (\E clamped \in BOOLEAN : SocketTimer(clamped)) \/ MaxStreamTimer \/ DeadlineTimer

Internal == Translate \/ FacadeFinishes \/ FailureFinishes \/ BodyFlushed \/ Flushed

Client == Resume \/ LaterAttemptStreams \/ ClientLeaves \/ ResponseCloses

Next == Upstream \/ Timers \/ Internal \/ Client
Spec == Init /\ [][Next]_vars

\* Timers fire, turns are taken, and a client that does not read reads again or leaves.
FairSpec ==
  /\ Spec
  /\ WF_vars(\E clamped \in BOOLEAN : SocketTimer(clamped)) /\ WF_vars(MaxStreamTimer)
  /\ WF_vars(Internal) /\ WF_vars(Resume) /\ WF_vars(ResponseCloses)
  /\ WF_vars(a.up = "dying" /\ ResponseBreaks)

(***************************************************************************)
(* Properties.                                                             *)
(***************************************************************************)
\* An attempt that has handed the request to the next key leaves the client's response
\* alone, whatever upstream does later; and the request's deadline never cuts a
\* response the client has begun to receive.
NoStaleClosure ==
  /\ a.settled = "retry" => /\ a.headers => Is(a, "later")
                            /\ ~a.ended /\ ~Is(a, "aborting")
                            /\ a.torn => Is(a, "gone")
  /\ a.outcome = "request_deadline" => ~a.headers \/ Is(a, "later")

\* The same for every way to fail but one: a translator that throws leaves its upstream
\* request open (see Findings).
RetryIsInvisible == Is(a, "thrown") \/ NoStaleClosure

\* A response that ends cleanly is a whole one: upstream's end, or its [DONE], was seen,
\* nothing held was dropped, and content is never followed by a clean end unless
\* [DONE] or upstream's own error event came with it (plan L1, Decision 4a and 5a).
CleanEndIsWhole ==
  a.ended /\ ~a.torn /\ a.content # "none" =>
    /\ ~a.held /\ (Is(a, "whole") \/ Is(a, "sawDone"))
    /\ a.mode = "facade" \/ (a.mode = "openai" /\ Is(a, "meaningful")) =>
         Is(a, "sawError") \/ (Is(a, "sawDone") /\ ~Is(a, "bad"))

\* The key is judged by what upstream did: never for the client's leaving, the deadline,
\* an idle or over-long stream or the gateway's own network, never both ways, and no
\* credit for an answer whose status was an error.
KeyIsJudgedFairly ==
  /\ a.charge > 0 => a.outcome \in Failures \cup {"first_byte_timeout", "upstream_http_error"}
  /\ a.credit > 0 => a.outcome = "completed" /\ a.charge = 0 /\ ~a.erring
=============================================================================

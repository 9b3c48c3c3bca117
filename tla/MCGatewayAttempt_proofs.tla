---------------------- MODULE MCGatewayAttempt_proofs -----------------------
(***************************************************************************)
(* Proofs about one upstream attempt of the gateway child (ProxyAttempt)   *)
(* and about upstream's refusals (ErrorEcho), for every number of chunks.  *)
(* The other machines of the child are in MCGateway_proofs, with which     *)
(* this module shares the shape of its theorems: a behaviour of MCGateway  *)
(* belongs to one machine and the others stand still.                      *)
(***************************************************************************)
EXTENDS MCGateway, TLAPS

-----------------------------------------------------------------------------
(* One upstream attempt: what the client and the key get of it                *)

Fields == {"mode", "up", "responded", "erring", "retryable", "chunks", "lastFrame", "is",
           "timers", "held", "outcome", "settled", "credit", "charge", "headers", "content",
           "ended", "torn"}

\* A record with the attempt's fields, and what a change leaves of one: the answer it is
\* for, its verdict, what the client got.
Attempt(x) ==
  DOMAIN x = Fields /\ x.mode \in Proxy!Modes /\ x.credit \in Nat /\ x.charge \in Nat
Kept(s, t) == Attempt(t) /\ t.mode = s.mode /\ t.responded = s.responded /\ t.erring = s.erring
Verdict(s, t) == t.outcome = s.outcome /\ t.credit = s.credit /\ t.charge = s.charge
Answer(s, t) ==
  t.headers = s.headers /\ t.content = s.content /\ t.ended = s.ended /\ t.torn = s.torn
MaxRuns(x) == "max" \in x.timers
Flagged(s, t, fs) == \A e : Proxy!Is(t, e) <=> Proxy!Is(s, e) \/ e \in fs

LEMMA SetDoes ==
  \A s, fs : Attempt(s) =>
    LET t == Proxy!Set(s, fs)
    IN /\ Kept(s, t) /\ Verdict(s, t) /\ Answer(s, t)
       /\ Flagged(s, t, fs)
       /\ MaxRuns(t) <=> MaxRuns(s)
       /\ t.up = s.up /\ t.held = s.held /\ t.settled = s.settled
  BY DEF Attempt, Fields, Proxy!Set, Proxy!Is, MaxRuns, Flagged, Kept, Verdict, Answer

LEMMA DisarmDoes ==
  \A s, ts : Attempt(s) =>
    LET t == Proxy!Disarm(s, ts)
    IN /\ Kept(s, t) /\ Verdict(s, t) /\ Answer(s, t)
       /\ Flagged(s, t, {})
       /\ MaxRuns(t) <=> MaxRuns(s) /\ "max" \notin ts
       /\ t.up = s.up /\ t.held = s.held /\ t.settled = s.settled
  BY DEF Attempt, Fields, Proxy!Disarm, Proxy!Is, MaxRuns, Flagged, Kept, Verdict, Answer

LEMMA DestroyDoes ==
  \A s : Attempt(s) =>
    LET t == Proxy!Destroy(s)
    IN /\ Kept(s, t) /\ Verdict(s, t) /\ Answer(s, t)
       /\ Flagged(s, t, {})
       /\ MaxRuns(t) <=> MaxRuns(s)
       /\ t.up = (IF s.up = "over" THEN "over" ELSE "dying") /\ t.held = s.held
              /\ t.settled = s.settled
  BY DEF Attempt, Fields, Proxy!Destroy, Proxy!Is, MaxRuns, Flagged, Kept, Verdict, Answer

LEMMA SettleDoes ==
  \A s, r : Attempt(s) =>
    LET t == Proxy!Settle(s, r)
    IN /\ Kept(s, t) /\ Verdict(s, t) /\ Answer(s, t)
       /\ Flagged(s, t, {})
       /\ t.up = s.up /\ t.held = s.held
       /\ t.settled = IF s.settled = "pending" THEN r ELSE s.settled
       /\ MaxRuns(t) <=> MaxRuns(s)
  BY DEF Attempt, Fields, Proxy!Settle, Proxy!Is, MaxRuns, Flagged, Kept, Verdict, Answer

LEMMA HeadersDoes ==
  \A s : Attempt(s) =>
    LET t == Proxy!Headers(s)
    IN /\ Kept(s, t) /\ Verdict(s, t)
       /\ Flagged(s, t, {})
       /\ MaxRuns(t) <=> MaxRuns(s)
       /\ t.up = s.up /\ t.held = s.held /\ t.settled = s.settled
       /\ t.headers /\ t.content = s.content /\ t.ended = s.ended /\ t.torn = s.torn
  BY DEF Attempt, Fields, Proxy!Headers, Proxy!Is, MaxRuns, Flagged, Kept, Verdict, Answer

LEMMA SendDoes ==
  \A s, c : Attempt(s) =>
    LET t == Proxy!Send(s, c)
    IN /\ Kept(s, t) /\ Verdict(s, t)
       /\ Flagged(s, t, {})
       /\ MaxRuns(t) <=> MaxRuns(s)
       /\ t.up = s.up /\ t.held = s.held /\ t.settled = s.settled
       /\ t.headers /\ t.ended = s.ended /\ t.torn = s.torn
       /\ t.content = IF s.content = "meaningful" THEN s.content ELSE c
  BY DEF Attempt, Fields, Proxy!Send, Proxy!Headers, Proxy!Is, MaxRuns, Flagged, Kept, Verdict,
     Answer

LEMMA EndDoes ==
  \A s : Attempt(s) =>
    LET t == Proxy!End(s)
    IN /\ Kept(s, t) /\ Verdict(s, t)
       /\ Flagged(s, t, {})
       /\ MaxRuns(t) <=> MaxRuns(s)
       /\ t.up = s.up /\ t.held = s.held /\ t.settled = s.settled
       /\ t.headers /\ t.ended /\ t.content = s.content /\ t.torn = s.torn
  BY DEF Attempt, Fields, Proxy!End, Proxy!Headers, Proxy!Is, MaxRuns, Flagged, Kept, Verdict,
     Answer

LEMMA TearDoes ==
  \A s : Attempt(s) =>
    LET t == Proxy!Tear(s)
    IN /\ Kept(s, t) /\ Verdict(s, t)
       /\ Flagged(s, t, {})
       /\ MaxRuns(t) <=> MaxRuns(s)
       /\ t.up = s.up /\ t.held = s.held /\ t.settled = s.settled
       /\ t.torn /\ t.headers = s.headers /\ t.content = s.content /\ t.ended = s.ended
  BY DEF Attempt, Fields, Proxy!Tear, Proxy!Is, MaxRuns, Flagged, Kept, Verdict, Answer

LEMMA PenaliseDoes ==
  \A s : Attempt(s) =>
    LET t == Proxy!Penalise(s)
    IN /\ Kept(s, t) /\ Answer(s, t)
       /\ Flagged(s, t, {"accounted"})
       /\ MaxRuns(t) <=> MaxRuns(s)
       /\ t.up = s.up /\ t.held = s.held /\ t.settled = s.settled
       /\ t.outcome = s.outcome /\ t.credit = s.credit /\ t.charge # 0
<1> TAKE s
<1> HAVE Attempt(s)
<1>1. PICK n \in Nat : n = s.charge + 1 /\ n # 0
  BY DEF Attempt
<1> DEFINE q == [s EXCEPT !.charge = n]
<1>2. Proxy!Penalise(s) = Proxy!Set(q, {"accounted"})
  BY <1>1 DEF Proxy!Penalise
<1>3. /\ Kept(s, q) /\ Answer(s, q) /\ Flagged(s, q, {}) /\ (MaxRuns(q) <=> MaxRuns(s))
      /\ q.held = s.held /\ q.up = s.up /\ q.settled = s.settled
      /\ q.outcome = s.outcome /\ q.credit = s.credit /\ q.charge # 0
  BY <1>1 DEF Attempt, Fields, Kept, Answer, Flagged, Proxy!Is, MaxRuns
<1> HIDE DEF q
<1> QED
  BY <1>2, <1>3, SetDoes DEF Kept, Answer, Verdict, Flagged

LEMMA Finished ==
  ASSUME NEW s, NEW o, Attempt(s), s.outcome = "none"
  PROVE  LET t == Proxy!Finish(s, o)
         IN /\ Kept(s, t) /\ Answer(s, t) /\ Flagged(s, t, {"accounted"})
            /\ (MaxRuns(t) <=> MaxRuns(s))
            /\ t.held = s.held /\ t.up = s.up /\ t.settled = s.settled /\ t.outcome = o
            /\ t.credit = IF Proxy!Is(s, "accounted") \/ o # "completed" THEN s.credit ELSE 1
            /\ Proxy!Is(s, "accounted") \/ o \notin Proxy!Failures => t.charge = s.charge
<1>1. PICK n \in Nat : n = s.charge + 1 /\ n # 0
  BY DEF Attempt
<1> DEFINE judge == ~Proxy!Is(s, "accounted")
           q == [s EXCEPT !.outcome = o,
                        !.credit = IF judge /\ o = "completed" THEN 1 ELSE s.credit,
                        !.charge = IF judge /\ o \in Proxy!Failures THEN n ELSE s.charge]
<1>2. Proxy!Finish(s, o) = Proxy!Set(q, {"accounted"})
  BY <1>1 DEF Proxy!Finish
<1>3. /\ Kept(s, q) /\ Answer(s, q) /\ Flagged(s, q, {}) /\ (MaxRuns(q) <=> MaxRuns(s))
      /\ q.held = s.held /\ q.up = s.up /\ q.settled = s.settled /\ q.outcome = o
      /\ q.credit = IF judge /\ o = "completed" THEN 1 ELSE s.credit
      /\ q.charge = IF judge /\ o \in Proxy!Failures THEN n ELSE s.charge
  BY <1>1 DEF Attempt, Fields, Kept, Answer, Flagged, Proxy!Is, MaxRuns
<1> HIDE DEF q
<1>4. DEFINE t == Proxy!Set(q, {"accounted"})
<1>5. /\ Kept(q, t) /\ Answer(q, t) /\ Verdict(q, t) /\ Flagged(q, t, {"accounted"})
      /\ (MaxRuns(t) <=> MaxRuns(q))
      /\ t.held = q.held /\ t.up = q.up /\ t.settled = q.settled
  BY <1>3, SetDoes DEF Kept
<1> HIDE DEF t
<1> QED
  BY <1>2, <1>3, <1>5 DEF Kept, Answer, Verdict, Flagged, t

LEMMA FinishDoes ==
  \A s, o : Attempt(s) =>
    LET t == Proxy!Finish(s, o)
    IN /\ Kept(s, t) /\ Answer(s, t)
       /\ MaxRuns(t) <=> MaxRuns(s)
       /\ t.up = s.up /\ t.held = s.held /\ t.settled = s.settled
       /\ \A e : Proxy!Is(t, e) <=> Proxy!Is(s, e) \/ (e = "accounted" /\ s.outcome = "none")
       /\ t.outcome = IF s.outcome = "none" THEN o ELSE s.outcome
       /\ t.credit = IF s.outcome # "none" \/ Proxy!Is(s, "accounted") \/ o # "completed"
                     THEN s.credit ELSE 1
       /\ s.outcome # "none" \/ Proxy!Is(s, "accounted") \/ o \notin Proxy!Failures =>
            t.charge = s.charge
<1> TAKE s, o
<1> HAVE Attempt(s)
<1>1. CASE s.outcome = "none"
  BY <1>1, Finished DEF Kept, Answer, Flagged
<1>2. CASE s.outcome # "none"
  BY <1>2 DEF Proxy!Finish, Kept, Answer, Flagged
<1> QED
  BY <1>1, <1>2

LEMMA EndOnceDoes ==
  \A s : Attempt(s) =>
    LET t == Proxy!EndOnce(s)
    IN /\ Kept(s, t) /\ Verdict(s, t)
       /\ Flagged(s, t, {})
       /\ MaxRuns(t) <=> MaxRuns(s)
       /\ t.up = s.up /\ t.held = s.held /\ t.settled = s.settled
       /\ t.headers = (IF s.ended THEN s.headers ELSE TRUE) /\ t.ended
       /\ t.content = s.content /\ t.torn = s.torn
  BY EndDoes DEF Proxy!EndOnce, Kept, Verdict, Flagged

LEMMA AbortDoes ==
  \A s : Attempt(s) =>
    LET t == Proxy!AbortCommitted(s)
    IN /\ Kept(s, t) /\ Verdict(s, t) /\ Answer(s, t)
       /\ MaxRuns(t) <=> MaxRuns(s)
       /\ t.up = s.up /\ t.held = s.held /\ t.settled = s.settled
       /\ \A e : Proxy!Is(t, e) <=> Proxy!Is(s, e) \/ (e = "aborting" /\ ~s.ended)
  BY SetDoes DEF Proxy!AbortCommitted, Kept, Verdict, Answer, Flagged

LEMMA UpDoes ==
  \A s, u : Attempt(s) =>
    LET t == [s EXCEPT !.up = u]
    IN /\ Kept(s, t) /\ Verdict(s, t) /\ Answer(s, t)
       /\ Flagged(s, t, {})
       /\ MaxRuns(t) <=> MaxRuns(s)
       /\ t.up = u /\ t.held = s.held /\ t.settled = s.settled
  BY DEF Attempt, Fields, Proxy!Is, MaxRuns, Flagged, Kept, Verdict, Answer

LEMMA HoldDoes ==
  \A s, h : Attempt(s) =>
    LET t == [s EXCEPT !.held = h]
    IN /\ Kept(s, t) /\ Verdict(s, t) /\ Answer(s, t)
       /\ Flagged(s, t, {})
       /\ MaxRuns(t) <=> MaxRuns(s)
       /\ t.up = s.up /\ t.held = h /\ t.settled = s.settled
  BY DEF Attempt, Fields, Proxy!Is, MaxRuns, Flagged, Kept, Verdict, Answer

LEMMA CountDoes ==
  \A s, n : Attempt(s) =>
    LET t == [s EXCEPT !.chunks = n]
    IN /\ Kept(s, t) /\ Verdict(s, t) /\ Answer(s, t)
       /\ Flagged(s, t, {})
       /\ MaxRuns(t) <=> MaxRuns(s)
       /\ t.up = s.up /\ t.held = s.held /\ t.settled = s.settled
  BY DEF Attempt, Fields, Proxy!Is, MaxRuns, Flagged, Kept, Verdict, Answer

LEMMA NoteDoes ==
  \A s, n : Attempt(s) =>
    LET t == [s EXCEPT !.lastFrame = n]
    IN /\ Kept(s, t) /\ Verdict(s, t) /\ Answer(s, t)
       /\ Flagged(s, t, {})
       /\ MaxRuns(t) <=> MaxRuns(s)
       /\ t.up = s.up /\ t.held = s.held /\ t.settled = s.settled
  BY DEF Attempt, Fields, Proxy!Is, MaxRuns, Flagged, Kept, Verdict, Answer

LEMMA ClearDoes ==
  \A s, g : Attempt(s) =>
    LET t == [s EXCEPT !.is = s.is \ {g}]
    IN /\ Kept(s, t) /\ Verdict(s, t) /\ Answer(s, t)
       /\ MaxRuns(t) <=> MaxRuns(s)
       /\ t.up = s.up /\ t.held = s.held /\ t.settled = s.settled
       /\ \A e : Proxy!Is(t, e) <=> Proxy!Is(s, e) /\ e # g
  BY DEF Attempt, Fields, Proxy!Is, MaxRuns, Flagged, Kept, Verdict, Answer

LEMMA ObserveDoes ==
  \A s, f : Attempt(s) =>
    LET t == Proxy!Observe(s, f)
    IN /\ Kept(s, t) /\ Verdict(s, t) /\ Answer(s, t)
       /\ MaxRuns(t) <=> MaxRuns(s)
       /\ t.up = s.up /\ t.held = s.held /\ t.settled = s.settled
       /\ \A e : Proxy!Is(t, e) <=>
            \/ Proxy!Is(s, e)
            \/ e = "sawDone" /\ f = "done"
            \/ e = "sawError" /\ f = "error"
<1> TAKE s, f
<1> HAVE Attempt(s)
<1>1. CASE f = "done"
  BY <1>1, SetDoes DEF Proxy!Observe, Kept, Verdict, Answer, Flagged
<1>2. CASE f = "error"
  BY <1>2, SetDoes DEF Proxy!Observe, Kept, Verdict, Answer, Flagged
<1>3. CASE f \notin {"done", "error"}
  BY <1>3, SetDoes DEF Proxy!Observe, Kept, Verdict, Answer, Flagged
<1> QED
  BY <1>1, <1>2, <1>3

LEMMA CommitDoes ==
  \A s, c : Attempt(s) =>
    LET t == Proxy!Commit(s, c)
    IN /\ Kept(s, t) /\ Verdict(s, t)
       /\ Flagged(s, t, {"committed"})
       /\ MaxRuns(t) <=> MaxRuns(s)
       /\ t.up = s.up /\ t.held = FALSE
       /\ t.settled = IF s.settled = "pending" THEN "success" ELSE s.settled
       /\ t.headers /\ t.ended = s.ended /\ t.torn = s.torn
       /\ t.content = IF s.content = "meaningful" THEN s.content ELSE c
<1> TAKE s, c
<1> HAVE Attempt(s)
<1> DEFINE q == [Proxy!Send(s, c) EXCEPT !.held = FALSE]
<1>1. /\ Kept(s, q) /\ Verdict(s, q) /\ Flagged(s, q, {}) /\ (MaxRuns(q) <=> MaxRuns(s))
      /\ q.up = s.up /\ q.held = FALSE /\ q.settled = s.settled
      /\ q.headers /\ q.ended = s.ended /\ q.torn = s.torn
      /\ q.content = IF s.content = "meaningful" THEN s.content ELSE c
  BY SendDoes, HoldDoes DEF Kept, Verdict, Answer, Flagged
<1> HIDE DEF q
<1>2. Proxy!Commit(s, c) = Proxy!Settle(Proxy!Set(q, {"committed"}), "success")
  BY DEF Proxy!Commit, q
<1> QED
  BY <1>1, <1>2, SetDoes, SettleDoes DEF Kept, Verdict, Answer, Flagged

LEMMA EmitDoes ==
  \A s, c : Attempt(s) =>
    LET t == Proxy!Emit(s, c)
    IN /\ Kept(s, t) /\ Verdict(s, t)
       /\ Flagged(s, t, {"committed"})
       /\ MaxRuns(t) <=> MaxRuns(s)
       /\ t.up = s.up /\ t.held = s.held
       /\ t.settled = IF s.settled = "pending" THEN "success" ELSE s.settled
       /\ t.headers /\ t.ended = s.ended /\ t.torn = s.torn
       /\ t.content = IF s.content = "meaningful" THEN s.content ELSE c
  BY SendDoes, SetDoes, SettleDoes DEF Proxy!Emit, Kept, Verdict, Answer, Flagged

LEMMA SseErrorDoes ==
  \A s, r : Attempt(s) =>
    LET t == Proxy!SseError(s, r)
    IN /\ Kept(s, t) /\ Answer(s, t)
       /\ Flagged(s, t, {"closed", "intentional", "accounted"})
       /\ t.up = (IF s.up = "over" THEN "over" ELSE "dying") /\ t.held = s.held
       /\ t.settled = IF s.settled = "pending" THEN r ELSE s.settled
       /\ ~MaxRuns(t)
       /\ t.outcome = (IF s.outcome = "none" THEN "upstream_sse_error" ELSE s.outcome)
       /\ t.credit = s.credit /\ t.charge # 0
<1> TAKE s, r
<1> HAVE Attempt(s)
<1> DEFINE q == Proxy!Destroy(Proxy!Set(Proxy!Disarm(s, {"max"}), {"closed", "intentional"}))
<1>1. /\ Kept(s, q) /\ Verdict(s, q) /\ Answer(s, q) /\ Flagged(s, q, {"closed", "intentional"})
      /\ ~MaxRuns(q) /\ q.held = s.held /\ q.settled = s.settled
      /\ q.up = IF s.up = "over" THEN "over" ELSE "dying"
  BY DisarmDoes, SetDoes, DestroyDoes DEF Kept, Verdict, Answer, Flagged
<1> HIDE DEF q
<1>2. Proxy!SseError(s, r) = Proxy!Settle(Proxy!Finish(Proxy!Penalise(q), "upstream_sse_error"), r)
  BY DEF Proxy!SseError, q
<1> QED
  BY <1>1, <1>2, PenaliseDoes, FinishDoes, SettleDoes DEF Kept, Verdict, Answer, Flagged

LEMMA PastDoes ==
  \A s : Attempt(s) =>
    LET t == Proxy!PastDeadline(s)
    IN /\ Kept(s, t) /\ Answer(s, t)
       /\ t.up = (IF s.up = "over" THEN "over" ELSE "dying") /\ t.held = s.held
       /\ t.settled = IF s.settled = "pending" THEN "retry" ELSE s.settled
       /\ \A e : Proxy!Is(t, e) <=>
            \/ Proxy!Is(s, e) \/ e \in {"deadline", "intentional", "wake"}
            \/ e = "accounted" /\ s.outcome = "none"
       /\ ~MaxRuns(t)
       /\ t.outcome = (IF s.outcome = "none" THEN "request_deadline" ELSE s.outcome)
       /\ t.credit = s.credit /\ t.charge = s.charge
  BY DisarmDoes, SetDoes, FinishDoes, DestroyDoes, SettleDoes
     DEF Proxy!PastDeadline, Kept, Verdict, Answer, Flagged, Proxy!Failures

LEMMA AbortUpstreamDoes ==
  \A s : Attempt(s) =>
    LET t == Proxy!AbortUpstream(s)
    IN /\ Kept(s, t) /\ Answer(s, t)
       /\ t.up = (IF s.ended \/ s.up = "over" THEN s.up ELSE "dying") /\ t.held = s.held
       /\ t.settled = IF s.ended \/ s.settled # "pending" THEN s.settled ELSE "final"
       /\ \A e : Proxy!Is(t, e) <=>
            \/ Proxy!Is(s, e)
            \/ ~s.ended /\ e \in {"intentional", "resTorn", "wake"}
            \/ ~s.ended /\ e = "accounted" /\ s.outcome = "none"
       /\ MaxRuns(t) <=> MaxRuns(s) /\ s.ended
       /\ t.outcome = (IF ~s.ended /\ s.outcome = "none" THEN "client_aborted" ELSE s.outcome)
       /\ t.credit = s.credit /\ t.charge = s.charge
<1> TAKE s
<1> HAVE Attempt(s)
<1>1. CASE s.ended
  BY <1>1 DEF Proxy!AbortUpstream, Kept, Verdict, Answer, Flagged
<1>2. CASE ~s.ended
  <2> DEFINE q == Proxy!Destroy(Proxy!Finish(Proxy!Set(Proxy!Disarm(s, {"deadline", "max"}),
                                     {"intentional", "resTorn", "wake"}), "client_aborted"))
  <2>1. /\ Kept(s, q) /\ Answer(s, q) /\ ~MaxRuns(q) /\ q.held = s.held /\ q.settled = s.settled
        /\ q.up = (IF s.up = "over" THEN "over" ELSE "dying")
        /\ \A e : Proxy!Is(q, e) <=> \/ Proxy!Is(s, e) \/ e \in {"intentional", "resTorn", "wake"}
                                     \/ (e = "accounted" /\ s.outcome = "none")
        /\ q.outcome = (IF s.outcome = "none" THEN "client_aborted" ELSE s.outcome)
        /\ q.credit = s.credit /\ q.charge = s.charge
    BY DisarmDoes, SetDoes, FinishDoes, DestroyDoes
       DEF Kept, Verdict, Answer, Flagged, Proxy!Failures
  <2> HIDE DEF q
  <2>2. Proxy!AbortUpstream(s) = Proxy!Settle(q, "final")
    BY <1>2 DEF Proxy!AbortUpstream, q
  <2> QED
    BY <1>2, <2>1, <2>2, SettleDoes DEF Kept, Verdict, Answer, Flagged
<1> QED
  BY <1>1, <1>2

-----------------------------------------------------------------------------
Live == a.up \in {"connecting", "error", "body"}

\* The key is judged once, and not before there is an outcome.
VerdictInv ==
  /\ a.charge # 0 => a.outcome \in Proxy!Failures \cup {"first_byte_timeout", "upstream_http_error"}
  /\ a.credit # 0 => a.outcome = "completed" /\ a.charge = 0 /\ ~a.erring
  /\ a.outcome = "none" => a.charge = 0 /\ a.credit = 0 /\ ~Proxy!Is(a, "accounted")

\* While upstream answers, nobody has ended the attempt, but a translator that threw.
UpstreamInv ==
  /\ Live => /\ ~Proxy!Is(a, "intentional") /\ ~Proxy!Is(a, "deadline") /\ ~a.ended
             /\ Proxy!Is(a, "closed") \/ a.outcome = "none"
             /\ Proxy!Is(a, "thrown") \/ (~Proxy!Is(a, "closed") /\ ~a.torn
                    /\ ~Proxy!Is(a, "aborting"))
  /\ a.up = "connecting" =>
       ~a.responded /\ ~a.erring /\ ~a.headers /\ ~Proxy!Is(a, "closed") /\ a.settled = "pending"
  /\ a.up = "error" => a.responded /\ a.erring /\ ~a.headers
  /\ a.up = "body" => a.responded /\ ~a.erring
  /\ a.up = "dying" /\ ~Proxy!Is(a, "intentional") =>
       /\ a.responded /\ a.settled # "pending"
       /\ Proxy!Is(a, "closed") \/ a.outcome = "upstream_stream_error"
  /\ Proxy!Is(a, "whole") => a.responded /\ ~a.erring
  /\ Proxy!Is(a, "thrown") => a.mode = "facade" /\ a.responded /\ ~a.erring /\ Proxy!Is(a, "closed")
  /\ ~a.responded => ~MaxRuns(a)

\* What a translated stream has committed to, and who still waits for its translator.
FacadeInv ==
  /\ a.mode = "facade" /\ a.up = "dying" /\ a.responded /\ Proxy!Is(a, "intentional") =>
       Proxy!Is(a, "closed") \/ Proxy!Is(a, "resTorn") \/ Proxy!Is(a, "idleTorn")
           \/ Proxy!Is(a, "deadline")
  /\ a.mode = "facade" /\ a.up = "body" =>
       \/ Proxy!Is(a, "committed") \/ Proxy!Is(a, "closed")
       \/ a.settled = "pending" /\ ~a.headers
  /\ Proxy!Is(a, "committed") \/ tr # "off" => a.responded /\ ~a.erring
  /\ Proxy!Is(a, "committed") => a.headers /\ ~Proxy!Is(a, "deadline") /\ a.settled # "retry"
  /\ Proxy!Is(a, "ending") =>
       /\ a.mode = "facade" /\ a.up = "over" /\ tr # "off" /\ Proxy!Is(a, "whole")
              /\ Proxy!Is(a, "wake")
       /\ Proxy!Is(a, "closed") \/ (a.outcome = "none" /\ ~Proxy!Is(a, "deadline"))
  /\ Proxy!Is(a, "finishing") => a.mode = "facade" /\ Proxy!Is(a, "committed") /\ a.up = "over"
  /\ Proxy!Is(a, "clean") => Proxy!Is(a, "sawDone")
  /\ a.mode = "facade" /\ Proxy!Is(a, "first") => Proxy!Is(a, "closed") \/ tr # "off"

TranslatorInv ==
  /\ tr = "off" \/ (tr \in {"ready", "stalled", "done"} /\ a.mode = "facade")
  /\ tr = "stalled" => Proxy!Is(a, "committed")
  /\ tr = "ready" => \/ Proxy!Is(a, "closed") \/ Proxy!Is(a, "deadline")
         \/ Proxy!Is(a, "committed") \/ a.ended
                     \/ a.outcome \in {"none", "upstream_stream_error"}
  /\ tr = "done" => \/ Proxy!Is(a, "closed") \/ Proxy!Is(a, "deadline") \/ a.ended
                    \/ /\ Proxy!Is(a, "committed")
                       /\ Proxy!Is(a, "sawError") \/ Proxy!Is(a, "tail") \/ ~Proxy!Is(a, "bad")
  /\ queue \in Seq(Proxy!Frames)
  /\ \A i \in 1 .. Len(queue) : queue[i] = "error" => Proxy!Is(a, "sawError")

\* An attempt that was passed on has nothing left that could write.
RetryInv ==
  /\ a.settled = "retry" => \/ Proxy!Is(a, "thrown")
                            \/ /\ ~Live /\ (a.up = "dying" => Proxy!Is(a, "intentional"))
                               /\ Proxy!Is(a, "closed") \/ Proxy!Is(a, "deadline") \/ ~a.responded
                               /\ MaxRuns(a) => Proxy!Is(a, "closed")
  /\ a.outcome = "request_deadline" => a.settled = "retry"
  /\ a.ended \/ Proxy!Is(a, "aborting") => a.headers
  /\ a.mode = "plain" /\ ~a.erring =>
       (a.up = "body" \/ (a.up = "dying" /\ ~Proxy!Is(a, "intentional")) => a.headers)
  /\ a.mode = "translated" /\ a.up = "body" => ~a.headers
  /\ Proxy!RetryIsInvisible

\* What the client holds of the answer.
ContentInv ==
  /\ a.content # "none" => a.headers /\ ~a.erring /\ a.mode \in Proxy!Streams
  /\ a.mode = "openai" /\ Proxy!Is(a, "meaningful") => Proxy!Is(a, "committed")
  /\ a.held => a.mode = "openai" /\ ~Proxy!Is(a, "committed")
  /\ Proxy!CleanEndIsWhole

AttemptInv ==
  /\ Attempt(a) /\ VerdictInv /\ UpstreamInv /\ FacadeInv /\ TranslatorInv /\ RetryInv
  /\ ContentInv

LEMMA AttemptStart == Proxy!Init => AttemptInv
<1> SUFFICES ASSUME Proxy!Init PROVE AttemptInv
  OBVIOUS
<1>1. PICK mode \in Proxy!Modes :
        a = [mode |-> mode, up |-> "connecting", responded |-> FALSE, erring |-> FALSE,
             retryable |-> FALSE, chunks |-> 0, lastFrame |-> "benign", is |-> {},
             timers |-> {"deadline"}, held |-> FALSE, outcome |-> "none",
             settled |-> "pending", credit |-> 0, charge |-> 0,
             headers |-> FALSE, content |-> "none", ended |-> FALSE, torn |-> FALSE]
  BY DEF Proxy!Init
<1>2. Attempt(a)
  BY <1>1 DEF Attempt, Fields
<1>3. /\ a.up = "connecting" /\ ~a.responded /\ ~a.erring /\ ~a.held /\ ~a.headers /\ ~a.ended
      /\ a.outcome = "none" /\ a.settled = "pending" /\ a.credit = 0 /\ a.charge = 0
      /\ a.content = "none" /\ (\A e : ~Proxy!Is(a, e)) /\ ~MaxRuns(a) /\ ~a.torn
  BY <1>1 DEF Proxy!Is, MaxRuns
<1>4. queue = <<>> /\ queue \in Seq(Proxy!Frames) /\ tr = "off"
  BY DEF Proxy!Init
<1>5. VerdictInv /\ UpstreamInv /\ FacadeInv /\ TranslatorInv
  BY <1>3, <1>4 DEF VerdictInv, UpstreamInv, FacadeInv, TranslatorInv, Live
<1>6. RetryInv /\ ContentInv
  BY <1>3 DEF RetryInv, ContentInv, Proxy!RetryIsInvisible, Proxy!NoStaleClosure,
     Proxy!CleanEndIsWhole
<1> QED
  BY <1>2, <1>5, <1>6 DEF AttemptInv

LEMMA ErrorBodyEndsKeeps == ASSUME AttemptInv, Proxy!ErrorBodyEnds PROVE AttemptInv'
<1> DEFINE u == [a EXCEPT !.up = "over"]
           x == Proxy!Finish(Proxy!Penalise(Proxy!Set(u, {"closed"})), "upstream_http_error")
<1>1. a.up = "error" /\ ~Proxy!Is(a, "closed") /\ UNCHANGED <<queue, tr>>
  BY DEF Proxy!ErrorBodyEnds
<1>2. a' = IF a.retryable
          /\ ~a.headers THEN Proxy!Settle(x, "retry") ELSE Proxy!Settle(Proxy!End(x), "final")
  BY DEF Proxy!ErrorBodyEnds
<1>3. Attempt(a) /\ a.outcome = "none"
  BY <1>1 DEF AttemptInv, UpstreamInv, Live
<1>4. /\ Kept(a, u) /\ Verdict(a, u) /\ Answer(a, u) /\ Flagged(a, u, {})
      /\ (MaxRuns(u) <=> MaxRuns(a))
      /\ u.up = "over" /\ u.held = a.held /\ u.settled = a.settled
  BY <1>3, UpDoes
<1> HIDE DEF u
<1>5. /\ Kept(a, x) /\ x.up = "over" /\ x.outcome = "upstream_http_error" /\ Answer(a, x)
      /\ x.credit = a.credit /\ x.charge # 0 /\ Flagged(a, x, {"closed", "accounted"})
      /\ x.held = a.held /\ x.settled = a.settled
  BY <1>3, <1>4, SetDoes, PenaliseDoes, FinishDoes
     DEF Kept, Answer, Verdict, Proxy!Failures, Flagged
<1> HIDE DEF x
<1>6. /\ Kept(a, a') /\ a'.up = "over" /\ a'.outcome = "upstream_http_error"
      /\ a'.credit = a.credit /\ a'.charge # 0 /\ Flagged(a, a', {"closed", "accounted"})
      /\ a'.torn = a.torn /\ a'.content = a.content /\ a'.held = a.held
      /\ \/ Answer(a, a') /\ ~a.headers
         \/ a'.headers /\ a'.ended /\ (a.settled = "pending" => a'.settled = "final")
      /\ a.settled # "pending" => a'.settled = a.settled
  BY <1>2, <1>5, SettleDoes, EndDoes DEF Kept, Answer, Verdict, Flagged
<1> QED
  BY <1>1, <1>3, <1>6
     DEF AttemptInv, VerdictInv, UpstreamInv, FacadeInv, TranslatorInv, RetryInv, ContentInv, Live,
         Kept, Flagged, Answer, Proxy!RetryIsInvisible, Proxy!NoStaleClosure, Proxy!CleanEndIsWhole

\* The conjuncts of the invariant, for the shut leaf of each step.

LEMMA FirstByteKeeps ==
  ASSUME AttemptInv, NEW kind \in {"ok", "empty", "retryable", "fatal"}, Proxy!FirstByte(kind)
  PROVE  AttemptInv'
<1> DEFINE x == [a EXCEPT !.up = "body", !.responded = TRUE]
<1>1. a.up = "connecting" /\ UNCHANGED <<queue, tr>>
  BY DEF Proxy!FirstByte
<1>2. Attempt(a) /\ a.outcome = "none" /\ ~Proxy!Is(a, "accounted")
  BY <1>1 DEF AttemptInv, UpstreamInv, VerdictInv, Live
<1>3. /\ Attempt(x) /\ x.mode = a.mode /\ x.erring = a.erring /\ x.responded /\ x.up = "body"
      /\ Verdict(a, x) /\ Answer(a, x) /\ Flagged(a, x, {}) /\ (MaxRuns(x) <=> MaxRuns(a))
      /\ x.held = a.held /\ x.settled = a.settled
  BY <1>2 DEF Attempt, Fields, Proxy!Is, MaxRuns, Flagged, Verdict, Answer
<1>a. a' = IF kind \in {"retryable", "fatal"}
           THEN [x EXCEPT !.up = "error", !.erring = TRUE, !.retryable = kind = "retryable"]
           ELSE IF kind = "empty" /\ a.mode = "plain"
           THEN [Proxy!Settle(Proxy!Finish(Proxy!End(x), "completed"),
           "success") EXCEPT !.up = "over"]
           ELSE IF kind = "empty" /\ a.mode = "translated"
           THEN [Proxy!Settle(Proxy!Finish(Proxy!End(x), "upstream_stream_error"),
           "final") EXCEPT !.up = "over"]
           ELSE IF a.mode = "plain" THEN Proxy!Settle(Proxy!Headers(x), "success")
           ELSE IF a.mode \in Proxy!Streams THEN [x EXCEPT !.timers = x.timers \cup {"max"}]
           ELSE x
  BY DEF Proxy!FirstByte
<1> HIDE DEF x
<1>4. CASE kind \in {"retryable", "fatal"}
  <2>1. a' = [x EXCEPT !.up = "error", !.erring = TRUE, !.retryable = (kind = "retryable")]
    BY <1>4, <1>a
  <2>2. /\ Attempt(a') /\ a'.mode = a.mode /\ a'.erring /\ a'.responded /\ a'.up = "error"
        /\ Verdict(a, a') /\ Answer(a, a') /\ Flagged(a, a', {}) /\ (MaxRuns(a') <=> MaxRuns(a))
        /\ a'.held = a.held /\ a'.settled = a.settled
    BY <1>3, <2>1 DEF Attempt, Fields, Proxy!Is, MaxRuns, Flagged, Verdict, Answer
  <2> QED
    BY <1>1, <1>2, <2>2
       DEF AttemptInv, VerdictInv, UpstreamInv, FacadeInv, TranslatorInv, RetryInv, ContentInv,
           Live, Verdict, Flagged, Answer, Proxy!RetryIsInvisible, Proxy!NoStaleClosure,
           Proxy!CleanEndIsWhole
<1>5. CASE kind = "empty" /\ a.mode \in {"plain", "translated"}
  <2> DEFINE y == IF a.mode = "plain" THEN Proxy!Settle(Proxy!Finish(Proxy!End(x), "completed"),
             "success")
                  ELSE Proxy!Settle(Proxy!Finish(Proxy!End(x), "upstream_stream_error"), "final")
  <2>1. a' = [y EXCEPT !.up = "over"]
    BY <1>5, <1>a
  <2>2. /\ Attempt(y) /\ y.mode = a.mode /\ y.responded /\ y.erring = a.erring
        /\ y.outcome \in {"completed", "upstream_stream_error"}
        /\ y.outcome # "completed" => y.credit = a.credit
        /\ y.outcome = "completed" => y.charge = a.charge
        /\ y.headers /\ y.ended /\ y.content = a.content /\ y.torn = a.torn
        /\ Flagged(a, y, {"accounted"}) /\ (MaxRuns(y) <=> MaxRuns(a)) /\ y.held = a.held
        /\ y.settled # "retry" \/ a.settled = "retry"
    BY <1>2, <1>3, EndDoes, FinishDoes, SettleDoes DEF Kept, Verdict, Answer, Flagged,
       Proxy!Failures
  <2> HIDE DEF y
  <2>3. /\ Attempt(a') /\ a'.mode = a.mode /\ a'.responded /\ a'.erring = a.erring
        /\ a'.up = "over" /\ a'.outcome \in {"completed", "upstream_stream_error"}
        /\ a'.outcome # "completed" => a'.credit = a.credit
        /\ a'.outcome = "completed" => a'.charge = a.charge
        /\ a'.headers /\ a'.ended /\ a'.content = a.content /\ a'.torn = a.torn
        /\ Flagged(a, a', {"accounted"}) /\ (MaxRuns(a') <=> MaxRuns(a)) /\ a'.held = a.held
        /\ a'.settled # "retry" \/ a.settled = "retry"
    BY <2>1, <2>2, UpDoes DEF Kept, Verdict, Answer, Flagged
  <2> QED
    BY <1>1, <1>2, <2>3
       DEF AttemptInv, VerdictInv, UpstreamInv, FacadeInv, TranslatorInv, RetryInv, ContentInv,
           Live, Flagged, Proxy!Failures, Proxy!RetryIsInvisible, Proxy!NoStaleClosure,
           Proxy!CleanEndIsWhole
<1>6. CASE kind \notin {"retryable", "fatal"} /\ ~(kind = "empty"
               /\ a.mode \in {"plain", "translated"})
  <2>1. a' = IF a.mode = "plain" THEN Proxy!Settle(Proxy!Headers(x), "success")
             ELSE IF a.mode \in Proxy!Streams THEN [x EXCEPT !.timers = x.timers \cup {"max"}]
             ELSE x
    BY <1>6, <1>a
  <2>2. /\ Attempt(a') /\ a'.mode = a.mode /\ a'.erring = a.erring /\ a'.responded
        /\ a'.up = "body" /\ Verdict(a, a') /\ Flagged(a, a', {}) /\ a'.held = a.held
        /\ a.mode = "plain" => a'.headers
        /\ a.mode # "plain" => a'.headers = a.headers
        /\ a'.content = a.content /\ a'.ended = a.ended /\ a'.torn = a.torn
        /\ IF a.mode # "plain" THEN a'.settled = a.settled
           ELSE a'.settled # "retry" \/ a.settled = "retry"
    <3>1. CASE a.mode = "plain"
      BY <1>3, <2>1, <3>1, HeadersDoes, SettleDoes DEF Kept, Verdict, Answer, Flagged, Proxy!Streams
    <3>2. CASE a.mode \in Proxy!Streams
      <4>1. a' = [x EXCEPT !.timers = x.timers \cup {"max"}]
        BY <2>1, <3>2 DEF Proxy!Streams
      <4> QED
        BY <1>3, <3>2, <4>1 DEF Attempt, Fields, Proxy!Is, Flagged, Verdict, Answer, Proxy!Streams
    <3>3. CASE a.mode \notin Proxy!Streams \cup {"plain"}
      BY <1>3, <2>1, <3>3 DEF Verdict, Answer
    <3> QED
      BY <3>1, <3>2, <3>3
  <2> QED
    BY <1>1, <1>2, <2>2
       DEF AttemptInv, VerdictInv, UpstreamInv, FacadeInv, TranslatorInv, RetryInv, ContentInv,
           Live, Verdict, Flagged, Proxy!RetryIsInvisible, Proxy!NoStaleClosure,
           Proxy!CleanEndIsWhole
<1> QED
  BY <1>4, <1>5, <1>6

LEMMA ErrorBodyTooLargeKeeps == ASSUME AttemptInv, Proxy!ErrorBodyTooLarge PROVE AttemptInv'
<1> DEFINE x == Proxy!Settle(Proxy!Set(a, {"intentional", "closed"}), "final")
<1>1. a.up = "error" /\ ~Proxy!Is(a, "closed") /\ UNCHANGED <<queue, tr>>
  BY DEF Proxy!ErrorBodyTooLarge
<1>2. a' = Proxy!Destroy(IF a.headers THEN x ELSE Proxy!End(x))
  BY DEF Proxy!ErrorBodyTooLarge
<1>3. Attempt(a)
  BY DEF AttemptInv
<1>4. /\ Kept(a, a') /\ Verdict(a, a') /\ a'.up = "dying" /\ (MaxRuns(a') <=> MaxRuns(a))
      /\ a'.headers /\ a'.content = a.content /\ a'.torn = a.torn /\ a'.held = a.held
      /\ Flagged(a, a', {"intentional", "closed"})
      /\ a'.settled = IF a.settled = "pending" THEN "final" ELSE a.settled
  BY <1>1, <1>2, <1>3, SetDoes, SettleDoes, EndDoes, DestroyDoes
     DEF Kept, Answer, Verdict, Flagged
<1> QED
  BY <1>1, <1>3, <1>4
     DEF AttemptInv, VerdictInv, UpstreamInv, FacadeInv, TranslatorInv, RetryInv, ContentInv,
         Live, Kept, Verdict, Flagged, Proxy!RetryIsInvisible, Proxy!NoStaleClosure,
         Proxy!CleanEndIsWhole

LEMMA BodyFlushedKeeps == ASSUME AttemptInv, Proxy!BodyFlushed PROVE AttemptInv'
<1>1. a.mode = "translated" /\ Proxy!Is(a, "whole") /\ a.ended /\ UNCHANGED <<queue, tr>>
  BY DEF Proxy!BodyFlushed
<1>2. a' = Proxy!Settle(Proxy!Finish(a, "completed"), "success")
  BY DEF Proxy!BodyFlushed
<1>3. Attempt(a) /\ a.outcome = "none" /\ ~Proxy!Is(a, "accounted")
  BY DEF Proxy!BodyFlushed, AttemptInv, VerdictInv
<1>4. /\ Kept(a, a') /\ Answer(a, a') /\ a'.up = a.up /\ (MaxRuns(a') <=> MaxRuns(a))
      /\ a'.held = a.held /\ a'.outcome = "completed" /\ a'.charge = a.charge
      /\ Flagged(a, a', {"accounted"})
      /\ a'.settled = IF a.settled = "pending" THEN "success" ELSE a.settled
  BY <1>2, <1>3, FinishDoes, SettleDoes DEF Kept, Answer, Verdict, Flagged, Proxy!Failures
<1> QED
  BY <1>1, <1>3, <1>4
     DEF AttemptInv, VerdictInv, UpstreamInv, FacadeInv, TranslatorInv, RetryInv, ContentInv,
         Live, Kept, Answer, Flagged, Proxy!Failures, Proxy!RetryIsInvisible, Proxy!NoStaleClosure,
         Proxy!CleanEndIsWhole

LEMMA FlushedKeeps == ASSUME AttemptInv, Proxy!Flushed PROVE AttemptInv'
<1> DEFINE x == [a EXCEPT !.is = a.is \ {"aborting"}]
<1>1. Proxy!Is(a, "aborting") /\ UNCHANGED <<queue, tr>>
  BY DEF Proxy!Flushed
<1>2. a' = Proxy!Tear(x)
  BY DEF Proxy!Flushed
<1>3. Attempt(a)
  BY DEF AttemptInv
<1>4. /\ Kept(a, x) /\ Verdict(a, x) /\ Answer(a, x) /\ x.up = a.up /\ x.held = a.held
      /\ x.settled = a.settled /\ (MaxRuns(x) <=> MaxRuns(a))
      /\ \A e : Proxy!Is(x, e) <=> Proxy!Is(a, e) /\ e # "aborting"
  BY <1>3, ClearDoes
<1> HIDE DEF x
<1>5. /\ Kept(a, a') /\ Verdict(a, a') /\ a'.headers = a.headers /\ a'.content = a.content
      /\ a'.ended = a.ended /\ a'.torn /\ a'.up = a.up /\ (MaxRuns(a') <=> MaxRuns(a))
      /\ a'.held = a.held /\ a'.settled = a.settled
      /\ \A e : Proxy!Is(a', e) <=> Proxy!Is(a, e) /\ e # "aborting"
  BY <1>2, <1>4, TearDoes DEF Kept, Answer, Verdict, Flagged
<1> QED
  BY <1>1, <1>3, <1>5
     DEF AttemptInv, VerdictInv, UpstreamInv, FacadeInv, TranslatorInv, RetryInv, ContentInv,
         Live, Kept, Verdict, Proxy!RetryIsInvisible, Proxy!NoStaleClosure, Proxy!CleanEndIsWhole

LEMMA LaterAttemptStreamsKeeps == ASSUME AttemptInv, Proxy!LaterAttemptStreams PROVE AttemptInv'
<1>1. a.settled = "retry" /\ Proxy!Precommit(a) /\ UNCHANGED <<queue, tr>>
  BY DEF Proxy!LaterAttemptStreams
<1>2. a' = Proxy!Set(Proxy!Headers(a), {"later"})
  BY DEF Proxy!LaterAttemptStreams
<1>3. Attempt(a)
  BY DEF AttemptInv
<1>4. /\ Kept(a, a') /\ Verdict(a, a') /\ a'.headers /\ a'.content = a.content
      /\ a'.ended = a.ended /\ a'.torn = a.torn /\ a'.up = a.up /\ (MaxRuns(a') <=> MaxRuns(a))
      /\ a'.held = a.held /\ a'.settled = a.settled /\ Flagged(a, a', {"later"})
  BY <1>2, <1>3, HeadersDoes, SetDoes DEF Kept, Answer, Verdict, Flagged
<1> QED
  BY <1>1, <1>3, <1>4
     DEF AttemptInv, VerdictInv, UpstreamInv, FacadeInv, TranslatorInv, RetryInv, ContentInv,
         Live, Kept, Verdict, Flagged, Proxy!Precommit, Proxy!RetryIsInvisible,
         Proxy!NoStaleClosure,
         Proxy!CleanEndIsWhole

LEMMA ResumeKeeps == ASSUME AttemptInv, Proxy!Resume PROVE AttemptInv'
  BY DEF AttemptInv, VerdictInv, UpstreamInv, FacadeInv, TranslatorInv, RetryInv, ContentInv,
         Live, Proxy!Resume, Proxy!RetryIsInvisible, Proxy!NoStaleClosure, Proxy!CleanEndIsWhole

LEMMA DeadlineTimerKeeps == ASSUME AttemptInv, Proxy!DeadlineTimer PROVE AttemptInv'
<1>1. UNCHANGED <<queue, tr>> /\ Attempt(a) /\ Proxy!Turn
  BY DEF Proxy!DeadlineTimer, AttemptInv
<1>2. CASE a.settled = "pending" /\ Proxy!Precommit(a)
  <2>1. a' = Proxy!PastDeadline(a)
    BY <1>2 DEF Proxy!DeadlineTimer
  <2>2. /\ Kept(a, a') /\ Answer(a, a') /\ a'.held = a.held /\ a'.settled = "retry" /\ ~MaxRuns(a')
        /\ a'.up = (IF a.up = "over" THEN "over" ELSE "dying")
        /\ a'.outcome = (IF a.outcome = "none" THEN "request_deadline" ELSE a.outcome)
        /\ a'.credit = a.credit /\ a'.charge = a.charge
        /\ \A e : Proxy!Is(a', e) <=> \/ Proxy!Is(a, e) \/ e \in {"deadline", "intentional", "wake"}
                                      \/ (e = "accounted" /\ a.outcome = "none")
    BY <1>1, <1>2, <2>1, PastDoes
  <2> QED
    BY <1>1, <1>2, <2>2
       DEF AttemptInv, VerdictInv, UpstreamInv, FacadeInv, TranslatorInv, RetryInv, ContentInv,
           Live, Kept, Answer, Proxy!Precommit, Proxy!Turn, Proxy!Micro, Proxy!Failures,
           Proxy!RetryIsInvisible, Proxy!NoStaleClosure,
           Proxy!CleanEndIsWhole
<1>3. CASE ~(a.settled = "pending" /\ Proxy!Precommit(a))
  <2>1. a' = Proxy!Disarm(a, {"deadline"})
    BY <1>3 DEF Proxy!DeadlineTimer
  <2>2. /\ Kept(a, a') /\ Verdict(a, a') /\ Answer(a, a') /\ Flagged(a, a', {}) /\ a'.up = a.up
        /\ (MaxRuns(a') <=> MaxRuns(a)) /\ a'.held = a.held /\ a'.settled = a.settled
    BY <1>1, <2>1, DisarmDoes
  <2> QED
    BY <1>1, <2>2
       DEF AttemptInv, VerdictInv, UpstreamInv, FacadeInv, TranslatorInv, RetryInv, ContentInv,
           Live, Kept, Verdict, Answer, Flagged, Proxy!RetryIsInvisible, Proxy!NoStaleClosure,
           Proxy!CleanEndIsWhole
<1> QED
  BY <1>2, <1>3

LEMMA SocketTimerKeeps ==
  ASSUME AttemptInv, NEW clamped \in BOOLEAN, Proxy!SocketTimer(clamped) PROVE AttemptInv'
<1> DEFINE x == Proxy!Destroy(Proxy!Set(a, {"intentional"}))
           idle == Proxy!Finish(Proxy!Set(Proxy!Disarm(x, {"max"}), {"idleTorn", "wake"}),
           "idle_timeout")
<1>1. /\ Live /\ ~Proxy!Is(a, "deadline") /\ (clamped => ~a.headers)
      /\ a.settled # "pending" => ~Proxy!Is(a, "intentional") /\ a.headers
      /\ UNCHANGED <<queue, tr>>
  BY DEF Proxy!SocketTimer, Live
<1>2. a' = IF clamped THEN Proxy!PastDeadline(a)
           ELSE IF a.up = "connecting" THEN Proxy!Settle(Proxy!Finish(Proxy!Penalise(x),
           "first_byte_timeout"), "retry")
           ELSE IF Proxy!Precommit(a) THEN Proxy!Settle(Proxy!Set(idle, {"deadline"}), "retry")
           ELSE Proxy!Tear(Proxy!Settle(idle, "final"))
  BY DEF Proxy!SocketTimer
<1>3. Attempt(a) /\ a.up # "over"
  BY <1>1 DEF AttemptInv, Live
<1>4. /\ Kept(a, x) /\ Verdict(a, x) /\ Answer(a, x) /\ Flagged(a, x, {"intentional"})
      /\ x.up = "dying" /\ x.held = a.held /\ x.settled = a.settled /\ (MaxRuns(x) <=> MaxRuns(a))
  BY <1>3, SetDoes, DestroyDoes DEF Kept, Verdict, Answer, Flagged
<1> HIDE DEF x
<1>5. /\ Kept(a, idle) /\ Answer(a, idle) /\ ~MaxRuns(idle) /\ idle.up = "dying"
      /\ idle.held = a.held /\ idle.settled = a.settled
      /\ idle.outcome = (IF a.outcome = "none" THEN "idle_timeout" ELSE a.outcome)
      /\ idle.credit = a.credit /\ idle.charge = a.charge
      /\ \A e : Proxy!Is(idle, e) <=> \/ Proxy!Is(a, e) \/ e \in {"intentional", "idleTorn", "wake"}
                                      \/ (e = "accounted" /\ a.outcome = "none")
  BY <1>4, DisarmDoes, SetDoes, FinishDoes DEF Kept, Verdict, Answer, Flagged, Proxy!Failures
<1> HIDE DEF idle
<1>6. CASE clamped
  <2>1. /\ Kept(a, a') /\ Answer(a, a') /\ a'.held = a.held /\ ~MaxRuns(a') /\ a'.up = "dying"
        /\ a'.settled = (IF a.settled = "pending" THEN "retry" ELSE a.settled)
        /\ a'.outcome = (IF a.outcome = "none" THEN "request_deadline" ELSE a.outcome)
        /\ a'.credit = a.credit /\ a'.charge = a.charge
        /\ \A e : Proxy!Is(a', e) <=> \/ Proxy!Is(a, e) \/ e \in {"deadline", "intentional", "wake"}
                                      \/ (e = "accounted" /\ a.outcome = "none")
    BY <1>2, <1>3, <1>6, PastDoes
  <2> QED
    BY <1>1, <1>3, <1>6, <2>1
       DEF AttemptInv, VerdictInv, UpstreamInv, FacadeInv, TranslatorInv, RetryInv, ContentInv,
           Live, Kept, Answer, Proxy!Failures, Proxy!RetryIsInvisible, Proxy!NoStaleClosure,
           Proxy!CleanEndIsWhole
<1>7. CASE ~clamped /\ a.up = "connecting"
  <2>1. /\ Kept(a, a') /\ Answer(a, a') /\ a'.held = a.held /\ (MaxRuns(a') <=> MaxRuns(a))
        /\ a'.settled = (IF a.settled = "pending" THEN "retry" ELSE a.settled)
        /\ a'.up = "dying" /\ a'.credit = a.credit /\ a'.charge # 0
        /\ a'.outcome = (IF a.outcome = "none" THEN "first_byte_timeout" ELSE a.outcome)
        /\ Flagged(a, a', {"intentional", "accounted"})
    BY <1>2, <1>4, <1>7, PenaliseDoes, FinishDoes, SettleDoes
       DEF Kept, Verdict, Answer, Flagged
  <2> QED
    BY <1>1, <1>3, <1>7, <2>1
       DEF AttemptInv, VerdictInv, UpstreamInv, FacadeInv, TranslatorInv, RetryInv, ContentInv,
           Live, Kept, Answer, Flagged, Proxy!RetryIsInvisible, Proxy!NoStaleClosure,
           Proxy!CleanEndIsWhole
<1>8. CASE ~clamped /\ a.up # "connecting" /\ Proxy!Precommit(a)
  <2>1. /\ Kept(a, a') /\ Answer(a, a') /\ a'.held = a.held /\ ~MaxRuns(a') /\ a'.up = "dying"
        /\ a'.settled = (IF a.settled = "pending" THEN "retry" ELSE a.settled)
        /\ a'.outcome = (IF a.outcome = "none" THEN "idle_timeout" ELSE a.outcome)
        /\ a'.credit = a.credit /\ a'.charge = a.charge
        /\ \A e : Proxy!Is(a', e) <=> \/ Proxy!Is(a, e)
               \/ e \in {"intentional", "idleTorn", "wake", "deadline"}
                                      \/ (e = "accounted" /\ a.outcome = "none")
    <3>1. a' = Proxy!Settle(Proxy!Set(idle, {"deadline"}), "retry")
      BY <1>2, <1>8
    <3> QED
      BY <1>5, <3>1, SetDoes, SettleDoes DEF Kept, Verdict, Answer, Flagged
  <2> QED
    BY <1>1, <1>3, <1>8, <2>1
       DEF AttemptInv, VerdictInv, UpstreamInv, FacadeInv, TranslatorInv, RetryInv, ContentInv,
           Live, Kept, Answer, Proxy!Precommit, Proxy!Failures, Proxy!RetryIsInvisible,
           Proxy!NoStaleClosure,
           Proxy!CleanEndIsWhole
<1>9. CASE ~clamped /\ a.up # "connecting" /\ ~Proxy!Precommit(a)
  <2>1. /\ Kept(a, a') /\ a'.headers = a.headers /\ a'.content = a.content /\ a'.ended = a.ended
        /\ a'.torn /\ a'.held = a.held /\ ~MaxRuns(a') /\ a'.up = "dying"
        /\ a'.settled = (IF a.settled = "pending" THEN "final" ELSE a.settled)
        /\ a'.outcome = (IF a.outcome = "none" THEN "idle_timeout" ELSE a.outcome)
        /\ a'.credit = a.credit /\ a'.charge = a.charge
        /\ \A e : Proxy!Is(a', e) <=> \/ Proxy!Is(a, e) \/ e \in {"intentional", "idleTorn", "wake"}
                                      \/ (e = "accounted" /\ a.outcome = "none")
    <3>1. a' = Proxy!Tear(Proxy!Settle(idle, "final"))
      BY <1>2, <1>9
    <3> QED
      BY <1>5, <3>1, TearDoes, SettleDoes DEF Kept, Verdict, Answer, Flagged
  <2> QED
    BY <1>1, <1>3, <1>9, <2>1
       DEF AttemptInv, VerdictInv, UpstreamInv, FacadeInv, TranslatorInv, RetryInv, ContentInv,
           Live, Kept, Proxy!Precommit, Proxy!Failures, Proxy!RetryIsInvisible,
           Proxy!NoStaleClosure, Proxy!CleanEndIsWhole
<1> QED
  BY <1>6, <1>7, <1>8, <1>9

LEMMA MaxStreamTimerKeeps == ASSUME AttemptInv, Proxy!MaxStreamTimer PROVE AttemptInv'
<1> DEFINE x == Proxy!Finish(Proxy!Destroy(Proxy!Set(Proxy!Disarm(a, {"max"}), {"closed",
           "intentional", "wake"})),
                       "max_stream_duration")
<1>1. MaxRuns(a) /\ UNCHANGED <<queue, tr>>
  BY DEF Proxy!MaxStreamTimer, MaxRuns
<1>2. a' = IF Proxy!Is(a, "closed") THEN Proxy!Disarm(a, {"max"})
           ELSE IF Proxy!Precommit(a) THEN Proxy!Settle(Proxy!Set(x, {"deadline"}), "retry")
           ELSE Proxy!Tear(Proxy!Settle(x, "final"))
  BY DEF Proxy!MaxStreamTimer
<1>3. Attempt(a)
  BY DEF AttemptInv
<1>4. /\ Kept(a, x) /\ Answer(a, x) /\ ~MaxRuns(x) /\ x.held = a.held /\ x.settled = a.settled
      /\ x.up = (IF a.up = "over" THEN "over" ELSE "dying")
      /\ x.outcome = (IF a.outcome = "none" THEN "max_stream_duration" ELSE a.outcome)
      /\ x.credit = a.credit /\ x.charge = a.charge
      /\ \A e : Proxy!Is(x, e) <=> \/ Proxy!Is(a, e) \/ e \in {"closed", "intentional", "wake"}
                                   \/ (e = "accounted" /\ a.outcome = "none")
  BY <1>3, DisarmDoes, SetDoes, DestroyDoes, FinishDoes
     DEF Kept, Verdict, Answer, Flagged, Proxy!Failures
<1> HIDE DEF x
<1>5. CASE Proxy!Is(a, "closed")
  <2>1. /\ Kept(a, a') /\ Verdict(a, a') /\ Answer(a, a') /\ Flagged(a, a', {}) /\ a'.up = a.up
        /\ ~MaxRuns(a') /\ a'.held = a.held /\ a'.settled = a.settled
    BY <1>2, <1>3, <1>5, DisarmDoes
  <2> QED
    BY <1>1, <1>5, <2>1
       DEF AttemptInv, VerdictInv, UpstreamInv, FacadeInv, TranslatorInv, RetryInv, ContentInv,
           Live, Kept, Verdict, Answer, Flagged, Proxy!RetryIsInvisible, Proxy!NoStaleClosure,
           Proxy!CleanEndIsWhole
<1>6. CASE ~Proxy!Is(a, "closed") /\ Proxy!Precommit(a)
  <2>1. a' = Proxy!Settle(Proxy!Set(x, {"deadline"}), "retry")
    BY <1>2, <1>6
  <2>2. /\ Kept(a, a') /\ Answer(a, a') /\ ~MaxRuns(a') /\ a'.held = a.held
        /\ a'.settled = (IF a.settled = "pending" THEN "retry" ELSE a.settled)
        /\ a'.up = (IF a.up = "over" THEN "over" ELSE "dying")
        /\ a'.outcome = (IF a.outcome = "none" THEN "max_stream_duration" ELSE a.outcome)
        /\ a'.credit = a.credit /\ a'.charge = a.charge
        /\ \A e : Proxy!Is(a', e) <=> \/ Proxy!Is(a, e)
               \/ e \in {"closed", "intentional", "wake", "deadline"}
                                      \/ (e = "accounted" /\ a.outcome = "none")
    BY <1>4, <2>1, SetDoes, SettleDoes DEF Kept, Verdict, Answer, Flagged
  <2> QED
    BY <1>1, <1>6, <2>2
       DEF AttemptInv, VerdictInv, UpstreamInv, FacadeInv, TranslatorInv, RetryInv, ContentInv,
           Live, Kept, Answer, Proxy!Precommit, Proxy!Failures, Proxy!RetryIsInvisible,
           Proxy!NoStaleClosure,
           Proxy!CleanEndIsWhole
<1>7. CASE ~Proxy!Is(a, "closed") /\ ~Proxy!Precommit(a)
  <2>1. a' = Proxy!Tear(Proxy!Settle(x, "final"))
    BY <1>2, <1>7
  <2>2. /\ Kept(a, a') /\ a'.headers = a.headers /\ a'.content = a.content /\ a'.ended = a.ended
        /\ a'.torn /\ ~MaxRuns(a') /\ a'.held = a.held
        /\ a'.settled = (IF a.settled = "pending" THEN "final" ELSE a.settled)
        /\ a'.up = (IF a.up = "over" THEN "over" ELSE "dying")
        /\ a'.outcome = (IF a.outcome = "none" THEN "max_stream_duration" ELSE a.outcome)
        /\ a'.credit = a.credit /\ a'.charge = a.charge
        /\ \A e : Proxy!Is(a', e) <=> \/ Proxy!Is(a, e) \/ e \in {"closed", "intentional", "wake"}
                                      \/ (e = "accounted" /\ a.outcome = "none")
    BY <1>4, <2>1, TearDoes, SettleDoes DEF Kept, Verdict, Answer, Flagged
  <2> QED
    BY <1>1, <1>7, <2>2
       DEF AttemptInv, VerdictInv, UpstreamInv, FacadeInv, TranslatorInv, RetryInv, ContentInv,
           Live, Kept, Proxy!Failures, Proxy!RetryIsInvisible, Proxy!NoStaleClosure,
           Proxy!CleanEndIsWhole
<1> QED
  BY <1>5, <1>6, <1>7

\* What the close of the client's response does.
Streaming(s) == s.mode \in Proxy!Streams /\ s.responded /\ ~s.erring

LEMMA ClosesDoes ==
  ASSUME NEW s, Attempt(s)
  PROVE  LET t == Proxy!Closes(s)
         IN /\ Kept(s, t) /\ Answer(s, t) /\ t.held = s.held
            /\ t.credit = s.credit /\ t.charge = s.charge
            /\ s.settled = "retry" =>
                 /\ t.outcome = s.outcome /\ t.up = s.up /\ t.settled = s.settled
                 /\ Flagged(s, t, {"closeSeen"}) /\ (MaxRuns(t) <=> MaxRuns(s))
            /\ s.settled # "retry" =>
                 /\ t.outcome = (IF ~s.ended /\ s.outcome = "none" THEN "client_aborted"
                                 ELSE s.outcome)
                 /\ t.up = (IF s.ended \/ s.up = "over" THEN s.up ELSE "dying")
                 /\ t.settled = IF s.ended \/ s.settled # "pending" THEN s.settled ELSE "final"
                 /\ MaxRuns(t) <=> MaxRuns(s) /\ s.ended
                 /\ \A e : Proxy!Is(t, e) <=>
                      \/ Proxy!Is(s, e) \/ e = "closeSeen" \/ (Streaming(s) /\ e = "wake")
                      \/ (~s.ended /\ e \in {"intentional", "resTorn", "wake"})
                      \/ (~s.ended /\ s.outcome = "none" /\ e = "accounted")
                      \/ (~s.ended /\ Streaming(s) /\ e = "closed")
<1>1. CASE s.settled = "retry"
  <2>1. Proxy!Closes(s) = Proxy!Set(s, {"closeSeen"})
    BY <1>1 DEF Proxy!Closes
  <2> QED
    BY <1>1, <2>1, SetDoes DEF Kept, Verdict, Answer
<1>2. CASE s.settled # "retry"
  <2> DEFINE y == Proxy!AbortUpstream(s)
             z == Proxy!Set(y, {"closeSeen"} \cup (IF Streaming(s) THEN {"wake"} ELSE {}))
             shut == Proxy!Destroy(Proxy!Finish(Proxy!Disarm(Proxy!Set(z, {"closed",
             "intentional"}), {"max"}),
                                    "client_aborted"))
  <2>1. Proxy!Closes(s) = IF Streaming(s) /\ ~Proxy!Is(z, "closed") /\ ~z.ended THEN shut ELSE z
    BY <1>2 DEF Proxy!Closes, Streaming
  <2>2. /\ Kept(s, y) /\ Answer(s, y) /\ y.held = s.held /\ y.credit = s.credit
        /\ y.charge = s.charge /\ (MaxRuns(y) <=> MaxRuns(s) /\ s.ended)
        /\ y.outcome = (IF ~s.ended /\ s.outcome = "none" THEN "client_aborted" ELSE s.outcome)
        /\ y.up = (IF s.ended \/ s.up = "over" THEN s.up ELSE "dying")
        /\ y.settled = IF s.ended \/ s.settled # "pending" THEN s.settled ELSE "final"
        /\ \A e : Proxy!Is(y, e) <=> \/ Proxy!Is(s, e)
                                     \/ (~s.ended /\ e \in {"intentional", "resTorn", "wake"})
                                     \/ (~s.ended /\ e = "accounted" /\ s.outcome = "none")
    BY AbortUpstreamDoes DEF Verdict
  <2> HIDE DEF y
  <2>3. /\ Kept(y, z) /\ Verdict(y, z) /\ Answer(y, z) /\ z.held = y.held /\ z.up = y.up
        /\ z.settled = y.settled /\ (MaxRuns(z) <=> MaxRuns(y))
        /\ \A e : Proxy!Is(z, e) <=> Proxy!Is(y, e) \/ e = "closeSeen" \/ (Streaming(s)
               /\ e = "wake")
    BY <2>2, SetDoes DEF Kept, Flagged
  <2> HIDE DEF z
  <2>4. CASE Streaming(s) /\ ~Proxy!Is(z, "closed") /\ ~z.ended
    <3>1. Proxy!Closes(s) = shut /\ z.outcome # "none"
      BY <2>1, <2>2, <2>3, <2>4 DEF Verdict, Answer
    <3>2. /\ Kept(z, shut) /\ Verdict(z, shut) /\ Answer(z, shut) /\ shut.held = z.held
          /\ shut.settled = z.settled /\ ~MaxRuns(shut)
          /\ shut.up = IF z.up = "over" THEN "over" ELSE "dying"
          /\ Flagged(z, shut, {"closed", "intentional"})
      BY <2>3, <3>1, SetDoes, DisarmDoes, FinishDoes, DestroyDoes
         DEF Kept, Verdict, Answer, Flagged
    <3> HIDE DEF shut
    <3> QED
      BY <1>2, <2>2, <2>3, <2>4, <3>1, <3>2 DEF Kept, Verdict, Answer, Flagged
  <2>5. CASE ~(Streaming(s) /\ ~Proxy!Is(z, "closed") /\ ~z.ended)
    <3>1. Proxy!Closes(s) = z
      BY <2>1, <2>5
    <3> QED
      BY <1>2, <2>2, <2>3, <2>5, <3>1 DEF Kept, Verdict, Answer
  <2> QED
    BY <2>4, <2>5
<1> QED
  BY <1>1, <1>2

LEMMA ClientLeavesKeeps == ASSUME AttemptInv, Proxy!ClientLeaves PROVE AttemptInv'
<1> DEFINE q == Proxy!Tear(Proxy!Set(a, {"gone"}))
<1>1. ~a.torn /\ UNCHANGED <<queue, tr>>
  BY DEF Proxy!ClientLeaves
<1>2. a' = Proxy!Closes(q)
  BY DEF Proxy!ClientLeaves
<1>3. Attempt(a)
  BY DEF AttemptInv
<1>4. /\ Kept(a, q) /\ Verdict(a, q) /\ q.headers = a.headers /\ q.content = a.content
      /\ q.ended = a.ended /\ q.torn /\ q.up = a.up /\ q.held = a.held /\ q.settled = a.settled
      /\ (MaxRuns(q) <=> MaxRuns(a)) /\ Flagged(a, q, {"gone"})
  BY <1>3, SetDoes, TearDoes DEF Kept, Verdict, Answer, Flagged
<1> HIDE DEF q
<1>5. /\ Kept(q, a') /\ Answer(q, a') /\ a'.held = q.held
      /\ a'.credit = q.credit /\ a'.charge = q.charge
      /\ q.settled = "retry" =>
           /\ a'.outcome = q.outcome /\ a'.up = q.up /\ a'.settled = q.settled
           /\ Flagged(q, a', {"closeSeen"}) /\ (MaxRuns(a') <=> MaxRuns(q))
      /\ q.settled # "retry" =>
           /\ a'.outcome = (IF ~q.ended /\ q.outcome = "none" THEN "client_aborted"
                            ELSE q.outcome)
           /\ a'.up = (IF q.ended \/ q.up = "over" THEN q.up ELSE "dying")
           /\ a'.settled = IF q.ended \/ q.settled # "pending" THEN q.settled ELSE "final"
           /\ MaxRuns(a') <=> MaxRuns(q) /\ q.ended
           /\ \A e : Proxy!Is(a', e) <=>
                \/ Proxy!Is(q, e) \/ e = "closeSeen" \/ (Streaming(q) /\ e = "wake")
                \/ (~q.ended /\ e \in {"intentional", "resTorn", "wake"})
                \/ (~q.ended /\ q.outcome = "none" /\ e = "accounted")
                \/ (~q.ended /\ Streaming(q) /\ e = "closed")
  BY <1>2, <1>4, ClosesDoes DEF Kept
<1>6. CASE a.settled = "retry"
  <2>1. /\ Kept(a, a') /\ Verdict(a, a') /\ a'.headers = a.headers /\ a'.content = a.content
        /\ a'.ended = a.ended /\ a'.torn /\ a'.up = a.up /\ a'.held = a.held
        /\ a'.settled = a.settled /\ (MaxRuns(a') <=> MaxRuns(a))
        /\ Flagged(a, a', {"gone", "closeSeen"})
    BY <1>4, <1>5, <1>6 DEF Kept, Verdict, Answer, Flagged
  <2> QED
    BY <1>1, <1>3, <1>6, <2>1
       DEF AttemptInv, VerdictInv, UpstreamInv, FacadeInv, TranslatorInv, RetryInv, ContentInv,
           Live, Kept, Verdict, Flagged, Proxy!RetryIsInvisible, Proxy!NoStaleClosure,
           Proxy!CleanEndIsWhole
<1>7. CASE a.settled # "retry"
  <2>1. /\ Kept(a, a') /\ a'.headers = a.headers /\ a'.content = a.content
        /\ a'.ended = a.ended /\ a'.torn /\ a'.held = a.held
        /\ a'.credit = a.credit /\ a'.charge = a.charge
        /\ a'.outcome = (IF ~a.ended /\ a.outcome = "none" THEN "client_aborted" ELSE a.outcome)
        /\ a'.up = (IF a.ended \/ a.up = "over" THEN a.up ELSE "dying")
        /\ a'.settled = IF a.ended \/ a.settled # "pending" THEN a.settled ELSE "final"
        /\ MaxRuns(a') <=> MaxRuns(a) /\ a.ended
        /\ \A e : Proxy!Is(a', e) <=>
             \/ Proxy!Is(a, e) \/ e \in {"gone", "closeSeen"} \/ (Streaming(a) /\ e = "wake")
             \/ (~a.ended /\ e \in {"intentional", "resTorn", "wake"})
             \/ (~a.ended /\ a.outcome = "none" /\ e = "accounted")
             \/ (~a.ended /\ Streaming(a) /\ e = "closed")
    BY <1>4, <1>5, <1>7 DEF Kept, Verdict, Answer, Flagged, Streaming
  <2> QED
    BY <1>1, <1>3, <1>7, <2>1
       DEF AttemptInv, VerdictInv, UpstreamInv, FacadeInv, TranslatorInv, RetryInv, ContentInv,
           Live, Kept, Streaming, Proxy!Streams, Proxy!Failures, Proxy!RetryIsInvisible,
           Proxy!NoStaleClosure, Proxy!CleanEndIsWhole
<1> QED
  BY <1>6, <1>7

LEMMA ResponseClosesKeeps == ASSUME AttemptInv, Proxy!ResponseCloses PROVE AttemptInv'
<1>1. a.torn /\ UNCHANGED <<queue, tr>>
  BY DEF Proxy!ResponseCloses
<1>2. a' = Proxy!Closes(a)
  BY DEF Proxy!ResponseCloses
<1>3. Attempt(a)
  BY DEF AttemptInv
<1>4. /\ Kept(a, a') /\ Answer(a, a') /\ a'.held = a.held
      /\ a'.credit = a.credit /\ a'.charge = a.charge
      /\ a.settled = "retry" =>
           /\ a'.outcome = a.outcome /\ a'.up = a.up /\ a'.settled = a.settled
           /\ Flagged(a, a', {"closeSeen"}) /\ (MaxRuns(a') <=> MaxRuns(a))
      /\ a.settled # "retry" =>
           /\ a'.outcome = (IF ~a.ended /\ a.outcome = "none" THEN "client_aborted"
                            ELSE a.outcome)
           /\ a'.up = (IF a.ended \/ a.up = "over" THEN a.up ELSE "dying")
           /\ a'.settled = IF a.ended \/ a.settled # "pending" THEN a.settled ELSE "final"
           /\ MaxRuns(a') <=> MaxRuns(a) /\ a.ended
           /\ \A e : Proxy!Is(a', e) <=>
                \/ Proxy!Is(a, e) \/ e = "closeSeen" \/ (Streaming(a) /\ e = "wake")
                \/ (~a.ended /\ e \in {"intentional", "resTorn", "wake"})
                \/ (~a.ended /\ a.outcome = "none" /\ e = "accounted")
                \/ (~a.ended /\ Streaming(a) /\ e = "closed")
  BY <1>2, <1>3, ClosesDoes
<1>5. CASE a.settled = "retry"
  BY <1>1, <1>3, <1>4, <1>5
     DEF AttemptInv, VerdictInv, UpstreamInv, FacadeInv, TranslatorInv, RetryInv, ContentInv,
         Live, Kept, Answer, Flagged, Proxy!RetryIsInvisible, Proxy!NoStaleClosure,
         Proxy!CleanEndIsWhole
<1>6. CASE a.settled # "retry"
  BY <1>1, <1>3, <1>4, <1>6
     DEF AttemptInv, VerdictInv, UpstreamInv, FacadeInv, TranslatorInv, RetryInv, ContentInv,
         Live, Kept, Answer, Streaming, Proxy!Streams, Proxy!Failures, Proxy!RetryIsInvisible,
         Proxy!NoStaleClosure,
         Proxy!CleanEndIsWhole
<1> QED
  BY <1>5, <1>6

\* A chunk that leaves the attempt open: what it may add, and what it may not touch.
Advanced(s, t) ==
  /\ Kept(s, t) /\ Verdict(s, t) /\ t.ended = s.ended /\ t.torn = s.torn /\ t.up = s.up
  /\ \A e : Proxy!Is(s, e) => Proxy!Is(t, e)
  /\ \A e : e \notin {"sawDone", "sawError", "meaningful", "bad", "released", "committed",
     "first"} =>
       (Proxy!Is(t, e) <=> Proxy!Is(s, e))
  /\ MaxRuns(t) <=> MaxRuns(s)
  /\ t.settled = s.settled \/ (s.settled = "pending" /\ t.settled = "success")
  /\ s.headers => t.headers
  /\ t.content = s.content \/ t.headers

LEMMA OpenChunk ==
  ASSUME NEW s, NEW f \in Proxy!Frames, NEW overflow \in BOOLEAN, NEW t, Attempt(s),
         Proxy!Is(s, "committed") => s.headers /\ ~s.held,
         Proxy!Is(s, "meaningful") => Proxy!Is(s, "committed"),
         t = IF Proxy!Is(s, "committed") THEN Proxy!CommittedChunk(s, f)
             ELSE IF s.headers THEN Proxy!ReleasedChunk(s, f) ELSE Proxy!HeldChunk(s, f, overflow)
  PROVE  \/ /\ Advanced(s, t) /\ (Proxy!Is(t, "committed") => t.headers /\ ~t.held)
            /\ Proxy!Is(t, "meaningful") => Proxy!Is(t, "committed")
         \/ /\ f = "error" /\ ~Proxy!Is(s, "committed") /\ (\E r \in {"retry", "final"} :
                 /\ t = (IF r = "retry" THEN Proxy!SseError(s,
                    r) ELSE Proxy!AbortCommitted(Proxy!SseError(s, r)))
                 /\ r = "retry" <=> ~s.headers)
<1>1. CASE Proxy!Is(s, "committed")
  <2>0. s.headers /\ ~s.held
    BY <1>1
  <2>1. t = Proxy!CommittedChunk(s, f)
    BY <1>1
  <2>2. CASE f = "meaningful"
    <3>1. t = Proxy!Set(Proxy!Send(s, f), {"meaningful"})
      BY <2>1, <2>2 DEF Proxy!CommittedChunk
    <3>2. /\ Kept(s, t) /\ Verdict(s, t) /\ t.ended = s.ended /\ t.torn = s.torn /\ t.up = s.up
          /\ (MaxRuns(t) <=> MaxRuns(s)) /\ t.settled = s.settled /\ t.headers /\ t.held = s.held
          /\ Flagged(s, t, {"meaningful"})
      BY <3>1, SendDoes, SetDoes DEF Kept, Verdict, Answer, Flagged
    <3> QED
      BY <1>1, <2>0, <3>2 DEF Advanced, Flagged
  <2>3. CASE f = "malformed" /\ Proxy!Is(s, "meaningful")
    <3>1. t = Proxy!Set(s, {"bad"})
      BY <2>1, <2>3 DEF Proxy!CommittedChunk
    <3>2. /\ Kept(s, t) /\ Verdict(s, t) /\ Answer(s, t) /\ t.up = s.up
          /\ (MaxRuns(t) <=> MaxRuns(s)) /\ t.settled = s.settled /\ t.held = s.held
          /\ Flagged(s, t, {"bad"})
      BY <3>1, SetDoes
    <3> QED
      BY <1>1, <2>0, <3>2 DEF Advanced, Answer, Flagged
  <2>4. CASE f # "meaningful" /\ ~(f = "malformed" /\ Proxy!Is(s, "meaningful"))
    <3>1. t = s
      BY <2>1, <2>4 DEF Proxy!CommittedChunk
    <3> QED
      BY <1>1, <2>0, <3>1 DEF Advanced, Kept, Verdict
  <2> QED
    BY <2>2, <2>3, <2>4
<1>2. CASE ~Proxy!Is(s, "committed") /\ s.headers
  <2>1. t = Proxy!ReleasedChunk(s, f)
    BY <1>2
  <2>2. CASE f = "error"
    <3>1. t = Proxy!AbortCommitted(Proxy!SseError(s, "final"))
      BY <2>1, <2>2 DEF Proxy!ReleasedChunk
    <3> QED
      BY <1>2, <2>2, <3>1
  <2>3. CASE f = "meaningful"
    <3>1. t = Proxy!Set(Proxy!Commit(s, f), {"meaningful", "released"})
      BY <2>1, <2>3 DEF Proxy!ReleasedChunk
    <3>2. /\ Kept(s, t) /\ Verdict(s, t) /\ t.ended = s.ended /\ t.torn = s.torn /\ t.up = s.up
          /\ (MaxRuns(t) <=> MaxRuns(s)) /\ t.headers /\ ~t.held
          /\ t.settled = IF s.settled = "pending" THEN "success" ELSE s.settled
          /\ Flagged(s, t, {"committed", "meaningful", "released"})
      BY <3>1, CommitDoes, SetDoes DEF Kept, Verdict, Answer, Flagged
    <3> QED
      BY <3>2 DEF Advanced, Flagged
  <2>4. CASE f \notin {"error", "meaningful"}
    <3>1. t = s
      BY <2>1, <2>4 DEF Proxy!ReleasedChunk
    <3> QED
      BY <1>2, <3>1 DEF Advanced, Kept, Verdict
  <2> QED
    BY <2>2, <2>3, <2>4
<1>3. CASE ~Proxy!Is(s, "committed") /\ ~s.headers
  <2>1. t = Proxy!HeldChunk(s, f, overflow)
    BY <1>3
  <2>2. CASE f = "error"
    <3>1. t = Proxy!SseError(s, "retry")
      BY <2>1, <2>2 DEF Proxy!HeldChunk
    <3> QED
      BY <1>3, <2>2, <3>1
  <2>3. CASE f = "meaningful"
    <3>1. t = Proxy!Set(Proxy!Commit(s, f), {"meaningful"})
      BY <2>1, <2>3 DEF Proxy!HeldChunk
    <3>2. /\ Kept(s, t) /\ Verdict(s, t) /\ t.ended = s.ended /\ t.torn = s.torn /\ t.up = s.up
          /\ (MaxRuns(t) <=> MaxRuns(s)) /\ t.headers /\ ~t.held
          /\ t.settled = IF s.settled = "pending" THEN "success" ELSE s.settled
          /\ Flagged(s, t, {"committed", "meaningful"})
      BY <3>1, CommitDoes, SetDoes DEF Kept, Verdict, Answer, Flagged
    <3> QED
      BY <3>2 DEF Advanced, Flagged
  <2>4. CASE f = "partial" /\ overflow
    <3>1. t = Proxy!Commit(s, "benign")
      BY <2>1, <2>4 DEF Proxy!HeldChunk
    <3>2. /\ Kept(s, t) /\ Verdict(s, t) /\ t.ended = s.ended /\ t.torn = s.torn /\ t.up = s.up
          /\ (MaxRuns(t) <=> MaxRuns(s)) /\ t.headers /\ ~t.held
          /\ t.settled = IF s.settled = "pending" THEN "success" ELSE s.settled
          /\ Flagged(s, t, {"committed"})
      BY <3>1, CommitDoes
    <3> QED
      BY <3>2 DEF Advanced, Flagged
  <2>5. CASE f = "partial" /\ ~overflow
    <3> DEFINE q == [s EXCEPT !.held = TRUE]
    <3>1. t = q
      BY <2>1, <2>5 DEF Proxy!HeldChunk
    <3>2. /\ Kept(s, q) /\ Verdict(s, q) /\ Answer(s, q) /\ q.up = s.up
          /\ (MaxRuns(q) <=> MaxRuns(s)) /\ q.settled = s.settled /\ Flagged(s, q, {})
      BY DEF Attempt, Fields, Proxy!Is, MaxRuns, Flagged, Kept, Verdict, Answer
    <3> HIDE DEF q
    <3> QED
      BY <1>3, <3>1, <3>2 DEF Advanced, Answer, Flagged
  <2>6. CASE f \notin {"error", "meaningful", "partial"}
    <3> DEFINE q == [Proxy!Send(s, "benign") EXCEPT !.held = FALSE]
    <3>1. t = Proxy!Disarm(q, {"deadline"})
      BY <2>1, <2>6 DEF Proxy!HeldChunk
    <3>2. /\ Kept(s, q) /\ Verdict(s, q) /\ q.headers /\ q.ended = s.ended /\ q.torn = s.torn
          /\ q.up = s.up /\ (MaxRuns(q) <=> MaxRuns(s)) /\ q.settled = s.settled
          /\ Flagged(s, q, {})
      BY SendDoes, HoldDoes DEF Kept, Verdict, Answer, Flagged
    <3> HIDE DEF q
    <3>3. /\ Kept(s, t) /\ Verdict(s, t) /\ t.headers /\ t.ended = s.ended /\ t.torn = s.torn
          /\ t.up = s.up /\ (MaxRuns(t) <=> MaxRuns(s)) /\ t.settled = s.settled
          /\ Flagged(s, t, {})
      BY <3>1, <3>2, DisarmDoes DEF Kept, Verdict, Answer, Flagged
    <3> QED
      BY <1>3, <3>3 DEF Advanced, Flagged
  <2> QED
    BY <2>2, <2>3, <2>4, <2>5, <2>6
<1> QED
  BY <1>1, <1>2, <1>3

LEMMA ChunkKeeps ==
  ASSUME AttemptInv, NEW f \in Proxy!Frames, NEW overflow \in BOOLEAN, Proxy!Chunk(f, overflow)
  PROVE  AttemptInv'
<1> DEFINE x == [Proxy!Observe(a, f) EXCEPT !.chunks = Proxy!Observe(a, f).chunks + 1]
<1>1. a.up = "body" /\ ~Proxy!Is(a, "closed") /\ a.mode \in Proxy!Streams
  BY DEF Proxy!Chunk
<1>2. Attempt(a) /\ a.outcome = "none"
  BY <1>1 DEF AttemptInv, UpstreamInv, Live
<1>3. \/ /\ a.mode = "openai" /\ UNCHANGED <<queue, tr>>
         /\ a' = IF Proxy!Is(a, "committed") THEN Proxy!CommittedChunk(x, f)
                 ELSE IF a.headers THEN Proxy!ReleasedChunk(x, f) ELSE Proxy!HeldChunk(x, f,
                 overflow)
      \/ /\ a.mode = "raw" /\ UNCHANGED <<queue, tr>>
         /\ a' = IF Proxy!Is(a, "first") THEN x
                 ELSE IF f = "error"
                     /\ ~a.headers THEN Proxy!SseError(Proxy!Set(x, {"first"}), "retry")
                 ELSE Proxy!Settle(Proxy!Set(Proxy!Send(x, "meaningful"), {"first"}), "success")
      \/ /\ a.mode = "facade" /\ a' = Proxy!Set(x, {"first"})
         /\ queue' = IF tr = "done" THEN queue ELSE Append(queue, f)
         /\ tr' = IF tr = "off" THEN "ready" ELSE tr
  BY DEF Proxy!Chunk
<1>4. /\ Kept(a, x) /\ Verdict(a, x) /\ Answer(a, x) /\ x.up = a.up /\ x.held = a.held
      /\ x.settled = a.settled /\ (MaxRuns(x) <=> MaxRuns(a))
      /\ \A e : Proxy!Is(x, e) <=> \/ Proxy!Is(a, e) \/ (e = "sawDone" /\ f = "done")
                                   \/ (e = "sawError" /\ f = "error")
  BY <1>2, ObserveDoes, CountDoes DEF Kept, Verdict, Answer, Flagged
<1> HIDE DEF x
<1>5. CASE a.mode = "openai"
  <2>1. UNCHANGED <<queue, tr>>
    BY <1>3, <1>5
  <2>2. a' = IF Proxy!Is(x, "committed") THEN Proxy!CommittedChunk(x, f)
             ELSE IF x.headers THEN Proxy!ReleasedChunk(x, f) ELSE Proxy!HeldChunk(x, f, overflow)
    BY <1>3, <1>4, <1>5 DEF Answer
  <2>3. /\ Proxy!Is(x, "committed") => x.headers /\ ~x.held
        /\ Proxy!Is(x, "meaningful") => Proxy!Is(x, "committed")
    BY <1>4, <1>5 DEF AttemptInv, FacadeInv, ContentInv, Answer
  <2>4. \/ /\ Advanced(x, a') /\ (Proxy!Is(a', "committed") => a'.headers /\ ~a'.held)
           /\ Proxy!Is(a', "meaningful") => Proxy!Is(a', "committed")
        \/ /\ f = "error" /\ ~Proxy!Is(x, "committed") /\ (\E r \in {"retry", "final"} :
                /\ a' = (IF r = "retry" THEN Proxy!SseError(x,
                   r) ELSE Proxy!AbortCommitted(Proxy!SseError(x, r)))
                /\ r = "retry" <=> ~x.headers)
    BY <1>4, <2>2, <2>3, OpenChunk DEF Kept
  <2>5. CASE /\ Advanced(x, a') /\ (Proxy!Is(a', "committed") => a'.headers /\ ~a'.held)
             /\ Proxy!Is(a', "meaningful") => Proxy!Is(a', "committed")
    <3>1. /\ Advanced(a, a')
      BY <1>4, <2>5 DEF Advanced, Kept, Verdict, Answer
    <3> QED
      BY <1>1, <1>2, <1>5, <2>1, <2>5, <3>1
         DEF AttemptInv, VerdictInv, UpstreamInv, FacadeInv, TranslatorInv, RetryInv, ContentInv,
             Live, Kept, Verdict, Advanced, Proxy!RetryIsInvisible, Proxy!NoStaleClosure,
             Proxy!CleanEndIsWhole
  <2>6. ASSUME NEW r \in {"retry", "final"}, ~Proxy!Is(x, "committed"), r = "retry" <=> ~x.headers,
               a' = (IF r = "retry" THEN Proxy!SseError(x,
               r) ELSE Proxy!AbortCommitted(Proxy!SseError(x, r)))
        PROVE  AttemptInv'
    <3>1. /\ Kept(a, a') /\ Answer(a, a') /\ ~MaxRuns(a') /\ a'.held = a.held
          /\ a'.up = "dying" /\ a'.settled = (IF a.settled = "pending" THEN r ELSE a.settled)
          /\ a'.outcome = "upstream_sse_error" /\ a'.credit = a.credit /\ a'.charge # 0
          /\ \A e : Proxy!Is(a', e) <=> \/ Proxy!Is(x, e)
                 \/ e \in {"closed", "intentional", "accounted"}
                                        \/ (e = "aborting" /\ r = "final" /\ ~x.ended)
      <4> DEFINE q == Proxy!SseError(x, r)
      <4>1. /\ Kept(a, q) /\ Answer(a, q) /\ ~MaxRuns(q) /\ q.held = a.held
            /\ q.up = "dying" /\ q.settled = (IF a.settled = "pending" THEN r ELSE a.settled)
            /\ q.outcome = "upstream_sse_error" /\ q.credit = a.credit /\ q.charge # 0
            /\ Flagged(x, q, {"closed", "intentional", "accounted"}) /\ q.ended = x.ended
        BY <1>1, <1>2, <1>4, SseErrorDoes DEF Kept, Verdict, Answer
      <4> HIDE DEF q
      <4>2. CASE r = "retry"
        <5>1. a' = q
          BY <2>6, <4>2 DEF q
        <5> QED
          BY <4>1, <4>2, <5>1 DEF Flagged
      <4>3. CASE r = "final"
        <5>1. a' = Proxy!AbortCommitted(q)
          BY <2>6, <4>3 DEF q
        <5> QED
          BY <4>1, <4>3, <5>1, AbortDoes DEF Kept, Verdict, Answer, Flagged
      <4> QED
        BY <4>2, <4>3
    <3>2. r = "retry" <=> ~a.headers
      BY <1>4, <2>6 DEF Answer
    <3>3. \A e : Proxy!Is(a', e) <=> \/ Proxy!Is(a, e) \/ (e = "sawDone" /\ f = "done")
                                     \/ (e = "sawError" /\ f = "error")
                                     \/ e \in {"closed", "intentional", "accounted"}
                                     \/ (e = "aborting" /\ r = "final" /\ ~a.ended)
      BY <1>4, <3>1 DEF Answer
    <3> QED
      BY <1>1, <1>2, <1>5, <2>1, <3>1, <3>2, <3>3
         DEF AttemptInv, VerdictInv, UpstreamInv, FacadeInv, TranslatorInv, RetryInv, ContentInv,
             Live, Kept, Answer, Proxy!Failures, Proxy!RetryIsInvisible, Proxy!NoStaleClosure,
             Proxy!CleanEndIsWhole
  <2> QED
    BY <2>4, <2>5, <2>6
<1>6. CASE a.mode = "raw"
  <2>1. UNCHANGED <<queue, tr>>
    BY <1>3, <1>6
  <2>2. CASE Proxy!Is(a, "first")
    <3>1. a' = x
      BY <1>3, <1>6, <2>2
    <3> QED
      BY <1>1, <1>2, <1>4, <1>6, <2>1, <3>1
         DEF AttemptInv, VerdictInv, UpstreamInv, FacadeInv, TranslatorInv, RetryInv, ContentInv,
             Live, Kept, Verdict, Answer, Proxy!RetryIsInvisible, Proxy!NoStaleClosure,
             Proxy!CleanEndIsWhole
  <2>3. CASE ~Proxy!Is(a, "first") /\ f = "error" /\ ~a.headers
    <3>1. a' = Proxy!SseError(Proxy!Set(x, {"first"}), "retry")
      BY <1>3, <1>6, <2>3
    <3>2. /\ Kept(a, a') /\ Answer(a, a') /\ ~MaxRuns(a') /\ a'.held = a.held
          /\ a'.up = "dying" /\ a'.settled = (IF a.settled = "pending" THEN "retry" ELSE a.settled)
          /\ a'.outcome = "upstream_sse_error" /\ a'.credit = a.credit /\ a'.charge # 0
          /\ Flagged(x, a', {"first", "closed", "intentional", "accounted"})
      BY <1>1, <1>2, <1>4, <3>1, SetDoes, SseErrorDoes DEF Kept, Verdict, Answer, Flagged
    <3> QED
      BY <1>1, <1>2, <1>4, <1>6, <2>1, <2>3, <3>2
         DEF AttemptInv, VerdictInv, UpstreamInv, FacadeInv, TranslatorInv, RetryInv, ContentInv,
             Live, Kept, Answer, Flagged, Proxy!Failures, Proxy!RetryIsInvisible,
             Proxy!NoStaleClosure,
             Proxy!CleanEndIsWhole
  <2>4. CASE ~Proxy!Is(a, "first") /\ ~(f = "error" /\ ~a.headers)
    <3>1. a' = Proxy!Settle(Proxy!Set(Proxy!Send(x, "meaningful"), {"first"}), "success")
      BY <1>3, <1>6, <2>4
    <3>2. /\ Kept(a, a') /\ Verdict(a, a') /\ a'.headers /\ a'.ended = a.ended /\ a'.torn = a.torn
          /\ (MaxRuns(a') <=> MaxRuns(a)) /\ a'.held = a.held /\ a'.up = a.up
          /\ a'.settled = (IF a.settled = "pending" THEN "success" ELSE a.settled)
          /\ Flagged(x, a', {"first"})
      BY <1>4, <3>1, SendDoes, SetDoes, SettleDoes DEF Kept, Verdict, Answer, Flagged
    <3> QED
      BY <1>1, <1>2, <1>4, <1>6, <2>1, <3>2
         DEF AttemptInv, VerdictInv, UpstreamInv, FacadeInv, TranslatorInv, RetryInv, ContentInv,
             Live, Kept, Verdict, Flagged, Proxy!RetryIsInvisible, Proxy!NoStaleClosure,
             Proxy!CleanEndIsWhole
  <2> QED
    BY <2>2, <2>3, <2>4
<1>7. CASE a.mode = "facade"
  <2>1. /\ queue' = IF tr = "done" THEN queue ELSE Append(queue, f)
        /\ tr' = IF tr = "off" THEN "ready" ELSE tr
    BY <1>3, <1>7
  <2>2. /\ Kept(a, a') /\ Verdict(a, a') /\ Answer(a, a') /\ a'.up = a.up /\ a'.held = a.held
        /\ a'.settled = a.settled /\ (MaxRuns(a') <=> MaxRuns(a)) /\ Flagged(x, a', {"first"})
    <3>1. a' = Proxy!Set(x, {"first"})
      BY <1>3, <1>7
    <3> QED
      BY <1>4, <3>1, SetDoes DEF Kept, Verdict, Answer, Flagged
  <2>3. \A e : Proxy!Is(a', e) <=> \/ Proxy!Is(a, e) \/ e = "first" \/ (e = "sawDone" /\ f = "done")
                                   \/ (e = "sawError" /\ f = "error")
    BY <1>4, <2>2 DEF Flagged
  <2>4. /\ queue' \in Seq(Proxy!Frames)
        /\ \A i \in 1 .. Len(queue') : queue'[i] = "error" => Proxy!Is(a', "sawError")
    <3>1. queue \in Seq(Proxy!Frames)
      BY DEF AttemptInv, TranslatorInv
    <3>2. CASE tr = "done"
      BY <2>1, <2>3, <3>2 DEF AttemptInv, TranslatorInv
    <3>3. CASE tr # "done"
      <4>1. queue' = Append(queue, f)
        BY <2>1, <3>3
      <4>2. \A i \in 1 .. Len(queue) : queue[i] = "error" => Proxy!Is(a, "sawError")
        BY DEF AttemptInv, TranslatorInv
      <4>3. Len(queue') = Len(queue) + 1 /\ queue' \in Seq(Proxy!Frames)
                /\ queue'[Len(queue) + 1] = f
        BY <3>1, <4>1
      <4>4. \A i \in 1 .. Len(queue) : queue'[i] = queue[i]
        BY <3>1, <4>1
      <4>5. f = "error" => Proxy!Is(a', "sawError")
        BY <2>3
      <4> QED
        BY <2>3, <3>1, <4>2, <4>3, <4>4, <4>5
    <3> QED
      BY <3>2, <3>3
  <2>5. TranslatorInv'
    BY <1>1, <1>2, <1>7, <2>1, <2>2, <2>3, <2>4
       DEF AttemptInv, UpstreamInv, FacadeInv, TranslatorInv, Kept, Verdict, Answer
  <2> QED
    BY <1>1, <1>2, <1>7, <2>1, <2>2, <2>3, <2>5
       DEF AttemptInv, VerdictInv, UpstreamInv, FacadeInv, RetryInv, ContentInv,
           Live, Kept, Verdict, Answer, Proxy!RetryIsInvisible, Proxy!NoStaleClosure,
           Proxy!CleanEndIsWhole
<1> QED
  BY <1>1, <1>5, <1>6, <1>7 DEF Proxy!Streams

\* A frame the translator reads: what it may add to an open stream, or it throws.
Emitted(s, t) ==
  /\ Kept(s, t) /\ Verdict(s, t) /\ t.ended = s.ended /\ t.torn = s.torn /\ t.up = s.up
  /\ t.held = s.held /\ (MaxRuns(t) <=> MaxRuns(s))
  /\ \A e : Proxy!Is(s, e) => Proxy!Is(t, e)
  /\ \A e : e \notin {"bad", "committed", "tail", "heldStop"} => (Proxy!Is(t, e) <=> Proxy!Is(s, e))
  /\ s.headers => t.headers
  /\ t = s \/ (t.settled = s.settled /\ Answer(s, t)
         /\ (Proxy!Is(t, "committed") <=> Proxy!Is(s, "committed")))
     \/ (t.headers /\ Proxy!Is(t, "committed")
         /\ t.settled = IF s.settled = "pending" THEN "success" ELSE s.settled)

Thrown(s, t) ==
  /\ Kept(s, t) /\ Answer(s, t) /\ t.up = s.up /\ t.held = s.held /\ ~MaxRuns(t)
  /\ t.settled = (IF s.settled = "pending" THEN "retry" ELSE s.settled)
  /\ t.credit = s.credit /\ t.charge # 0
  /\ s.outcome # "none" => t.outcome = s.outcome
  /\ s.outcome = "none" => t.outcome \in {"upstream_sse_error", "incomplete_stream"}
  /\ ~Proxy!Is(s, "committed") /\ Flagged(s, t, {"closed", "thrown", "accounted"})

LEMMA ThrowsDoes ==
  ASSUME NEW s, NEW semantic \in BOOLEAN, Attempt(s),
         ~Proxy!Is(s, "deadline"), ~Proxy!Is(s, "closed"), ~Proxy!Is(s, "committed")
  PROVE  Thrown(s, Proxy!Throws(s, semantic))
<1> DEFINE q == Proxy!Disarm(Proxy!Set(s, {"closed", "thrown"}), {"max"})
           o == IF semantic THEN "upstream_sse_error" ELSE "incomplete_stream"
<1>1. Proxy!Throws(s, semantic) = Proxy!Settle(Proxy!Finish(Proxy!Penalise(q), o), "retry")
  BY DEF Proxy!Throws
<1>2. /\ Kept(s, q) /\ Verdict(s, q) /\ Answer(s, q) /\ q.up = s.up /\ q.held = s.held
      /\ ~MaxRuns(q) /\ q.settled = s.settled /\ Flagged(s, q, {"closed", "thrown"})
  BY SetDoes, DisarmDoes DEF Kept, Verdict, Answer, Flagged
<1>3. o \in {"upstream_sse_error", "incomplete_stream"}
  OBVIOUS
<1> HIDE DEF q, o
<1> QED
  BY <1>1, <1>2, <1>3, PenaliseDoes, FinishDoes, SettleDoes
     DEF Thrown, Kept, Verdict, Answer, Flagged

LEMMA BrokenTailDoes ==
  ASSUME NEW s, Attempt(s)
  PROVE  /\ Emitted(s, Proxy!BrokenTail(s)) /\ Proxy!Is(Proxy!BrokenTail(s), "committed")
         /\ Proxy!Is(Proxy!BrokenTail(s), "tail")
<1> DEFINE t == Proxy!BrokenTail(s)
<1>1. /\ Kept(s, t) /\ Verdict(s, t) /\ t.ended = s.ended /\ t.torn = s.torn /\ t.up = s.up
      /\ t.held = s.held /\ (MaxRuns(t) <=> MaxRuns(s)) /\ t.headers
      /\ t.settled = (IF s.settled = "pending" THEN "success" ELSE s.settled)
      /\ Flagged(s, t, {"committed", "tail", "heldStop"})
  BY EmitDoes, SetDoes DEF Proxy!BrokenTail, Kept, Verdict, Answer, Flagged
<1> HIDE DEF t
<1>2. Emitted(s, t) /\ Proxy!Is(t, "committed") /\ Proxy!Is(t, "tail")
  BY <1>1 DEF Emitted, Flagged
<1> QED
  BY <1>2 DEF t

LEMMA EmitKeeps ==
  ASSUME NEW s, NEW c, Attempt(s)
  PROVE  /\ Emitted(s, Proxy!Emit(s, c)) /\ Proxy!Is(Proxy!Emit(s, c), "committed")
         /\ Proxy!Is(Proxy!Emit(s, c), "bad") <=> Proxy!Is(s, "bad")
<1> DEFINE t == Proxy!Emit(s, c)
<1>1. /\ Kept(s, t) /\ Verdict(s, t) /\ t.ended = s.ended /\ t.torn = s.torn /\ t.up = s.up
      /\ t.held = s.held /\ (MaxRuns(t) <=> MaxRuns(s)) /\ t.headers
      /\ t.settled = (IF s.settled = "pending" THEN "success" ELSE s.settled)
      /\ Flagged(s, t, {"committed"})
  BY EmitDoes
<1> HIDE DEF t
<1>2. Emitted(s, t) /\ Proxy!Is(t, "committed") /\ (Proxy!Is(t, "bad") <=> Proxy!Is(s, "bad"))
  BY <1>1 DEF Emitted, Flagged
<1> QED
  BY <1>2 DEF t

LEMMA TranslatedDoes ==
  ASSUME NEW s, NEW f \in Proxy!Frames \cup {"eof"}, Attempt(s),
         ~Proxy!Is(s, "deadline"), ~Proxy!Is(s, "closed")
  PROVE  LET step == Proxy!Translated(s, f)
         IN \/ /\ Emitted(s, step.to)
               /\ step.stops => /\ Proxy!Is(step.to, "committed")
                                /\ f = "error" \/ Proxy!Is(step.to, "tail")
                                       \/ ~Proxy!Is(step.to, "bad")
               /\ f = "meaningful" => Proxy!Is(step.to, "committed")
            \/ Thrown(s, step.to) /\ f # "meaningful"
<1> DEFINE step == Proxy!Translated(s, f)
<1>1. CASE f = "meaningful"
  <2>1. step.to = Proxy!Emit(s, f) /\ ~step.stops
    BY <1>1 DEF Proxy!Translated
  <2> QED
    BY <1>1, <2>1, EmitKeeps
<1>2. CASE f = "malformed"
  <2>1. step.to = Proxy!Set(s, {"bad"}) /\ ~step.stops
    BY <1>2 DEF Proxy!Translated
  <2> DEFINE t == Proxy!Set(s, {"bad"})
  <2>2. /\ Kept(s, t) /\ Verdict(s, t) /\ Answer(s, t) /\ t.up = s.up /\ t.held = s.held
        /\ (MaxRuns(t) <=> MaxRuns(s)) /\ t.settled = s.settled /\ Flagged(s, t, {"bad"})
    BY SetDoes
  <2> HIDE DEF t
  <2>3. Emitted(s, t)
    BY <2>2 DEF Emitted, Answer, Flagged
  <2> QED
    BY <1>2, <2>1, <2>3 DEF t
<1>3. CASE f = "error"
  <2>1. CASE Proxy!Is(s, "committed")
    <3>1. step.to = Proxy!Emit(s, "benign")
      BY <1>3, <2>1 DEF Proxy!Translated
    <3> QED
      BY <1>3, <3>1, EmitKeeps
  <2>2. CASE ~Proxy!Is(s, "committed")
    <3>1. step.to = Proxy!Throws(s, TRUE)
      BY <1>3, <2>2 DEF Proxy!Translated
    <3> QED
      BY <1>3, <2>2, <3>1, ThrowsDoes
  <2> QED
    BY <2>1, <2>2
<1>4. CASE f = "done"
  <2>1. CASE ~Proxy!Is(s, "bad")
    <3>1. step.to = Proxy!Emit(s, "benign")
      BY <1>4, <2>1 DEF Proxy!Translated
    <3> QED
      BY <1>4, <2>1, <3>1, EmitKeeps
  <2>2. CASE Proxy!Is(s, "bad") /\ Proxy!Is(s, "committed")
    <3>1. step.to = Proxy!BrokenTail(s)
      BY <1>4, <2>2 DEF Proxy!Translated
    <3> QED
      BY <1>4, <3>1, BrokenTailDoes
  <2>3. CASE Proxy!Is(s, "bad") /\ ~Proxy!Is(s, "committed")
    <3>1. step.to = Proxy!Throws(s, FALSE)
      BY <1>4, <2>3 DEF Proxy!Translated
    <3> QED
      BY <1>4, <2>3, <3>1, ThrowsDoes
  <2> QED
    BY <2>1, <2>2, <2>3
<1>5. CASE f = "eof"
  <2> DEFINE broken == Proxy!Is(s, "bad") \/ s.lastFrame = "partial"
  <2>1. CASE broken /\ ~Proxy!Is(s, "committed")
    <3>1. step.to = Proxy!Throws(s, FALSE)
      BY <1>5, <2>1 DEF Proxy!Translated
    <3> QED
      BY <1>5, <2>1, <3>1, ThrowsDoes
  <2>2. CASE ~(broken /\ ~Proxy!Is(s, "committed"))
    <3>1. step.to = Proxy!BrokenTail(s)
      BY <1>5, <2>2 DEF Proxy!Translated
    <3> QED
      BY <1>5, <3>1, BrokenTailDoes
  <2> QED
    BY <2>1, <2>2
<1>6. CASE f \in {"partial", "benign"}
  <2>1. step.to = s /\ ~step.stops
    BY <1>6 DEF Proxy!Translated
  <2>2. Emitted(s, s)
    BY DEF Emitted, Kept, Verdict
  <2> QED
    BY <1>6, <2>1, <2>2
<1> QED
  BY <1>1, <1>2, <1>3, <1>4, <1>5, <1>6 DEF Proxy!Frames

LEMMA TranslateKeeps == ASSUME AttemptInv, Proxy!Translate PROVE AttemptInv'
<1> DEFINE f == IF queue = <<>> THEN "eof" ELSE Head(queue)
           step == Proxy!Translated(a, f)
           to == step.to
           n == IF f = "eof" THEN to.lastFrame ELSE f
<1>1. tr = "ready"
  BY DEF Proxy!Translate
<1>2. /\ Attempt(a) /\ a.mode = "facade" /\ a.responded /\ queue \in Seq(Proxy!Frames)
      /\ \A i \in 1 .. Len(queue) : queue[i] = "error" => Proxy!Is(a, "sawError")
  BY <1>1 DEF AttemptInv, FacadeInv, TranslatorInv
<1>3. CASE Proxy!Silenced(a)
  <2>1. tr' = "done" /\ queue' = <<>> /\ a' = a
    BY <1>3 DEF Proxy!Translate
  <2>2. queue' \in Seq(Proxy!Frames) /\ Len(queue') = 0
    BY <2>1
  <2> QED
    BY <1>1, <1>2, <1>3, <2>1, <2>2
       DEF AttemptInv, VerdictInv, UpstreamInv, FacadeInv, TranslatorInv, RetryInv, ContentInv,
           Live, Proxy!Silenced, Proxy!RetryIsInvisible, Proxy!NoStaleClosure, Proxy!CleanEndIsWhole
<1>4. CASE ~Proxy!Silenced(a)
  <2>1. ~Proxy!Is(a, "closed") /\ ~Proxy!Is(a, "deadline") /\ ~a.ended
    BY <1>4 DEF Proxy!Silenced
  <2>2. /\ f \in Proxy!Frames \cup {"eof"} /\ (f = "error" => Proxy!Is(a, "sawError"))
    <3>1. CASE queue = <<>>
      BY <3>1
    <3>2. CASE queue # <<>>
      BY <1>2, <3>2
    <3> QED
      BY <3>1, <3>2
  <2>3. /\ queue' \in Seq(Proxy!Frames)
        /\ \A i \in 1 .. Len(queue') : queue'[i] = "error" => Proxy!Is(a, "sawError")
    <3>1. CASE queue = <<>>
      BY <1>2, <1>4, <3>1 DEF Proxy!Translate
    <3>2. CASE queue # <<>>
      <4>1. queue' = Tail(queue)
        BY <1>4, <3>2 DEF Proxy!Translate
      <4>2. /\ Len(queue') = Len(queue) - 1 /\ queue' \in Seq(Proxy!Frames)
            /\ \A i \in 1 .. Len(queue') : queue'[i] = queue[i + 1]
        BY <1>2, <3>2, <4>1
      <4>3. Len(queue) \in Nat
        BY <1>2
      <4> QED
        BY <1>2, <4>2, <4>3
    <3> QED
      BY <3>1, <3>2
  <2>4. a' = [to EXCEPT !.lastFrame = n]
    BY <1>4 DEF Proxy!Translate
  <2>5. tr' = "done" <=> step.stops
    BY <1>4 DEF Proxy!Translate, Proxy!Translated
  <2>6. tr' \in {"ready", "done", "stalled"} /\ (tr' = "stalled" => f = "meaningful")
    BY <1>4 DEF Proxy!Translate
  <2>7. \/ /\ Emitted(a, to)
           /\ step.stops => /\ Proxy!Is(to, "committed")
                            /\ f = "error" \/ Proxy!Is(to, "tail") \/ ~Proxy!Is(to, "bad")
           /\ f = "meaningful" => Proxy!Is(to, "committed")
        \/ Thrown(a, to) /\ f # "meaningful"
    BY <1>2, <2>1, <2>2, TranslatedDoes
  <2> HIDE DEF to, n, step, f
  <2>8. CASE Thrown(a, to) /\ f # "meaningful"
    <3>1. Thrown(a, a')
      BY <2>4, <2>8, NoteDoes DEF Thrown, Kept, Verdict, Answer, Flagged
    <3> QED
      BY <1>1, <1>2, <2>1, <2>3, <2>6, <2>8, <3>1
         DEF AttemptInv, VerdictInv, UpstreamInv, FacadeInv, TranslatorInv, RetryInv, ContentInv,
             Live, Thrown, Kept, Answer, Flagged, Proxy!Failures, Proxy!RetryIsInvisible,
             Proxy!NoStaleClosure,
             Proxy!CleanEndIsWhole
  <2>9. CASE /\ Emitted(a, to)
             /\ step.stops => /\ Proxy!Is(to, "committed")
                              /\ f = "error" \/ Proxy!Is(to, "tail") \/ ~Proxy!Is(to, "bad")
             /\ f = "meaningful" => Proxy!Is(to, "committed")
    <3>1. /\ Kept(to, a') /\ Verdict(to, a') /\ Answer(to, a') /\ a'.up = to.up
          /\ a'.held = to.held /\ a'.settled = to.settled /\ (MaxRuns(a') <=> MaxRuns(to))
          /\ \A e : Proxy!Is(a', e) <=> Proxy!Is(to, e)
      BY <2>4, <2>9, NoteDoes DEF Emitted, Kept, Flagged
    <3>2. /\ tr' = "done" => /\ Proxy!Is(a', "committed")
                             /\ Proxy!Is(a', "sawError") \/ Proxy!Is(a', "tail")
                                    \/ ~Proxy!Is(a', "bad")
          /\ tr' = "stalled" => Proxy!Is(a', "committed")
      BY <2>2, <2>5, <2>6, <2>9, <3>1 DEF Emitted
    <3>3. /\ Kept(a, a') /\ Verdict(a, a') /\ a'.ended = a.ended /\ a'.torn = a.torn
          /\ a'.up = a.up /\ a'.held = a.held /\ (MaxRuns(a') <=> MaxRuns(a))
          /\ \A e : Proxy!Is(a, e) => Proxy!Is(a', e)
          /\ \A e : e \notin {"bad", "committed", "tail", "heldStop"}
                 => (Proxy!Is(a', e) <=> Proxy!Is(a, e))
          /\ a.headers => a'.headers
          /\ \/ /\ a'.settled = a.settled /\ Answer(a, a')
                /\ Proxy!Is(a', "committed") <=> Proxy!Is(a, "committed")
             \/ /\ a'.headers /\ Proxy!Is(a', "committed")
                /\ a'.settled = IF a.settled = "pending" THEN "success" ELSE a.settled
      BY <2>9, <3>1 DEF Emitted, Kept, Verdict, Answer
    <3> QED
      BY <1>1, <1>2, <2>1, <2>3, <2>6, <3>2, <3>3
         DEF AttemptInv, VerdictInv, UpstreamInv, FacadeInv, TranslatorInv, RetryInv, ContentInv,
             Live, Kept, Verdict, Answer, Proxy!Streams, Proxy!RetryIsInvisible,
             Proxy!NoStaleClosure,
             Proxy!CleanEndIsWhole
  <2> QED
    BY <2>7, <2>8, <2>9
<1> QED
  BY <1>3, <1>4

\* Upstream's body has ended under an attempt that nothing else has ended, and the
\* attempt is judged: what may follow.
Unjudged(s) ==
  /\ Attempt(s) /\ s.outcome = "none" /\ ~Proxy!Is(s, "accounted") /\ s.credit = 0 /\ s.charge = 0
  /\ ~s.ended /\ ~Proxy!Is(s, "aborting") /\ s.settled # "retry"
  /\ Proxy!Is(s, "committed") => s.headers /\ ~s.held

Sentence(s, t) ==
  /\ t.outcome \in Proxy!Failures \cup {"completed"}
  /\ t.credit # 0 => t.outcome = "completed" /\ t.charge = 0
  /\ t.charge # 0 => t.outcome \in Proxy!Failures

Judged(s, t) ==
  /\ Kept(s, t) /\ t.up = s.up /\ t.torn = s.torn /\ Proxy!Is(t, "closed") /\ Sentence(s, t)
  /\ \A e : Proxy!Is(s, e) => Proxy!Is(t, e)
  /\ \A e : e \notin {"closed", "accounted", "first", "committed", "aborting"} =>
       (Proxy!Is(t, e) <=> Proxy!Is(s, e))
  /\ t.settled = "retry" => Answer(s, t) /\ ~t.headers /\ ~Proxy!Is(t, "aborting")
  /\ t.ended \/ Proxy!Is(t, "aborting") => t.headers
  /\ s.headers => t.headers
  /\ Proxy!Is(t, "committed") => t.headers /\ ~t.held /\ t.settled # "retry"
  /\ t.content = s.content \/ (t.headers /\ s.mode = "openai")
  /\ t.held => s.held
  /\ t.ended => ~t.held \/ s.held

LEMMA OpenAiEndDoes ==
  ASSUME NEW s, Unjudged(s), s.mode = "openai",
         Proxy!Is(s, "meaningful") => Proxy!Is(s, "committed")
  PROVE  LET t == Proxy!OpenAiEnd(s)
         IN /\ Judged(s, t)
            /\ t.ended => /\ ~t.held
                          /\ Proxy!Is(t, "meaningful") =>
                               Proxy!Is(t, "sawError") \/ (Proxy!Is(t, "sawDone")
                                   /\ ~Proxy!Is(t, "bad"))
<1> DEFINE y == Proxy!Disarm(Proxy!Set(s, {"closed"}), {"max"})
           t == Proxy!OpenAiEnd(s)
           fine == t.ended => /\ ~t.held
                              /\ Proxy!Is(t, "meaningful") =>
                                   Proxy!Is(t, "sawError") \/ (Proxy!Is(t, "sawDone")
                                       /\ ~Proxy!Is(t, "bad"))
<1> SUFFICES Judged(s, t) /\ fine
  OBVIOUS
<1>1. Attempt(s)
  BY DEF Unjudged
<1>2. t = IF ~Proxy!Is(s, "committed")
          THEN IF Proxy!Is(s, "sawDone") THEN Proxy!EndOnce(Proxy!Finish(Proxy!Commit(y,
          "benign"), "completed"))
               ELSE IF s.headers
               THEN Proxy!AbortCommitted(Proxy!Settle(Proxy!Finish([y EXCEPT !.held = FALSE],
                                                 "incomplete_stream"), "final"))
               ELSE Proxy!Settle(Proxy!Finish(y, "incomplete_stream"), "retry")
          ELSE IF Proxy!Is(s, "sawError") /\ ~Proxy!Is(s, "released")
               THEN Proxy!EndOnce(Proxy!Finish(y, "upstream_sse_error"))
          ELSE IF Proxy!Is(s, "sawDone")
               THEN IF Proxy!Is(s, "bad") THEN Proxy!AbortCommitted(Proxy!Finish(y, "completed"))
                    ELSE Proxy!EndOnce(Proxy!Finish(y, "completed"))
          ELSE IF Proxy!Is(s, "released") THEN Proxy!CutShort(s, Proxy!Finish(y,
          "incomplete_stream"))
          ELSE Proxy!CutShort(s, Proxy!Finish(Proxy!Penalise(y), "incomplete_stream"))
  BY DEF Proxy!OpenAiEnd
<1>3. /\ Kept(s, y) /\ Verdict(s, y) /\ Answer(s, y) /\ y.up = s.up /\ y.held = s.held
      /\ y.settled = s.settled /\ Flagged(s, y, {"closed"})
  BY <1>1, SetDoes, DisarmDoes DEF Kept, Verdict, Answer, Flagged
<1>4. Unjudged(y)
  BY <1>3 DEF Unjudged, Kept, Verdict, Answer, Flagged
<1> HIDE DEF y, t
<1>5. ASSUME NEW z, \/ z = Proxy!Finish(y, "completed")
                    \/ z = Proxy!Finish(y, "incomplete_stream")
                    \/ z = Proxy!Finish(y, "upstream_sse_error")
                    \/ z = Proxy!Finish(Proxy!Penalise(y), "incomplete_stream"),
             Proxy!Is(s, "committed")
      PROVE  /\ Kept(s, z) /\ Answer(s, z) /\ z.up = s.up /\ z.held = s.held
             /\ z.settled = s.settled /\ Sentence(s, z) /\ Flagged(s, z, {"closed", "accounted"})
  <2>1. CASE \E o \in {"completed", "incomplete_stream",
             "upstream_sse_error"} : z = Proxy!Finish(y, o)
    <3>1. PICK o \in {"completed", "incomplete_stream",
               "upstream_sse_error"} : z = Proxy!Finish(y, o)
      BY <2>1
    <3> QED
      BY <1>3, <1>4, <3>1, FinishDoes
         DEF Unjudged, Sentence, Kept, Verdict, Answer, Flagged, Proxy!Failures
  <2>2. CASE z = Proxy!Finish(Proxy!Penalise(y), "incomplete_stream")
    BY <1>3, <1>4, <2>2, PenaliseDoes, FinishDoes
       DEF Unjudged, Sentence, Kept, Verdict, Answer, Flagged, Proxy!Failures
  <2> QED
    BY <1>5, <2>1, <2>2
<1>6. CASE ~Proxy!Is(s, "committed") /\ Proxy!Is(s, "sawDone")
  <2> DEFINE c == Proxy!Commit(y, "benign")
             z == Proxy!Finish(c, "completed")
  <2>1. t = Proxy!EndOnce(z)
    BY <1>2, <1>6
  <2>a. /\ Kept(s, c) /\ Verdict(s, c) /\ c.up = s.up /\ c.torn = s.torn /\ c.ended = s.ended
        /\ c.headers /\ ~c.held /\ Flagged(s, c, {"closed", "committed"})
        /\ c.settled = IF s.settled = "pending" THEN "success" ELSE s.settled
    BY <1>3, CommitDoes DEF Kept, Verdict, Answer, Flagged
  <2>b. c.outcome = "none" /\ ~Proxy!Is(c, "accounted") /\ c.charge = 0 /\ c.settled # "retry"
    BY <1>4, <1>3, <2>a DEF Unjudged, Verdict, Flagged
  <2> HIDE DEF c
  <2>c. /\ Kept(s, z) /\ z.up = s.up /\ z.torn = s.torn /\ z.ended = s.ended /\ z.held = c.held
        /\ z.outcome = "completed" /\ z.charge = c.charge /\ z.settled = c.settled
        /\ Flagged(s, z, {"closed", "committed", "accounted"})
    BY <2>a, <2>b, FinishDoes DEF Kept, Answer, Flagged, Proxy!Failures
  <2> HIDE DEF z
  <2>d. /\ Kept(s, t) /\ t.up = s.up /\ t.torn = s.torn /\ t.ended /\ t.held = c.held
        /\ t.headers = (IF s.ended THEN z.headers ELSE TRUE)
        /\ t.outcome = "completed" /\ t.charge = c.charge /\ t.settled = c.settled
        /\ Flagged(s, t, {"closed", "committed", "accounted"})
    BY <2>1, <2>c, EndOnceDoes DEF Kept, Verdict, Flagged
  <2>2. /\ Kept(s, t) /\ t.up = s.up /\ t.torn = s.torn /\ Sentence(s, t) /\ t.headers /\ t.ended
        /\ ~t.held /\ t.settled # "retry"
        /\ Flagged(s, t, {"closed", "committed", "accounted"})
    BY <2>a, <2>b, <2>d DEF Unjudged, Sentence
  <2> QED
    BY <1>6, <2>2 DEF Judged, Flagged
<1>7. CASE ~Proxy!Is(s, "committed") /\ ~Proxy!Is(s, "sawDone") /\ s.headers
  <2> DEFINE h == [y EXCEPT !.held = FALSE]
  <2>1. t = Proxy!AbortCommitted(Proxy!Settle(Proxy!Finish(h, "incomplete_stream"), "final"))
    BY <1>2, <1>7
  <2>2. /\ Kept(s, h) /\ Verdict(s, h) /\ Answer(s, h) /\ h.up = s.up /\ ~h.held
        /\ h.settled = s.settled /\ Flagged(s, h, {"closed"})
    BY <1>3, HoldDoes DEF Kept, Verdict, Answer, Flagged
  <2>3. Unjudged(h)
    BY <1>4, <1>3, <2>2 DEF Unjudged, Kept, Verdict, Answer, Flagged
  <2> HIDE DEF h
  <2>4. /\ Kept(s, t) /\ t.up = s.up /\ Answer(s, t) /\ Sentence(s, t) /\ ~t.held
        /\ t.settled # "retry" /\ Flagged(s, t, {"closed", "aborting", "accounted"})
    BY <2>1, <2>2, <2>3, FinishDoes, SettleDoes, AbortDoes
       DEF Unjudged, Sentence, Kept, Verdict, Answer, Flagged, Proxy!Failures
  <2> QED
    BY <1>7, <2>4 DEF Judged, Answer, Flagged, Unjudged
<1>8. CASE ~Proxy!Is(s, "committed") /\ ~Proxy!Is(s, "sawDone") /\ ~s.headers
  <2>1. t = Proxy!Settle(Proxy!Finish(y, "incomplete_stream"), "retry")
    BY <1>2, <1>8
  <2>2. /\ Kept(s, t) /\ t.up = s.up /\ Answer(s, t) /\ Sentence(s, t) /\ t.held = s.held
        /\ Flagged(s, t, {"closed", "accounted"})
    BY <1>3, <1>4, <2>1, FinishDoes, SettleDoes
       DEF Unjudged, Sentence, Kept, Verdict, Answer, Flagged, Proxy!Failures
  <2> QED
    BY <1>8, <2>2 DEF Judged, Answer, Flagged, Unjudged
<1>9. ASSUME NEW z, Proxy!Is(s, "committed"),
             /\ Kept(s, z) /\ Answer(s, z) /\ z.up = s.up /\ z.held = s.held
             /\ z.settled = s.settled /\ Sentence(s, z) /\ Flagged(s, z, {"closed", "accounted"}),
             \/ t = Proxy!AbortCommitted(z)
             \/ /\ t = Proxy!EndOnce(z)
                /\ Proxy!Is(s, "meaningful") =>
                     Proxy!Is(s, "sawError") \/ (Proxy!Is(s, "sawDone") /\ ~Proxy!Is(s, "bad"))
      PROVE  Judged(s, t) /\ fine
  <2>1. CASE t = Proxy!AbortCommitted(z)
    <3>1. /\ Kept(s, t) /\ t.up = s.up /\ Answer(s, t) /\ Sentence(s, t) /\ t.held = s.held
          /\ t.settled = s.settled /\ Flagged(s, t, {"closed", "aborting", "accounted"})
      BY <1>9, <2>1, AbortDoes DEF Unjudged, Sentence, Kept, Verdict, Answer, Flagged
    <3> QED
      BY <1>9, <3>1 DEF Judged, Answer, Flagged, Unjudged
  <2>2. CASE /\ t = Proxy!EndOnce(z)
             /\ Proxy!Is(s, "meaningful") => Proxy!Is(s, "sawError")
                    \/ (Proxy!Is(s, "sawDone") /\ ~Proxy!Is(s, "bad"))
    <3>1. /\ Kept(s, t) /\ t.up = s.up /\ t.torn = s.torn /\ Sentence(s, t) /\ t.held = s.held
          /\ t.headers /\ t.content = s.content
          /\ t.settled = s.settled /\ Flagged(s, t, {"closed", "accounted"})
      BY <1>9, <2>2, EndOnceDoes DEF Unjudged, Sentence, Kept, Verdict, Answer, Flagged
    <3> QED
      BY <1>9, <2>2, <3>1 DEF Judged, Flagged, Unjudged
  <2> QED
    BY <1>9, <2>1, <2>2
<1>10. CASE Proxy!Is(s, "committed")
  <2>1. CASE Proxy!Is(s, "sawError") /\ ~Proxy!Is(s, "released")
    BY <1>2, <1>5, <1>9, <1>10, <2>1
  <2>2. CASE ~(Proxy!Is(s, "sawError") /\ ~Proxy!Is(s, "released")) /\ Proxy!Is(s, "sawDone")
    BY <1>2, <1>5, <1>9, <1>10, <2>2
  <2>3. CASE /\ ~(Proxy!Is(s, "sawError") /\ ~Proxy!Is(s, "released")) /\ ~Proxy!Is(s, "sawDone")
             /\ Proxy!Is(s, "released")
    BY <1>2, <1>5, <1>9, <1>10, <2>3 DEF Proxy!CutShort
  <2>4. CASE /\ ~(Proxy!Is(s, "sawError") /\ ~Proxy!Is(s, "released")) /\ ~Proxy!Is(s, "sawDone")
             /\ ~Proxy!Is(s, "released")
    BY <1>2, <1>5, <1>9, <1>10, <2>4 DEF Proxy!CutShort
  <2> QED
    BY <2>1, <2>2, <2>3, <2>4
<1> QED
  BY <1>6, <1>7, <1>8, <1>10

LEMMA RawEndDoes ==
  ASSUME NEW s, Unjudged(s)
  PROVE  Judged(s, Proxy!RawEnd(s))
<1> DEFINE y == Proxy!Disarm(Proxy!Set(s, {"closed", "first"}), {"max"})
           t == Proxy!RawEnd(s)
<1> SUFFICES Judged(s, t)
  OBVIOUS
<1>1. Attempt(s)
  BY DEF Unjudged
<1>2. t = IF ~Proxy!Is(s, "first")
          /\ ~s.headers THEN Proxy!Settle(Proxy!Finish(y, "incomplete_stream"), "retry")
          ELSE Proxy!EndOnce(Proxy!Finish(y, "completed"))
  BY DEF Proxy!RawEnd
<1>3. /\ Kept(s, y) /\ Verdict(s, y) /\ Answer(s, y) /\ y.up = s.up /\ y.held = s.held
      /\ y.settled = s.settled /\ Flagged(s, y, {"closed", "first"})
  BY <1>1, SetDoes, DisarmDoes DEF Kept, Verdict, Answer, Flagged
<1>4. y.outcome = "none" /\ ~Proxy!Is(y, "accounted") /\ y.charge = 0 /\ y.credit = 0
  BY <1>3 DEF Unjudged, Verdict, Flagged
<1> HIDE DEF y, t
<1>5. CASE ~Proxy!Is(s, "first") /\ ~s.headers
  <2>1. t = Proxy!Settle(Proxy!Finish(y, "incomplete_stream"), "retry")
    BY <1>2, <1>5
  <2>2. /\ Kept(s, t) /\ t.up = s.up /\ Answer(s, t) /\ Sentence(s, t) /\ t.held = s.held
        /\ Flagged(s, t, {"closed", "first", "accounted"})
    BY <1>3, <1>4, <2>1, FinishDoes, SettleDoes
       DEF Sentence, Kept, Verdict, Answer, Flagged, Proxy!Failures
  <2> QED
    BY <1>5, <2>2 DEF Judged, Answer, Flagged, Unjudged
<1>6. CASE ~(~Proxy!Is(s, "first") /\ ~s.headers)
  <2> DEFINE z == Proxy!Finish(y, "completed")
  <2>1. t = Proxy!EndOnce(z)
    BY <1>2, <1>6
  <2>2. /\ Kept(s, z) /\ z.up = s.up /\ Answer(s, z) /\ z.settled = s.settled /\ z.held = s.held
        /\ Sentence(s, z) /\ Flagged(s, z, {"closed", "first", "accounted"})
    BY <1>3, <1>4, FinishDoes DEF Sentence, Kept, Verdict, Answer, Flagged, Proxy!Failures
  <2> HIDE DEF z
  <2>3. /\ Kept(s, t) /\ t.up = s.up /\ t.ended /\ t.content = s.content /\ t.torn = s.torn
        /\ t.headers = (IF s.ended THEN z.headers ELSE TRUE) /\ t.settled = s.settled
        /\ t.held = s.held /\ Sentence(s, t) /\ Flagged(s, t, {"closed", "first", "accounted"})
    BY <2>1, <2>2, EndOnceDoes DEF Sentence, Kept, Verdict, Answer, Flagged
  <2> QED
    BY <2>3 DEF Judged, Flagged, Unjudged
<1> QED
  BY <1>5, <1>6

LEMMA FacadeEndDoes ==
  ASSUME NEW s, Unjudged(s), ~Proxy!Is(s, "first")
  PROVE  Judged(s, Proxy!FacadeEnd(s)) /\ Proxy!FacadeEnd(s).ended = s.ended
<1> DEFINE q == Proxy!Disarm(Proxy!Set(s, {"closed", "first"}), {"max"})
           y == Proxy!Finish(q, "incomplete_stream")
           t == Proxy!FacadeEnd(s)
<1> SUFFICES Judged(s, t) /\ t.ended = s.ended
  OBVIOUS
<1>1. Attempt(s)
  BY DEF Unjudged
<1>2. t = IF s.headers THEN y ELSE Proxy!Settle(y, "retry")
  BY DEF Proxy!FacadeEnd
<1>3. /\ Kept(s, q) /\ Verdict(s, q) /\ Answer(s, q) /\ q.up = s.up /\ q.held = s.held
      /\ q.settled = s.settled /\ Flagged(s, q, {"closed", "first"})
  BY <1>1, SetDoes, DisarmDoes DEF Kept, Verdict, Answer, Flagged
<1>4. q.outcome = "none" /\ ~Proxy!Is(q, "accounted") /\ q.charge = 0 /\ q.credit = 0
  BY <1>3 DEF Unjudged, Verdict, Flagged
<1> HIDE DEF q
<1>5. /\ Kept(s, y) /\ y.up = s.up /\ Answer(s, y) /\ y.settled = s.settled /\ y.held = s.held
      /\ Sentence(s, y) /\ Flagged(s, y, {"closed", "first", "accounted"})
  BY <1>3, <1>4, FinishDoes DEF Sentence, Kept, Verdict, Answer, Flagged, Proxy!Failures
<1> HIDE DEF y, t
<1>6. CASE s.headers
  <2>1. t = y
    BY <1>2, <1>6
  <2>2. /\ Kept(s, t) /\ t.up = s.up /\ Answer(s, t) /\ t.settled = s.settled
        /\ t.held = s.held /\ Sentence(s, t) /\ Flagged(s, t, {"closed", "first", "accounted"})
    BY <1>5, <2>1
  <2>3. Judged(s, t)
    BY <1>6, <2>2 DEF Judged, Answer, Flagged, Unjudged
  <2> QED
    BY <2>2, <2>3 DEF Answer
<1>7. CASE ~s.headers
  <2>1. t = Proxy!Settle(y, "retry")
    BY <1>2, <1>7
  <2>2. /\ Kept(s, t) /\ t.up = s.up /\ Answer(s, t) /\ t.held = s.held
        /\ Sentence(s, t) /\ Flagged(s, t, {"closed", "first", "accounted"})
    BY <1>5, <2>1, SettleDoes DEF Sentence, Kept, Verdict, Answer, Flagged
  <2> QED
    BY <1>7, <2>2 DEF Judged, Answer, Flagged, Unjudged
<1> QED
  BY <1>6, <1>7

LEMMA PlainEndDoes ==
  ASSUME NEW s, Unjudged(s)
  PROVE  Judged(s, Proxy!PlainEnd(s))
<1> DEFINE y == Proxy!End(Proxy!Set(s, {"closed"}))
           t == Proxy!PlainEnd(s)
<1> SUFFICES Judged(s, t)
  OBVIOUS
<1>1. Attempt(s)
  BY DEF Unjudged
<1>2. t = Proxy!Finish(y, "completed")
  BY DEF Proxy!PlainEnd
<1>3. /\ Kept(s, y) /\ Verdict(s, y) /\ y.headers /\ y.ended /\ y.content = s.content
      /\ y.torn = s.torn /\ y.up = s.up /\ y.held = s.held /\ y.settled = s.settled
      /\ Flagged(s, y, {"closed"})
  BY <1>1, SetDoes, EndDoes DEF Kept, Verdict, Answer, Flagged
<1>4. y.outcome = "none" /\ ~Proxy!Is(y, "accounted") /\ y.charge = 0 /\ y.credit = 0
  BY <1>3 DEF Unjudged, Verdict, Flagged
<1> HIDE DEF y, t
<1>5. /\ Kept(s, t) /\ t.headers /\ t.ended /\ t.content = s.content /\ t.torn = s.torn
      /\ t.up = s.up /\ t.held = s.held /\ t.settled = s.settled
      /\ Sentence(s, t) /\ Flagged(s, t, {"closed", "accounted"})
  BY <1>2, <1>3, <1>4, FinishDoes DEF Sentence, Kept, Answer, Flagged, Proxy!Failures
<1> QED
  BY <1>5 DEF Judged, Flagged, Unjudged

LEMMA PoorEndDoes ==
  ASSUME NEW s, Unjudged(s), ~s.headers
  PROVE  LET x == Proxy!Set(s, {"closed"})
         IN Judged(s, Proxy!Settle(Proxy!Finish(Proxy!Penalise(x), "upstream_stream_error"),
         "retry"))
<1> DEFINE x == Proxy!Set(s, {"closed"})
           t == Proxy!Settle(Proxy!Finish(Proxy!Penalise(x), "upstream_stream_error"), "retry")
<1> SUFFICES Judged(s, t)
  OBVIOUS
<1>1. Attempt(s)
  BY DEF Unjudged
<1>2. /\ Kept(s, x) /\ Verdict(s, x) /\ Answer(s, x) /\ x.up = s.up /\ x.held = s.held
      /\ x.settled = s.settled /\ Flagged(s, x, {"closed"})
  BY <1>1, SetDoes
<1>3. x.outcome = "none" /\ x.credit = 0
  BY <1>2 DEF Unjudged, Verdict
<1> HIDE DEF x
<1>4. /\ Kept(s, t) /\ Answer(s, t) /\ t.up = s.up /\ t.held = s.held
      /\ Sentence(s, t) /\ Flagged(s, t, {"closed", "accounted"})
  BY <1>2, <1>3, PenaliseDoes, FinishDoes, SettleDoes
     DEF Sentence, Kept, Answer, Verdict, Flagged, Proxy!Failures
<1> HIDE DEF t
<1> QED
  BY <1>4 DEF Judged, Answer, Flagged, Unjudged

LEMMA JudgedKeeps ==
  ASSUME AttemptInv, a.up = "body", ~Proxy!Is(a, "closed"), UNCHANGED <<queue, tr>>, NEW s,
         Kept(a, s), Verdict(a, s), Answer(a, s), s.up = "over", s.held = a.held,
         Flagged(a, s, {"whole"}), Judged(s, a'),
         a'.ended => /\ a.mode # "facade" /\ ~a'.held
                     /\ a.mode = "openai" /\ Proxy!Is(a', "meaningful") =>
                          Proxy!Is(a', "sawError") \/ (Proxy!Is(a', "sawDone")
                              /\ ~Proxy!Is(a', "bad"))
  PROVE  AttemptInv'
<1>1. /\ Kept(a, a') /\ a'.up = "over" /\ a'.torn = a.torn /\ Proxy!Is(a', "closed")
      /\ a'.held => a.held
      /\ \A e : Proxy!Is(a, e) => Proxy!Is(a', e)
      /\ \A e : e \notin {"closed", "accounted", "first", "committed", "aborting", "whole"} =>
           (Proxy!Is(a', e) <=> Proxy!Is(a, e))
      /\ Proxy!Is(a', "whole")
      /\ a'.settled = "retry" => ~a'.headers /\ ~a'.ended /\ ~Proxy!Is(a', "aborting")
      /\ a'.ended \/ Proxy!Is(a', "aborting") => a'.headers
      /\ a.headers => a'.headers
      /\ Proxy!Is(a', "committed") => a'.headers /\ ~a'.held /\ a'.settled # "retry"
      /\ a'.content = a.content \/ (a'.headers /\ a.mode = "openai")
  BY DEF Kept, Verdict, Answer, Flagged, Judged
<1>2. /\ a'.outcome \in Proxy!Failures \cup {"completed"}
      /\ a'.credit # 0 => a'.outcome = "completed" /\ a'.charge = 0
      /\ a'.charge # 0 => a'.outcome \in Proxy!Failures
  BY DEF Judged, Sentence
<1> QED
  BY <1>1, <1>2
     DEF AttemptInv, VerdictInv, UpstreamInv, FacadeInv, TranslatorInv, RetryInv, ContentInv,
         Live, Kept, Proxy!Failures, Proxy!Streams, Proxy!RetryIsInvisible, Proxy!NoStaleClosure,
         Proxy!CleanEndIsWhole

LEMMA UpstreamEndsKeeps ==
  ASSUME AttemptInv, NEW body \in {"good", "poor", "huge"}, Proxy!UpstreamEnds(body)
  PROVE  AttemptInv'
<1> DEFINE u == [a EXCEPT !.up = "over"]
           x == Proxy!Set(u, {"whole"})
<1>1. a.up = "body" /\ UNCHANGED <<queue, tr>>
  BY DEF Proxy!UpstreamEnds
<1>2. Attempt(a) /\ a.responded /\ ~a.erring /\ (Proxy!Is(a, "closed") \/ a.outcome = "none")
  BY <1>1 DEF AttemptInv, UpstreamInv, Live
<1>3. a' = IF Proxy!Is(a, "closed") THEN x
           ELSE CASE a.mode = "openai" -> Proxy!OpenAiEnd(x)
                  [] a.mode = "raw" -> Proxy!RawEnd(x)
                  [] a.mode = "facade" -> Proxy!FacadeEnd(x)
                  [] a.mode = "plain" -> Proxy!PlainEnd(x)
                  [] OTHER -> Proxy!TranslatedEnd(x, body)
  BY DEF Proxy!UpstreamEnds
<1>4. /\ Kept(a, u) /\ Verdict(a, u) /\ Answer(a, u) /\ Flagged(a, u, {})
      /\ (MaxRuns(u) <=> MaxRuns(a)) /\ u.up = "over" /\ u.held = a.held /\ u.settled = a.settled
  BY <1>2, UpDoes
<1> HIDE DEF u
<1>5. /\ Kept(a, x) /\ Verdict(a, x) /\ Answer(a, x) /\ Flagged(a, x, {"whole"})
      /\ (MaxRuns(x) <=> MaxRuns(a)) /\ x.up = "over" /\ x.held = a.held /\ x.settled = a.settled
  BY <1>4, SetDoes DEF Kept, Verdict, Answer, Flagged
<1> HIDE DEF x
<1>6. CASE Proxy!Is(a, "closed")
  <2>1. a' = x
    BY <1>3, <1>6
  <2>2. /\ Kept(a, a') /\ Verdict(a, a') /\ Answer(a, a') /\ Flagged(a, a', {"whole"})
        /\ (MaxRuns(a') <=> MaxRuns(a)) /\ a'.up = "over" /\ a'.held = a.held
        /\ a'.settled = a.settled
    BY <1>5, <2>1
  <2>3. VerdictInv' /\ UpstreamInv'
    BY <1>1, <1>2, <1>6, <2>2
       DEF AttemptInv, VerdictInv, UpstreamInv, Live, Kept, Verdict, Answer, Flagged
  <2>4. FacadeInv' /\ TranslatorInv'
    BY <1>1, <1>2, <1>6, <2>2
       DEF AttemptInv, UpstreamInv, FacadeInv, TranslatorInv, Live, Kept, Verdict, Answer, Flagged
  <2>5. RetryInv'
    BY <1>1, <1>2, <1>6, <2>2
       DEF AttemptInv, UpstreamInv, FacadeInv, TranslatorInv, RetryInv, ContentInv,
           Live, Kept, Verdict, Answer, Flagged, Proxy!RetryIsInvisible, Proxy!NoStaleClosure
  <2> QED
    BY <1>1, <1>2, <1>5, <1>6, <2>2, <2>3, <2>4, <2>5
       DEF AttemptInv, VerdictInv, UpstreamInv, FacadeInv, TranslatorInv, RetryInv, ContentInv,
           Live, Kept, Verdict, Answer, Flagged, Proxy!RetryIsInvisible, Proxy!NoStaleClosure,
           Proxy!CleanEndIsWhole
<1>7. CASE ~Proxy!Is(a, "closed")
  <2>0. /\ Attempt(x) /\ x.mode = a.mode /\ x.outcome = "none" /\ ~Proxy!Is(x, "accounted")
        /\ x.credit = 0 /\ x.charge = 0 /\ ~Proxy!Is(x, "aborting") /\ x.settled # "retry"
    BY <1>1, <1>2, <1>5, <1>7
       DEF AttemptInv, VerdictInv, UpstreamInv, RetryInv, Live, Kept, Verdict, Answer, Flagged
  <2>1. /\ ~x.ended /\ (Proxy!Is(x, "committed") => x.headers /\ ~x.held)
        /\ a.mode = "translated" => ~x.headers
    BY <1>1, <1>2, <1>5 DEF AttemptInv, UpstreamInv, FacadeInv, RetryInv, ContentInv, Live, Answer,
       Flagged
  <2>2. Unjudged(x)
    BY <2>0, <2>1 DEF Unjudged
  <2>3. CASE a.mode = "openai"
    <3>1. a' = Proxy!OpenAiEnd(x)
      BY <1>3, <1>7, <2>3
    <3>2. Proxy!Is(x, "meaningful") => Proxy!Is(x, "committed")
      BY <1>5, <2>3 DEF AttemptInv, ContentInv, Flagged
    <3>3. /\ Judged(x, a')
          /\ a'.ended => /\ ~a'.held
                         /\ Proxy!Is(a', "meaningful") =>
                              Proxy!Is(a', "sawError") \/ (Proxy!Is(a', "sawDone")
                                  /\ ~Proxy!Is(a', "bad"))
      BY <2>0, <2>2, <2>3, <3>1, <3>2, OpenAiEndDoes
    <3> QED
      BY <1>1, <1>5, <1>7, <2>3, <3>3, JudgedKeeps
  <2>4. CASE a.mode = "raw"
    <3>1. a' = Proxy!RawEnd(x)
      BY <1>3, <1>7, <2>4
    <3>2. Judged(x, a')
      BY <2>2, <3>1, RawEndDoes
    <3>3. ~a'.held
      BY <1>5, <2>4, <3>2 DEF Judged, AttemptInv, ContentInv
    <3> QED
      BY <1>1, <1>5, <1>7, <2>4, <3>2, <3>3, JudgedKeeps
  <2>5. CASE a.mode = "plain"
    <3>1. a' = Proxy!PlainEnd(x)
      BY <1>3, <1>7, <2>5
    <3>2. Judged(x, a')
      BY <2>2, <3>1, PlainEndDoes
    <3>3. ~a'.held
      BY <1>5, <2>5, <3>2 DEF Judged, AttemptInv, ContentInv
    <3> QED
      BY <1>1, <1>5, <1>7, <2>5, <3>2, <3>3, JudgedKeeps
  <2>6. CASE a.mode = "facade" /\ ~Proxy!Is(a, "first")
    <3>1. a' = Proxy!FacadeEnd(x)
      BY <1>3, <1>7, <2>6
    <3>2. ~Proxy!Is(x, "first")
      BY <1>5, <2>6 DEF Flagged
    <3>3. Judged(x, a') /\ a'.ended = x.ended
      BY <2>2, <3>1, <3>2, FacadeEndDoes
    <3> QED
      BY <1>1, <1>5, <1>7, <2>1, <2>6, <3>3, JudgedKeeps
  <2>7. CASE a.mode = "facade" /\ Proxy!Is(a, "first")
    <3>1. a' = Proxy!Set(x, {"wake", "ending"})
      <4>1. Proxy!Is(x, "first")
        BY <1>5, <2>7 DEF Flagged
      <4> QED
        BY <1>3, <1>7, <2>7, <4>1 DEF Proxy!FacadeEnd
    <3>2. /\ Kept(a, a') /\ Verdict(a, a') /\ Answer(a, a') /\ a'.up = "over" /\ a'.held = a.held
          /\ a'.settled = a.settled /\ (MaxRuns(a') <=> MaxRuns(a))
          /\ Flagged(a, a', {"whole", "wake", "ending"})
      BY <1>5, <3>1, SetDoes DEF Kept, Verdict, Answer, Flagged
    <3> QED
      BY <1>1, <1>2, <1>7, <2>7, <3>2
         DEF AttemptInv, VerdictInv, UpstreamInv, FacadeInv, TranslatorInv, RetryInv, ContentInv,
             Live, Kept, Verdict, Answer, Flagged, Proxy!RetryIsInvisible, Proxy!NoStaleClosure,
             Proxy!CleanEndIsWhole
  <2>8. CASE a.mode = "translated"
    <3>0. a' = Proxy!TranslatedEnd(x, body)
      BY <1>3, <1>7, <2>8
    <3>1. CASE body = "good"
      <4>1. a' = Proxy!End(x)
        BY <3>0, <3>1 DEF Proxy!TranslatedEnd
      <4>2. /\ Kept(a, a') /\ Verdict(a, a') /\ a'.headers /\ a'.ended /\ a'.content = a.content
            /\ a'.torn = a.torn /\ a'.up = "over" /\ a'.held = a.held /\ a'.settled = a.settled
            /\ (MaxRuns(a') <=> MaxRuns(a)) /\ Flagged(a, a', {"whole"})
        BY <1>5, <4>1, EndDoes DEF Kept, Verdict, Answer, Flagged
      <4> QED
        BY <1>1, <1>2, <1>7, <2>8, <4>2
           DEF AttemptInv, VerdictInv, UpstreamInv, FacadeInv, TranslatorInv, RetryInv, ContentInv,
               Live, Kept, Verdict, Flagged, Proxy!RetryIsInvisible, Proxy!NoStaleClosure,
               Proxy!CleanEndIsWhole
    <3>2. CASE body = "poor"
      <4>1. a' = Proxy!Settle(Proxy!Finish(Proxy!Penalise(Proxy!Set(x, {"closed"})),
            "upstream_stream_error"), "retry")
        BY <3>0, <3>2 DEF Proxy!TranslatedEnd
      <4>2. Judged(x, a')
        BY <2>1, <2>2, <2>8, <4>1, PoorEndDoes
      <4>3. ~a'.held
        BY <1>5, <2>8, <4>2 DEF Judged, AttemptInv, ContentInv
      <4> QED
        BY <1>1, <1>5, <1>7, <2>8, <4>2, <4>3, JudgedKeeps
    <3>3. CASE body = "huge"
      <4> DEFINE y == IF x.headers THEN x ELSE Proxy!End(x)
      <4>1. a' = Proxy!Finish(y, "upstream_stream_error")
        BY <3>0, <3>3 DEF Proxy!TranslatedEnd
      <4>2. /\ Kept(a, y) /\ Verdict(a, y) /\ y.content = a.content /\ y.torn = a.torn
            /\ y.up = "over" /\ y.held = a.held /\ y.settled = a.settled
            /\ (MaxRuns(y) <=> MaxRuns(a)) /\ Flagged(a, y, {"whole"})
            /\ (a.ended => y.ended) /\ (y.ended \/ y.headers => y.headers)
        BY <1>5, EndDoes DEF Kept, Verdict, Answer, Flagged
      <4> HIDE DEF y
      <4>a. a.outcome = "none" /\ y.outcome = "none" /\ Attempt(y)
        BY <1>2, <1>7, <4>2 DEF Kept, Verdict
      <4>3. /\ Kept(a, a') /\ a'.content = a.content /\ a'.torn = a.torn /\ a'.up = "over"
            /\ a'.held = a.held /\ a'.settled = a.settled /\ a'.credit = a.credit
            /\ a'.outcome = "upstream_stream_error" /\ a'.ended = y.ended
            /\ a'.headers = y.headers /\ (MaxRuns(a') <=> MaxRuns(a))
            /\ Flagged(a, a', {"whole", "accounted"})
        BY <4>a, <4>1, <4>2, FinishDoes DEF Kept, Verdict, Answer, Flagged
      <4> QED
        BY <1>1, <1>2, <1>7, <2>8, <4>2, <4>3
           DEF AttemptInv, VerdictInv, UpstreamInv, FacadeInv, TranslatorInv, RetryInv, ContentInv,
               Live, Kept, Flagged, Proxy!Failures, Proxy!RetryIsInvisible, Proxy!NoStaleClosure,
               Proxy!CleanEndIsWhole
    <3> QED
      BY <3>1, <3>2, <3>3
  <2> QED
    BY <1>2, <2>3, <2>4, <2>5, <2>6, <2>7, <2>8 DEF Attempt, Proxy!Modes
<1> QED
  BY <1>6, <1>7

\* The end of a translated stream: y is judged and closed, then ended or torn down.

LEMMA FacadeClosedKeeps ==
  ASSUME AttemptInv, a.mode = "facade", a.up = "over", tr = "done", a.settled # "retry",
         a.headers, UNCHANGED <<queue, tr>>, NEW y,
         Kept(a, y), Answer(a, y), y.up = "over", y.held = a.held, y.settled = a.settled,
         Sentence(a, y) \/ (Verdict(a, y)
             /\ (Proxy!Is(y, "accounted") <=> Proxy!Is(a, "accounted"))),
         Proxy!Is(y, "closed"),
         \A e : e \notin {"closed", "accounted", "ending", "finishing"}
             => (Proxy!Is(y, e) <=> Proxy!Is(a, e)),
         \A e \in {"ending", "finishing"} : Proxy!Is(y, e) => Proxy!Is(a, e),
         a' = y \/ a' = Proxy!AbortCommitted(y) \/ a' = Proxy!EndOnce(y),
         a' = Proxy!EndOnce(y) => \/ a.ended \/ a.torn
                                  \/ /\ Proxy!Is(a, "whole") \/ Proxy!Is(a, "sawDone")
                                     /\ Proxy!Is(a, "sawError") \/ (Proxy!Is(a, "sawDone")
                                            /\ ~Proxy!Is(a, "bad"))
  PROVE  AttemptInv'
<1>1. /\ Kept(a, a') /\ a'.up = "over" /\ a'.held = a.held /\ a'.settled = a.settled
      /\ a'.content = a.content /\ a'.torn = a.torn /\ Verdict(y, a')
      /\ \A e : e # "aborting" => (Proxy!Is(a', e) <=> Proxy!Is(y, e))
      /\ a'.headers = y.headers \/ a'.headers = TRUE
      /\ \/ a'.ended = a.ended
         \/ /\ a'.ended
            /\ \/ a.ended \/ a.torn
               \/ /\ Proxy!Is(a, "whole") \/ Proxy!Is(a, "sawDone")
                  /\ Proxy!Is(a, "sawError") \/ (Proxy!Is(a, "sawDone") /\ ~Proxy!Is(a, "bad"))
  <2>1. CASE a' = y
    BY <2>1 DEF Kept, Answer, Verdict
  <2>2. CASE a' = Proxy!AbortCommitted(y)
    <3>1. /\ Kept(y, a') /\ Verdict(y, a') /\ Answer(y, a') /\ a'.up = y.up /\ a'.held = y.held
          /\ a'.settled = y.settled
          /\ \A e : Proxy!Is(a', e) <=> Proxy!Is(y, e) \/ (e = "aborting" /\ ~y.ended)
      BY <2>2, AbortDoes DEF Kept
    <3> QED
      BY <3>1 DEF Kept, Answer, Verdict
  <2>3. CASE a' = Proxy!EndOnce(y)
    <3>1. /\ Kept(y, a') /\ Verdict(y, a') /\ a'.content = y.content /\ a'.torn = y.torn
          /\ a'.headers = (IF y.ended THEN y.headers ELSE TRUE) /\ a'.ended
          /\ a'.up = y.up /\ a'.held = y.held /\ a'.settled = y.settled
          /\ \A e : Proxy!Is(a', e) <=> Proxy!Is(y, e)
      BY <2>3, EndOnceDoes DEF Kept, Flagged
    <3> QED
      BY <2>3, <3>1 DEF Kept, Answer, Verdict
  <2> QED
    BY <2>1, <2>2, <2>3
<1>2. a'.headers
  BY <1>1 DEF Answer
<1>3. VerdictInv' /\ UpstreamInv'
  BY <1>1 DEF AttemptInv, VerdictInv, UpstreamInv, FacadeInv, Live, Kept, Verdict, Sentence,
     Proxy!Failures
<1>4. FacadeInv' /\ TranslatorInv'
  BY <1>1, <1>2 DEF AttemptInv, FacadeInv, TranslatorInv, Kept
<1>5. RetryInv'
  BY <1>1, <1>2 DEF AttemptInv, RetryInv, Live, Kept, Verdict, Sentence, Proxy!Failures,
     Proxy!RetryIsInvisible, Proxy!NoStaleClosure
<1>6. ContentInv'
  BY <1>1, <1>2 DEF AttemptInv, ContentInv, Kept, Proxy!CleanEndIsWhole
<1> QED
  BY <1>1, <1>3, <1>4, <1>5, <1>6 DEF AttemptInv, Kept

LEMMA FacadeFinishesKeeps == ASSUME AttemptInv, Proxy!FacadeFinishes PROVE AttemptInv'
<1> DEFINE u == [a EXCEPT !.is = a.is \ {"ending"}]
           x == Proxy!Disarm(Proxy!Set(u, {"closed"}), {"max"})
           cut(y) == IF Proxy!Is(a, "tail") /\ ~y.ended
               /\ ~y.torn THEN Proxy!AbortCommitted(y) ELSE Proxy!EndOnce(y)
<1>1. Proxy!Is(a, "ending") /\ (tr = "done" \/ tr = "off") /\ UNCHANGED <<queue, tr>>
  BY DEF Proxy!FacadeFinishes
<1>2. a' = IF Proxy!Is(a, "closed") THEN u
           ELSE IF Proxy!Is(a, "sawError") THEN cut(Proxy!Finish(Proxy!Penalise(x),
           "upstream_sse_error"))
           ELSE IF Proxy!Is(a, "sawDone") THEN cut(Proxy!Finish(x, "completed"))
           ELSE LET y == Proxy!Finish(Proxy!Penalise(x), "incomplete_stream")
                IN IF y.ended THEN cut(y) ELSE Proxy!AbortCommitted(y)
  BY DEF Proxy!FacadeFinishes
<1>3. /\ Attempt(a) /\ a.mode = "facade" /\ a.up = "over" /\ tr = "done" /\ Proxy!Is(a, "whole")
      /\ Proxy!Is(a, "closed") \/ (a.outcome = "none" /\ ~Proxy!Is(a, "deadline"))
  BY <1>1 DEF AttemptInv, FacadeInv
<1>4. /\ Kept(a, u) /\ Verdict(a, u) /\ Answer(a, u) /\ u.up = a.up /\ u.held = a.held
      /\ u.settled = a.settled /\ (MaxRuns(u) <=> MaxRuns(a))
      /\ \A e : Proxy!Is(u, e) <=> Proxy!Is(a, e) /\ e # "ending"
  BY <1>3, ClearDoes
<1> HIDE DEF u
<1>5. CASE Proxy!Is(a, "closed")
  <2>1. a' = u
    BY <1>2, <1>5
  <2> QED
    BY <1>1, <1>3, <1>4, <1>5, <2>1
       DEF AttemptInv, VerdictInv, UpstreamInv, FacadeInv, TranslatorInv, RetryInv, ContentInv,
           Live, Kept, Verdict, Answer, Proxy!RetryIsInvisible, Proxy!NoStaleClosure,
           Proxy!CleanEndIsWhole
<1>6. CASE ~Proxy!Is(a, "closed")
  <2>1. /\ a.outcome = "none" /\ ~Proxy!Is(a, "accounted") /\ a.credit = 0 /\ a.charge = 0
        /\ a.settled # "retry" /\ a.headers
        /\ a.ended \/ Proxy!Is(a, "sawError") \/ Proxy!Is(a, "tail") \/ ~Proxy!Is(a, "bad")
    BY <1>1, <1>3, <1>6
       DEF AttemptInv, VerdictInv, UpstreamInv, FacadeInv, TranslatorInv, RetryInv
  <2>2. /\ Kept(a, x) /\ Verdict(a, x) /\ Answer(a, x) /\ x.up = "over" /\ x.held = a.held
        /\ x.settled = a.settled
        /\ \A e : Proxy!Is(x, e) <=> (Proxy!Is(a, e) /\ e # "ending") \/ e = "closed"
    BY <1>3, <1>4, SetDoes, DisarmDoes DEF Kept, Verdict, Answer, Flagged
  <2> HIDE DEF x
  <2>3. ASSUME NEW y, Kept(a, y), Answer(a, y), y.up = "over", y.held = a.held,
               y.settled = a.settled, Sentence(a, y),
               \A e : Proxy!Is(y, e) <=> (Proxy!Is(a, e)
                   /\ e # "ending") \/ e \in {"closed", "accounted"},
               \/ a' = Proxy!AbortCommitted(y)
               \/ a' = cut(y) /\ (a.ended \/ Proxy!Is(a, "sawError") \/ Proxy!Is(a, "sawDone"))
        PROVE  AttemptInv'
    <3>1. CASE a' = Proxy!AbortCommitted(y) /\ ~y.ended
      <4>1. a' # Proxy!EndOnce(y)
        <5>1. Proxy!EndOnce(y).ended /\ a'.ended = y.ended
          BY <2>3, <3>1, EndOnceDoes, AbortDoes DEF Kept, Answer
        <5> QED
          BY <3>1, <5>1
      <4> QED
        BY <1>1, <1>3, <2>1, <2>3, <3>1, <4>1, FacadeClosedKeeps
    <3>2. CASE a' = Proxy!AbortCommitted(y) /\ y.ended
      <4>1. a.ended
        BY <2>3, <3>2 DEF Answer
      <4> QED
        BY <1>1, <1>3, <2>1, <2>3, <3>2, <4>1, FacadeClosedKeeps
    <3>3. CASE a' = cut(y) /\ (a.ended \/ Proxy!Is(a, "sawError") \/ Proxy!Is(a, "sawDone"))
      <4>1. CASE Proxy!Is(a, "tail") /\ ~y.ended /\ ~y.torn
        BY <3>1, <3>3, <4>1
      <4>2. CASE ~(Proxy!Is(a, "tail") /\ ~y.ended /\ ~y.torn)
        <5>1. a' = Proxy!EndOnce(y)
          BY <3>3, <4>2
        <5>2. ~Proxy!Is(a, "tail") \/ a.ended \/ a.torn
          BY <2>3, <4>2 DEF Answer
        <5> QED
          BY <1>1, <1>3, <2>1, <2>3, <3>3, <5>1, <5>2, FacadeClosedKeeps
      <4> QED
        BY <4>1, <4>2
    <3> QED
      BY <2>3, <3>1, <3>2, <3>3
  <2>4. ASSUME NEW y, \/ y = Proxy!Finish(x, "completed")
                      \/ y = Proxy!Finish(Proxy!Penalise(x), "upstream_sse_error")
                      \/ y = Proxy!Finish(Proxy!Penalise(x), "incomplete_stream")
        PROVE  /\ Kept(a, y) /\ Answer(a, y) /\ y.up = "over" /\ y.held = a.held
               /\ y.settled = a.settled /\ Sentence(a, y)
               /\ \A e : Proxy!Is(y, e) <=> (Proxy!Is(a, e)
                      /\ e # "ending") \/ e \in {"closed", "accounted"}
    <3>0. /\ x.outcome = "none" /\ ~Proxy!Is(x, "accounted") /\ x.credit = 0 /\ x.charge = 0
          /\ Attempt(x)
      BY <2>1, <2>2 DEF Kept, Verdict
    <3>1. CASE y = Proxy!Finish(x, "completed")
      BY <2>2, <3>0, <3>1, FinishDoes DEF Sentence, Kept, Verdict, Answer, Proxy!Failures
    <3>2. ASSUME NEW o \in {"upstream_sse_error", "incomplete_stream"},
                 y = Proxy!Finish(Proxy!Penalise(x), o)
          PROVE  /\ Kept(a, y) /\ Answer(a, y) /\ y.up = "over" /\ y.held = a.held
                 /\ y.settled = a.settled /\ Sentence(a, y)
                 /\ \A e : Proxy!Is(y, e) <=> (Proxy!Is(a, e)
                        /\ e # "ending") \/ e \in {"closed", "accounted"}
      BY <2>2, <3>0, <3>2, PenaliseDoes, FinishDoes
         DEF Sentence, Kept, Verdict, Answer, Flagged, Proxy!Failures
    <3> QED
      BY <2>4, <3>1, <3>2
  <2>5. CASE Proxy!Is(a, "sawError")
    <3>1. a' = cut(Proxy!Finish(Proxy!Penalise(x), "upstream_sse_error"))
      BY <1>2, <1>6, <2>5
    <3> QED
      BY <2>3, <2>4, <2>5, <3>1
  <2>6. CASE ~Proxy!Is(a, "sawError") /\ Proxy!Is(a, "sawDone")
    <3>1. a' = cut(Proxy!Finish(x, "completed"))
      BY <1>2, <1>6, <2>6
    <3> QED
      BY <2>3, <2>4, <2>6, <3>1
  <2>7. CASE ~Proxy!Is(a, "sawError") /\ ~Proxy!Is(a, "sawDone")
    <3> DEFINE y == Proxy!Finish(Proxy!Penalise(x), "incomplete_stream")
    <3>1. a' = IF y.ended THEN cut(y) ELSE Proxy!AbortCommitted(y)
      BY <1>2, <1>6, <2>7
    <3>2. /\ Kept(a, y) /\ Answer(a, y) /\ y.up = "over" /\ y.held = a.held
          /\ y.settled = a.settled /\ Sentence(a, y)
          /\ \A e : Proxy!Is(y, e) <=> (Proxy!Is(a, e)
                 /\ e # "ending") \/ e \in {"closed", "accounted"}
      BY <2>4
    <3> HIDE DEF y
    <3>3. CASE y.ended
      <4>1. a.ended
        BY <3>2, <3>3 DEF Answer
      <4> QED
        BY <2>3, <3>1, <3>2, <3>3, <4>1
    <3>4. CASE ~y.ended
      BY <2>3, <3>1, <3>2, <3>4
    <3> QED
      BY <3>3, <3>4
  <2> QED
    BY <2>5, <2>6, <2>7
<1> QED
  BY <1>5, <1>6

LEMMA FailureFinishesKeeps == ASSUME AttemptInv, Proxy!FailureFinishes PROVE AttemptInv'
<1> DEFINE x == [a EXCEPT !.is = a.is \ {"finishing"}]
           whole == Proxy!Is(a, "clean") /\ ~Proxy!Is(a, "tail")
           y == Proxy!Set(IF ~Proxy!Is(a, "clean") \/ a.outcome # "none" THEN x
                    ELSE IF whole THEN Proxy!Finish(x, "completed")
                    ELSE Proxy!Finish(Proxy!Penalise(x), "upstream_stream_error"), {"closed"})
<1>1. Proxy!Is(a, "finishing") /\ tr = "done" /\ UNCHANGED <<queue, tr>>
  BY DEF Proxy!FailureFinishes
<1>2. a' = IF Proxy!Is(a, "closed") THEN x
           ELSE IF whole THEN (IF a.torn THEN y ELSE Proxy!EndOnce(y))
           ELSE Proxy!AbortCommitted(y)
  BY DEF Proxy!FailureFinishes
<1>3. /\ Attempt(a) /\ a.mode = "facade" /\ a.up = "over" /\ a.headers /\ a.settled # "retry"
      /\ Proxy!Is(a, "committed") /\ ~Proxy!Is(a, "deadline")
      /\ Proxy!Is(a, "clean") => Proxy!Is(a, "sawDone")
      /\ Proxy!Is(a, "closed") \/ a.ended \/ Proxy!Is(a, "sawError") \/ Proxy!Is(a, "tail")
             \/ ~Proxy!Is(a, "bad")
  BY <1>1 DEF AttemptInv, FacadeInv, TranslatorInv
<1>4. /\ Kept(a, x) /\ Verdict(a, x) /\ Answer(a, x) /\ x.up = a.up /\ x.held = a.held
      /\ x.settled = a.settled /\ (MaxRuns(x) <=> MaxRuns(a))
      /\ \A e : Proxy!Is(x, e) <=> Proxy!Is(a, e) /\ e # "finishing"
  BY <1>3, ClearDoes
<1> HIDE DEF x
<1>5. CASE Proxy!Is(a, "closed")
  <2>1. a' = x
    BY <1>2, <1>5
  <2> QED
    BY <1>1, <1>3, <1>4, <1>5, <2>1
       DEF AttemptInv, VerdictInv, UpstreamInv, FacadeInv, TranslatorInv, RetryInv, ContentInv,
           Live, Kept, Verdict, Answer, Proxy!RetryIsInvisible, Proxy!NoStaleClosure,
           Proxy!CleanEndIsWhole
<1>6. CASE ~Proxy!Is(a, "closed")
  <2> DEFINE z == IF ~Proxy!Is(a, "clean") \/ a.outcome # "none" THEN x
                  ELSE IF whole THEN Proxy!Finish(x, "completed")
                  ELSE Proxy!Finish(Proxy!Penalise(x), "upstream_stream_error")
  <2>1. /\ Kept(a, z) /\ Answer(a, z) /\ z.up = "over" /\ z.held = a.held
        /\ z.settled = a.settled
        /\ Sentence(a, z) \/ (Verdict(a, z)
               /\ (Proxy!Is(z, "accounted") <=> Proxy!Is(a, "accounted")))
        /\ \A e : e \notin {"accounted", "finishing"} => (Proxy!Is(z, e) <=> Proxy!Is(a, e))
        /\ Proxy!Is(z, "finishing") => Proxy!Is(a, "finishing")
    <3>1. CASE ~Proxy!Is(a, "clean") \/ a.outcome # "none"
      <4>1. z = x
        BY <3>1
      <4> HIDE DEF z
      <4> QED
        BY <1>3, <1>4, <4>1
    <3>2. CASE ~(~Proxy!Is(a, "clean") \/ a.outcome # "none")
      <4>1. /\ x.outcome = "none" /\ ~Proxy!Is(x, "accounted") /\ x.credit = 0 /\ x.charge = 0
            /\ Attempt(x) /\ x.up = "over"
        BY <1>3, <1>4, <3>2 DEF AttemptInv, VerdictInv, Kept, Verdict
      <4>2. CASE whole
        <5>1. z = Proxy!Finish(x, "completed")
          BY <3>2, <4>2
        <5> HIDE DEF z
        <5> QED
          BY <1>4, <4>1, <5>1, FinishDoes DEF Sentence, Kept, Verdict, Answer, Proxy!Failures
      <4>3. CASE ~whole
        <5>1. z = Proxy!Finish(Proxy!Penalise(x), "upstream_stream_error")
          BY <3>2, <4>3
        <5> HIDE DEF z
        <5> QED
          BY <1>4, <4>1, <5>1, PenaliseDoes, FinishDoes
             DEF Sentence, Kept, Verdict, Answer, Flagged, Proxy!Failures
      <4> QED
        BY <4>2, <4>3
    <3> QED
      BY <3>1, <3>2
  <2>2. y = Proxy!Set(z, {"closed"})
    OBVIOUS
  <2> HIDE DEF z, y
  <2>3. /\ Kept(a, y) /\ Answer(a, y) /\ y.up = "over" /\ y.held = a.held
        /\ y.settled = a.settled /\ Proxy!Is(y, "closed")
        /\ Sentence(a, y) \/ (Verdict(a, y)
               /\ (Proxy!Is(y, "accounted") <=> Proxy!Is(a, "accounted")))
        /\ \A e : e \notin {"closed", "accounted", "ending", "finishing"}
               => (Proxy!Is(y, e) <=> Proxy!Is(a, e))
        /\ \A e \in {"ending", "finishing"} : Proxy!Is(y, e) => Proxy!Is(a, e)
    BY <2>1, <2>2, SetDoes DEF Sentence, Kept, Verdict, Answer, Flagged
  <2>4. CASE whole /\ a.torn
    <3>1. a' = y
      BY <1>2, <1>6, <2>4
    <3> QED
      BY <1>1, <1>3, <2>3, <2>4, <3>1, FacadeClosedKeeps
  <2>5. CASE whole /\ ~a.torn
    <3>1. a' = Proxy!EndOnce(y)
      BY <1>2, <1>6, <2>5
    <3> QED
      BY <1>1, <1>3, <1>6, <2>3, <2>5, <3>1, FacadeClosedKeeps
  <2>6. CASE ~whole
    <3>1. a' = Proxy!AbortCommitted(y)
      BY <1>2, <1>6, <2>6
    <3>2. a' = Proxy!EndOnce(y) => a.ended
      <4>1. Proxy!EndOnce(y).ended /\ Proxy!AbortCommitted(y).ended = y.ended
        BY <2>3, EndOnceDoes, AbortDoes DEF Kept, Answer
      <4> QED
        BY <2>3, <3>1, <4>1 DEF Answer
    <3> QED
      BY <1>1, <1>3, <2>3, <3>1, <3>2, FacadeClosedKeeps
  <2> QED
    BY <2>4, <2>5, <2>6
<1> QED
  BY <1>5, <1>6

\* Upstream's connection breaks: what each handler may do to the attempt.
Breaks(s, t) ==
  /\ Kept(s, t) /\ t.held = s.held /\ t.content = s.content /\ (MaxRuns(t) => MaxRuns(s))
  /\ \A e : Proxy!Is(s, e) => Proxy!Is(t, e)
  /\ \A e : e \notin {"closed", "accounted", "intentional", "wake", "finishing", "clean",
     "aborting"} =>
       (Proxy!Is(t, e) <=> Proxy!Is(s, e))
  /\ Proxy!Is(t, "finishing") => Proxy!Is(s, "finishing") \/ (s.mode = "facade"
         /\ Proxy!Is(s, "committed"))
  /\ Proxy!Is(t, "clean") => Proxy!Is(s, "clean") \/ Proxy!Is(s, "sawDone")
  /\ \/ Verdict(s, t) /\ (Proxy!Is(t, "accounted") <=> Proxy!Is(s, "accounted"))
     \/ t.outcome = "upstream_stream_error" /\ t.credit = 0
     \/ t.outcome = "completed" /\ t.charge = 0 /\ ~s.erring /\ s.mode = "openai"
  /\ \/ t.settled = s.settled
     \/ s.settled = "pending" /\ t.settled = "retry" /\ Proxy!Is(t, "closed") /\ ~s.headers
        /\ ~s.torn /\ Answer(s, t) /\ (Proxy!Is(t, "aborting") <=> Proxy!Is(s, "aborting"))
  /\ \/ Answer(s, t)
     \/ /\ t.settled # "retry"
        /\ t.headers = s.headers \/ t.headers = TRUE
        /\ t.torn = s.torn \/ t.torn = TRUE
        /\ \/ t.ended = s.ended
           \/ /\ t.ended /\ t.headers
              /\ s.mode = "openai" /\ Proxy!Is(s, "sawDone") /\ ~Proxy!Is(s, "bad") /\ ~s.held
  /\ Proxy!Is(t, "aborting") => Proxy!Is(s, "aborting") \/ (t.settled # "retry" /\ t.headers)

LEMMA BreakKeeps ==
  ASSUME AttemptInv, a.responded, a.up \in {"error", "body", "dying"}, UNCHANGED <<queue, tr>>,
         NEW t, Breaks(a, t), a' = [t EXCEPT !.up = "over"]
  PROVE  AttemptInv'
<1>1. Attempt(a) /\ Attempt(t)
  BY DEF AttemptInv, Breaks, Kept
<1>2. /\ Kept(t, a') /\ Verdict(t, a') /\ Answer(t, a') /\ a'.up = "over" /\ a'.held = t.held
      /\ a'.settled = t.settled /\ (MaxRuns(a') <=> MaxRuns(t)) /\ Flagged(t, a', {})
  BY <1>1, UpDoes
<1>3. Breaks(a, a')
  <2>1. /\ Kept(a, a') /\ a'.held = a.held /\ a'.content = a.content /\ (MaxRuns(a') => MaxRuns(a))
        /\ \A e : Proxy!Is(a', e) <=> Proxy!Is(t, e)
    BY <1>2 DEF Breaks, Kept, Answer, Flagged
  <2>2. Answer(a, t) <=> Answer(a, a')
    BY <1>2 DEF Answer
  <2>3. /\ a'.headers = t.headers /\ a'.ended = t.ended /\ a'.torn = t.torn
        /\ a'.settled = t.settled /\ Verdict(t, a')
    BY <1>2 DEF Answer
  <2>4. Verdict(a, t) <=> Verdict(a, a')
    BY <2>3 DEF Verdict
  <2> QED
    BY <2>1, <2>2, <2>3, <2>4 DEF Breaks, Verdict
<1>4. VerdictInv' /\ UpstreamInv'
  BY <1>2, <1>3 DEF AttemptInv, VerdictInv, UpstreamInv, Live, Breaks, Kept, Verdict, Proxy!Failures
<1>5. FacadeInv'
  BY <1>2, <1>3 DEF AttemptInv, FacadeInv, UpstreamInv, Breaks, Kept, Answer
<1>6. TranslatorInv'
  BY <1>3 DEF AttemptInv, TranslatorInv, Breaks, Kept, Verdict, Answer
<1>7. RetryInv'
  BY <1>2, <1>3 DEF AttemptInv, RetryInv, UpstreamInv, Live, Breaks, Kept, Verdict, Answer,
     Proxy!RetryIsInvisible, Proxy!NoStaleClosure
<1>8. ContentInv'
  BY <1>3 DEF AttemptInv, ContentInv, FacadeInv, Breaks, Kept, Answer, Proxy!CleanEndIsWhole
<1> QED
  BY <1>3, <1>4, <1>5, <1>6, <1>7, <1>8 DEF AttemptInv, Breaks, Kept

\* What the invariant says of an attempt whose connection breaks.
Breakable(s) ==
  /\ Attempt(s)
  /\ s.settled = "retry" => Proxy!Is(s, "closed") \/ Proxy!Is(s, "deadline")
  /\ ~Proxy!Is(s, "closed") /\ ~Proxy!Is(s, "intentional") =>
       /\ s.outcome \in {"none", "upstream_stream_error"} /\ s.credit = 0
       /\ s.settled = "pending" => ~s.torn
  /\ s.outcome = "none" => s.credit = 0 /\ s.charge = 0
  /\ Proxy!Is(s, "committed") => s.headers /\ ~s.erring /\ ~s.held

LEMMA BrokenFinish ==
  ASSUME NEW s, Attempt(s), s.outcome = "none" => s.credit = 0
  PROVE  LET t == Proxy!Finish(s, "upstream_stream_error")
         IN /\ Kept(s, t) /\ Answer(s, t) /\ t.up = s.up /\ t.held = s.held
            /\ t.settled = s.settled /\ (MaxRuns(t) <=> MaxRuns(s))
            /\ \A e : e # "accounted" => (Proxy!Is(t, e) <=> Proxy!Is(s, e))
            /\ Proxy!Is(s, "accounted") => Proxy!Is(t, "accounted")
            /\ \/ Verdict(s, t) /\ (Proxy!Is(t, "accounted") <=> Proxy!Is(s, "accounted"))
               \/ t.outcome = "upstream_stream_error" /\ t.credit = 0
<1> DEFINE t == Proxy!Finish(s, "upstream_stream_error")
<1>1. CASE s.outcome # "none"
  <2>1. t = s
    BY <1>1 DEF Proxy!Finish
  <2> HIDE DEF t
  <2> QED
    BY <2>1 DEF Kept, Answer, Verdict, t
<1>2. CASE s.outcome = "none"
  BY <1>2, FinishDoes
<1> QED
  BY <1>1, <1>2

LEMMA PenalisedFinish ==
  ASSUME NEW s, Attempt(s), s.credit = 0, s.outcome \in {"none", "upstream_stream_error"}
  PROVE  /\ LET t == Proxy!Finish(Proxy!Penalise(s), "upstream_stream_error")
            IN /\ Kept(s, t) /\ Answer(s, t) /\ t.up = s.up /\ t.held = s.held
               /\ t.settled = s.settled /\ (MaxRuns(t) <=> MaxRuns(s))
               /\ Flagged(s, t, {"accounted"})
               /\ t.outcome = "upstream_stream_error" /\ t.credit = 0
         /\ LET t == Proxy!Penalise(Proxy!Finish(s, "upstream_stream_error"))
            IN /\ Kept(s, t) /\ Answer(s, t) /\ t.up = s.up /\ t.held = s.held
               /\ t.settled = s.settled /\ (MaxRuns(t) <=> MaxRuns(s))
               /\ Flagged(s, t, {"accounted"})
               /\ t.outcome = "upstream_stream_error" /\ t.credit = 0
<1>1. LET t == Proxy!Finish(Proxy!Penalise(s), "upstream_stream_error")
      IN /\ Kept(s, t) /\ Answer(s, t) /\ t.up = s.up /\ t.held = s.held
         /\ t.settled = s.settled /\ (MaxRuns(t) <=> MaxRuns(s))
         /\ Flagged(s, t, {"accounted"})
         /\ t.outcome = "upstream_stream_error" /\ t.credit = 0
  BY PenaliseDoes, FinishDoes DEF Kept, Answer, Verdict, Flagged
<1>2. LET t == Proxy!Penalise(Proxy!Finish(s, "upstream_stream_error"))
      IN /\ Kept(s, t) /\ Answer(s, t) /\ t.up = s.up /\ t.held = s.held
         /\ t.settled = s.settled /\ (MaxRuns(t) <=> MaxRuns(s))
         /\ Flagged(s, t, {"accounted"})
         /\ t.outcome = "upstream_stream_error" /\ t.credit = 0
  BY PenaliseDoes, FinishDoes DEF Kept, Answer, Verdict, Flagged
<1> QED
  BY <1>1, <1>2

LEMMA ErrorBodyBreaksDoes ==
  ASSUME NEW s, Breakable(s) PROVE Breaks(s, Proxy!ErrorBodyBreaks(s))
<1> DEFINE t == Proxy!ErrorBodyBreaks(s)
           y == Proxy!Set(s, {"closed"})
           z == Proxy!Finish(y, "upstream_stream_error")
<1> SUFFICES Breaks(s, t)
  OBVIOUS
<1>1. Attempt(s) /\ (s.outcome = "none" => s.credit = 0)
  BY DEF Breakable
<1>2. t = IF Proxy!Is(s, "closed")
          \/ Proxy!Is(s, "deadline") THEN s ELSE Proxy!Tear(Proxy!Headers(z))
  BY DEF Proxy!ErrorBodyBreaks
<1>3. /\ Kept(s, y) /\ Verdict(s, y) /\ Answer(s, y) /\ y.held = s.held /\ y.settled = s.settled
      /\ (MaxRuns(y) <=> MaxRuns(s)) /\ Flagged(s, y, {"closed"})
      /\ y.outcome = "none" => y.credit = 0
  BY <1>1, SetDoes DEF Verdict
<1> HIDE DEF t, y
<1>4. CASE Proxy!Is(s, "closed") \/ Proxy!Is(s, "deadline")
  <2>1. t = s
    BY <1>2, <1>4
  <2> QED
    BY <1>1, <2>1 DEF Breaks, Kept, Verdict, Answer
<1>5. CASE ~(Proxy!Is(s, "closed") \/ Proxy!Is(s, "deadline"))
  <2>1. /\ Kept(s, z) /\ Answer(s, z) /\ z.held = s.held /\ z.settled = s.settled
        /\ (MaxRuns(z) <=> MaxRuns(s))
        /\ \A e : e # "accounted" => (Proxy!Is(z, e) <=> Proxy!Is(s, e) \/ e = "closed")
        /\ Proxy!Is(s, "accounted") => Proxy!Is(z, "accounted")
        /\ \/ Verdict(s, z) /\ (Proxy!Is(z, "accounted") <=> Proxy!Is(s, "accounted"))
           \/ z.outcome = "upstream_stream_error" /\ z.credit = 0
    BY <1>3, BrokenFinish DEF Kept, Verdict, Answer, Flagged
  <2> HIDE DEF z
  <2>2. t = Proxy!Tear(Proxy!Headers(z))
    BY <1>2, <1>5
  <2>3. /\ Kept(z, t) /\ Verdict(z, t) /\ t.headers /\ t.torn /\ t.content = z.content
        /\ t.ended = z.ended /\ t.held = z.held /\ t.settled = z.settled
        /\ (MaxRuns(t) <=> MaxRuns(z)) /\ Flagged(z, t, {})
    BY <2>1, <2>2, HeadersDoes, TearDoes DEF Kept, Verdict, Answer, Flagged
  <2>4. s.settled # "retry"
    BY <1>5 DEF Breakable
  <2> QED
    BY <2>1, <2>3, <2>4 DEF Breaks, Kept, Verdict, Answer, Flagged
<1> QED
  BY <1>4, <1>5

LEMMA PlainBreaksDoes ==
  ASSUME NEW s, Breakable(s), Proxy!Is(s, "closed") \/ Proxy!Is(s, "intentional") \/ s.headers
  PROVE  Breaks(s, Proxy!PlainBreaks(s))
<1> DEFINE t == Proxy!PlainBreaks(s)
           y == Proxy!Set(s, {"closed"})
           z == Proxy!Finish(y, "upstream_stream_error")
<1> SUFFICES Breaks(s, t)
  OBVIOUS
<1>1. Attempt(s) /\ (s.outcome = "none" => s.credit = 0)
  BY DEF Breakable
<1>2. t = IF Proxy!Is(s, "closed") \/ Proxy!Is(s, "deadline") \/ Proxy!Is(s, "intentional") THEN s
          ELSE Proxy!AbortCommitted(z)
  BY DEF Proxy!PlainBreaks
<1>3. /\ Kept(s, y) /\ Verdict(s, y) /\ Answer(s, y) /\ y.held = s.held /\ y.settled = s.settled
      /\ (MaxRuns(y) <=> MaxRuns(s)) /\ Flagged(s, y, {"closed"})
      /\ y.outcome = "none" => y.credit = 0
  BY <1>1, SetDoes DEF Verdict
<1> HIDE DEF t, y
<1>4. CASE Proxy!Is(s, "closed") \/ Proxy!Is(s, "deadline") \/ Proxy!Is(s, "intentional")
  <2>1. t = s
    BY <1>2, <1>4
  <2> QED
    BY <1>1, <2>1 DEF Breaks, Kept, Verdict, Answer
<1>5. CASE ~(Proxy!Is(s, "closed") \/ Proxy!Is(s, "deadline") \/ Proxy!Is(s, "intentional"))
  <2>1. /\ Kept(s, z) /\ Answer(s, z) /\ z.held = s.held /\ z.settled = s.settled
        /\ (MaxRuns(z) <=> MaxRuns(s))
        /\ \A e : e # "accounted" => (Proxy!Is(z, e) <=> Proxy!Is(s, e) \/ e = "closed")
        /\ Proxy!Is(s, "accounted") => Proxy!Is(z, "accounted")
        /\ \/ Verdict(s, z) /\ (Proxy!Is(z, "accounted") <=> Proxy!Is(s, "accounted"))
           \/ z.outcome = "upstream_stream_error" /\ z.credit = 0
    BY <1>3, BrokenFinish DEF Kept, Verdict, Answer, Flagged
  <2> HIDE DEF z
  <2>2. t = Proxy!AbortCommitted(z)
    BY <1>2, <1>5
  <2>3. /\ Kept(z, t) /\ Verdict(z, t) /\ Answer(z, t) /\ t.held = z.held /\ t.settled = z.settled
        /\ (MaxRuns(t) <=> MaxRuns(z))
        /\ \A e : e # "aborting" => (Proxy!Is(t, e) <=> Proxy!Is(z, e))
        /\ Proxy!Is(z, "aborting") => Proxy!Is(t, "aborting")
    BY <2>1, <2>2, AbortDoes DEF Kept, Flagged
  <2>4. s.settled # "retry" /\ s.headers
    BY <1>5 DEF Breakable
  <2>5. Answer(s, t) /\ Kept(s, t) /\ t.held = s.held /\ t.settled = s.settled
    BY <2>1, <2>3 DEF Kept, Answer
  <2> QED
    BY <2>1, <2>3, <2>4, <2>5 DEF Breaks, Verdict, Answer
<1> QED
  BY <1>4, <1>5

LEMMA TranslatedBreaksDoes ==
  ASSUME NEW s, Breakable(s), Proxy!Is(s, "closed") \/ Proxy!Is(s,
         "intentional") \/ s.settled # "pending" \/ ~s.headers
  PROVE  Breaks(s, Proxy!TranslatedBreaks(s))
<1> DEFINE t == Proxy!TranslatedBreaks(s)
           y == Proxy!Set(s, {"closed"})
           z == Proxy!Finish(Proxy!Penalise(y), "upstream_stream_error")
<1> SUFFICES Breaks(s, t)
  OBVIOUS
<1>1. Attempt(s)
  BY DEF Breakable
<1>2. t = IF Proxy!Is(s, "closed") \/ Proxy!Is(s, "deadline") \/ Proxy!Is(s, "intentional") THEN s
          ELSE Proxy!Settle(z, "retry")
  BY DEF Proxy!TranslatedBreaks
<1>3. /\ Kept(s, y) /\ Verdict(s, y) /\ Answer(s, y) /\ y.held = s.held /\ y.settled = s.settled
      /\ (MaxRuns(y) <=> MaxRuns(s)) /\ Flagged(s, y, {"closed"})
  BY <1>1, SetDoes
<1> HIDE DEF t, y
<1>4. CASE Proxy!Is(s, "closed") \/ Proxy!Is(s, "deadline") \/ Proxy!Is(s, "intentional")
  <2>1. t = s
    BY <1>2, <1>4
  <2> QED
    BY <1>1, <2>1 DEF Breaks, Kept, Verdict, Answer
<1>5. CASE ~(Proxy!Is(s, "closed") \/ Proxy!Is(s, "deadline") \/ Proxy!Is(s, "intentional"))
  <2>0. Attempt(y) /\ y.credit = 0 /\ y.outcome \in {"none", "upstream_stream_error"}
    BY <1>3, <1>5 DEF Breakable, Kept, Verdict
  <2>1. /\ Kept(s, z) /\ Answer(s, z) /\ z.held = s.held /\ z.settled = s.settled
        /\ (MaxRuns(z) <=> MaxRuns(s)) /\ Flagged(s, z, {"closed", "accounted"})
        /\ z.outcome = "upstream_stream_error" /\ z.credit = 0
    BY <1>3, <2>0, PenalisedFinish DEF Kept, Answer, Flagged
  <2> HIDE DEF z
  <2>2. t = Proxy!Settle(z, "retry")
    BY <1>2, <1>5
  <2>3. /\ Kept(s, t) /\ Answer(s, t) /\ t.held = s.held
        /\ t.settled = (IF s.settled = "pending" THEN "retry" ELSE s.settled)
        /\ (MaxRuns(t) <=> MaxRuns(s)) /\ Flagged(s, t, {"closed", "accounted"})
        /\ t.outcome = "upstream_stream_error" /\ t.credit = 0
    BY <2>1, <2>2, SettleDoes DEF Kept, Verdict, Answer, Flagged
  <2>4. s.settled = "pending" => ~s.headers /\ ~s.torn
    BY <1>5 DEF Breakable
  <2>5. t.content = s.content
    BY <2>3 DEF Answer
  <2> QED
    BY <2>3, <2>4, <2>5 DEF Breaks, Flagged
<1> QED
  BY <1>4, <1>5

LEMMA PassThroughBreaksDoes ==
  ASSUME NEW s, Breakable(s) PROVE Breaks(s, Proxy!PassThroughBreaks(s))
<1> DEFINE t == Proxy!PassThroughBreaks(s)
           y == Proxy!Disarm(Proxy!Set(s, {"closed"}), {"max"})
           z == Proxy!Finish(y, "upstream_stream_error")
           done == Proxy!Finish(y, "completed")
<1> SUFFICES Breaks(s, t)
  OBVIOUS
<1>1. Attempt(s) /\ (s.outcome = "none" => s.credit = 0)
  BY DEF Breakable
<1>2. t = IF Proxy!Is(s, "deadline") \/ Proxy!Is(s, "intentional") \/ Proxy!Is(s, "closed") THEN s
          ELSE IF Proxy!CompletedNormally(s) THEN (IF s.torn THEN done ELSE Proxy!EndOnce(done))
          ELSE IF ~s.headers /\ ~Proxy!Is(s, "first") THEN Proxy!Settle(Proxy!Penalise(z), "retry")
          ELSE Proxy!Tear(z)
  BY DEF Proxy!PassThroughBreaks
<1>3. /\ Kept(s, y) /\ Verdict(s, y) /\ Answer(s, y) /\ y.held = s.held /\ y.settled = s.settled
      /\ (MaxRuns(y) => MaxRuns(s)) /\ Flagged(s, y, {"closed"})
      /\ y.outcome = "none" => y.credit = 0
  BY <1>1, SetDoes, DisarmDoes DEF Kept, Verdict, Answer, Flagged
<1> HIDE DEF t, y
<1>4. CASE Proxy!Is(s, "deadline") \/ Proxy!Is(s, "intentional") \/ Proxy!Is(s, "closed")
  <2>1. t = s
    BY <1>2, <1>4
  <2> QED
    BY <1>1, <2>1 DEF Breaks, Kept, Verdict, Answer
<1>5. CASE ~(Proxy!Is(s, "deadline") \/ Proxy!Is(s, "intentional") \/ Proxy!Is(s, "closed"))
  <2>1. /\ s.settled # "retry" /\ s.credit = 0 /\ s.outcome \in {"none", "upstream_stream_error"}
        /\ s.settled = "pending" => ~s.torn
    BY <1>5 DEF Breakable
  <2>2. Attempt(y) /\ y.credit = 0 /\ y.outcome \in {"none", "upstream_stream_error"}
    BY <1>3, <2>1 DEF Kept, Verdict
  <2>3. CASE Proxy!CompletedNormally(s)
    <3>1. /\ s.mode = "openai" /\ Proxy!Is(s, "committed")
          /\ Proxy!Is(s, "sawDone") /\ ~Proxy!Is(s, "bad")
          /\ s.headers /\ ~s.erring /\ ~s.held /\ (s.outcome = "none" => s.charge = 0)
      BY <2>3 DEF Proxy!CompletedNormally, Breakable
    <3>2. /\ Kept(s, done) /\ Answer(s, done) /\ done.held = s.held /\ done.settled = s.settled
          /\ (MaxRuns(done) => MaxRuns(s))
          /\ \A e : e # "accounted" => (Proxy!Is(done, e) <=> Proxy!Is(s, e) \/ e = "closed")
          /\ Proxy!Is(s, "accounted") => Proxy!Is(done, "accounted")
          /\ \/ Verdict(s, done) /\ (Proxy!Is(done, "accounted") <=> Proxy!Is(s, "accounted"))
             \/ done.outcome = "completed" /\ done.charge = s.charge /\ s.outcome = "none"
      BY <1>3, <2>2, FinishDoes DEF Kept, Verdict, Answer, Flagged, Proxy!Failures
    <3> HIDE DEF done
    <3>3. /\ Kept(s, t) /\ t.held = s.held /\ t.content = s.content /\ t.settled = s.settled
          /\ (MaxRuns(t) => MaxRuns(s)) /\ t.torn = s.torn
          /\ \A e : Proxy!Is(t, e) <=> Proxy!Is(done, e)
          /\ Verdict(done, t)
          /\ Answer(s, t) \/ (t.ended /\ (t.headers = s.headers \/ t.headers = TRUE))
      <4>1. CASE s.torn
        <5>1. t = done
          BY <1>2, <1>5, <2>3, <4>1
        <5> QED
          BY <3>2, <5>1 DEF Answer, Verdict
      <4>2. CASE ~s.torn
        <5>1. t = Proxy!EndOnce(done)
          BY <1>2, <1>5, <2>3, <4>2
        <5> QED
          BY <3>2, <5>1, EndOnceDoes DEF Kept, Answer, Verdict, Flagged
      <4> QED
        BY <4>1, <4>2
    <3>4. Answer(s, t) \/ (t.ended /\ t.headers /\ (t.headers = s.headers \/ t.headers = TRUE))
      BY <3>1, <3>3
    <3> QED
      BY <2>1, <3>1, <3>2, <3>3, <3>4 DEF Breaks, Verdict
  <2>4. CASE ~Proxy!CompletedNormally(s) /\ ~s.headers /\ ~Proxy!Is(s, "first")
    <3> DEFINE q == Proxy!Penalise(z)
    <3>1. /\ Kept(s, q) /\ Answer(s, q) /\ q.held = s.held /\ q.settled = s.settled
          /\ (MaxRuns(q) => MaxRuns(s)) /\ Flagged(s, q, {"closed", "accounted"})
          /\ q.outcome = "upstream_stream_error" /\ q.credit = 0
      BY <1>3, <2>2, PenalisedFinish DEF Kept, Answer, Flagged
    <3>2. t = Proxy!Settle(q, "retry")
      BY <1>2, <1>5, <2>4
    <3> HIDE DEF q
    <3>3. /\ Kept(s, t) /\ Answer(s, t) /\ t.held = s.held
          /\ t.settled = (IF s.settled = "pending" THEN "retry" ELSE s.settled)
          /\ (MaxRuns(t) => MaxRuns(s)) /\ Flagged(s, t, {"closed", "accounted"})
          /\ t.outcome = "upstream_stream_error" /\ t.credit = 0
      BY <3>1, <3>2, SettleDoes DEF Kept, Verdict, Answer, Flagged
    <3>4. t.content = s.content
      BY <3>3 DEF Answer
    <3> QED
      BY <2>1, <2>4, <3>3, <3>4 DEF Breaks, Flagged
  <2>5. CASE ~Proxy!CompletedNormally(s) /\ ~(~s.headers /\ ~Proxy!Is(s, "first"))
    <3>1. /\ Kept(s, z) /\ Answer(s, z) /\ z.held = s.held /\ z.settled = s.settled
          /\ (MaxRuns(z) => MaxRuns(s))
          /\ \A e : e # "accounted" => (Proxy!Is(z, e) <=> Proxy!Is(s, e) \/ e = "closed")
          /\ Proxy!Is(s, "accounted") => Proxy!Is(z, "accounted")
          /\ \/ Verdict(s, z) /\ (Proxy!Is(z, "accounted") <=> Proxy!Is(s, "accounted"))
             \/ z.outcome = "upstream_stream_error" /\ z.credit = 0
      BY <1>3, BrokenFinish DEF Kept, Verdict, Answer, Flagged
    <3> HIDE DEF z
    <3>2. t = Proxy!Tear(z)
      BY <1>2, <1>5, <2>5
    <3>3. /\ Kept(s, t) /\ Verdict(z, t) /\ t.headers = s.headers /\ t.torn = TRUE
          /\ t.content = s.content /\ t.ended = s.ended /\ t.held = s.held
          /\ t.settled = s.settled /\ (MaxRuns(t) => MaxRuns(s)) /\ Flagged(z, t, {})
      BY <3>1, <3>2, TearDoes DEF Kept, Answer
    <3> QED
      BY <2>1, <3>1, <3>3 DEF Breaks, Verdict, Flagged
  <2> QED
    BY <2>3, <2>4, <2>5
<1> QED
  BY <1>4, <1>5

\* What the invariant says of a translated stream that breaks.
FacadeBreakable(s) ==
  /\ s.mode = "facade"
  /\ Proxy!Is(s, "intentional") => \/ Proxy!Is(s, "closed") \/ Proxy!Is(s, "deadline")
                                   \/ Proxy!Is(s, "resTorn") \/ Proxy!Is(s, "idleTorn")
  /\ ~Proxy!Is(s, "closed") /\ ~Proxy!Is(s, "intentional") /\ ~Proxy!Is(s, "committed") =>
       (s.settled = "pending" => ~s.headers)

LEMMA FacadeBreaksDoes ==
  ASSUME NEW s, Breakable(s), FacadeBreakable(s) PROVE Breaks(s, Proxy!FacadeBreaks(s))
<1> DEFINE t == Proxy!FacadeBreaks(s)
           y == Proxy!Set(s, {"intentional", "wake"})
           clean == Proxy!Is(s, "sawDone") /\ ~Proxy!Is(s, "sawError")
           charge(z) == Proxy!Finish(Proxy!Penalise(z), "upstream_stream_error")
           closing == Proxy!Disarm(Proxy!Set(y, {"closed"}), {"max"})
           q == Proxy!Disarm(
                  Proxy!Set(y, {"finishing"} \cup (IF clean THEN {"clean"} ELSE {})), {"max"})
<1> SUFFICES Breaks(s, t)
  OBVIOUS
<1>1. Attempt(s) /\ (s.outcome = "none" => s.credit = 0)
  BY DEF Breakable
<1>2. t = IF Proxy!Is(s, "deadline") THEN s
          ELSE IF Proxy!Is(s, "closed") THEN y
          ELSE IF ~Proxy!Is(s, "intentional") /\ ~Proxy!Is(s, "committed")
               THEN Proxy!Settle(charge(closing), "retry")
          ELSE IF Proxy!Is(s, "committed")
               THEN IF Proxy!Is(s, "resTorn") \/ Proxy!Is(s, "idleTorn")
                    THEN Proxy!Disarm(y, {"max"})
                    ELSE IF Proxy!Is(s, "finishing") THEN y
                    ELSE IF clean THEN q ELSE charge(q)
          ELSE Proxy!Tear(Proxy!Finish(closing, "upstream_stream_error"))
  BY DEF Proxy!FacadeBreaks
<1>3. /\ Kept(s, y) /\ Verdict(s, y) /\ Answer(s, y) /\ y.held = s.held /\ y.settled = s.settled
      /\ (MaxRuns(y) <=> MaxRuns(s)) /\ Flagged(s, y, {"intentional", "wake"})
  BY <1>1, SetDoes
<1> HIDE DEF t, y
<1>4. CASE Proxy!Is(s, "deadline")
  <2>1. t = s
    BY <1>2, <1>4
  <2> QED
    BY <1>1, <2>1 DEF Breaks, Kept, Verdict, Answer
<1>5. CASE ~Proxy!Is(s, "deadline") /\ Proxy!Is(s, "closed")
  <2>1. t = y
    BY <1>2, <1>5
  <2> QED
    BY <1>3, <2>1 DEF Breaks, Kept, Verdict, Answer, Flagged
<1>6. CASE ~Proxy!Is(s, "deadline") /\ ~Proxy!Is(s, "closed") /\ ~Proxy!Is(s, "committed")
  <2>1. /\ Kept(s, closing) /\ Verdict(s, closing) /\ Answer(s, closing)
        /\ closing.held = s.held /\ closing.settled = s.settled /\ (MaxRuns(closing) => MaxRuns(s))
        /\ Flagged(s, closing, {"intentional", "wake", "closed"})
    BY <1>3, SetDoes, DisarmDoes DEF Kept, Verdict, Answer, Flagged
  <2>2. s.settled # "retry"
    BY <1>6 DEF Breakable
  <2> HIDE DEF closing
  <2>3. CASE ~Proxy!Is(s, "intentional")
    <3> DEFINE z == Proxy!Finish(Proxy!Penalise(closing), "upstream_stream_error")
    <3>0. /\ Attempt(closing) /\ closing.credit = 0
          /\ closing.outcome \in {"none", "upstream_stream_error"}
      BY <1>6, <2>1, <2>3 DEF Breakable, Kept, Verdict
    <3>1. /\ Kept(s, z) /\ Answer(s, z) /\ z.held = s.held /\ z.settled = s.settled
          /\ (MaxRuns(z) => MaxRuns(s))
          /\ Flagged(s, z, {"intentional", "wake", "closed", "accounted"})
          /\ z.outcome = "upstream_stream_error" /\ z.credit = 0
      BY <2>1, <3>0, PenalisedFinish DEF Kept, Answer, Flagged
    <3>2. t = Proxy!Settle(z, "retry")
      BY <1>2, <1>6, <2>3
    <3> HIDE DEF z
    <3>3. /\ Kept(s, t) /\ Answer(s, t) /\ t.held = s.held
          /\ t.settled = (IF s.settled = "pending" THEN "retry" ELSE s.settled)
          /\ (MaxRuns(t) => MaxRuns(s))
          /\ Flagged(s, t, {"intentional", "wake", "closed", "accounted"})
          /\ t.outcome = "upstream_stream_error" /\ t.credit = 0
      BY <3>1, <3>2, SettleDoes DEF Kept, Verdict, Answer, Flagged
    <3>4. s.settled = "pending" => ~s.headers /\ ~s.torn
      BY <1>6, <2>3 DEF Breakable, FacadeBreakable
    <3>5. t.content = s.content
      BY <3>3 DEF Answer
    <3> QED
      BY <2>2, <3>3, <3>4, <3>5 DEF Breaks, Flagged
  <2>4. CASE Proxy!Is(s, "intentional")
    <3> DEFINE z == Proxy!Finish(closing, "upstream_stream_error")
    <3>0. Attempt(closing) /\ (closing.outcome = "none" => closing.credit = 0)
      BY <1>1, <2>1 DEF Kept, Verdict
    <3>1. /\ Kept(s, z) /\ Answer(s, z) /\ z.held = s.held /\ z.settled = s.settled
          /\ (MaxRuns(z) => MaxRuns(s))
          /\ \A e : e # "accounted" =>
                      (Proxy!Is(z, e) <=> Proxy!Is(s, e) \/ e \in {"intentional", "wake", "closed"})
          /\ Proxy!Is(s, "accounted") => Proxy!Is(z, "accounted")
          /\ \/ Verdict(s, z) /\ (Proxy!Is(z, "accounted") <=> Proxy!Is(s, "accounted"))
             \/ z.outcome = "upstream_stream_error" /\ z.credit = 0
      BY <2>1, <3>0, BrokenFinish DEF Kept, Verdict, Answer, Flagged
    <3>2. t = Proxy!Tear(z)
      BY <1>2, <1>6, <2>4
    <3> HIDE DEF z
    <3>3. /\ Kept(s, t) /\ Verdict(z, t) /\ t.headers = s.headers /\ t.torn = TRUE
          /\ t.content = s.content /\ t.ended = s.ended /\ t.held = s.held
          /\ t.settled = s.settled /\ (MaxRuns(t) => MaxRuns(s)) /\ Flagged(z, t, {})
      BY <3>1, <3>2, TearDoes DEF Kept, Answer
    <3> QED
      BY <2>2, <3>1, <3>3 DEF Breaks, Verdict, Flagged
  <2> QED
    BY <2>3, <2>4
<1>7. CASE /\ ~Proxy!Is(s, "deadline") /\ ~Proxy!Is(s, "closed") /\ Proxy!Is(s, "committed")
           /\ Proxy!Is(s, "resTorn") \/ Proxy!Is(s, "idleTorn") \/ Proxy!Is(s, "finishing")
  <2>1. t = Proxy!Disarm(y, {"max"}) \/ t = y
    BY <1>2, <1>7
  <2>2. /\ Kept(s, t) /\ Verdict(s, t) /\ Answer(s, t) /\ t.held = s.held /\ t.settled = s.settled
        /\ (MaxRuns(t) => MaxRuns(s)) /\ Flagged(s, t, {"intentional", "wake"})
    <3>1. CASE t = y
      BY <1>3, <3>1
    <3>2. CASE t = Proxy!Disarm(y, {"max"})
      BY <1>3, <3>2, DisarmDoes DEF Kept, Verdict, Answer, Flagged
    <3> QED
      BY <2>1, <3>1, <3>2
  <2> QED
    BY <2>2 DEF Breaks, Kept, Verdict, Answer, Flagged
<1>8. CASE /\ ~Proxy!Is(s, "deadline") /\ ~Proxy!Is(s, "closed") /\ Proxy!Is(s, "committed")
           /\ ~(Proxy!Is(s, "resTorn") \/ Proxy!Is(s, "idleTorn") \/ Proxy!Is(s, "finishing"))
  <2>1. /\ Kept(s, q) /\ Verdict(s, q) /\ Answer(s, q) /\ q.held = s.held /\ q.settled = s.settled
        /\ (MaxRuns(q) => MaxRuns(s))
        /\ \A e : Proxy!Is(q, e) <=> \/ Proxy!Is(s, e) \/ e \in {"intentional", "wake", "finishing"}
                                     \/ (e = "clean" /\ clean)
    BY <1>3, SetDoes, DisarmDoes DEF Kept, Verdict, Answer, Flagged
  <2>2. s.mode = "facade" /\ ~Proxy!Is(s, "intentional")
    BY <1>8 DEF FacadeBreakable
  <2>3. t = IF clean THEN q ELSE charge(q)
    BY <1>2, <1>8, <2>2
  <2> HIDE DEF q
  <2>4. CASE clean
    <3>1. t = q
      BY <2>3, <2>4
    <3> QED
      BY <1>8, <2>1, <2>2, <2>4, <3>1 DEF Breaks, Kept, Verdict, Answer
  <2>5. CASE ~clean
    <3>1. t = Proxy!Finish(Proxy!Penalise(q), "upstream_stream_error")
      BY <2>3, <2>5
    <3>2. Attempt(q) /\ q.credit = 0 /\ q.outcome \in {"none", "upstream_stream_error"}
      BY <1>8, <2>1, <2>2 DEF Breakable, Kept, Verdict
    <3>3. /\ Kept(s, t) /\ Answer(s, t) /\ t.held = s.held /\ t.settled = s.settled
          /\ (MaxRuns(t) => MaxRuns(s))
          /\ \A e : Proxy!Is(t, e) <=>
                \/ Proxy!Is(s, e) \/ e \in {"intentional", "wake", "finishing", "accounted"}
          /\ t.outcome = "upstream_stream_error" /\ t.credit = 0
      BY <2>1, <2>5, <3>1, <3>2, PenalisedFinish DEF Kept, Answer, Flagged
    <3>4. t.content = s.content
      BY <3>3 DEF Answer
    <3> QED
      BY <1>8, <2>2, <3>3, <3>4 DEF Breaks
  <2> QED
    BY <2>4, <2>5
<1> QED
  BY <1>4, <1>5, <1>6, <1>7, <1>8

LEMMA ResponseBreaksKeeps == ASSUME AttemptInv, Proxy!ResponseBreaks PROVE AttemptInv'
<1> DEFINE t == Proxy!Broken(a)
<1>1. /\ a.responded /\ a.up \in {"error", "body", "dying"} /\ UNCHANGED <<queue, tr>>
      /\ a' = [t EXCEPT !.up = "over"]
  BY DEF Proxy!ResponseBreaks
<1>2. Breakable(a)
  <2>1. Attempt(a) /\ (a.settled = "retry" => Proxy!Is(a, "closed") \/ Proxy!Is(a, "deadline"))
    BY <1>1 DEF AttemptInv, UpstreamInv, RetryInv
  <2>2. ~Proxy!Is(a, "closed") /\ ~Proxy!Is(a, "intentional") =>
          /\ a.outcome \in {"none", "upstream_stream_error"} /\ a.credit = 0
          /\ a.settled = "pending" => ~a.torn
    BY <1>1 DEF AttemptInv, UpstreamInv, VerdictInv, Live
  <2>3. /\ a.outcome = "none" => a.credit = 0 /\ a.charge = 0
        /\ Proxy!Is(a, "committed") => a.headers /\ ~a.erring /\ ~a.held
    BY DEF AttemptInv, VerdictInv, FacadeInv, ContentInv
  <2> QED
    BY <2>1, <2>2, <2>3 DEF Breakable
<1>3. Breaks(a, t)
  <2>1. CASE a.erring
    <3>1. t = Proxy!ErrorBodyBreaks(a)
      BY <2>1 DEF Proxy!Broken
    <3> QED
      BY <1>2, <3>1, ErrorBodyBreaksDoes
  <2>2. CASE ~a.erring /\ a.mode \in {"openai", "raw"}
    <3>1. t = Proxy!PassThroughBreaks(a)
      BY <2>2 DEF Proxy!Broken
    <3> QED
      BY <1>2, <3>1, PassThroughBreaksDoes
  <2>3. CASE ~a.erring /\ a.mode = "facade"
    <3>1. t = Proxy!FacadeBreaks(a)
      BY <2>3 DEF Proxy!Broken
    <3>2. FacadeBreakable(a)
      BY <1>1, <2>3 DEF AttemptInv, UpstreamInv, FacadeInv, FacadeBreakable, Live
    <3> QED
      BY <1>2, <3>1, <3>2, FacadeBreaksDoes
  <2>4. CASE ~a.erring /\ a.mode = "plain"
    <3>1. t = Proxy!PlainBreaks(a)
      BY <2>4 DEF Proxy!Broken
    <3>2. Proxy!Is(a, "closed") \/ Proxy!Is(a, "intentional") \/ a.headers
      BY <1>1, <2>4 DEF AttemptInv, UpstreamInv, RetryInv
    <3> QED
      BY <1>2, <3>1, <3>2, PlainBreaksDoes
  <2>5. CASE ~a.erring /\ a.mode = "translated"
    <3>1. t = Proxy!TranslatedBreaks(a)
      BY <2>5 DEF Proxy!Broken
    <3>2. Proxy!Is(a, "closed") \/ Proxy!Is(a, "intentional") \/ a.settled # "pending" \/ ~a.headers
      BY <1>1, <2>5 DEF AttemptInv, UpstreamInv, RetryInv
    <3> QED
      BY <1>2, <3>1, <3>2, TranslatedBreaksDoes
  <2> QED
    BY <1>2, <2>1, <2>2, <2>3, <2>4, <2>5 DEF Breakable, Attempt, Proxy!Modes
<1> HIDE DEF t
<1> QED
  BY <1>1, <1>3, BreakKeeps

LEMMA RequestFailsKeeps ==
  ASSUME AttemptInv, NEW infra \in BOOLEAN, Proxy!RequestFails(infra) PROVE AttemptInv'
<1> DEFINE x == [a EXCEPT !.up = IF a.responded THEN "dying" ELSE "over"]
           y == Proxy!Finish(x, "upstream_stream_error")
<1>1. /\ a.up \in {"connecting", "error", "body", "dying"} /\ UNCHANGED <<queue, tr>>
      /\ infra => a.up = "connecting"
  BY DEF Proxy!RequestFails
<1>2. a' = IF Proxy!Is(a, "intentional") \/ Proxy!Is(a, "deadline") THEN x
           ELSE IF infra
                THEN Proxy!Settle(Proxy!Finish(Proxy!Set(x, {"accounted"}), "infra"), "retry")
           ELSE IF ~a.responded
                THEN Proxy!Settle(Proxy!Finish(Proxy!Penalise(x), "upstream_stream_error"), "retry")
           ELSE Proxy!Settle(IF a.headers THEN Proxy!Tear(y) ELSE Proxy!End(y), "final")
  BY DEF Proxy!RequestFails
<1>3. Attempt(a)
  BY DEF AttemptInv
<1>4. /\ Kept(a, x) /\ Verdict(a, x) /\ Answer(a, x) /\ Flagged(a, x, {})
      /\ (MaxRuns(x) <=> MaxRuns(a)) /\ x.held = a.held /\ x.settled = a.settled
      /\ x.up = IF a.responded THEN "dying" ELSE "over"
  BY <1>3, UpDoes
<1> HIDE DEF x
<1>5. CASE Proxy!Is(a, "intentional") \/ Proxy!Is(a, "deadline")
  <2>1. a' = x
    BY <1>2, <1>5
  <2> QED
    BY <1>1, <1>3, <1>4, <1>5, <2>1
       DEF AttemptInv, VerdictInv, UpstreamInv, FacadeInv, TranslatorInv, RetryInv, ContentInv,
           Live, Kept, Verdict, Answer, Flagged, Proxy!RetryIsInvisible, Proxy!NoStaleClosure,
           Proxy!CleanEndIsWhole
<1>6. CASE ~(Proxy!Is(a, "intentional") \/ Proxy!Is(a, "deadline")) /\ ~a.responded
  <2>1. /\ a.up = "connecting" /\ a.outcome = "none" /\ a.credit = 0 /\ a.charge = 0
        /\ ~Proxy!Is(a, "accounted") /\ a.settled = "pending"
    BY <1>1, <1>6 DEF AttemptInv, VerdictInv, UpstreamInv, Live
  <2>a. x.up = "over"
    BY <1>4, <1>6
  <2>2. /\ Kept(a, a') /\ Answer(a, a') /\ a'.up = "over" /\ a'.held = a.held
        /\ a'.settled = "retry" /\ (MaxRuns(a') <=> MaxRuns(a)) /\ Flagged(a, a', {"accounted"})
        /\ a'.credit = a.credit
        /\ \/ a'.outcome = "infra" /\ a'.charge = a.charge
           \/ a'.outcome = "upstream_stream_error"
    <3>0. /\ Kept(a, x) /\ Verdict(a, x) /\ Answer(a, x) /\ Flagged(a, x, {}) /\ x.held = a.held
          /\ (MaxRuns(x) <=> MaxRuns(a)) /\ x.settled = a.settled /\ x.outcome = "none"
      BY <1>4, <2>1 DEF Verdict
    <3>1. CASE infra
      <4>1. a' = Proxy!Settle(Proxy!Finish(Proxy!Set(x, {"accounted"}), "infra"), "retry")
        BY <1>2, <1>6, <3>1
      <4> QED
        BY <2>1, <2>a, <3>0, <4>1, SetDoes, FinishDoes, SettleDoes
           DEF Kept, Verdict, Answer, Flagged, Proxy!Failures
    <3>2. CASE ~infra
      <4>1. a' = Proxy!Settle(Proxy!Finish(Proxy!Penalise(x), "upstream_stream_error"), "retry")
        BY <1>2, <1>6, <3>2
      <4> QED
        BY <2>1, <2>a, <3>0, <4>1, PenaliseDoes, FinishDoes, SettleDoes
           DEF Kept, Verdict, Answer, Flagged
    <3> QED
      BY <3>1, <3>2
  <2> QED
    BY <1>1, <1>3, <1>6, <2>1, <2>2
       DEF AttemptInv, VerdictInv, UpstreamInv, FacadeInv, TranslatorInv, RetryInv, ContentInv,
           Live, Kept, Answer, Flagged, Proxy!Failures, Proxy!RetryIsInvisible,
           Proxy!NoStaleClosure, Proxy!CleanEndIsWhole
<1>7. CASE ~(Proxy!Is(a, "intentional") \/ Proxy!Is(a, "deadline")) /\ a.responded
  <2>1. /\ ~infra /\ a.up # "connecting" /\ (a.outcome = "none" => a.credit = 0)
    BY <1>1, <1>7 DEF AttemptInv, VerdictInv, UpstreamInv
  <2>2. x.up = "dying" /\ (x.outcome = "none" => x.credit = 0) /\ Attempt(x)
    BY <1>4, <1>7, <2>1 DEF Kept, Verdict
  <2>3. /\ Kept(a, y) /\ Answer(a, y) /\ y.up = "dying" /\ y.held = a.held
        /\ y.settled = a.settled /\ (MaxRuns(y) <=> MaxRuns(a))
        /\ \A e : e # "accounted" => (Proxy!Is(y, e) <=> Proxy!Is(a, e))
        /\ y.outcome = (IF a.outcome = "none" THEN "upstream_stream_error" ELSE a.outcome)
        /\ y.credit = a.credit /\ (a.outcome # "none" => y.charge = a.charge)
    BY <1>4, <2>2, FinishDoes DEF Kept, Verdict, Answer, Flagged
  <2>4. a' = Proxy!Settle(IF a.headers THEN Proxy!Tear(y) ELSE Proxy!End(y), "final")
    BY <1>2, <1>7, <2>1
  <2> HIDE DEF y
  <2>5. /\ Kept(a, a') /\ a'.content = a.content /\ a'.up = "dying" /\ a'.held = a.held
        /\ a'.settled = (IF a.settled = "pending" THEN "final" ELSE a.settled)
        /\ (MaxRuns(a') <=> MaxRuns(a))
        /\ \A e : e # "accounted" => (Proxy!Is(a', e) <=> Proxy!Is(a, e))
        /\ a'.outcome = (IF a.outcome = "none" THEN "upstream_stream_error" ELSE a.outcome)
        /\ a'.credit = a.credit /\ (a.outcome # "none" => a'.charge = a.charge)
        /\ IF a.headers THEN a'.headers = a.headers /\ a'.ended = a.ended /\ a'.torn
           ELSE a'.headers /\ a'.ended /\ a'.torn = a.torn
    <3>1. CASE a.headers
      <4>1. a' = Proxy!Settle(Proxy!Tear(y), "final")
        BY <2>4, <3>1
      <4>2. /\ Kept(a, a') /\ a'.content = a.content /\ a'.up = "dying" /\ a'.held = a.held
            /\ a'.settled = (IF a.settled = "pending" THEN "final" ELSE a.settled)
            /\ (MaxRuns(a') <=> MaxRuns(a)) /\ Flagged(y, a', {}) /\ Verdict(y, a')
            /\ a'.headers = a.headers /\ a'.ended = a.ended /\ a'.torn
        BY <2>3, <4>1, TearDoes, SettleDoes DEF Kept, Verdict, Answer, Flagged
      <4> QED
        BY <2>3, <3>1, <4>2 DEF Verdict, Flagged
    <3>2. CASE ~a.headers
      <4>1. a' = Proxy!Settle(Proxy!End(y), "final")
        BY <2>4, <3>2
      <4> QED
        BY <2>3, <3>2, <4>1, EndDoes, SettleDoes DEF Kept, Verdict, Answer, Flagged
    <3> QED
      BY <3>1, <3>2
  <2> QED
    BY <1>1, <1>3, <1>7, <2>1, <2>5
       DEF AttemptInv, VerdictInv, UpstreamInv, FacadeInv, TranslatorInv, RetryInv, ContentInv,
           Live, Kept, Proxy!Failures, Proxy!RetryIsInvisible, Proxy!NoStaleClosure,
           Proxy!CleanEndIsWhole
<1> QED
  BY <1>5, <1>6, <1>7

\* The inductive invariant is kept by every step.

LEMMA AttemptStep == AttemptInv /\ [Proxy!Next]_(Proxy!vars) => AttemptInv'
<1> SUFFICES ASSUME AttemptInv, [Proxy!Next]_(Proxy!vars) PROVE AttemptInv'
  OBVIOUS
<1>1. CASE Proxy!Upstream
  BY <1>1, FirstByteKeeps, ErrorBodyEndsKeeps, ErrorBodyTooLargeKeeps, ChunkKeeps,
     UpstreamEndsKeeps, ResponseBreaksKeeps, RequestFailsKeeps DEF Proxy!Upstream
<1>2. CASE Proxy!Timers
  BY <1>2, SocketTimerKeeps, MaxStreamTimerKeeps, DeadlineTimerKeeps DEF Proxy!Timers
<1>3. CASE Proxy!Internal
  BY <1>3, TranslateKeeps, FacadeFinishesKeeps, FailureFinishesKeeps, BodyFlushedKeeps,
     FlushedKeeps DEF Proxy!Internal
<1>4. CASE Proxy!Client
  BY <1>4, ResumeKeeps, LaterAttemptStreamsKeeps, ClientLeavesKeeps, ResponseClosesKeeps
     DEF Proxy!Client
<1>5. CASE UNCHANGED Proxy!vars
  BY <1>5 DEF Proxy!vars, AttemptInv, VerdictInv, UpstreamInv, FacadeInv, TranslatorInv, RetryInv,
     ContentInv, Live, Proxy!RetryIsInvisible, Proxy!NoStaleClosure, Proxy!CleanEndIsWhole
<1> QED
  BY <1>1, <1>2, <1>3, <1>4, <1>5 DEF Proxy!Next

LEMMA AttemptIsClean ==
  AttemptInv => Proxy!RetryIsInvisible /\ Proxy!CleanEndIsWhole /\ Proxy!KeyIsJudgedFairly
<1> SUFFICES ASSUME AttemptInv
             PROVE Proxy!RetryIsInvisible /\ Proxy!CleanEndIsWhole /\ Proxy!KeyIsJudgedFairly
  OBVIOUS
<1>1. Proxy!RetryIsInvisible /\ Proxy!CleanEndIsWhole
  BY DEF AttemptInv, RetryInv, ContentInv
<1>2. a.credit \in Nat /\ a.charge \in Nat
  BY DEF AttemptInv, Attempt
<1>3. /\ a.charge # 0 =>
           a.outcome \in Proxy!Failures \cup {"first_byte_timeout", "upstream_http_error"}
      /\ a.credit # 0 => a.outcome = "completed" /\ a.charge = 0 /\ ~a.erring
  BY DEF AttemptInv, VerdictInv
<1>4. Proxy!KeyIsJudgedFairly
  <2>1. (a.charge > 0 => a.charge # 0) /\ (a.credit > 0 => a.credit # 0)
    BY <1>2
  <2> QED
    BY <1>3, <2>1 DEF Proxy!KeyIsJudgedFairly
<1> QED
  BY <1>1, <1>4

-----------------------------------------------------------------------------
(* Upstream's refusals: what reaches the client of one                        *)

LEMMA RefusalStart == Refusal!Init => Refusal!EchoIsSafe
  BY DEF Refusal!Init, Refusal!EchoIsSafe

\* What the three echoes answer a body with.

LEMMA RebuiltReads ==
  ASSUME NEW b \in Refusal!Bodies, NEW by
  PROVE  LET x == Refusal!Rebuilt(b, by)
         IN /\ x.by = by /\ ~x.dirt /\ x.length = "own" /\ x.message # "dirty"
            /\ b.message = "clean" => x.message = "clean"
<1>1. b.message \in Refusal!Texts
  BY DEF Refusal!Bodies
<1> QED
  BY <1>1 DEF Refusal!Rebuilt, Refusal!SafeMessage, Refusal!Message, Refusal!Scrubbed,
     Refusal!Length, Refusal!Texts

LEMMA ChatEchoReads ==
  ASSUME NEW b \in Refusal!Bodies
  PROVE  LET x == Refusal!ChatEcho(b)
         IN /\ ~x.dirt /\ x.message # "dirty"
            /\ x.length = "upstream" => x.by = "upstream" /\ ~Refusal!NeedsRewrite(b)
            /\ ~Refusal!NeedsRewrite(b) =>
                 x.by = "upstream" /\ x.length = "upstream" /\ x.message = b.message
            /\ b.message = "clean" => x.message = "clean"
<1>1. b.message \in Refusal!Texts
  BY DEF Refusal!Bodies
<1>2. CASE ~Refusal!NeedsRewrite(b)
  <2>1. Refusal!ChatEcho(b) = Refusal!Verbatim(b)
    BY <1>2 DEF Refusal!ChatEcho
  <2>2. ~Refusal!LeavesChange(b) /\ b.message # "dirty"
    BY <1>2 DEF Refusal!NeedsRewrite, Refusal!LeavesChange
  <2>3. /\ Refusal!ChatEcho(b).by = "upstream" /\ Refusal!ChatEcho(b).message = b.message
        /\ Refusal!ChatEcho(b).length = "upstream"
    BY <2>1 DEF Refusal!Verbatim, Refusal!Length
  <2>4. Refusal!ChatEcho(b).dirt = Refusal!LeavesChange(b)
    BY <2>1 DEF Refusal!Verbatim
  <2>5. ~Refusal!ChatEcho(b).dirt
    BY <2>2, <2>4
  <2> QED
    BY <1>2, <2>2, <2>3, <2>5
<1>3. CASE Refusal!NeedsRewrite(b) /\ ~b.big /\ b.shape = "object"
  <2>1. Refusal!ChatEcho(b) = [Refusal!Verbatim(b) EXCEPT !.message = Refusal!Scrubbed(b.message),
                                                          !.dirt = FALSE,
                                                          !.length = Refusal!Length(TRUE)]
    BY <1>3 DEF Refusal!ChatEcho
  <2> QED
    BY <1>1, <1>3, <2>1 DEF Refusal!Verbatim, Refusal!Scrubbed, Refusal!Length, Refusal!Texts
<1>4. CASE Refusal!NeedsRewrite(b) /\ ~(~b.big /\ b.shape = "object")
  <2>1. Refusal!ChatEcho(b) = Refusal!Rebuilt(b, "chat")
    BY <1>4 DEF Refusal!ChatEcho
  <2> QED
    BY <1>4, <2>1, RebuiltReads
<1> QED
  BY <1>2, <1>3, <1>4

LEMMA ResponsesEchoReads ==
  ASSUME NEW b \in Refusal!Bodies
  PROVE  LET x == Refusal!ResponsesEcho(b)
         IN /\ ~x.dirt /\ x.message # "dirty"
            /\ x.length = "upstream" => x.by = "upstream" /\ ~Refusal!NeedsRewrite(b)
            /\ x.by = "upstream" => b.slot = "error.message"
            /\ b.message = "clean" => x.message = "clean"
<1>1. CASE Refusal!ResponsesEcho(b) = Refusal!Rebuilt(b, "openai")
  BY <1>1, RebuiltReads
<1>2. CASE Refusal!ResponsesEcho(b) = Refusal!ChatEcho(b) /\ b.slot = "error.message"
  BY <1>2, ChatEchoReads
<1> QED
  BY <1>1, <1>2 DEF Refusal!ResponsesEcho

\* A refusal is safe whatever upstream said and whoever asked.

LEMMA RefusalStep == Refusal!EchoIsSafe /\ [Refusal!Next]_m => Refusal!EchoIsSafe'
<1> SUFFICES ASSUME Refusal!EchoIsSafe, [Refusal!Next]_m PROVE Refusal!EchoIsSafe'
  OBVIOUS
<1>1. CASE UNCHANGED m
  BY <1>1 DEF Refusal!EchoIsSafe, Refusal!NothingLeaks, Refusal!PassesOrFits,
     Refusal!ClientUnderstands
<1>2. ASSUME NEW mode \in Refusal!Modes, NEW b \in Refusal!Bodies, Refusal!Refuses(mode, b)
      PROVE Refusal!EchoIsSafe'
  <2>1. m'.body = b /\ m'.mode = mode /\ m'.answer = Refusal!Echo(mode, b)
    BY <1>2 DEF Refusal!Refuses
  <2>2. Refusal!Dirty(b) => Refusal!NeedsRewrite(b)
    BY DEF Refusal!Dirty, Refusal!NeedsRewrite, Refusal!LeavesChange
  <2>3. Refusal!NeedsRewrite(b) => Refusal!Dirty(b) \/ b.big \/ b.shape = "empty"
    BY DEF Refusal!Dirty, Refusal!NeedsRewrite, Refusal!LeavesChange
  <2>4. CASE mode = "messages"
    <3>1. Refusal!Echo(mode, b) = Refusal!Rebuilt(b, "anthropic")
      BY <2>4 DEF Refusal!Echo
    <3> QED
      BY <2>1, <2>4, <3>1, RebuiltReads
         DEF Refusal!EchoIsSafe, Refusal!NothingLeaks, Refusal!PassesOrFits,
             Refusal!ClientUnderstands
  <2>5. CASE mode = "responses"
    <3>1. Refusal!Echo(mode, b) = Refusal!ResponsesEcho(b)
      BY <2>5 DEF Refusal!Echo
    <3> QED
      BY <2>1, <2>2, <2>5, <3>1, ResponsesEchoReads
         DEF Refusal!EchoIsSafe, Refusal!NothingLeaks, Refusal!PassesOrFits,
             Refusal!ClientUnderstands
  <2>6. CASE mode = "chat"
    <3>1. Refusal!Echo(mode, b) = Refusal!ChatEcho(b)
      BY <2>6 DEF Refusal!Echo
    <3> QED
      BY <2>1, <2>2, <2>3, <2>6, <3>1, ChatEchoReads
         DEF Refusal!EchoIsSafe, Refusal!NothingLeaks, Refusal!PassesOrFits,
             Refusal!ClientUnderstands
  <2> QED
    BY <2>4, <2>5, <2>6 DEF Refusal!Modes
<1> QED
  BY <1>1, <1>2 DEF Refusal!Next

-----------------------------------------------------------------------------
(* The attempt in the gateway child                                           *)

\* Any number of chunks, every order of upstream's bytes, timers, disconnects and callbacks: an
\* attempt whose request is passed on to another key has left nothing in the client's
\* response and holds nothing for it, and a response that ends cleanly is a whole answer
\* (proxyRequest and its close, error and end handlers); what upstream says when it refuses
\* reaches the client scrubbed, announced with a length that fits and in a shape it
\* parses (chatUpstreamErrorEcho, buildResponsesUpstreamError; server.mjs).
THEOREM AnswersAreClean == Init /\ [][Next]_vars => []AnswerIsClean
<1> DEFINE I == (part = "proxy" => AttemptInv) /\ (part = "refusal" => Refusal!EchoIsSafe)
<1>1. Init => I
  BY AttemptStart, RefusalStart DEF Init
<1>2. I /\ [Next]_vars => I'
  <2> SUFFICES ASSUME I, [Next]_vars PROVE I'
    OBVIOUS
  <2>1. CASE UNCHANGED vars
    <3>1. part' = part /\ m' = m /\ UNCHANGED Proxy!vars
      BY <2>1 DEF vars, proxy, Proxy!vars
    <3>2. [Proxy!Next]_(Proxy!vars) /\ [Refusal!Next]_m
      BY <3>1
    <3> QED
      BY <3>1, <3>2, AttemptStep, RefusalStep
  <2>2. ASSUME OfProxy(Proxy!Next) PROVE I'
    BY <2>2, AttemptStep DEF OfProxy
  <2>3. ASSUME Of("refusal", Refusal!Next) PROVE I'
    BY <2>3, RefusalStep DEF Of
  <2>4. part \notin {"proxy", "refusal"} /\ UNCHANGED part => I'
    OBVIOUS
  <2> QED
    BY <2>1, <2>2, <2>3, <2>4 DEF Next, Of, OfRequest, OfProxy
<1>3. I => AnswerIsClean
  BY AttemptIsClean DEF AnswerIsClean
<1> QED
  BY <1>1, <1>2, <1>3, PTL

\* And the key that carried the attempt is judged by what upstream did: no key is both
\* credited and charged for one request, a credit is for a completed answer without an
\* error in it, and the client's leaving, the deadline or the stream's time limit cost it
\* nothing (accountOutcome of proxyRequest, server.mjs).
THEOREM KeysAreJudgedFairly == Init /\ [][Next]_vars => []KeyIsJudgedFairly
<1> DEFINE I == part = "proxy" => AttemptInv
<1>1. Init => I
  BY AttemptStart DEF Init
<1>2. I /\ [Next]_vars => I'
  <2> SUFFICES ASSUME I, [Next]_vars PROVE I'
    OBVIOUS
  <2>1. CASE UNCHANGED vars
    <3>1. part' = part /\ UNCHANGED Proxy!vars
      BY <2>1 DEF vars, proxy, Proxy!vars
    <3>2. [Proxy!Next]_(Proxy!vars)
      BY <3>1
    <3> QED
      BY <3>1, <3>2, AttemptStep
  <2>2. ASSUME OfProxy(Proxy!Next) PROVE I'
    BY <2>2, AttemptStep DEF OfProxy
  <2>3. part # "proxy" /\ UNCHANGED part => I'
    OBVIOUS
  <2> QED
    BY <2>1, <2>2, <2>3 DEF Next, Of, OfRequest, OfProxy
<1>3. I => KeyIsJudgedFairly
  BY AttemptIsClean DEF KeyIsJudgedFairly
<1> QED
  BY <1>1, <1>2, <1>3, PTL
=============================================================================

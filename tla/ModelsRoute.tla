----------------------------- MODULE ModelsRoute -----------------------------
(***************************************************************************)
(* GET /v1/models (handleModelsWithFailover and handleModelsRequest of     *)
(* src/gateway/server.mjs): a walk over the keys of its own, without a     *)
(* model, and one buffered upstream request per attempt.  A 200 releases   *)
(* the request's deadline; the 30-second socket timeout bounds its body.   *)
(***************************************************************************)
EXTENDS Integers, FiniteSets

CONSTANTS
  Keys, NoKey,
  Caps,         \* attempt caps the environment or a profile may configure
  MaxChanges    \* bound: changes of the pool by others during the request

VARIABLE w      \* the request, one record

Kinds == {"none", "infra", "loud", "cut", "final"}   \* how a key's last attempt ended

TypeOK ==
  /\ w.at \in {"deciding", "attempt", "done"}
  /\ w.avail \in [Keys -> {"ready", "backoff", "parked"}] /\ w.changes \in 0 .. MaxChanges
  /\ w.attempt \in 0 .. w.max /\ w.key \in Keys \cup {NoKey}
  /\ w.pass \subseteq Keys /\ w.silent \subseteq Keys       \* passTriedKeyIds, silentKeyIds
  /\ {w.loud, w.fired, w.overdue, w.stall} \subseteq BOOLEAN
  \* The attempt: what upstream has sent, and the flags of its closure.
  /\ w.up \in {"idle", "connecting", "ok", "bad", "over"}
  /\ {w.released, w.cut, w.clientGone} \subseteq BOOLEAN
  /\ w.answer \in {"none", "list", "final", "toolarge", "broken", "exhausted", "deadline",
                   "silent", "nokeys"}
  /\ w.last \in [Keys -> Kinds]
  /\ w.charges \in Nat /\ w.faults \in Nat                  \* history: of the current attempt
  /\ w.dropped \in BOOLEAN                                  \* history: left without an answer

-----------------------------------------------------------------------------
(* tryNext *)

Active   == {k \in Keys : w.avail[k] # "parked"}
Ready    == {k \in Keys : w.avail[k] = "ready"}
Eligible == IF Ready # {} THEN Ready ELSE Active
Fresh    == Eligible \ w.pass

PassComplete == w.attempt > 0 /\ Eligible # {} /\ Fresh = {}

\* A mutant: only the keys that can serve now are asked whether they were silent.
BugSilentPass == PassComplete /\ Eligible \subseteq w.silent

\* Every key of the pass failed on the way to upstream, and nothing else ever failed.
SilentPass == PassComplete /\ ~w.loud /\ w.pass \cup Eligible \subseteq w.silent

\* A body that stalled after a released deadline is not a deadline's cut.
Stalled  == ~w.fired /\ w.stall /\ w.overdue
TooLate  == w.fired \/ w.overdue
Verdict ==
  CASE Stalled -> "exhausted"
    [] ~Stalled /\ TooLate -> "deadline"
    [] ~TooLate /\ SilentPass -> "silent"
    [] ~TooLate /\ ~SilentPass /\ w.attempt >= w.max -> "exhausted"
    [] ~TooLate /\ ~SilentPass /\ w.attempt < w.max /\ Eligible = {} -> "nokeys"
    [] OTHER -> "none"

\* Nothing is written to a client that is gone.
GiveUp ==
  /\ w.at = "deciding" /\ Verdict # "none"
  /\ w' = [w EXCEPT !.at = "done", !.answer = Verdict]

\* getNextKey without a model: keys without a backoff first.
Choosable(allowed) == IF allowed \cap Ready # {} THEN allowed \cap Ready ELSE allowed

\* The deadline's timer is set anew for each attempt; a client that left before hears of
\* no later attempt.
Attempt(k) ==
  /\ w.at = "deciding" /\ Verdict = "none"
  /\ k \in Choosable(IF PassComplete THEN Eligible ELSE Fresh)
  /\ w' = [w EXCEPT !.at = "attempt", !.attempt = @ + 1, !.key = k,
                    !.pass = (IF PassComplete THEN {} ELSE @) \cup {k},
                    !.silent = IF PassComplete THEN {} ELSE @,
                    !.up = "connecting", !.released = FALSE, !.cut = FALSE,
                    !.charges = 0, !.faults = 0]

-----------------------------------------------------------------------------
(* The end of an attempt *)

\* handleKeyError: a 401 parks, a 429 or 5xx backs off, the rest leaves the key as it is.
Charged(s, kind) ==
  [s EXCEPT !.charges = @ + 1,
            !.avail[s.key] = CASE @ = "parked" \/ kind = "401" -> "parked"
                               [] @ # "parked" /\ kind = "502" -> "backoff"
                               [] OTHER -> @]

\* onResult, the first time: a result that ends the request, or the loop goes on.
Ends(s, answer) == [s EXCEPT !.at = "done", !.answer = answer, !.up = "over"]
Retries(s, kind, stall) ==
  [s EXCEPT !.at = "deciding", !.up = "over", !.stall = stall, !.last[s.key] = kind,
            !.fired = @ \/ kind = "cut", !.loud = @ \/ kind = "loud",
            !.silent = IF kind = "infra" THEN @ \cup {s.key} ELSE @]

Flying == w.at = "attempt" /\ w.up # "over"

\* Upstream begins to answer; of the good statuses only a 200 releases the deadline.
Answers(status, is200) ==
  /\ Flying /\ w.up = "connecting" /\ ~w.clientGone
  /\ w' = [w EXCEPT !.up = status, !.released = status = "ok" /\ is200]

\* The whole body has come: the list, or an error that is charged and retried or passed
\* on. A list that does not parse is passed on as it is.
BodyEnds(kind) ==
  /\ Flying /\ w.up \in {"ok", "bad"} /\ ~w.clientGone
  /\ IF w.up = "ok" THEN kind = "none" /\ w' = Ends(w, "list")
     ELSE /\ kind # "none"
          /\ LET s == Charged([w EXCEPT !.faults = @ + 1], kind)
             IN w' = IF kind = "client" THEN Ends(s, "final") ELSE Retries(s, "loud", FALSE)

\* More than the buffer holds.
Overflows == Flying /\ w.up \in {"ok", "bad"} /\ ~w.clientGone /\ w' = Ends(w, "toolarge")

\* The response breaks off in the middle: the request ends, the key is not charged.
BreaksOff == Flying /\ w.up \in {"ok", "bad"} /\ w' = Ends(w, "broken")

\* The guard of the error handler: the client is gone, or the deadline cut the attempt.
Held(s) == s.clientGone \/ s.cut

\* The request's error: DNS or refused, a reset, or the socket's timeout.
RequestFails(infra) ==
  /\ Flying /\ (infra => w.up = "connecting")
  /\ w' = IF Held(w)
          THEN [w EXCEPT !.up = "over", !.dropped = TRUE]
          ELSE LET s == [w EXCEPT !.faults = IF w.clientGone THEN @ ELSE @ + 1]
               IN IF infra THEN Retries([s EXCEPT !.faults = w.faults], "infra", FALSE)
                  ELSE Retries(Charged(s, "502"), "loud", w.released)

\* Node reports a request destroyed before its answer as an error of the request, and
\* one destroyed later as a response that was aborted.
Destroyed ==
  /\ Flying /\ w.clientGone
  /\ IF w.up = "connecting" THEN RequestFails(FALSE) ELSE BreaksOff

\* After the end of a complete answer its socket is reset before it closes.
LateReset ==
  /\ w.at = "done" /\ w.answer \in {"list", "final"} /\ w.charges < 2
  /\ w' = IF Held(w) THEN w ELSE Charged([w EXCEPT !.faults = @ + 1], "502")

\* The deadline's timer. A released one no longer runs.
DeadlineCuts ==
  /\ Flying /\ w.overdue /\ ~w.released
  /\ ~w.clientGone
  /\ w' = Retries([w EXCEPT !.cut = TRUE], "cut", FALSE)

\* The destroyed request's error comes when the loop has long gone on.
LateError ==
  /\ w.cut /\ w.at # "attempt" /\ w.up = "over" /\ w.charges = 0 /\ w.key # NoKey
  /\ w' = IF Held(w) THEN [w EXCEPT !.key = NoKey] ELSE Charged([w EXCEPT !.key = NoKey], "502")

-----------------------------------------------------------------------------
(* Around the request *)

\* abortModelsUpstream: the timer is released, the upstream request destroyed.
ClientLeaves ==
  /\ w.at = "attempt" /\ ~w.clientGone
  /\ w' = [w EXCEPT !.clientGone = TRUE]

DeadlinePasses == w.at = "attempt" /\ ~w.overdue /\ w' = [w EXCEPT !.overdue = TRUE]

PoolChanges(k, a) ==
  /\ w.at = "attempt" /\ w.changes < MaxChanges /\ w.avail[k] # a
  /\ w' = [w EXCEPT !.avail[k] = a, !.changes = @ + 1]

\* resolveMaxFailoverAttempts: the cap, at least the active keys.
Init ==
  \E avail \in [Keys -> {"ready", "backoff", "parked"}], cap \in Caps :
    LET active == Cardinality({k \in Keys : avail[k] # "parked"})
    IN w = [at |-> "deciding", avail |-> avail, changes |-> 0,
            attempt |-> 0, max |-> IF active > cap THEN active ELSE cap,
            key |-> NoKey, pass |-> {}, silent |-> {}, loud |-> FALSE, fired |-> FALSE,
            overdue |-> FALSE, stall |-> FALSE, up |-> "idle", released |-> FALSE,
            cut |-> FALSE, clientGone |-> FALSE,
            answer |-> "none", last |-> [k \in Keys |-> "none"],
            charges |-> 0, faults |-> 0, dropped |-> FALSE]

\* What ends an attempt. The socket's timeout is RequestFails(FALSE), always possible.
Progress ==
  \/ GiveUp \/ (\E k \in Keys : Attempt(k)) \/ Overflows \/ BreaksOff \/ Destroyed
  \/ \E kind \in {"none", "401", "502", "dispatch", "client"} : BodyEnds(kind)
  \/ \E infra \in BOOLEAN : ~w.clientGone /\ RequestFails(infra)
  \/ DeadlineCuts

Next ==
  \/ Progress \/ \E status \in {"ok", "bad"}, is200 \in BOOLEAN : Answers(status, is200)
  \/ LateReset \/ LateError \/ ClientLeaves \/ DeadlinePasses
  \/ \E k \in Keys, a \in {"ready", "backoff", "parked"} : PoolChanges(k, a)

Spec     == Init /\ [][Next]_w
FairSpec == Spec /\ WF_w(Progress)

-----------------------------------------------------------------------------
(* Properties *)

\* The neutral 503 says that no key reached upstream: every key that can serve was tried
\* in this pass, and no attempt of the request failed in any other way.
SilenceIsHonest ==
  w.answer = "silent" => /\ Eligible # {} /\ Eligible \subseteq w.pass
                         /\ \A k \in Keys : w.last[k] \in {"none", "infra"}
                         /\ \A k \in w.pass : w.last[k] = "infra"

\* A key is charged once for each fault of upstream and for nothing else: not for a client
\* that left, not for the deadline and not for the network in front of upstream, whatever
\* events the destroyed request still delivers.
ChargedForFaults == w.charges = w.faults

RouteIsHonest == SilenceIsHonest /\ ChargedForFaults
=============================================================================

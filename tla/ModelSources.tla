----------------------------- MODULE ModelSources -----------------------------
(***************************************************************************)
(* What the gateway knows of the models of NVIDIA comes from three lists,  *)
(* each fetched once in a while and kept: the models themselves            *)
(* (src/gateway/model-discovery.mjs), their catalog records                *)
(* (nvidia-catalog-sync.mjs) and a public ranking (llm-stats-ranking.mjs). *)
(* They work alike: one fetch at a time, whose first outcome counts; a     *)
(* list that was fetched once is served while it is being renewed; nobody  *)
(* waits for longer than a timer.                                          *)
(*                                                                         *)
(* A list is the number of the good answer it came from; 0 is an empty     *)
(* list, -1 none.                                                          *)
(***************************************************************************)
EXTENDS Integers, Sequences, FiniteSets, SequencesExt

CONSTANT MaxGood        \* bound: good answers of the source

VARIABLE b              \* a source, one record

Unset == -1
\* Catalog records: an id, and what else they may be asked for by.
Rows == [id : {"a", "b"}, alias : {"a", "b", "c"}]

TypeOK ==
  /\ b.source \in {"models", "catalog", "ranking"}
  /\ {b.cache, b.file, b.good, b.best} \subseteq -1 .. MaxGood
  /\ {b.fresh, b.failing, b.enabled, b.loaded, b.moved} \subseteq BOOLEAN
  /\ b.http \in {"no", "asked", "body", "ended", "over"}
  /\ b.result \in {"none", "good", "empty", "useless", "failed"}
  /\ b.whole \in {"none", "good", "empty", "useless", "failed"}    \* history: the first outcome
  /\ b.caller \in {"none", "waits", "syncs"}
  /\ b.answer \in {"none", "list", "fallback", "empty", "unranked", "synced", "unsynced"}
  /\ DOMAIN b.index \subseteq {"a", "b", "c"}

-----------------------------------------------------------------------------
(* One fetch *)

InFlight == b.http # "no"

\* The fetch of a caller, or the one under way.
Asked(q) == IF InFlight THEN q ELSE [q EXCEPT !.http = "asked", !.result = "none", !.whole = "none"]

\* The first outcome of a promise is its only one.
Settled(q, outcome) == IF q.result = "none" THEN [q EXCEPT !.result = outcome] ELSE q

\* For the record: what happened first.
Happened(q, outcome) == Settled([q EXCEPT !.whole = IF @ = "none" THEN outcome ELSE @], outcome)

Headers == b.http = "asked" /\ b' = [b EXCEPT !.http = "body"]

\* The body is above the cap, and the socket is torn down.
Overflows == b.http = "body" /\ b' = [Happened(b, "failed") EXCEPT !.http = "ended"]

\* The body ends: another status, no JSON, nothing of use in it, no records, or a list.
BodyEnds(outcome) ==
  /\ b.http = "body"
  /\ outcome = "good" => b.good < MaxGood
  /\ b' = [Happened(b, outcome) EXCEPT !.http = "ended"]

\* A reset or the socket's timer.
Breaks == b.http \in {"asked", "body"} /\ b' = [Happened(b, "failed") EXCEPT !.http = "over"]

\* The response closes after its end, and once more the promise is asked to fail.
Closes == b.http = "ended" /\ b' = [Settled(b, "failed") EXCEPT !.http = "over"]

-----------------------------------------------------------------------------
(* What a fetch leaves *)

\* Ids first, the last record of an id winning; then every alias that is free.
Index(rows) ==
  LET ids == {rows[i].id : i \in DOMAIN rows}
      OfAlias(k) == CHOOSE i \in DOMAIN rows :
                      rows[i].alias = k /\ \A j \in 1 .. i - 1 : rows[j].alias # k
  IN [k \in ids \cup {rows[i].alias : i \in DOMAIN rows} |->
        IF k \in ids THEN k ELSE rows[OfAlias(k)].id]

Stored(q, n) == [q EXCEPT !.cache = n, !.fresh = TRUE, !.moved = TRUE]

\* A good list is kept, and the ranking is written to its file, which may fail.
Good(q, rows, written) ==
  LET r == [Stored(q, q.good + 1) EXCEPT !.good = @ + 1, !.best = q.good + 1]
  IN CASE q.source = "catalog" -> [r EXCEPT !.index = Index(rows)]
       [] q.source = "ranking" -> [r EXCEPT !.failing = FALSE,
                                            !.file = IF written THEN r.cache ELSE @]
       [] OTHER -> r

\* An answer without records: the catalog keeps a list that has some, and believes in an
\* empty one only when the answer owns up to it; the models are what the answer says; the
\* ranking takes it for a failure.
Barren(q) ==
  CASE q.source = "catalog" -> IF q.cache > 0 \/ q.result = "useless" THEN q ELSE Stored(q, 0)
    [] q.source = "models"  -> Stored(q, 0)
    [] q.source = "ranking" -> [q EXCEPT !.failing = TRUE]

Failed(q) == IF q.source = "ranking" THEN [q EXCEPT !.failing = TRUE] ELSE q

\* What a caller gets of the list there is.
Served(q) ==
  IF q.cache >= 0 /\ (q.source # "ranking" \/ q.cache > 0) THEN "list"
  ELSE CASE q.source = "models"  -> "fallback"
         [] q.source = "catalog" -> "empty"
         [] q.source = "ranking" -> "unranked"

\* The fetch is over: the list is renewed or kept, and whoever waits is answered. A sync
\* of the catalog reports whether the list was renewed while it waited.
Answered(q) ==
  CASE q.caller = "waits" -> [q EXCEPT !.caller = "none", !.answer = Served(q)]
    [] q.caller = "syncs" -> [q EXCEPT !.caller = "none",
                                       !.answer = IF q.moved THEN "synced" ELSE "unsynced"]
    [] OTHER -> q

Lands(rows, written) ==
  /\ b.http \in {"ended", "over"} /\ b.result # "none"
  /\ LET q == CASE b.result = "good" -> Good(b, rows, written)
               [] b.result \in {"empty", "useless"} -> Barren(b)
               [] OTHER -> Failed(b)
     IN b' = [Answered(q) EXCEPT !.http = "no"]

-----------------------------------------------------------------------------
(* Callers *)

\* The ranking's file is read when it is first asked for.
Loaded(q, aged) ==
  IF q.source # "ranking" \/ q.loaded THEN q
  ELSE [q EXCEPT !.loaded = TRUE, !.cache = q.file, !.fresh = q.file > 0 /\ ~aged]

\* A list that is fresh is served; an older one too, and renewed behind the answer; the
\* ranking is never waited for, nor asked again soon after a failure.
Calls(aged) ==
  /\ b.caller = "none"
  /\ LET q == Loaded(b, aged)
         served == [q EXCEPT !.answer = Served(q)]
         settled == q.fresh \/ (q.source = "ranking" /\ q.failing)
         present == q.cache # Unset \/ q.source = "ranking"
     IN b' = IF b.source = "ranking" /\ ~b.enabled THEN [b EXCEPT !.answer = "unranked"]
             ELSE CASE settled -> served
                    [] ~settled /\ present -> Asked(served)
                    [] OTHER -> Asked([q EXCEPT !.caller = "waits", !.answer = "none"])

\* A renewal by hand: the models are waited for as above, the catalog until its fetch is over.
Renews ==
  /\ b.caller = "none" /\ b.source \in {"models", "catalog"}
  /\ b' = Asked([b EXCEPT !.caller = IF b.source = "catalog" THEN "syncs" ELSE "waits",
                          !.answer = "none", !.moved = FALSE])

\* The bounded wait of a caller ends first.
WaitTimer == b.caller = "waits" /\ b' = [b EXCEPT !.caller = "none", !.answer = Served(b)]

\* The list ages; the time without a new try after a failure passes; the owner of the
\* gateway turns the ranking off or on; the process is started again.
Ages == b.fresh /\ b' = [b EXCEPT !.fresh = FALSE]
BackoffPasses == b.failing /\ b' = [b EXCEPT !.failing = FALSE]
Toggles == b.source = "ranking" /\ b' = [b EXCEPT !.enabled = ~@]

Restarts ==
  /\ b.cache # Unset
  /\ b' = [b EXCEPT !.cache = Unset, !.fresh = FALSE, !.failing = FALSE, !.loaded = FALSE, !.best = Unset,
                    !.http = "no", !.result = "none", !.whole = "none", !.caller = "none",
                    !.answer = "none", !.index = <<>>, !.moved = FALSE]

-----------------------------------------------------------------------------

Init ==
  \E source \in {"models", "catalog", "ranking"} :
    b = [source |-> source, cache |-> Unset, fresh |-> FALSE, failing |-> FALSE, loaded |-> FALSE,
         enabled |-> TRUE, file |-> Unset, good |-> 0, best |-> Unset, http |-> "no", result |-> "none",
         whole |-> "none", caller |-> "none", answer |-> "none", index |-> <<>>, moved |-> FALSE]

Fetch ==
  \/ Headers \/ Overflows \/ Breaks \/ Closes
  \/ (\E outcome \in {"good", "empty", "useless", "failed"} : BodyEnds(outcome))
  \/ (\E rows \in (IF b.source = "catalog" THEN [1 .. 2 -> Rows] ELSE {<<>>}),
         written \in (IF b.source = "ranking" THEN BOOLEAN ELSE {FALSE}) : Lands(rows, written))

Next ==
  \/ Fetch \/ WaitTimer \/ (\E aged \in BOOLEAN : Calls(aged)) \/ Renews
  \/ Ages \/ BackoffPasses \/ Toggles \/ Restarts

\* A fetch ends, by its own timer at the latest.
Fairness == WF_b(Fetch)

Spec == Init /\ [][Next]_b /\ Fairness

-----------------------------------------------------------------------------
(* Properties *)

\* The promise of a fetch says what happened first.
FirstOutcomeCounts == InFlight => b.result = b.whole

\* The catalog and the ranking hold the newest good list of the process: no failure and no
\* empty answer replaces it.
GoodListsStay == b.best > 0 /\ b.source # "models" => b.cache = b.best

\* Whatever a record may also be called, an id finds its own record.
IdsFindTheirOwn == \A k \in {b.index[j] : j \in DOMAIN b.index} : b.index[k] = k

SourcesAreKept == FirstOutcomeCounts /\ GoodListsStay /\ IdsFindTheirOwn
=============================================================================

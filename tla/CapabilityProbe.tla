--------------------------- MODULE CapabilityProbe ---------------------------
(***************************************************************************)
(* What the gateway says of one model's reasoning, and what it sends: the  *)
(* probe that asks upstream (src/gateway/capability-probe.mjs), its cache  *)
(* and the file behind it, the registry of known families                  *)
(* (capability-registry.mjs), the row of /v1/models built from both, and   *)
(* the control a request of the Anthropic facade carries                   *)
(* (anthropic-adapter.mjs).                                                *)
(*                                                                         *)
(* One model: the caches of two models share nothing but the file, which   *)
(* is written whole. A caller that meets a probe in flight joins it, so    *)
(* the entry a probe started from is the entry it ends on. Time is one     *)
(* bit: an entry is fresh until it ages.                                   *)
(***************************************************************************)
EXTENDS Integers, FiniteSets

CONSTANT MaxRestarts    \* bound: restarts of the child

VARIABLE p              \* the probe and its cache, one record

Modes      == {"none", "high"}           \* PROBE_CANDIDATES
Replies    == {"reasoned", "silent", "cut", "rejected", "unknown"}
Controls   == {"effort", "kwargs", "null", "absent", "odd"}   \* of an entry; odd: not drivable
None       == [modes |-> {}, supported |-> FALSE, control |-> "null", rejected |-> {}, none |-> TRUE]
Entry(modes, supported, control, rejected) ==
  [modes |-> modes, supported |-> supported, control |-> control, rejected |-> rejected,
   none |-> FALSE]

Rank == [m \in Modes |-> IF m = "high" THEN 1 ELSE 0]

TypeOK ==
  /\ p.at \in {"idle", "sentinel", "candidates"} /\ p.left \subseteq Modes
  /\ p.accepted \subseteq Modes /\ p.unknown \subseteq Modes /\ p.saw \in BOOLEAN
  /\ p.silent \in BOOLEAN /\ p.run \in 0 .. 1
  /\ p.entry.modes \cup p.entry.rejected \subseteq Modes /\ p.entry.control \in Controls
  /\ {p.fresh, p.file} \subseteq BOOLEAN /\ p.restarts \in 0 .. MaxRestarts
  /\ p.reasoned \in BOOLEAN /\ p.silences \in 0 .. 2           \* history, like the rest
  /\ p.missed \subseteq Modes
  /\ {p.lost, p.unproven, p.unearned} \subseteq BOOLEAN

-----------------------------------------------------------------------------
(* The registry: families with different controls, an unknown one, a model  *)
(* curated by hand, and the one whose control is numeric (exempt).          *)

Row(known, supported, control, modes, curated, exempt) ==
  [known |-> known, supported |-> supported, control |-> control, modes |-> modes,
   curated |-> curated, exempt |-> exempt]

Registry ==
  { Row(FALSE, FALSE, "null", {}, FALSE, FALSE), Row(TRUE, FALSE, "null", {}, FALSE, FALSE),
    Row(TRUE, TRUE, "effort", Modes, FALSE, FALSE), Row(TRUE, TRUE, "kwargs", {}, FALSE, FALSE),
    Row(TRUE, TRUE, "effort", {"high"}, TRUE, FALSE),
    Row(TRUE, TRUE, "null", {}, FALSE, TRUE) }

\* pickDefaultMode: high, else the strongest; "null" of nothing.
Pick(modes) ==
  CASE modes = {} -> "null"
    [] "high" \in modes -> "high"
    [] OTHER -> CHOOSE m \in modes : \A n \in modes : Rank[m] >= Rank[n]

-----------------------------------------------------------------------------
(* The entry *)

\* repairEntryInvariant: a control nobody drives carries no modes.
Repair(e) ==
  CASE e.none \/ e.control \in {"absent", "effort", "kwargs"} -> e
    [] ~e.none /\ e.control \in {"odd", "null"} ->
         [e EXCEPT !.control = "null", !.modes = IF e.supported THEN {} ELSE @]

\* A mutant: a mode is dropped by the first probe that misses it.
BugReconcile(old, new) == new

\* reconcileWithPrevious: a mode goes only when a second probe in a row misses it, unless
\* the model turns out to reason without a control.
Reconcile(old, new) ==
  IF old.none \/ old.modes = {} THEN new
  ELSE LET missing == old.modes \ new.modes
           held    == missing \ old.rejected
       IN [new EXCEPT !.modes = IF new.supported /\ new.control = "null" THEN {} ELSE @ \cup held,
                      !.rejected = (old.rejected \ old.modes) \cup held]

-----------------------------------------------------------------------------
(* The probe *)

\* probeAndCacheReasoningModes, from the sweep that a served catalog schedules: a model
\* whose entry is missing or old, one probe at a time.
Starts ==
  /\ p.at = "idle" /\ (p.entry.none \/ ~p.fresh)
  /\ p' = [p EXCEPT !.at = "sentinel"]

\* The sentinel: an effort no model has. Accepted, the candidates are asked one by one; a
\* validation error may list what to ask; anything else proves nothing.
Sentinel(reply, listed) ==
  /\ p.at = "sentinel" /\ (listed # {} => reply = "rejected")
  /\ p' = CASE reply = "unknown" -> [p EXCEPT !.at = "idle", !.run = 0, !.silences = 0]
            [] reply = "rejected" ->
                 [p EXCEPT !.at = "candidates", !.left = IF listed = {} THEN Modes ELSE listed]
            [] OTHER ->
                 [p EXCEPT !.at = "candidates", !.left = Modes, !.saw = reply = "reasoned",
                           !.reasoned = reply = "reasoned"]

\* One candidate's answer, classified: only the computed answer inside reasoning output is
\* evidence; a truncated or empty one is accepted, and proves nothing.
Heard(q, m, reply) ==
  [q EXCEPT !.accepted = @ \cup (IF reply \in {"reasoned", "silent", "cut"} THEN {m} ELSE {}),
            !.unknown = @ \cup (IF reply \in {"cut", "unknown"} THEN {m} ELSE {}),
            !.saw = @ \/ reply = "reasoned", !.silent = @ \/ reply = "silent"]

Candidate(reply) ==
  /\ p.at = "candidates" /\ p.left # {}
  /\ LET m == CHOOSE x \in p.left : \A y \in p.left : Rank[x] <= Rank[y]
     IN p' = [Heard(p, m, reply) EXCEPT !.left = @ \ {m}, !.reasoned = @ \/ reply = "reasoned"]

\* The run of silent probes: the second one in a row is published, evidence and
\* inconclusive probes end it, a rejection of every value leaves it.
Run(q) ==
  CASE q.accepted = {} /\ q.unknown = {} /\ ~q.saw -> q.run
    [] q.accepted # {} /\ ~q.saw /\ q.silent -> (q.run + 1) % 2
    [] OTHER -> 0

\* What probeCandidatesIndividually returns; None: no verdict.
Verdict(q) ==
  CASE q.accepted = {} /\ q.saw -> Entry({}, TRUE, "null", {})
    [] q.accepted = {} /\ ~q.saw /\ q.unknown = {} -> Entry({}, FALSE, "null", {})
    [] q.accepted # {} /\ q.saw -> Entry(q.accepted \cup q.unknown, TRUE, "effort", {})
    [] q.accepted # {} /\ ~q.saw /\ q.silent /\ q.run = 1 ->
         Entry(q.accepted \cup q.unknown, FALSE, "null", {})
    [] OTHER -> None

\* History: silent probes in a row, as the replies tell.
Refused(q) == q.accepted = {} /\ q.unknown = {} /\ ~q.reasoned
Silences(q) ==
  CASE Refused(q) -> q.silences
    [] ~Refused(q) /\ q.silent /\ ~q.reasoned -> IF q.silences = 2 THEN 2 ELSE q.silences + 1
    [] OTHER -> 0

\* What a probe keeps for itself is gone with it.
Cleared(q) == [q EXCEPT !.left = {}, !.accepted = {}, !.unknown = {}, !.saw = FALSE,
                        !.silent = FALSE, !.reasoned = FALSE]

\* The verdict is cached and written.
Concludes ==
  /\ p.at = "candidates" /\ p.left = {}
  /\ LET v == Verdict(p)
         e == Reconcile(p.entry, v)
         q == [p EXCEPT !.at = "idle", !.run = Run(p), !.silences = Silences(p)]
     IN p' = IF v.none THEN Cleared(q)
             ELSE [Cleared(q) EXCEPT !.entry = e, !.fresh = TRUE,
                            !.missed = e.modes \ v.modes,
                            !.lost = /\ ~(e.supported /\ e.control = "null")
                                     /\ p.entry.modes \ (e.modes \cup p.missed) # {},
                            !.unproven = e.supported /\ ~p.reasoned,
                            !.unearned = ~e.supported /\ ~Refused(p) /\ Silences(p) < 2]

Ages == p.fresh /\ p' = [p EXCEPT !.fresh = FALSE]

\* A restart: the file is read at the first use and repaired; the run of silent probes
\* and the probe in flight are gone. A file of a past build may hold anything; without
\* a path that can be written, the cache is of memory only.
Loaded(q, entry, fresh) ==
  [Cleared(q) EXCEPT !.at = "idle", !.run = 0, !.entry = Repair(entry),
                     !.fresh = fresh /\ ~entry.none]

Restarts(fresh) ==
  /\ p.restarts < MaxRestarts
  /\ LET q == [p EXCEPT !.restarts = @ + 1]
     IN p' = IF p.file THEN Loaded(q, p.entry, fresh)
             ELSE [Loaded(q, None, FALSE) EXCEPT !.missed = {}]

-----------------------------------------------------------------------------
(* What is advertised, and what is sent *)

\* resolveEntryControlKey.
ControlOf(e) ==
  CASE e.control \in {"effort", "kwargs"} -> e.control
    [] e.control = "absent" /\ e.modes # {} -> "effort"
    [] OTHER -> "null"

Advertised(trusted, supported, control, modes) ==
  [trusted |-> trusted, supported |-> supported, control |-> control, modes |-> modes]
Untrusted == Advertised(FALSE, FALSE, "null", {})

\* resolveAdvertisedReasoning: a fresh positive probe counts, narrowed by what was curated;
\* a negative one only where the registry knows of no reasoning.
Resolve(row, e, fresh) ==
  CASE e.none \/ ~fresh \/ (~e.supported /\ row.supported) -> Untrusted
    [] ~e.none /\ fresh /\ ~e.supported /\ ~row.supported -> Advertised(TRUE, FALSE, "null", {})
    [] ~e.none /\ fresh /\ e.supported /\ row.curated ->
         Advertised(TRUE, TRUE, row.control,
                    IF row.modes \cap e.modes = {} THEN row.modes ELSE row.modes \cap e.modes)
    [] OTHER -> Advertised(TRUE, TRUE, IF e.modes = {} THEN "null" ELSE ControlOf(e), e.modes)

Said(supported, control, modes) == [supported |-> supported, control |-> control, modes |-> modes]

\* mergeProbedReasoning over getCapabilityMetadata: the row of /v1/models.
Shown(row, adv) ==
  CASE row.exempt \/ ~adv.trusted -> Said(row.supported, row.control, row.modes)
    [] ~row.exempt /\ adv.trusted /\ adv.supported /\ row.control = "kwargs" ->
         Said(TRUE, row.control, row.modes)
    [] OTHER -> Said(adv.supported, adv.control, IF adv.control = "null" THEN {} ELSE adv.modes)

\* readProbedReasoning over getReasoningCapability: what the Anthropic facade goes by.
Believed(row, adv) ==
  CASE row.exempt \/ ~adv.trusted -> Said(row.supported, row.control, row.modes)
    [] ~row.exempt /\ adv.trusted /\ row.control = "kwargs" ->
         Said(adv.supported \/ row.supported, row.control, row.modes)
    [] OTHER -> Said(adv.supported, adv.control, IF adv.control = "null" THEN {} ELSE adv.modes)

\* The effort nearest below the wanted one, else the default.
Clamp(wanted, modes) ==
  LET below == {m \in modes : Rank[m] <= Rank[wanted]}
  IN CASE modes = {} -> wanted
       [] modes # {} /\ below # {} -> CHOOSE m \in below : \A n \in below : Rank[m] >= Rank[n]
       [] OTHER -> Pick(modes)

\* What thinking on (at some budget) or off puts on the wire: an effort, the family's
\* switch, nothing, or a refusal. A family nobody knows is tried.
Sent(row, cap, on, wanted, glm) ==
  CASE on /\ ~cap.supported -> IF row.known THEN "refused" ELSE wanted
    [] on /\ cap.supported /\ cap.control = "effort" -> Clamp(wanted, cap.modes)
    [] cap.supported /\ cap.control = "kwargs" -> "switch"
    [] ~on /\ cap.supported /\ cap.control = "effort" ->
         CASE glm /\ cap.modes # {} -> Clamp("none", cap.modes)
           [] "none" \in cap.modes /\ ~(glm /\ cap.modes # {}) -> "none"
           [] OTHER -> "nothing"
    [] OTHER -> "nothing"

\* resolveAdvertisedKimiDefault: the effort the chat facade adds for the curated model.
ChatDefault(row, adv) ==
  IF adv.trusted THEN IF adv.control = "null" THEN "null" ELSE Pick(adv.modes) ELSE Pick(row.modes)

-----------------------------------------------------------------------------

Fresh0(file) ==
  [at |-> "idle", left |-> {}, accepted |-> {}, unknown |-> {}, saw |-> FALSE, silent |-> FALSE,
   run |-> 0, entry |-> None, fresh |-> FALSE, file |-> file, restarts |-> 0, reasoned |-> FALSE,
   silences |-> 0, missed |-> {}, lost |-> FALSE, unproven |-> FALSE,
   unearned |-> FALSE]

\* No file, or one an older build or a hand left.
Init ==
  \/ \E file \in BOOLEAN : p = Fresh0(file)
  \/ \E control \in {"absent", "odd", "kwargs"}, supported, fresh \in BOOLEAN :
       p = Loaded(Fresh0(TRUE), Entry(Modes, supported, control, {}), fresh)

Next ==
  \/ Starts \/ Ages
  \/ \E reply \in {"reasoned", "silent", "rejected", "unknown"}, listed \in {{}, {"high"}} :
       Sentinel(reply, listed)
  \/ (\E reply \in Replies : Candidate(reply))
  \/ Concludes
  \/ (\E fresh \in BOOLEAN : Restarts(fresh))

Spec == Init /\ [][Next]_p

-----------------------------------------------------------------------------
(* Properties *)

Adv(row) == Resolve(row, p.entry, p.fresh)

\* The cache says a model reasons only when it was seen to; it says it does not only after
\* two silent probes with nothing else between them, or one that rejects every value.
EvidenceOnly == ~p.unproven /\ ~p.unearned

\* A mode the cache listed is gone only after two probes in a row without it, unless the
\* model was found to reason without any control.
ModesFadeSlowly == ~p.lost

\* A model known to reason is never shown as one that does not, and what was curated by
\* hand is never widened.
RegistryStands ==
  \A row \in Registry :
    LET shown == Shown(row, Adv(row))
    IN /\ row.supported => shown.supported
       /\ row.curated => shown.modes \subseteq row.modes /\ shown.modes # {}

\* Two facades go by what /v1/models shows: an effort on the wire is one of the modes
\* shown, every model shown with efforts gets one, one shown without a control gets none.
WireMatchesRow ==
  \A row \in Registry :
    LET shown == Shown(row, Adv(row))
        cap   == Believed(row, Adv(row))
    IN /\ \A on, glm \in BOOLEAN, wanted \in Modes :
            LET sent == Sent(row, cap, on, wanted, glm)
            IN /\ sent \in Modes => sent \in shown.modes \/ (~row.known /\ ~shown.supported)
               /\ on /\ shown.modes # {} /\ shown.control = "effort" => sent \in shown.modes
               /\ shown.supported /\ shown.control = "null" => sent = "nothing"
       /\ row.curated => ChatDefault(row, Adv(row)) = Pick(shown.modes)

CapabilityIsHonest == EvidenceOnly /\ ModesFadeSlowly /\ RegistryStands /\ WireMatchesRow
=============================================================================

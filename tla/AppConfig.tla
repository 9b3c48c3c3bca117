------------------------------ MODULE AppConfig ------------------------------
(***************************************************************************)
(* The application's config.json and its writers (gateway-runtime.ts,      *)
(* models-ipc.ts, app-config-ipc.ts): settings, the port a retry proved,   *)
(* the per-model records and the list of disabled models, each written     *)
(* over a fresh reading of the whole file; the cached reading for polled   *)
(* channels; edits from outside. Ids are lower case, and the per-model     *)
(* flag "enabled", which the gateway does not consult, is left out.        *)
(***************************************************************************)
EXTENDS Integers, FiniteSets

CONSTANTS MaxConfigWrites, \* bound: writes by the application
          MaxOutside     \* bound: edits from outside

VARIABLE g               \* the file, its readers and writers, one record

\* A model the program knows, one it knows to be retired (EOL_DISABLED_MODELS), one that
\* only the live list has, one the user configured.
Models  == {"known", "retired", "listed", "own"}
Retired == {"retired"}

\* A port is 1 (the default), 2 or not valid, 0.
Content == [port : 0 .. 2, lang : {"en", "ru"}, deadline : {"none", "chosen", "bad"},
            mode : [Models -> {"norecord", "unset", "day", "night"}], other : BOOLEAN,
            disabled : SUBSET Models]
Default == [port |-> 1, lang |-> "en", deadline |-> "none", mode |-> [i \in Models |-> "norecord"],
            other |-> FALSE, disabled |-> {}]

\* What is no content: a file that cannot be read, or is not there.
Garbled == [Default EXCEPT !.lang = "garbled"]
Absent  == [Default EXCEPT !.lang = "absent"]
Nothing == [Default EXCEPT !.lang = "nothing"]

Readable(f) == f \notin {Garbled, Absent}

TypeOK ==
  /\ g.file \in Content \cup {Garbled, Absent} /\ g.truth \in Content
  /\ g.cache \in Content \cup {Nothing} /\ g.edited \in BOOLEAN
  /\ g.listed \subseteq Models                        \* lastKnownCatalog
  /\ g.asking \in {"none", "on", "off", "list"}       \* an answer of the gateway is awaited
  /\ g.seen \in Content \cup {Nothing}                \* read before the wait
  /\ g.retry \in 0 .. 2                               \* the port of a retry under way
  /\ g.writes \in 0 .. MaxConfigWrites /\ g.outside \in 0 .. MaxOutside

-----------------------------------------------------------------------------
(* Reading *)

\* readStoredAppConfig: what is stored, what is not valid replaced or dropped.
Stored(f) ==
  IF ~Readable(f) THEN Default
  ELSE [f EXCEPT !.port = IF @ = 0 THEN 1 ELSE @, !.deadline = IF @ = "bad" THEN "none" ELSE @]

\* The reading with its defaults: a deadline, and the global mode for a record without one.
Shown(f) ==
  [Stored(f) EXCEPT !.deadline = "chosen", !.other = FALSE,
                    !.mode = [i \in Models |-> IF @[i] = "unset" THEN "day" ELSE @[i]]]

\* Only what was really read is kept.
Cached(q) == IF Readable(q.file) THEN Shown(q.file) ELSE Nothing

Reads ==
  /\ g.cache = Nothing
  /\ g' = [g EXCEPT !.cache = Cached(g), !.edited = FALSE]

-----------------------------------------------------------------------------
(* Writing *)

Base(q) == Stored(q.file)

\* mergePerModelSettings: a patch on the record as it is in the file.
Merged(f, patch) ==
  [i \in Models |-> IF patch[i] # "keep" THEN patch[i] ELSE IF Readable(f) THEN f.mode[i] ELSE "norecord"]
NoPatch == [i \in Models |-> "keep"]

\* The new contents: unknown fields and records from the file, the rest from the base.
Written(q, update, patch) ==
  [update EXCEPT !.other = Readable(q.file) /\ q.file.other, !.mode = Merged(q.file, patch)]

\* Whatever came of the replacement, the cached reading goes.
Dropped(q, how) == [q EXCEPT !.cache = Nothing, !.edited = FALSE]

\* The temporary file fails and nothing has happened; the replacement fails; the file is
\* in place and its protection fails; or nothing fails.
Faults == {"temp", "rename", "protect", "none"}

Write(q, update, patch, meant, how) ==
  LET s == [q EXCEPT !.writes = @ + 1]
  IN CASE how = "temp"   -> s
       [] how = "rename" -> Dropped(s, how)
       [] OTHER -> [Dropped(s, how) EXCEPT !.file = Written(q, update, patch), !.truth = meant]

Meant(q) == Stored(q.truth)        \* what stays, as somebody last meant it

\* set-app-config.
SetsLanguage(v, how) ==
  /\ g.writes < MaxConfigWrites
  /\ g' = Write(g, [Base(g) EXCEPT !.lang = v], NoPatch, [Meant(g) EXCEPT !.lang = v], how)
SetsDeadline(v, how) ==
  /\ g.writes < MaxConfigWrites
  /\ g' = Write(g, [Base(g) EXCEPT !.deadline = v], NoPatch, [Meant(g) EXCEPT !.deadline = v], how)

\* retryGateway: the port is written once the gateway runs on it; the other fields stay
\* as they are in the file.
Retries(port) == g.retry = 0 /\ port > 0 /\ g' = [g EXCEPT !.retry = port]
RetryEnds(running, how) ==
  /\ g.retry > 0 /\ g.writes < MaxConfigWrites
  /\ LET q == [g EXCEPT !.retry = 0]
         f == IF Readable(g.file) THEN g.file ELSE Default
         t == [g.truth EXCEPT !.port = g.retry]
         s == [q EXCEPT !.writes = @ + 1]
     IN g' = CASE ~running -> q
               [] running /\ how = "temp"   -> s
               [] running /\ how = "rename" -> Dropped(s, how)
               [] OTHER -> [Dropped(s, how) EXCEPT !.file = [f EXCEPT !.port = g.retry], !.truth = t]

\* update-model-settings, toggle-model.
SetsMode(i, v, how) ==
  /\ g.writes < MaxConfigWrites
  /\ g' = Write(g, Base(g), [NoPatch EXCEPT ![i] = v], [Meant(g) EXCEPT !.mode[i] = v], how)
Toggles(i, on, how) ==
  /\ g.writes < MaxConfigWrites
  /\ LET Set(S) == IF on THEN S \ {i} ELSE S \cup {i}
     IN g' = Write(g, [Base(g) EXCEPT !.disabled = Set(@)], NoPatch,
                   [Meant(g) EXCEPT !.disabled = Set(@)], how)

-----------------------------------------------------------------------------
(* The models panel *)

\* Every model anybody knows of, and what the panel shows without a list (deriveFallbackCatalog).
Configured(f) == {i \in Models : f.mode[i] # "norecord"}
Fallback(f)    == {"known"} \cup Configured(f) \cup f.disabled
All(f, listed) == Fallback(f) \cup Retired \cup listed

\* bulk-toggle-models: the list is asked for when there is none; what was read before the
\* answer is read again after it.
Asks(what) ==
  /\ g.asking = "none" /\ (what # "list" => g.listed = {})
  /\ g' = [g EXCEPT !.asking = what, !.seen = Stored(g.file)]

\* A mutant: the reading from before the wait is used.
BugFresh(q) == q.seen

Fresh(q) == Stored(q.file)

\* All on leaves the retired models off. After a write without a list the fallback is kept.
Bulk(q, on, current, how) ==
  LET Off(f) == IF on THEN Retired ELSE All(f, q.listed)
      s == Write(q, [Base(q) EXCEPT !.disabled = Off(current)], NoPatch,
                 [Meant(q) EXCEPT !.disabled = Off(Meant(q))], how)
  IN IF how = "none" /\ q.listed = {} THEN [s EXCEPT !.listed = Fallback(Fresh(s))] ELSE s

BulkNow(on, how) ==
  /\ g.listed # {} /\ g.writes < MaxConfigWrites
  /\ g' = Bulk(g, on, Stored(g.file), how)

\* The gateway answers with its list, or cannot.
Answered(up, how) ==
  /\ g.asking # "none" /\ g.writes < MaxConfigWrites
  /\ LET q == [g EXCEPT !.asking = "none", !.listed = IF up THEN {"known", "listed"} ELSE @]
         s == [q EXCEPT !.seen = Nothing]
     IN g' = IF g.asking = "list" THEN s
             ELSE [Bulk(q, g.asking = "on", Fresh(q), how) EXCEPT !.seen = Nothing]

-----------------------------------------------------------------------------
(* From outside *)

\* The file is replaced, spoilt for a while, or taken away.
Outside(f) ==
  /\ g.outside < MaxOutside /\ f # g.file
  /\ g' = [g EXCEPT !.file = f, !.outside = @ + 1, !.edited = g.cache # Nothing,
                    !.truth = IF Readable(f) THEN f ELSE Default]

Hand == [Default EXCEPT !.port = 0, !.deadline = "bad", !.other = TRUE, !.lang = "ru",
                        !.mode = [i \in Models |-> IF i = "own" THEN "unset" ELSE "norecord"],
                        !.disabled = {"own"}]

\* ensureGatewayRuntime: a file that is not there is made; one that cannot be read stays.
Launches ==
  /\ g.asking # "none" \/ g.retry > 0 \/ g.cache # Nothing \/ g.file = Absent
  /\ g' = [g EXCEPT !.file = IF @ = Absent THEN Default ELSE @, !.cache = Nothing, !.edited = FALSE,
                    !.listed = {}, !.asking = "none", !.seen = Nothing, !.retry = 0]

-----------------------------------------------------------------------------

Init ==
  \E f \in {Default, Hand} :
    g = [file |-> f, truth |-> f, cache |-> Nothing, edited |-> FALSE, listed |-> {},
         asking |-> "none", seen |-> Nothing, retry |-> 0, writes |-> 0, outside |-> 0]

Next ==
  \/ Reads \/ Launches \/ (\E what \in {"on", "off", "list"} : Asks(what))
  \/ (\E port \in {1, 2} : Retries(port))
  \/ (\E f \in {Garbled, Absent, Hand} : Outside(f))
  \/ \E how \in Faults :
       \/ (\E v \in {"en", "ru"} : SetsLanguage(v, how))
       \/ (\E v \in {"none", "chosen"} : SetsDeadline(v, how))
       \/ (\E running \in BOOLEAN : RetryEnds(running, how))
       \/ (\E i \in Models : SetsMode(i, "night", how))
       \/ (\E i \in Models, on \in BOOLEAN : Toggles(i, on, how))
       \/ (\E on \in BOOLEAN : BulkNow(on, how)) \/ (\E up \in BOOLEAN : Answered(up, how))

Spec == Init /\ [][Next]_g

-----------------------------------------------------------------------------
(* Properties *)

\* Each writer changes what it is for and nothing else: everything anybody set stays, what
\* this version does not know and records without a mode included, and no default of the
\* program gets into the file, however writers, waits and faults follow each other.
WritersKeepTheRest == Readable(g.file) => g.file = g.truth

\* The cached reading is the file as it is, but for an edit from outside since; it is
\* never made up for a file that could not be read.
CacheIsCurrent == g.cache # Nothing /\ ~g.edited => Readable(g.file) /\ g.cache = Shown(g.file)

ConfigIsKept == WritersKeepTheRest /\ CacheIsCurrent
=============================================================================

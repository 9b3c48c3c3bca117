------------------------------ MODULE Migration ------------------------------
(***************************************************************************)
(* The explicit migration of an old installation                           *)
(* (src/main/final-migration-workflow.ts with legacy-nvidia-migration.ts,  *)
(* opencode-jsonc-sync.ts and the callbacks of index.ts): a transaction    *)
(* over the encrypted state, two OpenCode configuration files and the      *)
(* application's own configuration, with a journal of phases inside the    *)
(* state, protected backups, a compensation when a step fails, and a       *)
(* recovery when the process died.                                         *)
(*                                                                         *)
(* The workflow is synchronous but for the start and the stop of the       *)
(* gateway; the user, or another program, may edit any of the three files  *)
(* between two of its file operations. The comparison of a file with its   *)
(* snapshot and the rename that follows it are one step.                   *)
(***************************************************************************)
EXTENDS Integers, FiniteSets

CONSTANTS MaxFaults,    \* file operations and starts that fail
          MaxCrashes, MaxEdits

VARIABLES m             \* the disk, the files and the run, one record

OpenCode == {"json", "jsonc"}
Files    == OpenCode \cup {"app"}

\* The journal's phases in the order the workflow persists them.
Phases == {"none", "state_prepared", "gateway_ready", "opencode_lock_prepared",
           "opencode_backup_prepared", "opencode_replaced_verified",
           "app_config_backup_prepared", "committed"}
Locked == {"opencode_lock_prepared", "opencode_backup_prepared", "opencode_replaced_verified",
           "app_config_backup_prepared"}
Backed == Locked \ {"opencode_lock_prepared"}

\* A file's content: which of the user's versions, and whether rewritten for the gateway.
Contents     == [ver : 0 .. MaxEdits, new : BOOLEAN]
Missing      == [ver |-> -1, new |-> FALSE]
Rewritten(c) == [c EXCEPT !.new = TRUE]
Of(c)        == {c, Rewritten(c)}

Steps == {"starting", "commit", "ready", "lock", "mark", "read", "backup", "journal",
          "json", "json?", "jsonc", "jsonc?", "verified", "app backup", "app journal", "app", "app?",
          "final"}
Undos == {"unsync", "undo app", "undo opencode", "undo state", "stopping"}

TypeOK ==
  /\ m.pc \in Steps \cup Undos \cup {"off", "failed", "success"}
  /\ m.disk \in [phase : Phases, told : BOOLEAN]     \* told: holds what the child reported
  /\ m.mark \in BOOLEAN                              \* the marker the journal names exists
  /\ m.file \in [Files -> Contents]
  /\ m.kept \in [Files -> Contents \cup {Missing}]   \* the operation's backups
  /\ m.base \in [Files -> Contents]                  \* the run's originals
  /\ m.rec \in [any : BOOLEAN, opencode : BOOLEAN, app : BOOLEAN]
  /\ m.replaced \subseteq OpenCode
  /\ {m.verified, m.wroteApp, m.started, m.walked, m.undone} \subseteq BOOLEAN
  /\ m.buffer \in {"closed", "open", "reported"}     \* index.ts's pendingMigrationState
  /\ m.faults \in 0 .. MaxFaults /\ m.crashes \in 0 .. MaxCrashes /\ m.edits \in 0 .. MaxEdits

Go(to)    == [m EXCEPT !.pc = to]
CanFail   == m.faults < MaxFaults
Fails(to) == CanFail /\ m' = [Go(to) EXCEPT !.faults = @ + 1]

-----------------------------------------------------------------------------
(* Before the first change *)

\* incompleteMigrationRecovery: what an unfinished journal lets the run take up.
Recovery ==
  [any      |-> m.disk.phase \notin {"none", "committed"},
   opencode |-> m.disk.phase \in Backed,
   app      |-> m.disk.phase = "app_config_backup_prepared"]

Recovered(f) == IF f = "app" THEN Recovery.app ELSE Recovery.opencode

\* The recovery's checks: the marker of the dead run, and no file that is neither the
\* original nor the run's own output.
Recoverable ==
  /\ m.disk.phase \in Locked => m.mark
  /\ Recovery.opencode => \A f \in OpenCode : m.file[f] \in Of(m.kept[f])
  /\ Recovery.app => m.file["app"] \in Of(m.kept["app"])

\* A run begins: recovery, ports and the backup of the state come before any change; the
\* buffer opens with the start. A finished migration is answered at once.
Begin ==
  /\ m.pc = "off"
  /\ LET run == [m EXCEPT !.rec = Recovery, !.replaced = {}, !.verified = Recovery.app,
                  !.wroteApp = FALSE, !.started = FALSE, !.undone = TRUE, !.walked = FALSE,
                  !.base = [f \in Files |-> IF Recovered(f) THEN m.kept[f] ELSE m.file[f]]] IN
     \/ m' = CASE m.disk.phase = "committed" -> [run EXCEPT !.pc = "success"]
               [] m.disk.phase # "committed" /\ ~Recoverable -> [run EXCEPT !.pc = "failed"]
               [] OTHER -> [run EXCEPT !.pc = "starting", !.buffer = "open",
                              !.kept = IF Recovery.any THEN @ ELSE [f \in Files |-> Missing]]
     \/ /\ m.disk.phase # "committed" /\ CanFail      \* a busy port, no backup of the state
        /\ m' = [run EXCEPT !.pc = "failed", !.faults = @ + 1]

-----------------------------------------------------------------------------
(* The walk *)

\* The child is ready, or is not: then main closes the buffer.
Starts == m.pc = "starting" /\ m' = [Go("commit") EXCEPT !.started = TRUE]
StartFails ==
  /\ m.pc = "starting" /\ CanFail
  /\ m' = [Go("undo app") EXCEPT !.faults = @ + 1, !.buffer = "closed"]

\* The child's ordinary states merge into the buffer while the workflow waits. Its
\* durable ones are refused.
ChildReports == m.pc \in {"starting", "stopping"} /\ m.buffer = "open"
                /\ m' = [m EXCEPT !.buffer = "reported"]

Persist(at, phase, to) ==
  /\ m.pc = at
  /\ \/ m' = [Go(to) EXCEPT !.disk.phase = phase]
     \/ Fails("undo app")

\* prepared.commit writes the imported keys; a recovered run has them already.
Commit ==
  IF m.rec.any THEN m.pc = "commit" /\ m' = Go("ready")
  ELSE Persist("commit", "state_prepared", "ready")
Ready == Persist("ready", "gateway_ready", "lock")

\* The journal names a marker of this run before the marker exists.
NameMark ==
  /\ m.pc = "lock"
  /\ \/ m' = [Go("mark") EXCEPT !.disk.phase = "opencode_lock_prepared", !.mark = FALSE]
     \/ Fails("undo app")
MakeMark ==
  /\ m.pc = "mark"
  /\ m' = [Go("read") EXCEPT !.mark = TRUE] \/ Fails("undo app")

\* The originals: the files as they are, or the recovered backups.
ReadFiles ==
  /\ m.pc = "read"
  /\ m' = IF ~m.rec.opencode
          THEN [Go("backup") EXCEPT !.base = [f \in Files |-> IF f = "app" THEN @[f] ELSE m.file[f]]]
          ELSE Go(IF \A f \in OpenCode : m.file[f] \in Of(m.base[f]) THEN "json" ELSE "undo app")

\* The backups are created exclusively: one an earlier run left is not overwritten.
Backup ==
  /\ m.pc = "backup"
  /\ \/ m' = IF m.kept["json"] # Missing THEN Go("undo app")
             ELSE [Go("journal") EXCEPT !.kept = [f \in Files |-> IF f = "app" THEN @[f] ELSE m.base[f]]]
     \/ Fails("undo app")

\* A mutant: the files are replaced before the journal knows their backups.
BugJournal == m.pc = "journal" /\ m' = Go("json")

Journal == Persist("journal", "opencode_backup_prepared", "json")

\* The file after this one.
After(f) == CASE f = "json" -> "jsonc" [] f = "jsonc" -> "verified"

\* A mutant: the file is replaced whatever its content became since it was read.
BugReplace(f) ==
  /\ m.pc = f
  /\ m' = [Go(IF f = "json" THEN "json?" ELSE "jsonc?") EXCEPT !.file[f] = Rewritten(m.base[f]),
            !.replaced = @ \cup {f}]

\* One file of the set: already rewritten, changed by someone else, or replaced.
Replace(f) ==
  /\ m.pc = f
  /\ \/ m' = CASE m.file[f] = Rewritten(m.base[f]) -> Go(After(f))
               [] m.file[f] \notin Of(m.base[f])   -> Go("unsync")
               [] OTHER -> [Go(IF f = "json" THEN "json?" ELSE "jsonc?")
                              EXCEPT !.file[f] = Rewritten(m.base[f]), !.replaced = @ \cup {f}]
     \/ Fails("unsync")

\* The file is read back: a change that came since is not touched.
Recheck(f) ==
  /\ m.pc = IF f = "json" THEN "json?" ELSE "jsonc?"
  /\ \/ m' = Go(IF m.file[f] = Rewritten(m.base[f]) THEN After(f) ELSE "unsync")
     \/ Fails("unsync")

Verified ==
  /\ m.pc = "verified"
  /\ \/ m' = [Go("app backup") EXCEPT !.verified = TRUE, !.disk.phase = "opencode_replaced_verified"]
     \/ CanFail /\ m' = [Go("undo app") EXCEPT !.verified = TRUE, !.faults = @ + 1]

AppBackup ==
  /\ m.pc = "app backup"
  /\ \/ m' = IF m.rec.app THEN Go("app journal")
             ELSE IF m.kept["app"] # Missing THEN Go("undo app")
             ELSE [Go("app journal") EXCEPT !.kept["app"] = m.base["app"]]
     \/ Fails("undo app")
AppJournal == Persist("app journal", "app_config_backup_prepared", "app")

\* writeIfCurrent and its check afterwards.
AppWrite ==
  /\ m.pc = "app"
  /\ LET tried == [m EXCEPT !.wroteApp = TRUE] IN
     \/ m' = CASE m.file["app"] = Rewritten(m.base["app"]) -> [tried EXCEPT !.pc = "final"]
               [] m.file["app"] \notin Of(m.base["app"])   -> [tried EXCEPT !.pc = "undo app"]
               [] OTHER -> [tried EXCEPT !.pc = "app?", !.file["app"] = Rewritten(m.base["app"])]
     \/ CanFail /\ m' = [tried EXCEPT !.pc = "undo app", !.faults = @ + 1]
AppRecheck ==
  /\ m.pc = "app?"
  /\ \/ m' = Go(IF m.file["app"] = Rewritten(m.base["app"]) THEN "final" ELSE "undo app")
     \/ Fails("undo app")

\* commitPreparedState: the keys of the buffer replace those of the prepared state.
Merged == m.buffer = "reported" \/ m.disk.told

Final ==
  /\ m.pc = "final"
  /\ \/ m' = [Go("success") EXCEPT !.disk = [phase |-> "committed", told |-> Merged],
                !.buffer = "closed", !.walked = TRUE]
     \/ CanFail /\ m' = [Go("undo app") EXCEPT !.buffer = "closed", !.faults = @ + 1]

-----------------------------------------------------------------------------
(* The compensation *)

\* syncFixedOpenCodeConfigs takes back what it replaced, the last file first, and stops
\* at a file somebody changed meanwhile.
Unsync ==
  /\ m.pc = "unsync"
  /\ \/ \E f \in m.replaced :
          /\ f = "json" => "jsonc" \notin m.replaced
          /\ m' = IF m.file[f] = Rewritten(m.base[f])
                  THEN [m EXCEPT !.file[f] = m.base[f], !.replaced = @ \ {f}]
                  ELSE [Go("undo app") EXCEPT !.undone = FALSE]
     \/ \E f \in m.replaced :
          /\ CanFail
          /\ f = "json" => "jsonc" \notin m.replaced
          /\ m' = [m EXCEPT !.replaced = @ \ {f}, !.undone = FALSE, !.faults = @ + 1]
     \/ m.replaced = {} /\ m' = Go("undo app")

\* restoreIfOwned: the application's configuration, if this or the dead run wrote it.
UndoApp ==
  /\ m.pc = "undo app"
  /\ LET touched == m.wroteApp \/ m.rec.app
         mine    == m.file["app"] = Rewritten(m.base["app"]) IN
     \/ m' = CASE touched /\ mine -> [Go("undo opencode") EXCEPT !.file["app"] = m.base["app"]]
               [] touched /\ ~mine /\ m.file["app"] # m.base["app"] ->
                    [Go("undo opencode") EXCEPT !.undone = FALSE]
               [] OTHER -> Go("undo opencode")
     \/ /\ touched /\ mine /\ CanFail
        /\ m' = [Go("undo opencode") EXCEPT !.undone = FALSE, !.faults = @ + 1]

\* The OpenCode files are taken back only once all of them were verified.
Owed == m.verified /\ m.kept["json"] # Missing

\* The last file first; one that is not the run's own output ends it.
UndoOpenCode ==
  /\ m.pc = "undo opencode"
  /\ LET own(f) == m.file[f] = Rewritten(m.kept[f])
         back   == IF ~own("jsonc") THEN {} ELSE IF ~own("json") THEN {"jsonc"} ELSE OpenCode IN
     \/ ~Owed /\ m' = Go("undo state")
     \/ Owed /\ m' = [Go("undo state") EXCEPT !.undone = @ /\ back = OpenCode,
                       !.file = [f \in Files |-> IF f \in back THEN m.kept[f] ELSE @[f]]]
     \/ Owed /\ CanFail /\ m' = [Go("undo state") EXCEPT !.undone = FALSE, !.faults = @ + 1]

\* rollbackAndVerify restores the state the backup holds: no journal in it.
UndoState ==
  /\ m.pc = "undo state"
  /\ LET to == IF m.started THEN "stopping" ELSE "failed" IN
     \/ m' = [Go(to) EXCEPT !.disk = [phase |-> "none", told |-> FALSE]]
     \/ CanFail /\ m' = [Go(to) EXCEPT !.undone = FALSE, !.faults = @ + 1]

\* stopPrepared. While the buffer is open the flush of the child is dropped with it; once
\* commitPreparedState closed it, the flush persists the state it recorded: the migrated one.
Stopped ==
  /\ m.pc = "stopping"
  /\ \/ m' = [Go("failed") EXCEPT !.buffer = "closed"]
     \/ m.buffer = "closed" /\ m' = [Go("failed") EXCEPT !.disk.phase = "committed"]

-----------------------------------------------------------------------------
(* The process, the user and the specification *)

\* A failed run ends the process; it may be launched again, as after a success.
Exits == m.pc \in {"failed", "success"} /\ m' = Go("off")

Crashes ==
  /\ m.pc \in Steps \cup Undos /\ m.crashes < MaxCrashes
  /\ m' = [Go("off") EXCEPT !.crashes = @ + 1, !.buffer = "closed"]

Edits(f) ==
  /\ m.edits < MaxEdits
  /\ m' = [m EXCEPT !.edits = @ + 1, !.file[f] = [ver |-> m.edits + 1, new |-> FALSE]]

Init ==
  LET fresh == [ver |-> 0, new |-> FALSE] IN
  m = [pc |-> "off", disk |-> [phase |-> "none", told |-> FALSE], mark |-> FALSE,
       file |-> [f \in Files |-> fresh], kept |-> [f \in Files |-> Missing],
       base |-> [f \in Files |-> fresh], rec |-> [any |-> FALSE, opencode |-> FALSE, app |-> FALSE],
       replaced |-> {}, verified |-> FALSE, wroteApp |-> FALSE, started |-> FALSE, walked |-> FALSE,
       undone |-> TRUE, buffer |-> "closed", faults |-> 0, crashes |-> 0, edits |-> 0]

Next ==
  \/ Begin \/ Starts \/ StartFails \/ ChildReports \/ Commit \/ Ready \/ NameMark
  \/ MakeMark \/ ReadFiles \/ Backup \/ Journal \/ Verified \/ AppBackup \/ AppJournal \/ AppWrite
  \/ AppRecheck \/ Final \/ Unsync \/ UndoApp \/ UndoOpenCode \/ UndoState \/ Stopped \/ Exits
  \/ Crashes
  \/ \E f \in OpenCode : Replace(f) \/ Recheck(f)
  \/ \E f \in Files : Edits(f)

Spec == Init /\ [][Next]_m

-----------------------------------------------------------------------------
(* Properties *)

\* A file the run changed and nobody edited since.
Changed(f) == m.file[f] # m.base[f] /\ m.file[f].ver = m.base[f].ver

\* Write-ahead: on a run that found no journal, a changed file has its original in a
\* backup, and the journal on disk says so, until the migration commits or a failed
\* compensation is reported; also across a crash.
WriteAhead ==
  ~m.rec.any /\ m.undone =>
    \A f \in Files : Changed(f) =>
      /\ m.kept[f] = m.base[f]
      /\ m.disk.phase \in IF f = "app" THEN {"app_config_backup_prepared", "committed"}
                          ELSE Backed \cup {"committed"}

\* A run that began without a journal, failed and reports no failed compensation left the
\* three files as it found them, or as the user left them since.
FirstFailureUndoes == m.pc = "failed" /\ ~m.rec.any /\ m.undone => \A f \in Files : ~Changed(f)

\* A run that walked to its end has rewritten every file the user did not edit meanwhile,
\* and what the child reported while the buffer was open is in the state on disk.
SuccessIsComplete ==
  m.pc = "success" /\ m.walked =>
    /\ \A f \in Files : m.file[f].new \/ m.file[f].ver > m.base[f].ver
    /\ m.disk.phase = "committed"

\* "workflow retry restores the original OpenCode baseline after a crash at verified
\* replacement then downstream failure" (tests/final-migration.test.mjs:755): a failed
\* run that reports no failed compensation leaves no rewritten file without a journal.
FailureUndoes ==
  m.pc = "failed" /\ m.undone /\ m.disk.phase = "none" => \A f \in Files : ~m.file[f].new
=============================================================================

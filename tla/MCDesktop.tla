------------------------------ MODULE MCDesktop ------------------------------
(***************************************************************************)
(* The machines of the desktop process share no variable; one run checks   *)
(* them all: a behaviour belongs to one part, chosen at its start, whose   *)
(* record the variable m holds.                                            *)
(***************************************************************************)
EXTENDS Integers, Sequences, FiniteSets

CONSTANTS MaxSaves, MaxWrites, MaxDamage,   \* SecureStore
          Procs,                            \* MigrationLock
          MaxFaults, MaxCrashes, MaxEdits,  \* Migration
          MaxQuits, MaxChecks, Versions,    \* Shell
          MaxConfigWrites, MaxOutside,      \* AppConfig
          Cap, Gens, MaxEntries, MaxTrouble, \* LogFiles
          MaxRequests, MaxReport,           \* Dialogs
          MaxStatus, MaxChanges, MaxViews,  \* Views
          MaxDeaths, MaxTurns, MaxReads,    \* MainWindow
          MaxTips, MaxRandom                \* PetSpeech

\* The words for "nobody" and "a process that is gone" name no process.
ASSUME ProcsAssumption == "nobody" \notin Procs /\ "dead" \notin Procs

VARIABLES part, m
vars == <<part, m>>

Store == INSTANCE SecureStore   WITH s <- m
Lock  == INSTANCE MigrationLock WITH l <- m
Mig   == INSTANCE Migration
Sh    == INSTANCE Shell         WITH q <- m
Cfg   == INSTANCE AppConfig     WITH g <- m
Logs  == INSTANCE LogFiles      WITH r <- m
Dlg   == INSTANCE Dialogs       WITH d <- m
Page  == INSTANCE Views         WITH w <- m
Win   == INSTANCE MainWindow    WITH u <- m
Rest  == INSTANCE PetRest       WITH h <- m
Talk  == INSTANCE PetSpeech     WITH s <- m
Life  == INSTANCE PetLife       WITH l <- m

Init ==
  \/ part = "store" /\ Store!Init
  \/ part = "lock"  /\ Lock!Init
  \/ part = "mig"   /\ Mig!Init
  \/ part = "shell" /\ Sh!Init
  \/ part = "config" /\ Cfg!Init
  \/ part = "logs"  /\ Logs!Init
  \/ part = "dialogs" /\ Dlg!Init
  \/ part = "page"  /\ Page!Init
  \/ part = "window" /\ Win!Init
  \/ part = "rest"  /\ Rest!Init
  \/ part = "talk"  /\ Talk!Init
  \/ part = "life"  /\ Life!Init

Of(name, A) == part = name /\ A /\ UNCHANGED part
Next ==
  \/ Of("store", Store!Next)
  \/ Of("lock", Lock!Next)
  \/ Of("mig", Mig!Next)
  \/ Of("shell", Sh!Next)
  \/ Of("config", Cfg!Next)
  \/ Of("logs", Logs!Next)
  \/ Of("dialogs", Dlg!Next)
  \/ Of("page", Page!Next)
  \/ Of("window", Win!Next)
  \/ Of("rest", Rest!Next)
  \/ Of("talk", Talk!Next)
  \/ Of("life", Life!Next)

Fairness ==
  /\ WF_vars(Of("shell", \E outcome \in {"stopped", "error"} : Sh!Settles(outcome)))
  /\ WF_vars(Of("shell", Sh!Leaves)) /\ WF_vars(Of("shell", Sh!Watchdog))
  /\ WF_vars(Of("shell", Sh!FatalDeadline))

Spec     == Init /\ [][Next]_vars
FairSpec == Spec /\ Fairness

-----------------------------------------------------------------------------
\* The types of the part's record.
TypeOK ==
  CASE part = "store" -> Store!TypeOK
    [] part = "lock"  -> Lock!TypeOK
    [] part = "mig"   -> Mig!TypeOK
    [] part = "shell" -> Sh!TypeOK
    [] part = "config" -> Cfg!TypeOK
    [] part = "logs"  -> Logs!TypeOK
    [] part = "dialogs" -> Dlg!TypeOK
    [] part = "page"  -> Page!TypeOK
    [] part = "window" -> Win!TypeOK
    [] part = "rest"  -> Rest!TypeOK
    [] part = "talk"  -> Talk!TypeOK
    [] part = "life"  -> Life!TypeOK

\* A state whose save returned survives every crash and one damaged file (secure-state.ts);
\* two migrations never write it at once, outside the two holes MigrationLock names
\* (legacy-migration-exclusion.ts).
StateIsSafe ==
  /\ part = "store" => Store!SavedSurvives
  /\ part = "lock"  => Lock!MigrationsExclude

\* Migration: every changed file has its original in a journaled backup; a first run that
\* fails puts everything back; a run that succeeds has done everything.
MigrationIsAtomic ==
  part = "mig" => Mig!WriteAhead /\ Mig!FirstFailureUndoes /\ Mig!SuccessIsComplete

\* Migration: no write, forward or back, replaces an edit by an older version, and what the
\* child reported while the buffer was open is in the state a success leaves.
EditsAndReportsKept ==
  [][part = "mig" => /\ \A f \in Mig!Files : m'.file[f].ver >= m.file[f].ver
                     /\ m.buffer = "reported" /\ m'.pc = "success" => m'.disk.told]_vars

\* The process exits only after the gateway's stop settled, and while it runs unseen there
\* is a way back to it or it is leaving (before-quit-guard.ts, window-close-guard.ts); the
\* window, the tray, the GPU relaunch and the login item hold to what MainWindow says of
\* them (index.ts).
QuitPathsHold ==
  /\ part = "shell"  => Sh!PatientQuitFlushes /\ Sh!WayOut
  /\ part = "window" => Win!SurfacesHold

\* No writer of config.json loses what another one wrote, across waits, faults and edits
\* from outside (gateway-runtime.ts, models-ipc.ts); no gap of a log is forgotten, and its
\* files stay bounded, ordered and protected (logger.mjs); what is sent of a log is its
\* newest entries, as many as fit (error-reporter.ts).
FilesAreHonest ==
  /\ part = "config"  => Cfg!ConfigIsKept
  /\ part = "logs"    => Logs!LogsAreHonest
  /\ part = "dialogs" => Dlg!ReportIsNewest

\* No late answer or timer reaches a dialog it does not belong to (App.tsx); what a page
\* shows is true once it is quiet (Layout.tsx, Settings.tsx, Models.tsx); the pet rests,
\* speaks and acts by its events, whatever order they come in (PetWidget.tsx).
RendererIsHonest ==
  /\ part = "dialogs" => Dlg!DialogsAreHonest
  /\ part = "page"    => Page!PagesAreHonest
  /\ part = "rest"    => Rest!PetRests
  /\ part = "talk"    => Talk!PetSpeaks
  /\ part = "life"    => Life!PetLives

\* Shell: a quit that began with the gateway's stop ends the process.
QuitEnds == (part = "shell" /\ "quit" \in m.waits) ~> (part = "shell" /\ m.exit # "no")
=============================================================================

----------------------------- MODULE MainWindow -----------------------------
(***************************************************************************)
(* The main process's own surfaces (index.ts): the window and what brings  *)
(* it back, the tray and the menus that follow the gateway's status and    *)
(* the language; the recovery from a lost GPU process (gpu-fallback.ts);   *)
(* the login item and its cached reading (login-item.ts). Leaving the      *)
(* application is Shell's.                                                 *)
(***************************************************************************)
EXTENDS Integers, FiniteSets

CONSTANTS MaxDeaths,    \* bound: windows that die, and GPU processes
          MaxTurns,     \* bound: changes of status, language, updater and login item
          MaxReads      \* bound: what is counted of native readings

VARIABLE u              \* one surface, one record

\* What the tray and the application menu name.
Shown == [status : {"stopped", "running"}, lang : {"en", "ru"}, update : {"none", "checking"}]

TypeOK ==
  /\ u.kind \in {"window", "gpu", "login"} /\ u.deaths \in 0 .. MaxDeaths /\ u.turns \in 0 .. MaxTurns
  /\ u.started \in BOOLEAN /\ u.made \in BOOLEAN            \* startNormal, windowWasCreated
  /\ u.windows \in 0 .. 2 /\ u.pointer \in {"null", "live", "dead"}  \* living ones, mainWindow
  /\ u.quitting \in BOOLEAN /\ u.fatal \in {"no", "dead window", "rejection"}
  /\ u.tray \in BOOLEAN /\ u.now \in Shown /\ u.shown \in Shown /\ u.menu \in {"en", "ru"}
  /\ u.marker \in BOOLEAN /\ u.software \in BOOLEAN /\ u.asked \in BOOLEAN   \* gpu-crash.marker,
  /\ u.remote \in BOOLEAN /\ u.relaunch \in BOOLEAN   \* softwareRenderingActive, gpuRecoveryRequested
  /\ u.armed \in BOOLEAN /\ u.kept \in BOOLEAN        \* the marker was written; it could not be removed
  /\ u.healed \in BOOLEAN                             \* the launch before had consumed a marker
  /\ u.item \in {"off", "quoted", "bare", "foreign"}  \* the Run value
  /\ u.cache \in {"unset", "on", "off"} /\ u.edited \in BOOLEAN
  /\ u.reads \in 0 .. MaxReads /\ u.acts \in 0 .. MaxReads

Turn == u.turns < MaxTurns

-----------------------------------------------------------------------------
(* The window *)

InWindow == u.kind = "window" /\ ~u.quitting /\ u.fatal = "no"

\* createWindow, which sets the menu as well.
Create(q) == [q EXCEPT !.windows = @ + 1, !.pointer = "live", !.made = TRUE, !.menu = q.now.lang]

\* ensureMainWindow: only a window that existed is built again.
Ensure(q) == IF q.pointer = "live" \/ ~q.made THEN q ELSE Create(q)

Used(q) == Ensure(q)

\* The tray, a menu or a second instance brings the window back.
Reveals == InWindow /\ u' = Used(u)

\* The native window dies; the event that clears the pointer follows.
Dies ==
  /\ InWindow /\ u.pointer = "live" /\ u.deaths < MaxDeaths
  /\ u' = [u EXCEPT !.windows = @ - 1, !.pointer = "dead", !.deaths = @ + 1]
ClosedEvent == InWindow /\ u.pointer = "dead" /\ u' = [u EXCEPT !.pointer = "null"]

Tray(q) == IF q.tray THEN [q EXCEPT !.shown = q.now] ELSE q     \* updateTray

\* createTray; a constructor that throws leaves the application without one.
CreateTray(q, ok) == IF ok THEN Tray([q EXCEPT !.tray = TRUE]) ELSE q

\* startNormal; the gateway may already have a status.
Starts(ok) == InWindow /\ ~u.started /\ u' = CreateTray(Create([u EXCEPT !.started = TRUE]), ok)

\* macOS: activate.
Activates == InWindow /\ u.started /\ u.windows = 0 /\ u' = Create(u)

-----------------------------------------------------------------------------
(* The tray and the menus *)

StatusChanges(s) ==
  /\ InWindow /\ Turn /\ s # u.now.status
  /\ u' = Tray([u EXCEPT !.now.status = s, !.turns = @ + 1])
UpdateChanges(s) ==
  /\ InWindow /\ u.started /\ Turn /\ s # u.now.update
  /\ u' = Tray([u EXCEPT !.now.update = s, !.turns = @ + 1])

Speaks(q, l) == [Tray([q EXCEPT !.now.lang = l]) EXCEPT !.menu = l]
SetsLanguage(l) ==
  /\ InWindow /\ u.windows > 0 /\ Turn /\ l # u.now.lang
  /\ u' = [Speaks(u, l) EXCEPT !.turns = @ + 1]

\* The tray's retry is awaited by nobody: a port that cannot be written ends the process.
RetriesFromTray(written) ==
  /\ InWindow /\ u.tray
  /\ u' = IF written THEN u ELSE [u EXCEPT !.fatal = "rejection"]

-----------------------------------------------------------------------------
(* The GPU process *)

\* A launch consumes the marker, if the file can be removed.
Consumed(q, ok) == [q EXCEPT !.marker = @ /\ ~ok, !.kept = @ \/ (q.marker /\ ~ok)]

Launches(q, ok) ==
  [Consumed(q, ok) EXCEPT !.software = q.remote \/ q.marker, !.asked = FALSE, !.relaunch = FALSE,
                          !.quitting = FALSE, !.healed = q.software /\ ~q.remote]

\* planGpuCrashRecovery, of a crash.
Plan(q) == IF q.asked \/ q.software THEN "log" ELSE "relaunch"

GpuGone(crash, written) ==
  /\ u.kind = "gpu" /\ ~u.quitting /\ u.deaths < MaxDeaths
  /\ LET q == [u EXCEPT !.deaths = @ + 1]
     IN u' = IF ~crash \/ Plan(u) = "log" THEN q
             ELSE [q EXCEPT !.asked = TRUE, !.relaunch = TRUE, !.quitting = TRUE,
                            !.marker = @ \/ written, !.armed = written]

\* The user leaves and comes back; a recovery comes back by itself.
Quits == u.kind = "gpu" /\ ~u.quitting /\ Turn
         /\ u' = [u EXCEPT !.quitting = TRUE, !.turns = @ + 1, !.armed = FALSE]
Comes(ok) == u.kind = "gpu" /\ u.quitting /\ u' = Launches(u, ok)

-----------------------------------------------------------------------------
(* The login item *)

On(q) == IF q.item \in {"quoted", "bare"} THEN "on" ELSE "off"

\* readOpenAtLogin: the quoted form, then the bare one; a reading may leak a handle.
Read(q) == [q EXCEPT !.cache = On(q), !.edited = FALSE,
                     !.reads = IF @ = MaxReads THEN @ ELSE @ + 1]
Act(q)  == [q EXCEPT !.acts = @ + 1]

InLogin == u.kind = "login"

\* getAutoLaunchCached.
Cached(q) == IF q.cache = "unset" THEN Read(q) ELSE q

GetsRuntimeState == InLogin /\ u.reads < MaxReads /\ u' = Cached(u)
GetsAutoLaunch   == InLogin /\ u.acts < MaxReads /\ u' = Read(Act(u))

\* The item is read again after it was written, whether the system took it or not.
Toggled(q, on) == Read(q)
Toggles(on, taken) ==
  /\ InLogin /\ u.acts < MaxReads
  /\ u' = Toggled(Act(IF taken THEN [u EXCEPT !.item = IF on THEN "quoted" ELSE "off"] ELSE u), on)

\* Another program edits the Run value.
Edited(v) == InLogin /\ Turn /\ v # u.item /\ u' = [u EXCEPT !.item = v, !.edited = TRUE, !.turns = @ + 1]

-----------------------------------------------------------------------------

Init ==
  \E kind \in {"window", "gpu", "login"}, remote, marker \in BOOLEAN, item \in {"off", "bare", "foreign"} :
    /\ kind # "gpu" => ~remote /\ ~marker
    /\ kind # "login" => item = "off"
    /\ LET blank == [status |-> "stopped", lang |-> "en", update |-> "none"]
       IN u = [kind |-> kind, deaths |-> 0, turns |-> 0, started |-> FALSE, made |-> FALSE,
               windows |-> 0, pointer |-> "null", quitting |-> kind = "gpu", fatal |-> "no",
               tray |-> FALSE, now |-> blank, shown |-> blank, menu |-> "en", marker |-> marker,
               software |-> FALSE, asked |-> FALSE, remote |-> remote, relaunch |-> FALSE,
               armed |-> FALSE, kept |-> FALSE, healed |-> FALSE, item |-> item, cache |-> "unset",
               edited |-> FALSE, reads |-> 0, acts |-> 0]

Next ==
  \/ Reveals \/ Dies \/ ClosedEvent \/ Activates \/ Quits \/ GetsRuntimeState \/ GetsAutoLaunch
  \/ (\E s \in {"stopped", "running"} : StatusChanges(s))
  \/ (\E s \in {"none", "checking"} : UpdateChanges(s)) \/ (\E l \in {"en", "ru"} : SetsLanguage(l))
  \/ (\E ok \in BOOLEAN : Starts(ok) \/ RetriesFromTray(ok) \/ Comes(ok))
  \/ (\E crash, written \in BOOLEAN : GpuGone(crash, written))
  \/ (\E on, taken \in BOOLEAN : Toggles(on, taken)) \/ (\E v \in {"off", "bare", "foreign"} : Edited(v))

Spec == Init /\ [][Next]_u

-----------------------------------------------------------------------------
(* Properties *)

\* However the window dies and whoever asks for it, no handler touches a dead one and
\* there are never two.
OneWindow == u.fatal # "dead window" /\ u.windows <= 1

\* The tray and the menu name what is, in the language chosen last.
TrayTells == /\ u.tray => u.shown = u.now
             /\ u.windows > 0 => u.menu = u.now.lang

\* A process that a recovery brought back renders in software and asks for no further one,
\* if the marker could be written; software rendering for a marker lasts one launch, if
\* the marker could be removed.
OneRecovery ==
  u.kind = "gpu" =>
    /\ u.relaunch /\ u.asked => ~u.software
    /\ u.armed /\ ~u.quitting => u.software /\ ~u.asked
    /\ u.software /\ u.healed /\ ~u.remote => u.kept \/ u.armed

\* Native readings follow the user's acts, not the polls, and what is cached is what the
\* system holds unless another program edited it since.
CacheIsBounded == InLogin => /\ u.reads <= u.acts + 1
                             /\ u.cache # "unset" /\ ~u.edited => u.cache = On(u)

SurfacesHold == OneWindow /\ TrayTells /\ OneRecovery /\ CacheIsBounded
=============================================================================

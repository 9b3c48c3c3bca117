-------------------------------- MODULE Shell --------------------------------
(***************************************************************************)
(* The shell of the desktop application: the window and the tray, the      *)
(* paths that lead to an exit, and the automatic update (index.ts,         *)
(* before-quit-guard.ts, window-close-guard.ts, fatal-shutdown.ts,         *)
(* controlled-startup-shutdown.ts, auto-update.ts). What every path owes   *)
(* is the stop of the gateway child: its shutdown writes the keys.         *)
(*                                                                         *)
(* Electron closes the windows and exits after a before-quit that nobody   *)
(* prevents, or stalls, as index.ts reports. The updater answers a check   *)
(* and a download, once each. A stop is the lifecycle's: it always         *)
(* settles, stopped or with an error; here it is one step.                 *)
(***************************************************************************)
EXTENDS Integers

CONSTANTS MaxQuits,       \* requests to quit: menu, tray, last window, relaunch
          MaxChecks,      \* update checks
          Versions        \* versions a check may find: a set of naturals

VARIABLES q               \* the shell, one record

Waiters == {"quit", "install", "fatal"}     \* who awaits the stop of the gateway

TypeOK ==
  /\ q.quitting \in BOOLEAN /\ q.controlled \in BOOLEAN
  /\ q.gateway \in {"up", "stopped", "error"}
  /\ q.waits \subseteq Waiters
  /\ q.leaving \in BOOLEAN                  \* a quit nobody prevented is under way
  /\ q.stalled \in BOOLEAN /\ q.watchdog \in BOOLEAN
  /\ q.exit \in {"no", "quit", "watchdog", "fatal", "deadline"}
  /\ q.window \in {"none", "shown", "hidden", "gone"} /\ q.tray \in BOOLEAN
  /\ q.quits \in 0 .. MaxQuits
  /\ q.eager \in BOOLEAN /\ q.ignored \in BOOLEAN   \* history: quit again during a stop, ignored
  \* The update service.
  /\ q.update \in {"none", "checking", "available", "downloading", "ready", "upToDate", "error"}
  /\ q.version \in Versions \cup {0} /\ q.postponed \in Versions \cup {0}
  /\ q.asks \in {"none", "offer", "install"} /\ q.manual \in BOOLEAN
  /\ q.installing \in BOOLEAN /\ q.checks \in 0 .. MaxChecks

Up == q.exit = "no"

-----------------------------------------------------------------------------
(* Quit *)

\* An update's installation is stopping the gateway: quits are ignored.
Blocked == q.installing

\* A mutant: a quit ends without waiting for the stop.
BugQuit(s) == [s EXCEPT !.quitting = TRUE, !.leaving = TRUE]

\* app.quit and the before-quit handler: from a state of the shell to the next.
Quit(s) ==
  CASE s.quitting -> [s EXCEPT !.leaving = TRUE, !.eager = @ \/ "quit" \in s.waits]
    [] ~s.quitting /\ Blocked -> [s EXCEPT !.ignored = TRUE]
    [] ~s.quitting /\ ~Blocked /\ s.controlled ->
         [s EXCEPT !.quitting = TRUE, !.leaving = TRUE]
    [] OTHER -> [s EXCEPT !.quitting = TRUE, !.waits = @ \cup {"quit"}]

\* The user, the menu, the tray, or the one relaunch after a crash of the GPU process.
AsksToQuit ==
  /\ Up /\ q.quits < MaxQuits
  /\ q' = [Quit(q) EXCEPT !.quits = @ + 1]

\* An explicit migration that failed for a known reason closes before any gateway runs.
ControlledClose ==
  /\ Up /\ q.gateway = "stopped" /\ q.waits = {} /\ ~q.controlled /\ q.update = "none"
  /\ q.window = "none"
  /\ q' = Quit([q EXCEPT !.controlled = TRUE])

\* A mutant: the watchdog is armed only after a stop without an error.
BugArmed(s) == s.gateway = "stopped"

\* cleanupAndQuit arms the watchdog whatever came of the stop.
Armed(s) == TRUE

\* The stop settles: each waiter goes on. cleanupAndQuit quits whatever came of it;
\* the installation goes on only after a stop without error.
Settles(outcome) ==
  /\ Up /\ q.waits # {}
  /\ LET stopped == [q EXCEPT !.gateway = IF @ = "up" THEN outcome ELSE @, !.waits = {}]
         quit    == IF "quit" \in q.waits
                    THEN [stopped EXCEPT !.watchdog = Armed(stopped), !.leaving = TRUE] ELSE stopped
         install == CASE "install" \notin q.waits -> quit
                      [] "install" \in q.waits /\ stopped.gateway = "error" ->
                           [quit EXCEPT !.installing = FALSE, !.update = "error", !.version = 0]
                      [] OTHER -> [quit EXCEPT !.quitting = TRUE, !.leaving = TRUE]
     IN q' = IF "fatal" \in q.waits THEN [install EXCEPT !.exit = "fatal"] ELSE install

\* uncaughtException: the stop is raced against five seconds, then the process exits.
Fatal ==
  /\ Up /\ "fatal" \notin q.waits
  /\ q' = [q EXCEPT !.waits = @ \cup {"fatal"}]
FatalDeadline == Up /\ "fatal" \in q.waits /\ q' = [q EXCEPT !.exit = "deadline"]

\* Electron closes the windows, will-quit runs, and the process exits, or hangs.
Leaves == Up /\ q.leaving /\ ~q.stalled /\ q' = [q EXCEPT !.exit = "quit", !.window = "gone"]
Stalls == Up /\ q.leaving /\ ~q.stalled
          /\ q' = [q EXCEPT !.stalled = TRUE, !.window = "gone"]
Watchdog == Up /\ q.watchdog /\ q' = [q EXCEPT !.exit = "watchdog"]

-----------------------------------------------------------------------------
(* The window and the tray *)

\* handleWindowClose: where the close of the window leads.
Closed(s) == IF s.quitting \/ ~s.tray THEN "gone" ELSE "hidden"

\* Without a tray the last window's close quits (window-all-closed).
Closes ==
  /\ Up /\ q.window = "shown"
  /\ LET s == [q EXCEPT !.window = Closed(q)] IN
     q' = IF s.window = "gone" /\ ~s.tray THEN Quit(s) ELSE s

\* A click on the tray, a second instance: a hidden window is shown; a dead one is built
\* anew unless the application is quitting.
Reveals ==
  /\ Up /\ q.window \in {"hidden", "gone"}
  /\ q.window = "gone" => ~q.quitting
  /\ q' = [q EXCEPT !.window = "shown"]

-----------------------------------------------------------------------------
(* The automatic update *)

\* promptDownload and promptInstall: not while a question is open.
Ask(s, what) == IF s.asks = "none" THEN [s EXCEPT !.asks = what] ELSE s

\* A check by hand or by the timer. A downloaded version is offered again by hand only.
Check(manual) ==
  /\ Up /\ q.checks < MaxChecks
  /\ ~q.installing /\ q.asks = "none" /\ q.update \notin {"checking", "downloading"}
  /\ q.update = "ready" => manual
  /\ LET c == [q EXCEPT !.checks = @ + 1, !.manual = manual] IN
     q' = IF q.update = "ready" THEN Ask(c, "install")
          ELSE [c EXCEPT !.update = "checking", !.version = 0]

\* The updater's answer. In the background a postponed version is not offered again.
Available(v) ==
  /\ Up /\ q.update = "checking"
  /\ LET s == [q EXCEPT !.update = "available", !.version = v] IN
     q' = IF ~q.manual /\ v = q.postponed THEN s ELSE Ask(s, "offer")
NotAvailable == Up /\ q.update = "checking" /\ q' = [q EXCEPT !.update = "upToDate", !.version = 0]
UpdateFails  == Up /\ q.update \in {"checking", "downloading"}
                /\ q' = [q EXCEPT !.update = "error", !.version = 0]
Downloaded   == Up /\ q.update = "downloading" /\ q' = Ask([q EXCEPT !.update = "ready"], "install")

\* The user's answer. A dialog that fails counts as an error, never as consent.
Answers ==
  /\ Up /\ q.asks # "none"
  /\ LET s == [q EXCEPT !.asks = "none"] IN
     \/ q' = CASE q.asks = "offer" -> [s EXCEPT !.postponed = 0, !.update = "downloading"]
               [] q.asks = "install" /\ q.installing  -> s
               [] q.asks = "install" /\ ~q.installing ->
                    [s EXCEPT !.installing = TRUE, !.waits = @ \cup {"install"}]
     \/ q' = IF q.asks = "offer" THEN [s EXCEPT !.postponed = q.version] ELSE s
     \/ q' = [s EXCEPT !.update = "error", !.version = 0]

-----------------------------------------------------------------------------
(* The specification *)

Init ==
  \E tray \in BOOLEAN, gateway \in {"up", "stopped"}, window \in {"shown", "none"} :
    /\ window = "none" => gateway = "stopped"      \* an explicit migration, before any window
    /\ q = [quitting |-> FALSE, controlled |-> FALSE, gateway |-> gateway, waits |-> {},
            leaving |-> FALSE, stalled |-> FALSE, watchdog |-> FALSE, exit |-> "no",
            window |-> window, tray |-> tray /\ window = "shown",
            quits |-> 0, eager |-> FALSE, ignored |-> FALSE,
            update |-> "none", version |-> 0, postponed |-> 0, asks |-> "none",
            manual |-> FALSE, installing |-> FALSE, checks |-> 0]

Next ==
  \/ AsksToQuit \/ ControlledClose \/ Fatal \/ FatalDeadline \/ Leaves \/ Stalls \/ Watchdog
  \/ \E outcome \in {"stopped", "error"} : Settles(outcome)
  \/ Closes \/ Reveals
  \/ \E manual \in BOOLEAN : Check(manual)
  \/ \E v \in Versions : Available(v)
  \/ NotAvailable \/ UpdateFails \/ Downloaded \/ Answers

\* A stop settles, Electron leaves unless it hangs, timers fire.
Fairness ==
  /\ WF_q(\E outcome \in {"stopped", "error"} : Settles(outcome))
  /\ WF_q(Leaves) /\ WF_q(Watchdog) /\ WF_q(FatalDeadline)

Spec == Init /\ [][Next]_q /\ Fairness

-----------------------------------------------------------------------------
(* Properties *)

\* "no quit path can bypass the stop ordering" (index.ts, before-quit): the process exits
\* only after the stop of the gateway settled, or on the deadline of a fatal error.
StopPrecedesExit == q.exit \notin {"no", "deadline"} => q.gateway # "up"

\* The same, as far as it holds: a second quit while the first one awaits the stop is not
\* held back.
PatientQuitFlushes == ~q.eager => StopPrecedesExit

\* A quit that began with the stop of the gateway ends the process, also where Electron
\* hangs afterwards.
QuitEnds == "quit" \in q.waits ~> q.exit # "no"

\* A running application that cannot be seen has a tray to come back from, or is on its
\* way out, unless a quit was ignored while an installation stopped the gateway.
WayOut ==
  Up /\ ~q.ignored /\ q.window \in {"hidden", "gone"} => q.tray \/ q.quitting \/ q.waits # {}
=============================================================================

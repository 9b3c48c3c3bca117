------------------------------ MODULE PetLife ------------------------------
(***************************************************************************)
(* What the pet does and when (petEngine.ts createPetEngine, the shuffle   *)
(* bag, the dwell timer and the micro scheduler; PetWidget.tsx: attention, *)
(* life gate, click joy, celebration, hint gesture, hacker canvas; the     *)
(* ambient cadence of audioEngine.ts). The parts share two timers and one  *)
(* canvas; what React renders follows what the events set.                 *)
(***************************************************************************)
EXTENDS Naturals, Sequences, FiniteSets

VARIABLE l             \* the widget and its window, one record

Std      == {"a", "b"}          \* the character's activities, 7 in the code
Salute   == "salute"            \* MASCOT_CELEBRATION_ACTIVITY
Vip      == {Salute, "wink"}    \* VIP_ACTIVITIES, 5 in the code
Acts     == Std \cup Vip
Absences == {"none", "short", "long"}   \* wasAway, and how long against MIN_AWAY_MS
Bags     == {<<>>} \cup {<<x>> : x \in Acts} \cup (Std \X Std) \cup (Vip \X Vip)

TypeOK ==
  /\ l.char \in {"mascot", "hacker"} /\ l.act \in Acts /\ l.drawn \in Acts /\ l.prior \in Acts
  /\ l.bag \in Bags
  /\ l.mode \in Acts \cup {"intent", "celebration"}
  /\ l.away \in Absences /\ l.back \in Absences \cup {"no"}   \* "no" pendingReturn, or its absence
  /\ \A f \in {"visible", "active", "focused", "cooled",   \* SWITCH_COOLDOWN_MS is over
               "vip", "modal", "modalSeen", "page", "gate",       \* what the life gate was last given
               "dwell", "micro", "beat", "swap", "joy", "intent",           \* restoreHacker
               "celebrating", "hint", "owed",                               \* a hint stopped the timers
               "sound", "cadence", "ambient", "repeated"} : l[f] \in BOOLEAN

Alive(q) == q.visible /\ q.focused /\ ~q.modal /\ ~q.joy
Flushed  == l.page = l.visible /\ l.gate = Alive(l) /\ l.modalSeen = l.modal /\ l.drawn = l.act
OnCanvas(q, mode) == IF q.char = "hacker" THEN [q EXCEPT !.mode = mode] ELSE q

-----------------------------------------------------------------------------
(* Sound: the autonomous cadence *)


ScheduleAmbient(q) == [q EXCEPT !.cadence = TRUE, !.ambient = q.sound]
StopAmbient(q)     == [q EXCEPT !.cadence = FALSE, !.ambient = FALSE]
RestartAmbient(q)  == [q EXCEPT !.ambient = q.cadence /\ q.sound]

TogglesSound ==
  /\ l.visible /\ l.active
  /\ l' = IF l.sound THEN StopAmbient([l EXCEPT !.sound = FALSE]) ELSE ScheduleAmbient([l EXCEPT !.sound = TRUE])

-----------------------------------------------------------------------------
(* Activities *)

\* The celebration is told of every commit; one that is not its own ends it.
Told(q, next, own) ==
  IF ~q.celebrating \/ own THEN q ELSE OnCanvas([q EXCEPT !.celebrating = FALSE], next)

\* commit and handleActivityChange; a timer's switch is silent.
Commit(q, next, own, silent) ==
  LET set == [Told(q, next, own) EXCEPT !.act = next, !.cooled = FALSE]
  IN  IF silent THEN [set EXCEPT !.swap = TRUE] ELSE RestartAmbient(set)

\* The shuffle bag: what a draw may give and leave.
Shuffled(pool, avoid) == {b \in pool \X pool : b[1] # b[2] /\ b[1] # avoid}

Draws(q) ==
  LET pool == IF q.vip THEN Vip ELSE Std
      bag  == IF q.bag # <<>> /\ q.bag[1] \in pool THEN q.bag ELSE <<>>
      rest == IF bag # <<>> /\ bag[1] = q.act THEN Tail(bag) ELSE bag
  IN  {[q EXCEPT !.bag = b, !.repeated = @ \/ b[1] = q.act] :
         b \in IF rest = <<>> THEN Shuffled(pool, q.act) ELSE {rest}}

Switched(q, silent) == {Commit([d EXCEPT !.bag = Tail(@)], d.bag[1], FALSE, silent) : d \in Draws(q)}

-----------------------------------------------------------------------------
(* The pausable timers *)

Pause(q)  == [q EXCEPT !.dwell = FALSE, !.micro = FALSE, !.beat = FALSE]
Resume(q) == [q EXCEPT !.dwell = TRUE, !.micro = TRUE, !.owed = FALSE]

\* The dwell is over: the timer is armed again before the switch. Switches are
\* seconds apart, so the last one has been rendered.
DwellFires == l.dwell /\ l.drawn = l.act /\ ~l.celebrating /\ l' \in Switched(l, TRUE)

\* A beat ends, or one begins unless something blocks it (around a switch of
\* the activity the turn may pass unused too).
MicroFires ==
  /\ l.micro
  /\ l.beat \/ ~(l.joy \/ l.swap \/ l.celebrating)
  /\ l' = [l EXCEPT !.beat = ~@]

SwapFires == l.swap /\ l' = [l EXCEPT !.swap = FALSE]

-----------------------------------------------------------------------------
(* Attention *)


AttentionLost(q) ==
  StopAmbient([q EXCEPT !.back = "no", !.away = "short", !.focused = FALSE])


ScheduleReturn(q) == IF q.back = "no" THEN [q EXCEPT !.back = q.away] ELSE q

Blurs   == Flushed /\ l.visible /\ l.active /\ l' = AttentionLost([l EXCEPT !.active = FALSE])
Focuses == Flushed /\ l.visible /\ ~l.active /\ l' = ScheduleReturn([l EXCEPT !.active = TRUE])

\* handleCue: the dwell starts anew.
Cue(q) == IF q.focused /\ ~q.modalSeen THEN [q EXCEPT !.dwell = TRUE] ELSE q

\* The idle callback: the hooks first, then the switch, if the absence was long
\* enough and the last switch is.
Returns ==
  /\ l.back # "no"
  /\ LET here  == [l EXCEPT !.back = "no", !.focused = l.active, !.away = "none"]
         heard == IF l.sound THEN ScheduleAmbient(here) ELSE here
     IN  IF l.back = "long" /\ l.cooled
           THEN l' \in {Cue(c) : c \in Switched(heard, FALSE)}
           ELSE l' = heard

TimePasses ==
  \/ l.away = "short" /\ l' = [l EXCEPT !.away = "long"]
  \/ ~l.cooled /\ l.drawn = l.act /\ l' = [l EXCEPT !.cooled = TRUE]

-----------------------------------------------------------------------------
(* The click, the celebration and the hint *)


JoyEnds(q) ==
  LET off == [q EXCEPT !.joy = FALSE, !.intent = FALSE]
  IN  IF q.intent /\ ~q.celebrating THEN OnCanvas(off, q.act) ELSE off

Clicks ==
  /\ l.visible /\ l.active /\ ~l.modal /\ ~l.joy
  /\ LET on == RestartAmbient([l EXCEPT !.joy = TRUE, !.intent = l.char = "hacker" /\ ~l.celebrating])
     IN  l' = IF on.intent THEN OnCanvas(on, "intent") ELSE on

JoyFires == l.joy /\ l' = [JoyEnds(l) EXCEPT !.modal = @ \/ l.visible]

\* The ascension event of the donation dialog.
Ascends ==
  /\ Flushed /\ l.modal
  /\ LET vip == [l EXCEPT !.vip = TRUE]
         on  == OnCanvas([vip EXCEPT !.celebrating = TRUE, !.prior = l.act], "celebration")
     IN  l' = IF l.celebrating THEN vip
              ELSE IF l.char = "mascot" THEN Commit(on, Salute, TRUE, FALSE) ELSE on


CelebrationFires ==
  /\ l.celebrating
  /\ LET off == [l EXCEPT !.celebrating = FALSE]
     IN  l' = IF l.char = "mascot" THEN Commit(off, l.prior, TRUE, FALSE) ELSE OnCanvas(off, l.prior)

\* stopHint: the gesture ends before its time, with its tip or with a hide.
HintStopped(q) ==
  IF ~q.hint THEN q
  ELSE LET off == [q EXCEPT !.hint = FALSE] IN IF q.celebrating THEN off ELSE OnCanvas(off, q.act)

\* A tip is shown.
Hints ==
  /\ Flushed
  /\ l.visible /\ l.focused /\ ~l.modalSeen /\ ~l.joy /\ ~l.celebrating
  /\ l' = RestartAmbient(OnCanvas([Pause(HintStopped(l)) EXCEPT !.hint = TRUE, !.owed = TRUE], "intent"))

\* The gesture is over; no other timer ends within the same render.
HintFires ==
  /\ Flushed
  /\ l.hint
  /\ LET off == [HintStopped(l) EXCEPT !.owed = FALSE]
     IN  l' = IF l.visible /\ l.focused /\ ~l.modalSeen /\ ~l.joy THEN Resume(off) ELSE off

\* The tip is dismissed, acted on or over within the gesture.
TipGoes == l.hint /\ l' = HintStopped(l)

-----------------------------------------------------------------------------
(* The window, the dialogs and the effects that follow them *)

Hides ==
  /\ Flushed /\ l.visible
  /\ l' = [JoyEnds(HintStopped(AttentionLost([l EXCEPT !.visible = FALSE, !.active = FALSE]))) EXCEPT !.swap = FALSE]

Shows == \E active \in BOOLEAN :
  /\ Flushed /\ ~l.visible
  /\ l' = ScheduleReturn([l EXCEPT !.visible = TRUE, !.active = active])

Opens  == Flushed /\ l.visible /\ ~l.modal /\ l' = [l EXCEPT !.modal = TRUE]
Closes == Flushed /\ l.modal /\ l' = [l EXCEPT !.modal = FALSE]

\* applyPetLifeGate, when its inputs have changed.
Gate(q) ==
  IF q.page = q.visible /\ q.gate = Alive(q) THEN q
  ELSE LET given == [q EXCEPT !.page = q.visible, !.gate = Alive(q)]
       IN  IF q.visible /\ Alive(q) THEN Resume(given) ELSE Pause(given)

Renders ==
  /\ ~Flushed
  /\ LET gated == Gate([l EXCEPT !.modalSeen = l.modal])
     IN  l' = IF l.drawn = l.act THEN gated ELSE OnCanvas([gated EXCEPT !.drawn = l.act], l.act)

\* The first activity is drawn when the widget is mounted.
Init == \E char \in {"mascot", "hacker"}, visible, active, sound \in BOOLEAN :
  /\ active => visible
  /\ l = [char |-> char, act |-> "b", drawn |-> "b", prior |-> "a", mode |-> "b", bag |-> <<"a">>,
          away |-> "none", back |-> "no", visible |-> visible, active |-> active,
          focused |-> active, cooled |-> FALSE, vip |-> FALSE,
          modal |-> FALSE, modalSeen |-> FALSE, page |-> visible, gate |-> active, dwell |-> active,
          micro |-> active, beat |-> FALSE, swap |-> FALSE, joy |-> FALSE, intent |-> FALSE,
          celebrating |-> FALSE, hint |-> FALSE, owed |-> FALSE, sound |-> sound, cadence |-> TRUE,
          ambient |-> sound, repeated |-> FALSE]

Next ==
  \/ TogglesSound \/ DwellFires \/ MicroFires \/ SwapFires \/ Blurs \/ Focuses \/ Returns \/ TimePasses
  \/ Clicks \/ JoyFires \/ Ascends \/ CelebrationFires \/ Hints \/ HintFires \/ TipGoes
  \/ Hides \/ Shows \/ Opens \/ Closes \/ Renders

Spec == Init /\ [][Next]_l

-----------------------------------------------------------------------------
(* Properties *)

\* Once the effects have run, a pet that is alive lives, unless a hint still
\* owes it its timers; one that is not makes no move, and a hidden one has none
\* of its timers left.
LifeFollows ==
  Flushed => /\ Alive(l) /\ ~l.owed => l.dwell /\ l.micro
             /\ ~Alive(l) => ~l.micro
             /\ ~l.visible => ~l.dwell /\ ~l.joy /\ ~l.hint
             /\ l.beat => l.micro

\* The canvas shows the activity, or the celebration, whenever no gesture is
\* under way: none of the three that borrow it leaves it behind.
CanvasFollows ==
  l.char = "hacker" /\ Flushed /\ ~l.joy /\ ~l.hint => l.mode = IF l.celebrating THEN "celebration" ELSE l.act

\* A switch never repeats the activity, whatever was forced in between, and the
\* celebration's salute is on for as long as the mascot celebrates.
ActsAreFresh ==
  /\ ~l.repeated
  /\ Len(l.bag) = 2 => l.bag[1] # l.bag[2]
  /\ l.celebrating /\ l.char = "mascot" => l.act = Salute

\* A return is pending in a shown window only, and the focus is known once none
\* is; a focused pet whose sound is on has its cadence, and a muted one has none.
AmbientFollows ==
  /\ l.back # "no" => l.visible
  /\ l.visible /\ l.back = "no" => l.focused = l.active
  /\ l.ambient => l.sound /\ l.cadence
  /\ l.visible /\ l.focused /\ l.sound => l.ambient

PetLives == LifeFollows /\ CanvasFollows /\ ActsAreFresh /\ AmbientFollows

=============================================================================

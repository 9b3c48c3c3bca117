------------------------------ MODULE PetRest ------------------------------
(***************************************************************************)
(* When the pet may rest: the rest timer and the hover tracker             *)
(* (petEngine.ts createPetRestTimer, createPetHoverTracker) under the      *)
(* pointer, the focus and the visibility the browser reports, some of it   *)
(* late, twice or never (PetWidget.tsx, attachFocusListeners). A timer     *)
(* that is armed may end at any time; the deep one not before the rest     *)
(* one armed with it.                                                      *)
(***************************************************************************)
EXTENDS Naturals

VARIABLE h             \* the widget, its window and the pointer, one record

TypeOK ==
  /\ h.level \in {"awake", "rest", "deep"}
  /\ \A f \in {"rest", "deep",               \* restTimer, deepTimer
               "held", "focused", "stopped", \* createPetRestTimer
               "hovered", "probe", "unconfirmed", "tracking", "leaving",
               "visible", "active",          \* the window; document.hasFocus()
               "back",                       \* pendingReturn
               "closing",                    \* the browser is about to report a hide
               "over", "inside"} :           \* where the pointer is; where the browser thinks it is
       h[f] \in BOOLEAN

-----------------------------------------------------------------------------
(* createPetRestTimer *)

Cleared(q) == [q EXCEPT !.rest = FALSE, !.deep = FALSE]
Armed(q)   == [q EXCEPT !.rest = TRUE, !.deep = TRUE]
Roused(q)  == [Cleared(q) EXCEPT !.level = "awake"]

Wake(q) ==
  LET up == [Roused(q) EXCEPT !.stopped = FALSE]
  IN  IF q.held \/ q.focused THEN up ELSE Armed(up)

Hold(q) == [Roused(q) EXCEPT !.stopped = FALSE, !.held = TRUE]

Release(q) ==
  LET up == [Roused(q) EXCEPT !.stopped = FALSE, !.held = FALSE]
  IN  IF q.focused THEN up ELSE Armed(up)

Stop(q)  == [Roused(q) EXCEPT !.stopped = TRUE, !.held = FALSE]
Focus(q) == [Roused(q) EXCEPT !.stopped = FALSE, !.focused = TRUE]

Blur(q) ==
  IF ~q.focused /\ (q.rest \/ q.level # "awake") THEN q
  ELSE IF q.held \/ q.stopped THEN [q EXCEPT !.focused = FALSE]
  ELSE Armed([q EXCEPT !.focused = FALSE])

-----------------------------------------------------------------------------
(* createPetHoverTracker *)

EndAwait(q)   == [q EXCEPT !.probe = FALSE]

Kept(q)       == [q EXCEPT !.leaving = FALSE]
ReleaseNow(q) == Release([EndAwait(q) EXCEPT !.hovered = FALSE])
ReleaseSoon(q) == [q EXCEPT !.leaving = TRUE]

Enter(q) ==
  LET on == Hold([Kept(q) EXCEPT !.hovered = TRUE])
  IN  IF on.unconfirmed THEN [on EXCEPT !.probe = TRUE]
      ELSE [EndAwait(on) EXCEPT !.tracking = FALSE]

\* A leave counts in a shown window only, and only if no hide follows it.
Leave(q) == IF ~q.visible THEN q
            ELSE ReleaseSoon([q EXCEPT !.tracking = q.tracking /\ q.unconfirmed])

Pointer(q, over) ==
  IF ~q.tracking THEN q
  ELSE LET seen == [q EXCEPT !.unconfirmed = FALSE]
       IN  IF over THEN Hold([EndAwait(Kept(seen)) EXCEPT !.hovered = TRUE])
           ELSE IF q.probe THEN ReleaseNow(seen)
           ELSE IF q.hovered THEN ReleaseSoon(seen) ELSE seen

Visibility(q) ==
  IF ~q.visible THEN Stop([EndAwait(Kept(q)) EXCEPT !.tracking = FALSE])
  ELSE LET shown == [q EXCEPT !.unconfirmed = TRUE, !.tracking = TRUE]
       IN  IF q.hovered THEN [Hold(shown) EXCEPT !.probe = TRUE] ELSE Wake(shown)

-----------------------------------------------------------------------------
(* The focus, reported by the engine's listeners *)

ApplyAttention(q, now) == IF ~q.visible THEN q ELSE IF now THEN Focus(q) ELSE Blur(q)

AttentionLost(q) == ApplyAttention([q EXCEPT !.back = FALSE], FALSE)

AttentionBack(q) == [q EXCEPT !.back = TRUE]      \* scheduleReturn, one at a time

Blurs ==
  /\ h.visible /\ h.active
  /\ h' = AttentionLost([h EXCEPT !.active = FALSE])

Focuses ==
  /\ h.visible /\ ~h.active
  /\ h' = AttentionBack([h EXCEPT !.active = TRUE])

\* The idle callback of the last return: the focus is read when it runs.
Returns ==
  /\ h.back
  /\ h' = ApplyAttention([h EXCEPT !.back = FALSE], h.active)

\* The window is being hidden: the mouseleave comes first, without any move.
Closes ==
  /\ h.visible /\ h.inside
  /\ h' = [Leave(h) EXCEPT !.inside = FALSE, !.closing = TRUE]

\* The window is hidden; a blur may have come before or not at all.
Hides ==
  /\ h.visible
  /\ LET hidden == [h EXCEPT !.visible = FALSE, !.active = FALSE, !.inside = FALSE, !.closing = FALSE]
     IN  h' = Visibility(AttentionLost(hidden))

\* The window is shown, focused or not; the pet may get a mouseenter for the
\* position the browser last knew.
Shows(active, enter) ==
  /\ ~h.visible
  /\ LET shown == [h EXCEPT !.visible = TRUE, !.active = active]
         seen  == Visibility(AttentionBack(shown))
     IN  h' = IF enter THEN [Enter(seen) EXCEPT !.inside = TRUE] ELSE seen

\* The pointer moves: its pointermove is hit-tested first, then comes the
\* mouseenter or the mouseleave. After a show the mouseenter may be missing.
Moves(over, told) ==
  /\ h.visible /\ ~h.closing
  /\ told \/ (h.tracking /\ over /\ ~h.inside)
  /\ LET moved == Pointer([h EXCEPT !.over = over], over)
     IN  h' = IF ~told \/ over = h.inside THEN moved
              ELSE [IF over THEN Enter(moved) ELSE Leave(moved) EXCEPT !.inside = over]

\* While the window is hidden the pointer moves unseen.
MovesAway ==
  /\ ~h.visible
  /\ h' = [h EXCEPT !.over = ~@]

\* A click, a new activity, a tip or a celebration.
Stirs == h' = Wake(h)

-----------------------------------------------------------------------------
(* The timers *)

RestFires  == h.rest /\ h' = [h EXCEPT !.rest = FALSE, !.level = "rest"]
DeepFires  == h.deep /\ ~h.rest /\ h' = [h EXCEPT !.deep = FALSE, !.level = "deep"]
ProbeFires == h.probe /\ h' = ReleaseNow(h)

\* The hide follows its mouseleave within the grace.
LeaveFires ==
  /\ h.leaving /\ ~h.closing
  /\ h' = IF h.visible THEN ReleaseNow(Kept(h)) ELSE Kept(h)

Init == \E visible, active \in BOOLEAN :
  /\ active => visible
  /\ h = LET born == [level |-> "awake", rest |-> FALSE, deep |-> FALSE, held |-> FALSE, focused |-> active,
                      stopped |-> FALSE, hovered |-> FALSE, probe |-> FALSE, unconfirmed |-> FALSE,
                      tracking |-> FALSE, leaving |-> FALSE, visible |-> visible, active |-> active,
                      back |-> FALSE, closing |-> FALSE, over |-> FALSE, inside |-> FALSE]
         IN  Visibility(Wake(born))

Next ==
  \/ Blurs \/ Focuses \/ Returns \/ Closes \/ Hides \/ MovesAway \/ Stirs
  \/ \E a, b \in BOOLEAN : Shows(a, b) \/ Moves(a, b)
  \/ RestFires \/ DeepFires \/ ProbeFires \/ LeaveFires

Spec == Init /\ [][Next]_h

-----------------------------------------------------------------------------
(* Properties *)

\* No timer runs and no rest is taken while the pointer holds the pet awake or
\* the window has the focus, and the two timers go together.
RestIsEarned ==
  /\ h.rest \/ h.deep \/ h.level # "awake" => ~h.held /\ ~h.focused
  /\ (h.rest => h.deep) /\ (h.deep => h.rest \/ h.level = "rest")

\* In a shown window the timer's idea of the focus is the document's, once no
\* return is pending; that is also so after a hide that sent no blur.
FocusIsKnown == h.visible /\ ~h.back => h.focused = h.active

\* Once the pointer has been seen, the hold is its truth, or a release is
\* under way. Neither a hide nor a show leaves a hold behind.
HoldIsTrue ==
  h.visible /\ ~h.unconfirmed => (h.held => h.over \/ h.leaving \/ h.probe) /\ (h.over => h.held \/ h.tracking)

\* An unfocused pet never stays awake for nothing: it counts down, it rests, or
\* something is set to end its hold.
NeverStuckAwake ==
  h.visible /\ ~h.focused /\ h.level # "deep" /\ ~h.deep => h.held /\ (h.probe \/ h.leaving \/ h.over)

PetRests == RestIsEarned /\ FocusIsKnown /\ HoldIsTrue /\ NeverStuckAwake
=============================================================================

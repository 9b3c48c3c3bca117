-------------------------- MODULE MCRenderer_proofs --------------------------
(***************************************************************************)
(* The renderer's part of what the run "desktop" checks, for every value   *)
(* of the constants: the pet's rest, life and speech, the pages and their  *)
(* caches, and the dialogs. Each machine has an inductive invariant of its *)
(* own; a behaviour of MCDesktop belongs to one of them. The machines of   *)
(* the main process have their module, MCDesktop_proofs.                   *)
(***************************************************************************)
EXTENDS MCDesktop, FiniteSetTheorems, TLAPS

-----------------------------------------------------------------------------
(* The pet's rest *)

RestStates ==
  [level : {"awake", "rest", "deep"}, rest : BOOLEAN, deep : BOOLEAN, held : BOOLEAN,
   focused : BOOLEAN, stopped : BOOLEAN, hovered : BOOLEAN, probe : BOOLEAN,
   unconfirmed : BOOLEAN, tracking : BOOLEAN, leaving : BOOLEAN, visible : BOOLEAN,
   active : BOOLEAN, back : BOOLEAN, closing : BOOLEAN, over : BOOLEAN, inside : BOOLEAN]

\* Fields that a helper of the rest timer, or of the hover tracker, leaves alone.
TimerSame(q, t) ==
  /\ t.level = q.level /\ t.rest = q.rest /\ t.deep = q.deep
  /\ t.held = q.held /\ t.focused = q.focused /\ t.stopped = q.stopped
TrackSame(q, t) ==
  /\ t.hovered = q.hovered /\ t.probe = q.probe /\ t.unconfirmed = q.unconfirmed
  /\ t.tracking = q.tracking /\ t.leaving = q.leaving
WindowSame(q, t) ==
  /\ t.visible = q.visible /\ t.active = q.active /\ t.back = q.back
  /\ t.closing = q.closing /\ t.over = q.over /\ t.inside = q.inside

\* Where the pointer is and what the tracker waits for: a hold has its pointer or a release
\* under way, a window that is not shown has neither, and a stopped timer is still.
PointerInv ==
  /\ m.held => m.hovered /\ (m.inside \/ m.leaving \/ m.tracking) /\ m.probe = m.unconfirmed
  /\ m.stopped => m.level = "awake" /\ ~m.rest
  /\ m.probe => m.unconfirmed
  /\ m.closing => m.leaving
  /\ m.inside => ~m.leaving /\ (m.tracking \/ m.held) /\ (~m.unconfirmed => m.over /\ m.held)
  /\ m.visible => /\ ~m.stopped /\ (m.hovered => m.held)
                  /\ m.over => m.inside \/ m.tracking \/ m.closing
                  /\ m.unconfirmed => m.tracking
  /\ ~m.visible => /\ ~m.held /\ ~m.tracking /\ ~m.probe /\ ~m.leaving
                   /\ ~m.closing /\ ~m.active /\ ~m.inside
RestInv == m \in RestStates /\ Rest!PetRests /\ PointerInv

LEMMA RestFlags ==
  ASSUME NEW t \in RestStates
  PROVE  /\ t.focused \in BOOLEAN /\ t.active \in BOOLEAN /\ t.probe \in BOOLEAN
         /\ t.unconfirmed \in BOOLEAN
BY DEF RestStates

LEMMA WakeDoes ==
  ASSUME NEW q \in RestStates
  PROVE  LET t == Rest!Wake(q) IN
           /\ t \in RestStates /\ TrackSame(q, t) /\ WindowSame(q, t)
           /\ t.level = "awake" /\ ~t.stopped /\ t.held = q.held /\ t.focused = q.focused
           /\ (t.rest <=> ~q.held /\ ~q.focused) /\ (t.deep <=> t.rest)
<1> USE DEF RestStates, TrackSame, WindowSame, Rest!Roused, Rest!Cleared, Rest!Armed
<1>1. CASE q.held \/ q.focused
  BY <1>1, Zenon DEF Rest!Wake
<1>2. CASE ~(q.held \/ q.focused)
  BY <1>2, Zenon DEF Rest!Wake
<1> QED
  BY <1>1, <1>2

LEMMA HoldDoes ==
  ASSUME NEW q \in RestStates
  PROVE  LET t == Rest!Hold(q) IN
           /\ t \in RestStates /\ TrackSame(q, t) /\ WindowSame(q, t)
           /\ t.level = "awake" /\ ~t.stopped /\ t.held /\ t.focused = q.focused /\ ~t.rest /\ ~t.deep
BY Zenon DEF RestStates, TrackSame, WindowSame, Rest!Roused, Rest!Cleared, Rest!Hold

LEMMA ReleaseDoes ==
  ASSUME NEW q \in RestStates
  PROVE  LET t == Rest!Release(q) IN
           /\ t \in RestStates /\ TrackSame(q, t) /\ WindowSame(q, t)
           /\ t.level = "awake" /\ ~t.stopped /\ ~t.held /\ t.focused = q.focused
           /\ (t.rest <=> ~q.focused) /\ (t.deep <=> t.rest)
<1> USE DEF RestStates, TrackSame, WindowSame, Rest!Roused, Rest!Cleared, Rest!Armed
<1>1. CASE q.focused
  BY <1>1, Zenon DEF Rest!Release
<1>2. CASE ~q.focused
  BY <1>2, Zenon DEF Rest!Release
<1> QED
  BY <1>1, <1>2

LEMMA StopDoes ==
  ASSUME NEW q \in RestStates
  PROVE  LET t == Rest!Stop(q) IN
           /\ t \in RestStates /\ TrackSame(q, t) /\ WindowSame(q, t)
           /\ t.level = "awake" /\ t.stopped /\ ~t.held /\ t.focused = q.focused /\ ~t.rest /\ ~t.deep
BY Zenon DEF RestStates, TrackSame, WindowSame, Rest!Roused, Rest!Cleared, Rest!Stop

LEMMA FocusDoes ==
  ASSUME NEW q \in RestStates
  PROVE  LET t == Rest!Focus(q) IN
           /\ t \in RestStates /\ TrackSame(q, t) /\ WindowSame(q, t)
           /\ t.level = "awake" /\ ~t.stopped /\ t.held = q.held /\ t.focused /\ ~t.rest /\ ~t.deep
BY Zenon DEF RestStates, TrackSame, WindowSame, Rest!Roused, Rest!Cleared, Rest!Focus

LEMMA BlurDoes ==
  ASSUME NEW q \in RestStates
  PROVE  LET t == Rest!Blur(q) IN
              /\ t \in RestStates /\ TrackSame(q, t) /\ WindowSame(q, t)
              /\ \/ t = q /\ ~q.focused /\ (q.rest \/ q.level # "awake")
                 \/ /\ ~t.focused /\ t.held = q.held /\ t.stopped = q.stopped /\ t.level = q.level
                    /\ \/ (q.held \/ q.stopped) /\ t.rest = q.rest /\ t.deep = q.deep
                       \/ ~q.held /\ ~q.stopped /\ t.rest /\ t.deep
                    /\ q.focused \/ (~q.rest /\ q.level = "awake")
<1> DEFINE unmoved == ~q.focused /\ (q.rest \/ q.level # "awake")
           s == [q EXCEPT !.focused = FALSE]
           u == Rest!Armed(s)
<1>1. Rest!Blur(q) = IF unmoved THEN q ELSE IF q.held \/ q.stopped THEN s ELSE u
  BY DEF Rest!Blur
<1>2. /\ s \in RestStates /\ TrackSame(q, s) /\ WindowSame(q, s) /\ ~s.focused
      /\ s.held = q.held /\ s.stopped = q.stopped /\ s.level = q.level
      /\ s.rest = q.rest /\ s.deep = q.deep
  BY Zenon DEF RestStates, TrackSame, WindowSame
<1>3. /\ u \in RestStates /\ TrackSame(q, u) /\ WindowSame(q, u) /\ ~u.focused
      /\ u.held = q.held /\ u.stopped = q.stopped /\ u.level = q.level /\ u.rest /\ u.deep
  BY Zenon DEF RestStates, TrackSame, WindowSame, Rest!Armed
<1>4. TrackSame(q, q) /\ WindowSame(q, q)
  BY DEF TrackSame, WindowSame
<1> HIDE DEF s, u
<1>5. CASE unmoved
  BY <1>1, <1>4, <1>5
<1>6. CASE ~unmoved /\ (q.held \/ q.stopped)
  <2>1. Rest!Blur(q) = s
    BY <1>1, <1>6
  <2> QED
    BY <1>2, <1>6, <2>1
<1>7. CASE ~unmoved /\ ~(q.held \/ q.stopped)
  <2>1. Rest!Blur(q) = u
    BY <1>1, <1>7
  <2> QED
    BY <1>3, <1>7, <2>1
<1> QED
  BY <1>5, <1>6, <1>7

LEMMA NowDoes ==
  ASSUME NEW q \in RestStates
  PROVE  LET t == Rest!ReleaseNow(q) IN
              /\ t \in RestStates /\ WindowSame(q, t)
              /\ ~t.hovered /\ ~t.probe /\ t.unconfirmed = q.unconfirmed
              /\ t.tracking = q.tracking /\ t.leaving = q.leaving
              /\ t.level = "awake" /\ ~t.stopped /\ ~t.held /\ t.focused = q.focused
              /\ (t.rest <=> ~q.focused) /\ (t.deep <=> t.rest)
<1> DEFINE s == [Rest!EndAwait(q) EXCEPT !.hovered = FALSE]
<1>1. /\ s \in RestStates /\ WindowSame(q, s) /\ TimerSame(q, s) /\ ~s.hovered /\ ~s.probe
      /\ s.unconfirmed = q.unconfirmed /\ s.tracking = q.tracking /\ s.leaving = q.leaving
  BY Zenon DEF RestStates, WindowSame, TimerSame, Rest!EndAwait
<1>2. Rest!ReleaseNow(q) = Rest!Release(s)
  BY DEF Rest!ReleaseNow
<1> HIDE DEF s
<1> QED
  BY <1>1, <1>2, ReleaseDoes DEF WindowSame, TimerSame, TrackSame

LEMMA EnterDoes ==
  ASSUME NEW q \in RestStates
  PROVE  LET t == Rest!Enter(q) IN
              /\ t \in RestStates /\ WindowSame(q, t)
              /\ t.hovered /\ ~t.leaving /\ t.unconfirmed = q.unconfirmed /\ (t.probe <=> q.unconfirmed)
              /\ (t.tracking <=> q.unconfirmed /\ q.tracking)
              /\ t.level = "awake" /\ ~t.stopped /\ t.held /\ t.focused = q.focused
              /\ ~t.rest /\ ~t.deep
<1> DEFINE s == [Rest!Kept(q) EXCEPT !.hovered = TRUE]
           u == Rest!Hold(s)
<1>1. /\ s \in RestStates /\ WindowSame(q, s) /\ TimerSame(q, s) /\ s.hovered /\ ~s.leaving
      /\ s.unconfirmed = q.unconfirmed /\ s.tracking = q.tracking /\ s.probe = q.probe
  BY Zenon DEF RestStates, WindowSame, TimerSame, Rest!Kept
<1> HIDE DEF s
<1>2. /\ u \in RestStates /\ WindowSame(s, u) /\ TrackSame(s, u) /\ u.level = "awake" /\ ~u.stopped
      /\ u.held /\ u.focused = s.focused /\ ~u.rest /\ ~u.deep
  BY <1>1, HoldDoes
<1>3. Rest!Enter(q) = IF u.unconfirmed THEN [u EXCEPT !.probe = TRUE]
                      ELSE [Rest!EndAwait(u) EXCEPT !.tracking = FALSE]
  BY DEF Rest!Enter, s
<1> HIDE DEF u
<1>4. LET t == [u EXCEPT !.probe = TRUE] IN
        /\ t \in RestStates /\ WindowSame(u, t) /\ TimerSame(u, t) /\ t.probe
        /\ t.hovered = u.hovered /\ t.leaving = u.leaving /\ t.unconfirmed = u.unconfirmed
        /\ t.tracking = u.tracking
  BY <1>2, Zenon DEF WindowSame, TimerSame, RestStates
<1>5. LET t == [Rest!EndAwait(u) EXCEPT !.tracking = FALSE] IN
        /\ t \in RestStates /\ WindowSame(u, t) /\ TimerSame(u, t) /\ ~t.probe
        /\ t.hovered = u.hovered /\ t.leaving = u.leaving /\ t.unconfirmed = u.unconfirmed
        /\ ~t.tracking
  BY <1>2, Zenon DEF WindowSame, TimerSame, RestStates, Rest!EndAwait
<1>6. CASE q.unconfirmed
  <2>1. Rest!Enter(q) = [u EXCEPT !.probe = TRUE]
    BY <1>1, <1>2, <1>3, <1>6 DEF TrackSame
  <2>2. u.unconfirmed /\ u.probe = q.probe /\ u.tracking = q.tracking /\ u.hovered /\ ~u.leaving
        /\ u.unconfirmed = q.unconfirmed /\ WindowSame(q, u) /\ u.focused = q.focused
    BY <1>1, <1>2, <1>6 DEF WindowSame, TimerSame, TrackSame
  <2> DEFINE t == [u EXCEPT !.probe = TRUE]
  <2>3. /\ t \in RestStates /\ WindowSame(u, t) /\ TimerSame(u, t) /\ t.probe
        /\ t.hovered = u.hovered /\ t.leaving = u.leaving /\ t.unconfirmed = u.unconfirmed
        /\ t.tracking = u.tracking
    BY <1>4
  <2> HIDE DEF t
  <2> QED
    BY <1>2, <1>6, <2>1, <2>2, <2>3, Zenon DEF WindowSame, TimerSame, t
<1>7. CASE ~q.unconfirmed
  <2>1. Rest!Enter(q) = [Rest!EndAwait(u) EXCEPT !.tracking = FALSE]
    BY <1>1, <1>2, <1>3, <1>7 DEF TrackSame
  <2> QED
    BY <1>1, <1>2, <1>5, <1>7, <2>1, Zenon DEF WindowSame, TimerSame, TrackSame
<1> QED
  BY <1>6, <1>7

LEMMA LeaveDoes ==
  ASSUME NEW q \in RestStates
  PROVE  LET t == Rest!Leave(q) IN
              /\ t \in RestStates /\ WindowSame(q, t) /\ TimerSame(q, t)
              /\ t.hovered = q.hovered /\ t.probe = q.probe /\ t.unconfirmed = q.unconfirmed
              /\ ~q.visible => t = q
              /\ q.visible => t.leaving /\ (t.tracking <=> q.tracking /\ q.unconfirmed)
<1> USE DEF RestStates, WindowSame, TimerSame
<1>1. CASE ~q.visible
  BY <1>1 DEF Rest!Leave
<1>2. CASE q.visible
  <2> DEFINE x == q.tracking /\ q.unconfirmed
  <2>1. Rest!Leave(q) = [q EXCEPT !.tracking = x, !.leaving = TRUE]
    BY <1>2 DEF Rest!Leave, Rest!ReleaseSoon
  <2>2. x \in BOOLEAN
    OBVIOUS
  <2> HIDE DEF x
  <2>3. LET t == Rest!Leave(q) IN
          /\ t \in RestStates /\ WindowSame(q, t) /\ TimerSame(q, t)
          /\ t.hovered = q.hovered /\ t.probe = q.probe /\ t.unconfirmed = q.unconfirmed
          /\ t.leaving /\ t.tracking = x
    BY <2>1, <2>2, Zenon
  <2> QED
    BY <1>2, <2>3 DEF x
<1> QED
  BY <1>1, <1>2

LEMMA PointerDoes ==
  ASSUME NEW q \in RestStates, NEW over \in BOOLEAN
  PROVE  LET t == Rest!Pointer(q, over) IN
              /\ t \in RestStates /\ WindowSame(q, t) /\ t.tracking = q.tracking /\ t.focused = q.focused
              /\ ~q.tracking => t = q
              /\ q.tracking =>
                   /\ ~t.unconfirmed
                   /\ over => /\ t.hovered /\ ~t.probe /\ ~t.leaving /\ t.held /\ t.level = "awake"
                              /\ ~t.stopped /\ ~t.rest /\ ~t.deep
                   /\ ~over /\ q.probe =>
                        /\ ~t.hovered /\ ~t.probe /\ t.leaving = q.leaving /\ ~t.held /\ t.level = "awake"
                        /\ ~t.stopped /\ (t.rest <=> ~q.focused) /\ (t.deep <=> ~q.focused)
                   /\ ~over /\ ~q.probe =>
                        /\ TimerSame(q, t) /\ t.hovered = q.hovered /\ t.probe = q.probe
                        /\ (t.leaving <=> q.leaving \/ q.hovered)
<1> DEFINE s == [q EXCEPT !.unconfirmed = FALSE]
           u == [Rest!EndAwait(Rest!Kept(s)) EXCEPT !.hovered = TRUE]
<1>1. /\ s \in RestStates /\ WindowSame(q, s) /\ TimerSame(q, s) /\ s.hovered = q.hovered
      /\ s.probe = q.probe /\ ~s.unconfirmed /\ s.tracking = q.tracking /\ s.leaving = q.leaving
  BY Zenon DEF RestStates, WindowSame, TimerSame
<1>2. /\ u \in RestStates /\ WindowSame(q, u) /\ TimerSame(q, u) /\ u.hovered
      /\ ~u.probe /\ ~u.unconfirmed /\ u.tracking = q.tracking /\ ~u.leaving
  BY Zenon DEF RestStates, WindowSame, TimerSame, Rest!EndAwait, Rest!Kept
<1>3. Rest!Pointer(q, over) =
        IF ~q.tracking THEN q
        ELSE IF over THEN Rest!Hold(u)
             ELSE IF q.probe THEN Rest!ReleaseNow(s)
             ELSE IF q.hovered THEN [s EXCEPT !.leaving = TRUE] ELSE s
  BY DEF Rest!Pointer, Rest!ReleaseSoon
<1> HIDE DEF s, u
<1>4. CASE ~q.tracking
  BY <1>3, <1>4 DEF WindowSame
<1>5. CASE q.tracking /\ over
  <2>1. Rest!Pointer(q, over) = Rest!Hold(u)
    BY <1>3, <1>5
  <2> DEFINE t == Rest!Hold(u)
  <2>2. /\ t \in RestStates /\ WindowSame(u, t) /\ TrackSame(u, t) /\ t.level = "awake"
        /\ ~t.stopped /\ t.held /\ t.focused = u.focused /\ ~t.rest /\ ~t.deep
    BY <1>2, HoldDoes
  <2> HIDE DEF t
  <2>3. /\ WindowSame(q, t) /\ t.tracking = q.tracking /\ t.focused = q.focused /\ ~t.unconfirmed
        /\ t.hovered /\ ~t.probe /\ ~t.leaving
    BY <1>2, <2>2 DEF WindowSame, TimerSame, TrackSame
  <2> QED
    BY <1>5, <2>1, <2>2, <2>3, Zenon DEF t
<1>6. CASE q.tracking /\ ~over /\ q.probe
  <2>1. Rest!Pointer(q, over) = Rest!ReleaseNow(s)
    BY <1>3, <1>6
  <2> DEFINE t == Rest!ReleaseNow(s)
  <2>2. /\ t \in RestStates /\ WindowSame(s, t) /\ t.level = "awake" /\ ~t.hovered /\ ~t.probe
        /\ t.unconfirmed = s.unconfirmed /\ t.tracking = s.tracking /\ t.leaving = s.leaving
        /\ ~t.stopped /\ ~t.held /\ t.focused = s.focused /\ (t.rest <=> ~s.focused)
        /\ (t.deep <=> t.rest)
    BY <1>1, NowDoes
  <2> HIDE DEF t
  <2>3. /\ WindowSame(q, t) /\ t.tracking = q.tracking /\ t.focused = q.focused /\ ~t.unconfirmed
        /\ t.leaving = q.leaving /\ (t.rest <=> ~q.focused) /\ (t.deep <=> ~q.focused)
    BY <1>1, <2>2 DEF WindowSame, TimerSame
  <2> QED
    BY <1>6, <2>1, <2>2, <2>3 DEF t
<1>7. CASE q.tracking /\ ~over /\ ~q.probe /\ ~q.hovered
  <2>1. Rest!Pointer(q, over) = s
    BY <1>3, <1>7
  <2> QED
    BY <1>1, <1>7, <2>1, Zenon DEF WindowSame, TimerSame
<1>8. CASE q.tracking /\ ~over /\ ~q.probe /\ q.hovered
  <2>1. Rest!Pointer(q, over) = [s EXCEPT !.leaving = TRUE]
    BY <1>3, <1>8
  <2>2. LET t == [s EXCEPT !.leaving = TRUE] IN
          /\ t \in RestStates /\ WindowSame(s, t) /\ TimerSame(s, t) /\ t.hovered = s.hovered
          /\ t.probe = s.probe /\ ~t.unconfirmed /\ t.tracking = s.tracking /\ t.leaving
    BY <1>1, Zenon DEF RestStates, WindowSame, TimerSame
  <2> QED
    BY <1>1, <1>8, <2>1, <2>2, Zenon DEF WindowSame, TimerSame
<1> QED
  BY <1>4, <1>5, <1>6, <1>7, <1>8

LEMMA VisibilityDoes ==
  ASSUME NEW q \in RestStates
  PROVE  LET t == Rest!Visibility(q) IN
              /\ t \in RestStates /\ WindowSame(q, t) /\ t.level = "awake" /\ t.focused = q.focused
              /\ t.hovered = q.hovered
              /\ ~q.visible => /\ ~t.probe /\ ~t.leaving /\ ~t.tracking /\ t.unconfirmed = q.unconfirmed
                               /\ t.stopped /\ ~t.held /\ ~t.rest /\ ~t.deep
              /\ q.visible =>
                   /\ t.unconfirmed /\ t.tracking /\ t.leaving = q.leaving /\ ~t.stopped
                   /\ (t.held <=> q.hovered \/ q.held) /\ (t.probe <=> q.hovered \/ q.probe)
                   /\ (t.rest <=> ~t.held /\ ~t.focused) /\ (t.deep <=> t.rest)
<1> DEFINE s == [Rest!EndAwait(Rest!Kept(q)) EXCEPT !.tracking = FALSE]
           u == [q EXCEPT !.unconfirmed = TRUE, !.tracking = TRUE]
           v == Rest!Hold(u)
<1>1. /\ s \in RestStates /\ WindowSame(q, s) /\ TimerSame(q, s) /\ s.hovered = q.hovered
      /\ ~s.probe /\ s.unconfirmed = q.unconfirmed /\ ~s.tracking /\ ~s.leaving
  BY Zenon DEF RestStates, WindowSame, TimerSame, Rest!EndAwait, Rest!Kept
<1>2. /\ u \in RestStates /\ WindowSame(q, u) /\ TimerSame(q, u) /\ u.hovered = q.hovered
      /\ u.probe = q.probe /\ u.unconfirmed /\ u.tracking /\ u.leaving = q.leaving
  BY Zenon DEF RestStates, WindowSame, TimerSame
<1>3. Rest!Visibility(q) =
        IF ~q.visible THEN Rest!Stop(s)
        ELSE IF q.hovered THEN [v EXCEPT !.probe = TRUE] ELSE Rest!Wake(u)
  BY DEF Rest!Visibility
<1> HIDE DEF s, u
<1>4. CASE ~q.visible
  BY <1>1, <1>3, <1>4, StopDoes DEF WindowSame, TimerSame, TrackSame
<1>5. CASE q.visible /\ ~q.hovered
  <2>1. Rest!Visibility(q) = Rest!Wake(u)
    BY <1>3, <1>5
  <2> DEFINE t == Rest!Wake(u)
  <2>2. /\ t \in RestStates /\ WindowSame(u, t) /\ TrackSame(u, t) /\ t.level = "awake"
        /\ ~t.stopped /\ t.held = u.held /\ t.focused = u.focused
        /\ (t.rest <=> ~u.held /\ ~u.focused) /\ (t.deep <=> t.rest)
    BY <1>2, WakeDoes
  <2> HIDE DEF t
  <2>3. /\ WindowSame(q, t) /\ t.hovered = q.hovered /\ t.focused = q.focused /\ t.held = q.held
        /\ t.unconfirmed /\ t.tracking /\ t.leaving = q.leaving /\ t.probe = q.probe
        /\ (t.rest <=> ~t.held /\ ~t.focused)
    BY <1>2, <2>2 DEF WindowSame, TimerSame, TrackSame
  <2> QED
    BY <1>5, <2>1, <2>2, <2>3 DEF t
<1>6. CASE q.visible /\ q.hovered
  <2>1. /\ v \in RestStates /\ WindowSame(q, v) /\ v.level = "awake" /\ v.focused = q.focused
        /\ v.hovered = q.hovered /\ v.unconfirmed /\ v.tracking /\ v.leaving = q.leaving
        /\ ~v.stopped /\ v.held /\ ~v.rest /\ ~v.deep
    BY <1>2, HoldDoes DEF WindowSame, TimerSame, TrackSame
  <2> HIDE DEF v
  <2>2. LET t == [v EXCEPT !.probe = TRUE] IN
          /\ t \in RestStates /\ WindowSame(v, t) /\ TimerSame(v, t) /\ t.hovered = v.hovered
          /\ t.probe /\ t.unconfirmed = v.unconfirmed /\ t.tracking = v.tracking
          /\ t.leaving = v.leaving
    BY <2>1, Zenon DEF RestStates, WindowSame, TimerSame
  <2>3. Rest!Visibility(q) = [v EXCEPT !.probe = TRUE]
    BY <1>3, <1>6
  <2> QED
    BY <2>1, <2>2, <2>3, <1>6, Zenon DEF WindowSame, TimerSame
<1> QED
  BY <1>4, <1>5, <1>6

(* Each handler keeps it *)

LEMMA AttentionKeeps ==
  ASSUME NEW q \in RestStates, NEW now \in BOOLEAN
  PROVE  LET t == Rest!ApplyAttention(q, now) IN t \in RestStates /\ TrackSame(q, t) /\ WindowSame(q, t)
<1>1. TrackSame(q, q) /\ WindowSame(q, q)
  BY DEF TrackSame, WindowSame
<1> QED
  BY <1>1, FocusDoes, BlurDoes DEF Rest!ApplyAttention

LEMMA RestBlursKeeps == RestInv /\ Rest!Blurs => RestInv'
<1> SUFFICES ASSUME RestInv, Rest!Blurs PROVE RestInv'
  OBVIOUS
<1> DEFINE s == [[m EXCEPT !.active = FALSE] EXCEPT !.back = FALSE]
<1>1. /\ s \in RestStates /\ TimerSame(m, s) /\ TrackSame(m, s) /\ ~s.active /\ ~s.back
      /\ s.visible = m.visible /\ s.closing = m.closing /\ s.over = m.over /\ s.inside = m.inside
  BY Zenon DEF RestInv, RestStates, TimerSame, TrackSame
<1>2. m.visible /\ m' = Rest!Blur(s)
  <2>1. m.visible /\ m' = Rest!ApplyAttention(s, FALSE)
    BY DEF Rest!Blurs, Rest!AttentionLost
  <2> QED
    BY <1>1, <2>1 DEF Rest!ApplyAttention
<1> HIDE DEF s
<1>3. m' \in RestStates /\ TrackSame(s, m') /\ WindowSame(s, m')
  BY <1>1, <1>2, BlurDoes
<1>f. m'.focused \in BOOLEAN /\ m'.active \in BOOLEAN
  BY <1>3, RestFlags
<1>4. CASE m' = s /\ ~s.focused /\ (s.rest \/ s.level # "awake")
  BY <1>1, <1>2, <1>3, <1>f, <1>4 DEF RestInv, PointerInv, Rest!PetRests, Rest!RestIsEarned, Rest!FocusIsKnown,
    Rest!HoldIsTrue, Rest!NeverStuckAwake, TimerSame, TrackSame, WindowSame
<1>5. CASE /\ ~m'.focused /\ m'.held = s.held /\ m'.stopped = s.stopped /\ m'.level = s.level
           /\ \/ (s.held \/ s.stopped) /\ m'.rest = s.rest /\ m'.deep = s.deep
              \/ ~s.held /\ ~s.stopped /\ m'.rest /\ m'.deep
           /\ s.focused \/ (~s.rest /\ s.level = "awake")
  BY <1>1, <1>2, <1>3, <1>f, <1>5 DEF RestInv, PointerInv, Rest!PetRests, Rest!RestIsEarned, Rest!FocusIsKnown,
    Rest!HoldIsTrue, Rest!NeverStuckAwake, TimerSame, TrackSame, WindowSame
<1> QED
  BY <1>1, <1>2, <1>4, <1>5, BlurDoes

LEMMA RestFocusesKeeps == RestInv /\ Rest!Focuses => RestInv'
<1> SUFFICES ASSUME RestInv, Rest!Focuses PROVE RestInv'
  OBVIOUS
<1>1. /\ m' \in RestStates /\ TimerSame(m, m') /\ TrackSame(m, m') /\ m'.active /\ m'.back
      /\ m'.visible = m.visible /\ m'.closing = m.closing /\ m'.over = m.over /\ m'.inside = m.inside
      /\ m.visible
  BY Zenon DEF RestInv, RestStates, TimerSame, TrackSame, Rest!Focuses, Rest!AttentionBack
<1> QED
  BY <1>1, RestFlags DEF RestInv, PointerInv, Rest!PetRests, Rest!RestIsEarned, Rest!FocusIsKnown,
    Rest!HoldIsTrue, Rest!NeverStuckAwake, TimerSame, TrackSame, WindowSame

\* The focus as it is read, late or at once.
LEMMA RestReturnsKeeps == RestInv /\ Rest!Returns => RestInv'
<1> SUFFICES ASSUME RestInv, Rest!Returns PROVE RestInv'
  OBVIOUS
<1> DEFINE s == [m EXCEPT !.back = FALSE]
<1>1. /\ s \in RestStates /\ TimerSame(m, s) /\ TrackSame(m, s) /\ ~s.back /\ s.active = m.active
      /\ s.visible = m.visible /\ s.closing = m.closing /\ s.over = m.over /\ s.inside = m.inside
  BY Zenon DEF RestInv, RestStates, TimerSame, TrackSame
<1>2. m' = IF ~s.visible THEN s ELSE IF s.active THEN Rest!Focus(s) ELSE Rest!Blur(s)
  BY <1>1 DEF Rest!Returns, Rest!ApplyAttention
<1> HIDE DEF s
<1>3. CASE ~s.visible
  <2>1. m' = s
    BY <1>2, <1>3
  <2> QED
    BY <1>1, <1>3, <2>1, RestFlags DEF RestInv, PointerInv, Rest!PetRests, Rest!RestIsEarned, Rest!FocusIsKnown,
      Rest!HoldIsTrue, Rest!NeverStuckAwake, TimerSame, TrackSame, WindowSame
<1>4. CASE s.visible /\ s.active
  <2>1. m' = Rest!Focus(s)
    BY <1>2, <1>4
  <2>2. /\ m' \in RestStates /\ TrackSame(s, m') /\ WindowSame(s, m') /\ m'.level = "awake"
        /\ ~m'.stopped /\ m'.held = s.held /\ m'.focused /\ ~m'.rest /\ ~m'.deep
    BY <1>1, <2>1, FocusDoes
  <2>3. m'.focused \in BOOLEAN /\ m'.active \in BOOLEAN
    BY <2>2, RestFlags
  <2> QED
    BY <1>1, <1>4, <2>2, <2>3 DEF RestInv, PointerInv, Rest!PetRests, Rest!RestIsEarned, Rest!FocusIsKnown,
      Rest!HoldIsTrue, Rest!NeverStuckAwake, TimerSame, TrackSame, WindowSame
<1>5. CASE s.visible /\ ~s.active
  <2>1. m' = Rest!Blur(s)
    BY <1>2, <1>5
  <2>2. m' \in RestStates /\ TrackSame(s, m') /\ WindowSame(s, m')
    BY <1>1, <2>1, BlurDoes
  <2>3. m'.focused \in BOOLEAN /\ m'.active \in BOOLEAN
    BY <2>2, RestFlags
  <2>4. CASE m' = s /\ ~s.focused /\ (s.rest \/ s.level # "awake")
    BY <1>1, <1>5, <2>2, <2>3, <2>4 DEF RestInv, PointerInv, Rest!PetRests, Rest!RestIsEarned, Rest!FocusIsKnown,
      Rest!HoldIsTrue, Rest!NeverStuckAwake, TimerSame, TrackSame, WindowSame
  <2>5. CASE /\ ~m'.focused /\ m'.held = s.held /\ m'.stopped = s.stopped /\ m'.level = s.level
             /\ \/ (s.held \/ s.stopped) /\ m'.rest = s.rest /\ m'.deep = s.deep
                \/ ~s.held /\ ~s.stopped /\ m'.rest /\ m'.deep
             /\ s.focused \/ (~s.rest /\ s.level = "awake")
    BY <1>1, <1>5, <2>2, <2>3, <2>5 DEF RestInv, PointerInv, Rest!PetRests, Rest!RestIsEarned, Rest!FocusIsKnown,
      Rest!HoldIsTrue, Rest!NeverStuckAwake, TimerSame, TrackSame, WindowSame
  <2> QED
    BY <1>1, <2>1, <2>4, <2>5, BlurDoes
<1> QED
  BY <1>3, <1>4, <1>5

LEMMA RestClosesKeeps == RestInv /\ Rest!Closes => RestInv'
<1> SUFFICES ASSUME RestInv, Rest!Closes PROVE RestInv'
  OBVIOUS
<1> DEFINE s == Rest!Leave(m)
<1>1. /\ s \in RestStates /\ WindowSame(m, s) /\ TimerSame(m, s) /\ s.hovered = m.hovered
      /\ s.probe = m.probe /\ s.unconfirmed = m.unconfirmed /\ s.leaving
      /\ (s.tracking <=> m.tracking /\ m.unconfirmed) /\ m.visible /\ m.inside
  BY LeaveDoes DEF RestInv, Rest!Closes
<1>2. m' = [s EXCEPT !.inside = FALSE, !.closing = TRUE]
  BY DEF Rest!Closes
<1> HIDE DEF s
<1>3. /\ m' \in RestStates /\ TimerSame(s, m') /\ TrackSame(s, m') /\ ~m'.inside /\ m'.closing
      /\ m'.visible = s.visible /\ m'.active = s.active /\ m'.back = s.back /\ m'.over = s.over
  BY <1>1, <1>2, Zenon DEF RestStates, TimerSame, TrackSame
<1> QED
  BY <1>1, <1>3, RestFlags DEF RestInv, PointerInv, Rest!PetRests, Rest!RestIsEarned, Rest!FocusIsKnown,
    Rest!HoldIsTrue, Rest!NeverStuckAwake, TimerSame, TrackSame, WindowSame

LEMMA RestHidesKeeps == RestInv /\ Rest!Hides => RestInv'
<1> SUFFICES ASSUME RestInv, Rest!Hides PROVE RestInv'
  OBVIOUS
<1> DEFINE s == [[m EXCEPT !.visible = FALSE, !.active = FALSE, !.inside = FALSE, !.closing = FALSE]
                   EXCEPT !.back = FALSE]
<1>1. /\ s \in RestStates /\ TimerSame(m, s) /\ TrackSame(m, s) /\ ~s.back /\ ~s.active
      /\ ~s.visible /\ ~s.closing /\ s.over = m.over /\ ~s.inside
  BY Zenon DEF RestInv, RestStates, TimerSame, TrackSame
<1>2. m' = Rest!Visibility(s)
  <2>1. m' = Rest!Visibility(Rest!ApplyAttention(s, FALSE))
    BY DEF Rest!Hides, Rest!AttentionLost
  <2>2. Rest!ApplyAttention(s, FALSE) = s
    BY <1>1 DEF Rest!ApplyAttention
  <2> QED
    BY <2>1, <2>2, Zenon
<1> HIDE DEF s
<1>3. /\ m' \in RestStates /\ WindowSame(s, m') /\ m'.level = "awake" /\ m'.focused = s.focused
      /\ m'.hovered = s.hovered /\ ~m'.probe /\ ~m'.leaving /\ ~m'.tracking
      /\ m'.unconfirmed = s.unconfirmed /\ m'.stopped /\ ~m'.held /\ ~m'.rest /\ ~m'.deep
  BY <1>1, <1>2, VisibilityDoes
<1> QED
  BY <1>1, <1>3 DEF RestInv, PointerInv, Rest!PetRests, Rest!RestIsEarned, Rest!FocusIsKnown,
    Rest!HoldIsTrue, Rest!NeverStuckAwake, TimerSame, TrackSame, WindowSame

LEMMA RestShowsKeeps ==
  ASSUME RestInv, NEW active \in BOOLEAN, NEW enter \in BOOLEAN, Rest!Shows(active, enter)
  PROVE  RestInv'
<1> DEFINE s == [[m EXCEPT !.visible = TRUE, !.active = active] EXCEPT !.back = TRUE]
           u == Rest!Visibility(s)
           v == Rest!Enter(u)
<1>1. /\ s \in RestStates /\ TimerSame(m, s) /\ TrackSame(m, s) /\ s.back
      /\ s.visible /\ ~m.visible /\ s.closing = m.closing /\ s.over = m.over /\ s.inside = m.inside
  BY Zenon DEF RestInv, RestStates, TimerSame, TrackSame, Rest!Shows
<1>2. m' = IF enter THEN [v EXCEPT !.inside = TRUE] ELSE u
  BY DEF Rest!Shows, Rest!AttentionBack
<1> HIDE DEF s
<1>3. /\ u \in RestStates /\ WindowSame(s, u) /\ u.level = "awake" /\ u.focused = s.focused
      /\ u.hovered = s.hovered /\ u.unconfirmed /\ u.tracking /\ u.leaving = s.leaving /\ ~u.stopped
      /\ (u.held <=> s.hovered \/ s.held) /\ (u.probe <=> s.hovered \/ s.probe)
      /\ (u.rest <=> ~u.held /\ ~u.focused) /\ (u.deep <=> u.rest)
  BY <1>1, VisibilityDoes
<1> HIDE DEF u
<1>4. /\ v \in RestStates /\ WindowSame(u, v) /\ v.hovered /\ ~v.leaving
      /\ v.unconfirmed = u.unconfirmed /\ (v.probe <=> u.unconfirmed)
      /\ (v.tracking <=> u.unconfirmed /\ u.tracking) /\ v.level = "awake" /\ ~v.stopped /\ v.held
      /\ v.focused = u.focused /\ ~v.rest /\ ~v.deep
  BY <1>3, EnterDoes, Zenon
<1> HIDE DEF v
<1>5. CASE ~enter
  <2>1. m' = u
    BY <1>2, <1>5
  <2>2. m'.probe = m'.unconfirmed \/ ~m'.probe
    BY <1>3, <2>1, RestFlags
  <2> QED
    BY <1>1, <1>3, <2>1, <2>2, Zenon DEF RestInv, PointerInv, Rest!PetRests, Rest!RestIsEarned, Rest!FocusIsKnown,
      Rest!HoldIsTrue, Rest!NeverStuckAwake, TimerSame, TrackSame, WindowSame
<1>6. CASE enter
  <2>1. m' = [v EXCEPT !.inside = TRUE]
    BY <1>2, <1>6
  <2>2. /\ m' \in RestStates /\ TimerSame(v, m') /\ TrackSame(v, m') /\ m'.inside
        /\ m'.visible = v.visible /\ m'.active = v.active /\ m'.back = v.back /\ m'.over = v.over
        /\ m'.closing = v.closing
    BY <1>4, <2>1, Zenon DEF RestStates, TimerSame, TrackSame
  <2>3. m'.probe \in BOOLEAN /\ m'.unconfirmed \in BOOLEAN
    BY <2>2, RestFlags
  <2> QED
    BY <1>1, <1>3, <1>4, <2>2, <2>3, Zenon DEF RestInv, PointerInv, Rest!PetRests, Rest!RestIsEarned, Rest!FocusIsKnown,
      Rest!HoldIsTrue, Rest!NeverStuckAwake, TimerSame, TrackSame, WindowSame
<1> QED
  BY <1>5, <1>6

\* What the pointer's move leaves is what its mouseenter or mouseleave finds.
LEMMA MovesKeeps ==
  ASSUME RestInv, NEW over \in BOOLEAN, NEW told \in BOOLEAN, Rest!Moves(over, told)
  PROVE  RestInv'
<1> DEFINE s == [m EXCEPT !.over = over]
           u == Rest!Pointer(s, over)
           v == Rest!Enter(u)
           x == Rest!Leave(u)
<1>1. /\ s \in RestStates /\ TimerSame(m, s) /\ TrackSame(m, s) /\ s.back = m.back
      /\ s.visible /\ m.visible /\ ~m.closing /\ s.closing = m.closing /\ s.over = over
      /\ s.inside = m.inside /\ s.active = m.active
      /\ told \/ (m.tracking /\ over /\ ~m.inside)
  BY DEF RestInv, RestStates, TimerSame, TrackSame, Rest!Moves
<1>2. m' = IF ~told \/ over = m.inside THEN u ELSE [IF over THEN v ELSE x EXCEPT !.inside = over]
  BY DEF Rest!Moves
<1> HIDE DEF s
<1>3. /\ u \in RestStates /\ WindowSame(s, u) /\ u.tracking = s.tracking /\ u.focused = s.focused
      /\ ~s.tracking => u = s
      /\ s.tracking =>
           /\ ~u.unconfirmed
           /\ over => /\ u.hovered /\ ~u.probe /\ ~u.leaving /\ u.held /\ u.level = "awake"
                      /\ ~u.stopped /\ ~u.rest /\ ~u.deep
           /\ ~over /\ s.probe =>
                /\ ~u.hovered /\ ~u.probe /\ u.leaving = s.leaving /\ ~u.held /\ u.level = "awake"
                /\ ~u.stopped /\ (u.rest <=> ~s.focused) /\ (u.deep <=> ~s.focused)
           /\ ~over /\ ~s.probe =>
                /\ TimerSame(s, u) /\ u.hovered = s.hovered /\ u.probe = s.probe
                /\ (u.leaving <=> s.leaving \/ s.hovered)
  BY <1>1, PointerDoes
<1> HIDE DEF u
<1>4. CASE ~told \/ over = m.inside
  <2>1. m' = u
    BY <1>2, <1>4
  <2>2. m'.probe \in BOOLEAN /\ m'.unconfirmed \in BOOLEAN /\ m.inside \in BOOLEAN
    BY <1>3, <2>1, RestFlags DEF RestInv, RestStates
  <2>3. CASE ~m.tracking
    BY <1>1, <1>3, <1>4, <2>1, <2>2, <2>3 DEF RestInv, PointerInv, Rest!PetRests, Rest!RestIsEarned, Rest!FocusIsKnown,
      Rest!HoldIsTrue, Rest!NeverStuckAwake, TimerSame, TrackSame, WindowSame
  <2>4. CASE m.tracking /\ over
    BY <1>1, <1>3, <1>4, <2>1, <2>2, <2>4, Zenon DEF RestInv, PointerInv, Rest!PetRests, Rest!RestIsEarned, Rest!FocusIsKnown,
      Rest!HoldIsTrue, Rest!NeverStuckAwake, TimerSame, TrackSame, WindowSame
  <2>5. CASE m.tracking /\ ~over /\ m.probe
    BY <1>1, <1>3, <1>4, <2>1, <2>2, <2>5, Zenon DEF RestInv, PointerInv, Rest!PetRests, Rest!RestIsEarned, Rest!FocusIsKnown,
      Rest!HoldIsTrue, Rest!NeverStuckAwake, TimerSame, TrackSame, WindowSame
  <2>6. CASE m.tracking /\ ~over /\ ~m.probe
    BY <1>1, <1>3, <1>4, <2>1, <2>2, <2>6, Zenon DEF RestInv, PointerInv, Rest!PetRests, Rest!RestIsEarned, Rest!FocusIsKnown,
      Rest!HoldIsTrue, Rest!NeverStuckAwake, TimerSame, TrackSame, WindowSame
  <2> QED
    BY <2>3, <2>4, <2>5, <2>6
<1>5. CASE told /\ over # m.inside /\ over
  <2>1. /\ v \in RestStates /\ WindowSame(u, v) /\ v.hovered /\ ~v.leaving
        /\ v.unconfirmed = u.unconfirmed /\ (v.probe <=> u.unconfirmed)
        /\ (v.tracking <=> u.unconfirmed /\ u.tracking) /\ v.level = "awake" /\ ~v.stopped /\ v.held
        /\ v.focused = u.focused /\ ~v.rest /\ ~v.deep
    BY <1>3, EnterDoes
  <2>2. m' = [v EXCEPT !.inside = TRUE]
    BY <1>2, <1>5
  <2> HIDE DEF v
  <2>3. /\ m' \in RestStates /\ TimerSame(v, m') /\ TrackSame(v, m') /\ m'.inside
        /\ m'.visible = v.visible /\ m'.active = v.active /\ m'.back = v.back /\ m'.over = v.over
        /\ m'.closing = v.closing
    BY <2>1, <2>2, Zenon DEF RestStates, TimerSame, TrackSame
  <2>4. m'.probe \in BOOLEAN /\ m'.unconfirmed \in BOOLEAN
    BY <2>3, RestFlags
  <2> QED
    BY <1>1, <1>3, <1>5, <2>1, <2>3, <2>4 DEF RestInv, PointerInv, Rest!PetRests, Rest!RestIsEarned, Rest!FocusIsKnown,
      Rest!HoldIsTrue, Rest!NeverStuckAwake, TimerSame, TrackSame, WindowSame
<1>6. CASE told /\ over # m.inside /\ ~over
  <2>1. /\ x \in RestStates /\ WindowSame(u, x) /\ TimerSame(u, x) /\ x.hovered = u.hovered
        /\ x.probe = u.probe /\ x.unconfirmed = u.unconfirmed /\ x.leaving
        /\ (x.tracking <=> u.tracking /\ u.unconfirmed)
    BY <1>1, <1>3, LeaveDoes, Zenon DEF WindowSame
  <2>2. m' = [x EXCEPT !.inside = FALSE]
    BY <1>2, <1>6, Zenon
  <2> HIDE DEF x
  <2>3. /\ m' \in RestStates /\ TimerSame(x, m') /\ TrackSame(x, m') /\ ~m'.inside
        /\ m'.visible = x.visible /\ m'.active = x.active /\ m'.back = x.back /\ m'.over = x.over
        /\ m'.closing = x.closing
    BY <2>1, <2>2, Zenon DEF RestStates, TimerSame, TrackSame
  <2>4. m'.probe \in BOOLEAN /\ m'.unconfirmed \in BOOLEAN /\ m.inside
    BY <1>6, <2>3, RestFlags DEF RestInv, RestStates
  <2>5. CASE ~m.tracking
    BY <1>1, <1>3, <1>6, <2>1, <2>3, <2>4, <2>5 DEF RestInv, PointerInv, Rest!PetRests, Rest!RestIsEarned, Rest!FocusIsKnown,
      Rest!HoldIsTrue, Rest!NeverStuckAwake, TimerSame, TrackSame, WindowSame
  <2>6. CASE m.tracking /\ m.probe
    BY <1>1, <1>3, <1>6, <2>1, <2>3, <2>4, <2>6 DEF RestInv, PointerInv, Rest!PetRests, Rest!RestIsEarned, Rest!FocusIsKnown,
      Rest!HoldIsTrue, Rest!NeverStuckAwake, TimerSame, TrackSame, WindowSame
  <2>7. CASE m.tracking /\ ~m.probe
    BY <1>1, <1>3, <1>6, <2>1, <2>3, <2>4, <2>7 DEF RestInv, PointerInv, Rest!PetRests, Rest!RestIsEarned, Rest!FocusIsKnown,
      Rest!HoldIsTrue, Rest!NeverStuckAwake, TimerSame, TrackSame, WindowSame
  <2> QED
    BY <2>5, <2>6, <2>7
<1>7. m.inside \in BOOLEAN
  BY DEF RestInv, RestStates
<1> QED
  BY <1>4, <1>5, <1>6

LEMMA MovesAwayKeeps == RestInv /\ Rest!MovesAway => RestInv'
<1> SUFFICES ASSUME RestInv, Rest!MovesAway PROVE RestInv'
  OBVIOUS
<1>1. /\ m' \in RestStates /\ TimerSame(m, m') /\ TrackSame(m, m') /\ m'.active = m.active
      /\ m'.back = m.back /\ m'.visible = m.visible /\ m'.closing = m.closing /\ m'.inside = m.inside
      /\ ~m.visible
  BY Zenon DEF RestInv, RestStates, TimerSame, TrackSame, Rest!MovesAway
<1> QED
  BY <1>1 DEF RestInv, PointerInv, Rest!PetRests, Rest!RestIsEarned, Rest!FocusIsKnown,
    Rest!HoldIsTrue, Rest!NeverStuckAwake, TimerSame, TrackSame, WindowSame

LEMMA StirsKeeps == RestInv /\ Rest!Stirs => RestInv'
<1> SUFFICES ASSUME RestInv, Rest!Stirs PROVE RestInv'
  OBVIOUS
<1>1. /\ m' \in RestStates /\ TrackSame(m, m') /\ WindowSame(m, m') /\ m'.level = "awake"
      /\ ~m'.stopped /\ m'.held = m.held /\ m'.focused = m.focused
      /\ (m'.rest <=> ~m.held /\ ~m.focused) /\ (m'.deep <=> m'.rest)
  BY WakeDoes DEF RestInv, Rest!Stirs
<1> QED
  BY <1>1 DEF RestInv, PointerInv, Rest!PetRests, Rest!RestIsEarned, Rest!FocusIsKnown,
    Rest!HoldIsTrue, Rest!NeverStuckAwake, TimerSame, TrackSame, WindowSame

LEMMA RestTimersKeep == RestInv /\ (Rest!RestFires \/ Rest!DeepFires) => RestInv'
<1> SUFFICES ASSUME RestInv, Rest!RestFires \/ Rest!DeepFires PROVE RestInv'
  OBVIOUS
<1>1. CASE Rest!RestFires
  <2>1. /\ m' \in RestStates /\ TrackSame(m, m') /\ WindowSame(m, m') /\ m'.held = m.held
        /\ m'.focused = m.focused /\ m'.stopped = m.stopped /\ m'.level = "rest" /\ ~m'.rest
        /\ m'.deep = m.deep /\ m.rest
    BY <1>1, Zenon DEF RestInv, RestStates, WindowSame, TrackSame, Rest!RestFires
  <2> QED
    BY <2>1 DEF RestInv, PointerInv, Rest!PetRests, Rest!RestIsEarned, Rest!FocusIsKnown,
      Rest!HoldIsTrue, Rest!NeverStuckAwake, TimerSame, TrackSame, WindowSame
<1>2. CASE Rest!DeepFires
  <2>1. /\ m' \in RestStates /\ TrackSame(m, m') /\ WindowSame(m, m') /\ m'.held = m.held
        /\ m'.focused = m.focused /\ m'.stopped = m.stopped /\ m'.level = "deep" /\ m'.rest = m.rest
        /\ ~m'.deep /\ m.deep /\ ~m.rest
    BY <1>2, Zenon DEF RestInv, RestStates, WindowSame, TrackSame, Rest!DeepFires
  <2> QED
    BY <2>1 DEF RestInv, PointerInv, Rest!PetRests, Rest!RestIsEarned, Rest!FocusIsKnown,
      Rest!HoldIsTrue, Rest!NeverStuckAwake, TimerSame, TrackSame, WindowSame
<1> QED
  BY <1>1, <1>2

LEMMA ReleasesKeep == RestInv /\ (Rest!ProbeFires \/ Rest!LeaveFires) => RestInv'
<1> SUFFICES ASSUME RestInv, Rest!ProbeFires \/ Rest!LeaveFires PROVE RestInv'
  OBVIOUS
<1> DEFINE s == Rest!Kept(m)
<1>1. /\ s \in RestStates /\ WindowSame(m, s) /\ TimerSame(m, s) /\ s.hovered = m.hovered /\ ~s.leaving
      /\ s.unconfirmed = m.unconfirmed /\ s.tracking = m.tracking /\ s.probe = m.probe
  BY Zenon DEF RestInv, RestStates, WindowSame, TimerSame, Rest!Kept
<1> HIDE DEF s
<1>2. CASE Rest!ProbeFires
  <2>1. /\ m' \in RestStates /\ WindowSame(m, m') /\ ~m'.hovered /\ ~m'.probe
        /\ m'.unconfirmed = m.unconfirmed /\ m'.tracking = m.tracking /\ m'.leaving = m.leaving
        /\ m'.level = "awake" /\ ~m'.stopped /\ ~m'.held /\ m'.focused = m.focused
        /\ (m'.rest <=> ~m.focused) /\ (m'.deep <=> m'.rest) /\ m.probe
    BY <1>2, NowDoes DEF RestInv, Rest!ProbeFires
  <2> QED
    BY <2>1 DEF RestInv, PointerInv, Rest!PetRests, Rest!RestIsEarned, Rest!FocusIsKnown,
      Rest!HoldIsTrue, Rest!NeverStuckAwake, TimerSame, TrackSame, WindowSame
<1>3. CASE Rest!LeaveFires /\ m.visible
  <2>1. m' = Rest!ReleaseNow(s) /\ m.leaving /\ ~m.closing
    BY <1>3 DEF Rest!LeaveFires, s
  <2>2. /\ m' \in RestStates /\ WindowSame(s, m') /\ ~m'.hovered /\ ~m'.probe
        /\ m'.unconfirmed = s.unconfirmed /\ m'.tracking = s.tracking /\ m'.leaving = s.leaving
        /\ m'.level = "awake" /\ ~m'.stopped /\ ~m'.held /\ m'.focused = s.focused
        /\ (m'.rest <=> ~s.focused) /\ (m'.deep <=> m'.rest)
    BY <1>1, <2>1, NowDoes
  <2> QED
    BY <1>1, <1>3, <2>1, <2>2 DEF RestInv, PointerInv, Rest!PetRests, Rest!RestIsEarned, Rest!FocusIsKnown,
      Rest!HoldIsTrue, Rest!NeverStuckAwake, TimerSame, TrackSame, WindowSame
<1>4. CASE Rest!LeaveFires /\ ~m.visible
  BY <1>4 DEF RestInv, PointerInv, Rest!LeaveFires
<1> QED
  BY <1>2, <1>3, <1>4

LEMMA RestStart == Rest!Init => RestInv
<1> SUFFICES ASSUME Rest!Init PROVE RestInv
  OBVIOUS
<1> DEFINE born(visible, active) ==
      [level |-> "awake", rest |-> FALSE, deep |-> FALSE, held |-> FALSE, focused |-> active,
       stopped |-> FALSE, hovered |-> FALSE, probe |-> FALSE, unconfirmed |-> FALSE,
       tracking |-> FALSE, leaving |-> FALSE, visible |-> visible, active |-> active,
       back |-> FALSE, closing |-> FALSE, over |-> FALSE, inside |-> FALSE]
<1>1. PICK visible, active \in BOOLEAN :
        (active => visible) /\ m = Rest!Visibility(Rest!Wake(born(visible, active)))
  BY Zenon DEF Rest!Init
<1> DEFINE s == born(visible, active)
           u == Rest!Wake(s)
<1>2. /\ s \in RestStates /\ s.visible = visible /\ s.active = active /\ s.focused = active
      /\ ~s.hovered /\ ~s.probe /\ ~s.unconfirmed /\ ~s.leaving /\ ~s.held
      /\ ~s.over /\ ~s.closing /\ ~s.inside
  BY DEF RestStates
<1>3. m = Rest!Visibility(u)
  BY <1>1
<1> HIDE DEF s
<1>4. u \in RestStates /\ TrackSame(s, u) /\ WindowSame(s, u) /\ u.held = s.held /\ u.focused = s.focused
  BY <1>2, WakeDoes
<1> HIDE DEF u
<1>5. /\ m \in RestStates /\ WindowSame(u, m) /\ m.level = "awake" /\ m.focused = u.focused
      /\ m.hovered = u.hovered
      /\ ~u.visible => /\ ~m.probe /\ ~m.leaving /\ ~m.tracking /\ m.unconfirmed = u.unconfirmed
                       /\ m.stopped /\ ~m.held /\ ~m.rest /\ ~m.deep
      /\ u.visible =>
           /\ m.unconfirmed /\ m.tracking /\ m.leaving = u.leaving /\ ~m.stopped
           /\ (m.held <=> u.hovered \/ u.held) /\ (m.probe <=> u.hovered \/ u.probe)
           /\ (m.rest <=> ~m.held /\ ~m.focused) /\ (m.deep <=> m.rest)
  BY <1>3, <1>4, VisibilityDoes
<1> QED
  BY <1>1, <1>2, <1>4, <1>5 DEF RestInv, PointerInv, Rest!PetRests, Rest!RestIsEarned, Rest!FocusIsKnown,
    Rest!HoldIsTrue, Rest!NeverStuckAwake, TimerSame, TrackSame, WindowSame

LEMMA RestStep == RestInv /\ Rest!Next => RestInv'
BY RestBlursKeeps, RestFocusesKeeps, RestReturnsKeeps, RestClosesKeeps, RestHidesKeeps, RestShowsKeeps, MovesKeeps, MovesAwayKeeps,
   StirsKeeps, RestTimersKeep, ReleasesKeep
   DEF Rest!Next

-----------------------------------------------------------------------------
(* The pet's life *)

LifeStates ==
  [char : {"mascot", "hacker"}, act : Life!Acts, drawn : Life!Acts, prior : Life!Acts, bag : Life!Bags,
   mode : Life!Acts \cup {"intent", "celebration"}, away : Life!Absences,
   back : Life!Absences \cup {"no"}, visible : BOOLEAN, active : BOOLEAN, focused : BOOLEAN,
   cooled : BOOLEAN, vip : BOOLEAN, modal : BOOLEAN, modalSeen : BOOLEAN, page : BOOLEAN,
   gate : BOOLEAN, dwell : BOOLEAN, micro : BOOLEAN, beat : BOOLEAN, swap : BOOLEAN, joy : BOOLEAN,
   intent : BOOLEAN, celebrating : BOOLEAN, hint : BOOLEAN, owed : BOOLEAN, sound : BOOLEAN,
   cadence : BOOLEAN, ambient : BOOLEAN, repeated : BOOLEAN]

\* Fields that a helper leaves alone.
SceneSame(q, t) ==
  /\ t.char = q.char /\ t.act = q.act /\ t.drawn = q.drawn /\ t.prior = q.prior /\ t.mode = q.mode
  /\ t.celebrating = q.celebrating /\ t.cooled = q.cooled
GestureSame(q, t) == t.joy = q.joy /\ t.intent = q.intent /\ t.hint = q.hint
GateSame(q, t) ==
  /\ t.page = q.page /\ t.gate = q.gate /\ t.modalSeen = q.modalSeen /\ t.owed = q.owed
  /\ t.dwell = q.dwell /\ t.micro = q.micro /\ t.beat = q.beat
SoundSame(q, t) == t.sound = q.sound /\ t.cadence = q.cadence /\ t.ambient = q.ambient
AwaySame(q, t) == t.back = q.back /\ t.away = q.away /\ t.focused = q.focused
FrameSame(q, t) == t.visible = q.visible /\ t.active = q.active /\ t.modal = q.modal
BagSame(q, t) == t.bag = q.bag /\ t.repeated = q.repeated

\* What the life gate was last given is what the timers have been told.
GateInv ==
  /\ m.gate /\ ~m.owed => m.dwell /\ m.micro
  /\ ~m.gate => ~m.micro
  /\ m.beat => m.micro
  /\ ~m.visible => ~m.joy /\ ~m.hint /\ ~m.focused /\ ~m.active /\ (~m.page => ~m.dwell)

\* What is drawn is behind only after a switch, and a celebration has the canvas.
SceneInv ==
  /\ m.intent => m.joy
  /\ m.cooled => m.drawn = m.act
  /\ m.celebrating => IF m.char = "mascot" THEN m.act = Life!Salute
                      ELSE m.mode = "celebration" /\ m.prior = m.act /\ m.drawn = m.act
  /\ m.char = "hacker" /\ ~m.celebrating /\ m.drawn = m.act /\ ~m.hint /\ ~m.intent => m.mode = m.act

BagInv == ~m.repeated /\ (Len(m.bag) = 2 => m.bag[1] # m.bag[2])
LifeInv == m \in LifeStates /\ GateInv /\ SceneInv /\ BagInv /\ Life!AmbientFollows

LEMMA LifeFlags ==
  ASSUME NEW t \in LifeStates
  PROVE  /\ t.focused \in BOOLEAN /\ t.active \in BOOLEAN /\ t.visible \in BOOLEAN
         /\ t.page \in BOOLEAN /\ t.gate \in BOOLEAN /\ t.modal \in BOOLEAN /\ t.modalSeen \in BOOLEAN
         /\ t.char \in {"mascot", "hacker"}
BY DEF LifeStates

LEMMA LifeIsGood == LifeInv => Life!PetLives
<1> SUFFICES ASSUME LifeInv PROVE Life!PetLives
  OBVIOUS
<1>1. m \in LifeStates
  BY DEF LifeInv
<1>2. Life!Flushed => (m.gate <=> Life!Alive(m)) /\ (m.page <=> m.visible)
  BY DEF Life!Flushed
<1>3. Life!Alive(m) => m.visible
  BY DEF Life!Alive
<1>4. Life!LifeFollows
  BY <1>2, <1>3 DEF LifeInv, GateInv, Life!LifeFollows
<1>5. Life!CanvasFollows
  BY <1>1, LifeFlags DEF LifeInv, SceneInv, Life!CanvasFollows, Life!Flushed
<1>6. Life!ActsAreFresh
  BY DEF LifeInv, SceneInv, BagInv, Life!ActsAreFresh
<1> QED
  BY <1>4, <1>5, <1>6 DEF LifeInv, Life!PetLives

(* What each helper does *)

LEMMA CanvasDoes ==
  ASSUME NEW q \in LifeStates, NEW mode \in Life!Acts \cup {"intent", "celebration"}
  PROVE  LET t == Life!OnCanvas(q, mode) IN
           /\ t \in LifeStates /\ t.mode = IF q.char = "hacker" THEN mode ELSE q.mode
           /\ t.char = q.char /\ t.act = q.act /\ t.drawn = q.drawn /\ t.prior = q.prior
           /\ t.celebrating = q.celebrating /\ t.cooled = q.cooled
           /\ GestureSame(q, t) /\ GateSame(q, t) /\ SoundSame(q, t) /\ AwaySame(q, t)
           /\ FrameSame(q, t) /\ BagSame(q, t)
<1> USE DEF LifeStates, GestureSame, GateSame, SoundSame, AwaySame, FrameSame, BagSame
<1>1. CASE q.char = "hacker"
  BY <1>1 DEF Life!OnCanvas
<1>2. CASE q.char # "hacker"
  BY <1>2 DEF Life!OnCanvas
<1> QED
  BY <1>1, <1>2

LEMMA ScheduleDoes ==
  ASSUME NEW q \in LifeStates
  PROVE  LET t == Life!ScheduleAmbient(q) IN
           /\ t \in LifeStates /\ SceneSame(q, t) /\ GestureSame(q, t) /\ GateSame(q, t) /\ AwaySame(q, t)
           /\ FrameSame(q, t) /\ BagSame(q, t)
           /\ t.sound = q.sound /\ t.cadence /\ t.ambient = q.sound
BY Zenon DEF LifeStates, SceneSame, GestureSame, GateSame, AwaySame, FrameSame, BagSame,
       Life!ScheduleAmbient

LEMMA SilenceDoes ==
  ASSUME NEW q \in LifeStates
  PROVE  LET t == Life!StopAmbient(q) IN
           /\ t \in LifeStates /\ SceneSame(q, t) /\ GestureSame(q, t) /\ GateSame(q, t) /\ AwaySame(q, t)
           /\ FrameSame(q, t) /\ BagSame(q, t)
           /\ t.sound = q.sound /\ ~t.cadence /\ ~t.ambient
BY Zenon DEF LifeStates, SceneSame, GestureSame, GateSame, AwaySame, FrameSame, BagSame,
       Life!StopAmbient

LEMMA RestartDoes ==
  ASSUME NEW q \in LifeStates
  PROVE  LET t == Life!RestartAmbient(q) IN
           /\ t \in LifeStates /\ SceneSame(q, t) /\ GestureSame(q, t) /\ GateSame(q, t) /\ AwaySame(q, t)
           /\ FrameSame(q, t) /\ BagSame(q, t)
           /\ t.sound = q.sound /\ t.cadence = q.cadence /\ (t.ambient <=> q.cadence /\ q.sound)
<1> DEFINE x == q.cadence /\ q.sound
<1>1. Life!RestartAmbient(q) = [q EXCEPT !.ambient = x] /\ x \in BOOLEAN
  BY DEF Life!RestartAmbient
<1> HIDE DEF x
<1>2. LET t == [q EXCEPT !.ambient = x] IN
        /\ t \in LifeStates /\ SceneSame(q, t) /\ GestureSame(q, t) /\ GateSame(q, t) /\ AwaySame(q, t)
        /\ FrameSame(q, t) /\ BagSame(q, t)
        /\ t.sound = q.sound /\ t.cadence = q.cadence /\ t.ambient = x
  BY <1>1 DEF LifeStates, SceneSame, GestureSame, GateSame, AwaySame, FrameSame, BagSame
<1> QED
  BY <1>1, <1>2, Zenon DEF x

\* A switch that is not the celebration's own ends the celebration.
LEMMA ToldDoes ==
  ASSUME NEW q \in LifeStates, NEW next \in Life!Acts, NEW own \in BOOLEAN
  PROVE  LET t == Life!Told(q, next, own) IN
           /\ t \in LifeStates
           /\ t.char = q.char /\ t.act = q.act /\ t.drawn = q.drawn /\ t.prior = q.prior
           /\ t.cooled = q.cooled /\ (t.celebrating <=> q.celebrating /\ own)
           /\ ~q.celebrating \/ own => t.mode = q.mode
           /\ q.celebrating /\ ~own => t.mode = IF q.char = "hacker" THEN next ELSE q.mode
           /\ GestureSame(q, t) /\ GateSame(q, t) /\ SoundSame(q, t) /\ AwaySame(q, t)
           /\ FrameSame(q, t) /\ BagSame(q, t)
<1>1. CASE ~q.celebrating \/ own
  <2>1. Life!Told(q, next, own) = q
    BY <1>1 DEF Life!Told
  <2> QED
    BY <1>1, <2>1 DEF GestureSame, GateSame, SoundSame, AwaySame, FrameSame, BagSame
<1>2. CASE q.celebrating /\ ~own
  <2> DEFINE s == [q EXCEPT !.celebrating = FALSE]
  <2>1. /\ s \in LifeStates /\ s.char = q.char /\ s.act = q.act /\ s.drawn = q.drawn
        /\ s.prior = q.prior /\ s.cooled = q.cooled /\ ~s.celebrating /\ s.mode = q.mode
        /\ GestureSame(q, s) /\ GateSame(q, s) /\ SoundSame(q, s) /\ AwaySame(q, s)
        /\ FrameSame(q, s) /\ BagSame(q, s)
    BY Zenon DEF LifeStates, GestureSame, GateSame, SoundSame, AwaySame, FrameSame, BagSame
  <2>2. Life!Told(q, next, own) = Life!OnCanvas(s, next)
    BY <1>2 DEF Life!Told
  <2> HIDE DEF s
  <2>3. next \in Life!Acts \cup {"intent", "celebration"}
    OBVIOUS
  <2> QED
    BY <1>2, <2>1, <2>2, <2>3, CanvasDoes
       DEF GestureSame, GateSame, SoundSame, AwaySame, FrameSame, BagSame
<1> QED
  BY <1>1, <1>2

LEMMA SetDoes ==
  ASSUME NEW s \in LifeStates, NEW next \in Life!Acts
  PROVE  LET u == [s EXCEPT !.act = next, !.cooled = FALSE] IN
           /\ u \in LifeStates
           /\ u.char = s.char /\ u.act = next /\ u.drawn = s.drawn /\ u.prior = s.prior /\ ~u.cooled
           /\ u.celebrating = s.celebrating /\ u.mode = s.mode
           /\ GestureSame(s, u) /\ GateSame(s, u) /\ SoundSame(s, u) /\ AwaySame(s, u)
           /\ FrameSame(s, u) /\ BagSame(s, u)
BY Zenon DEF LifeStates, GestureSame, GateSame, SoundSame, AwaySame, FrameSame, BagSame

LEMMA CommitDoes ==
  ASSUME NEW q \in LifeStates, NEW next \in Life!Acts, NEW own \in BOOLEAN, NEW silent \in BOOLEAN
  PROVE  LET t == Life!Commit(q, next, own, silent) IN
           /\ t \in LifeStates
           /\ t.char = q.char /\ t.act = next /\ t.drawn = q.drawn /\ t.prior = q.prior /\ ~t.cooled
           /\ (t.celebrating <=> q.celebrating /\ own)
           /\ ~q.celebrating \/ own => t.mode = q.mode
           /\ q.celebrating /\ ~own => t.mode = IF q.char = "hacker" THEN next ELSE q.mode
           /\ GestureSame(q, t) /\ GateSame(q, t) /\ AwaySame(q, t) /\ FrameSame(q, t) /\ BagSame(q, t)
           /\ t.sound = q.sound /\ t.cadence = q.cadence
           /\ t.ambient = q.ambient \/ (t.ambient <=> q.cadence /\ q.sound)
<1> DEFINE s == Life!Told(q, next, own)
           u == [s EXCEPT !.act = next, !.cooled = FALSE]
           v == [u EXCEPT !.swap = TRUE]
<1>1. /\ s \in LifeStates
      /\ s.char = q.char /\ s.act = q.act /\ s.drawn = q.drawn /\ s.prior = q.prior
      /\ s.cooled = q.cooled /\ (s.celebrating <=> q.celebrating /\ own)
      /\ ~q.celebrating \/ own => s.mode = q.mode
      /\ q.celebrating /\ ~own => s.mode = IF q.char = "hacker" THEN next ELSE q.mode
      /\ GestureSame(q, s) /\ GateSame(q, s) /\ SoundSame(q, s) /\ AwaySame(q, s)
      /\ FrameSame(q, s) /\ BagSame(q, s)
  BY ToldDoes
<1> HIDE DEF s
<1>2. /\ u \in LifeStates
      /\ u.char = s.char /\ u.act = next /\ u.drawn = s.drawn /\ u.prior = s.prior /\ ~u.cooled
      /\ u.celebrating = s.celebrating /\ u.mode = s.mode
      /\ GestureSame(s, u) /\ GateSame(s, u) /\ SoundSame(s, u) /\ AwaySame(s, u)
      /\ FrameSame(s, u) /\ BagSame(s, u)
  BY <1>1, SetDoes, Zenon
<1> USE DEF LifeStates, GestureSame, GateSame, SoundSame, AwaySame, FrameSame, BagSame
<1>3. Life!Commit(q, next, own, silent) = IF silent THEN v ELSE Life!RestartAmbient(u)
  BY DEF Life!Commit, s
<1> HIDE DEF u
<1>6. v \in LifeStates /\ SceneSame(u, v) /\ GestureSame(u, v) /\ GateSame(u, v) /\ SoundSame(u, v)
      /\ AwaySame(u, v) /\ FrameSame(u, v) /\ BagSame(u, v)
  BY <1>2, Zenon DEF SceneSame
<1> HIDE DEF LifeStates, GestureSame, GateSame, SoundSame, AwaySame, FrameSame, BagSame
<1> HIDE DEF v
<1>4. CASE silent
  <2>1. Life!Commit(q, next, own, silent) = v
    BY <1>3, <1>4
  <2> QED
    BY <1>1, <1>2, <1>6, <2>1
       DEF SceneSame, GestureSame, GateSame, SoundSame, AwaySame, FrameSame, BagSame
<1>5. CASE ~silent
  <2> DEFINE t == Life!RestartAmbient(u)
  <2>1. Life!Commit(q, next, own, silent) = t
    BY <1>3, <1>5
  <2>2. /\ t \in LifeStates /\ SceneSame(u, t) /\ GestureSame(u, t) /\ GateSame(u, t) /\ AwaySame(u, t)
        /\ FrameSame(u, t) /\ BagSame(u, t)
        /\ t.sound = u.sound /\ t.cadence = u.cadence /\ (t.ambient <=> u.cadence /\ u.sound)
    BY <1>2, RestartDoes
  <2> HIDE DEF t
  <2>3. /\ t.char = s.char /\ t.act = next /\ t.drawn = s.drawn /\ t.prior = s.prior /\ ~t.cooled
        /\ t.celebrating = s.celebrating /\ t.mode = s.mode
        /\ GestureSame(s, t) /\ GateSame(s, t) /\ AwaySame(s, t) /\ FrameSame(s, t) /\ BagSame(s, t)
        /\ t.sound = s.sound /\ t.cadence = s.cadence /\ (t.ambient <=> s.cadence /\ s.sound)
    BY <1>2, <2>2 DEF SceneSame, GestureSame, GateSame, SoundSame, AwaySame, FrameSame, BagSame
  <2> QED
    BY <1>1, <2>1, <2>2, <2>3 DEF GestureSame, GateSame, SoundSame, AwaySame, FrameSame, BagSame
<1> QED
  BY <1>4, <1>5

(* The bag *)

LEMMA BagShapes ==
  ASSUME NEW b \in Life!Bags
  PROVE  \/ b = <<>>
         \/ \E x \in Life!Acts : b = <<x>>
         \/ \E x, y \in Life!Acts : b = <<x, y>> /\ (x \in Life!Std <=> y \in Life!Std)
BY DEF Life!Bags, Life!Acts, Life!Std, Life!Vip, Life!Salute

\* What is drawn differs from what is on, whatever was forced in between.
\* What is drawn differs from what is on, whatever was forced in between.
LEMMA ShuffledFresh ==
  ASSUME NEW pool \in {Life!Std, Life!Vip}, NEW old, NEW b \in Life!Shuffled(pool, old)
  PROVE  /\ b \in Life!Bags /\ b # <<>> /\ b[1] \in Life!Acts /\ b[1] # old
         /\ Tail(b) \in Life!Bags /\ Len(Tail(b)) # 2
<1>1. PICK x, y \in pool : b = <<x, y>> /\ x # old
  BY DEF Life!Shuffled
<1>2. Tail(b) = <<y>> /\ Len(<<y>>) = 1 /\ b[1] = x /\ b # <<>>
  BY <1>1
<1>3. x \in Life!Acts /\ y \in Life!Acts
  BY <1>1 DEF Life!Acts
<1>4. b \in Life!Bags
  BY <1>1 DEF Life!Bags
<1>5. <<y>> \in Life!Bags
  BY <1>3 DEF Life!Bags
<1> QED
  BY <1>1, <1>2, <1>3, <1>4, <1>5

LEMMA RestOfBag ==
  ASSUME NEW b \in Life!Bags, b # <<>>
  PROVE  /\ b[1] \in Life!Acts /\ Tail(b) \in Life!Bags /\ Len(Tail(b)) # 2
         /\ Tail(b) # <<>> => Len(b) = 2 /\ Tail(b)[1] = b[2] /\ b[2] \in Life!Acts
         /\ Tail(b) # <<>> => Tail(Tail(b)) = <<>>
<1>1. CASE \E x \in Life!Acts : b = <<x>>
  <2>1. PICK x \in Life!Acts : b = <<x>>
    BY <1>1
  <2>2. Tail(b) = <<>> /\ b[1] = x /\ Len(<<>>) = 0
    BY <2>1
  <2>3. <<>> \in Life!Bags
    BY DEF Life!Bags
  <2> QED
    BY <2>1, <2>2, <2>3
<1>2. CASE \E x, y \in Life!Acts : b = <<x, y>>
  <2>1. PICK x, y \in Life!Acts : b = <<x, y>>
    BY <1>2
  <2>2. /\ Tail(b) = <<y>> /\ b[1] = x /\ Len(<<y>>) = 1 /\ Len(b) = 2 /\ <<y>>[1] = y /\ b[2] = y
        /\ Tail(<<y>>) = <<>>
    BY <2>1
  <2>3. <<y>> \in Life!Bags
    BY DEF Life!Bags
  <2> QED
    BY <2>1, <2>2, <2>3
<1> QED
  BY <1>1, <1>2, BagShapes

LEMMA DrawsFresh ==
  ASSUME NEW q \in LifeStates, Len(q.bag) = 2 => q.bag[1] # q.bag[2], NEW d \in Life!Draws(q)
  PROVE  \E b \in Life!Bags :
           /\ b # <<>> /\ b[1] \in Life!Acts /\ b[1] # q.act
           /\ Tail(b) \in Life!Bags /\ Len(Tail(b)) # 2
           /\ d = [q EXCEPT !.bag = b, !.repeated = @ \/ b[1] = q.act]
<1> DEFINE pool == IF q.vip THEN Life!Vip ELSE Life!Std
           bag == IF q.bag # <<>> /\ q.bag[1] \in pool THEN q.bag ELSE <<>>
           rest == IF bag # <<>> /\ bag[1] = q.act THEN Tail(bag) ELSE bag
           drawn(b) == [q EXCEPT !.bag = b, !.repeated = @ \/ b[1] = q.act]
           good(b) == /\ b \in Life!Bags /\ b # <<>> /\ b[1] \in Life!Acts /\ b[1] # q.act
                      /\ Tail(b) \in Life!Bags /\ Len(Tail(b)) # 2
<1>1. PICK b \in (IF rest = <<>> THEN Life!Shuffled(pool, q.act) ELSE {rest}) : d = drawn(b)
  BY Zenon DEF Life!Draws
<1>2. q.bag \in Life!Bags
  BY DEF LifeStates
<1>3. ASSUME rest = <<>> PROVE good(b)
  <2>1. pool \in {Life!Std, Life!Vip} /\ b \in Life!Shuffled(pool, q.act)
    BY <1>1, <1>3
  <2> HIDE DEF pool
  <2> QED
    BY <2>1, ShuffledFresh
<1>4. ASSUME rest # <<>> PROVE good(b)
  <2>1. b = rest
    BY <1>1, <1>4
  <2>2. bag # <<>>
    BY <1>4
  <2>3. bag = q.bag
    BY <2>2
  <2>4. IF bag[1] = q.act THEN rest = Tail(bag) ELSE rest = bag
    BY <2>2
  <2> HIDE DEF rest, bag
  <2>5. CASE bag[1] # q.act
    BY <1>2, <2>1, <2>2, <2>3, <2>4, <2>5, RestOfBag
  <2>6. CASE bag[1] = q.act
    <3>1. b = Tail(q.bag) /\ b # <<>> /\ b \in Life!Bags
      BY <1>2, <1>4, <2>1, <2>2, <2>3, <2>4, <2>6, RestOfBag, Zenon
    <3>2. b[1] # q.act /\ b[1] \in Life!Acts
      BY <1>2, <2>2, <2>3, <2>6, <3>1, RestOfBag
    <3> QED
      BY <3>1, <3>2, RestOfBag, Zenon
  <2> QED
    BY <2>5, <2>6
<1> HIDE DEF drawn, rest
<1>5. good(b)
  BY <1>3, <1>4
<1> QED
  BY <1>1, <1>5, Zenon DEF drawn

\* A switch leaves at most one activity in the bag and never repeats.
LEMMA SwitchDoes ==
  ASSUME NEW q \in LifeStates, Len(q.bag) = 2 => q.bag[1] # q.bag[2], ~q.repeated,
         NEW silent \in BOOLEAN, NEW t \in Life!Switched(q, silent)
  PROVE  /\ t \in LifeStates
         /\ t.char = q.char /\ t.act # q.act /\ t.drawn = q.drawn /\ t.prior = q.prior /\ ~t.cooled
         /\ ~t.celebrating /\ (~q.celebrating => t.mode = q.mode)
         /\ q.celebrating => t.mode = IF q.char = "hacker" THEN t.act ELSE q.mode
         /\ GestureSame(q, t) /\ GateSame(q, t) /\ AwaySame(q, t) /\ FrameSame(q, t)
         /\ ~t.repeated /\ Len(t.bag) # 2
         /\ t.sound = q.sound /\ t.cadence = q.cadence
         /\ t.ambient = q.ambient \/ (t.ambient <=> q.cadence /\ q.sound)
<1>1. PICK d \in Life!Draws(q) : t = Life!Commit([d EXCEPT !.bag = Tail(@)], d.bag[1], FALSE, silent)
  BY Zenon DEF Life!Switched
<1>2. PICK b \in Life!Bags :
        /\ b # <<>> /\ b[1] \in Life!Acts /\ b[1] # q.act
        /\ Tail(b) \in Life!Bags /\ Len(Tail(b)) # 2
        /\ d = [q EXCEPT !.bag = b, !.repeated = @ \/ b[1] = q.act]
  BY DrawsFresh, Zenon
<1> DEFINE next == b[1]
           left == Tail(b)
           x == q.repeated \/ b[1] = q.act
           e == [d EXCEPT !.bag = Tail(@)]
<1>3. x \in BOOLEAN /\ ~x
  BY <1>2
<1>4. left \in Life!Bags /\ next \in Life!Acts /\ next # q.act /\ Len(left) # 2
  BY <1>2
<1>5. d = [q EXCEPT !.bag = b, !.repeated = x]
  BY <1>2
<1> HIDE DEF x
<1>6. d \in LifeStates /\ d.bag = b /\ d.repeated = x /\ SceneSame(q, d) /\ GestureSame(q, d)
      /\ GateSame(q, d) /\ SoundSame(q, d) /\ AwaySame(q, d) /\ FrameSame(q, d)
  BY <1>3, <1>5, Zenon DEF LifeStates, SceneSame, GestureSame, GateSame, SoundSame, AwaySame, FrameSame
<1>7. e = [d EXCEPT !.bag = left]
  BY <1>6
<1> HIDE DEF next, left
<1>8. e \in LifeStates /\ e.bag = left /\ e.repeated = d.repeated /\ SceneSame(d, e) /\ GestureSame(d, e)
      /\ GateSame(d, e) /\ SoundSame(d, e) /\ AwaySame(d, e) /\ FrameSame(d, e)
  <2>1. LET r == [d EXCEPT !.bag = left] IN
          /\ r \in LifeStates /\ r.bag = left /\ r.repeated = d.repeated /\ SceneSame(d, r) /\ GestureSame(d, r)
          /\ GateSame(d, r) /\ SoundSame(d, r) /\ AwaySame(d, r) /\ FrameSame(d, r)
    BY <1>4, <1>6 DEF LifeStates, SceneSame, GestureSame, GateSame, SoundSame, AwaySame, FrameSame
  <2> QED
    BY <1>7, <2>1, Zenon
<1> HIDE DEF e
<1>9. t = Life!Commit(e, next, FALSE, silent)
  BY <1>1, <1>6 DEF e, next
<1>10. /\ t \in LifeStates
       /\ t.char = e.char /\ t.act = next /\ t.drawn = e.drawn /\ t.prior = e.prior /\ ~t.cooled
       /\ ~t.celebrating /\ (~e.celebrating => t.mode = e.mode)
       /\ e.celebrating => t.mode = IF e.char = "hacker" THEN next ELSE e.mode
       /\ GestureSame(e, t) /\ GateSame(e, t) /\ AwaySame(e, t) /\ FrameSame(e, t) /\ BagSame(e, t)
       /\ t.sound = e.sound /\ t.cadence = e.cadence
       /\ t.ambient = e.ambient \/ (t.ambient <=> e.cadence /\ e.sound)
  <2> DEFINE own == FALSE
  <2>1. own \in BOOLEAN /\ ~own
    OBVIOUS
  <2>2. t = Life!Commit(e, next, own, silent)
    BY <1>9
  <2> HIDE DEF own
  <2>3. /\ t \in LifeStates
        /\ t.char = e.char /\ t.act = next /\ t.drawn = e.drawn /\ t.prior = e.prior /\ ~t.cooled
        /\ (t.celebrating <=> e.celebrating /\ own)
        /\ ~e.celebrating \/ own => t.mode = e.mode
        /\ e.celebrating /\ ~own => t.mode = IF e.char = "hacker" THEN next ELSE e.mode
        /\ GestureSame(e, t) /\ GateSame(e, t) /\ AwaySame(e, t) /\ FrameSame(e, t) /\ BagSame(e, t)
        /\ t.sound = e.sound /\ t.cadence = e.cadence
        /\ t.ambient = e.ambient \/ (t.ambient <=> e.cadence /\ e.sound)
    BY <1>4, <1>8, <2>1, <2>2, CommitDoes
  <2> QED
    BY <2>1, <2>3
<1> QED
  BY <1>3, <1>4, <1>6, <1>8, <1>10
     DEF SceneSame, GestureSame, GateSame, SoundSame, AwaySame, FrameSame, BagSame

(* Attention, gestures and timers *)

LEMMA LostDoes ==
  ASSUME NEW q \in LifeStates
  PROVE  LET t == Life!AttentionLost(q) IN
           /\ t \in LifeStates /\ SceneSame(q, t) /\ GestureSame(q, t) /\ GateSame(q, t)
           /\ FrameSame(q, t) /\ BagSame(q, t)
           /\ t.sound = q.sound /\ ~t.cadence /\ ~t.ambient /\ t.back = "no" /\ t.away = "short" /\ ~t.focused
<1> DEFINE s == [q EXCEPT !.back = "no", !.away = "short", !.focused = FALSE]
<1>1. Life!AttentionLost(q) = Life!StopAmbient(s)
  BY DEF Life!AttentionLost
<1>2. s \in LifeStates /\ SceneSame(q, s) /\ GestureSame(q, s) /\ GateSame(q, s) /\ FrameSame(q, s)
      /\ BagSame(q, s) /\ s.sound = q.sound /\ s.back = "no" /\ s.away = "short" /\ ~s.focused
  BY Zenon DEF LifeStates, Life!Absences, SceneSame, GestureSame, GateSame, FrameSame, BagSame
<1> HIDE DEF s
<1> QED
  BY <1>1, <1>2, SilenceDoes DEF SceneSame, GestureSame, GateSame, AwaySame, FrameSame, BagSame

LEMMA ReturnDoes ==
  ASSUME NEW q \in LifeStates
  PROVE  LET t == Life!ScheduleReturn(q) IN
           /\ t \in LifeStates /\ SceneSame(q, t) /\ GestureSame(q, t) /\ GateSame(q, t) /\ SoundSame(q, t)
           /\ FrameSame(q, t) /\ BagSame(q, t) /\ t.back # "no" /\ t.focused = q.focused
<1>1. CASE q.back = "no"
  BY <1>1 DEF LifeStates, Life!Absences, Life!ScheduleReturn,
              SceneSame, GestureSame, GateSame, SoundSame, FrameSame, BagSame
<1>2. CASE q.back # "no"
  BY <1>2 DEF Life!ScheduleReturn, SceneSame, GestureSame, GateSame, SoundSame, FrameSame, BagSame
<1> QED
  BY <1>1, <1>2

LEMMA CueDoes ==
  ASSUME NEW q \in LifeStates
  PROVE  LET t == Life!Cue(q) IN
           /\ t \in LifeStates /\ SceneSame(q, t) /\ GestureSame(q, t) /\ SoundSame(q, t)
           /\ AwaySame(q, t) /\ FrameSame(q, t) /\ BagSame(q, t)
           /\ t.page = q.page /\ t.gate = q.gate /\ t.modalSeen = q.modalSeen /\ t.owed = q.owed
           /\ t.micro = q.micro /\ t.beat = q.beat /\ (q.dwell => t.dwell) /\ (t.dwell => q.dwell \/ q.focused)
<1>1. CASE q.focused /\ ~q.modalSeen
  BY <1>1, Zenon DEF LifeStates, Life!Cue, SceneSame, GestureSame, SoundSame, AwaySame, FrameSame, BagSame
<1>2. CASE ~(q.focused /\ ~q.modalSeen)
  BY <1>2 DEF Life!Cue, SceneSame, GestureSame, SoundSame, AwaySame, FrameSame, BagSame
<1> QED
  BY <1>1, <1>2

LEMMA JoyEndsDoes ==
  ASSUME NEW q \in LifeStates
  PROVE  LET t == Life!JoyEnds(q) IN
           /\ t \in LifeStates /\ GateSame(q, t) /\ SoundSame(q, t) /\ AwaySame(q, t)
           /\ FrameSame(q, t) /\ BagSame(q, t)
           /\ t.char = q.char /\ t.act = q.act /\ t.drawn = q.drawn /\ t.prior = q.prior
           /\ t.celebrating = q.celebrating /\ t.cooled = q.cooled
           /\ t.mode = IF q.intent /\ ~q.celebrating /\ q.char = "hacker" THEN q.act ELSE q.mode
           /\ ~t.joy /\ ~t.intent /\ t.hint = q.hint
<1> DEFINE s == [q EXCEPT !.joy = FALSE, !.intent = FALSE]
<1>1. Life!JoyEnds(q) = IF q.intent /\ ~q.celebrating THEN Life!OnCanvas(s, q.act) ELSE s
  BY DEF Life!JoyEnds
<1>2. s \in LifeStates /\ SceneSame(q, s) /\ GateSame(q, s) /\ SoundSame(q, s) /\ AwaySame(q, s)
      /\ FrameSame(q, s) /\ BagSame(q, s) /\ ~s.joy /\ ~s.intent /\ s.hint = q.hint
  BY Zenon DEF LifeStates, SceneSame, GateSame, SoundSame, AwaySame, FrameSame, BagSame
<1>3. q.act \in Life!Acts \cup {"intent", "celebration"}
  BY DEF LifeStates
<1> HIDE DEF s
<1>4. CASE q.intent /\ ~q.celebrating
  <2>1. Life!JoyEnds(q) = Life!OnCanvas(s, q.act)
    BY <1>1, <1>4
  <2> QED
    BY <1>2, <1>3, <1>4, <2>1, CanvasDoes
       DEF SceneSame, GestureSame, GateSame, SoundSame, AwaySame, FrameSame, BagSame
<1>5. CASE ~(q.intent /\ ~q.celebrating)
  BY <1>1, <1>2, <1>5 DEF SceneSame
<1> QED
  BY <1>4, <1>5

LEMMA HintStoppedDoes ==
  ASSUME NEW q \in LifeStates
  PROVE  LET t == Life!HintStopped(q) IN
           /\ t \in LifeStates /\ GateSame(q, t) /\ SoundSame(q, t) /\ AwaySame(q, t)
           /\ FrameSame(q, t) /\ BagSame(q, t)
           /\ t.char = q.char /\ t.act = q.act /\ t.drawn = q.drawn /\ t.prior = q.prior
           /\ t.celebrating = q.celebrating /\ t.cooled = q.cooled
           /\ t.mode = IF q.hint /\ ~q.celebrating /\ q.char = "hacker" THEN q.act ELSE q.mode
           /\ t.joy = q.joy /\ t.intent = q.intent /\ ~t.hint
<1> DEFINE s == [q EXCEPT !.hint = FALSE]
<1>1. Life!HintStopped(q) = IF ~q.hint THEN q ELSE IF q.celebrating THEN s ELSE Life!OnCanvas(s, q.act)
  BY DEF Life!HintStopped
<1>2. s \in LifeStates /\ SceneSame(q, s) /\ GateSame(q, s) /\ SoundSame(q, s) /\ AwaySame(q, s)
      /\ FrameSame(q, s) /\ BagSame(q, s) /\ s.joy = q.joy /\ s.intent = q.intent /\ ~s.hint
  BY Zenon DEF LifeStates, SceneSame, GateSame, SoundSame, AwaySame, FrameSame, BagSame
<1>3. q.act \in Life!Acts \cup {"intent", "celebration"}
  BY DEF LifeStates
<1> HIDE DEF s
<1>4. CASE q.hint /\ ~q.celebrating
  <2>1. Life!HintStopped(q) = Life!OnCanvas(s, q.act)
    BY <1>1, <1>4
  <2> QED
    BY <1>2, <1>3, <1>4, <2>1, CanvasDoes
       DEF SceneSame, GestureSame, GateSame, SoundSame, AwaySame, FrameSame, BagSame
<1>5. CASE q.hint /\ q.celebrating
  BY <1>1, <1>2, <1>5, Zenon DEF SceneSame
<1>6. CASE ~q.hint
  BY <1>1, <1>6 DEF SceneSame, GateSame, SoundSame, AwaySame, FrameSame, BagSame
<1> QED
  BY <1>4, <1>5, <1>6

LEMMA PauseDoes ==
  ASSUME NEW q \in LifeStates
  PROVE  LET t == Life!Pause(q) IN
           /\ t \in LifeStates /\ SceneSame(q, t) /\ GestureSame(q, t) /\ SoundSame(q, t)
           /\ AwaySame(q, t) /\ FrameSame(q, t) /\ BagSame(q, t)
           /\ t.page = q.page /\ t.gate = q.gate /\ t.modalSeen = q.modalSeen /\ t.owed = q.owed
           /\ ~t.dwell /\ ~t.micro /\ ~t.beat
BY Zenon DEF LifeStates, Life!Pause, SceneSame, GestureSame, SoundSame, AwaySame, FrameSame, BagSame

LEMMA ResumeDoes ==
  ASSUME NEW q \in LifeStates
  PROVE  LET t == Life!Resume(q) IN
           /\ t \in LifeStates /\ SceneSame(q, t) /\ GestureSame(q, t) /\ SoundSame(q, t)
           /\ AwaySame(q, t) /\ FrameSame(q, t) /\ BagSame(q, t)
           /\ t.page = q.page /\ t.gate = q.gate /\ t.modalSeen = q.modalSeen /\ ~t.owed
           /\ t.dwell /\ t.micro /\ t.beat = q.beat
BY Zenon DEF LifeStates, Life!Resume, SceneSame, GestureSame, SoundSame, AwaySame, FrameSame, BagSame

\* The gate tells the timers when what it was given has changed.
LEMMA GateDoes ==
  ASSUME NEW q \in LifeStates
  PROVE  LET t == Life!Gate(q) IN
           /\ t \in LifeStates /\ SceneSame(q, t) /\ GestureSame(q, t) /\ SoundSame(q, t)
           /\ AwaySame(q, t) /\ FrameSame(q, t) /\ BagSame(q, t)
           /\ t.page = q.visible /\ (t.gate <=> Life!Alive(q)) /\ t.modalSeen = q.modalSeen
           /\ \/ GateSame(q, t)
              \/ t.dwell /\ t.micro /\ ~t.owed /\ t.beat = q.beat /\ Life!Alive(q)
              \/ ~t.dwell /\ ~t.micro /\ ~t.beat /\ t.owed = q.owed /\ ~Life!Alive(q)
<1> DEFINE x == Life!Alive(q)
           s == [q EXCEPT !.page = q.visible, !.gate = x]
<1>1. x \in BOOLEAN /\ (x => q.visible)
  BY DEF Life!Alive
<1>2. Life!Gate(q) = IF q.page = q.visible /\ q.gate = x THEN q
                     ELSE IF q.visible /\ x THEN Life!Resume(s) ELSE Life!Pause(s)
  BY DEF Life!Gate
<1> HIDE DEF x
<1>3. s \in LifeStates /\ SceneSame(q, s) /\ GestureSame(q, s) /\ SoundSame(q, s) /\ AwaySame(q, s)
      /\ FrameSame(q, s) /\ BagSame(q, s) /\ s.page = q.visible /\ s.gate = x
      /\ s.modalSeen = q.modalSeen /\ s.owed = q.owed /\ s.beat = q.beat
  BY <1>1, Zenon DEF LifeStates, SceneSame, GestureSame, SoundSame, AwaySame, FrameSame, BagSame
<1> HIDE DEF s
<1>4. CASE q.page = q.visible /\ q.gate = x
  <2>1. Life!Gate(q) = q
    BY <1>2, <1>4
  <2>2. q.gate <=> Life!Alive(q)
    BY <1>4 DEF x
  <2> QED
    BY <1>4, <2>1, <2>2
       DEF SceneSame, GestureSame, GateSame, SoundSame, AwaySame, FrameSame, BagSame
<1>5. CASE ~(q.page = q.visible /\ q.gate = x) /\ x
  <2> DEFINE t == Life!Resume(s)
  <2>1. Life!Gate(q) = t
    BY <1>1, <1>2, <1>5, Zenon
  <2>2. /\ t \in LifeStates /\ SceneSame(s, t) /\ GestureSame(s, t) /\ SoundSame(s, t)
        /\ AwaySame(s, t) /\ FrameSame(s, t) /\ BagSame(s, t)
        /\ t.page = s.page /\ t.gate = s.gate /\ t.modalSeen = s.modalSeen /\ ~t.owed
        /\ t.dwell /\ t.micro /\ t.beat = s.beat
    BY <1>3, ResumeDoes
  <2> HIDE DEF t
  <2>3. t.gate <=> Life!Alive(q)
    BY <1>3, <2>2 DEF x
  <2>4. Life!Alive(q)
    BY <1>5 DEF x
  <2> QED
    BY <1>3, <2>1, <2>2, <2>3, <2>4
       DEF SceneSame, GestureSame, SoundSame, AwaySame, FrameSame, BagSame
<1>6. CASE ~(q.page = q.visible /\ q.gate = x) /\ ~x
  <2> DEFINE t == Life!Pause(s)
  <2>1. Life!Gate(q) = t
    BY <1>1, <1>2, <1>6
  <2>2. /\ t \in LifeStates /\ SceneSame(s, t) /\ GestureSame(s, t) /\ SoundSame(s, t)
        /\ AwaySame(s, t) /\ FrameSame(s, t) /\ BagSame(s, t)
        /\ t.page = s.page /\ t.gate = s.gate /\ t.modalSeen = s.modalSeen /\ t.owed = s.owed
        /\ ~t.dwell /\ ~t.micro /\ ~t.beat
    BY <1>3, PauseDoes
  <2> HIDE DEF t
  <2>3. t.gate <=> Life!Alive(q)
    BY <1>3, <2>2 DEF x
  <2>4. ~Life!Alive(q)
    BY <1>6 DEF x
  <2> QED
    BY <1>3, <2>1, <2>2, <2>3, <2>4
       DEF SceneSame, GestureSame, SoundSame, AwaySame, FrameSame, BagSame
<1> QED
  BY <1>4, <1>5, <1>6

(* The actions *)

LEMMA TogglesSoundKeeps ==
  ASSUME LifeInv, Life!TogglesSound
  PROVE  LifeInv'
<1>0. m \in LifeStates /\ GateInv /\ SceneInv /\ BagInv /\ Life!AmbientFollows
  BY DEF LifeInv
<1>1. /\ m' \in LifeStates /\ SceneSame(m, m') /\ GestureSame(m, m') /\ GateSame(m, m') /\ AwaySame(m, m') /\ FrameSame(m, m') /\ BagSame(m, m')
      /\ (m'.ambient => m'.sound /\ m'.cadence) /\ (m'.sound => m'.ambient)
  <2>1. CASE m.sound
    <3> DEFINE s == [m EXCEPT !.sound = FALSE]
    <3>1. m' = Life!StopAmbient(s)
      BY <2>1 DEF Life!TogglesSound
    <3>2. s \in LifeStates /\ SceneSame(m, s) /\ GestureSame(m, s) /\ GateSame(m, s)
          /\ AwaySame(m, s) /\ FrameSame(m, s) /\ BagSame(m, s) /\ ~s.sound
      BY <1>0, Zenon DEF LifeStates, SceneSame, GestureSame, GateSame, SoundSame, AwaySame, FrameSame, BagSame
    <3> HIDE DEF s
    <3>3. /\ m' \in LifeStates /\ SceneSame(m, m') /\ GestureSame(m, m') /\ GateSame(m, m')
          /\ AwaySame(m, m') /\ FrameSame(m, m') /\ BagSame(m, m') /\ ~m'.sound /\ ~m'.ambient
      BY <3>1, <3>2, SilenceDoes DEF SceneSame, GestureSame, GateSame, SoundSame, AwaySame, FrameSame, BagSame
    <3> QED
      BY <3>3
  <2>2. CASE ~m.sound
    <3> DEFINE s == [m EXCEPT !.sound = TRUE]
    <3>1. m' = Life!ScheduleAmbient(s)
      BY <2>2 DEF Life!TogglesSound
    <3>2. s \in LifeStates /\ SceneSame(m, s) /\ GestureSame(m, s) /\ GateSame(m, s)
          /\ AwaySame(m, s) /\ FrameSame(m, s) /\ BagSame(m, s) /\ s.sound
      BY <1>0, Zenon DEF LifeStates, SceneSame, GestureSame, GateSame, SoundSame, AwaySame, FrameSame, BagSame
    <3> HIDE DEF s
    <3>3. /\ m' \in LifeStates /\ SceneSame(m, m') /\ GestureSame(m, m') /\ GateSame(m, m')
          /\ AwaySame(m, m') /\ FrameSame(m, m') /\ BagSame(m, m') /\ m'.sound /\ m'.cadence /\ m'.ambient = s.sound
      BY <3>1, <3>2, ScheduleDoes, Zenon DEF SceneSame, GestureSame, GateSame, SoundSame, AwaySame, FrameSame, BagSame
    <3>4. m'.ambient
      BY <3>2, <3>3
    <3> QED
      BY <3>3, <3>4
  <2> QED
    BY <2>1, <2>2
<1>2. GateInv'
  BY <1>0, <1>1 DEF GateInv, SceneSame, GestureSame, GateSame, SoundSame, AwaySame, FrameSame, BagSame
<1>3. SceneInv'
  BY <1>0, <1>1 DEF SceneInv, SceneSame, GestureSame, GateSame, SoundSame, AwaySame, FrameSame, BagSame
<1>4. BagInv'
  BY <1>0, <1>1 DEF BagInv, BagSame
<1>5. Life!AmbientFollows'
  BY <1>0, <1>1, LifeFlags DEF Life!AmbientFollows, SceneSame, GestureSame, GateSame, SoundSame, AwaySame, FrameSame, BagSame
<1> QED
  BY <1>1, <1>2, <1>3, <1>4, <1>5 DEF LifeInv

LEMMA MicroFiresKeeps ==
  ASSUME LifeInv, Life!MicroFires
  PROVE  LifeInv'
<1>0. m \in LifeStates /\ GateInv /\ SceneInv /\ BagInv /\ Life!AmbientFollows
  BY DEF LifeInv
<1> DEFINE x == ~m.beat
<1>1. x \in BOOLEAN /\ m.micro /\ m' = [m EXCEPT !.beat = x]
  BY DEF Life!MicroFires
<1> HIDE DEF x
<1>2. /\ m' \in LifeStates /\ SceneSame(m, m') /\ GestureSame(m, m') /\ SoundSame(m, m') /\ AwaySame(m, m') /\ FrameSame(m, m') /\ BagSame(m, m')
      /\ m'.page = m.page /\ m'.gate = m.gate /\ m'.owed = m.owed /\ m'.dwell = m.dwell
      /\ m'.micro = m.micro /\ m.micro
  BY <1>0, <1>1, Zenon DEF LifeStates, SceneSame, GestureSame, GateSame, SoundSame, AwaySame, FrameSame, BagSame
<1>3. GateInv'
  BY <1>0, <1>2 DEF GateInv, SceneSame, GestureSame, GateSame, SoundSame, AwaySame, FrameSame, BagSame
<1>4. SceneInv'
  BY <1>0, <1>2 DEF SceneInv, SceneSame, GestureSame, GateSame, SoundSame, AwaySame, FrameSame, BagSame
<1>5. BagInv'
  BY <1>0, <1>2 DEF BagInv, BagSame
<1>6. Life!AmbientFollows'
  BY <1>0, <1>2, LifeFlags DEF Life!AmbientFollows, SceneSame, GestureSame, GateSame, SoundSame, AwaySame, FrameSame, BagSame
<1> QED
  BY <1>2, <1>3, <1>4, <1>5, <1>6 DEF LifeInv

LEMMA SwapFiresKeeps ==
  ASSUME LifeInv, Life!SwapFires
  PROVE  LifeInv'
<1>0. m \in LifeStates /\ GateInv /\ SceneInv /\ BagInv /\ Life!AmbientFollows
  BY DEF LifeInv
<1>1. /\ m' \in LifeStates
      /\ SceneSame(m, m') /\ GestureSame(m, m') /\ GateSame(m, m') /\ SoundSame(m, m')
      /\ AwaySame(m, m') /\ FrameSame(m, m') /\ BagSame(m, m')
  BY <1>0, Zenon DEF Life!SwapFires, LifeStates, Life!Absences, SceneSame, GestureSame, GateSame, SoundSame, AwaySame, FrameSame, BagSame
<1>2. GateInv'
  BY <1>0, <1>1 DEF GateInv, SceneSame, GestureSame, GateSame, SoundSame, AwaySame, FrameSame, BagSame
<1>3. SceneInv'
  BY <1>0, <1>1 DEF SceneInv, SceneSame, GestureSame, GateSame, SoundSame, AwaySame, FrameSame, BagSame
<1>4. BagInv'
  BY <1>0, <1>1 DEF BagInv, BagSame
<1>5. Life!AmbientFollows'
  BY <1>0, <1>1, LifeFlags DEF Life!AmbientFollows, SceneSame, GestureSame, GateSame, SoundSame, AwaySame, FrameSame, BagSame
<1> QED
  BY <1>1, <1>2, <1>3, <1>4, <1>5 DEF LifeInv

LEMMA TimePassesKeeps ==
  ASSUME LifeInv, Life!TimePasses
  PROVE  LifeInv'
<1>0. m \in LifeStates /\ GateInv /\ SceneInv /\ BagInv /\ Life!AmbientFollows
  BY DEF LifeInv
<1>1. /\ m' \in LifeStates
      /\ GestureSame(m, m') /\ GateSame(m, m') /\ SoundSame(m, m')
      /\ FrameSame(m, m') /\ BagSame(m, m')
      /\ m'.back = m.back /\ m'.focused = m.focused
      /\ m'.char = m.char /\ m'.act = m.act /\ m'.drawn = m.drawn /\ m'.prior = m.prior
      /\ m'.mode = m.mode /\ m'.celebrating = m.celebrating /\ (m'.cooled => m.cooled \/ m.drawn = m.act)
  <2>1. CASE m.away = "short" /\ m' = [m EXCEPT !.away = "long"]
    BY <1>0, <2>1 DEF Life!TimePasses, LifeStates, Life!Absences, SceneSame, GestureSame, GateSame, SoundSame, AwaySame, FrameSame, BagSame
  <2>2. CASE ~m.cooled /\ m.drawn = m.act /\ m' = [m EXCEPT !.cooled = TRUE]
    BY <1>0, <2>2, Zenon DEF Life!TimePasses, LifeStates, Life!Absences, SceneSame, GestureSame, GateSame, SoundSame, AwaySame, FrameSame, BagSame
  <2> QED
    BY <2>1, <2>2, <1>0 DEF Life!TimePasses
<1>2. GateInv'
  BY <1>0, <1>1 DEF GateInv, SceneSame, GestureSame, GateSame, SoundSame, AwaySame, FrameSame, BagSame
<1>3. SceneInv'
  BY <1>0, <1>1 DEF SceneInv, SceneSame, GestureSame, GateSame, SoundSame, AwaySame, FrameSame, BagSame
<1>4. BagInv'
  BY <1>0, <1>1 DEF BagInv, BagSame
<1>5. Life!AmbientFollows'
  BY <1>0, <1>1, LifeFlags DEF Life!AmbientFollows, SceneSame, GestureSame, GateSame, SoundSame, AwaySame, FrameSame, BagSame
<1> QED
  BY <1>1, <1>2, <1>3, <1>4, <1>5 DEF LifeInv

LEMMA LifeOpensKeeps ==
  ASSUME LifeInv, Life!Opens
  PROVE  LifeInv'
<1>0. m \in LifeStates /\ GateInv /\ SceneInv /\ BagInv /\ Life!AmbientFollows
  BY DEF LifeInv
<1>1. /\ m' \in LifeStates
      /\ SceneSame(m, m') /\ GestureSame(m, m') /\ GateSame(m, m') /\ SoundSame(m, m')
      /\ AwaySame(m, m') /\ BagSame(m, m')
      /\ m'.visible = m.visible /\ m'.active = m.active
  BY <1>0, Zenon DEF Life!Opens, LifeStates, Life!Absences, SceneSame, GestureSame, GateSame, SoundSame, AwaySame, FrameSame, BagSame
<1>2. GateInv'
  BY <1>0, <1>1 DEF GateInv, SceneSame, GestureSame, GateSame, SoundSame, AwaySame, FrameSame, BagSame
<1>3. SceneInv'
  BY <1>0, <1>1 DEF SceneInv, SceneSame, GestureSame, GateSame, SoundSame, AwaySame, FrameSame, BagSame
<1>4. BagInv'
  BY <1>0, <1>1 DEF BagInv, BagSame
<1>5. Life!AmbientFollows'
  BY <1>0, <1>1, LifeFlags DEF Life!AmbientFollows, SceneSame, GestureSame, GateSame, SoundSame, AwaySame, FrameSame, BagSame
<1> QED
  BY <1>1, <1>2, <1>3, <1>4, <1>5 DEF LifeInv

LEMMA LifeClosesKeeps ==
  ASSUME LifeInv, Life!Closes
  PROVE  LifeInv'
<1>0. m \in LifeStates /\ GateInv /\ SceneInv /\ BagInv /\ Life!AmbientFollows
  BY DEF LifeInv
<1>1. /\ m' \in LifeStates
      /\ SceneSame(m, m') /\ GestureSame(m, m') /\ GateSame(m, m') /\ SoundSame(m, m')
      /\ AwaySame(m, m') /\ BagSame(m, m')
      /\ m'.visible = m.visible /\ m'.active = m.active
  BY <1>0, Zenon DEF Life!Closes, LifeStates, Life!Absences, SceneSame, GestureSame, GateSame, SoundSame, AwaySame, FrameSame, BagSame
<1>2. GateInv'
  BY <1>0, <1>1 DEF GateInv, SceneSame, GestureSame, GateSame, SoundSame, AwaySame, FrameSame, BagSame
<1>3. SceneInv'
  BY <1>0, <1>1 DEF SceneInv, SceneSame, GestureSame, GateSame, SoundSame, AwaySame, FrameSame, BagSame
<1>4. BagInv'
  BY <1>0, <1>1 DEF BagInv, BagSame
<1>5. Life!AmbientFollows'
  BY <1>0, <1>1, LifeFlags DEF Life!AmbientFollows, SceneSame, GestureSame, GateSame, SoundSame, AwaySame, FrameSame, BagSame
<1> QED
  BY <1>1, <1>2, <1>3, <1>4, <1>5 DEF LifeInv

LEMMA DwellFiresKeeps ==
  ASSUME LifeInv, Life!DwellFires
  PROVE  LifeInv'
<1>0. m \in LifeStates /\ GateInv /\ SceneInv /\ BagInv /\ Life!AmbientFollows
  BY DEF LifeInv
<1>1. m.dwell /\ m.drawn = m.act /\ ~m.celebrating /\ m' \in Life!Switched(m, TRUE)
  BY Zenon DEF Life!DwellFires
<1>2. /\ m' \in LifeStates
      /\ m'.char = m.char /\ m'.act # m.act /\ m'.drawn = m.drawn /\ m'.prior = m.prior /\ ~m'.cooled
      /\ ~m'.celebrating /\ m'.mode = m.mode /\ m.drawn = m.act
      /\ GestureSame(m, m') /\ GateSame(m, m') /\ AwaySame(m, m') /\ FrameSame(m, m')
      /\ ~m'.repeated /\ Len(m'.bag) # 2
      /\ m'.sound = m.sound /\ m'.cadence = m.cadence
      /\ m'.ambient = m.ambient \/ (m'.ambient <=> m.cadence /\ m.sound)
  BY <1>0, <1>1, SwitchDoes, Zenon DEF BagInv
<1>3. GateInv'
  BY <1>0, <1>2 DEF GateInv, SceneSame, GestureSame, GateSame, SoundSame, AwaySame, FrameSame, BagSame
<1>4. SceneInv'
  BY <1>0, <1>2 DEF SceneInv, SceneSame, GestureSame, GateSame, SoundSame, AwaySame, FrameSame, BagSame
<1>5. BagInv'
  BY <1>0, <1>2 DEF BagInv, BagSame
<1>6. Life!AmbientFollows'
  BY <1>0, <1>2, LifeFlags DEF Life!AmbientFollows, SceneSame, GestureSame, GateSame, SoundSame, AwaySame, FrameSame, BagSame
<1> QED
  BY <1>2, <1>3, <1>4, <1>5, <1>6 DEF LifeInv

LEMMA LifeBlursKeeps ==
  ASSUME LifeInv, Life!Blurs
  PROVE  LifeInv'
<1>0. m \in LifeStates /\ GateInv /\ SceneInv /\ BagInv /\ Life!AmbientFollows
  BY DEF LifeInv
<1> DEFINE s == [m EXCEPT !.active = FALSE]
<1>1. m' = Life!AttentionLost(s) /\ m.visible
  BY DEF Life!Blurs
<1>2. s \in LifeStates /\ SceneSame(m, s) /\ GestureSame(m, s) /\ GateSame(m, s) /\ SoundSame(m, s)
      /\ AwaySame(m, s) /\ BagSame(m, s) /\ s.visible = m.visible /\ ~s.active
  BY <1>0, Zenon DEF LifeStates, SceneSame, GestureSame, GateSame, SoundSame, AwaySame, FrameSame, BagSame
<1> HIDE DEF s
<1>3. /\ m' \in LifeStates /\ SceneSame(m, m') /\ GestureSame(m, m') /\ GateSame(m, m')
      /\ BagSame(m, m') /\ m'.visible = m.visible /\ ~m'.active /\ m.visible
      /\ m'.sound = m.sound /\ ~m'.cadence /\ ~m'.ambient /\ m'.back = "no" /\ ~m'.focused
  BY <1>1, <1>2, LostDoes, Zenon DEF SceneSame, GestureSame, GateSame, SoundSame, AwaySame, FrameSame, BagSame
<1>4. GateInv'
  BY <1>0, <1>3 DEF GateInv, SceneSame, GestureSame, GateSame, SoundSame, AwaySame, FrameSame, BagSame
<1>5. SceneInv'
  BY <1>0, <1>3 DEF SceneInv, SceneSame, GestureSame, GateSame, SoundSame, AwaySame, FrameSame, BagSame
<1>6. BagInv'
  BY <1>0, <1>3 DEF BagInv, BagSame
<1>7. Life!AmbientFollows'
  BY <1>0, <1>3, LifeFlags DEF Life!AmbientFollows, SceneSame, GestureSame, GateSame, SoundSame, AwaySame, FrameSame, BagSame
<1> QED
  BY <1>3, <1>4, <1>5, <1>6, <1>7 DEF LifeInv

LEMMA LifeFocusesKeeps ==
  ASSUME LifeInv, Life!Focuses
  PROVE  LifeInv'
<1>0. m \in LifeStates /\ GateInv /\ SceneInv /\ BagInv /\ Life!AmbientFollows
  BY DEF LifeInv
<1> DEFINE s == [m EXCEPT !.active = TRUE]
<1>1. m' = Life!ScheduleReturn(s) /\ m.visible
  BY DEF Life!Focuses
<1>2. s \in LifeStates /\ SceneSame(m, s) /\ GestureSame(m, s) /\ GateSame(m, s) /\ SoundSame(m, s)
      /\ AwaySame(m, s) /\ BagSame(m, s) /\ s.visible = m.visible
  BY <1>0, Zenon DEF LifeStates, SceneSame, GestureSame, GateSame, SoundSame, AwaySame, FrameSame, BagSame
<1> HIDE DEF s
<1>3. /\ m' \in LifeStates /\ SceneSame(m, m') /\ GestureSame(m, m') /\ GateSame(m, m')
      /\ BagSame(m, m') /\ SoundSame(m, m') /\ m'.visible = m.visible /\ m.visible
      /\ m'.back # "no" /\ m'.focused = m.focused
  BY <1>1, <1>2, ReturnDoes, Zenon DEF SceneSame, GestureSame, GateSame, SoundSame, AwaySame, FrameSame, BagSame
<1>4. GateInv'
  BY <1>0, <1>3 DEF GateInv, SceneSame, GestureSame, GateSame, SoundSame, AwaySame, FrameSame, BagSame
<1>5. SceneInv'
  BY <1>0, <1>3 DEF SceneInv, SceneSame, GestureSame, GateSame, SoundSame, AwaySame, FrameSame, BagSame
<1>6. BagInv'
  BY <1>0, <1>3 DEF BagInv, BagSame
<1>7. Life!AmbientFollows'
  BY <1>0, <1>3, LifeFlags DEF Life!AmbientFollows, SceneSame, GestureSame, GateSame, SoundSame, AwaySame, FrameSame, BagSame
<1> QED
  BY <1>3, <1>4, <1>5, <1>6, <1>7 DEF LifeInv

LEMMA LifeShowsKeeps ==
  ASSUME LifeInv, Life!Shows
  PROVE  LifeInv'
<1>0. m \in LifeStates /\ GateInv /\ SceneInv /\ BagInv /\ Life!AmbientFollows
  BY DEF LifeInv
<1>1. PICK active \in BOOLEAN :
        ~m.visible /\ m' = Life!ScheduleReturn([m EXCEPT !.visible = TRUE, !.active = active])
  BY Zenon DEF Life!Shows
<1> DEFINE s == [m EXCEPT !.visible = TRUE, !.active = active]
<1>2. s \in LifeStates /\ SceneSame(m, s) /\ GestureSame(m, s) /\ GateSame(m, s) /\ SoundSame(m, s)
      /\ AwaySame(m, s) /\ BagSame(m, s) /\ s.visible
  BY <1>0, Zenon DEF LifeStates, SceneSame, GestureSame, GateSame, SoundSame, AwaySame, FrameSame, BagSame
<1>3. m' = Life!ScheduleReturn(s)
  BY <1>1
<1> HIDE DEF s
<1>4. /\ m' \in LifeStates /\ SceneSame(m, m') /\ GestureSame(m, m') /\ GateSame(m, m')
      /\ BagSame(m, m') /\ SoundSame(m, m') /\ m'.visible /\ ~m.visible
      /\ m'.back # "no" /\ m'.focused = m.focused /\ ~m.focused
  BY <1>0, <1>1, <1>2, <1>3, ReturnDoes DEF GateInv, SceneSame, GestureSame, GateSame, SoundSame, AwaySame, FrameSame, BagSame
<1>5. GateInv'
  BY <1>0, <1>4 DEF GateInv, SceneSame, GestureSame, GateSame, SoundSame, AwaySame, FrameSame, BagSame
<1>6. SceneInv'
  BY <1>0, <1>4 DEF SceneInv, SceneSame, GestureSame, GateSame, SoundSame, AwaySame, FrameSame, BagSame
<1>7. BagInv'
  BY <1>0, <1>4 DEF BagInv, BagSame
<1>8. Life!AmbientFollows'
  BY <1>0, <1>4, LifeFlags DEF Life!AmbientFollows, SceneSame, GestureSame, GateSame, SoundSame, AwaySame, FrameSame, BagSame
<1> QED
  BY <1>4, <1>5, <1>6, <1>7, <1>8 DEF LifeInv

\* Once the focus is known: the cadence is on with the sound, then the switch and the cue.
LEMMA HereDoes ==
  ASSUME LifeInv, m.back # "no",
         NEW here, here = [m EXCEPT !.back = "no", !.focused = m.active, !.away = "none"],
         NEW heard, heard = IF m.sound THEN Life!ScheduleAmbient(here) ELSE here
  PROVE  /\ heard \in LifeStates /\ SceneSame(m, heard) /\ GestureSame(m, heard) /\ GateSame(m, heard)
         /\ FrameSame(m, heard) /\ BagSame(m, heard) /\ m.visible
         /\ heard.back = "no" /\ heard.focused = m.active /\ heard.sound = m.sound
         /\ heard.ambient => heard.sound /\ heard.cadence
         /\ heard.sound => heard.ambient /\ heard.cadence
<1>1. m \in LifeStates /\ m.visible /\ (m.ambient => m.sound /\ m.cadence)
  BY DEF LifeInv, Life!AmbientFollows
<1>2. here \in LifeStates /\ SceneSame(m, here) /\ GestureSame(m, here) /\ GateSame(m, here)
      /\ SoundSame(m, here) /\ FrameSame(m, here) /\ BagSame(m, here)
      /\ here.back = "no" /\ here.focused = m.active
  BY <1>1, Zenon DEF LifeStates, Life!Absences, SceneSame, GestureSame, GateSame, SoundSame, AwaySame, FrameSame, BagSame
<1>3. CASE m.sound
  <2>1. heard = Life!ScheduleAmbient(here)
    BY <1>3
  <2>2. /\ heard \in LifeStates /\ SceneSame(here, heard) /\ GestureSame(here, heard) /\ GateSame(here, heard)
        /\ AwaySame(here, heard) /\ FrameSame(here, heard) /\ BagSame(here, heard)
        /\ heard.sound = here.sound /\ heard.cadence /\ heard.ambient = here.sound
    BY <1>2, <2>1, ScheduleDoes, Zenon
  <2>3. heard.sound /\ heard.ambient
    BY <1>2, <1>3, <2>2 DEF SoundSame
  <2>4. SceneSame(m, heard) /\ GestureSame(m, heard) /\ GateSame(m, heard)
        /\ FrameSame(m, heard) /\ BagSame(m, heard)
    BY <1>2, <2>2 DEF SceneSame, GestureSame, GateSame, FrameSame, BagSame
  <2>5. heard.back = "no" /\ heard.focused = m.active /\ heard.sound = m.sound
    BY <1>2, <2>2 DEF AwaySame, SoundSame
  <2> QED
    BY <1>1, <2>2, <2>3, <2>4, <2>5
<1>4. CASE ~m.sound
  <2>1. heard = here
    BY <1>4
  <2> QED
    BY <1>1, <1>2, <1>4, <2>1 DEF SoundSame
<1> QED
  BY <1>3, <1>4

LEMMA LifeReturnsKeeps ==
  ASSUME LifeInv, Life!Returns
  PROVE  LifeInv'
<1>0. m \in LifeStates /\ GateInv /\ SceneInv /\ BagInv /\ Life!AmbientFollows
  BY DEF LifeInv
<1> DEFINE here == [m EXCEPT !.back = "no", !.focused = m.active, !.away = "none"]
           heard == IF m.sound THEN Life!ScheduleAmbient(here) ELSE here
<1>1. /\ m.back # "no"
      /\ IF m.back = "long" /\ m.cooled THEN m' \in {Life!Cue(c) : c \in Life!Switched(heard, FALSE)}
         ELSE m' = heard
  BY Zenon DEF Life!Returns
<1>2. /\ heard \in LifeStates /\ SceneSame(m, heard) /\ GestureSame(m, heard) /\ GateSame(m, heard)
      /\ FrameSame(m, heard) /\ BagSame(m, heard) /\ m.visible
      /\ heard.back = "no" /\ heard.focused = m.active /\ heard.sound = m.sound
      /\ heard.ambient => heard.sound /\ heard.cadence
      /\ heard.sound => heard.ambient /\ heard.cadence
  BY <1>1, HereDoes, Zenon
<1> HIDE DEF here, heard
<1>3. CASE ~(m.back = "long" /\ m.cooled)
  <2>1. m' = heard
    BY <1>1, <1>3, Zenon
  <2>2. GateInv'
    BY <1>0, <1>2, <2>1, Zenon DEF GateInv, SceneSame, GestureSame, GateSame, SoundSame, AwaySame, FrameSame, BagSame
  <2>3. SceneInv'
    BY <1>0, <1>2, <2>1 DEF SceneInv, SceneSame, GestureSame, GateSame, SoundSame, AwaySame, FrameSame, BagSame
  <2>4. BagInv'
    BY <1>0, <1>2, <2>1 DEF BagInv, BagSame
  <2>5. Life!AmbientFollows'
    BY <1>0, <1>2, <2>1 DEF Life!AmbientFollows, SceneSame, GestureSame, GateSame, SoundSame, AwaySame, FrameSame, BagSame
  <2> QED
    BY <1>2, <2>1, <2>2, <2>3, <2>4, <2>5 DEF LifeInv
<1>4. CASE m.back = "long" /\ m.cooled
  <2>1. PICK c \in Life!Switched(heard, FALSE) : m' = Life!Cue(c)
    BY <1>1, <1>4, Zenon
  <2>2. /\ Len(heard.bag) = 2 => heard.bag[1] # heard.bag[2]
        /\ ~heard.repeated /\ heard.drawn = heard.act
    BY <1>0, <1>2, <1>4 DEF BagInv, SceneInv, BagSame, SceneSame
  <2>3. /\ c \in LifeStates
        /\ c.char = heard.char /\ c.act # heard.act /\ c.drawn = heard.drawn /\ c.prior = heard.prior
        /\ ~c.cooled /\ ~c.celebrating
        /\ GestureSame(heard, c) /\ GateSame(heard, c) /\ AwaySame(heard, c) /\ FrameSame(heard, c)
        /\ ~c.repeated /\ Len(c.bag) # 2
        /\ c.sound = heard.sound /\ c.cadence = heard.cadence
        /\ c.ambient = heard.ambient \/ (c.ambient <=> heard.cadence /\ heard.sound)
    BY <1>2, <2>2, SwitchDoes, Zenon
  <2>4. /\ m' \in LifeStates /\ SceneSame(c, m') /\ GestureSame(c, m') /\ SoundSame(c, m')
        /\ AwaySame(c, m') /\ FrameSame(c, m') /\ BagSame(c, m')
        /\ m'.page = c.page /\ m'.gate = c.gate /\ m'.owed = c.owed
        /\ m'.micro = c.micro /\ m'.beat = c.beat /\ (c.dwell => m'.dwell)
    BY <2>1, <2>3, CueDoes
  <2>5. GateInv'
    <3>1. m'.visible /\ m'.gate = m.gate /\ m'.owed = m.owed /\ m'.micro = m.micro /\ m'.beat = m.beat
          /\ (m.dwell => m'.dwell)
      BY <1>2, <2>3, <2>4 DEF SceneSame, GestureSame, GateSame, SoundSame, AwaySame, FrameSame, BagSame
    <3> QED
      BY <1>0, <3>1 DEF GateInv
  <2>6. SceneInv'
    <3>1. m'.drawn # m'.act /\ ~m'.cooled /\ ~m'.celebrating /\ m'.intent = m.intent /\ m'.joy = m.joy
      BY <1>2, <2>2, <2>3, <2>4 DEF SceneSame, GestureSame, GateSame, SoundSame, AwaySame, FrameSame, BagSame
    <3> QED
      BY <1>0, <3>1 DEF SceneInv
  <2>7. BagInv'
    BY <2>3, <2>4 DEF BagInv, BagSame
  <2>8. Life!AmbientFollows'
    <3>1. m'.back = "no" /\ m'.focused = m.active /\ m'.active = m.active
      BY <1>2, <2>3, <2>4 DEF SceneSame, GestureSame, GateSame, SoundSame, AwaySame, FrameSame, BagSame
    <3>2. m'.sound = heard.sound /\ m'.cadence = heard.cadence
          /\ (m'.ambient = heard.ambient \/ (m'.ambient <=> heard.cadence /\ heard.sound))
      BY <2>3, <2>4 DEF SoundSame
    <3> QED
      BY <1>2, <3>1, <3>2 DEF Life!AmbientFollows
  <2> QED
    BY <2>4, <2>5, <2>6, <2>7, <2>8 DEF LifeInv
<1> QED
  BY <1>3, <1>4

LEMMA ClicksKeeps ==
  ASSUME LifeInv, Life!Clicks
  PROVE  LifeInv'
<1>0. m \in LifeStates /\ GateInv /\ SceneInv /\ BagInv /\ Life!AmbientFollows
  BY DEF LifeInv
<1> DEFINE x == m.char = "hacker" /\ ~m.celebrating
           s == [m EXCEPT !.joy = TRUE, !.intent = x]
           on == Life!RestartAmbient(s)
<1>1. m.visible /\ x \in BOOLEAN /\ m' = IF on.intent THEN Life!OnCanvas(on, "intent") ELSE on
  BY DEF Life!Clicks
<1>2. x <=> m.char = "hacker" /\ ~m.celebrating
  OBVIOUS
<1> HIDE DEF x
<1>3. s \in LifeStates /\ SceneSame(m, s) /\ GateSame(m, s) /\ SoundSame(m, s) /\ AwaySame(m, s) /\ FrameSame(m, s) /\ BagSame(m, s)
      /\ s.joy /\ s.intent = x
  BY <1>0, <1>1, Zenon DEF LifeStates, SceneSame, GestureSame, GateSame, SoundSame, AwaySame, FrameSame, BagSame
<1> HIDE DEF s
<1>4. /\ on \in LifeStates /\ SceneSame(s, on) /\ GestureSame(s, on) /\ GateSame(s, on) /\ AwaySame(s, on)
      /\ FrameSame(s, on) /\ BagSame(s, on)
      /\ on.sound = s.sound /\ on.cadence = s.cadence /\ (on.ambient <=> s.cadence /\ s.sound)
  BY <1>3, RestartDoes
<1> HIDE DEF on
<1>5. /\ m' \in LifeStates /\ m'.mode = IF on.intent THEN "intent" ELSE on.mode
      /\ m'.char = on.char /\ m'.act = on.act /\ m'.drawn = on.drawn /\ m'.prior = on.prior
      /\ m'.celebrating = on.celebrating /\ m'.cooled = on.cooled
      /\ GestureSame(on, m') /\ GateSame(on, m') /\ SoundSame(on, m') /\ AwaySame(on, m')
      /\ FrameSame(on, m') /\ BagSame(on, m')
  <2>1. CASE on.intent
    <3>1. m' = Life!OnCanvas(on, "intent") /\ on.char = "hacker"
      BY <1>1, <1>2, <1>3, <1>4, <2>1 DEF SceneSame, GestureSame
    <3> QED
      BY <1>4, <2>1, <3>1, CanvasDoes
  <2>2. CASE ~on.intent
    BY <1>1, <1>4, <2>2 DEF SceneSame, GestureSame, GateSame, SoundSame, AwaySame, FrameSame, BagSame
  <2> QED
    BY <2>1, <2>2
<1>6. /\ m' \in LifeStates /\ GateSame(m, m') /\ AwaySame(m, m') /\ FrameSame(m, m') /\ BagSame(m, m') /\ m.visible /\ m'.joy
      /\ m'.char = m.char /\ m'.act = m.act /\ m'.drawn = m.drawn /\ m'.prior = m.prior
      /\ m'.celebrating = m.celebrating /\ m'.cooled = m.cooled
      /\ (m'.intent <=> m.char = "hacker" /\ ~m.celebrating) /\ (~m'.intent => m'.mode = m.mode)
  <2>1. GateSame(m, m') /\ AwaySame(m, m') /\ FrameSame(m, m') /\ BagSame(m, m')
    BY <1>3, <1>4, <1>5 DEF GateSame, AwaySame, FrameSame, BagSame
  <2>2. /\ m'.char = m.char /\ m'.act = m.act /\ m'.drawn = m.drawn /\ m'.prior = m.prior
        /\ m'.celebrating = m.celebrating /\ m'.cooled = m.cooled /\ on.mode = m.mode
    BY <1>3, <1>4, <1>5 DEF SceneSame
  <2>3. m'.joy = s.joy /\ m'.intent = s.intent /\ on.intent = s.intent
    BY <1>4, <1>5 DEF GestureSame
  <2> QED
    BY <1>1, <1>2, <1>3, <1>5, <2>1, <2>2, <2>3, Zenon
<1>7. m'.sound = m.sound /\ m'.cadence = m.cadence /\ (m'.ambient <=> m.cadence /\ m.sound)
  BY <1>3, <1>4, <1>5 DEF SoundSame
<1>8. GateInv'
  BY <1>0, <1>6 DEF GateInv, GateSame, AwaySame, FrameSame
<1>9. SceneInv'
  BY <1>0, <1>6 DEF SceneInv
<1>10. BagInv'
  BY <1>0, <1>6 DEF BagInv, BagSame
<1>11. Life!AmbientFollows'
  BY <1>0, <1>6, <1>7 DEF Life!AmbientFollows, AwaySame, FrameSame
<1> QED
  BY <1>6, <1>8, <1>9, <1>10, <1>11 DEF LifeInv

LEMMA JoyFiresKeeps ==
  ASSUME LifeInv, Life!JoyFires
  PROVE  LifeInv'
<1>0. m \in LifeStates /\ GateInv /\ SceneInv /\ BagInv /\ Life!AmbientFollows
  BY DEF LifeInv
<1> DEFINE s == Life!JoyEnds(m)
           x == s.modal \/ m.visible
<1>1. m' = [s EXCEPT !.modal = x]
  BY DEF Life!JoyFires
<1>2. x \in BOOLEAN
  OBVIOUS
<1>3. /\ s \in LifeStates /\ GateSame(m, s) /\ SoundSame(m, s) /\ AwaySame(m, s) /\ FrameSame(m, s) /\ BagSame(m, s)
      /\ s.char = m.char /\ s.act = m.act /\ s.drawn = m.drawn /\ s.prior = m.prior
      /\ s.celebrating = m.celebrating /\ s.cooled = m.cooled
      /\ s.mode = IF m.intent /\ ~m.celebrating /\ m.char = "hacker" THEN m.act ELSE m.mode
      /\ ~s.joy /\ ~s.intent /\ s.hint = m.hint
  BY <1>0, JoyEndsDoes
<1> HIDE DEF s, x
<1>4. m' \in LifeStates /\ SceneSame(s, m') /\ GestureSame(s, m') /\ GateSame(s, m') /\ SoundSame(s, m')
      /\ AwaySame(s, m') /\ BagSame(s, m') /\ m'.visible = s.visible /\ m'.active = s.active
  BY <1>1, <1>2, <1>3 DEF LifeStates, SceneSame, GestureSame, GateSame, SoundSame, AwaySame, FrameSame, BagSame
<1>5. /\ m' \in LifeStates /\ GateSame(m, m') /\ SoundSame(m, m') /\ AwaySame(m, m') /\ BagSame(m, m')
      /\ m'.visible = m.visible /\ m'.active = m.active /\ ~m'.joy /\ ~m'.intent /\ m'.hint = m.hint
      /\ m'.char = m.char /\ m'.act = m.act /\ m'.drawn = m.drawn /\ m'.prior = m.prior
      /\ m'.celebrating = m.celebrating /\ m'.cooled = m.cooled
      /\ m'.mode = IF m.intent /\ ~m.celebrating /\ m.char = "hacker" THEN m.act ELSE m.mode
  BY <1>3, <1>4 DEF SceneSame, GestureSame, GateSame, SoundSame, AwaySame, FrameSame, BagSame
<1>6. GateInv'
  BY <1>0, <1>5 DEF GateInv, SceneSame, GestureSame, GateSame, SoundSame, AwaySame, FrameSame, BagSame
<1>7. SceneInv'
  BY <1>0, <1>5 DEF SceneInv, SceneSame, GestureSame, GateSame, SoundSame, AwaySame, FrameSame, BagSame
<1>8. BagInv'
  BY <1>0, <1>5 DEF BagInv, BagSame
<1>9. Life!AmbientFollows'
  BY <1>0, <1>5, LifeFlags DEF Life!AmbientFollows, SceneSame, GestureSame, GateSame, SoundSame, AwaySame, FrameSame, BagSame
<1> QED
  BY <1>5, <1>6, <1>7, <1>8, <1>9 DEF LifeInv

LEMMA TipGoesKeeps ==
  ASSUME LifeInv, Life!TipGoes
  PROVE  LifeInv'
<1>0. m \in LifeStates /\ GateInv /\ SceneInv /\ BagInv /\ Life!AmbientFollows
  BY DEF LifeInv
<1>1. m' = Life!HintStopped(m)
  BY DEF Life!TipGoes
<1>2. /\ m' \in LifeStates /\ GateSame(m, m') /\ SoundSame(m, m') /\ AwaySame(m, m') /\ FrameSame(m, m') /\ BagSame(m, m')
      /\ m'.char = m.char /\ m'.act = m.act /\ m'.drawn = m.drawn /\ m'.prior = m.prior
      /\ m'.celebrating = m.celebrating /\ m'.cooled = m.cooled
      /\ m'.mode = IF m.hint /\ ~m.celebrating /\ m.char = "hacker" THEN m.act ELSE m.mode
      /\ m'.joy = m.joy /\ m'.intent = m.intent /\ ~m'.hint
  BY <1>0, <1>1, HintStoppedDoes
<1>3. GateInv'
  BY <1>0, <1>2 DEF GateInv, SceneSame, GestureSame, GateSame, SoundSame, AwaySame, FrameSame, BagSame
<1>4. SceneInv'
  BY <1>0, <1>2 DEF SceneInv, SceneSame, GestureSame, GateSame, SoundSame, AwaySame, FrameSame, BagSame
<1>5. BagInv'
  BY <1>0, <1>2 DEF BagInv, BagSame
<1>6. Life!AmbientFollows'
  BY <1>0, <1>2, LifeFlags DEF Life!AmbientFollows, SceneSame, GestureSame, GateSame, SoundSame, AwaySame, FrameSame, BagSame
<1> QED
  BY <1>2, <1>3, <1>4, <1>5, <1>6 DEF LifeInv

\* A celebration that ends gives the canvas, or the mascot, back what was on before.
LEMMA CelebrationFiresKeeps ==
  ASSUME LifeInv, Life!CelebrationFires
  PROVE  LifeInv'
<1>0. m \in LifeStates /\ GateInv /\ SceneInv /\ BagInv /\ Life!AmbientFollows
  BY DEF LifeInv
<1> DEFINE off == [m EXCEPT !.celebrating = FALSE]
<1>1. /\ m.celebrating
      /\ m' = IF m.char = "mascot" THEN Life!Commit(off, m.prior, TRUE, FALSE) ELSE Life!OnCanvas(off, m.prior)
  BY DEF Life!CelebrationFires
<1>2. /\ off \in LifeStates /\ GestureSame(m, off) /\ GateSame(m, off) /\ SoundSame(m, off) /\ AwaySame(m, off) /\ FrameSame(m, off) /\ BagSame(m, off)
      /\ off.char = m.char /\ off.act = m.act /\ off.drawn = m.drawn /\ off.prior = m.prior
      /\ off.cooled = m.cooled /\ off.mode = m.mode /\ ~off.celebrating
  BY <1>0, Zenon DEF LifeStates, SceneSame, GestureSame, GateSame, SoundSame, AwaySame, FrameSame, BagSame
<1>3. m.prior \in Life!Acts /\ m.char \in {"mascot", "hacker"}
  BY <1>0 DEF LifeStates
<1> HIDE DEF off
<1>4. CASE m.char = "mascot"
  <2> DEFINE own == TRUE
             silent == FALSE
  <2>1. m' = Life!Commit(off, m.prior, own, silent)
    BY <1>1, <1>4
  <2>0. own \in BOOLEAN /\ silent \in BOOLEAN
    OBVIOUS
  <2> HIDE DEF own, silent
  <2>2. /\ m' \in LifeStates
        /\ m'.char = off.char /\ m'.act = m.prior /\ m'.drawn = off.drawn /\ m'.prior = off.prior /\ ~m'.cooled
        /\ (m'.celebrating <=> off.celebrating /\ own)
        /\ ~off.celebrating \/ own => m'.mode = off.mode
        /\ off.celebrating /\ ~own => m'.mode = IF off.char = "hacker" THEN m.prior ELSE off.mode
        /\ GestureSame(off, m') /\ GateSame(off, m') /\ AwaySame(off, m') /\ FrameSame(off, m') /\ BagSame(off, m')
        /\ m'.sound = off.sound /\ m'.cadence = off.cadence
        /\ m'.ambient = off.ambient \/ (m'.ambient <=> off.cadence /\ off.sound)
    <3> DEFINE t == Life!Commit(off, m.prior, own, silent)
    <3>1. /\ t \in LifeStates
          /\ t.char = off.char /\ t.act = m.prior /\ t.drawn = off.drawn /\ t.prior = off.prior /\ ~t.cooled
          /\ (t.celebrating <=> off.celebrating /\ own)
          /\ ~off.celebrating \/ own => t.mode = off.mode
          /\ off.celebrating /\ ~own => t.mode = IF off.char = "hacker" THEN m.prior ELSE off.mode
          /\ GestureSame(off, t) /\ GateSame(off, t) /\ AwaySame(off, t) /\ FrameSame(off, t) /\ BagSame(off, t)
          /\ t.sound = off.sound /\ t.cadence = off.cadence
          /\ t.ambient = off.ambient \/ (t.ambient <=> off.cadence /\ off.sound)
      BY <1>2, <1>3, <2>0, CommitDoes
    <3>2. m' = t
      BY <2>1
    <3> HIDE DEF t
    <3> QED
      BY <3>1, <3>2
  <2>3. /\ m' \in LifeStates /\ GestureSame(m, m') /\ GateSame(m, m') /\ AwaySame(m, m') /\ FrameSame(m, m') /\ BagSame(m, m')
        /\ m'.char = "mascot" /\ ~m'.cooled /\ ~m'.celebrating
    BY <1>2, <1>4, <2>2 DEF SceneSame, GestureSame, GateSame, SoundSame, AwaySame, FrameSame, BagSame
  <2>4. m'.sound = m.sound /\ m'.cadence = m.cadence
        /\ (m'.ambient = m.ambient \/ (m'.ambient <=> m.cadence /\ m.sound))
    BY <1>2, <2>2 DEF SoundSame
  <2>5. GateInv'
    BY <1>0, <2>3 DEF GateInv, SceneSame, GestureSame, GateSame, SoundSame, AwaySame, FrameSame, BagSame
  <2>6. SceneInv'
    BY <1>0, <2>3 DEF SceneInv, SceneSame, GestureSame, GateSame, SoundSame, AwaySame, FrameSame, BagSame
  <2>7. BagInv'
    BY <1>0, <2>3 DEF BagInv, BagSame
  <2>8. Life!AmbientFollows'
    BY <1>0, <2>3, <2>4 DEF Life!AmbientFollows, AwaySame, FrameSame
  <2> QED
    BY <2>3, <2>5, <2>6, <2>7, <2>8 DEF LifeInv
<1>5. CASE m.char # "mascot"
  <2>1. m' = Life!OnCanvas(off, m.prior) /\ off.char = "hacker"
    BY <1>1, <1>2, <1>3, <1>5
  <2>2. /\ m' \in LifeStates /\ m'.mode = m.prior
        /\ m'.char = off.char /\ m'.act = off.act /\ m'.drawn = off.drawn /\ m'.prior = off.prior
        /\ m'.celebrating = off.celebrating /\ m'.cooled = off.cooled
        /\ GestureSame(off, m') /\ GateSame(off, m') /\ SoundSame(off, m') /\ AwaySame(off, m')
        /\ FrameSame(off, m') /\ BagSame(off, m')
    BY <1>2, <1>3, <2>1, CanvasDoes
  <2>3. /\ m' \in LifeStates /\ GestureSame(m, m') /\ GateSame(m, m') /\ SoundSame(m, m') /\ AwaySame(m, m') /\ FrameSame(m, m') /\ BagSame(m, m')
        /\ m'.char = m.char /\ m'.act = m.act /\ m'.drawn = m.drawn /\ m'.cooled = m.cooled
        /\ m'.mode = m.prior /\ ~m'.celebrating
    BY <1>2, <2>2 DEF SceneSame, GestureSame, GateSame, SoundSame, AwaySame, FrameSame, BagSame
  <2>4. GateInv'
    BY <1>0, <2>3 DEF GateInv, SceneSame, GestureSame, GateSame, SoundSame, AwaySame, FrameSame, BagSame
  <2>5. SceneInv'
    BY <1>0, <1>1, <1>5, <2>3 DEF SceneInv, SceneSame, GestureSame, GateSame, SoundSame, AwaySame, FrameSame, BagSame
  <2>6. BagInv'
    BY <1>0, <2>3 DEF BagInv, BagSame
  <2>7. Life!AmbientFollows'
    BY <1>0, <2>3 DEF Life!AmbientFollows, SceneSame, GestureSame, GateSame, SoundSame, AwaySame, FrameSame, BagSame
  <2> QED
    BY <2>3, <2>4, <2>5, <2>6, <2>7 DEF LifeInv
<1> QED
  BY <1>4, <1>5

LEMMA AscendsKeeps ==
  ASSUME LifeInv, Life!Ascends
  PROVE  LifeInv'
<1>0. m \in LifeStates /\ GateInv /\ SceneInv /\ BagInv /\ Life!AmbientFollows
  BY DEF LifeInv
<1> DEFINE vip == [m EXCEPT !.vip = TRUE]
           s == [vip EXCEPT !.celebrating = TRUE, !.prior = m.act]
           on == Life!OnCanvas(s, "celebration")
<1>1. /\ m.drawn = m.act
      /\ m' = IF m.celebrating THEN vip ELSE IF m.char = "mascot" THEN Life!Commit(on, Life!Salute, TRUE, FALSE) ELSE on
  BY DEF Life!Ascends, Life!Flushed
<1>2. vip \in LifeStates /\ SceneSame(m, vip) /\ GestureSame(m, vip) /\ GateSame(m, vip) /\ SoundSame(m, vip)
      /\ AwaySame(m, vip) /\ FrameSame(m, vip) /\ BagSame(m, vip)
  BY <1>0, Zenon DEF LifeStates, SceneSame, GestureSame, GateSame, SoundSame, AwaySame, FrameSame, BagSame
<1>3. m.act \in Life!Acts /\ m.char \in {"mascot", "hacker"}
  BY <1>0 DEF LifeStates
<1> HIDE DEF vip
<1>4. /\ s \in LifeStates /\ GestureSame(m, s) /\ GateSame(m, s) /\ SoundSame(m, s)
      /\ AwaySame(m, s) /\ FrameSame(m, s) /\ BagSame(m, s)
      /\ s.char = m.char /\ s.act = m.act /\ s.drawn = m.drawn /\ s.cooled = m.cooled /\ s.mode = m.mode
      /\ s.celebrating /\ s.prior = m.act
  BY <1>2, <1>3, Zenon DEF LifeStates, SceneSame, GestureSame, GateSame, SoundSame, AwaySame, FrameSame, BagSame
<1> HIDE DEF s
<1>5. /\ on \in LifeStates /\ on.mode = IF s.char = "hacker" THEN "celebration" ELSE s.mode
      /\ on.char = s.char /\ on.act = s.act /\ on.drawn = s.drawn /\ on.prior = s.prior
      /\ on.celebrating = s.celebrating /\ on.cooled = s.cooled
      /\ GestureSame(s, on) /\ GateSame(s, on) /\ SoundSame(s, on) /\ AwaySame(s, on) /\ FrameSame(s, on) /\ BagSame(s, on)
  BY <1>4, CanvasDoes, Zenon
<1> HIDE DEF on
<1>6. /\ GestureSame(m, on) /\ GateSame(m, on) /\ SoundSame(m, on) /\ AwaySame(m, on) /\ FrameSame(m, on) /\ BagSame(m, on)
  BY <1>4, <1>5 DEF SceneSame, GestureSame, GateSame, SoundSame, AwaySame, FrameSame, BagSame
<1>7. CASE m.celebrating
  <2>1. m' = vip
    BY <1>1, <1>7
  <2>2. GateInv'
    BY <1>0, <1>2, <2>1 DEF GateInv, SceneSame, GestureSame, GateSame, SoundSame, AwaySame, FrameSame, BagSame
  <2>3. SceneInv'
    BY <1>0, <1>2, <2>1 DEF SceneInv, SceneSame, GestureSame, GateSame, SoundSame, AwaySame, FrameSame, BagSame
  <2>4. BagInv'
    BY <1>0, <1>2, <2>1 DEF BagInv, BagSame
  <2>5. Life!AmbientFollows'
    BY <1>0, <1>2, <2>1 DEF Life!AmbientFollows, SceneSame, GestureSame, GateSame, SoundSame, AwaySame, FrameSame, BagSame
  <2> QED
    BY <1>2, <2>1, <2>2, <2>3, <2>4, <2>5 DEF LifeInv
<1>8. CASE ~m.celebrating /\ m.char # "mascot"
  <2>1. m' = on
    BY <1>1, <1>8
  <2>2. m'.char = "hacker" /\ m'.mode = "celebration" /\ m'.prior = m'.act /\ m'.drawn = m'.act /\ m'.celebrating
    BY <1>1, <1>3, <1>4, <1>5, <1>8, <2>1, Zenon
  <2>3. GateInv'
    BY <1>0, <1>6, <2>1 DEF GateInv, SceneSame, GestureSame, GateSame, SoundSame, AwaySame, FrameSame, BagSame
  <2>4. SceneInv'
    BY <1>0, <1>6, <2>1, <2>2 DEF SceneInv, GestureSame
  <2>5. BagInv'
    BY <1>0, <1>6, <2>1 DEF BagInv, BagSame
  <2>6. Life!AmbientFollows'
    BY <1>0, <1>6, <2>1 DEF Life!AmbientFollows, SceneSame, GestureSame, GateSame, SoundSame, AwaySame, FrameSame, BagSame
  <2> QED
    BY <1>5, <2>1, <2>3, <2>4, <2>5, <2>6 DEF LifeInv
<1>9. CASE ~m.celebrating /\ m.char = "mascot"
  <2> DEFINE own == TRUE
             silent == FALSE
             salute == Life!Salute
  <2>1. m' = Life!Commit(on, salute, own, silent)
    BY <1>1, <1>9
  <2>0. own \in BOOLEAN /\ silent \in BOOLEAN
    OBVIOUS
  <2>2. salute \in Life!Acts /\ salute = Life!Salute
    BY DEF Life!Acts, Life!Vip
  <2> HIDE DEF own, silent, salute
  <2>3. /\ m' \in LifeStates
        /\ m'.char = on.char /\ m'.act = salute /\ m'.drawn = on.drawn /\ m'.prior = on.prior /\ ~m'.cooled
        /\ (m'.celebrating <=> on.celebrating /\ own)
        /\ ~on.celebrating \/ own => m'.mode = on.mode
        /\ on.celebrating /\ ~own => m'.mode = IF on.char = "hacker" THEN salute ELSE on.mode
        /\ GestureSame(on, m') /\ GateSame(on, m') /\ AwaySame(on, m') /\ FrameSame(on, m') /\ BagSame(on, m')
        /\ m'.sound = on.sound /\ m'.cadence = on.cadence
        /\ m'.ambient = on.ambient \/ (m'.ambient <=> on.cadence /\ on.sound)
    <3> DEFINE t == Life!Commit(on, salute, own, silent)
    <3>1. /\ t \in LifeStates
          /\ t.char = on.char /\ t.act = salute /\ t.drawn = on.drawn /\ t.prior = on.prior /\ ~t.cooled
          /\ (t.celebrating <=> on.celebrating /\ own)
          /\ ~on.celebrating \/ own => t.mode = on.mode
          /\ on.celebrating /\ ~own => t.mode = IF on.char = "hacker" THEN salute ELSE on.mode
          /\ GestureSame(on, t) /\ GateSame(on, t) /\ AwaySame(on, t) /\ FrameSame(on, t) /\ BagSame(on, t)
          /\ t.sound = on.sound /\ t.cadence = on.cadence
          /\ t.ambient = on.ambient \/ (t.ambient <=> on.cadence /\ on.sound)
      BY <1>5, <2>0, <2>2, CommitDoes
    <3>2. m' = t
      BY <2>1
    <3> HIDE DEF t
    <3> QED
      BY <3>1, <3>2
  <2>4. /\ m' \in LifeStates /\ GestureSame(m, m') /\ GateSame(m, m') /\ AwaySame(m, m') /\ FrameSame(m, m') /\ BagSame(m, m')
        /\ m'.char = "mascot" /\ ~m'.cooled /\ m'.act = Life!Salute
    BY <1>4, <1>5, <1>6, <1>9, <2>2, <2>3 DEF SceneSame, GestureSame, GateSame, SoundSame, AwaySame, FrameSame, BagSame
  <2>5. m'.sound = m.sound /\ m'.cadence = m.cadence
        /\ (m'.ambient = m.ambient \/ (m'.ambient <=> m.cadence /\ m.sound))
    BY <1>6, <2>3 DEF SoundSame
  <2>6. GateInv'
    BY <1>0, <2>4 DEF GateInv, SceneSame, GestureSame, GateSame, SoundSame, AwaySame, FrameSame, BagSame
  <2>7. SceneInv'
    BY <1>0, <2>4 DEF SceneInv, SceneSame, GestureSame, GateSame, SoundSame, AwaySame, FrameSame, BagSame
  <2>8. BagInv'
    BY <1>0, <2>4 DEF BagInv, BagSame
  <2>9. Life!AmbientFollows'
    BY <1>0, <2>4, <2>5 DEF Life!AmbientFollows, AwaySame, FrameSame
  <2> QED
    BY <2>4, <2>6, <2>7, <2>8, <2>9 DEF LifeInv
<1> QED
  BY <1>7, <1>8, <1>9

LEMMA HintsKeeps ==
  ASSUME LifeInv, Life!Hints
  PROVE  LifeInv'
<1>0. m \in LifeStates /\ GateInv /\ SceneInv /\ BagInv /\ Life!AmbientFollows
  BY DEF LifeInv
<1> DEFINE a == Life!HintStopped(m)
           b == Life!Pause(a)
           c == [b EXCEPT !.hint = TRUE, !.owed = TRUE]
           d == Life!OnCanvas(c, "intent")
<1>1. m.visible /\ m' = Life!RestartAmbient(d)
  BY DEF Life!Hints
<1>2. /\ a \in LifeStates /\ GateSame(m, a) /\ SoundSame(m, a) /\ AwaySame(m, a) /\ FrameSame(m, a) /\ BagSame(m, a)
      /\ a.char = m.char /\ a.act = m.act /\ a.drawn = m.drawn /\ a.prior = m.prior
      /\ a.celebrating = m.celebrating /\ a.cooled = m.cooled
      /\ a.joy = m.joy /\ a.intent = m.intent
  BY <1>0, HintStoppedDoes
<1> HIDE DEF a
<1>3. /\ b \in LifeStates /\ SceneSame(a, b) /\ GestureSame(a, b) /\ SoundSame(a, b)
      /\ AwaySame(a, b) /\ FrameSame(a, b) /\ BagSame(a, b)
      /\ b.page = a.page /\ b.gate = a.gate /\ b.modalSeen = a.modalSeen /\ ~b.dwell /\ ~b.micro /\ ~b.beat
  BY <1>2, PauseDoes
<1> HIDE DEF b
<1>4. /\ c \in LifeStates /\ SceneSame(b, c) /\ SoundSame(b, c) /\ AwaySame(b, c) /\ FrameSame(b, c) /\ BagSame(b, c)
      /\ c.joy = b.joy /\ c.intent = b.intent /\ c.hint /\ c.owed
      /\ c.page = b.page /\ c.gate = b.gate /\ c.dwell = b.dwell /\ c.micro = b.micro /\ c.beat = b.beat
  BY <1>3, Zenon DEF LifeStates, SceneSame, GestureSame, GateSame, SoundSame, AwaySame, FrameSame, BagSame
<1> HIDE DEF c
<1>5. /\ d \in LifeStates /\ d.mode = IF c.char = "hacker" THEN "intent" ELSE c.mode
      /\ d.char = c.char /\ d.act = c.act /\ d.drawn = c.drawn /\ d.prior = c.prior
      /\ d.celebrating = c.celebrating /\ d.cooled = c.cooled
      /\ GestureSame(c, d) /\ GateSame(c, d) /\ SoundSame(c, d) /\ AwaySame(c, d) /\ FrameSame(c, d) /\ BagSame(c, d)
  BY <1>4, CanvasDoes
<1> HIDE DEF d
<1>6. /\ m' \in LifeStates /\ SceneSame(d, m') /\ GestureSame(d, m') /\ GateSame(d, m')
      /\ AwaySame(d, m') /\ FrameSame(d, m') /\ BagSame(d, m')
      /\ m'.sound = d.sound /\ m'.cadence = d.cadence /\ (m'.ambient <=> d.cadence /\ d.sound)
  BY <1>1, <1>5, RestartDoes
<1>7. AwaySame(m, m') /\ FrameSame(m, m') /\ BagSame(m, m')
  BY <1>2, <1>3, <1>4, <1>5, <1>6 DEF AwaySame, FrameSame, BagSame
<1>8. m'.owed /\ ~m'.dwell /\ ~m'.micro /\ ~m'.beat
  BY <1>3, <1>4, <1>5, <1>6 DEF GateSame
<1>9. /\ m'.char = m.char /\ m'.act = m.act /\ m'.drawn = m.drawn /\ m'.prior = m.prior
      /\ m'.celebrating = m.celebrating /\ m'.cooled = m.cooled
  BY <1>2, <1>3, <1>4, <1>5, <1>6 DEF SceneSame
<1>10. m'.hint /\ m'.joy = m.joy /\ m'.intent = m.intent
  BY <1>2, <1>3, <1>4, <1>5, <1>6 DEF GestureSame
<1>11. m'.sound = m.sound /\ m'.cadence = m.cadence /\ (m'.ambient <=> m.cadence /\ m.sound)
  BY <1>2, <1>3, <1>4, <1>5, <1>6 DEF SoundSame
<1>12. ~m.celebrating
  BY DEF Life!Hints
<1>13. GateInv'
  BY <1>0, <1>1, <1>7, <1>8 DEF GateInv, FrameSame
<1>14. SceneInv'
  BY <1>0, <1>9, <1>10, <1>12 DEF SceneInv
<1>15. BagInv'
  BY <1>0, <1>7 DEF BagInv, BagSame
<1>16. Life!AmbientFollows'
  BY <1>0, <1>7, <1>11 DEF Life!AmbientFollows, AwaySame, FrameSame
<1> QED
  BY <1>6, <1>13, <1>14, <1>15, <1>16 DEF LifeInv

LEMMA HintFiresKeeps ==
  ASSUME LifeInv, Life!HintFires
  PROVE  LifeInv'
<1>0. m \in LifeStates /\ GateInv /\ SceneInv /\ BagInv /\ Life!AmbientFollows
  BY DEF LifeInv
<1> DEFINE a == Life!HintStopped(m)
           off == [a EXCEPT !.owed = FALSE]
           lives == m.visible /\ m.focused /\ ~m.modalSeen /\ ~m.joy
<1>1. m' = IF lives THEN Life!Resume(off) ELSE off
  BY DEF Life!HintFires
<1>2. m.gate = Life!Alive(m) /\ m.modalSeen = m.modal
  BY DEF Life!HintFires, Life!Flushed
<1>3. m.gate <=> lives
  BY <1>2, Zenon DEF Life!Alive
<1> HIDE DEF lives
<1>4. /\ a \in LifeStates /\ GateSame(m, a) /\ SoundSame(m, a) /\ AwaySame(m, a) /\ FrameSame(m, a) /\ BagSame(m, a)
      /\ a.char = m.char /\ a.act = m.act /\ a.drawn = m.drawn /\ a.prior = m.prior
      /\ a.celebrating = m.celebrating /\ a.cooled = m.cooled
      /\ a.mode = IF m.hint /\ ~m.celebrating /\ m.char = "hacker" THEN m.act ELSE m.mode
      /\ a.joy = m.joy /\ a.intent = m.intent /\ ~a.hint
  BY <1>0, HintStoppedDoes
<1> HIDE DEF a
<1>5. /\ off \in LifeStates /\ SceneSame(a, off) /\ GestureSame(a, off) /\ SoundSame(a, off)
      /\ AwaySame(a, off) /\ FrameSame(a, off) /\ BagSame(a, off) /\ ~off.owed
      /\ off.page = a.page /\ off.gate = a.gate /\ off.dwell = a.dwell /\ off.micro = a.micro /\ off.beat = a.beat
  BY <1>4, Zenon DEF LifeStates, SceneSame, GestureSame, GateSame, SoundSame, AwaySame, FrameSame, BagSame
<1> HIDE DEF off
<1>6. /\ m' \in LifeStates /\ SceneSame(off, m') /\ GestureSame(off, m') /\ SoundSame(off, m')
      /\ AwaySame(off, m') /\ FrameSame(off, m') /\ BagSame(off, m')
      /\ m'.page = off.page /\ m'.gate = off.gate /\ m'.beat = off.beat /\ ~m'.owed
      /\ IF lives THEN m'.dwell /\ m'.micro ELSE m'.dwell = off.dwell /\ m'.micro = off.micro
  <2>1. CASE lives
    <3>1. m' = Life!Resume(off)
      BY <1>1, <2>1
    <3> QED
      BY <1>5, <2>1, <3>1, ResumeDoes
  <2>2. CASE ~lives
    BY <1>1, <1>5, <2>2 DEF SceneSame, GestureSame, GateSame, SoundSame, AwaySame, FrameSame, BagSame
  <2> QED
    BY <2>1, <2>2
<1>7. SoundSame(m, m') /\ AwaySame(m, m') /\ FrameSame(m, m') /\ BagSame(m, m')
  BY <1>4, <1>5, <1>6 DEF SoundSame, AwaySame, FrameSame, BagSame
<1>8. /\ m'.page = m.page /\ m'.gate = m.gate /\ m'.beat = m.beat
      /\ IF lives THEN m'.dwell /\ m'.micro ELSE m'.dwell = m.dwell /\ m'.micro = m.micro
  BY <1>4, <1>5, <1>6 DEF GateSame
<1>9. /\ m'.char = m.char /\ m'.act = m.act /\ m'.drawn = m.drawn /\ m'.prior = m.prior
      /\ m'.celebrating = m.celebrating /\ m'.cooled = m.cooled
      /\ m'.mode = IF m.hint /\ ~m.celebrating /\ m.char = "hacker" THEN m.act ELSE m.mode
  BY <1>4, <1>5, <1>6 DEF SceneSame
<1>10. ~m'.hint /\ m'.joy = m.joy /\ m'.intent = m.intent
  BY <1>4, <1>5, <1>6 DEF GestureSame
<1>11. GateInv'
  <2>1. lives => m.visible
    BY DEF lives
  <2> QED
    BY <1>0, <1>3, <1>6, <1>7, <1>8, <1>10, <2>1 DEF GateInv, AwaySame, FrameSame
<1>12. SceneInv'
  BY <1>0, <1>9, <1>10 DEF SceneInv
<1>13. BagInv'
  BY <1>0, <1>7 DEF BagInv, BagSame
<1>14. Life!AmbientFollows'
  BY <1>0, <1>7 DEF Life!AmbientFollows, SceneSame, GestureSame, GateSame, SoundSame, AwaySame, FrameSame, BagSame
<1> QED
  BY <1>6, <1>11, <1>12, <1>13, <1>14 DEF LifeInv

LEMMA LifeHidesKeeps ==
  ASSUME LifeInv, Life!Hides
  PROVE  LifeInv'
<1>0. m \in LifeStates /\ GateInv /\ SceneInv /\ BagInv /\ Life!AmbientFollows
  BY DEF LifeInv
<1> DEFINE a == [m EXCEPT !.visible = FALSE, !.active = FALSE]
           b == Life!AttentionLost(a)
           c == Life!HintStopped(b)
           d == Life!JoyEnds(c)
<1>1. m.visible /\ m.page = m.visible /\ m.drawn = m.act /\ m' = [d EXCEPT !.swap = FALSE]
  BY DEF Life!Hides, Life!Flushed
<1>2. /\ a \in LifeStates /\ SceneSame(m, a) /\ GestureSame(m, a) /\ GateSame(m, a) /\ SoundSame(m, a) /\ AwaySame(m, a) /\ BagSame(m, a)
      /\ ~a.visible /\ ~a.active
  BY <1>0, Zenon DEF LifeStates, SceneSame, GestureSame, GateSame, SoundSame, AwaySame, FrameSame, BagSame
<1> HIDE DEF a
<1>3. /\ b \in LifeStates /\ SceneSame(a, b) /\ GestureSame(a, b) /\ GateSame(a, b) /\ FrameSame(a, b) /\ BagSame(a, b)
      /\ b.sound = a.sound /\ ~b.cadence /\ ~b.ambient /\ b.back = "no" /\ b.away = "short" /\ ~b.focused
  BY <1>2, LostDoes
<1> HIDE DEF b
<1>4. /\ c \in LifeStates /\ GateSame(b, c) /\ SoundSame(b, c) /\ AwaySame(b, c) /\ FrameSame(b, c) /\ BagSame(b, c)
      /\ c.char = b.char /\ c.act = b.act /\ c.drawn = b.drawn /\ c.prior = b.prior
      /\ c.celebrating = b.celebrating /\ c.cooled = b.cooled
      /\ c.mode = IF b.hint /\ ~b.celebrating /\ b.char = "hacker" THEN b.act ELSE b.mode
      /\ c.joy = b.joy /\ c.intent = b.intent /\ ~c.hint
  BY <1>3, HintStoppedDoes
<1> HIDE DEF c
<1>5. /\ d \in LifeStates /\ GateSame(c, d) /\ SoundSame(c, d) /\ AwaySame(c, d) /\ FrameSame(c, d) /\ BagSame(c, d)
      /\ d.char = c.char /\ d.act = c.act /\ d.drawn = c.drawn /\ d.prior = c.prior
      /\ d.celebrating = c.celebrating /\ d.cooled = c.cooled
      /\ d.mode = IF c.intent /\ ~c.celebrating /\ c.char = "hacker" THEN c.act ELSE c.mode
      /\ ~d.joy /\ ~d.intent /\ d.hint = c.hint
  BY <1>4, JoyEndsDoes
<1> HIDE DEF d
<1>6. /\ m' \in LifeStates /\ SceneSame(d, m') /\ GestureSame(d, m') /\ GateSame(d, m') /\ SoundSame(d, m')
      /\ AwaySame(d, m') /\ FrameSame(d, m') /\ BagSame(d, m')
  BY <1>1, <1>5, Zenon DEF LifeStates, SceneSame, GestureSame, GateSame, SoundSame, AwaySame, FrameSame, BagSame
<1>7. GateSame(m, m') /\ BagSame(m, m')
  BY <1>2, <1>3, <1>4, <1>5, <1>6 DEF GateSame, BagSame
<1>8. ~m'.visible /\ ~m'.active /\ m'.back = "no" /\ ~m'.focused /\ ~m'.ambient
  BY <1>2, <1>3, <1>4, <1>5, <1>6 DEF FrameSame, AwaySame, SoundSame
<1>9. ~m'.joy /\ ~m'.intent /\ ~m'.hint
  BY <1>4, <1>5, <1>6 DEF GestureSame
<1>10. /\ m'.char = m.char /\ m'.act = m.act /\ m'.drawn = m.drawn /\ m'.prior = m.prior
       /\ m'.celebrating = m.celebrating /\ m'.cooled = m.cooled
  BY <1>2, <1>3, <1>4, <1>5, <1>6 DEF SceneSame
<1>11. m'.mode = IF ~m.celebrating /\ m.char = "hacker" /\ (m.hint \/ m.intent) THEN m.act ELSE m.mode
  <2>1. b.mode = m.mode /\ b.celebrating = m.celebrating /\ b.char = m.char /\ b.act = m.act
    BY <1>2, <1>3 DEF SceneSame
  <2>2. b.hint = m.hint /\ b.intent = m.intent
    BY <1>2, <1>3 DEF GestureSame
  <2>3. m'.mode = d.mode
    BY <1>6 DEF SceneSame
  <2> QED
    BY <1>4, <1>5, <2>1, <2>2, <2>3
<1>12. GateInv'
  BY <1>0, <1>1, <1>7, <1>8, <1>9, Zenon DEF GateInv, GateSame
<1>13. SceneInv'
  BY <1>0, <1>1, <1>9, <1>10, <1>11 DEF SceneInv
<1>14. BagInv'
  BY <1>0, <1>7 DEF BagInv, BagSame
<1>15. Life!AmbientFollows'
  BY <1>8 DEF Life!AmbientFollows
<1> QED
  BY <1>6, <1>12, <1>13, <1>14, <1>15 DEF LifeInv

LEMMA LifeRendersKeeps ==
  ASSUME LifeInv, Life!Renders
  PROVE  LifeInv'
<1>0. m \in LifeStates /\ GateInv /\ SceneInv /\ BagInv /\ Life!AmbientFollows
  BY DEF LifeInv
<1> DEFINE s == [m EXCEPT !.modalSeen = m.modal]
           g == Life!Gate(s)
           r == [g EXCEPT !.drawn = m.act]
<1>1. m' = IF m.drawn = m.act THEN g ELSE Life!OnCanvas(r, m.act)
  BY DEF Life!Renders
<1>2. /\ s \in LifeStates /\ SceneSame(m, s) /\ GestureSame(m, s) /\ SoundSame(m, s) /\ AwaySame(m, s) /\ FrameSame(m, s) /\ BagSame(m, s)
      /\ s.page = m.page /\ s.gate = m.gate /\ s.owed = m.owed
      /\ s.dwell = m.dwell /\ s.micro = m.micro /\ s.beat = m.beat
  BY <1>0 DEF LifeStates, SceneSame, GestureSame, GateSame, SoundSame, AwaySame, FrameSame, BagSame
<1> HIDE DEF s
<1>3. /\ g \in LifeStates /\ SceneSame(s, g) /\ GestureSame(s, g) /\ SoundSame(s, g) /\ AwaySame(s, g) /\ FrameSame(s, g) /\ BagSame(s, g)
      /\ g.page = s.visible /\ (g.gate <=> Life!Alive(s))
      /\ \/ GateSame(s, g)
         \/ g.dwell /\ g.micro /\ ~g.owed /\ g.beat = s.beat /\ Life!Alive(s)
         \/ ~g.dwell /\ ~g.micro /\ ~g.beat /\ g.owed = s.owed /\ ~Life!Alive(s)
  BY <1>2, GateDoes
<1> HIDE DEF g
<1>4. m.act \in Life!Acts /\ m.act \in Life!Acts \cup {"intent", "celebration"}
  BY <1>0 DEF LifeStates
<1>5. /\ r \in LifeStates /\ GestureSame(g, r) /\ GateSame(g, r) /\ SoundSame(g, r) /\ AwaySame(g, r) /\ FrameSame(g, r) /\ BagSame(g, r)
      /\ r.char = g.char /\ r.act = g.act /\ r.drawn = m.act /\ r.prior = g.prior /\ r.mode = g.mode
      /\ r.celebrating = g.celebrating /\ r.cooled = g.cooled
  BY <1>3, <1>4 DEF LifeStates, SceneSame, GestureSame, GateSame, SoundSame, AwaySame, FrameSame, BagSame
<1> HIDE DEF r
<1>6. /\ m' \in LifeStates /\ GestureSame(g, m') /\ GateSame(g, m') /\ SoundSame(g, m') /\ AwaySame(g, m') /\ FrameSame(g, m') /\ BagSame(g, m')
      /\ m'.char = g.char /\ m'.act = g.act /\ m'.prior = g.prior
      /\ m'.celebrating = g.celebrating /\ m'.cooled = g.cooled
      /\ IF m.drawn = m.act THEN m'.drawn = g.drawn /\ m'.mode = g.mode
         ELSE m'.drawn = m.act /\ m'.mode = IF g.char = "hacker" THEN m.act ELSE g.mode
  <2>1. CASE m.drawn = m.act
    BY <1>1, <1>3, <2>1 DEF SceneSame, GestureSame, GateSame, SoundSame, AwaySame, FrameSame, BagSame
  <2>2. CASE m.drawn # m.act
    <3> DEFINE t == Life!OnCanvas(r, m.act)
    <3>1. m' = t
      BY <1>1, <2>2
    <3>2. /\ t \in LifeStates /\ t.mode = IF r.char = "hacker" THEN m.act ELSE r.mode
          /\ t.char = r.char /\ t.act = r.act /\ t.drawn = r.drawn /\ t.prior = r.prior
          /\ t.celebrating = r.celebrating /\ t.cooled = r.cooled
          /\ GestureSame(r, t) /\ GateSame(r, t) /\ SoundSame(r, t) /\ AwaySame(r, t) /\ FrameSame(r, t) /\ BagSame(r, t)
      BY <1>4, <1>5, CanvasDoes
    <3> HIDE DEF t
    <3> QED
      BY <1>5, <2>2, <3>1, <3>2 DEF SceneSame, GestureSame, GateSame, SoundSame, AwaySame, FrameSame, BagSame
  <2> QED
    BY <2>1, <2>2
<1>7. GestureSame(m, m') /\ SoundSame(m, m') /\ AwaySame(m, m') /\ FrameSame(m, m') /\ BagSame(m, m')
  BY <1>2, <1>3, <1>6 DEF GestureSame, SoundSame, AwaySame, FrameSame, BagSame
<1>8. GateInv'
  <2>1. s.visible = m.visible /\ (Life!Alive(s) => s.visible)
    BY <1>2 DEF Life!Alive, FrameSame
  <2>2. g.page = m.visible /\ (g.gate => m.visible)
    BY <1>3, <2>1
  <2>3. g.gate /\ ~g.owed => g.dwell /\ g.micro
    BY <1>0, <1>2, <1>3, Zenon DEF GateInv, GateSame
  <2>4. (~g.gate => ~g.micro) /\ (g.beat => g.micro)
    BY <1>0, <1>2, <1>3 DEF GateInv, GateSame
  <2>5. ~m.visible /\ ~g.page => ~g.dwell
    BY <1>0, <1>2, <1>3, <2>1 DEF GateInv, GateSame
  <2> QED
    BY <1>0, <1>6, <1>7, <2>3, <2>4, <2>5 DEF GateInv, SceneSame, GestureSame, GateSame, SoundSame, AwaySame, FrameSame, BagSame
<1>9. SceneInv'
  <2>1. /\ m'.char = m.char /\ m'.act = m.act /\ m'.prior = m.prior
        /\ m'.celebrating = m.celebrating /\ m'.cooled = m.cooled
        /\ IF m.drawn = m.act THEN m'.drawn = m.drawn /\ m'.mode = m.mode
           ELSE m'.drawn = m.act /\ m'.mode = IF m.char = "hacker" THEN m.act ELSE m.mode
    BY <1>2, <1>3, <1>6 DEF SceneSame
  <2>2. m.char \in {"mascot", "hacker"}
    BY <1>0 DEF LifeStates
  <2> QED
    BY <1>0, <1>7, <2>1, <2>2 DEF SceneInv, GestureSame
<1>10. BagInv'
  BY <1>0, <1>7 DEF BagInv, BagSame
<1>11. Life!AmbientFollows'
  BY <1>0, <1>7 DEF Life!AmbientFollows, SoundSame, AwaySame, FrameSame
<1> QED
  BY <1>6, <1>8, <1>9, <1>10, <1>11 DEF LifeInv

LEMMA LifeStart == Life!Init => LifeInv
<1> SUFFICES ASSUME Life!Init PROVE LifeInv
  OBVIOUS
<1>1. m \in LifeStates
  BY DEF Life!Init, LifeStates, Life!Acts, Life!Std, Life!Vip, Life!Salute, Life!Absences, Life!Bags
<1>2. GateInv
  BY DEF Life!Init, GateInv
<1>3. SceneInv
  BY DEF Life!Init, SceneInv
<1>4. BagInv
  BY DEF Life!Init, BagInv
<1>5. Life!AmbientFollows
  BY DEF Life!Init, Life!AmbientFollows
<1> QED
  BY <1>1, <1>2, <1>3, <1>4, <1>5 DEF LifeInv

LEMMA LifeStep == LifeInv /\ Life!Next => LifeInv'
<1> SUFFICES ASSUME LifeInv, Life!Next PROVE LifeInv'
  OBVIOUS
<1> QED
  BY TogglesSoundKeeps, DwellFiresKeeps, MicroFiresKeeps, SwapFiresKeeps, LifeBlursKeeps,
     LifeFocusesKeeps, LifeReturnsKeeps, TimePassesKeeps, ClicksKeeps, JoyFiresKeeps,
     AscendsKeeps, CelebrationFiresKeeps, HintsKeeps, HintFiresKeeps, TipGoesKeeps,
     LifeHidesKeeps, LifeShowsKeeps, LifeOpensKeeps, LifeClosesKeeps, LifeRendersKeeps DEF Life!Next

-----------------------------------------------------------------------------
(* The pet's one voice *)

Words == [kind : Talk!Kinds, id : Int, stale : BOOLEAN]
TalkStates ==
  [cur : Words \cup {Talk!None}, queue : SUBSET Words, timer : BOOLEAN, gap : BOOLEAN, paused : BOOLEAN,
   visible : BOOLEAN, fit : BOOLEAN, page : BOOLEAN, alive : BOOLEAN, enabled : BOOLEAN, busy : BOOLEAN,
   tick : BOOLEAN, fetching : BOOLEAN, pending : BOOLEAN, up : SUBSET Talk!Kinds, tip : Int, tips : Int,
   shown : Int, seen : Int]

One(x)   == IF x THEN 1 ELSE 0
Rands(q) == \E i \in q.queue : i.kind = "random"

\* Fields that a helper leaves alone.
HostSame(q, t) ==
  /\ t.visible = q.visible /\ t.fit = q.fit /\ t.page = q.page /\ t.alive = q.alive
  /\ t.enabled = q.enabled /\ t.tip = q.tip /\ t.tips = q.tips
RoundSame(q, t) == t.busy = q.busy /\ t.tick = q.tick /\ t.pending = q.pending /\ t.shown = q.shown
VoiceSame(q, t) ==
  /\ t.cur = q.cur /\ t.queue = q.queue /\ t.up = q.up /\ t.timer = q.timer /\ t.gap = q.gap
  /\ t.paused = q.paused

\* At most one item of a kind waits; x tips in hand, which the channel has not been given yet.
OneEach(q)  == \A i, j \in q.queue : i.kind = j.kind => i = j
Tally(q, x) == One(q.fetching) + One(q.pending) + One(q.cur.kind = "random") + One(Rands(q)) + x = One(q.busy)
Capped(q)   == q.shown = q.seen + One(q.cur.kind = "random")
Clocked(q)  == q.alive /\ ~q.busy /\ q.enabled /\ q.shown < MaxRandom => q.tick
Voiced(q)   == q.up = IF q.cur = Talk!None THEN {} ELSE {q.cur.kind}
Timed(q) ==
  /\ q.cur = Talk!None /\ q.queue # {} => q.gap
  /\ q.cur # Talk!None => ~q.gap /\ (q.cur.kind = "event" \/ (q.timer <=> ~q.paused))
  /\ q.timer => q.cur # Talk!None /\ q.cur.kind # "event"
  /\ (\E i \in q.queue : i.kind = "event") => q.cur.kind \in {"none", "cue"}

\* A step of the channel begins with what is on the screen and counted, and ends with its timers
\* set; an event tip waits behind a cue only.
Unmoved(q)  == q \in TalkStates /\ OneEach(q) /\ Capped(q) /\ Voiced(q)
Sound(q)  == Unmoved(q) /\ Clocked(q)
Spoken(q) == Sound(q) /\ Tally(q, 0) /\ Timed(q)

Heard(q) == {i \in {q.cur} \cup q.queue : i.kind = "event"}
Due(q) == IF q.page /\ q.visible /\ q.tip # 0 THEN {Talk!Item("event", q.tip)} ELSE {}
TalkInv == Spoken(m) /\ Heard(m) = Due(m)

LEMMA TalkCounts == \A S : Talk!Cardinality(S) = Cardinality(S)
BY Zenon DEF Cardinality, Talk!Cardinality

LEMMA TalkFlags ==
  ASSUME NEW q \in TalkStates
  PROVE  /\ q.busy \in BOOLEAN /\ q.tick \in BOOLEAN /\ q.alive \in BOOLEAN /\ q.timer \in BOOLEAN
         /\ q.paused \in BOOLEAN /\ q.gap \in BOOLEAN /\ q.enabled \in BOOLEAN /\ q.fetching \in BOOLEAN
         /\ q.pending \in BOOLEAN /\ q.visible \in BOOLEAN /\ q.page \in BOOLEAN /\ q.fit \in BOOLEAN
         /\ q.shown \in Int /\ q.seen \in Int /\ q.tip \in Int /\ q.tips \in Int
         /\ q.cur \in Words \cup {Talk!None} /\ q.queue \in SUBSET Words /\ q.up \in SUBSET Talk!Kinds
BY DEF TalkStates

LEMMA WordKinds ==
  /\ \A i \in Words : i.kind \in {"event", "cue", "random", "thought"}
  /\ Talk!None.kind = "none" /\ Talk!None \notin Words
  /\ \A kind \in Talk!Kinds, id \in Int : /\ Talk!Item(kind, id) \in Words
                                          /\ Talk!Item(kind, id).kind = kind
                                          /\ Talk!Item(kind, id).id = id
                                          /\ ~Talk!Item(kind, id).stale
BY DEF Words, Talk!None, Talk!Kinds, Talk!Item

LEMMA Rank ==
  /\ Talk!Priority["event"] = 0 /\ Talk!Priority["cue"] = 1
  /\ Talk!Priority["random"] = 2 /\ Talk!Priority["thought"] = 3
BY DEF Talk!Priority

LEMMA Balance ==
  ASSUME NEW a, NEW b, NEW c, NEW d, NEW e, a \in Int, b \in Int, c \in Int, d \in Int, e \in Int,
         a = b + c, d - e = a - b - c
  PROVE  d = e
OBVIOUS

\* A round is open exactly while one thing keeps it open.
LEMMA TallyMeans ==
  ASSUME NEW q \in TalkStates, NEW x \in {0, 1}
  PROVE  Tally(q, x) <=>
           IF q.busy
           THEN \/ q.fetching /\ ~q.pending /\ q.cur.kind # "random" /\ ~Rands(q) /\ x = 0
                \/ ~q.fetching /\ q.pending /\ q.cur.kind # "random" /\ ~Rands(q) /\ x = 0
                \/ ~q.fetching /\ ~q.pending /\ q.cur.kind = "random" /\ ~Rands(q) /\ x = 0
                \/ ~q.fetching /\ ~q.pending /\ q.cur.kind # "random" /\ Rands(q) /\ x = 0
                \/ ~q.fetching /\ ~q.pending /\ q.cur.kind # "random" /\ ~Rands(q) /\ x = 1
           ELSE ~q.fetching /\ ~q.pending /\ q.cur.kind # "random" /\ ~Rands(q) /\ x = 0
<1> DEFINE r == Rands(q)
           c == q.cur.kind = "random"
<1>1. Tally(q, x) <=> One(q.fetching) + One(q.pending) + One(c) + One(r) + x = One(q.busy)
  BY DEF Tally
<1> HIDE DEF r, c
<1>2. \A y : One(y) \in {0, 1}
  BY DEF One
<1>3. Tally(q, x) <=>
        IF q.busy THEN \/ q.fetching /\ ~q.pending /\ ~c /\ ~r /\ x = 0
                       \/ ~q.fetching /\ q.pending /\ ~c /\ ~r /\ x = 0
                       \/ ~q.fetching /\ ~q.pending /\ c /\ ~r /\ x = 0
                       \/ ~q.fetching /\ ~q.pending /\ ~c /\ r /\ x = 0
                       \/ ~q.fetching /\ ~q.pending /\ ~c /\ ~r /\ x = 1
        ELSE ~q.fetching /\ ~q.pending /\ ~c /\ ~r /\ x = 0
  BY <1>1 DEF One
<1> QED
  BY <1>3 DEF r, c

LEMMA SomeLast ==
  ASSUME NEW queue \in SUBSET Words, queue # {}
  PROVE  \E i \in queue : \A j \in queue : Talk!Priority[i.kind] >= Talk!Priority[j.kind]
<1>1. \A i \in queue : i.kind \in {"event", "cue", "random", "thought"}
  BY WordKinds
<1>2. CASE \E i \in queue : i.kind = "thought"
  BY <1>1, <1>2, Rank
<1>3. CASE (~\E i \in queue : i.kind = "thought") /\ \E i \in queue : i.kind = "random"
  BY <1>1, <1>3, Rank
<1>4. CASE (~\E i \in queue : i.kind \in {"thought", "random"}) /\ \E i \in queue : i.kind = "cue"
  BY <1>1, <1>4, Rank
<1>5. CASE ~\E i \in queue : i.kind \in {"thought", "random", "cue"}
  BY <1>1, <1>5, Rank
<1> QED
  BY <1>2, <1>3, <1>4, <1>5

LEMMA SomeHead ==
  ASSUME NEW queue \in SUBSET Words, queue # {}
  PROVE  \E i \in queue : \A j \in queue : Talk!Priority[i.kind] <= Talk!Priority[j.kind]
<1>1. \A i \in queue : i.kind \in {"event", "cue", "random", "thought"}
  BY WordKinds
<1>2. CASE \E i \in queue : i.kind = "event"
  BY <1>1, <1>2, Rank
<1>3. CASE (~\E i \in queue : i.kind = "event") /\ \E i \in queue : i.kind = "cue"
  BY <1>1, <1>3, Rank
<1>4. CASE (~\E i \in queue : i.kind \in {"event", "cue"}) /\ \E i \in queue : i.kind = "random"
  BY <1>1, <1>4, Rank
<1>5. CASE ~\E i \in queue : i.kind \in {"event", "cue", "random"}
  BY <1>1, <1>5, Rank
<1> QED
  BY <1>2, <1>3, <1>4, <1>5

\* What a full queue drops is never an event tip.
LEMMA LastIs ==
  ASSUME NEW queue \in SUBSET Words, \A i, j \in queue : i.kind = j.kind => i = j,
         ~(Cardinality(queue) <= 2)
  PROVE  Talk!Last(queue) \in queue /\ Talk!Last(queue).kind # "event"
<1>1. \E i \in queue : i.kind # "event"
  <2> SUFFICES ASSUME \A i \in queue : i.kind = "event" PROVE FALSE
    OBVIOUS
  <2>1. CASE queue = {}
    BY <2>1, FS_EmptySet
  <2>2. CASE queue # {}
    <3>1. PICK i \in queue : TRUE
      BY <2>2
    <3>2. queue = {i}
      BY <3>1
    <3>3. Cardinality(queue) = 1
      BY <3>2, FS_Singleton
    <3> QED
      BY <3>3
  <2> QED
    BY <2>1, <2>2
<1>2. PICK i \in queue : i.kind # "event"
  BY <1>1
<1> DEFINE n == Talk!Last(queue)
<1>3. n = CHOOSE l \in queue : \A j \in queue : Talk!Priority[l.kind] >= Talk!Priority[j.kind]
  BY DEF Talk!Last
<1>4. \E l \in queue : \A j \in queue : Talk!Priority[l.kind] >= Talk!Priority[j.kind]
  BY <1>2, SomeLast
<1> HIDE DEF n
<1>5. n \in queue /\ \A j \in queue : Talk!Priority[n.kind] >= Talk!Priority[j.kind]
  BY <1>3, <1>4
<1>6. n.kind # "event"
  BY <1>2, <1>5, WordKinds, Rank
<1> QED
  BY <1>5, <1>6 DEF n

LEMMA HeadIs ==
  ASSUME NEW queue \in SUBSET Words, queue # {}
  PROVE  /\ Talk!Head(queue) \in queue
         /\ (\E i \in queue : i.kind = "event") => Talk!Head(queue).kind = "event"
<1> DEFINE n == Talk!Head(queue)
<1>1. n = CHOOSE l \in queue : \A j \in queue : Talk!Priority[l.kind] <= Talk!Priority[j.kind]
  BY DEF Talk!Head
<1>2. \E l \in queue : \A j \in queue : Talk!Priority[l.kind] <= Talk!Priority[j.kind]
  BY SomeHead
<1> HIDE DEF n
<1>3. n \in queue /\ \A j \in queue : Talk!Priority[n.kind] <= Talk!Priority[j.kind]
  BY <1>1, <1>2
<1>4. (\E i \in queue : i.kind = "event") => n.kind = "event"
  BY <1>3, WordKinds, Rank
<1> QED
  BY <1>3, <1>4 DEF n

(* The helpers *)

LEMMA RoundDoneDoes ==
  ASSUME NEW q \in TalkStates
  PROVE  LET t == Talk!RoundDone(q) IN
           /\ t \in TalkStates /\ HostSame(q, t) /\ VoiceSame(q, t) /\ ~t.busy /\ t.tick = q.alive
           /\ t.fetching = q.fetching /\ t.pending = q.pending /\ t.shown = q.shown /\ t.seen = q.seen
BY Zenon DEF TalkStates, HostSame, VoiceSame, Talk!RoundDone

LEMMA DisplayDoes ==
  ASSUME NEW q \in TalkStates, NEW item \in Words
  PROVE  LET t == Talk!Display(q, item) IN
           /\ t \in TalkStates /\ HostSame(q, t) /\ t.cur = item /\ t.queue = q.queue /\ t.gap = q.gap
           /\ ~t.paused /\ (t.timer <=> item.kind # "event") /\ t.up = q.up \cup {item.kind}
           /\ t.busy = q.busy /\ t.tick = q.tick /\ t.fetching = q.fetching /\ t.pending = q.pending
           /\ t.seen = q.seen /\ t.shown = q.shown + One(item.kind = "random")
<1> DEFINE x == item.kind # "event"
           n == IF item.kind = "random" THEN q.shown + 1 ELSE q.shown
           v == q.up \cup {item.kind}
<1>1. x \in BOOLEAN /\ n \in Int /\ v \in SUBSET Talk!Kinds /\ n = q.shown + One(item.kind = "random")
  BY TalkFlags, WordKinds DEF One, Talk!Kinds
<1>2. Talk!Display(q, item) = [q EXCEPT !.cur = item, !.paused = FALSE, !.timer = x, !.up = v, !.shown = n]
  BY DEF Talk!Display
<1>3. (x <=> item.kind # "event") /\ v = q.up \cup {item.kind}
  OBVIOUS
<1> HIDE DEF x, n, v
<1>4. LET t == [q EXCEPT !.cur = item, !.paused = FALSE, !.timer = x, !.up = v, !.shown = n] IN
        /\ t \in TalkStates /\ HostSame(q, t) /\ t.cur = item /\ t.queue = q.queue /\ t.gap = q.gap
        /\ ~t.paused /\ t.timer = x /\ t.up = v
        /\ t.busy = q.busy /\ t.tick = q.tick /\ t.fetching = q.fetching /\ t.pending = q.pending
        /\ t.seen = q.seen /\ t.shown = n
  BY <1>1, Zenon DEF TalkStates, HostSame
<1> QED
  BY <1>1, <1>2, <1>3, <1>4

\* What goes leaves the screen; a random tip gives up its round, or keeps it for the return.
LEMMA GoneDoes ==
  ASSUME NEW q \in TalkStates, NEW item \in Words, NEW reason, NEW read
  PROVE  LET t == Talk!Gone(q, item, reason, read) IN
           /\ t \in TalkStates /\ HostSame(q, t) /\ t.fetching = q.fetching
           /\ t.cur = q.cur /\ t.queue = q.queue /\ t.timer = q.timer /\ t.gap = q.gap /\ t.paused = q.paused
           /\ t.up = q.up \ {item.kind}
           /\ t.shown - t.seen = q.shown - q.seen - One(item.kind = "random")
           /\ item.kind # "random" => RoundSame(q, t)
           /\ item.kind = "random" /\ reason = "clear" => t.pending /\ t.busy = q.busy /\ t.tick = q.tick
           /\ item.kind = "random" /\ reason # "clear" => ~t.busy /\ t.tick = q.alive /\ t.pending = q.pending
<1> DEFINE off == [q EXCEPT !.up = @ \ {item.kind}]
           counted == reason \notin {"preempt", "clear"} /\ read
           told == IF counted THEN [off EXCEPT !.seen = @ + 1] ELSE [off EXCEPT !.shown = @ - 1]
<1>1. Talk!Gone(q, item, reason, read) =
        IF item.kind # "random" THEN off
        ELSE IF reason = "clear" THEN [told EXCEPT !.pending = TRUE] ELSE Talk!RoundDone(told)
  BY DEF Talk!Gone
<1>2. /\ off \in TalkStates /\ HostSame(q, off) /\ off.fetching = q.fetching /\ RoundSame(q, off)
      /\ off.cur = q.cur /\ off.queue = q.queue /\ off.timer = q.timer /\ off.gap = q.gap /\ off.paused = q.paused
      /\ off.up = q.up \ {item.kind} /\ off.shown = q.shown /\ off.seen = q.seen
  BY TalkFlags DEF TalkStates, HostSame, RoundSame
<1> HIDE DEF off, counted
<1>3. /\ told \in TalkStates /\ HostSame(q, told) /\ told.fetching = q.fetching
      /\ told.busy = q.busy /\ told.tick = q.tick /\ told.pending = q.pending
      /\ told.cur = q.cur /\ told.queue = q.queue /\ told.timer = q.timer /\ told.gap = q.gap
      /\ told.paused = q.paused /\ told.up = q.up \ {item.kind}
      /\ told.shown - told.seen = q.shown - q.seen - 1
  <2>1. CASE counted
    BY <1>2, <2>1, TalkFlags DEF TalkStates, HostSame, RoundSame
  <2>2. CASE ~counted
    BY <1>2, <2>2, TalkFlags DEF TalkStates, HostSame, RoundSame
  <2> QED
    BY <2>1, <2>2
<1> HIDE DEF told
<1>4. CASE item.kind # "random"
  BY <1>1, <1>2, <1>4, TalkFlags DEF One
<1>5. CASE item.kind = "random" /\ reason = "clear"
  <2>1. Talk!Gone(q, item, reason, read) = [told EXCEPT !.pending = TRUE]
    BY <1>1, <1>5
  <2>2. LET t == [told EXCEPT !.pending = TRUE] IN
          /\ t \in TalkStates /\ HostSame(told, t) /\ VoiceSame(told, t) /\ t.fetching = told.fetching
          /\ t.busy = told.busy /\ t.tick = told.tick /\ t.pending
          /\ t.shown = told.shown /\ t.seen = told.seen
    BY <1>3, Zenon DEF TalkStates, HostSame, VoiceSame
  <2> QED
    BY <1>3, <1>5, <2>1, <2>2, Zenon DEF One, HostSame, VoiceSame
<1>6. CASE item.kind = "random" /\ reason # "clear"
  <2>1. Talk!Gone(q, item, reason, read) = Talk!RoundDone(told)
    BY <1>1, <1>6
  <2> QED
    BY <1>3, <1>6, <2>1, RoundDoneDoes DEF One, HostSame, VoiceSame
<1> QED
  BY <1>4, <1>5, <1>6

LEMMA DropKindDoes ==
  ASSUME NEW q \in TalkStates, NEW kind \in Talk!Kinds
  PROVE  LET t == Talk!DropKind(q, kind) IN
           /\ t \in TalkStates /\ HostSame(q, t) /\ t.cur = q.cur /\ t.up = q.up /\ t.timer = q.timer
           /\ t.gap = q.gap /\ t.paused = q.paused /\ t.queue = {i \in q.queue : i.kind # kind}
           /\ t.fetching = q.fetching /\ t.pending = q.pending /\ t.shown = q.shown /\ t.seen = q.seen
           /\ IF kind = "random" /\ Rands(q) THEN ~t.busy /\ t.tick = q.alive
              ELSE t.busy = q.busy /\ t.tick = q.tick
<1> DEFINE left == {i \in q.queue : i.kind # kind}
           out == [q EXCEPT !.queue = left]
<1>1. q.queue \ Talk!Of(kind, q.queue) = left /\ left \in SUBSET Words
  BY TalkFlags DEF Talk!Of
<1>2. [q EXCEPT !.queue = @ \ Talk!Of(kind, @)] = out
  BY <1>1
<1>3. Talk!DropKind(q, kind) = IF Talk!Of(kind, q.queue) = {} THEN q ELSE Talk!Dropped(out, Talk!Item(kind, 0))
  BY <1>2 DEF Talk!DropKind
<1>4. left = {i \in q.queue : i.kind # kind}
  OBVIOUS
<1>5. CASE Talk!Of(kind, q.queue) = {}
  <2>1. Talk!DropKind(q, kind) = q
    BY <1>3, <1>5
  <2>2. q.queue = left /\ ~(kind = "random" /\ Rands(q))
    BY <1>1, <1>5 DEF Talk!Of, Rands
  <2> QED
    BY <2>1, <2>2 DEF HostSame
<1> HIDE DEF left
<1>6. out \in TalkStates /\ HostSame(q, out) /\ out.cur = q.cur /\ out.up = q.up /\ out.timer = q.timer
      /\ out.gap = q.gap /\ out.paused = q.paused /\ out.queue = left
      /\ out.fetching = q.fetching /\ out.pending = q.pending /\ out.shown = q.shown /\ out.seen = q.seen
      /\ out.busy = q.busy /\ out.tick = q.tick
  BY <1>1 DEF TalkStates, HostSame
<1> HIDE DEF out
<1>7. CASE Talk!Of(kind, q.queue) # {}
  <2>1. CASE kind = "random"
    <3>1. Talk!DropKind(q, kind) = Talk!RoundDone(out) /\ Rands(q)
      BY <1>3, <1>7, <2>1, WordKinds DEF Talk!Dropped, Talk!Of, Rands
    <3> QED
      BY <1>4, <1>6, <2>1, <3>1, RoundDoneDoes DEF HostSame, VoiceSame
  <2>2. CASE kind # "random"
    <3>1. Talk!DropKind(q, kind) = out
      BY <1>3, <1>7, <2>2, WordKinds DEF Talk!Dropped
    <3> QED
      BY <1>4, <1>6, <2>2, <3>1
  <2> QED
    BY <2>1, <2>2
<1> QED
  BY <1>5, <1>7

\* A full queue drops an item that is no event tip.
LEMMA EnqueueDoes ==
  ASSUME NEW q \in TalkStates, OneEach(q), NEW item \in Words, ~(item.kind = "random" /\ Rands(q))
  PROVE  LET t == Talk!Enqueue(q, item) IN
           /\ t \in TalkStates /\ HostSame(q, t) /\ OneEach(t) /\ t.cur = q.cur /\ t.up = q.up
           /\ t.timer = q.timer /\ t.gap = q.gap /\ t.paused = q.paused
           /\ t.fetching = q.fetching /\ t.pending = q.pending /\ t.shown = q.shown /\ t.seen = q.seen
           /\ \A i : i.kind = "event" =>
                (i \in t.queue <=> IF item.kind = "event" THEN i = item ELSE i \in q.queue)
           /\ \/ (Rands(t) <=> item.kind = "random" \/ Rands(q)) /\ t.busy = q.busy /\ t.tick = q.tick
              \/ ~Rands(t) /\ (item.kind = "random" \/ Rands(q)) /\ ~t.busy /\ t.tick = q.alive
<1> DEFINE d == Talk!DropKind(q, item.kind)
           full == d.queue \cup {item}
           in == [d EXCEPT !.queue = @ \cup {item}]
           last == Talk!Last(full)
           left == full \ {last}
<1>1. item.kind \in Talk!Kinds
  BY DEF Words
<1>2. /\ d \in TalkStates /\ HostSame(q, d) /\ d.cur = q.cur /\ d.up = q.up /\ d.timer = q.timer
      /\ d.gap = q.gap /\ d.paused = q.paused /\ d.queue = {i \in q.queue : i.kind # item.kind}
      /\ d.fetching = q.fetching /\ d.pending = q.pending /\ d.shown = q.shown /\ d.seen = q.seen
      /\ d.busy = q.busy /\ d.tick = q.tick
  BY <1>1, DropKindDoes
<1>4. in.queue = full
  BY <1>2 DEF TalkStates
<1>45. Talk!Enqueue(q, item) =
         IF Talk!Cardinality(in.queue) <= 2 THEN in
         ELSE Talk!Dropped([in EXCEPT !.queue = @ \ {Talk!Last(in.queue)}], Talk!Last(in.queue))
  BY DEF Talk!Enqueue
<1>5. Talk!Enqueue(q, item) = IF Cardinality(full) <= 2 THEN in ELSE Talk!Dropped([in EXCEPT !.queue = left], last)
  <2> HIDE DEF in, full
  <2>1. [in EXCEPT !.queue = @ \ {last}] = [in EXCEPT !.queue = left]
    BY <1>4
  <2> QED
    BY <1>4, <1>45, <2>1, TalkCounts
<1> HIDE DEF d
<1>6. full = {i \in q.queue : i.kind # item.kind} \cup {item} /\ full \in SUBSET Words
  BY <1>2, TalkFlags
<1>7. \A i, j \in full : i.kind = j.kind => i = j
  BY <1>6 DEF OneEach
<1>8. \A i : i.kind = "event" =>
        (i \in full <=> IF item.kind = "event" THEN i = item ELSE i \in q.queue)
  BY <1>6
<1>9. (\E i \in full : i.kind = "random") <=> item.kind = "random" \/ Rands(q)
  BY <1>6 DEF Rands
<1> HIDE DEF full
<1>10. in \in TalkStates /\ HostSame(d, in) /\ in.cur = d.cur /\ in.up = d.up /\ in.timer = d.timer
       /\ in.gap = d.gap /\ in.paused = d.paused
       /\ in.fetching = d.fetching /\ in.pending = d.pending /\ in.shown = d.shown /\ in.seen = d.seen
       /\ in.busy = d.busy /\ in.tick = d.tick
  BY <1>2, <1>6 DEF TalkStates, HostSame
<1> HIDE DEF in
<1>11. CASE Cardinality(full) <= 2
  <2>1. Talk!Enqueue(q, item) = in
    BY <1>5, <1>11
  <2>2. OneEach(in)
    BY <1>4, <1>7 DEF OneEach
  <2>3. Rands(in) <=> item.kind = "random" \/ Rands(q)
    BY <1>4, <1>9 DEF Rands
  <2> QED
    BY <1>2, <1>4, <1>8, <1>10, <2>1, <2>2, <2>3 DEF HostSame
<1>12. CASE ~(Cardinality(full) <= 2)
  <2> DEFINE b == [in EXCEPT !.queue = left]
  <2>1. Talk!Enqueue(q, item) = Talk!Dropped(b, last)
    BY <1>5, <1>12
  <2>2. last \in full /\ last.kind # "event"
    BY <1>6, <1>7, <1>12, LastIs
  <2>3. left \in SUBSET Words /\ left \subseteq full /\ \A i \in full : i \in left <=> i # last
    BY <1>6
  <2> HIDE DEF last, left
  <2>4. b \in TalkStates /\ HostSame(in, b) /\ b.cur = in.cur /\ b.up = in.up /\ b.timer = in.timer
        /\ b.gap = in.gap /\ b.paused = in.paused /\ b.queue = left
        /\ b.fetching = in.fetching /\ b.pending = in.pending /\ b.shown = in.shown /\ b.seen = in.seen
        /\ b.busy = in.busy /\ b.tick = in.tick
    BY <1>10, <2>3 DEF TalkStates, HostSame
  <2> HIDE DEF b
  <2>5. \A i : i.kind = "event" =>
          (i \in left <=> IF item.kind = "event" THEN i = item ELSE i \in q.queue)
    BY <1>8, <2>2, <2>3
  <2>6. CASE last.kind = "random"
    <3> DEFINE t == Talk!RoundDone(b)
    <3>1. Talk!Enqueue(q, item) = t
      BY <2>1, <2>6 DEF Talk!Dropped
    <3>2. t \in TalkStates /\ HostSame(b, t) /\ VoiceSame(b, t) /\ ~t.busy /\ t.tick = b.alive
          /\ t.fetching = b.fetching /\ t.pending = b.pending /\ t.shown = b.shown /\ t.seen = b.seen
      BY <2>4, RoundDoneDoes
    <3> HIDE DEF t
    <3>3. OneEach(t) /\ ~Rands(t) /\ t.queue = left
      BY <1>7, <2>2, <2>3, <2>4, <2>6, <3>2 DEF OneEach, Rands, VoiceSame
    <3>4. item.kind = "random" \/ Rands(q)
      BY <1>9, <2>2, <2>6
    <3>5. HostSame(q, t) /\ t.tick = q.alive
      BY <1>2, <1>10, <2>4, <3>2 DEF HostSame
    <3> QED
      BY <1>2, <1>10, <2>4, <2>5, <3>1, <3>2, <3>3, <3>4, <3>5 DEF VoiceSame
  <2>7. CASE last.kind # "random"
    <3>1. Talk!Enqueue(q, item) = b
      BY <2>1, <2>7 DEF Talk!Dropped
    <3>2. OneEach(b)
      BY <1>7, <2>3, <2>4 DEF OneEach
    <3>3. Rands(b) <=> item.kind = "random" \/ Rands(q)
      BY <1>9, <2>3, <2>4, <2>7 DEF Rands
    <3>4. HostSame(q, b)
      BY <1>2, <1>10, <2>4 DEF HostSame
    <3> QED
      BY <1>2, <1>10, <2>4, <2>5, <3>1, <3>2, <3>3, <3>4
  <2> QED
    BY <2>6, <2>7
<1> QED
  BY <1>11, <1>12

LEMMA ScheduleDoesNext ==
  ASSUME NEW q \in TalkStates
  PROVE  LET t == Talk!ScheduleNext(q) IN
           /\ t \in TalkStates /\ HostSame(q, t) /\ RoundSame(q, t) /\ t.seen = q.seen
           /\ t.fetching = q.fetching /\ t.cur = q.cur /\ t.queue = q.queue /\ t.up = q.up
           /\ t.timer = q.timer /\ t.paused = q.paused /\ (t.gap <=> q.gap \/ q.queue # {})
<1> DEFINE x == q.gap \/ q.queue # {}
<1>1. Talk!ScheduleNext(q) = [q EXCEPT !.gap = x] /\ x \in BOOLEAN
  BY DEF Talk!ScheduleNext
<1>2. x <=> q.gap \/ q.queue # {}
  OBVIOUS
<1> HIDE DEF x
<1>3. LET t == [q EXCEPT !.gap = x] IN
        /\ t \in TalkStates /\ HostSame(q, t) /\ RoundSame(q, t) /\ t.seen = q.seen
        /\ t.fetching = q.fetching /\ t.cur = q.cur /\ t.queue = q.queue /\ t.up = q.up
        /\ t.timer = q.timer /\ t.paused = q.paused /\ t.gap = x
  BY <1>1 DEF TalkStates, HostSame, RoundSame
<1> QED
  BY <1>1, <1>2, <1>3

LEMMA PreemptsMeans ==
  ASSUME NEW item \in Words, NEW seen \in Words
  PROVE  /\ Talk!Preempts(item, seen) /\ item.kind # "event" => seen.kind # "event"
         /\ ~Talk!Preempts(item, seen) /\ item.kind = "event" => seen.kind = "cue"
BY WordKinds, Rank DEF Talk!Preempts

\* However a request is answered, the channel is sound again, and the event tips are what they were
\* but for the one that asks.
LEMMA RequestDoes ==
  ASSUME NEW q, Sound(q), Timed(q), NEW item \in Words, Tally(q, One(item.kind = "random")), NEW read
  PROVE  LET t == Talk!Request(q, item, read) IN
           /\ Spoken(t) /\ HostSame(q, t)
           /\ \A i : i.kind = "event" =>
                (i \in {t.cur} \cup t.queue <=>
                   IF item.kind = "event" THEN i = item ELSE i \in {q.cur} \cup q.queue)
<1> DEFINE t == Talk!Request(q, item, read)
           x == One(item.kind = "random")
<1>1. q \in TalkStates /\ OneEach(q) /\ Capped(q) /\ Voiced(q) /\ Clocked(q)
  BY DEF Sound, Unmoved
<1>2. x \in {0, 1} /\ (x = 1 <=> item.kind = "random")
  BY DEF One
<1>3. item # Talk!None /\ item.kind \in {"event", "cue", "random", "thought"} /\ item.kind # "none"
  BY WordKinds
<1>4. (q.cur = Talk!None \/ q.cur \in Words) /\ (q.cur = Talk!None <=> q.cur.kind = "none")
  BY <1>1, TalkFlags, WordKinds
<1>5. item.kind = "random" => q.cur.kind # "random" /\ ~Rands(q) /\ q.busy
  BY <1>1, <1>2, TallyMeans
<1>6. CASE q.cur = Talk!None /\ ~q.gap
  <2>1. t = Talk!Display(q, item) /\ q.queue = {}
    BY <1>6 DEF Talk!Request, Timed
  <2>2. /\ t \in TalkStates /\ HostSame(q, t) /\ t.cur = item /\ t.queue = q.queue /\ t.gap = q.gap
        /\ ~t.paused /\ (t.timer <=> item.kind # "event") /\ t.up = q.up \cup {item.kind}
        /\ t.busy = q.busy /\ t.tick = q.tick /\ t.fetching = q.fetching /\ t.pending = q.pending
        /\ t.seen = q.seen /\ t.shown = q.shown + One(item.kind = "random")
    BY <1>1, <2>1, DisplayDoes
  <2> HIDE DEF t
  <2>3. Voiced(t) /\ OneEach(t) /\ Timed(t)
    BY <1>1, <1>3, <1>6, <2>1, <2>2 DEF Voiced, OneEach, Timed
  <2>4. Capped(t)
    BY <1>1, <1>4, <1>6, <2>2, TalkFlags DEF Capped, One
  <2>5. Tally(t, 0)
    BY <1>1, <1>2, <1>4, <1>6, <2>1, <2>2, TallyMeans DEF Rands
  <2>6. Clocked(t)
    BY <1>1, <1>5, <2>2, TalkFlags DEF Clocked, One, HostSame
  <2>7. \A i : i.kind = "event" =>
          (i \in {t.cur} \cup t.queue <=>
             IF item.kind = "event" THEN i = item ELSE i \in {q.cur} \cup q.queue)
    BY <1>4, <1>6, <2>1, <2>2
  <2> QED
    BY <2>2, <2>3, <2>4, <2>5, <2>6, <2>7 DEF Spoken, Sound, Unmoved, t
<1>7. CASE q.cur # Talk!None /\ Talk!Preempts(item, q.cur)
  <2> DEFINE b == [q EXCEPT !.cur = Talk!None, !.timer = FALSE]
             g == Talk!Gone(b, q.cur, "preempt", read)
  <2>1. t = Talk!Display(g, item)
    BY <1>7 DEF Talk!Request
  <2>2. b \in TalkStates /\ HostSame(q, b) /\ RoundSame(q, b) /\ b.fetching = q.fetching /\ b.seen = q.seen
        /\ b.cur = Talk!None /\ b.queue = q.queue /\ b.gap = q.gap /\ b.up = q.up
    BY <1>1, Zenon DEF TalkStates, HostSame, RoundSame
  <2> HIDE DEF b
  <2>3. /\ g \in TalkStates /\ HostSame(b, g) /\ g.fetching = b.fetching
        /\ g.cur = b.cur /\ g.queue = b.queue /\ g.gap = b.gap
        /\ g.up = b.up \ {q.cur.kind}
        /\ g.shown - g.seen = b.shown - b.seen - One(q.cur.kind = "random")
        /\ q.cur.kind # "random" => RoundSame(b, g)
        /\ q.cur.kind = "random" => ~g.busy /\ g.tick = b.alive /\ g.pending = b.pending
    BY <1>4, <1>7, <2>2, GoneDoes
  <2> HIDE DEF g
  <2>4. /\ t \in TalkStates /\ HostSame(g, t) /\ t.cur = item /\ t.queue = g.queue /\ t.gap = g.gap
        /\ ~t.paused /\ (t.timer <=> item.kind # "event") /\ t.up = g.up \cup {item.kind}
        /\ t.busy = g.busy /\ t.tick = g.tick /\ t.fetching = g.fetching /\ t.pending = g.pending
        /\ t.seen = g.seen /\ t.shown = g.shown + One(item.kind = "random")
    BY <2>1, <2>3, DisplayDoes
  <2> HIDE DEF t
  <2>5. /\ t.queue = q.queue /\ ~t.gap /\ HostSame(q, t) /\ t.fetching = q.fetching
        /\ t.up = {item.kind}
    BY <1>1, <1>7, <2>2, <2>3, <2>4 DEF HostSame, Voiced, Timed
  <2>6. /\ q.cur.kind # "random" => t.busy = q.busy /\ t.tick = q.tick /\ t.pending = q.pending
                                    /\ t.shown = q.shown + One(item.kind = "random")
        /\ q.cur.kind = "random" => ~t.busy /\ t.tick = q.alive /\ t.pending = q.pending
    BY <2>2, <2>3, <2>4 DEF RoundSame, HostSame
  <2>7. item.kind # "event" => q.cur.kind # "event"
    BY <1>4, <1>7, PreemptsMeans
  <2>8. Voiced(t) /\ OneEach(t)
    BY <1>1, <1>3, <2>4, <2>5 DEF Voiced, OneEach
  <2>9. Timed(t)
    <3>1. (\E i \in q.queue : i.kind = "event") => q.cur.kind = "cue"
      BY <1>4, <1>7 DEF Timed
    <3>2. (\E i \in q.queue : i.kind = "event") => item.kind \in {"event", "cue"}
      BY <1>4, <1>7, <3>1, WordKinds, Rank DEF Talk!Preempts
    <3>3. item.kind = "event" => q.cur.kind # "cue"
      BY <1>4, <1>7, <1>3 DEF Talk!Preempts
    <3> QED
      BY <1>3, <2>4, <2>5, <3>1, <3>2, <3>3 DEF Timed
  <2>10. Capped(t)
    <3>1. g.shown \in Int /\ g.seen \in Int /\ q.shown \in Int /\ q.seen \in Int
      BY <1>1, <2>2, <2>3, TalkFlags DEF RoundSame
    <3> DEFINE c == One(q.cur.kind = "random")
               n == One(item.kind = "random")
    <3>2. c \in Int
      BY DEF One
    <3>7. n \in Int
      BY DEF One
    <3>3. q.shown = q.seen + c /\ g.shown - g.seen = q.shown - q.seen - c
      BY <1>1, <2>2, <2>3 DEF Capped, RoundSame
    <3>4. t.shown = g.shown + n /\ t.seen = g.seen
      BY <2>4
    <3> HIDE DEF c, n
    <3>6. g.shown = g.seen
      BY <3>1, <3>2, <3>3, Balance
    <3>5. t.shown = t.seen + n
      BY <3>4, <3>6, <3>7
    <3> QED
      BY <2>4, <3>5 DEF Capped, n
  <2>11. Tally(t, 0)
    <3>1. Rands(t) <=> Rands(q)
      BY <2>5 DEF Rands
    <3>2. CASE q.cur.kind = "random"
      BY <1>1, <1>2, <1>5, <2>4, <2>5, <2>6, <3>1, <3>2, TallyMeans
    <3>3. CASE q.cur.kind # "random"
      BY <1>1, <1>2, <1>5, <2>4, <2>5, <2>6, <3>1, <3>3, TallyMeans
    <3> QED
      BY <3>2, <3>3
  <2>12. Clocked(t)
    <3>1. t.alive = q.alive /\ t.enabled = q.enabled
      BY <2>5 DEF HostSame
    <3>2. CASE q.cur.kind = "random"
      BY <2>6, <3>1, <3>2, Zenon DEF Clocked
    <3>3. CASE q.cur.kind # "random" /\ item.kind = "random"
      BY <1>5, <2>6, <3>3 DEF Clocked
    <3>4. CASE q.cur.kind # "random" /\ item.kind # "random"
      <4>1. t.shown = q.shown /\ t.busy = q.busy /\ t.tick = q.tick
        BY <1>1, <2>6, <3>4, TalkFlags DEF One
      <4> QED
        BY <1>1, <3>1, <4>1 DEF Clocked
    <3> QED
      BY <3>2, <3>3, <3>4
  <2>13. \A i : i.kind = "event" =>
           (i \in {t.cur} \cup t.queue <=>
              IF item.kind = "event" THEN i = item ELSE i \in {q.cur} \cup q.queue)
    <3>1. item.kind = "event" => ~\E i \in q.queue : i.kind = "event"
      <4>1. (\E i \in q.queue : i.kind = "event") => q.cur.kind = "cue"
        BY <1>4, <1>7 DEF Timed
      <4>2. item.kind = "event" => q.cur.kind # "cue"
        BY <1>4, <1>7, <1>3 DEF Talk!Preempts
      <4> QED
        BY <4>1, <4>2
    <3> QED
      BY <2>4, <2>5, <2>7, <3>1
  <2> QED
    BY <2>4, <2>5, <2>8, <2>9, <2>10, <2>11, <2>12, <2>13 DEF Spoken, Sound, Unmoved, t
<1>8. CASE ~(q.cur = Talk!None /\ ~q.gap) /\ ~(q.cur # Talk!None /\ Talk!Preempts(item, q.cur))
  <2> DEFINE e == Talk!Enqueue(q, item)
  <2>1. t = IF q.cur = Talk!None THEN Talk!ScheduleNext(e) ELSE e
    BY <1>8 DEF Talk!Request
  <2>2. /\ e \in TalkStates /\ HostSame(q, e) /\ OneEach(e) /\ e.cur = q.cur /\ e.up = q.up
        /\ e.timer = q.timer /\ e.gap = q.gap /\ e.paused = q.paused
        /\ e.fetching = q.fetching /\ e.pending = q.pending /\ e.shown = q.shown /\ e.seen = q.seen
        /\ \A i : i.kind = "event" =>
             (i \in e.queue <=> IF item.kind = "event" THEN i = item ELSE i \in q.queue)
        /\ \/ (Rands(e) <=> item.kind = "random" \/ Rands(q)) /\ e.busy = q.busy /\ e.tick = q.tick
           \/ ~Rands(e) /\ (item.kind = "random" \/ Rands(q)) /\ ~e.busy /\ e.tick = q.alive
    BY <1>1, <1>5, EnqueueDoes
  <2> HIDE DEF e
  <2>3. /\ t \in TalkStates /\ HostSame(e, t) /\ RoundSame(e, t) /\ t.seen = e.seen
        /\ t.fetching = e.fetching /\ t.cur = e.cur /\ t.queue = e.queue /\ t.up = e.up
        /\ t.timer = e.timer /\ t.paused = e.paused
        /\ t.gap = e.gap
    <3>1. CASE q.cur = Talk!None
      <4>1. t = Talk!ScheduleNext(e) /\ q.gap
        BY <1>8, <2>1, <3>1
      <4>2. /\ t \in TalkStates /\ HostSame(e, t) /\ RoundSame(e, t) /\ t.seen = e.seen
            /\ t.fetching = e.fetching /\ t.cur = e.cur /\ t.queue = e.queue /\ t.up = e.up
            /\ t.timer = e.timer /\ t.paused = e.paused /\ (t.gap <=> e.gap \/ e.queue # {})
        BY <2>2, <4>1, ScheduleDoesNext, Zenon
      <4>3. t.gap /\ t.gap \in BOOLEAN /\ e.gap \in BOOLEAN /\ e.gap
        BY <2>2, <4>1, <4>2, TalkFlags
      <4> QED
        BY <4>2, <4>3
    <3>2. CASE q.cur # Talk!None
      BY <2>1, <2>2, <3>2 DEF HostSame, RoundSame
    <3> QED
      BY <3>1, <3>2
  <2> HIDE DEF t
  <2>4. HostSame(q, t) /\ OneEach(t) /\ Voiced(t) /\ Capped(t)
    BY <1>1, <2>2, <2>3 DEF HostSame, RoundSame, OneEach, Voiced, Capped
  <2>5. \A i : i.kind = "event" =>
          (i \in {t.cur} \cup t.queue <=>
             IF item.kind = "event" THEN i = item ELSE i \in {q.cur} \cup q.queue)
    <3>1. item.kind = "event" => q.cur.kind # "event"
      BY <1>4, <1>8, WordKinds, PreemptsMeans
    <3> QED
      BY <2>2, <2>3, <3>1
  <2>6. Timed(t)
    <3>1. item.kind = "event" => q.cur.kind \in {"none", "cue"}
      BY <1>4, <1>8, PreemptsMeans
    <3>2. (\E i \in t.queue : i.kind = "event") => t.cur.kind \in {"none", "cue"}
      BY <2>2, <2>3, <3>1 DEF Timed
    <3>3. /\ q.cur = Talk!None => q.gap
          /\ q.cur # Talk!None => ~q.gap /\ (q.cur.kind = "event" \/ (q.timer <=> ~q.paused))
          /\ q.timer => q.cur # Talk!None /\ q.cur.kind # "event"
      BY <1>8 DEF Timed
    <3>4. t.cur = q.cur /\ t.gap = q.gap /\ t.timer = q.timer /\ t.paused = q.paused
      BY <2>2, <2>3
    <3> QED
      BY <3>2, <3>3, <3>4 DEF Timed
  <2>7. Tally(t, 0)
    <3>1. /\ t.fetching = q.fetching /\ t.pending = q.pending /\ t.cur = q.cur /\ t.busy = e.busy
          /\ (Rands(t) <=> Rands(e))
      BY <2>2, <2>3 DEF RoundSame, Rands
    <3>2. CASE (Rands(e) <=> item.kind = "random" \/ Rands(q)) /\ e.busy = q.busy
      BY <1>1, <1>2, <1>5, <2>3, <3>1, <3>2, TallyMeans
    <3>3. CASE ~Rands(e) /\ (item.kind = "random" \/ Rands(q)) /\ ~e.busy
      BY <1>1, <1>2, <1>5, <2>3, <3>1, <3>3, TallyMeans
    <3> QED
      BY <2>2, <3>2, <3>3
  <2>8. Clocked(t)
    BY <1>1, <2>2, <2>3, <2>4, Zenon DEF Clocked, HostSame, RoundSame
  <2> QED
    BY <2>3, <2>4, <2>5, <2>6, <2>7, <2>8 DEF Spoken, Sound, Unmoved, t
<1> QED
  BY <1>6, <1>7, <1>8

\* What ends leaves the channel sound; after a cue the thought is asked for.
LEMMA FinishDoes ==
  ASSUME NEW q, Sound(q), Tally(q, 0), q.cur # Talk!None, NEW reason, reason # "clear", NEW read
  PROVE  LET t == Talk!Finish(q, reason, read) IN
           /\ Spoken(t) /\ HostSame(q, t)
           /\ \A i : i.kind = "event" => (i \in {t.cur} \cup t.queue <=> i \in q.queue)
<1> DEFINE b == [q EXCEPT !.cur = Talk!None, !.timer = FALSE, !.paused = FALSE]
           free == Talk!ScheduleNext(b)
           g == Talk!Gone(free, q.cur, reason, read)
           t == Talk!Finish(q, reason, read)
           thought == Talk!Item("thought", 0)
<1>1. q \in TalkStates /\ OneEach(q) /\ Capped(q) /\ Voiced(q) /\ Clocked(q)
  BY DEF Sound, Unmoved
<1>2. q.cur \in Words /\ q.cur.kind # "none"
  BY <1>1, TalkFlags, WordKinds
<1>3. t = IF q.cur.kind = "cue" /\ reason = "timeout" THEN Talk!Request(g, thought, read) ELSE g
  BY DEF Talk!Finish
<1>4. /\ b \in TalkStates /\ HostSame(q, b) /\ RoundSame(q, b) /\ b.fetching = q.fetching /\ b.seen = q.seen
      /\ b.cur = Talk!None /\ b.queue = q.queue /\ b.gap = q.gap /\ b.up = q.up /\ ~b.timer
  BY <1>1, Zenon DEF TalkStates, HostSame, RoundSame
<1> HIDE DEF b
<1>5. /\ free \in TalkStates /\ HostSame(b, free) /\ RoundSame(b, free) /\ free.seen = b.seen
      /\ free.fetching = b.fetching /\ free.cur = b.cur /\ free.queue = b.queue /\ free.up = b.up
      /\ free.timer = b.timer /\ (free.gap <=> b.gap \/ b.queue # {})
  BY <1>4, ScheduleDoesNext
<1> HIDE DEF free
<1>6. /\ g \in TalkStates /\ HostSame(free, g) /\ g.fetching = free.fetching
      /\ g.cur = free.cur /\ g.queue = free.queue /\ g.timer = free.timer /\ g.gap = free.gap
      /\ g.up = free.up \ {q.cur.kind}
      /\ g.shown - g.seen = free.shown - free.seen - One(q.cur.kind = "random")
      /\ q.cur.kind # "random" => RoundSame(free, g)
      /\ q.cur.kind = "random" => ~g.busy /\ g.tick = free.alive /\ g.pending = free.pending
  BY <1>2, <1>5, GoneDoes
<1> HIDE DEF g
<1>7. /\ g.cur = Talk!None /\ g.queue = q.queue /\ HostSame(q, g) /\ g.fetching = q.fetching
      /\ g.up = {} /\ ~g.timer /\ (g.queue # {} => g.gap)
  BY <1>1, <1>4, <1>5, <1>6 DEF HostSame, Voiced
<1>8. /\ q.cur.kind # "random" => RoundSame(q, g)
      /\ q.cur.kind = "random" => ~g.busy /\ g.tick = q.alive /\ g.pending = q.pending
  BY <1>4, <1>5, <1>6 DEF RoundSame, HostSame
<1>9. Capped(g)
  <2> DEFINE c == One(q.cur.kind = "random")
  <2>1. c \in Int /\ g.shown \in Int /\ g.seen \in Int /\ q.shown \in Int /\ q.seen \in Int
    BY <1>1, <1>6, TalkFlags DEF One
  <2>2. q.shown = q.seen + c /\ g.shown - g.seen = q.shown - q.seen - c
    BY <1>1, <1>4, <1>5, <1>6 DEF Capped, RoundSame
  <2> HIDE DEF c
  <2>3. g.shown = g.seen
    BY <2>1, <2>2, Balance
  <2>4. g.cur.kind # "random"
    BY <1>7, WordKinds
  <2> QED
    BY <2>1, <2>3, <2>4 DEF Capped, One
<1>10. Tally(g, 0)
  <2>1. (Rands(g) <=> Rands(q)) /\ g.cur.kind # "random"
    BY <1>7, WordKinds DEF Rands
  <2>2. CASE q.cur.kind = "random"
    BY <1>1, <1>6, <1>7, <1>8, <2>1, <2>2, TallyMeans
  <2>3. CASE q.cur.kind # "random"
    BY <1>1, <1>6, <1>7, <1>8, <2>1, <2>3, TallyMeans DEF RoundSame
  <2> QED
    BY <2>2, <2>3
<1>11. Clocked(g) /\ Voiced(g) /\ OneEach(g) /\ Timed(g)
  <2>1. Clocked(g)
    BY <1>1, <1>7, <1>8, Zenon DEF Clocked, HostSame, RoundSame
  <2>2. Voiced(g) /\ OneEach(g)
    BY <1>1, <1>7 DEF Voiced, OneEach
  <2>3. Timed(g)
    BY <1>7, WordKinds DEF Timed
  <2> QED
    BY <2>1, <2>2, <2>3
<1>12. Sound(g)
  BY <1>6, <1>9, <1>11 DEF Sound, Unmoved
<1>13. \A i : i.kind = "event" => (i \in {g.cur} \cup g.queue <=> i \in q.queue)
  BY <1>7, WordKinds
<1>14. CASE ~(q.cur.kind = "cue" /\ reason = "timeout")
  <2>1. t = g
    BY <1>3, <1>14
  <2> QED
    BY <1>7, <1>10, <1>11, <1>12, <1>13, <2>1 DEF Spoken
<1>15. CASE q.cur.kind = "cue" /\ reason = "timeout"
  <2>1. t = Talk!Request(g, thought, read)
    BY <1>3, <1>15
  <2>2. thought \in Words /\ thought.kind = "thought"
    BY WordKinds DEF Talk!Kinds
  <2> HIDE DEF thought, t
  <2>3. Tally(g, One(thought.kind = "random"))
    <3>1. One(thought.kind = "random") = 0
      BY <2>2 DEF One
    <3> QED
      BY <1>10, <3>1
  <2>4. /\ Spoken(t) /\ HostSame(g, t)
        /\ \A i : i.kind = "event" =>
             (i \in {t.cur} \cup t.queue <=>
                IF thought.kind = "event" THEN i = thought ELSE i \in {g.cur} \cup g.queue)
    BY <1>11, <1>12, <2>1, <2>2, <2>3, RequestDoes
  <2>5. HostSame(q, t)
    BY <1>7, <2>4 DEF HostSame
  <2>6. \A i : i.kind = "event" => (i \in {t.cur} \cup t.queue <=> i \in q.queue)
    BY <1>13, <2>2, <2>4
  <2> QED
    BY <2>4, <2>5, <2>6 DEF t
<1> QED
  BY <1>14, <1>15

LEMMA EndDoes ==
  ASSUME NEW q, Spoken(q), NEW kind \in Talk!Kinds, NEW read
  PROVE  LET t == Talk!End(q, kind, read) IN
           /\ Spoken(t) /\ HostSame(q, t)
           /\ \A i : i.kind = "event" =>
                (i \in {t.cur} \cup t.queue <=> kind # "event" /\ i \in {q.cur} \cup q.queue)
<1> DEFINE t == Talk!End(q, kind, read)
<1>1. Sound(q) /\ Tally(q, 0) /\ Timed(q) /\ q \in TalkStates
  BY DEF Spoken, Sound, Unmoved
<1>2. kind # "none" /\ (kind = "event" \/ kind # "event")
  BY DEF Talk!Kinds
<1>3. CASE q.cur.kind = kind
  <2>1. t = Talk!Finish(q, "end", read) /\ q.cur # Talk!None
    BY <1>2, <1>3, WordKinds DEF Talk!End
  <2>2. /\ Spoken(t) /\ HostSame(q, t)
        /\ \A i : i.kind = "event" => (i \in {t.cur} \cup t.queue <=> i \in q.queue)
    BY <1>1, <2>1, FinishDoes, Zenon
  <2> HIDE DEF t
  <2>3. kind = "event" => ~\E i \in q.queue : i.kind = "event"
    BY <1>1, <1>3 DEF Timed
  <2> QED
    BY <1>3, <2>2, <2>3 DEF t
<1>4. CASE q.cur.kind # kind
  <2>1. t = Talk!DropKind(q, kind)
    BY <1>4 DEF Talk!End
  <2>2. /\ t \in TalkStates /\ HostSame(q, t) /\ t.cur = q.cur /\ t.up = q.up /\ t.timer = q.timer
        /\ t.gap = q.gap /\ t.paused = q.paused /\ t.queue = {i \in q.queue : i.kind # kind}
        /\ t.fetching = q.fetching /\ t.pending = q.pending /\ t.shown = q.shown /\ t.seen = q.seen
        /\ IF kind = "random" /\ Rands(q) THEN ~t.busy /\ t.tick = q.alive
           ELSE t.busy = q.busy /\ t.tick = q.tick
    BY <1>1, <2>1, DropKindDoes
  <2> HIDE DEF t
  <2>3. OneEach(t) /\ Capped(t) /\ Voiced(t) /\ Timed(t)
    BY <1>1, <2>2 DEF Sound, Unmoved, OneEach, Capped, Voiced, Timed
  <2>4. Clocked(t)
    BY <1>1, <2>2, Zenon DEF Sound, Clocked, HostSame
  <2>5. Tally(t, 0)
    <3>1. CASE kind = "random"
      BY <1>1, <2>2, <3>1, TallyMeans DEF Rands
    <3>2. CASE kind # "random"
      <4>1. Rands(t) <=> Rands(q)
        BY <2>2, <3>2 DEF Rands
      <4> QED
        BY <1>1, <2>2, <3>2, <4>1, TallyMeans
    <3> QED
      BY <3>1, <3>2
  <2>6. \A i : i.kind = "event" =>
          (i \in {t.cur} \cup t.queue <=> kind # "event" /\ i \in {q.cur} \cup q.queue)
    BY <1>4, <2>2
  <2> QED
    BY <2>2, <2>3, <2>4, <2>5, <2>6 DEF Spoken, Sound, Unmoved, t
<1> QED
  BY <1>3, <1>4

\* A hide clears the channel: the tip on the screen keeps its round for the return.
LEMMA ClearDoes ==
  ASSUME NEW q, Spoken(q)
  PROVE  LET t == Talk!Clear(q) IN
           Spoken(t) /\ HostSame(q, t) /\ t.cur = Talk!None /\ t.queue = {}
<1> DEFINE b == [q EXCEPT !.timer = FALSE, !.gap = FALSE, !.paused = FALSE, !.queue = {}, !.cur = Talk!None]
           d == IF Talk!Of("random", q.queue) = {} THEN b ELSE Talk!RoundDone(b)
           t == Talk!Clear(q)
<1>1. q \in TalkStates /\ OneEach(q) /\ Capped(q) /\ Voiced(q) /\ Clocked(q) /\ Tally(q, 0)
  BY DEF Spoken, Sound, Unmoved
<1>2. t = IF q.cur = Talk!None THEN d ELSE Talk!Gone(d, q.cur, "clear", FALSE)
  BY DEF Talk!Clear
<1>3. Talk!Of("random", q.queue) = {} <=> ~Rands(q)
  BY DEF Talk!Of, Rands
<1>4. /\ b \in TalkStates /\ HostSame(q, b) /\ RoundSame(q, b) /\ b.fetching = q.fetching /\ b.seen = q.seen
      /\ b.cur = Talk!None /\ b.queue = {} /\ ~b.gap /\ b.up = q.up /\ ~b.timer
  BY <1>1, Zenon DEF TalkStates, HostSame, RoundSame
<1> HIDE DEF b
<1>5. /\ d \in TalkStates /\ HostSame(q, d) /\ d.fetching = q.fetching /\ d.seen = q.seen
      /\ d.cur = Talk!None /\ d.queue = {} /\ ~d.gap /\ d.up = q.up /\ ~d.timer
      /\ d.pending = q.pending /\ d.shown = q.shown
      /\ IF Rands(q) THEN ~d.busy /\ d.tick = q.alive ELSE d.busy = q.busy /\ d.tick = q.tick
  <2>1. CASE Rands(q)
    <3>1. d = Talk!RoundDone(b)
      BY <1>3, <2>1
    <3> QED
      BY <1>4, <2>1, <3>1, RoundDoneDoes DEF HostSame, RoundSame, VoiceSame
  <2>2. CASE ~Rands(q)
    <3>1. d = b
      BY <1>3, <2>2
    <3> QED
      BY <1>4, <2>2, <3>1 DEF RoundSame
  <2> QED
    BY <2>1, <2>2
<1> HIDE DEF d
<1>6. /\ t \in TalkStates /\ HostSame(q, t) /\ t.fetching = q.fetching
      /\ t.cur = Talk!None /\ t.queue = {} /\ ~t.gap /\ ~t.timer /\ t.up = {}
      /\ t.shown = t.seen
      /\ q.cur.kind # "random" => t.pending = q.pending /\ t.shown = q.shown /\ t.busy = d.busy /\ t.tick = d.tick
      /\ q.cur.kind = "random" => t.pending /\ t.busy = d.busy /\ t.tick = d.tick
  <2>1. CASE q.cur = Talk!None
    <3>1. t = d /\ q.cur.kind = "none" /\ q.up = {}
      BY <1>1, <1>2, <2>1, WordKinds DEF Voiced
    <3>2. q.shown = q.seen
      BY <1>1, <3>1, TalkFlags DEF Capped, One
    <3> QED
      BY <1>5, <3>1, <3>2
  <2>2. CASE q.cur # Talk!None
    <3> DEFINE c == One(q.cur.kind = "random")
               f == FALSE
    <3>1. q.cur \in Words /\ q.up = {q.cur.kind}
      BY <1>1, <2>2, TalkFlags DEF Voiced
    <3>2. t = Talk!Gone(d, q.cur, "clear", f)
      BY <1>2, <2>2
    <3> HIDE DEF t, f
    <3>3. /\ t \in TalkStates /\ HostSame(d, t) /\ t.fetching = d.fetching
          /\ t.cur = d.cur /\ t.queue = d.queue /\ t.timer = d.timer /\ t.gap = d.gap
          /\ t.up = d.up \ {q.cur.kind}
          /\ t.shown - t.seen = d.shown - d.seen - One(q.cur.kind = "random")
          /\ q.cur.kind # "random" => RoundSame(d, t)
          /\ q.cur.kind = "random" => t.pending /\ t.busy = d.busy /\ t.tick = d.tick
      BY <1>5, <3>1, <3>2, GoneDoes
    <3>4. c \in Int /\ t.shown \in Int /\ t.seen \in Int /\ q.shown \in Int /\ q.seen \in Int
      BY <1>1, <3>3, TalkFlags DEF One
    <3>5. q.shown = q.seen + c /\ t.shown - t.seen = q.shown - q.seen - c
      BY <1>1, <1>5, <3>3 DEF Capped
    <3> HIDE DEF c
    <3>6. t.shown = t.seen
      BY <3>4, <3>5
    <3>7. HostSame(q, t)
      BY <1>5, <3>3 DEF HostSame
    <3> QED
      BY <1>5, <3>1, <3>3, <3>6, <3>7 DEF RoundSame
  <2> QED
    BY <2>1, <2>2
<1> HIDE DEF t
<1>7. OneEach(t) /\ Voiced(t) /\ Timed(t) /\ ~Rands(t) /\ t.cur.kind = "none"
  BY <1>6, WordKinds DEF OneEach, Voiced, Timed, Rands
<1>8. Capped(t)
  BY <1>6, <1>7, TalkFlags DEF Capped, One
<1>9. Tally(t, 0)
  <2>1. CASE q.cur.kind = "random"
    BY <1>1, <1>5, <1>6, <1>7, <2>1, TallyMeans
  <2>2. CASE q.cur.kind # "random"
    BY <1>1, <1>5, <1>6, <1>7, <2>2, TallyMeans
  <2> QED
    BY <2>1, <2>2
<1>10. Clocked(t)
  <2>1. CASE q.cur.kind = "random"
    <3>1. q.busy /\ ~Rands(q)
      BY <1>1, <2>1, TallyMeans
    <3> QED
      BY <1>5, <1>6, <2>1, <3>1, Zenon DEF Clocked
  <2>2. CASE q.cur.kind # "random"
    BY <1>1, <1>5, <1>6, <2>2, Zenon DEF Clocked, HostSame
  <2> QED
    BY <2>1, <2>2
<1> QED
  BY <1>6, <1>7, <1>8, <1>9, <1>10 DEF Spoken, Sound, Unmoved, t

\* The effect of the selected event tip.
LEMMA OfferedDoes ==
  ASSUME NEW q, Spoken(q), NEW read
  PROVE  LET t == Talk!Offered(q, read) IN
           /\ Spoken(t) /\ HostSame(q, t)
           /\ \A i : i.kind = "event" =>
                (i \in {t.cur} \cup t.queue <=>
                   IF q.tip = 0 THEN FALSE
                   ELSE IF q.page THEN i = Talk!Item("event", q.tip) ELSE i \in {q.cur} \cup q.queue)
<1> DEFINE t == Talk!Offered(q, read)
           tip == Talk!Item("event", q.tip)
<1>1. Sound(q) /\ Tally(q, 0) /\ Timed(q) /\ q \in TalkStates
  BY DEF Spoken, Sound, Unmoved
<1>2. tip \in Words /\ tip.kind = "event" /\ "event" \in Talk!Kinds
  BY <1>1, TalkFlags, WordKinds DEF Talk!Kinds
<1>3. t = IF q.tip = 0 THEN Talk!End(q, "event", read)
          ELSE IF ~q.page \/ q.cur = tip THEN q ELSE Talk!Request(q, tip, read)
  BY DEF Talk!Offered
<1>4. CASE q.tip = 0
  <2>1. t = Talk!End(q, "event", read)
    BY <1>3, <1>4
  <2> HIDE DEF t
  <2>2. /\ Spoken(t) /\ HostSame(q, t)
        /\ \A i : i.kind = "event" =>
             (i \in {t.cur} \cup t.queue <=> "event" # "event" /\ i \in {q.cur} \cup q.queue)
    BY <1>2, <2>1, EndDoes
  <2> QED
    BY <1>4, <2>2 DEF t
<1> HIDE DEF tip
<1>5. CASE q.tip # 0 /\ (~q.page \/ q.cur = tip)
  <2>1. t = q
    BY <1>3, <1>5
  <2>2. q.cur = tip => ~\E i \in q.queue : i.kind = "event"
    BY <1>1, <1>2 DEF Timed
  <2>3. HostSame(q, q)
    BY DEF HostSame
  <2> QED
    BY <1>5, <2>1, <2>2, <2>3 DEF tip
<1>6. CASE q.tip # 0 /\ ~(~q.page \/ q.cur = tip)
  <2>1. t = Talk!Request(q, tip, read)
    BY <1>3, <1>6
  <2> HIDE DEF t
  <2>2. Tally(q, One(tip.kind = "random"))
    <3>1. One(tip.kind = "random") = 0
      BY <1>2 DEF One
    <3> QED
      BY <1>1, <3>1
  <2>3. /\ Spoken(t) /\ HostSame(q, t)
        /\ \A i : i.kind = "event" =>
             (i \in {t.cur} \cup t.queue <=>
                IF tip.kind = "event" THEN i = tip ELSE i \in {q.cur} \cup q.queue)
    BY <1>1, <1>2, <2>1, <2>2, RequestDoes
  <2> QED
    BY <1>2, <1>6, <2>3 DEF t, tip
<1> QED
  BY <1>4, <1>5, <1>6

\* The clock of the random tips: a round begins, or the next check is set.
LEMMA CheckedDoes ==
  ASSUME NEW q, Unmoved(q), Tally(q, 0), Timed(q), NEW t \in Talk!Checked(q)
  PROVE  /\ Spoken(t) /\ HostSame(q, t) /\ t.cur = q.cur /\ t.queue = q.queue
<1>1. q \in TalkStates /\ OneEach(q) /\ Capped(q) /\ Voiced(q)
  BY DEF Unmoved
<1> DEFINE off == [q EXCEPT !.tick = FALSE]
           on == [q EXCEPT !.tick = TRUE]
           begun == [q EXCEPT !.tick = FALSE, !.busy = TRUE, !.fetching = TRUE]
<1>2. \/ t = off /\ (~q.alive \/ q.busy \/ ~(q.enabled /\ q.shown < MaxRandom))
      \/ t = on
      \/ t = begun /\ ~q.busy
  BY DEF Talk!Checked
<1>3. CASE t = off /\ (~q.alive \/ q.busy \/ ~(q.enabled /\ q.shown < MaxRandom))
  <2>1. /\ t \in TalkStates /\ HostSame(q, t) /\ VoiceSame(q, t) /\ t.busy = q.busy /\ t.fetching = q.fetching
        /\ t.pending = q.pending /\ t.shown = q.shown /\ t.seen = q.seen
    BY <1>1, <1>3, Zenon DEF TalkStates, HostSame, VoiceSame
  <2>2. OneEach(t) /\ Capped(t) /\ Voiced(t) /\ Timed(t) /\ Tally(t, 0)
    BY <1>1, <2>1, Zenon DEF OneEach, Capped, Voiced, Timed, Tally, Rands, VoiceSame
  <2>3. Clocked(t)
    BY <1>3, <2>1 DEF Clocked, HostSame
  <2> QED
    BY <2>1, <2>2, <2>3 DEF Spoken, Sound, Unmoved, VoiceSame
<1>4. CASE t = on
  <2>1. /\ t \in TalkStates /\ HostSame(q, t) /\ VoiceSame(q, t) /\ t.busy = q.busy /\ t.fetching = q.fetching
        /\ t.pending = q.pending /\ t.shown = q.shown /\ t.seen = q.seen /\ t.tick
    BY <1>1, <1>4, Zenon DEF TalkStates, HostSame, VoiceSame
  <2>2. OneEach(t) /\ Capped(t) /\ Voiced(t) /\ Timed(t) /\ Tally(t, 0)
    BY <1>1, <2>1, Zenon DEF OneEach, Capped, Voiced, Timed, Tally, Rands, VoiceSame
  <2>3. Clocked(t)
    BY <2>1 DEF Clocked
  <2> QED
    BY <2>1, <2>2, <2>3 DEF Spoken, Sound, Unmoved, VoiceSame
<1>5. CASE t = begun /\ ~q.busy
  <2>1. /\ t \in TalkStates /\ HostSame(q, t) /\ VoiceSame(q, t) /\ t.busy /\ t.fetching
        /\ t.pending = q.pending /\ t.shown = q.shown /\ t.seen = q.seen
    BY <1>1, <1>5, Zenon DEF TalkStates, HostSame, VoiceSame
  <2>2. OneEach(t) /\ Capped(t) /\ Voiced(t) /\ Timed(t)
    BY <1>1, <2>1 DEF OneEach, Capped, Voiced, Timed, VoiceSame
  <2>3. Tally(t, 0)
    <3>1. (Rands(t) <=> Rands(q)) /\ t.cur = q.cur
      BY <2>1 DEF Rands, VoiceSame
    <3> QED
      BY <1>1, <1>5, <2>1, <3>1, TallyMeans, Zenon
  <2>4. Clocked(t)
    BY <2>1 DEF Clocked
  <2> QED
    BY <2>1, <2>2, <2>3, <2>4 DEF Spoken, Sound, Unmoved, VoiceSame
<1> QED
  BY <1>2, <1>3, <1>4, <1>5

LEMMA ReofferedDoes ==
  ASSUME NEW q, Unmoved(q), Tally(q, 0), Timed(q), q.pending
  PROVE  LET t == Talk!Reoffered(q) IN
           Unmoved(t) /\ Tally(t, 0) /\ Timed(t) /\ HostSame(q, t) /\ t.cur = q.cur /\ t.queue = q.queue
<1> DEFINE b == [q EXCEPT !.pending = FALSE]
           f == [q EXCEPT !.pending = FALSE, !.fetching = TRUE]
           t == Talk!Reoffered(q)
<1>1. q \in TalkStates /\ OneEach(q) /\ Capped(q) /\ Voiced(q)
  BY DEF Unmoved
<1>2. t = IF q.shown >= MaxRandom \/ ~q.enabled THEN Talk!RoundDone(b) ELSE f
  BY DEF Talk!Reoffered
<1>3. q.busy /\ ~q.fetching /\ q.cur.kind # "random" /\ ~Rands(q)
  BY <1>1, TallyMeans
<1>4. /\ b \in TalkStates /\ HostSame(q, b) /\ VoiceSame(q, b) /\ ~b.pending /\ b.fetching = q.fetching
      /\ b.shown = q.shown /\ b.seen = q.seen
  BY <1>1, Zenon DEF TalkStates, HostSame, VoiceSame
<1>5. /\ f \in TalkStates /\ HostSame(q, f) /\ VoiceSame(q, f) /\ ~f.pending /\ f.fetching /\ f.busy = q.busy
      /\ f.shown = q.shown /\ f.seen = q.seen
  BY <1>1, Zenon DEF TalkStates, HostSame, VoiceSame
<1> HIDE DEF b, f
<1>6. /\ t \in TalkStates /\ HostSame(q, t) /\ VoiceSame(q, t) /\ ~t.pending
      /\ t.shown = q.shown /\ t.seen = q.seen /\ (t.busy <=> t.fetching)
  <2>1. CASE q.shown >= MaxRandom \/ ~q.enabled
    <3>1. t = Talk!RoundDone(b)
      BY <1>2, <2>1
    <3> QED
      BY <1>3, <1>4, <3>1, RoundDoneDoes DEF HostSame, VoiceSame
  <2>2. CASE ~(q.shown >= MaxRandom \/ ~q.enabled)
    <3>1. t = f
      BY <1>2, <2>2
    <3> QED
      BY <1>3, <1>5, <3>1, Zenon
  <2> QED
    BY <2>1, <2>2
<1> HIDE DEF t
<1>7. OneEach(t) /\ Capped(t) /\ Voiced(t) /\ Timed(t)
  BY <1>1, <1>6 DEF OneEach, Capped, Voiced, Timed, VoiceSame
<1>8. Tally(t, 0)
  <2>1. (Rands(t) <=> Rands(q)) /\ t.cur = q.cur
    BY <1>6 DEF Rands, VoiceSame
  <2> QED
    BY <1>3, <1>6, <2>1, TallyMeans
<1> QED
  BY <1>6, <1>7, <1>8 DEF Unmoved, VoiceSame, t

\* The event tips of the channel are those that are due.
LEMMA HeardMeans ==
  ASSUME NEW q \in TalkStates
  PROVE  Heard(q) = Due(q) <=>
           \A i : i.kind = "event" =>
             (i \in {q.cur} \cup q.queue <=> q.page /\ q.visible /\ q.tip # 0 /\ i = Talk!Item("event", q.tip))
<1>1. Talk!Item("event", q.tip).kind = "event"
  BY DEF Talk!Item
<1>2. CASE q.page /\ q.visible /\ q.tip # 0
  <2>1. Due(q) = {Talk!Item("event", q.tip)}
    BY <1>2 DEF Due
  <2> QED
    BY <1>1, <1>2, <2>1 DEF Heard
<1>3. CASE ~(q.page /\ q.visible /\ q.tip # 0)
  <2>1. Due(q) = {}
    BY <1>3 DEF Due
  <2> QED
    BY <1>3, <2>1 DEF Heard
<1> QED
  BY <1>2, <1>3

\* A step that keeps the events and the host keeps what is heard.
LEMMA HeardStays ==
  ASSUME TalkInv, Spoken(m'), HostSame(m, m'),
         \A i : i.kind = "event" => (i \in {m'.cur} \cup m'.queue <=> i \in {m.cur} \cup m.queue)
  PROVE  TalkInv'
<1>1. m \in TalkStates /\ Heard(m) = Due(m)
  BY DEF TalkInv, Spoken, Sound, Unmoved
<1>2. Heard(m') = Heard(m)
  BY DEF Heard
<1>3. Due(m') = Due(m)
  BY DEF Due, HostSame
<1> QED
  BY <1>1, <1>2, <1>3 DEF TalkInv

LEMMA TalkParts ==
  ASSUME TalkInv
  PROVE  /\ m \in TalkStates /\ OneEach(m) /\ Capped(m) /\ Voiced(m) /\ Clocked(m) /\ Tally(m, 0) /\ Timed(m)
         /\ Unmoved(m) /\ Sound(m) /\ Spoken(m) /\ Heard(m) = Due(m)
BY DEF TalkInv, Spoken, Sound, Unmoved

LEMMA TimerFiresKeeps == TalkInv /\ Talk!TimerFires => TalkInv'
<1> SUFFICES ASSUME TalkInv, Talk!TimerFires PROVE TalkInv'
  OBVIOUS
<1> DEFINE b == [m EXCEPT !.timer = FALSE]
<1>1. PICK read \in BOOLEAN : m' = Talk!Finish(b, "timeout", read)
  BY DEF Talk!TimerFires
<1>2. m.timer /\ m.cur # Talk!None /\ m.cur.kind # "event"
  BY TalkParts DEF Timed, Talk!TimerFires
<1>3. /\ b \in TalkStates /\ HostSame(m, b) /\ RoundSame(m, b) /\ b.fetching = m.fetching /\ b.seen = m.seen
      /\ b.cur = m.cur /\ b.queue = m.queue /\ b.up = m.up
  BY TalkParts, Zenon DEF TalkStates, HostSame, RoundSame
<1> HIDE DEF b
<1>4. Sound(b) /\ Tally(b, 0)
  BY <1>3, TalkParts, Zenon DEF Sound, Unmoved, OneEach, Capped, Voiced, Clocked, Tally, Rands, HostSame, RoundSame
<1>5. /\ Spoken(m') /\ HostSame(b, m')
      /\ \A i : i.kind = "event" => (i \in {m'.cur} \cup m'.queue <=> i \in b.queue)
  BY <1>1, <1>2, <1>3, <1>4, FinishDoes, Zenon
<1>6. HostSame(m, m')
  BY <1>3, <1>5 DEF HostSame
<1>7. \A i : i.kind = "event" => (i \in {m'.cur} \cup m'.queue <=> i \in {m.cur} \cup m.queue)
  BY <1>2, <1>3, <1>5
<1> QED
  BY <1>5, <1>6, <1>7, HeardStays

LEMMA GapFiresKeeps == TalkInv /\ Talk!GapFires => TalkInv'
<1> SUFFICES ASSUME TalkInv, Talk!GapFires PROVE TalkInv'
  OBVIOUS
<1> DEFINE open == [m EXCEPT !.gap = FALSE]
           stale == {i \in m.queue : i.stale /\ \A j \in m.queue :
                       Talk!Priority[j.kind] < Talk!Priority[i.kind] => j.stale}
           left == m.queue \ stale
           base == IF Talk!Of("random", stale) = {} THEN open ELSE Talk!RoundDone(open)
           shed == [base EXCEPT !.queue = left]
           h == Talk!Head(left)
           rest == [shed EXCEPT !.queue = @ \ {h}]
<1>1. m' = IF m.cur # Talk!None THEN open ELSE IF left = {} THEN shed ELSE Talk!Display(rest, h)
  BY DEF Talk!GapFires
<1>2. m.gap /\ m.cur = Talk!None
  BY TalkParts DEF Timed, Talk!GapFires
<1>3. m \in TalkStates /\ m.queue \in SUBSET Words /\ m.cur.kind = "none" /\ ~m.timer
  BY <1>2, TalkParts, TalkFlags, WordKinds DEF Timed
<1>4. /\ open \in TalkStates /\ HostSame(m, open) /\ RoundSame(m, open) /\ open.fetching = m.fetching
      /\ open.seen = m.seen /\ open.cur = m.cur /\ open.queue = m.queue /\ open.up = m.up /\ ~open.gap
      /\ open.timer = m.timer
  BY <1>3, Zenon DEF TalkStates, HostSame, RoundSame
<1>5. stale \subseteq m.queue /\ \A i \in stale : i.kind # "event"
  <2>1. \A i \in m.queue : i.kind = "event" => i = Talk!Item("event", m.tip)
    BY <1>3, TalkParts, HeardMeans
  <2>2. ~Talk!Item("event", m.tip).stale
    BY <1>3, TalkFlags, WordKinds DEF Talk!Kinds
  <2> QED
    BY <2>1, <2>2
<1> HIDE DEF open, stale
<1>6. /\ left \in SUBSET Words /\ \A i : i.kind = "event" => (i \in left <=> i \in m.queue)
      /\ left \subseteq m.queue /\ \A i \in m.queue : i \notin left => i \in stale
  BY <1>3, <1>5
<1>7. (Talk!Of("random", stale) = {}) <=> ~\E i \in stale : i.kind = "random"
  BY DEF Talk!Of
<1>71. \A i, j \in left : i.kind = j.kind => i = j
  BY <1>6, TalkParts DEF OneEach
<1>72. (\E i \in stale : i.kind = "random") => Rands(m) /\ ~\E i \in left : i.kind = "random"
  BY <1>5, TalkParts DEF OneEach, Rands
<1>73. (~\E i \in stale : i.kind = "random") => (Rands(m) <=> \E i \in left : i.kind = "random")
  BY <1>6 DEF Rands
<1> HIDE DEF left
<1>8. /\ base \in TalkStates /\ HostSame(m, base) /\ base.fetching = m.fetching
      /\ base.pending = m.pending /\ base.shown = m.shown /\ base.seen = m.seen
      /\ base.cur = m.cur /\ base.up = m.up /\ ~base.gap /\ base.timer = m.timer
      /\ IF \E i \in stale : i.kind = "random" THEN ~base.busy /\ base.tick = m.alive
         ELSE base.busy = m.busy /\ base.tick = m.tick
  <2>1. CASE \E i \in stale : i.kind = "random"
    <3>1. base = Talk!RoundDone(open)
      BY <1>7, <2>1
    <3> QED
      BY <1>4, <2>1, <3>1, RoundDoneDoes DEF HostSame, RoundSame, VoiceSame
  <2>2. CASE ~\E i \in stale : i.kind = "random"
    <3>1. base = open
      BY <1>7, <2>2
    <3> QED
      BY <1>4, <2>2, <3>1 DEF RoundSame
  <2> QED
    BY <2>1, <2>2
<1> HIDE DEF base
<1>9. /\ shed \in TalkStates /\ HostSame(m, shed) /\ shed.fetching = m.fetching
      /\ shed.pending = m.pending /\ shed.shown = m.shown /\ shed.seen = m.seen
      /\ shed.cur = m.cur /\ shed.up = m.up /\ ~shed.gap /\ shed.timer = m.timer /\ shed.queue = left
      /\ shed.busy = base.busy /\ shed.tick = base.tick
  BY <1>6, <1>8 DEF TalkStates, HostSame
<1> HIDE DEF shed
<1>10. (Rands(shed) <=> \E i \in left : i.kind = "random") /\ OneEach(shed)
  BY <1>9, <1>71 DEF Rands, OneEach
<1>11. Tally(shed, 0)
  <2>1. CASE \E i \in stale : i.kind = "random"
    BY <1>3, <1>8, <1>9, <1>10, <1>72, <2>1, TalkParts, TallyMeans
  <2>2. CASE ~\E i \in stale : i.kind = "random"
    BY <1>3, <1>8, <1>9, <1>10, <1>73, <2>2, TalkParts, TallyMeans
  <2> QED
    BY <2>1, <2>2
<1>12. Capped(shed) /\ Voiced(shed)
  BY <1>9, TalkParts DEF Capped, Voiced
<1>13. Clocked(shed)
  BY <1>8, <1>9, TalkParts, Zenon DEF Clocked, HostSame
<1>14. CASE left = {}
  <2>1. m' = shed
    BY <1>1, <1>2, <1>14
  <2>2. Timed(shed)
    BY <1>2, <1>3, <1>9, <1>14 DEF Timed
  <2>3. \A i : i.kind = "event" => (i \in {m'.cur} \cup m'.queue <=> i \in {m.cur} \cup m.queue)
    BY <1>6, <1>9, <2>1
  <2>4. Spoken(m') /\ HostSame(m, m')
    BY <1>9, <1>10, <1>11, <1>12, <1>13, <2>1, <2>2 DEF Spoken, Sound, Unmoved
  <2> QED
    BY <2>3, <2>4, HeardStays
<1>15. CASE left # {}
  <2>1. m' = Talk!Display(rest, h)
    BY <1>1, <1>2, <1>15
  <2>2. h \in left /\ h \in Words /\ ((\E i \in left : i.kind = "event") => h.kind = "event")
    BY <1>6, <1>15, HeadIs
  <2> HIDE DEF h
  <2>3. /\ rest \in TalkStates /\ HostSame(m, rest) /\ rest.fetching = m.fetching
        /\ rest.pending = m.pending /\ rest.shown = m.shown /\ rest.seen = m.seen
        /\ rest.cur = m.cur /\ rest.up = m.up /\ ~rest.gap /\ rest.queue = left \ {h}
        /\ rest.busy = shed.busy /\ rest.tick = shed.tick
    BY <1>6, <1>9 DEF TalkStates, HostSame
  <2> HIDE DEF rest
  <2>4. /\ m' \in TalkStates /\ HostSame(rest, m') /\ m'.cur = h /\ m'.queue = rest.queue /\ m'.gap = rest.gap
        /\ ~m'.paused /\ (m'.timer <=> h.kind # "event") /\ m'.up = rest.up \cup {h.kind}
        /\ m'.busy = rest.busy /\ m'.tick = rest.tick /\ m'.fetching = rest.fetching /\ m'.pending = rest.pending
        /\ m'.seen = rest.seen /\ m'.shown = rest.shown + One(h.kind = "random")
    BY <2>1, <2>2, <2>3, DisplayDoes
  <2>5. OneEach(m') /\ HostSame(m, m')
    BY <1>71, <2>3, <2>4 DEF OneEach, HostSame
  <2>6. Voiced(m')
    <3>1. h # Talk!None /\ m.up = {}
      BY <1>2, <2>2, WordKinds, TalkParts DEF Voiced
    <3> QED
      BY <2>3, <2>4, <3>1 DEF Voiced
  <2>7. Capped(m')
    <3>1. m.shown = m.seen
      BY <1>3, TalkParts, TalkFlags DEF Capped, One
    <3> QED
      BY <2>3, <2>4, <3>1 DEF Capped
  <2>8. Tally(m', 0)
    <3>1. m'.cur.kind = "random" => Rands(shed) /\ ~Rands(m')
      BY <1>10, <1>71, <2>2, <2>3, <2>4 DEF Rands
    <3>2. m'.cur.kind # "random" => (Rands(shed) <=> Rands(m'))
      BY <1>9, <2>2, <2>3, <2>4 DEF Rands
    <3>3. CASE m'.cur.kind = "random"
      BY <1>9, <1>11, <2>3, <2>4, <3>1, <3>3, TallyMeans
    <3>4. CASE m'.cur.kind # "random"
      BY <1>3, <1>9, <1>11, <2>3, <2>4, <3>2, <3>4, TallyMeans
    <3> QED
      BY <3>3, <3>4
  <2>9. Clocked(m')
    <3>1. CASE h.kind = "random"
      <4>1. m'.busy
        BY <2>4, <2>8, <3>1, TallyMeans
      <4> QED
        BY <4>1 DEF Clocked
    <3>2. CASE h.kind # "random"
      <4>1. m'.shown = shed.shown /\ m'.busy = shed.busy /\ m'.tick = shed.tick
        BY <1>9, <2>3, <2>4, <3>2, TalkFlags DEF One
      <4>2. m'.alive = shed.alive /\ m'.enabled = shed.enabled
        BY <1>9, <2>5 DEF HostSame
      <4> QED
        BY <1>13, <4>1, <4>2 DEF Clocked
    <3> QED
      BY <3>1, <3>2
  <2>10. Timed(m')
    <3>1. m'.cur # Talk!None /\ ~m'.gap /\ (m'.timer <=> m'.cur.kind # "event") /\ ~m'.paused
      BY <2>2, <2>3, <2>4, WordKinds
    <3>2. ~\E i \in m'.queue : i.kind = "event"
      BY <1>71, <2>2, <2>3, <2>4
    <3> QED
      BY <3>1, <3>2 DEF Timed
  <2>11. \A i : i.kind = "event" => (i \in {m'.cur} \cup m'.queue <=> i \in {m.cur} \cup m.queue)
    BY <1>3, <1>6, <2>2, <2>3, <2>4
  <2>12. Spoken(m')
    BY <2>4, <2>5, <2>6, <2>7, <2>8, <2>9, <2>10 DEF Spoken, Sound, Unmoved
  <2> QED
    BY <2>5, <2>11, <2>12, HeardStays
<1> QED
  BY <1>14, <1>15

LEMMA HoldsKeeps == TalkInv /\ Talk!Holds => TalkInv'
<1> SUFFICES ASSUME TalkInv, Talk!Holds PROVE TalkInv'
  OBVIOUS
<1>1. m.cur # Talk!None /\ m.cur.kind # "event"
  BY DEF Talk!Holds
<1>2. PICK f \in BOOLEAN : m' = [m EXCEPT !.timer = f, !.paused = ~f]
  BY Zenon DEF Talk!Holds
<1>3. /\ m' \in TalkStates /\ HostSame(m, m') /\ RoundSame(m, m') /\ m'.fetching = m.fetching /\ m'.seen = m.seen
      /\ m'.cur = m.cur /\ m'.queue = m.queue /\ m'.up = m.up /\ m'.gap = m.gap /\ (m'.timer <=> ~m'.paused)
  BY <1>2, TalkParts, Zenon DEF TalkStates, HostSame, RoundSame
<1>4. OneEach(m') /\ Capped(m') /\ Voiced(m') /\ Clocked(m') /\ Tally(m', 0)
  BY <1>3, TalkParts, Zenon DEF OneEach, Capped, Voiced, Clocked, Tally, Rands, HostSame, RoundSame
<1>5. Timed(m')
  BY <1>1, <1>3, TalkParts DEF Timed
<1>6. Spoken(m')
  BY <1>3, <1>4, <1>5 DEF Spoken, Sound, Unmoved
<1>7. \A i : i.kind = "event" => (i \in {m'.cur} \cup m'.queue <=> i \in {m.cur} \cup m.queue)
  BY <1>3
<1> QED
  BY <1>3, <1>6, <1>7, HeardStays

\* An item that grows stale is the item it was.
LEMMA StaleKeeps ==
  ASSUME TalkInv, NEW queue \in SUBSET Words, m' = [m EXCEPT !.queue = queue],
         \A i \in queue : \E j \in m.queue : i.kind = j.kind /\ (i.kind = "event" => i = j),
         \A j \in m.queue : \E i \in queue : i.kind = j.kind /\ (i.kind = "event" => i = j),
         \A i, j \in queue : i.kind = j.kind => i = j
  PROVE  TalkInv'
<1>1. /\ m' \in TalkStates /\ HostSame(m, m') /\ RoundSame(m, m') /\ m'.fetching = m.fetching /\ m'.seen = m.seen
      /\ m'.cur = m.cur /\ m'.queue = queue /\ m'.up = m.up /\ m'.gap = m.gap /\ m'.timer = m.timer
      /\ m'.paused = m.paused
  BY TalkParts DEF TalkStates, HostSame, RoundSame
<1>2. (Rands(m') <=> Rands(m)) /\ (queue = {} <=> m.queue = {})
  BY <1>1 DEF Rands
<1>3. \A i : i.kind = "event" => (i \in queue <=> i \in m.queue)
  OBVIOUS
<1>4. OneEach(m')
  BY <1>1 DEF OneEach
<1>5. Capped(m') /\ Voiced(m') /\ Clocked(m')
  BY <1>1, TalkParts DEF Capped, Voiced, Clocked, HostSame, RoundSame
<1>6. Tally(m', 0)
  BY <1>1, <1>2, TalkParts, TallyMeans, Zenon DEF RoundSame
<1>7. Timed(m')
  BY <1>1, <1>2, <1>3, TalkParts DEF Timed
<1>8. Spoken(m')
  BY <1>1, <1>4, <1>5, <1>6, <1>7 DEF Spoken, Sound, Unmoved
<1>9. \A i : i.kind = "event" => (i \in {m'.cur} \cup m'.queue <=> i \in {m.cur} \cup m.queue)
  BY <1>1, <1>3
<1> QED
  BY <1>1, <1>8, <1>9, HeardStays

LEMMA AgesKeeps == TalkInv /\ Talk!Ages => TalkInv'
<1> SUFFICES ASSUME TalkInv, Talk!Ages PROVE TalkInv'
  OBVIOUS
<1>1. PICK i \in m.queue : i.kind = "random" /\
        m' = [m EXCEPT !.queue = (@ \ {i}) \cup {[i EXCEPT !.stale = TRUE]}]
  BY Zenon DEF Talk!Ages
<1> DEFINE n == [i EXCEPT !.stale = TRUE]
           queue == (m.queue \ {i}) \cup {n}
<1>2. m.queue \in SUBSET Words /\ \A a, b \in m.queue : a.kind = b.kind => a = b
  BY TalkParts, TalkFlags DEF OneEach
<1>3. n \in Words /\ n.kind = i.kind
  BY <1>1, <1>2, Zenon DEF Words
<1>4. m' = [m EXCEPT !.queue = queue]
  BY <1>1
<1> HIDE DEF n
<1>5. /\ queue \in SUBSET Words
      /\ \A a \in queue : \E j \in m.queue : a.kind = j.kind /\ (a.kind = "event" => a = j)
      /\ \A j \in m.queue : \E a \in queue : a.kind = j.kind /\ (a.kind = "event" => a = j)
      /\ \A a, b \in queue : a.kind = b.kind => a = b
  BY <1>1, <1>2, <1>3
<1> HIDE DEF queue
<1> QED
  BY <1>4, <1>5, StaleKeeps

LEMMA CuesKeeps == TalkInv /\ Talk!Cues => TalkInv'
<1> SUFFICES ASSUME TalkInv, Talk!Cues PROVE TalkInv'
  OBVIOUS
<1> DEFINE cue == Talk!Item("cue", 0)
<1>1. PICK read \in BOOLEAN : m' = Talk!Request(m, cue, read)
  BY DEF Talk!Cues
<1>2. cue \in Words /\ cue.kind = "cue"
  BY WordKinds DEF Talk!Kinds
<1> HIDE DEF cue
<1>3. Tally(m, One(cue.kind = "random"))
  <2>1. One(cue.kind = "random") = 0
    BY <1>2 DEF One
  <2> QED
    BY <2>1, TalkParts
<1>4. /\ Spoken(m') /\ HostSame(m, m')
      /\ \A i : i.kind = "event" =>
           (i \in {m'.cur} \cup m'.queue <=>
              IF cue.kind = "event" THEN i = cue ELSE i \in {m.cur} \cup m.queue)
  BY <1>1, <1>2, <1>3, TalkParts, RequestDoes
<1> QED
  BY <1>2, <1>4, HeardStays

LEMMA ActivityKeeps ==
  ASSUME TalkInv, NEW speaks \in BOOLEAN, Talk!ActivityChanges(speaks)
  PROVE  TalkInv'
<1> DEFINE aged(i) == [i EXCEPT !.stale = i.stale \/ i.kind = "thought"]
           old == {aged(i) : i \in m.queue}
           now == [m EXCEPT !.queue = old]
           thought == Talk!Item("thought", 0)
           off == FALSE
<1>1. m' = IF speaks /\ m.cur.kind # "cue" THEN Talk!Request(now, thought, off) ELSE now
  BY DEF Talk!ActivityChanges
<1>2. m.queue \in SUBSET Words /\ \A a, b \in m.queue : a.kind = b.kind => a = b
  BY TalkParts, TalkFlags DEF OneEach
<1>3. \A i \in m.queue : aged(i) \in Words /\ aged(i).kind = i.kind /\ (i.kind # "thought" => aged(i) = i)
  <2> TAKE i \in m.queue
  <2>1. i \in Words
    BY <1>2
  <2> DEFINE x == i.stale \/ i.kind = "thought"
  <2>2. x \in BOOLEAN /\ (i.kind # "thought" => x = i.stale)
    BY <2>1 DEF Words
  <2> HIDE DEF x
  <2>3. LET n == [i EXCEPT !.stale = x] IN n \in Words /\ n.kind = i.kind /\ (i.kind # "thought" => n = i)
    BY <2>1, <2>2 DEF Words
  <2> QED
    BY <2>3 DEF x
<1> HIDE DEF aged
<1>4. /\ old \in SUBSET Words
      /\ \A a \in old : \E j \in m.queue : a.kind = j.kind /\ (a.kind = "event" => a = j)
      /\ \A j \in m.queue : \E a \in old : a.kind = j.kind /\ (a.kind = "event" => a = j)
      /\ \A a, b \in old : a.kind = b.kind => a = b
  <2>1. old \in SUBSET Words
    BY <1>3
  <2>2. \A a \in old : \E j \in m.queue : a.kind = j.kind /\ (a.kind = "event" => a = j)
    BY <1>3
  <2>3. \A j \in m.queue : \E a \in old : a.kind = j.kind /\ (a.kind = "event" => a = j)
    <3> TAKE j \in m.queue
    <3>1. aged(j) \in old /\ aged(j).kind = j.kind /\ (j.kind = "event" => aged(j) = j)
      BY <1>3
    <3> QED
      BY <3>1
  <2>4. \A a, b \in old : a.kind = b.kind => a = b
    BY <1>2, <1>3
  <2> QED
    BY <2>1, <2>2, <2>3, <2>4
<1> HIDE DEF old
<1>5. CASE ~(speaks /\ m.cur.kind # "cue")
  <2>1. m' = [m EXCEPT !.queue = old]
    BY <1>1, <1>5, Zenon
  <2> QED
    BY <1>4, <2>1, StaleKeeps, Zenon
<1>6. CASE speaks /\ m.cur.kind # "cue"
  <2>1. m' = Talk!Request(now, thought, off)
    BY <1>1, <1>6
  <2>2. /\ now \in TalkStates /\ HostSame(m, now) /\ RoundSame(m, now) /\ now.fetching = m.fetching
        /\ now.seen = m.seen /\ now.cur = m.cur /\ now.queue = old /\ now.up = m.up /\ now.gap = m.gap
        /\ now.timer = m.timer /\ now.paused = m.paused
    BY <1>4, TalkParts DEF TalkStates, HostSame, RoundSame
  <2>3. thought \in Words /\ thought.kind = "thought"
    BY WordKinds DEF Talk!Kinds
  <2> HIDE DEF now, thought, off
  <2>4. (Rands(now) <=> Rands(m)) /\ (old = {} <=> m.queue = {})
    BY <1>4, <2>2 DEF Rands
  <2>5. \A i : i.kind = "event" => (i \in old <=> i \in m.queue)
    BY <1>4
  <2>6. OneEach(now) /\ Capped(now) /\ Voiced(now) /\ Clocked(now)
    BY <1>4, <2>2, TalkParts DEF OneEach, Capped, Voiced, Clocked, HostSame, RoundSame
  <2>7. Tally(now, One(thought.kind = "random"))
    <3>1. One(thought.kind = "random") = 0
      BY <2>3 DEF One
    <3>2. Tally(now, 0)
      BY <2>2, <2>4, TalkParts, TallyMeans DEF RoundSame
    <3> QED
      BY <3>1, <3>2
  <2>8. Timed(now)
    BY <2>2, <2>4, <2>5, TalkParts DEF Timed
  <2>9. Sound(now)
    BY <2>2, <2>6 DEF Sound, Unmoved
  <2>10. /\ Spoken(m') /\ HostSame(now, m')
         /\ \A i : i.kind = "event" =>
              (i \in {m'.cur} \cup m'.queue <=>
                 IF thought.kind = "event" THEN i = thought ELSE i \in {now.cur} \cup now.queue)
    BY <2>1, <2>3, <2>7, <2>8, <2>9, RequestDoes
  <2>11. HostSame(m, m')
    BY <2>2, <2>10 DEF HostSame
  <2>12. \A i : i.kind = "event" => (i \in {m'.cur} \cup m'.queue <=> i \in {m.cur} \cup m.queue)
    BY <2>2, <2>3, <2>5, <2>10
  <2> QED
    BY <2>10, <2>11, <2>12, HeardStays
<1> QED
  BY <1>5, <1>6

\* Another event tip is selected, or none, and its effect runs.
LEMMA OfferKeeps ==
  ASSUME TalkInv, NEW b \in TalkStates, VoiceSame(m, b), RoundSame(m, b), b.fetching = m.fetching,
         b.seen = m.seen, b.visible = m.visible, b.fit = m.fit, b.alive = m.alive, b.enabled => m.enabled,
         b.page = m.visible \/ b.tip = 0, NEW read
  PROVE  LET t == Talk!Offered(b, read) IN Spoken(t) /\ HostSame(b, t) /\ Heard(t) = Due(t)
<1> DEFINE t == Talk!Offered(b, read)
<1>1. m.page = m.visible \/ ~m.visible \/ ~m.page
  BY TalkParts, TalkFlags
<1>2. OneEach(b) /\ Capped(b) /\ Voiced(b) /\ Timed(b) /\ Tally(b, 0)
  BY TalkParts, Zenon DEF OneEach, Capped, Voiced, Timed, Tally, Rands, VoiceSame, RoundSame
<1>3. Clocked(b)
  BY TalkParts DEF Clocked, RoundSame
<1>4. Spoken(b)
  BY <1>2, <1>3 DEF Spoken, Sound, Unmoved
<1>5. /\ Spoken(t) /\ HostSame(b, t)
      /\ \A i : i.kind = "event" =>
           (i \in {t.cur} \cup t.queue <=>
              IF b.tip = 0 THEN FALSE
              ELSE IF b.page THEN i = Talk!Item("event", b.tip) ELSE i \in {b.cur} \cup b.queue)
  BY <1>4, OfferedDoes
<1> HIDE DEF t
<1>6. t \in TalkStates /\ t.page = b.page /\ t.visible = b.visible /\ t.tip = b.tip
  BY <1>5 DEF Spoken, Sound, Unmoved, HostSame
<1>7. \A i : i.kind = "event" =>
        (i \in {b.cur} \cup b.queue <=> m.page /\ m.visible /\ m.tip # 0 /\ i = Talk!Item("event", m.tip))
  BY TalkParts, HeardMeans DEF VoiceSame
<1>8. \A i : i.kind = "event" =>
        (i \in {t.cur} \cup t.queue <=> t.page /\ t.visible /\ t.tip # 0 /\ i = Talk!Item("event", t.tip))
  <2>1. CASE b.tip = 0
    BY <1>5, <1>6, <2>1
  <2>2. CASE b.tip # 0 /\ b.page
    BY <1>5, <1>6, <2>2, Zenon
  <2>3. CASE b.tip # 0 /\ ~b.page
    <3>1. ~m.visible
      BY <2>3
    <3> QED
      BY <1>5, <1>6, <1>7, <2>3, <3>1
  <2> QED
    BY <2>1, <2>2, <2>3
<1>9. Heard(t) = Due(t)
  BY <1>6, <1>8, HeardMeans
<1> QED
  BY <1>5, <1>9 DEF t

LEMMA TipChangesKeeps == TalkInv /\ Talk!TipChanges => TalkInv'
<1> SUFFICES ASSUME TalkInv, Talk!TipChanges PROVE TalkInv'
  OBVIOUS
<1>1. m.page = m.visible
  BY DEF Talk!TipChanges, Talk!Flushed
<1>2. PICK read \in BOOLEAN :
        \/ m' = Talk!Offered([m EXCEPT !.tips = @ + 1, !.tip = m.tips + 1], read)
        \/ m' = Talk!Offered([m EXCEPT !.tip = 0], read)
  BY DEF Talk!TipChanges
<1>3. \E n, k \in Int : m' = Talk!Offered([m EXCEPT !.tips = k, !.tip = n], read)
  <2>1. CASE m' = Talk!Offered([m EXCEPT !.tips = @ + 1, !.tip = m.tips + 1], read)
    <3>1. m.tips + 1 \in Int
      BY TalkParts, TalkFlags
    <3> QED
      BY <2>1, <3>1, Zenon
  <2>2. CASE m' = Talk!Offered([m EXCEPT !.tip = 0], read)
    <3>1. [m EXCEPT !.tip = 0] = [m EXCEPT !.tips = m.tips, !.tip = 0]
      BY TalkParts, Zenon DEF TalkStates
    <3>2. m' = Talk!Offered([m EXCEPT !.tips = m.tips, !.tip = 0], read)
      BY <2>2, <3>1
    <3>3. m.tips \in Int /\ 0 \in Int
      BY TalkParts, TalkFlags
    <3> QED
      BY <3>2, <3>3, Zenon
  <2> QED
    BY <1>2, <2>1, <2>2, Zenon
<1>4. PICK n, k \in Int : m' = Talk!Offered([m EXCEPT !.tips = k, !.tip = n], read)
  BY <1>3, Zenon
<1> DEFINE b == [m EXCEPT !.tips = k, !.tip = n]
<1>5. /\ b \in TalkStates /\ VoiceSame(m, b) /\ RoundSame(m, b) /\ b.fetching = m.fetching
      /\ b.seen = m.seen /\ b.visible = m.visible /\ b.fit = m.fit /\ b.alive = m.alive
      /\ b.enabled = m.enabled /\ b.page = m.page
  BY <1>4, TalkParts, Zenon DEF TalkStates, VoiceSame, RoundSame
<1> HIDE DEF b
<1>6. m' = Talk!Offered(b, read)
  BY <1>4 DEF b
<1> QED
  BY <1>1, <1>5, <1>6, OfferKeeps DEF TalkInv

LEMMA TicksKeeps == TalkInv /\ Talk!Ticks => TalkInv'
<1> SUFFICES ASSUME TalkInv, Talk!Ticks PROVE TalkInv'
  OBVIOUS
<1>1. m' \in Talk!Checked(m)
  BY DEF Talk!Ticks
<1>2. Spoken(m') /\ HostSame(m, m') /\ m'.cur = m.cur /\ m'.queue = m.queue
  BY <1>1, TalkParts, CheckedDoes
<1> QED
  BY <1>2, HeardStays

LEMMA FetchedKeeps == TalkInv /\ Talk!Fetched => TalkInv'
<1> SUFFICES ASSUME TalkInv, Talk!Fetched PROVE TalkInv'
  OBVIOUS
<1> DEFINE here == [m EXCEPT !.fetching = FALSE]
           kept == [here EXCEPT !.pending = TRUE]
           tip == Talk!Item("random", 0)
           off == FALSE
<1>1. \/ m' = kept
      \/ m' = Talk!RoundDone(here)
      \/ m' = Talk!Request(here, tip, off)
  BY Zenon DEF Talk!Fetched
<1>2. m.fetching /\ m.busy /\ ~m.pending /\ m.cur.kind # "random" /\ ~Rands(m)
  BY TalkParts, TallyMeans DEF Talk!Fetched
<1>3. /\ here \in TalkStates /\ HostSame(m, here) /\ VoiceSame(m, here) /\ RoundSame(m, here)
      /\ ~here.fetching /\ here.seen = m.seen
  BY TalkParts, Zenon DEF TalkStates, HostSame, VoiceSame, RoundSame
<1>4. /\ kept \in TalkStates /\ HostSame(m, kept) /\ VoiceSame(m, kept) /\ kept.busy = m.busy
      /\ kept.pending /\ ~kept.fetching /\ kept.seen = m.seen /\ kept.shown = m.shown
  BY TalkParts, Zenon DEF TalkStates, HostSame, VoiceSame
<1> HIDE DEF here, kept
<1>5. OneEach(here) /\ Capped(here) /\ Voiced(here) /\ Timed(here) /\ Clocked(here)
  BY <1>3, TalkParts DEF OneEach, Capped, Voiced, Timed, Clocked, HostSame, VoiceSame, RoundSame
<1>6. CASE m' = kept
  <2>1. OneEach(m') /\ Capped(m') /\ Voiced(m') /\ Timed(m')
    BY <1>4, <1>6, TalkParts, Zenon DEF OneEach, Capped, Voiced, Timed, VoiceSame
  <2>2. Clocked(m')
    BY <1>2, <1>4, <1>6, Zenon DEF Clocked
  <2>3. Tally(m', 0)
    <3>1. m'.cur = m.cur /\ ~Rands(m')
      BY <1>2, <1>4, <1>6 DEF VoiceSame, Rands
    <3> QED
      BY <1>2, <1>4, <1>6, <3>1, TallyMeans, Zenon
  <2>4. Spoken(m')
    BY <1>4, <1>6, <2>1, <2>2, <2>3 DEF Spoken, Sound, Unmoved
  <2> QED
    BY <1>4, <1>6, <2>4, HeardStays DEF VoiceSame
<1>7. CASE m' = Talk!RoundDone(here)
  <2>1. /\ m' \in TalkStates /\ HostSame(here, m') /\ VoiceSame(here, m') /\ ~m'.busy /\ m'.tick = here.alive
        /\ m'.fetching = here.fetching /\ m'.pending = here.pending /\ m'.shown = here.shown
        /\ m'.seen = here.seen
    BY <1>3, <1>7, RoundDoneDoes
  <2>2. OneEach(m') /\ Capped(m') /\ Voiced(m') /\ Timed(m')
    BY <1>5, <2>1 DEF OneEach, Capped, Voiced, Timed, VoiceSame
  <2>3. Clocked(m')
    BY <2>1 DEF Clocked, HostSame
  <2>4. Tally(m', 0)
    <3>1. m'.cur = m.cur /\ ~Rands(m')
      BY <1>2, <1>3, <2>1 DEF VoiceSame, Rands
    <3> QED
      BY <1>2, <1>3, <2>1, <3>1, TallyMeans DEF RoundSame
  <2>5. Spoken(m') /\ HostSame(m, m')
    BY <1>3, <2>1, <2>2, <2>3, <2>4 DEF Spoken, Sound, Unmoved, HostSame
  <2> QED
    BY <1>3, <2>1, <2>5, HeardStays DEF VoiceSame
<1>8. CASE m' = Talk!Request(here, tip, off)
  <2>1. tip \in Words /\ tip.kind = "random"
    BY WordKinds DEF Talk!Kinds
  <2> HIDE DEF tip, off
  <2>2. Tally(here, One(tip.kind = "random"))
    <3>1. One(tip.kind = "random") = 1
      BY <2>1 DEF One
    <3>2. here.cur = m.cur /\ ~Rands(here)
      BY <1>2, <1>3 DEF VoiceSame, Rands
    <3>3. Tally(here, 1)
      BY <1>2, <1>3, <3>2, TallyMeans, Zenon DEF RoundSame
    <3> QED
      BY <3>1, <3>3
  <2>3. Sound(here)
    BY <1>3, <1>5 DEF Sound, Unmoved
  <2>4. /\ Spoken(m') /\ HostSame(here, m')
        /\ \A i : i.kind = "event" =>
             (i \in {m'.cur} \cup m'.queue <=>
                IF tip.kind = "event" THEN i = tip ELSE i \in {here.cur} \cup here.queue)
    BY <1>5, <1>8, <2>1, <2>2, <2>3, RequestDoes
  <2>5. HostSame(m, m')
    BY <1>3, <2>4 DEF HostSame
  <2>6. \A i : i.kind = "event" => (i \in {m'.cur} \cup m'.queue <=> i \in {m.cur} \cup m.queue)
    BY <1>3, <2>1, <2>4 DEF VoiceSame
  <2> QED
    BY <2>4, <2>5, <2>6, HeardStays
<1> QED
  BY <1>1, <1>6, <1>7, <1>8, Zenon

LEMMA ClosesTipKeeps == TalkInv /\ Talk!ClosesTip => TalkInv'
<1> SUFFICES ASSUME TalkInv, Talk!ClosesTip PROVE TalkInv'
  OBVIOUS
<1> DEFINE read == TRUE
<1>1. m' = Talk!End(m, "random", read) /\ "random" \in Talk!Kinds
  BY DEF Talk!ClosesTip, Talk!Kinds
<1> HIDE DEF read
<1>2. /\ Spoken(m') /\ HostSame(m, m')
      /\ \A i : i.kind = "event" =>
           (i \in {m'.cur} \cup m'.queue <=> "random" # "event" /\ i \in {m.cur} \cup m.queue)
  BY <1>1, TalkParts, EndDoes
<1> QED
  BY <1>2, HeardStays

LEMMA SwitchesKeeps == TalkInv /\ Talk!Switches => TalkInv'
<1> SUFFICES ASSUME TalkInv, Talk!Switches PROVE TalkInv'
  OBVIOUS
<1>1. m.page = m.visible
  BY DEF Talk!Switches, Talk!Flushed
<1> DEFINE off == [m EXCEPT !.enabled = FALSE, !.tip = 0]
           on == [m EXCEPT !.enabled = TRUE]
<1>2. PICK read \in BOOLEAN :
        IF m.enabled THEN m' \in Talk!Checked(Talk!End(Talk!Offered(off, read), "random", read))
        ELSE m' \in Talk!Checked(on)
  BY DEF Talk!Switches
<1>3. CASE m.enabled
  <2> DEFINE f == Talk!Offered(off, read)
             e == Talk!End(f, "random", read)
  <2>1. m' \in Talk!Checked(e) /\ "random" \in Talk!Kinds
    BY <1>2, <1>3 DEF Talk!Kinds
  <2>2. /\ off \in TalkStates /\ VoiceSame(m, off) /\ RoundSame(m, off) /\ off.fetching = m.fetching
        /\ off.seen = m.seen /\ off.visible = m.visible /\ off.fit = m.fit /\ off.alive = m.alive
        /\ ~off.enabled /\ off.page = m.page
    <3>1. m \in TalkStates
      BY TalkParts
    <3>2. off \in TalkStates
      <4> DEFINE n == 0
                 no == FALSE
      <4>1. n \in Int /\ no \in BOOLEAN
        OBVIOUS
      <4> HIDE DEF n, no
      <4>2. [m EXCEPT !.enabled = no, !.tip = n] \in TalkStates
        BY <3>1, <4>1, Zenon DEF TalkStates
      <4> QED
        BY <4>2 DEF n, no
    <3>3. VoiceSame(m, off) /\ RoundSame(m, off)
      BY <3>1 DEF TalkStates, VoiceSame, RoundSame
    <3> QED
      BY <3>1, <3>2, <3>3 DEF TalkStates
  <2> HIDE DEF off
  <2>3. Spoken(f) /\ HostSame(off, f) /\ Heard(f) = Due(f)
    BY <1>1, <2>2, OfferKeeps
  <2> HIDE DEF f
  <2>4. /\ Spoken(e) /\ HostSame(f, e)
        /\ \A i : i.kind = "event" =>
             (i \in {e.cur} \cup e.queue <=> "random" # "event" /\ i \in {f.cur} \cup f.queue)
    BY <2>1, <2>3, EndDoes
  <2> HIDE DEF e
  <2>5. Spoken(m') /\ HostSame(e, m') /\ m'.cur = e.cur /\ m'.queue = e.queue
    BY <2>1, <2>4, CheckedDoes DEF Spoken, Sound
  <2>6. Heard(m') = Heard(f)
    BY <2>4, <2>5 DEF Heard
  <2>7. Due(m') = Due(f)
    BY <2>4, <2>5 DEF Due, HostSame
  <2> QED
    BY <2>3, <2>5, <2>6, <2>7 DEF TalkInv
<1>4. CASE ~m.enabled
  <2>1. m' \in Talk!Checked(on)
    BY <1>2, <1>4
  <2>2. /\ on \in TalkStates /\ VoiceSame(m, on) /\ RoundSame(m, on) /\ on.fetching = m.fetching
        /\ on.seen = m.seen /\ on.visible = m.visible /\ on.page = m.page /\ on.tip = m.tip
    BY TalkParts, Zenon DEF TalkStates, VoiceSame, RoundSame
  <2> HIDE DEF on
  <2>3. Unmoved(on) /\ Tally(on, 0) /\ Timed(on)
    BY <2>2, TalkParts, Zenon DEF Unmoved, OneEach, Capped, Voiced, Timed, Tally, Rands, VoiceSame, RoundSame
  <2>4. Spoken(m') /\ HostSame(on, m') /\ m'.cur = on.cur /\ m'.queue = on.queue
    BY <2>1, <2>3, CheckedDoes
  <2>5. Heard(m') = Heard(m) /\ Due(m') = Due(m)
    BY <2>2, <2>4 DEF Heard, Due, HostSame, VoiceSame
  <2> QED
    BY <2>4, <2>5, TalkParts DEF TalkInv
<1> QED
  BY <1>3, <1>4

LEMMA WindowTalkKeeps == TalkInv /\ (Talk!Hides \/ Talk!Shows \/ Talk!Turns) => TalkInv'
<1> SUFFICES ASSUME TalkInv, Talk!Hides \/ Talk!Shows \/ Talk!Turns PROVE TalkInv'
  OBVIOUS
<1>1. m.page = m.visible
  BY DEF Talk!Hides, Talk!Shows, Talk!Turns, Talk!Flushed
<1> DEFINE Sighted(q, t) ==
             /\ t \in TalkStates /\ VoiceSame(q, t) /\ RoundSame(q, t) /\ t.fetching = q.fetching
             /\ t.seen = q.seen /\ t.alive = q.alive /\ t.enabled = q.enabled /\ t.tip = q.tip
             /\ t.page = q.page
<1>2. ASSUME NEW q, Spoken(q), NEW t, Sighted(q, t) PROVE Spoken(t)
  <2>1. OneEach(t) /\ Capped(t) /\ Voiced(t) /\ Timed(t) /\ Tally(t, 0)
    BY <1>2, Zenon DEF Spoken, Sound, Unmoved, OneEach, Capped, Voiced, Timed, Tally, Rands, VoiceSame, RoundSame
  <2>2. Clocked(t)
    BY <1>2 DEF Spoken, Sound, Clocked, RoundSame
  <2> QED
    BY <1>2, <2>1, <2>2 DEF Spoken, Sound, Unmoved
<1>3. CASE Talk!Hides
  <2> DEFINE c == Talk!Clear(m)
  <2>1. Spoken(c) /\ HostSame(m, c) /\ c.cur = Talk!None /\ c.queue = {}
    BY TalkParts, ClearDoes
  <2>2. m' = [c EXCEPT !.visible = FALSE]
    BY <1>3 DEF Talk!Hides
  <2> HIDE DEF c
  <2>3. Sighted(c, m') /\ ~m'.visible
    BY <2>1, <2>2, Zenon DEF Spoken, Sound, Unmoved, TalkStates, VoiceSame, RoundSame
  <2>4. Spoken(m')
    BY <1>2, <2>1, <2>3
  <2>5. Heard(m') = {} /\ Due(m') = {}
    BY <2>1, <2>3, WordKinds DEF Heard, Due, VoiceSame
  <2> QED
    BY <2>4, <2>5 DEF TalkInv
<1>4. CASE Talk!Shows
  <2>1. Sighted(m, m') /\ ~m.page /\ ~m'.page
    BY <1>1, <1>4, TalkParts, Zenon DEF Talk!Shows, TalkStates, VoiceSame, RoundSame
  <2>2. Spoken(m')
    BY <1>2, <2>1, TalkParts
  <2>3. Heard(m') = Heard(m) /\ Due(m') = Due(m)
    BY <2>1 DEF Heard, Due, VoiceSame
  <2> QED
    BY <2>2, <2>3, TalkParts DEF TalkInv
<1>5. CASE Talk!Turns
  <2>1. Sighted(m, m') /\ m'.visible = m.visible
    BY <1>5, TalkParts, Zenon DEF Talk!Turns, TalkStates, VoiceSame, RoundSame
  <2>2. Spoken(m')
    BY <1>2, <2>1, TalkParts
  <2>3. Heard(m') = Heard(m) /\ Due(m') = Due(m)
    BY <2>1 DEF Heard, Due, VoiceSame
  <2> QED
    BY <2>2, <2>3, TalkParts DEF TalkInv
<1> QED
  BY <1>3, <1>4, <1>5

LEMMA TalkRendersKeeps == TalkInv /\ Talk!Renders => TalkInv'
<1> SUFFICES ASSUME TalkInv, Talk!Renders PROVE TalkInv'
  OBVIOUS
<1> DEFINE page == [m EXCEPT !.page = m.visible]
           tip == IF m.page = m.visible THEN page ELSE Talk!Offered(page, FALSE)
           alive == m.visible /\ m.fit
           clock == [tip EXCEPT !.alive = alive]
           again == IF alive /\ clock.pending THEN Talk!Reoffered(clock) ELSE clock
<1>1. m' \in IF alive = m.alive THEN {tip}
             ELSE IF alive THEN Talk!Checked(again) ELSE {[clock EXCEPT !.tick = FALSE]}
  BY Zenon DEF Talk!Renders
<1>2. /\ page \in TalkStates /\ VoiceSame(m, page) /\ RoundSame(m, page) /\ page.fetching = m.fetching
      /\ page.seen = m.seen /\ page.visible = m.visible /\ page.fit = m.fit /\ page.alive = m.alive
      /\ page.enabled = m.enabled /\ page.page = m.visible /\ page.tip = m.tip /\ page.tips = m.tips
  BY TalkParts, TalkFlags DEF TalkStates, VoiceSame, RoundSame
<1> HIDE DEF page
<1>3. Spoken(tip) /\ HostSame(page, tip) /\ Heard(tip) = Due(tip)
  <2>1. CASE m.page = m.visible
    <3>1. tip = page
      BY <2>1
    <3>2. OneEach(page) /\ Capped(page) /\ Voiced(page) /\ Timed(page) /\ Tally(page, 0) /\ Clocked(page)
      BY <1>2, TalkParts, Zenon DEF OneEach, Capped, Voiced, Timed, Tally, Rands, Clocked, VoiceSame, RoundSame
    <3>3. Heard(page) = Heard(m) /\ Due(page) = Due(m)
      BY <1>2, <2>1 DEF Heard, Due, VoiceSame
    <3>4. HostSame(page, page)
      BY DEF HostSame
    <3> QED
      BY <1>2, <3>1, <3>2, <3>3, <3>4, TalkParts, Zenon DEF Spoken, Sound, Unmoved
  <2>2. CASE m.page # m.visible
    <3> DEFINE read == FALSE
    <3>1. tip = Talk!Offered(page, read)
      BY <2>2
    <3> HIDE DEF read, tip
    <3> QED
      BY <1>2, <3>1, OfferKeeps
  <2> QED
    BY <2>1, <2>2, Zenon
<1> HIDE DEF tip
<1>4. alive \in BOOLEAN /\ tip \in TalkStates
  BY <1>3, TalkParts, TalkFlags DEF Spoken, Sound, Unmoved
<1> HIDE DEF alive
<1>5. CASE alive = m.alive
  <2>1. m' = tip
    BY <1>1, <1>5
  <2> QED
    BY <1>3, <2>1 DEF TalkInv
<1>6. CASE alive # m.alive
  <2>1. /\ clock \in TalkStates /\ VoiceSame(tip, clock) /\ RoundSame(tip, clock) /\ clock.fetching = tip.fetching
        /\ clock.seen = tip.seen /\ clock.visible = tip.visible /\ clock.page = tip.page
        /\ clock.tip = tip.tip /\ clock.alive = alive
    BY <1>4 DEF TalkStates, VoiceSame, RoundSame
  <2> HIDE DEF clock
  <2>2. Unmoved(clock) /\ Tally(clock, 0) /\ Timed(clock)
    BY <1>3, <2>1, Zenon DEF Spoken, Sound, Unmoved, OneEach, Capped, Voiced, Timed, Tally, Rands, VoiceSame, RoundSame
  <2>3. Heard(clock) = Heard(tip) /\ Due(clock) = Due(tip)
    BY <2>1 DEF Heard, Due, VoiceSame
  <2>4. CASE alive
    <3>1. m' \in Talk!Checked(again)
      BY <1>1, <1>6, <2>4
    <3>2. /\ Unmoved(again) /\ Tally(again, 0) /\ Timed(again) /\ HostSame(clock, again)
          /\ again.cur = clock.cur /\ again.queue = clock.queue
      <4>1. CASE clock.pending
        <5>1. again = Talk!Reoffered(clock)
          BY <2>4, <4>1
        <5> HIDE DEF again
        <5> QED
          BY <2>2, <4>1, <5>1, ReofferedDoes
      <4>2. CASE ~clock.pending
        <5>1. again = clock /\ HostSame(clock, clock)
          BY <2>4, <4>2 DEF HostSame
        <5> HIDE DEF again
        <5> QED
          BY <2>2, <5>1
      <4> QED
        BY <4>1, <4>2
    <3> HIDE DEF again
    <3>3. Spoken(m') /\ HostSame(again, m') /\ m'.cur = again.cur /\ m'.queue = again.queue
      BY <3>1, <3>2, CheckedDoes
    <3>4. Heard(m') = Heard(clock) /\ Due(m') = Due(clock)
      BY <3>2, <3>3 DEF Heard, Due, HostSame
    <3> QED
      BY <1>3, <2>3, <3>3, <3>4 DEF TalkInv
  <2>5. CASE ~alive
    <3>1. m' = [clock EXCEPT !.tick = FALSE]
      BY <1>1, <1>6, <2>5
    <3>2. /\ m' \in TalkStates /\ VoiceSame(clock, m') /\ HostSame(clock, m') /\ m'.fetching = clock.fetching
          /\ m'.pending = clock.pending /\ m'.busy = clock.busy /\ m'.shown = clock.shown
          /\ m'.seen = clock.seen /\ ~m'.alive
      BY <2>1, <2>5, <3>1, Zenon DEF TalkStates, VoiceSame, HostSame
    <3>3. OneEach(m') /\ Capped(m') /\ Voiced(m') /\ Timed(m') /\ Tally(m', 0) /\ Clocked(m')
      BY <2>2, <3>2, Zenon DEF Unmoved, OneEach, Capped, Voiced, Timed, Tally, Rands, Clocked, VoiceSame
    <3>4. Heard(m') = Heard(clock) /\ Due(m') = Due(clock)
      BY <3>2 DEF Heard, Due, VoiceSame, HostSame
    <3> QED
      BY <1>3, <2>3, <3>2, <3>3, <3>4 DEF TalkInv, Spoken, Sound, Unmoved
  <2> QED
    BY <2>4, <2>5
<1> QED
  BY <1>5, <1>6

LEMMA TalkIsGood == TalkInv => Talk!PetSpeaks
<1> SUFFICES ASSUME TalkInv PROVE Talk!PetSpeaks
  OBVIOUS
<1>1. m \in TalkStates /\ OneEach(m) /\ Capped(m) /\ Voiced(m) /\ Clocked(m) /\ Tally(m, 0) /\ Timed(m)
  BY TalkParts
<1>2. Talk!OneVoice /\ Talk!NothingForgotten
  BY <1>1, TalkFlags DEF Voiced, Timed, Talk!OneVoice, Talk!NothingForgotten
<1>3. Talk!EventIsHeard
  BY TalkParts DEF Heard, Due, Talk!EventIsHeard, Talk!Flushed
<1> DEFINE waits == {x \in {"fetching", "pending"} : m[x]}
           tips == Talk!Of("random", {m.cur} \cup m.queue)
<1>4. Talk!Cardinality(waits) + Talk!Cardinality(tips) = IF m.busy THEN 1 ELSE 0
  <2>1. m["fetching"] = m.fetching /\ m["pending"] = m.pending
    BY DEF TalkStates
  <2>2. \A x : x \in waits <=> (x = "fetching" /\ m.fetching) \/ (x = "pending" /\ m.pending)
    BY <2>1
  <2>3. \A i : i \in tips <=> i.kind = "random" /\ (i = m.cur \/ i \in m.queue)
    BY DEF Talk!Of
  <2> HIDE DEF waits, tips
  <2>4. CASE m.fetching
    <3>1. ~m.pending /\ m.cur.kind # "random" /\ ~Rands(m) /\ m.busy
      BY <1>1, <2>4, TallyMeans
    <3>2. waits = {"fetching"} /\ tips = {}
      BY <2>2, <2>3, <2>4, <3>1 DEF Rands
    <3>4. Talk!Cardinality(waits) = 1
      BY <3>2, TalkCounts, FS_Singleton
    <3>5. Talk!Cardinality(tips) = 0
      BY <3>2, TalkCounts, FS_EmptySet
    <3> QED
      BY <3>1, <3>4, <3>5
  <2>5. CASE m.pending
    <3>1. ~m.fetching /\ m.cur.kind # "random" /\ ~Rands(m) /\ m.busy
      BY <1>1, <2>5, TallyMeans
    <3>2. waits = {"pending"} /\ tips = {}
      BY <2>2, <2>3, <2>5, <3>1 DEF Rands
    <3>4. Talk!Cardinality(waits) = 1
      BY <3>2, TalkCounts, FS_Singleton
    <3>5. Talk!Cardinality(tips) = 0
      BY <3>2, TalkCounts, FS_EmptySet
    <3> QED
      BY <3>1, <3>4, <3>5
  <2>6. CASE m.cur.kind = "random"
    <3>1. ~m.fetching /\ ~m.pending /\ ~Rands(m) /\ m.busy
      BY <1>1, <2>6, TallyMeans
    <3>2. waits = {} /\ tips = {m.cur}
      BY <2>2, <2>3, <2>6, <3>1 DEF Rands
    <3>4. Talk!Cardinality(waits) = 0
      BY <3>2, TalkCounts, FS_EmptySet
    <3>5. Talk!Cardinality(tips) = 1
      BY <3>2, TalkCounts, FS_Singleton, Zenon
    <3> QED
      BY <3>1, <3>4, <3>5
  <2>7. CASE Rands(m)
    <3>1. ~m.fetching /\ ~m.pending /\ m.cur.kind # "random" /\ m.busy
      BY <1>1, <2>7, TallyMeans
    <3>2. PICK i \in m.queue : i.kind = "random"
      BY <2>7 DEF Rands
    <3>3. waits = {} /\ tips = {i}
      BY <1>1, <2>2, <2>3, <3>1, <3>2 DEF OneEach
    <3>4. Talk!Cardinality(waits) = 0
      BY <3>3, TalkCounts, FS_EmptySet
    <3>5. Talk!Cardinality(tips) = 1
      BY <3>3, TalkCounts, FS_Singleton, Zenon
    <3> QED
      BY <3>1, <3>4, <3>5
  <2>8. CASE ~m.fetching /\ ~m.pending /\ m.cur.kind # "random" /\ ~Rands(m)
    <3>1. ~m.busy
      BY <1>1, <2>8, TallyMeans
    <3>2. waits = {} /\ tips = {}
      BY <2>2, <2>3, <2>8 DEF Rands
    <3> QED
      BY <3>1, <3>2, TalkCounts, FS_EmptySet
  <2> QED
    BY <2>4, <2>5, <2>6, <2>7, <2>8
<1>5. Talk!RoundsClose
  BY <1>1, <1>4 DEF Clocked, Talk!RoundsClose
<1>6. Talk!CapIsHonest
  <2> DEFINE here == Talk!Of("random", {m.cur})
  <2>1. Talk!Cardinality(here) = One(m.cur.kind = "random")
    <3>1. CASE m.cur.kind = "random"
      <4>1. here = {m.cur}
        BY <3>1 DEF Talk!Of
      <4> QED
        BY <3>1, <4>1, TalkCounts, FS_Singleton, Zenon DEF One
    <3>2. CASE m.cur.kind # "random"
      <4>1. here = {}
        BY <3>2 DEF Talk!Of
      <4> QED
        BY <3>2, <4>1, TalkCounts, FS_EmptySet DEF One
    <3> QED
      BY <3>1, <3>2
  <2> QED
    BY <1>1, <2>1 DEF Capped, Talk!CapIsHonest
<1> QED
  BY <1>2, <1>3, <1>5, <1>6 DEF Talk!PetSpeaks

LEMMA TalkStart == Talk!Init => TalkInv
<1> SUFFICES ASSUME Talk!Init PROVE TalkInv
  OBVIOUS
<1>1. /\ m \in TalkStates /\ m.cur = Talk!None /\ m.queue = {} /\ m.up = {} /\ ~m.timer
      /\ ~m.alive /\ ~m.busy /\ ~m.fetching /\ ~m.pending /\ m.tip = 0 /\ m.shown = 0 /\ m.seen = 0
  BY DEF Talk!Init, TalkStates
<1>2. m.cur.kind = "none"
  BY <1>1, WordKinds
<1>3. OneEach(m) /\ Capped(m) /\ Voiced(m) /\ Clocked(m) /\ Timed(m) /\ ~Rands(m)
  BY <1>1, <1>2 DEF OneEach, Capped, Voiced, Clocked, Timed, Rands, One
<1>4. Tally(m, 0)
  BY <1>1, <1>2, <1>3, TallyMeans
<1>5. Heard(m) = {} /\ Due(m) = {}
  BY <1>1, <1>2 DEF Heard, Due
<1> QED
  BY <1>1, <1>3, <1>4, <1>5 DEF TalkInv, Spoken, Sound, Unmoved

LEMMA TalkStep == TalkInv /\ Talk!Next => TalkInv'
BY TimerFiresKeeps, GapFiresKeeps, HoldsKeeps, AgesKeeps, CuesKeeps, TipChangesKeeps, TicksKeeps,
   FetchedKeeps, ClosesTipKeeps, ActivityKeeps, SwitchesKeeps, WindowTalkKeeps, TalkRendersKeeps
   DEF Talk!Next

-----------------------------------------------------------------------------
(* What the pages show *)

Pairs == [Page!Fields -> Int]
Edits == [id : 1 .. MaxChanges, field : Page!Fields, value : Nat, done : BOOLEAN, page : {"models", "settings"}]
PageStates ==
  [kind : {"status", "switches", "models"}, view : {"none", "loading", "hidden", "models", "settings"},
   views : Int, made : Nat, truth : Pairs, data : Pairs, store : Pairs, fetch : Pairs, pushes : Seq(Int),
   behind : BOOLEAN, changes : SUBSET Edits, prev : [1 .. MaxChanges -> Pairs], refreshing : BOOLEAN,
   error : BOOLEAN, untold : SUBSET {"models", "settings"}, back : BOOLEAN]

\* The last status that came before the pushes on their way.
Base(q) == q.truth.first - Len(q.pushes)
IsMounted(q) == q.view \in {"hidden", "models", "settings"}

\* The status: the pushes are the states that followed, what is shown is none of them, and a
\* fetch read with no push on its way is as new as what was pushed.
StatusTold(q) ==
  /\ q.view # "settings" /\ q.changes = {} /\ ~q.error /\ q.untold = {} /\ ~q.refreshing
  /\ q.truth = Page!Status(q.truth.first) /\ Base(q) >= 0
  /\ \A i \in 1 .. Len(q.pushes) : q.pushes[i] = Base(q) + i
  /\ ~IsMounted(q) => q.pushes = <<>>
  /\ q.data = Page!Unread \/ q.data.first <= Base(q)
  /\ IsMounted(q) =>
       /\ q.data # Page!Unread
       /\ q.fetch = Page!Idle => q.data = Page!Status(Base(q))
       /\ q.fetch \notin {Page!Idle, Page!Asked} =>
            IF q.behind THEN q.pushes # <<>> ELSE q.fetch = Page!Status(Base(q))

\* The switches: while no change is under way, what was fetched is the truth.
SwitchesTold(q) ==
  /\ q.view = "models" /\ q.pushes = <<>> /\ q.untold = {} /\ ~q.refreshing
  /\ q.changes = {} /\ q.fetch \notin {Page!Idle, Page!Asked} => q.fetch = q.truth
  /\ q.changes = {} /\ q.fetch = Page!Idle /\ ~q.error => q.data = q.truth

\* The models: what is shown differs from the truth only while the list is asked for, and what
\* the store holds of a field only where the answer will change what is shown.
ModelsTold(q) ==
  /\ q.view \in {"models", "settings"} /\ q.pushes = <<>> /\ ~q.error
  /\ q.fetch \in {Page!Idle, Page!Asked}
  /\ q.fetch = Page!Idle /\ "models" \notin q.untold => q.data = q.truth
  /\ q.data = Page!Unread => q.fetch = Page!Asked
  /\ q.view = "settings" /\ q.store = Page!Unread => q.data = Page!Unread
  /\ q.view = "settings" /\ q.untold = {} =>
       \A f \in Page!Fields : \/ q.store[f] = q.truth[f]
                              \/ q.fetch = Page!Asked /\ q.data[f] # q.truth[f]

Told(q) ==
  /\ q \in PageStates /\ q.truth.first >= 0 /\ q.truth.second >= 0 /\ ~q.back
  /\ q.kind = "status"   => StatusTold(q)
  /\ q.kind = "switches" => SwitchesTold(q)
  /\ q.kind = "models"   => ModelsTold(q)
PageInv == Told(m)

LEMMA PairWords ==
  /\ Page!Unread \in Pairs /\ Page!Idle \in Pairs /\ Page!Asked \in Pairs
  /\ Page!Idle # Page!Asked
  /\ \A p \in Pairs : p.first >= 0 => p # Page!Unread /\ p # Page!Idle /\ p # Page!Asked
  /\ \A f \in Page!Fields : Page!Unread[f] = -1
  /\ \A n \in Int : Page!Status(n) \in Pairs /\ Page!Status(n).first = n /\ Page!Status(n).second = 0
  /\ \A p \in Pairs : p.first \in Int /\ p.second \in Int /\ p.first = p["first"] /\ p.second = p["second"]
  /\ Page!Fields = {"first", "second"}
BY DEF Pairs, Page!Unread, Page!Idle, Page!Asked, Page!Status, Page!Fields

LEMMA PairSet ==
  ASSUME NEW p \in Pairs, NEW f \in Page!Fields, NEW v \in Int
  PROVE  LET t == [p EXCEPT ![f] = v] IN
           t \in Pairs /\ t[f] = v /\ \A g \in Page!Fields : g # f => t[g] = p[g]
BY DEF Pairs, Page!Fields

LEMMA PairSame == \A p, q \in Pairs : (\A f \in Page!Fields : p[f] = q[f]) => p = q
BY DEF Pairs

LEMMA PageFields ==
  ASSUME NEW q \in PageStates
  PROVE  /\ q.kind \in {"status", "switches", "models"}
         /\ q.view \in {"none", "loading", "hidden", "models", "settings"}
         /\ q.views \in Int /\ q.made \in Nat /\ q.truth \in Pairs /\ q.data \in Pairs /\ q.store \in Pairs
         /\ q.fetch \in Pairs /\ q.pushes \in Seq(Int) /\ Len(q.pushes) \in Nat /\ q.behind \in BOOLEAN
         /\ q.changes \in SUBSET Edits /\ q.prev \in [1 .. MaxChanges -> Pairs]
         /\ q.refreshing \in BOOLEAN /\ q.error \in BOOLEAN /\ q.untold \in SUBSET {"models", "settings"}
         /\ q.back \in BOOLEAN /\ q.truth.first \in Int /\ q.truth.second \in Int /\ q.data.first \in Int
BY PairWords DEF PageStates

\* Fields that the cache leaves alone.
PageSame(q, t) ==
  /\ t.kind = q.kind /\ t.view = q.view /\ t.views = q.views /\ t.made = q.made /\ t.truth = q.truth
  /\ t.pushes = q.pushes /\ t.changes = q.changes /\ t.prev = q.prev /\ t.refreshing = q.refreshing
  /\ t.untold = q.untold
ShownSame(q, t) == t.data = q.data /\ t.store = q.store /\ t.error = q.error /\ t.back = q.back

LEMMA CancelDoes ==
  ASSUME NEW q \in PageStates
  PROVE  LET t == Page!Cancel(q) IN
           t \in PageStates /\ PageSame(q, t) /\ ShownSame(q, t) /\ t.fetch = Page!Idle /\ t.behind = q.behind
BY PairWords, Zenon DEF PageStates, PageSame, ShownSame, Page!Cancel

LEMMA AnewDoes ==
  ASSUME NEW q \in PageStates
  PROVE  LET t == Page!Anew(q) IN
           t \in PageStates /\ PageSame(q, t) /\ ShownSame(q, t) /\ t.fetch = Page!Asked /\ ~t.behind
BY PairWords, Zenon DEF PageStates, PageSame, ShownSame, Page!Anew

LEMMA AskDoes ==
  ASSUME NEW q \in PageStates
  PROVE  LET t == Page!Ask(q) IN
           /\ t \in PageStates /\ PageSame(q, t) /\ ShownSame(q, t)
           /\ IF q.fetch = Page!Idle THEN t.fetch = Page!Asked ELSE t.fetch = q.fetch /\ t.behind = q.behind
<1>1. CASE q.fetch = Page!Idle
  <2>1. Page!Ask(q) = Page!Anew(q)
    BY <1>1 DEF Page!Ask, Page!Anew
  <2> QED
    BY <1>1, <2>1, AnewDoes
<1>2. CASE q.fetch # Page!Idle
  <2>1. Page!Ask(q) = q
    BY <1>2 DEF Page!Ask
  <2> QED
    BY <1>2, <2>1 DEF PageSame, ShownSame
<1> QED
  BY <1>1, <1>2

LEMMA PutDoes ==
  ASSUME NEW q \in PageStates, NEW v \in Pairs
  PROVE  LET t == Page!Put(q, v) IN
           /\ t \in PageStates /\ PageSame(q, t) /\ t.fetch = q.fetch /\ t.behind = q.behind
           /\ t.data = v /\ ~t.error
           /\ (t.back <=> q.back \/ (q.kind = "status" /\ v.first < q.data.first))
           /\ t.store = IF q.kind = "models" /\ q.view = "settings" /\ v # q.data THEN v ELSE q.store
<1> DEFINE b == q.back \/ (q.kind = "status" /\ v.first < q.data.first)
           st == IF q.kind = "models" /\ q.view = "settings" /\ v # q.data THEN v ELSE q.store
           no == FALSE
<1>1. b \in BOOLEAN /\ st \in Pairs /\ no \in BOOLEAN /\ ~no
  BY PageFields
<1>2. Page!Put(q, v) = [q EXCEPT !.data = v, !.error = no, !.back = b, !.store = st]
  BY DEF Page!Put
<1>3. /\ b <=> q.back \/ (q.kind = "status" /\ v.first < q.data.first)
      /\ st = IF q.kind = "models" /\ q.view = "settings" /\ v # q.data THEN v ELSE q.store
  OBVIOUS
<1> HIDE DEF b, st, no
<1>4. LET t == [q EXCEPT !.data = v, !.error = no, !.back = b, !.store = st] IN
        /\ t \in PageStates /\ PageSame(q, t) /\ t.fetch = q.fetch /\ t.behind = q.behind
        /\ t.data = v /\ t.error = no /\ t.back = b /\ t.store = st
  BY <1>1, Zenon DEF PageStates, PageSame
<1> QED
  BY <1>1, <1>2, <1>3, <1>4

\* A page with nothing on its way shows the truth.
LEMMA PageIsGood == PageInv => Page!PagesAreHonest
<1> SUFFICES ASSUME PageInv PROVE Page!PagesAreHonest
  OBVIOUS
<1>1. m \in PageStates /\ m.truth \in Pairs /\ m.store \in Pairs /\ m.data \in Pairs /\ m.truth.first \in Int
  BY PageFields DEF PageInv, Told
<1>2. ASSUME Page!Mounted, m.fetch = Page!Idle, m.pushes = <<>>, m.changes = {}, ~m.error,
             "models" \notin m.untold
      PROVE  m.data = m.truth
  <2>1. CASE m.kind = "status"
    <3>1. Base(m) = m.truth.first
      BY <1>1, <1>2 DEF Base
    <3>2. StatusTold(m) /\ IsMounted(m)
      BY <1>2, <2>1 DEF PageInv, Told, IsMounted, Page!Mounted
    <3> QED
      BY <1>2, <3>1, <3>2 DEF StatusTold
  <2>2. CASE m.kind = "switches"
    BY <1>2, <2>2 DEF PageInv, Told, SwitchesTold
  <2>3. CASE m.kind = "models"
    BY <1>2, <2>3 DEF PageInv, Told, ModelsTold
  <2> QED
    BY <1>1, <2>1, <2>2, <2>3, PageFields
<1>3. ASSUME m.view = "settings", m.fetch = Page!Idle, m.untold = {}
      PROVE  m.store = m.truth
  <2>1. m.kind = "models"
    BY <1>1, <1>3, PageFields DEF PageInv, Told, StatusTold, SwitchesTold
  <2>2. \A f \in Page!Fields : m.store[f] = m.truth[f]
    BY <1>3, <2>1, PairWords DEF PageInv, Told, ModelsTold
  <2> QED
    BY <1>1, <2>2, PairSame
<1>4. Page!QuietIsTrue
  BY <1>2, <1>3 DEF Page!QuietIsTrue
<1> QED
  BY <1>4 DEF PageInv, Told, Page!PagesAreHonest, Page!StatusGoesForward

LEMMA PageStart == Page!Init => PageInv
<1> SUFFICES ASSUME Page!Init PROVE PageInv
  OBVIOUS
<1>1. /\ m \in PageStates /\ m.truth = Page!Status(0) /\ m.data = Page!Unread /\ m.store = Page!Unread
      /\ m.pushes = <<>> /\ m.changes = {} /\ ~m.refreshing /\ ~m.error /\ m.untold = {} /\ ~m.back
      /\ IF m.kind = "status" THEN m.view = "loading" /\ m.fetch = Page!Idle
         ELSE m.view = "models" /\ m.fetch = Page!Asked
  <2>1. PICK kind \in {"status", "switches", "models"} :
          m = [kind |-> kind, view |-> IF kind = "status" THEN "loading" ELSE "models", views |-> 0, made |-> 0,
               truth |-> Page!Status(0), data |-> Page!Unread, store |-> Page!Unread,
               fetch |-> IF kind = "status" THEN Page!Idle ELSE Page!Asked, pushes |-> <<>>, behind |-> FALSE,
               changes |-> {}, prev |-> [i \in 1 .. MaxChanges |-> Page!Unread], refreshing |-> FALSE,
               error |-> FALSE, untold |-> {}, back |-> FALSE]
    BY Zenon DEF Page!Init
  <2>2. [i \in 1 .. MaxChanges |-> Page!Unread] \in [1 .. MaxChanges -> Pairs] /\ Page!Status(0) \in Pairs
    BY PairWords
  <2> QED
    BY <2>1, <2>2, PairWords DEF PageStates
<1>2. m.truth.first = 0 /\ m.truth.second = 0
  BY <1>1, PairWords
<1>3. m.kind = "status" => StatusTold(m)
  BY <1>1, <1>2 DEF StatusTold, IsMounted, Base
<1>4. m.kind = "switches" => SwitchesTold(m)
  BY <1>1, PairWords DEF SwitchesTold
<1>5. m.kind = "models" => ModelsTold(m)
  BY <1>1, PairWords DEF ModelsTold
<1> QED
  BY <1>1, <1>2, <1>3, <1>4, <1>5 DEF PageInv, Told

\* To ask anew is always right.
LEMMA AskedIsTold ==
  ASSUME NEW q, Told(q), NEW t \in PageStates, PageSame(q, t), ShownSame(q, t), t.fetch = Page!Asked
  PROVE  Told(t)
<1>1. q \in PageStates
  BY DEF Told
<1>2. CASE q.kind = "status"
  BY <1>2, PairWords DEF Told, StatusTold, Base, IsMounted, PageSame, ShownSame
<1>3. CASE q.kind = "switches"
  BY <1>3, PairWords DEF Told, SwitchesTold, PageSame, ShownSame
<1>4. CASE q.kind = "models"
  BY <1>4, PairWords DEF Told, ModelsTold, PageSame, ShownSame
<1> QED
  BY <1>1, <1>2, <1>3, <1>4, PageFields

LEMMA PollsKeeps == PageInv /\ Page!Polls => PageInv'
<1> SUFFICES ASSUME PageInv, Page!Polls PROVE PageInv'
  OBVIOUS
<1>1. m \in PageStates /\ m' = Page!Ask(m) /\ m.fetch = Page!Idle
  BY DEF PageInv, Told, Page!Polls
<1>2. m' \in PageStates /\ PageSame(m, m') /\ ShownSame(m, m') /\ m'.fetch = Page!Asked
  BY <1>1, AskDoes
<1> QED
  BY <1>2, AskedIsTold DEF PageInv

LEMMA IsReadKeeps == PageInv /\ Page!IsRead => PageInv'
<1> SUFFICES ASSUME PageInv, Page!IsRead PROVE PageInv'
  OBVIOUS
<1> DEFINE late == m.pushes # <<>>
<1>1. m \in PageStates /\ m.kind # "models" /\ m' = [m EXCEPT !.fetch = m.truth, !.behind = late]
  BY DEF PageInv, Told, Page!IsRead
<1>2. late \in BOOLEAN /\ (late <=> m.pushes # <<>>) /\ m.truth \in Pairs
  BY <1>1, PageFields
<1> HIDE DEF late
<1>3. /\ m' \in PageStates /\ PageSame(m, m') /\ ShownSame(m, m') /\ m'.fetch = m.truth /\ m'.behind = late
  BY <1>1, <1>2, Zenon DEF PageStates, PageSame, ShownSame
<1>4. m.truth # Page!Idle /\ m.truth # Page!Asked
  BY <1>2, PairWords DEF PageInv, Told
<1>5. CASE m.kind = "status"
  <2>1. m.pushes = <<>> => Base(m) = m.truth.first
    BY <1>1, PageFields DEF Base
  <2> QED
    BY <1>2, <1>3, <1>4, <1>5, <2>1 DEF PageInv, Told, StatusTold, Base, IsMounted, PageSame, ShownSame
<1>6. CASE m.kind = "switches"
  BY <1>3, <1>4, <1>6 DEF PageInv, Told, SwitchesTold, PageSame, ShownSame
<1> QED
  BY <1>1, <1>5, <1>6, PageFields

\* What is put in place of the cache is not older than what it holds.
LEMMA PageAnsweredKeeps == PageInv /\ Page!Answered => PageInv'
<1> SUFFICES ASSUME PageInv, Page!Answered PROVE PageInv'
  OBVIOUS
<1> DEFINE c == Page!Cancel(m)
<1>1. m \in PageStates /\ m.fetch \notin {Page!Idle, Page!Asked} /\ m' = Page!Put(c, m.fetch)
  BY DEF PageInv, Told, Page!Answered
<1>2. c \in PageStates /\ PageSame(m, c) /\ ShownSame(m, c) /\ c.fetch = Page!Idle /\ m.fetch \in Pairs
  BY <1>1, CancelDoes, PageFields
<1> HIDE DEF c
<1>3. /\ m' \in PageStates /\ PageSame(c, m') /\ m'.fetch = Page!Idle
      /\ m'.data = m.fetch /\ ~m'.error
      /\ (m'.back <=> c.back \/ (c.kind = "status" /\ m.fetch.first < c.data.first))
  BY <1>1, <1>2, PutDoes
<1>4. PageSame(m, m') /\ c.back = m.back /\ c.kind = m.kind /\ c.data = m.data
  BY <1>2, <1>3 DEF PageSame, ShownSame
<1>5. CASE m.kind = "status"
  <2>1. IsMounted(m) /\ ~(m.behind /\ m.pushes # <<>>) /\ StatusTold(m)
    BY <1>5 DEF PageInv, Told, Page!Answered, Page!Mounted, IsMounted
  <2>2. m.fetch = Page!Status(Base(m)) /\ m.data.first <= Base(m)
    BY <1>1, <2>1 DEF StatusTold
  <2>3. Base(m) \in Int /\ m.fetch.first = Base(m) /\ Base(m') = Base(m) /\ m.data.first \in Int
    BY <1>1, <1>4, <2>2, PairWords, PageFields DEF Base, PageSame
  <2>4. ~m'.back
    BY <1>3, <1>4, <2>2, <2>3 DEF PageInv, Told
  <2>45. m.fetch # Page!Unread
    BY <1>2, <2>1, <2>3, PairWords DEF StatusTold
  <2>5. StatusTold(m')
    BY <1>3, <1>4, <1>5, <2>1, <2>2, <2>3, <2>45 DEF StatusTold, Base, IsMounted, PageSame
  <2> QED
    BY <1>3, <1>4, <1>5, <2>4, <2>5 DEF PageInv, Told, PageSame
<1>6. CASE m.kind = "switches"
  <2>1. ~m'.back
    BY <1>3, <1>4, <1>6 DEF PageInv, Told
  <2> QED
    BY <1>1, <1>3, <1>4, <1>6, <2>1, PairWords DEF PageInv, Told, SwitchesTold, PageSame
<1>7. CASE m.kind = "models"
  BY <1>1, <1>7 DEF PageInv, Told, ModelsTold
<1> QED
  BY <1>1, <1>5, <1>6, <1>7, PageFields

LEMMA ModelsAnsweredKeeps == PageInv /\ Page!ModelsAnswered => PageInv'
<1> SUFFICES ASSUME PageInv, Page!ModelsAnswered PROVE PageInv'
  OBVIOUS
<1> DEFINE c == Page!Cancel(m)
<1>1. m \in PageStates /\ m.kind = "models" /\ m' = Page!Put(c, m.truth) /\ m.truth \in Pairs
  BY PageFields DEF PageInv, Told, Page!ModelsAnswered, Page!OnModels
<1>2. c \in PageStates /\ PageSame(m, c) /\ ShownSame(m, c) /\ c.fetch = Page!Idle
  BY <1>1, CancelDoes
<1> HIDE DEF c
<1>3. /\ m' \in PageStates /\ PageSame(c, m') /\ m'.fetch = Page!Idle
      /\ m'.data = m.truth /\ ~m'.error
      /\ (m'.back <=> c.back \/ (c.kind = "status" /\ m.truth.first < c.data.first))
      /\ m'.store = IF c.kind = "models" /\ c.view = "settings" /\ m.truth # c.data THEN m.truth ELSE c.store
  BY <1>1, <1>2, PutDoes
<1>4. /\ PageSame(m, m') /\ ~m'.back
      /\ m'.store = IF m.view = "settings" /\ m.truth # m.data THEN m.truth ELSE m.store
  BY <1>1, <1>2, <1>3 DEF PageSame, ShownSame, PageInv, Told
<1>5. m.truth # Page!Unread
  BY <1>1, PairWords DEF PageInv, Told
<1>6. m'.view = "settings" /\ m'.untold = {} => \A f \in Page!Fields : m'.store[f] = m'.truth[f]
  BY <1>1, <1>4 DEF PageInv, Told, ModelsTold, PageSame
<1>7. m'.view = "settings" => m'.store # Page!Unread
  <2>1. CASE m.truth # m.data
    BY <1>4, <1>5, <2>1 DEF PageSame
  <2>2. CASE m.truth = m.data
    BY <1>1, <1>4, <1>5, <2>2 DEF PageInv, Told, ModelsTold, PageSame
  <2> QED
    BY <2>1, <2>2
<1>8. ModelsTold(m')
  BY <1>1, <1>3, <1>4, <1>5, <1>6, <1>7 DEF PageInv, Told, ModelsTold, PageSame
<1> QED
  BY <1>1, <1>3, <1>4, <1>8 DEF PageInv, Told, PageSame

LEMMA FailsKeeps == PageInv /\ Page!Fails => PageInv'
<1> SUFFICES ASSUME PageInv, Page!Fails PROVE PageInv'
  OBVIOUS
<1> DEFINE c == Page!Cancel(m)
<1>1. m \in PageStates /\ m.kind = "switches" /\ m' = [c EXCEPT !.error = TRUE]
  BY DEF PageInv, Told, Page!Fails
<1>2. c \in PageStates /\ PageSame(m, c) /\ ShownSame(m, c) /\ c.fetch = Page!Idle
  BY <1>1, CancelDoes
<1> HIDE DEF c
<1>3. m' \in PageStates /\ PageSame(c, m') /\ m'.back = c.back /\ m'.fetch = Page!Idle /\ m'.error
  BY <1>1, <1>2, Zenon DEF PageStates, PageSame
<1>4. PageSame(m, m') /\ m'.back = m.back
  BY <1>2, <1>3 DEF PageSame, ShownSame
<1> QED
  BY <1>1, <1>3, <1>4, PairWords DEF PageInv, Told, SwitchesTold, PageSame

LEMMA StatusChangesKeeps == PageInv /\ Page!StatusChanges => PageInv'
<1> SUFFICES ASSUME PageInv, Page!StatusChanges PROVE PageInv'
  OBVIOUS
<1>1. m \in PageStates /\ m.kind = "status" /\ StatusTold(m) /\ m.truth.first \in Int /\ m.pushes \in Seq(Int)
      /\ Len(m.pushes) \in Nat /\ m.truth.first >= 0
  BY PageFields DEF PageInv, Told, Page!StatusChanges
<1> DEFINE n == m.truth.first
           more == IF IsMounted(m) THEN Append(m.pushes, n + 1) ELSE m.pushes
           told == [m.truth EXCEPT !.first = n + 1]
<1>2. m' = [m EXCEPT !.truth = told, !.pushes = more]
  BY DEF Page!StatusChanges, Page!Mounted, IsMounted
<1>3. told = Page!Status(n + 1)
  BY <1>1 DEF StatusTold, Page!Status
<1>35. n \in Int /\ n + 1 \in Int /\ n = m.truth.first /\ n >= 0
  BY <1>1
<1> HIDE DEF n
<1>4. told \in Pairs /\ told.first = n + 1 /\ told.second = 0
  BY <1>3, <1>35, PairWords, Zenon
<1>5. /\ more \in Seq(Int)
      /\ IF IsMounted(m) THEN Len(more) = Len(m.pushes) + 1 ELSE more = m.pushes
  BY <1>1, <1>35
<1>6. \A i \in 1 .. Len(more) : more[i] = n + 1 - Len(more) + i
  <2>1. CASE IsMounted(m)
    <3>1. more = Append(m.pushes, n + 1) /\ \A i \in 1 .. Len(m.pushes) : m.pushes[i] = n - Len(m.pushes) + i
      BY <1>1, <1>35, <2>1 DEF StatusTold, Base
    <3> HIDE DEF more
    <3>2. LET t == Append(m.pushes, n + 1) IN \A i \in 1 .. Len(t) : t[i] = n + 1 - Len(t) + i
      BY <1>1, <1>35, <3>1
    <3> QED
      BY <3>1, <3>2
  <2>2. CASE ~IsMounted(m)
    BY <1>1, <2>2 DEF StatusTold
  <2> QED
    BY <2>1, <2>2
<1>7. IsMounted(m) => more # <<>>
  BY <1>1, <1>5
<1> HIDE DEF told, more
<1>8. /\ m' \in PageStates /\ m'.truth = told /\ m'.pushes = more /\ m'.kind = m.kind /\ m'.view = m.view
      /\ m'.changes = m.changes /\ m'.error = m.error /\ m'.untold = m.untold /\ m'.refreshing = m.refreshing
      /\ m'.data = m.data /\ m'.fetch = m.fetch /\ m'.behind = m.behind /\ m'.back = m.back
  BY <1>1, <1>2, <1>4, <1>5, Zenon DEF PageStates
<1>9. IF IsMounted(m) THEN Base(m') = Base(m) ELSE Base(m') = Base(m) + 1
  <2>1. Base(m') = n + 1 - Len(more) /\ Base(m) = n - Len(m.pushes)
    BY <1>4, <1>8, <1>35 DEF Base
  <2>2. CASE IsMounted(m)
    <3>1. Len(more) = Len(m.pushes) + 1
      BY <1>5, <2>2
    <3>2. n + 1 - Len(more) = n - Len(m.pushes)
      BY <1>1, <1>35, <3>1
    <3> QED
      BY <2>1, <2>2, <3>2
  <2>3. CASE ~IsMounted(m)
    BY <1>1, <1>5, <1>35, <2>1, <2>3
  <2> QED
    BY <2>2, <2>3
<1>95. Base(m') >= 0
  <2>1. Base(m) \in Int /\ Base(m) >= 0
    BY <1>1 DEF Base, StatusTold
  <2> QED
    BY <1>9, <2>1
<1>10. \A i \in 1 .. Len(m'.pushes) : m'.pushes[i] = Base(m') + i
  <2>1. Base(m') = n + 1 - Len(more) /\ m'.pushes = more
    BY <1>4, <1>8, <1>35 DEF Base
  <2> QED
    BY <1>6, <2>1
<1>11. /\ m'.truth = Page!Status(m'.truth.first) /\ m'.truth.first >= 0 /\ m'.truth.second >= 0
       /\ (IsMounted(m') <=> IsMounted(m)) /\ (~IsMounted(m) => m'.pushes = <<>>)
  BY <1>1, <1>3, <1>4, <1>5, <1>8, <1>35 DEF IsMounted, StatusTold
<1>12. m'.data = Page!Unread \/ m'.data.first <= Base(m')
  <2>1. Base(m) \in Int /\ m.data.first \in Int
    BY <1>1, PageFields DEF Base
  <2> QED
    BY <1>1, <1>8, <1>9, <2>1 DEF StatusTold
<1>13. StatusTold(m')
  BY <1>1, <1>7, <1>8, <1>9, <1>95, <1>10, <1>11, <1>12 DEF StatusTold
<1> QED
  BY <1>1, <1>8, <1>11, <1>13 DEF PageInv, Told

LEMMA PushArrivesKeeps == PageInv /\ Page!PushArrives => PageInv'
<1> SUFFICES ASSUME PageInv, Page!PushArrives PROVE PageInv'
  OBVIOUS
<1>1. m \in PageStates /\ m.pushes # <<>> /\ IsMounted(m) /\ m.pushes \in Seq(Int) /\ Len(m.pushes) \in Nat
      /\ m.truth.first \in Int
  BY PageFields DEF PageInv, Told, Page!PushArrives, Page!Mounted, IsMounted
<1>2. m.kind = "status" /\ StatusTold(m)
  BY <1>1, PageFields DEF PageInv, Told, SwitchesTold, ModelsTold
<1> DEFINE left == Tail(m.pushes)
           b == [m EXCEPT !.pushes = left]
           c == Page!Cancel(b)
           v == Page!Status(Head(m.pushes))
<1>3. m' = Page!Put(c, v)
  BY DEF Page!PushArrives, Page!Pushed
<1>4. /\ left \in Seq(Int) /\ Len(left) \in Nat /\ Len(left) = Len(m.pushes) - 1 /\ Head(m.pushes) = m.pushes[1]
      /\ \A i \in 1 .. Len(left) : left[i] = m.pushes[i + 1]
  BY <1>1
<1>5. \A i \in 1 .. Len(m.pushes) : m.pushes[i] = Base(m) + i
  BY <1>2 DEF StatusTold
<1>6. Base(m) \in Int /\ Head(m.pushes) = Base(m) + 1 /\ \A i \in 1 .. Len(left) : left[i] = Base(m) + 1 + i
  BY <1>1, <1>4, <1>5 DEF Base
<1>7. v \in Pairs /\ v.first = Base(m) + 1 /\ v = Page!Status(Base(m) + 1)
  BY <1>6, PairWords
<1> HIDE DEF left, v
<1>8. b \in PageStates /\ b.pushes = left /\ ShownSame(m, b) /\ b.kind = m.kind /\ b.view = m.view
      /\ b.truth = m.truth /\ b.changes = m.changes /\ b.refreshing = m.refreshing /\ b.untold = m.untold
  BY <1>1, <1>4, Zenon DEF PageStates, ShownSame
<1> HIDE DEF b
<1>9. c \in PageStates /\ PageSame(b, c) /\ ShownSame(b, c) /\ c.fetch = Page!Idle
  BY <1>8, CancelDoes
<1> HIDE DEF c
<1>10. /\ m' \in PageStates /\ PageSame(c, m') /\ m'.fetch = Page!Idle /\ m'.data = v /\ ~m'.error
       /\ (m'.back <=> c.back \/ (c.kind = "status" /\ v.first < c.data.first))
  BY <1>3, <1>7, <1>9, PutDoes
<1>11. /\ m'.kind = m.kind /\ m'.view = m.view /\ m'.truth = m.truth /\ m'.changes = m.changes
       /\ m'.refreshing = m.refreshing /\ m'.untold = m.untold /\ m'.pushes = left
       /\ c.data = m.data /\ c.back = m.back
  BY <1>8, <1>9, <1>10 DEF PageSame, ShownSame
<1>12. Base(m') = Base(m) + 1
  <2>1. Base(m') = m.truth.first - Len(left) /\ Base(m) = m.truth.first - Len(m.pushes)
    BY <1>11 DEF Base
  <2> QED
    BY <1>1, <1>4, <2>1
<1>13. ~m'.back
  <2>1. m.data.first <= Base(m) /\ m.data.first \in Int
    BY <1>1, <1>2, PageFields DEF StatusTold
  <2> QED
    BY <1>6, <1>7, <1>10, <1>11, <2>1 DEF PageInv, Told
<1>14. v # Page!Unread
  <2>1. Base(m) + 1 >= 0
    BY <1>2, <1>6 DEF StatusTold
  <2> QED
    BY <1>7, <2>1, PairWords
<1>15. StatusTold(m')
  BY <1>1, <1>2, <1>6, <1>7, <1>10, <1>11, <1>12, <1>14 DEF StatusTold, IsMounted
<1> QED
  BY <1>2, <1>10, <1>11, <1>13, <1>15 DEF PageInv, Told

LEMMA WindowsKeep ==
  PageInv /\ (Page!WindowGoes \/ Page!WindowComes \/ Page!Hydrates \/ Page!Mounts \/ Page!Hides \/ Page!Reveals)
    => PageInv'
<1> SUFFICES ASSUME PageInv, Page!WindowGoes \/ Page!WindowComes \/ Page!Hydrates \/ Page!Mounts \/ Page!Hides
                            \/ Page!Reveals
             PROVE  PageInv'
  OBVIOUS
<1>1. m \in PageStates
  BY DEF PageInv, Told
<1>2. m.kind = "status" /\ StatusTold(m)
  BY <1>1, PageFields DEF PageInv, Told, SwitchesTold, ModelsTold, Page!WindowGoes, Page!WindowComes,
    Page!Hydrates, Page!Mounts, Page!Hides, Page!Reveals
<1>3. CASE Page!WindowGoes
  <2> DEFINE no == <<>>
             n == m.views + 1
  <2>1. no \in Seq(Int) /\ n \in Int /\ no = <<>>
    BY <1>1, PageFields
  <2>2. m' = [m EXCEPT !.view = "none", !.pushes = no, !.data = Page!Unread, !.fetch = Page!Idle, !.views = n]
    BY <1>3 DEF Page!WindowGoes
  <2> HIDE DEF no, n
  <2>3. /\ m' \in PageStates /\ m'.view = "none" /\ m'.pushes = no /\ m'.data = Page!Unread
        /\ m'.kind = m.kind /\ m'.truth = m.truth /\ m'.changes = m.changes /\ m'.refreshing = m.refreshing
        /\ m'.untold = m.untold /\ m'.back = m.back /\ m'.error = m.error
    BY <1>1, <2>1, <2>2, PairWords, Zenon DEF PageStates
  <2>4. Base(m') >= 0 /\ m'.pushes = <<>>
    BY <1>1, <2>1, <2>3, PageFields DEF PageInv, Told, Base
  <2> QED
    BY <1>2, <2>1, <2>3, <2>4 DEF PageInv, Told, StatusTold, IsMounted
<1>4. CASE Page!WindowComes
  <2>1. /\ m' \in PageStates /\ m'.view = "loading" /\ m.view = "none" /\ m'.pushes = m.pushes /\ m'.data = m.data
        /\ m'.kind = m.kind /\ m'.truth = m.truth /\ m'.changes = m.changes /\ m'.refreshing = m.refreshing
        /\ m'.untold = m.untold /\ m'.back = m.back /\ m'.error = m.error
    BY <1>1, <1>4, Zenon DEF PageStates, Page!WindowComes
  <2> QED
    BY <1>2, <2>1 DEF PageInv, Told, StatusTold, IsMounted, Base
<1>5. CASE Page!Hydrates
  <2>1. /\ m' \in PageStates /\ m'.view = "loading" /\ m.view = "loading" /\ m'.pushes = m.pushes
        /\ m'.data = m.truth
        /\ m'.kind = m.kind /\ m'.truth = m.truth /\ m'.changes = m.changes /\ m'.refreshing = m.refreshing
        /\ m'.untold = m.untold /\ m'.back = m.back /\ m'.error = m.error
    BY <1>1, <1>5 DEF PageStates, Page!Hydrates
  <2>2. m'.data.first <= Base(m') /\ Base(m') >= 0 /\ m'.pushes = <<>>
    BY <1>1, <1>2, <2>1, PageFields DEF PageInv, Told, StatusTold, IsMounted, Base
  <2> QED
    BY <1>2, <2>1, <2>2 DEF PageInv, Told, StatusTold, IsMounted
<1>6. CASE Page!Mounts
  <2> DEFINE b == [m EXCEPT !.view = "models"]
  <2>1. m' = Page!Anew(b) /\ m.view = "loading" /\ m.data # Page!Unread
    BY <1>6 DEF Page!Mounts, Page!Mounted1
  <2>2. /\ b \in PageStates /\ b.view = "models" /\ b.pushes = m.pushes /\ b.data = m.data
        /\ b.kind = m.kind /\ b.truth = m.truth /\ b.changes = m.changes /\ b.refreshing = m.refreshing
        /\ b.untold = m.untold /\ b.back = m.back /\ b.error = m.error
    BY <1>1, Zenon DEF PageStates
  <2> HIDE DEF b
  <2>3. m' \in PageStates /\ PageSame(b, m') /\ ShownSame(b, m') /\ m'.fetch = Page!Asked
    BY <2>1, <2>2, AnewDoes
  <2>4. Base(m') = Base(m) /\ m'.pushes = <<>>
    BY <1>2, <2>1, <2>2, <2>3 DEF Base, PageSame, StatusTold, IsMounted
  <2> QED
    BY <1>2, <2>1, <2>2, <2>3, <2>4, PairWords DEF PageInv, Told, StatusTold, IsMounted, PageSame, ShownSame
<1>7. CASE Page!Hides
  <2>1. /\ m' \in PageStates /\ m'.view = "hidden" /\ m.view = "models" /\ m'.pushes = m.pushes /\ m'.data = m.data
        /\ m'.kind = m.kind /\ m'.truth = m.truth /\ m'.changes = m.changes /\ m'.refreshing = m.refreshing
        /\ m'.untold = m.untold /\ m'.back = m.back /\ m'.error = m.error /\ m'.fetch = m.fetch
        /\ m'.behind = m.behind
    BY <1>1, <1>7 DEF PageStates, Page!Hides
  <2> QED
    BY <1>2, <2>1 DEF PageInv, Told, StatusTold, IsMounted, Base
<1>8. CASE Page!Reveals
  <2> DEFINE b == [m EXCEPT !.view = "models"]
  <2>1. m' = Page!Ask(b) /\ m.view = "hidden"
    BY <1>8 DEF Page!Reveals
  <2>2. /\ b \in PageStates /\ b.view = "models" /\ b.pushes = m.pushes /\ b.data = m.data
        /\ b.kind = m.kind /\ b.truth = m.truth /\ b.changes = m.changes /\ b.refreshing = m.refreshing
        /\ b.untold = m.untold /\ b.back = m.back /\ b.error = m.error /\ b.fetch = m.fetch
        /\ b.behind = m.behind
    BY <1>1, Zenon DEF PageStates
  <2> HIDE DEF b
  <2>3. Told(b)
    BY <1>2, <2>1, <2>2 DEF PageInv, Told, StatusTold, IsMounted, Base
  <2>4. /\ m' \in PageStates /\ PageSame(b, m') /\ ShownSame(b, m')
        /\ IF b.fetch = Page!Idle THEN m'.fetch = Page!Asked ELSE m'.fetch = b.fetch /\ m'.behind = b.behind
    BY <2>1, <2>2, AskDoes
  <2>5. CASE b.fetch = Page!Idle
    BY <2>3, <2>4, <2>5, AskedIsTold DEF PageInv
  <2>6. CASE b.fetch # Page!Idle
    BY <1>2, <2>2, <2>3, <2>4, <2>6 DEF PageInv, Told, StatusTold, IsMounted, Base, PageSame, ShownSame
  <2> QED
    BY <2>5, <2>6
<1> QED
  BY <1>3, <1>4, <1>5, <1>6, <1>7, <1>8

\* The bound on the user's changes is a number.
ChangeLimits == MaxChanges \in Nat

LEMMA NextId ==
  ASSUME ChangeLimits, NEW q \in PageStates, q.made < MaxChanges
  PROVE  q.made + 1 \in 1 .. MaxChanges /\ q.made + 1 \in Nat
BY PageFields DEF ChangeLimits

\* A switch changes ahead of its answer.
LEMMA MutatesKeeps ==
  ASSUME ChangeLimits, PageInv, NEW f \in Page!Fields, NEW v \in 0 .. 1, Page!Mutates(f, v)
  PROVE  PageInv'
<1> DEFINE c == Page!Cancel(m)
           new == [m.data EXCEPT ![f] = v]
           p == Page!Put(c, new)
           n == m.made + 1
           edit == [id |-> n, field |-> f, value |-> v, done |-> FALSE, page |-> "models"]
           all == m.changes \cup {edit}
           prev == [m.prev EXCEPT ![n] = m.data]
<1>1. m \in PageStates /\ m.kind = "switches" /\ m.made < MaxChanges
  BY DEF PageInv, Told, Page!Mutates
<1>2. n \in 1 .. MaxChanges /\ n \in Nat /\ v \in Nat /\ v \in Int
  BY <1>1, NextId
<1>3. new \in Pairs
  BY <1>1, <1>2, PageFields, PairSet
<1>4. all \in SUBSET Edits /\ all # {}
  <2> HIDE DEF n
  <2>1. edit \in Edits
    BY <1>2 DEF Edits
  <2> HIDE DEF edit
  <2> QED
    BY <1>1, <2>1, PageFields
<1>5. prev \in [1 .. MaxChanges -> Pairs]
  BY <1>1, <1>2, PageFields
<1>6. c \in PageStates /\ PageSame(m, c) /\ ShownSame(m, c) /\ c.fetch = Page!Idle
  BY <1>1, CancelDoes
<1> HIDE DEF c
<1>7. /\ p \in PageStates /\ PageSame(c, p) /\ p.fetch = c.fetch
      /\ (p.back <=> c.back \/ (c.kind = "status" /\ new.first < c.data.first))
  BY <1>3, <1>6, PutDoes, Zenon
<1> HIDE DEF p
<1>8. PageSame(m, p) /\ ~p.back /\ p.fetch = Page!Idle
  BY <1>1, <1>6, <1>7 DEF PageSame, ShownSame, PageInv, Told
<1>9. m' = [p EXCEPT !.made = n, !.prev = prev, !.changes = all]
  <2>1. m' = [p EXCEPT !.made = @ + 1, !.prev[m.made + 1] = m.data,
                       !.changes = @ \cup {[id |-> m.made + 1, field |-> f, value |-> v, done |-> FALSE,
                                            page |-> "models"]}]
    BY DEF Page!Mutates, p, c
  <2> QED
    BY <1>8, <2>1, Zenon DEF PageSame
<1> HIDE DEF n, prev, all, edit
<1>10. /\ m' \in PageStates /\ m'.kind = p.kind /\ m'.view = p.view /\ m'.truth = p.truth /\ m'.pushes = p.pushes
       /\ m'.changes = all /\ m'.refreshing = p.refreshing /\ m'.untold = p.untold /\ m'.back = p.back
  BY <1>2, <1>4, <1>5, <1>7, <1>9, Zenon DEF PageStates
<1> QED
  BY <1>1, <1>4, <1>8, <1>10 DEF PageInv, Told, SwitchesTold, PageSame

\* The main process makes a change whose answer is then on its way.
LEMMA AppliesKeeps ==
  ASSUME PageInv, NEW c \in m.changes, Page!Applies(c)
  PROVE  PageInv'
<1> DEFINE told == [m.truth EXCEPT ![c.field] = c.value]
           done == [c EXCEPT !.done = TRUE]
           all == (m.changes \ {c}) \cup {done}
<1>1. m \in PageStates /\ m.kind = "switches" /\ m' = [m EXCEPT !.truth = told, !.changes = all]
  BY DEF PageInv, Told, Page!Applies
<1>2. c \in Edits /\ c.field \in Page!Fields /\ c.value \in Nat /\ c.value \in Int
  BY <1>1, PageFields DEF Edits
<1>3. done \in Edits
  BY <1>2, Zenon DEF Edits
<1>4. all \in SUBSET Edits /\ all # {}
  BY <1>1, <1>3, PageFields, Zenon
<1>5. told \in Pairs /\ told.first >= 0 /\ told.second >= 0
  <2>1. told \in Pairs /\ told[c.field] = c.value /\ \A g \in Page!Fields : g # c.field => told[g] = m.truth[g]
    BY <1>1, <1>2, PageFields, PairSet
  <2>2. m.truth["first"] >= 0 /\ m.truth["second"] >= 0
    BY <1>1, PageFields, PairWords DEF PageInv, Told
  <2> HIDE DEF told
  <2>3. told["first"] >= 0 /\ told["second"] >= 0
    BY <1>2, <2>1, <2>2, PairWords
  <2> QED
    BY <2>1, <2>3, PairWords
<1> HIDE DEF told, all
<1>6. /\ m' \in PageStates /\ m'.kind = m.kind /\ m'.view = m.view /\ m'.truth = told /\ m'.pushes = m.pushes
      /\ m'.changes = all /\ m'.refreshing = m.refreshing /\ m'.untold = m.untold /\ m'.back = m.back
  BY <1>1, <1>4, <1>5, Zenon DEF PageStates
<1> QED
  BY <1>1, <1>4, <1>5, <1>6 DEF PageInv, Told, SwitchesTold

LEMMA PageSettlesKeeps ==
  ASSUME PageInv, NEW c \in m.changes, NEW ok \in BOOLEAN, Page!Settles(c, ok)
  PROVE  PageInv'
<1> DEFINE b == [m EXCEPT !.changes = @ \ {c}]
           p == IF ok THEN b ELSE Page!Put(b, m.prev[c.id])
<1>1. m \in PageStates /\ m.kind = "switches" /\ m' = Page!Anew(p)
  BY DEF PageInv, Told, Page!Settles, Page!Settled
<1>2. m.prev[c.id] \in Pairs
  <2>1. c.id \in 1 .. MaxChanges
    BY <1>1, PageFields DEF Edits
  <2> QED
    BY <1>1, <2>1, PageFields, Zenon
<1>3. /\ b \in PageStates /\ b.kind = m.kind /\ b.view = m.view /\ b.truth = m.truth /\ b.pushes = m.pushes
      /\ b.refreshing = m.refreshing /\ b.untold = m.untold /\ b.back = m.back
  BY <1>1, Zenon DEF PageStates
<1> HIDE DEF b
<1>4. p \in PageStates /\ PageSame(b, p) /\ ~p.back
  <2>1. CASE ok
    BY <1>3, <2>1 DEF PageSame, PageInv, Told
  <2>2. CASE ~ok
    <3> DEFINE v == m.prev[c.id]
    <3>1. p = Page!Put(b, v) /\ v \in Pairs
      BY <1>2, <2>2
    <3> HIDE DEF p, v
    <3>2. /\ p \in PageStates /\ PageSame(b, p)
          /\ (p.back <=> b.back \/ (b.kind = "status" /\ v.first < b.data.first))
      BY <1>3, <3>1, PutDoes
    <3> QED
      BY <1>1, <1>3, <3>2 DEF PageInv, Told
  <2> QED
    BY <2>1, <2>2
<1> HIDE DEF p
<1>5. m' \in PageStates /\ PageSame(p, m') /\ ShownSame(p, m') /\ m'.fetch = Page!Asked
  BY <1>1, <1>4, AnewDoes
<1> QED
  BY <1>1, <1>3, <1>4, <1>5, PairWords DEF PageInv, Told, SwitchesTold, PageSame, ShownSame

LEMMA NavigatesKeeps ==
  ASSUME PageInv, NEW page \in {"models", "settings"}, Page!Navigates(page)
  PROVE  PageInv'
<1> DEFINE st == IF page = "settings" /\ m.data # Page!Unread THEN m.data ELSE m.store
<1>1. m \in PageStates /\ m.kind = "models" /\ m' = [m EXCEPT !.view = page, !.store = st]
  BY DEF PageInv, Told, Page!Navigates, Page!OnModels
<1>2. st \in Pairs
  BY <1>1, PageFields
<1>25. st = IF page = "settings" /\ m.data # Page!Unread THEN m.data ELSE m.store
  OBVIOUS
<1> HIDE DEF st
<1>3. /\ m' \in PageStates /\ m'.kind = m.kind /\ m'.view = page /\ m'.truth = m.truth /\ m'.pushes = m.pushes
      /\ m'.error = m.error /\ m'.fetch = m.fetch /\ m'.data = m.data /\ m'.store = st
      /\ m'.untold = m.untold /\ m'.back = m.back
  BY <1>1, <1>2, Zenon DEF PageStates
<1>4. ModelsTold(m) /\ m.truth \in Pairs /\ m.truth["first"] >= 0 /\ m.truth["second"] >= 0
  BY <1>1, PageFields, PairWords DEF PageInv, Told
<1>5. page = "settings" /\ m.untold = {} =>
        \A f \in Page!Fields : \/ st[f] = m.truth[f]
                               \/ m.fetch = Page!Asked /\ m.data[f] # m.truth[f]
  <2> SUFFICES ASSUME page = "settings", m.untold = {}, NEW f \in Page!Fields
               PROVE  st[f] = m.truth[f] \/ (m.fetch = Page!Asked /\ m.data[f] # m.truth[f])
    OBVIOUS
  <2>1. CASE m.data = Page!Unread
    <3>1. m.data[f] # m.truth[f]
      BY <1>4, <2>1, PairWords
    <3> QED
      BY <1>4, <2>1, <3>1 DEF ModelsTold
  <2>2. CASE m.data # Page!Unread
    BY <1>25, <1>4, <2>2 DEF ModelsTold
  <2> QED
    BY <2>1, <2>2
<1>6. ModelsTold(m')
  BY <1>25, <1>3, <1>4, <1>5 DEF ModelsTold
<1> QED
  BY <1>1, <1>3, <1>6 DEF PageInv, Told

LEMMA PageTogglesKeeps ==
  ASSUME ChangeLimits, PageInv, NEW f \in Page!Fields, NEW v \in 0 .. 1, Page!Toggles(f, v)
  PROVE  PageInv'
<1> DEFINE n == m.made + 1
           edit == [id |-> n, field |-> f, value |-> v, done |-> FALSE, page |-> m.view]
           all == m.changes \cup {edit}
<1>1. m \in PageStates /\ m.kind = "models" /\ m.made < MaxChanges /\ m.view \in {"models", "settings"}
  BY DEF PageInv, Told, Page!Toggles, Page!OnModels
<1>2. n \in 1 .. MaxChanges /\ n \in Nat /\ v \in Nat
  BY <1>1, NextId
<1>3. all \in SUBSET Edits
  <2> HIDE DEF n
  <2>1. edit \in Edits
    BY <1>1, <1>2 DEF Edits
  <2> HIDE DEF edit
  <2> QED
    BY <1>1, <2>1, PageFields
<1>4. m' = [m EXCEPT !.made = n, !.changes = all]
  BY DEF Page!Toggles
<1> HIDE DEF n, all
<1>5. /\ m' \in PageStates /\ m'.kind = m.kind /\ m'.view = m.view /\ m'.truth = m.truth /\ m'.pushes = m.pushes
      /\ m'.error = m.error /\ m'.fetch = m.fetch /\ m'.data = m.data /\ m'.store = m.store
      /\ m'.untold = m.untold /\ m'.back = m.back
  BY <1>1, <1>2, <1>3, <1>4, Zenon DEF PageStates
<1> QED
  BY <1>1, <1>5 DEF PageInv, Told, ModelsTold

\* A change that was made changes the truth; its success changes the store with it.
LEMMA ToggleAnsweredKeeps ==
  ASSUME PageInv, NEW c \in m.changes, NEW made \in BOOLEAN, NEW ok \in BOOLEAN,
         Page!ToggleAnswered(c, made, ok)
  PROVE  PageInv'
<1> DEFINE val == IF made THEN c.value ELSE m.truth[c.field]
           told == [m.truth EXCEPT ![c.field] = val]
           left == m.changes \ {c}
           q == [m EXCEPT !.changes = left, !.truth = told]
           st == Page!InStore(q, c)
           a == [q EXCEPT !.store = st]
           un == IF made THEN m.untold \cup {c.page} ELSE m.untold
           s == [q EXCEPT !.untold = un]
<1>1. m \in PageStates /\ m.kind = "models" /\ ModelsTold(m) /\ (ok => made) /\ m.truth \in Pairs
  BY PageFields DEF PageInv, Told, Page!ToggleAnswered, Page!OnModels
<1>2. c \in Edits /\ c.field \in Page!Fields /\ c.value \in Nat /\ c.page \in {"models", "settings"}
  BY <1>1, PageFields DEF Edits
<1>3. m.truth[c.field] \in Int /\ val \in Int /\ m.truth["first"] >= 0 /\ m.truth["second"] >= 0
  BY <1>1, <1>2, PairWords, PageFields DEF PageInv, Told
<1>4. [m EXCEPT !.changes = @ \ {c}, !.truth[c.field] = IF made THEN c.value ELSE @] = q
  OBVIOUS
<1>5. m' = IF ok THEN Page!Anew(a) ELSE IF c.page = "settings" THEN Page!Anew(s) ELSE s
  <2>1. m' = CASE ok -> Page!Toggled(q, c)
               [] OTHER -> LET x == [q EXCEPT !.untold = IF made THEN @ \cup {c.page} ELSE @]
                           IN IF c.page = "settings" THEN Page!Anew(x) ELSE x
    BY <1>4 DEF Page!ToggleAnswered
  <2>2. q.untold = m.untold
    BY <1>1 DEF PageStates
  <2>3. [q EXCEPT !.untold = IF made THEN @ \cup {c.page} ELSE @] = s
    BY <2>2
  <2>4. Page!Toggled(q, c) = Page!Anew(a)
    BY DEF Page!Toggled
  <2> HIDE DEF q, a, s
  <2> QED
    BY <2>1, <2>3, <2>4
<1>6. /\ told \in Pairs /\ told[c.field] = val /\ \A g \in Page!Fields : g # c.field => told[g] = m.truth[g]
  BY <1>1, <1>2, <1>3, PairSet
<1>65. told["first"] >= 0 /\ told["second"] >= 0 /\ (~made => told = m.truth)
  <2> HIDE DEF told
  <2>1. val >= 0
    BY <1>2, <1>3, PairWords
  <2>2. told["first"] >= 0 /\ told["second"] >= 0
    BY <1>2, <1>3, <1>6, <2>1, PairWords
  <2>3. ~made => \A g \in Page!Fields : told[g] = m.truth[g]
    BY <1>6
  <2> QED
    BY <1>1, <1>6, <2>2, <2>3, PairSame
<1> HIDE DEF told, val
<1>7. /\ q \in PageStates /\ q.kind = m.kind /\ q.view = m.view /\ q.truth = told /\ q.pushes = m.pushes
      /\ q.error = m.error /\ q.fetch = m.fetch /\ q.data = m.data /\ q.store = m.store
      /\ q.untold = m.untold /\ q.back = m.back
  <2>1. left \in SUBSET Edits
    BY <1>1, PageFields
  <2> HIDE DEF left
  <2> QED
    BY <1>1, <1>6, <2>1, Zenon DEF PageStates
<1>8. told.first >= 0 /\ told.second >= 0
  BY <1>6, <1>65, PairWords
<1>9. CASE ok
  <2>1. made /\ m' = Page!Anew(a)
    BY <1>1, <1>5, <1>9
  <2> HIDE DEF q
  <2>2. st = IF m.store = Page!Unread THEN m.store ELSE [m.store EXCEPT ![c.field] = c.value]
    BY <1>7 DEF Page!InStore
  <2>3. /\ st \in Pairs
        /\ m.store = Page!Unread => st = Page!Unread
        /\ m.store # Page!Unread => /\ st[c.field] = c.value
                                    /\ \A g \in Page!Fields : g # c.field => st[g] = m.store[g]
    BY <1>1, <1>2, <2>2, PageFields, PairSet
  <2> HIDE DEF st
  <2>4. m.store # Page!Unread => st # Page!Unread \/ m.store[IF c.field = "first" THEN "second" ELSE "first"] = -1
    BY <1>2, <2>3, PairWords
  <2>5. st = Page!Unread => m.store = Page!Unread
    BY <1>2, <2>3, PairWords
  <2>6. /\ a \in PageStates /\ a.kind = m.kind /\ a.view = m.view /\ a.truth = told /\ a.pushes = m.pushes
        /\ a.error = m.error /\ a.data = m.data /\ a.store = st
        /\ a.untold = m.untold /\ a.back = m.back
    BY <1>7, <2>3 DEF PageStates
  <2> HIDE DEF a
  <2>7. m' \in PageStates /\ PageSame(a, m') /\ ShownSame(a, m') /\ m'.fetch = Page!Asked
    BY <2>1, <2>6, AnewDoes
  <2>8. m.view = "settings" /\ m.untold = {} =>
          \A g \in Page!Fields : st[g] = told[g] \/ m.data[g] # told[g]
    <3> SUFFICES ASSUME m.view = "settings", m.untold = {}, NEW g \in Page!Fields
                 PROVE  st[g] = told[g] \/ m.data[g] # told[g]
      OBVIOUS
    <3>1. CASE m.store = Page!Unread
      <4>1. m.data[g] = -1 /\ told[g] >= 0
        BY <1>1, <1>65, <3>1, PairWords DEF ModelsTold
      <4>2. -1 # told[g]
        BY <4>1
      <4> QED
        BY <4>1, <4>2
    <3>2. CASE m.store # Page!Unread /\ g = c.field
      BY <1>6, <2>1, <2>3, <3>2 DEF val
    <3>3. CASE m.store # Page!Unread /\ g # c.field
      BY <1>1, <1>6, <2>3, <3>3 DEF ModelsTold
    <3> QED
      BY <3>1, <3>2, <3>3
  <2>9. ModelsTold(m')
    BY <1>1, <2>5, <2>6, <2>7, <2>8, PairWords DEF ModelsTold, PageSame, ShownSame
  <2> QED
    BY <1>1, <1>8, <2>6, <2>7, <2>9 DEF PageInv, Told, PageSame, ShownSame
<1>10. CASE ~ok
  <2>1. m' = IF c.page = "settings" THEN Page!Anew(s) ELSE s
    BY <1>5, <1>10
  <2>2. un \in SUBSET {"models", "settings"} /\ (made => c.page \in un) /\ m.untold \subseteq un /\ (~made => un = m.untold)
    BY <1>1, <1>2, PageFields
  <2> HIDE DEF q, un
  <2>3. /\ s \in PageStates /\ s.kind = m.kind /\ s.view = m.view /\ s.truth = told /\ s.pushes = m.pushes
        /\ s.error = m.error /\ s.fetch = m.fetch /\ s.data = m.data /\ s.store = m.store
        /\ s.untold = un /\ s.back = m.back
    BY <1>7, <2>2, Zenon DEF PageStates
  <2> HIDE DEF s
  <2>4. CASE c.page = "settings"
    <3>1. m' \in PageStates /\ PageSame(s, m') /\ ShownSame(s, m') /\ m'.fetch = Page!Asked
      BY <2>1, <2>3, <2>4, AnewDoes
    <3>15. un = {} => m.untold = {} /\ told = m.truth
      BY <1>65, <2>2
    <3>2. ModelsTold(m')
      BY <1>1, <2>3, <3>1, <3>15, PairWords DEF ModelsTold, PageSame, ShownSame
    <3> QED
      BY <1>1, <1>8, <2>3, <3>1, <3>2 DEF PageInv, Told, PageSame, ShownSame
  <2>5. CASE c.page # "settings"
    <3>1. m' = s /\ c.page = "models"
      BY <1>2, <2>1, <2>5
    <3>2. ModelsTold(m')
      BY <1>1, <1>65, <2>2, <2>3, <3>1 DEF ModelsTold
    <3> QED
      BY <1>1, <1>8, <2>3, <3>1, <3>2 DEF PageInv, Told
  <2> QED
    BY <2>4, <2>5
<1> QED
  BY <1>9, <1>10

LEMMA BulkTogglesKeeps ==
  ASSUME PageInv, NEW v \in 0 .. 1, NEW made \in BOOLEAN, NEW ok \in BOOLEAN, Page!BulkToggles(v, made, ok)
  PROVE  PageInv'
<1> DEFINE all == [f \in Page!Fields |-> v]
           n == m.made + 1
           told == IF made THEN all ELSE m.truth
           q == [m EXCEPT !.made = n, !.truth = told]
           g == [q EXCEPT !.store = all]
           p == Page!Put(g, all)
           un == IF made THEN m.untold \cup {"models"} ELSE m.untold
<1>1. m \in PageStates /\ m.kind = "models" /\ ModelsTold(m) /\ (ok => made) /\ m.view = "models"
      /\ m.data # Page!Unread
  BY DEF PageInv, Told, Page!BulkToggles, Page!OnModels
<1>2. all \in Pairs /\ all["first"] >= 0 /\ all["second"] >= 0
  BY DEF Pairs, Page!Fields
<1>3. told \in Pairs /\ told.first >= 0 /\ told.second >= 0 /\ n \in Nat
  BY <1>1, <1>2, PairWords, PageFields DEF PageInv, Told
<1>4. /\ ok => m' = Page!Anew(p)
      /\ ~ok => m' = [q EXCEPT !.untold = IF made THEN @ \cup {"models"} ELSE @]
  BY DEF Page!BulkToggles
<1>5. made \/ told = m.truth
  OBVIOUS
<1> HIDE DEF told, n
<1>6. /\ q \in PageStates /\ q.kind = m.kind /\ q.view = m.view /\ q.truth = told /\ q.pushes = m.pushes
      /\ q.error = m.error /\ q.fetch = m.fetch /\ q.data = m.data /\ q.store = m.store
      /\ q.untold = m.untold /\ q.back = m.back
  BY <1>1, <1>3, Zenon DEF PageStates
<1>7. CASE ok
  <2> HIDE DEF q, all
  <2>1. /\ g \in PageStates /\ g.kind = m.kind /\ g.view = m.view /\ g.truth = told /\ g.pushes = m.pushes
        /\ g.error = m.error /\ g.data = m.data /\ g.untold = m.untold /\ g.back = m.back
    BY <1>2, <1>6 DEF PageStates
  <2> HIDE DEF g
  <2>2. /\ p \in PageStates /\ PageSame(g, p) /\ p.data = all /\ ~p.error
        /\ (p.back <=> g.back \/ (g.kind = "status" /\ all.first < g.data.first))
    BY <1>2, <2>1, PutDoes
  <2> HIDE DEF p
  <2>3. m' \in PageStates /\ PageSame(p, m') /\ ShownSame(p, m') /\ m'.fetch = Page!Asked
    BY <1>4, <1>7, <2>2, AnewDoes
  <2>4. ~m'.back
    BY <1>1, <2>1, <2>2, <2>3 DEF PageSame, ShownSame, PageInv, Told
  <2>5. ModelsTold(m')
    BY <1>1, <2>1, <2>2, <2>3, PairWords DEF ModelsTold, PageSame, ShownSame
  <2> QED
    BY <1>1, <1>3, <2>1, <2>2, <2>3, <2>4, <2>5 DEF PageInv, Told, PageSame
<1>8. CASE ~ok
  <2>1. m' = [q EXCEPT !.untold = un]
    BY <1>4, <1>6, <1>8
  <2>2. un \in SUBSET {"models", "settings"} /\ (made => "models" \in un) /\ (~made => un = m.untold)
    BY <1>1, PageFields
  <2> HIDE DEF q, un
  <2>3. /\ m' \in PageStates /\ m'.kind = m.kind /\ m'.view = m.view /\ m'.truth = told /\ m'.pushes = m.pushes
        /\ m'.error = m.error /\ m'.fetch = m.fetch /\ m'.data = m.data /\ m'.store = m.store
        /\ m'.untold = un /\ m'.back = m.back
    BY <1>6, <2>1, <2>2 DEF PageStates
  <2>4. ModelsTold(m')
    BY <1>1, <1>5, <2>2, <2>3 DEF ModelsTold
  <2> QED
    BY <1>1, <1>3, <2>3, <2>4 DEF PageInv, Told
<1> QED
  BY <1>7, <1>8

LEMMA RefreshesKeep ==
  ASSUME PageInv, Page!Refreshes \/ \E ok \in BOOLEAN : Page!Refreshed(ok)
  PROVE  PageInv'
<1>1. m \in PageStates
  BY DEF PageInv, Told
<1>2. CASE Page!Refreshes
  <2> DEFINE n == m.made + 1
  <2>1. n \in Nat /\ m' = [m EXCEPT !.refreshing = TRUE, !.made = n] /\ m.kind = "models"
    BY <1>1, <1>2, PageFields DEF Page!Refreshes, Page!OnModels
  <2> HIDE DEF n
  <2>2. /\ m' \in PageStates /\ m'.kind = m.kind /\ m'.view = m.view /\ m'.truth = m.truth /\ m'.pushes = m.pushes
        /\ m'.error = m.error /\ m'.fetch = m.fetch /\ m'.data = m.data /\ m'.store = m.store
        /\ m'.untold = m.untold /\ m'.back = m.back
    BY <1>1, <2>1, Zenon DEF PageStates
  <2> QED
    BY <2>1, <2>2 DEF PageInv, Told, ModelsTold
<1>3. ASSUME NEW ok \in BOOLEAN, Page!Refreshed(ok) PROVE PageInv'
  <2> DEFINE st == IF ok THEN m.truth ELSE m.store
             b == [m EXCEPT !.refreshing = FALSE, !.store = st]
  <2>1. m.refreshing /\ m' = Page!Anew(b)
    BY <1>3, Zenon DEF Page!Refreshed
  <2>2. m.kind = "models" /\ ModelsTold(m)
    BY <1>1, <2>1, PageFields DEF PageInv, Told, StatusTold, SwitchesTold
  <2>3. st \in Pairs /\ (ok => st = m.truth) /\ (~ok => st = m.store)
    BY <1>1, PageFields
  <2> HIDE DEF st
  <2>4. /\ b \in PageStates /\ b.kind = m.kind /\ b.view = m.view /\ b.truth = m.truth /\ b.pushes = m.pushes
        /\ b.error = m.error /\ b.fetch = m.fetch /\ b.data = m.data /\ b.store = st
        /\ b.untold = m.untold /\ b.back = m.back
    BY <1>1, <2>3, Zenon DEF PageStates
  <2> HIDE DEF b
  <2>5. m' \in PageStates /\ PageSame(b, m') /\ ShownSame(b, m') /\ m'.fetch = Page!Asked
    BY <2>1, <2>4, AnewDoes
  <2>6. m.truth # Page!Unread
    BY <1>1, PageFields, PairWords DEF PageInv, Told
  <2>7. ModelsTold(m')
    BY <2>2, <2>3, <2>4, <2>5, <2>6, PairWords DEF ModelsTold, PageSame, ShownSame
  <2> QED
    BY <2>2, <2>4, <2>5, <2>7 DEF PageInv, Told, PageSame, ShownSame
<1> QED
  BY <1>2, <1>3

LEMMA PageStep == ASSUME ChangeLimits, PageInv, Page!Next PROVE PageInv'
BY PollsKeeps, IsReadKeeps, PageAnsweredKeeps, ModelsAnsweredKeeps, FailsKeeps, StatusChangesKeeps,
   PushArrivesKeeps, WindowsKeep, MutatesKeeps, AppliesKeeps, PageSettlesKeeps, NavigatesKeeps, PageTogglesKeeps,
   ToggleAnsweredKeeps, BulkTogglesKeeps, RefreshesKeep
   DEF Page!Next, Page!Arrives

-----------------------------------------------------------------------------
(* The dialogs *)

Says  == [msg : Nat, timer : Nat, closer : Nat, busy : BOOLEAN, loading : BOOLEAN, good : BOOLEAN]
Calls == [what : {"count", "preview", "send", "save", "github", "about", "copy"}, req : Nat]
Windows == {"feedback", "about", "donation"}   \* the dialogs a session of which has an effect
Sessions == [modal : Dlg!Modals, req : Nat] \cup {Dlg!None}
DialogRec(q) ==
  q \in [req : Nat, begun : {q.begun}, active : Sessions, view : Sessions, says : [Dlg!Modals -> Says],
         asks : SUBSET Calls, lines : SUBSET Nat, files : SUBSET Nat, kept : SUBSET Nat, vip : SUBSET Nat,
         log : {q.log}, sent : {q.sent}, upto : {q.upto}, astray : BOOLEAN, gap : BOOLEAN]
In(q, what, s) == [what |-> what, req |-> s] \in q.asks

\* Fields that a step leaves alone.
SessionSame(q, t) == t.req = q.req /\ t.active = q.active /\ t.view = q.view /\ t.gap = q.gap /\ t.astray = q.astray
GivenSame(q, t)   == t.lines = q.lines /\ t.files = q.files /\ t.kept = q.kept /\ t.vip = q.vip

\* The active session is the latest, unless a request was begun meanwhile; a count that is
\* still asked for was never opened, and the preview of the latest request is of what is active.
Standing(q) ==
  /\ q.active.req <= q.req /\ q.view.req <= q.req /\ ~q.astray
  /\ q.active # Dlg!None /\ ~q.gap => q.active.req = q.req
  /\ q.view # Dlg!None /\ q.view.req = q.req => q.active = q.view
Pledged(q) ==
  /\ \A a \in q.asks : a.req <= q.req
  /\ \A s \in Nat : In(q, "count", s) => s # 0 /\ s # q.view.req /\ s # q.active.req
  /\ In(q, "preview", q.req) => q.active = [modal |-> "send", req |-> q.req]

\* What a dialog says is of its session: of the rendered one, and for the sending dialog of
\* the active one, whose answers are awaited by the session that is confirmed.
Spoke(q) ==
  /\ q.view.modal \in Windows => q.says[q.view.modal].msg \in {0, q.view.req}
  /\ \A w \in Windows : ~q.says[w].loading
  /\ q.view.modal = "feedback" /\ q.says["feedback"].busy => In(q, "save", q.view.req)
  /\ q.says["feedback"].good /\ q.view.modal = "feedback" => q.view.req \in q.lines /\ q.view.req \in q.files
Sending(q) ==
  q.active.modal = "send" =>
    /\ q.says["send"].msg \in {0, q.active.req}
    /\ q.says["send"].busy => q.view = q.active /\ q.active.req = q.req /\ In(q, "send", q.active.req)
    /\ q.says["send"].loading /\ ~q.gap => In(q, "preview", q.active.req)

Fair(q) == DialogRec(q) /\ Standing(q) /\ Pledged(q) /\ Spoke(q) /\ Sending(q) /\ q.vip \subseteq q.kept
DialogInv == Fair(m)

LEMMA DialogFields ==
  ASSUME NEW q, DialogRec(q)
  PROVE  /\ q.req \in Nat /\ q.active \in Sessions /\ q.view \in Sessions /\ q.says \in [Dlg!Modals -> Says]
         /\ q.asks \in SUBSET Calls /\ q.lines \in SUBSET Nat /\ q.files \in SUBSET Nat /\ q.kept \in SUBSET Nat
         /\ q.vip \in SUBSET Nat /\ q.astray \in BOOLEAN /\ q.gap \in BOOLEAN
         /\ q.active.req \in Nat /\ q.view.req \in Nat
         /\ q.active.modal \in Dlg!Modals \cup {"none"} /\ q.view.modal \in Dlg!Modals \cup {"none"}
         /\ (q.active = Dlg!None <=> q.active.modal = "none") /\ (q.view = Dlg!None <=> q.view.modal = "none")
BY DEF DialogRec, Sessions, Dlg!None, Dlg!Modals

LEMMA SessionIs ==
  ASSUME NEW v \in Sessions, NEW w \in Dlg!Modals, NEW s \in Nat
  PROVE  /\ [modal |-> w, req |-> s] \in Sessions /\ [modal |-> w, req |-> s].modal = w
         /\ [modal |-> w, req |-> s].req = s /\ [modal |-> w, req |-> s] # Dlg!None
         /\ (v = [modal |-> w, req |-> s] <=> v.modal = w /\ v.req = s)
BY DEF Sessions, Dlg!None, Dlg!Modals

LEMMA ModalWords ==
  /\ Dlg!Modals = {"feedback", "about", "donation", "send"} /\ Windows = {"feedback", "about", "donation"}
  /\ Dlg!None.modal = "none" /\ Dlg!None.req = 0 /\ Dlg!None \in Sessions
  /\ Dlg!Blank \in Says /\ Dlg!Blank.msg = 0 /\ ~Dlg!Blank.busy /\ ~Dlg!Blank.loading /\ ~Dlg!Blank.good
BY DEF Dlg!Modals, Windows, Dlg!None, Sessions, Dlg!Blank, Says

\* Asks come and go by themselves.
AskNames == {"count", "preview", "send", "save", "github", "about", "copy"}
Heeded(q, t) == DialogRec(t) /\ SessionSame(q, t) /\ GivenSame(q, t) /\ t.says = q.says /\ t.log = q.log

LEMMA AsksChange ==
  ASSUME NEW q, DialogRec(q), NEW asks \in SUBSET Calls
  PROVE  Heeded(q, [q EXCEPT !.asks = asks]) /\ [q EXCEPT !.asks = asks].asks = asks
BY DEF DialogRec, SessionSame, GivenSame, Heeded

LEMMA WithoutDoes ==
  ASSUME NEW q, DialogRec(q), NEW what, NEW s
  PROVE  /\ Heeded(q, Dlg!Without(q, what, s))
         /\ Dlg!Without(q, what, s).asks = q.asks \ {[what |-> what, req |-> s]}
<1>1. q.asks \ {[what |-> what, req |-> s]} \in SUBSET Calls
  BY DialogFields
<1> QED
  BY <1>1, AsksChange DEF Dlg!Without

LEMMA AskedDoes ==
  ASSUME NEW q, DialogRec(q), NEW what \in AskNames, NEW s \in Nat
  PROVE  /\ Heeded(q, Dlg!Asked(q, what, s))
         /\ Dlg!Asked(q, what, s).asks = q.asks \cup {[what |-> what, req |-> s]}
<1>1. [what |-> what, req |-> s] \in Calls
  BY DEF Calls, AskNames
<1>2. q.asks \cup {[what |-> what, req |-> s]} \in SUBSET Calls
  BY <1>1, DialogFields
<1> QED
  BY <1>2, AsksChange DEF Dlg!Asked

LEMMA OtherAsk ==
  \A what, other, s, r : what # other \/ s # r => [what |-> what, req |-> s] # [what |-> other, req |-> r]
OBVIOUS

\* What one dialog says changes by itself.
LEMMA SaysChange ==
  ASSUME NEW q, DialogRec(q), NEW w \in Dlg!Modals, NEW c \in Says
  PROVE  LET t == [q EXCEPT !.says[w] = c] IN
           /\ DialogRec(t) /\ SessionSame(q, t) /\ GivenSame(q, t) /\ t.asks = q.asks
           /\ t.says[w] = c /\ \A o \in Dlg!Modals : o # w => t.says[o] = q.says[o]
<1> DEFINE says == [q.says EXCEPT ![w] = c]
<1>1. says \in [Dlg!Modals -> Says] /\ says[w] = c /\ \A o \in Dlg!Modals : o # w => says[o] = q.says[o]
  BY DialogFields
<1>2. [q EXCEPT !.says[w] = c] = [q EXCEPT !.says = says]
  OBVIOUS
<1> HIDE DEF says
<1>3. LET t == [q EXCEPT !.says = says] IN
        DialogRec(t) /\ SessionSame(q, t) /\ GivenSame(q, t) /\ t.asks = q.asks /\ t.says = says
  BY <1>1 DEF DialogRec, SessionSame, GivenSame
<1> QED
  BY <1>1, <1>2, <1>3, Zenon

\* Messages and celebrations are shown by the dialog that owns their session.
LEMMA ShowsDoes ==
  ASSUME NEW q, DialogRec(q), NEW w \in Dlg!Modals, NEW s \in Nat, NEW good \in BOOLEAN
  PROVE  LET t == Dlg!Shows(q, w, s, good) IN
           /\ DialogRec(t) /\ SessionSame(q, t) /\ GivenSame(q, t) /\ t.asks = q.asks
           /\ \A o \in Dlg!Modals : o # w => t.says[o] = q.says[o]
           /\ IF q.view = [modal |-> w, req |-> s]
              THEN /\ t.says[w].msg = s /\ (t.says[w].good <=> good)
                   /\ t.says[w].busy = q.says[w].busy /\ t.says[w].loading = q.says[w].loading
              ELSE t.says[w] = q.says[w]
<1> DEFINE c == [q.says[w] EXCEPT !.msg = s, !.timer = s, !.good = good]
           t == Dlg!Shows(q, w, s, good)
<1>1. q.says[w] \in Says
  BY DialogFields
<1>2. /\ c \in Says /\ c.msg = s /\ (c.good <=> good) /\ c.busy = q.says[w].busy
      /\ c.loading = q.says[w].loading
  BY <1>1, Zenon DEF Says
<1>3. CASE q.view = [modal |-> w, req |-> s]
  <2>1. t = [q EXCEPT !.says[w].msg = s, !.says[w].timer = s, !.says[w].good = good]
    BY <1>3 DEF Dlg!Shows, Dlg!Owns
  <2>2. t = [q EXCEPT !.says[w] = c]
    BY <2>1, DialogFields, Zenon DEF DialogRec
  <2> HIDE DEF t, c
  <2> QED
    BY <1>2, <1>3, <2>2, SaysChange DEF t
<1>4. CASE q.view # [modal |-> w, req |-> s]
  <2>1. t = q
    BY <1>4 DEF Dlg!Shows, Dlg!Owns
  <2> QED
    BY <1>4, <2>1 DEF SessionSame, GivenSame
<1> QED
  BY <1>3, <1>4

\* To close is to give up the latest session, or nothing.
LEMMA ClosedDoes ==
  ASSUME NEW q, DialogRec(q), NEW w \in Dlg!Modals, NEW s \in Nat
  PROVE  LET t == Dlg!Closed(q, w, s) IN
           /\ DialogRec(t) /\ GivenSame(q, t) /\ t.asks = q.asks /\ t.says = q.says /\ t.view = q.view
           /\ t.gap = q.gap /\ t.astray = q.astray
           /\ \/ t.active = Dlg!None /\ t.req = q.req + 1 /\ q.active = [modal |-> w, req |-> s] /\ q.req = s
              \/ t = q /\ ~(q.active = [modal |-> w, req |-> s] /\ q.req = s)
<1> DEFINE n == q.req + 1
           y == q.astray \/ q.active.req # s
           t == Dlg!Closed(q, w, s)
<1>1. CASE q.active = [modal |-> w, req |-> s] /\ q.req = s
  <2>1. t = [q EXCEPT !.req = n, !.active = Dlg!None, !.astray = y]
    BY <1>1 DEF Dlg!Closed
  <2>2. n \in Nat /\ y = q.astray /\ n = q.req + 1 /\ Dlg!None \in Sessions
    BY <1>1, DialogFields, ModalWords
  <2> HIDE DEF n, y, t
  <2>3. /\ DialogRec(t) /\ GivenSame(q, t) /\ t.asks = q.asks /\ t.says = q.says /\ t.view = q.view
        /\ t.gap = q.gap /\ t.astray = q.astray /\ t.active = Dlg!None /\ t.req = n
    BY <2>1, <2>2, Zenon DEF DialogRec, GivenSame
  <2> QED
    BY <1>1, <2>2, <2>3 DEF t
<1>2. CASE ~(q.active = [modal |-> w, req |-> s] /\ q.req = s)
  <2>1. t = q
    BY <1>2 DEF Dlg!Closed
  <2> QED
    BY <1>2, <2>1 DEF GivenSame
<1> QED
  BY <1>1, <1>2

\* What these steps may change of the record keeps the invariant: answers stored, asks that
\* nothing waits for, what a dialog of one's own says, a close.
LEMMA FairGiven ==
  ASSUME NEW q, Fair(q), NEW t, DialogRec(t), SessionSame(q, t), t.says = q.says, t.asks = q.asks,
         q.lines \subseteq t.lines, q.files \subseteq t.files, t.vip \subseteq t.kept
  PROVE  Fair(t)
<1>1. Standing(t)
  BY DEF Fair, Standing, SessionSame
<1>2. Pledged(t)
  BY DEF Fair, Pledged, SessionSame, In
<1>3. Spoke(t)
  BY DEF Fair, Spoke, SessionSame, In
<1>4. Sending(t)
  BY DEF Fair, Sending, SessionSame, In
<1> QED
  BY <1>1, <1>2, <1>3, <1>4 DEF Fair

LEMMA FairAsked ==
  ASSUME NEW q, Fair(q), NEW what \in {"send", "save", "github", "about", "copy"}, NEW s \in Nat, s <= q.req
  PROVE  Fair(Dlg!Asked(q, what, s))
<1> DEFINE t == Dlg!Asked(q, what, s)
           a == [what |-> what, req |-> s]
<1>0. DialogRec(q) /\ what \in AskNames
  BY DEF Fair, AskNames
<1>1. /\ DialogRec(t) /\ SessionSame(q, t) /\ GivenSame(q, t) /\ t.says = q.says
      /\ t.asks = q.asks \cup {a}
  BY <1>0, AskedDoes DEF Heeded
<1>2. a.req = s /\ a.what = what
  OBVIOUS
<1>3. \A o \in {"count", "preview"}, r \in Nat : [what |-> o, req |-> r] # a
  OBVIOUS
<1> HIDE DEF t, a
<1>4. \A o, r : In(q, o, r) => In(t, o, r)
  BY <1>1 DEF In
<1>5. \A o \in {"count", "preview"}, r \in Nat : In(t, o, r) => In(q, o, r)
  BY <1>1, <1>3 DEF In
<1>6. Standing(t)
  BY <1>1 DEF Fair, Standing, SessionSame
<1>7. Pledged(t)
  <2>1. \A b \in t.asks : b.req <= t.req
    BY <1>1, <1>2 DEF Fair, Pledged, SessionSame
  <2>2. q.req \in Nat
    BY DialogFields DEF Fair
  <2> QED
    BY <1>1, <1>5, <2>1, <2>2 DEF Fair, Pledged, SessionSame
<1>8. Spoke(t)
  BY <1>1, <1>4 DEF Fair, Spoke, SessionSame, GivenSame
<1>9. Sending(t)
  BY <1>1, <1>4 DEF Fair, Sending, SessionSame
<1> QED
  BY <1>1, <1>6, <1>7, <1>8, <1>9 DEF Fair, GivenSame, t

\* An answer that came: whether something waited for it is the answer's own matter.
LEMMA FairAnswered ==
  ASSUME NEW q, Fair(q), NEW what,
         NEW s \in Nat,
         what = "save" => q.view # [modal |-> "feedback", req |-> s] \/ ~q.says["feedback"].busy,
         what = "preview" => s # q.req \/ ~q.says["send"].loading,
         what = "send" => s # q.req \/ ~q.says["send"].busy \/ q.active.modal # "send"
  PROVE  Fair(Dlg!Without(q, what, s))
<1> DEFINE t == Dlg!Without(q, what, s)
           a == [what |-> what, req |-> s]
<1>1. /\ DialogRec(t) /\ SessionSame(q, t) /\ GivenSame(q, t) /\ t.says = q.says
      /\ t.asks \subseteq q.asks /\ \A b \in q.asks : b # a => b \in t.asks
  <2>1. DialogRec(q)
    BY DEF Fair
  <2> QED
    BY <2>1, WithoutDoes DEF Heeded
<1>2. \A o, r : o # what \/ r # s => [what |-> o, req |-> r] # a
  BY OtherAsk
<1>3. \A o, r : o # what \/ r # s => (In(q, o, r) => In(t, o, r))
  BY <1>1, <1>2 DEF In
<1>4. \A o, r : In(t, o, r) => In(q, o, r)
  BY <1>1 DEF In
<1>5. /\ q.view \in Sessions /\ q.active \in Sessions /\ q.req \in Nat
      /\ (q.active = Dlg!None <=> q.active.modal = "none")
  BY DialogFields DEF Fair
<1>6. q.view = [modal |-> "feedback", req |-> s] <=> q.view.modal = "feedback" /\ q.view.req = s
  BY <1>5, SessionIs, ModalWords
<1> HIDE DEF t, a
<1>7. Standing(t)
  BY <1>1 DEF Fair, Standing, SessionSame
<1>8. Pledged(t)
  BY <1>1, <1>4, <1>5 DEF Fair, Pledged, SessionSame
<1>9. Spoke(t)
  <2>1. q.view.modal = "feedback" /\ q.says["feedback"].busy => In(t, "save", q.view.req)
    BY <1>3, <1>6 DEF Fair, Spoke
  <2> QED
    BY <1>1, <2>1 DEF Fair, Spoke, SessionSame, GivenSame
<1>10. Sending(t)
  <2> SUFFICES ASSUME q.active.modal = "send" PROVE Sending(t)
    BY <1>1 DEF Sending, SessionSame
  <2>1. q.says["send"].busy => In(t, "send", q.active.req)
    BY <1>3 DEF Fair, Sending
  <2>2. q.says["send"].loading /\ ~q.gap => In(t, "preview", q.active.req)
    BY <1>3, <1>5 DEF Fair, Sending, Standing
  <2> QED
    BY <1>1, <2>1, <2>2 DEF Fair, Sending, SessionSame
<1> QED
  BY <1>1, <1>7, <1>8, <1>9, <1>10 DEF Fair, GivenSame, t

LEMMA FairSays ==
  ASSUME NEW q, Fair(q), NEW w \in Windows, NEW c \in Says, ~c.loading,
         q.view.modal = w => c.msg \in {0, q.view.req},
         w = "feedback" /\ q.view.modal = w /\ c.busy => In(q, "save", q.view.req),
         w = "feedback" /\ q.view.modal = w /\ c.good => q.view.req \in q.lines /\ q.view.req \in q.files
  PROVE  Fair([q EXCEPT !.says[w] = c])
<1> DEFINE t == [q EXCEPT !.says[w] = c]
<1>1. w \in Dlg!Modals /\ w # "send" /\ Windows \subseteq Dlg!Modals /\ "send" \in Dlg!Modals
  BY ModalWords
<1>2. /\ DialogRec(t) /\ SessionSame(q, t) /\ GivenSame(q, t) /\ t.asks = q.asks
      /\ t.says[w] = c /\ \A o \in Dlg!Modals : o # w => t.says[o] = q.says[o]
  BY <1>1, SaysChange DEF Fair
<1> HIDE DEF t
<1>3. \A o, r : In(t, o, r) <=> In(q, o, r)
  BY <1>2 DEF In
<1>4. Standing(t)
  BY <1>2 DEF Fair, Standing, SessionSame
<1>5. Pledged(t)
  BY <1>2, <1>3 DEF Fair, Pledged, SessionSame
<1>6. Spoke(t)
  <2>1. t.view = q.view /\ t.lines = q.lines /\ t.files = q.files
    BY <1>2 DEF SessionSame, GivenSame
  <2>2. "feedback" \in Windows
    BY ModalWords
  <2>3. t.view.modal \in Windows => t.says[t.view.modal].msg \in {0, t.view.req}
    BY <1>1, <1>2, <2>1 DEF Fair, Spoke
  <2>4. \A o \in Windows : ~t.says[o].loading
    BY <1>1, <1>2 DEF Fair, Spoke
  <2>5. t.view.modal = "feedback" /\ t.says["feedback"].busy => In(t, "save", t.view.req)
    BY <1>1, <1>2, <1>3, <2>1, <2>2 DEF Fair, Spoke
  <2>6. t.says["feedback"].good /\ t.view.modal = "feedback" => t.view.req \in t.lines /\ t.view.req \in t.files
    BY <1>1, <1>2, <2>1, <2>2 DEF Fair, Spoke
  <2> QED
    BY <2>3, <2>4, <2>5, <2>6 DEF Spoke
<1>7. Sending(t)
  <2>1. t.says["send"] = q.says["send"]
    BY <1>1, <1>2
  <2> QED
    BY <1>2, <1>3, <2>1 DEF Fair, Sending, SessionSame
<1> QED
  BY <1>2, <1>4, <1>5, <1>6, <1>7 DEF Fair, GivenSame, t

LEMMA FairShows ==
  ASSUME NEW q, Fair(q), NEW w \in Windows, NEW s \in Nat, NEW good \in BOOLEAN,
         w = "feedback" /\ good => s \in q.lines /\ s \in q.files
  PROVE  Fair(Dlg!Shows(q, w, s, good))
<1> DEFINE c == [q.says[w] EXCEPT !.msg = s, !.timer = s, !.good = good]
           t == Dlg!Shows(q, w, s, good)
<1>1. /\ w \in Dlg!Modals /\ q.says[w] \in Says /\ ~q.says[w].loading /\ q.view \in Sessions
      /\ DialogRec(q)
  BY DialogFields, ModalWords DEF Fair, Spoke
<1>2. /\ c \in Says /\ c.msg = s /\ (c.good <=> good) /\ (c.busy <=> q.says[w].busy)
      /\ ~c.loading
  BY <1>1, Zenon DEF Says
<1>3. q.view = [modal |-> w, req |-> s] <=> q.view.modal = w /\ q.view.req = s
  BY <1>1, SessionIs
<1>4. CASE q.view = [modal |-> w, req |-> s]
  <2>1. t = [q EXCEPT !.says[w].msg = s, !.says[w].timer = s, !.says[w].good = good]
    BY <1>4 DEF Dlg!Shows, Dlg!Owns
  <2>2. t = [q EXCEPT !.says[w] = c]
    BY <1>1, <2>1, DialogFields, Zenon DEF DialogRec
  <2>3. w = "feedback" /\ c.busy => In(q, "save", q.view.req)
    BY <1>2, <1>3, <1>4 DEF Fair, Spoke
  <2> HIDE DEF t, c
  <2> QED
    BY <1>2, <1>3, <1>4, <2>2, <2>3, FairSays DEF t
<1>5. CASE q.view # [modal |-> w, req |-> s]
  BY <1>5 DEF Dlg!Shows, Dlg!Owns
<1> QED
  BY <1>4, <1>5

LEMMA FairClosed ==
  ASSUME NEW q, Fair(q), NEW w \in Dlg!Modals, NEW s \in Nat
  PROVE  Fair(Dlg!Closed(q, w, s))
<1> DEFINE t == Dlg!Closed(q, w, s)
<1>1. DialogRec(q) /\ q.req \in Nat /\ q.view.req \in Nat /\ q.active.req \in Nat
  BY DialogFields DEF Fair
<1>2. /\ DialogRec(t) /\ GivenSame(q, t) /\ t.asks = q.asks /\ t.says = q.says /\ t.view = q.view
      /\ t.gap = q.gap /\ t.astray = q.astray
      /\ \/ t.active = Dlg!None /\ t.req = q.req + 1
         \/ t = q
  <2>1. DialogRec(q)
    BY <1>1
  <2> QED
    BY <2>1, ClosedDoes, Zenon
<1> HIDE DEF t
<1>3. CASE t.active = Dlg!None /\ t.req = q.req + 1
  <2>1. \A o, r : In(t, o, r) <=> In(q, o, r)
    BY <1>2 DEF In
  <2>2. Standing(t)
    BY <1>1, <1>2, <1>3, ModalWords DEF Fair, Standing
  <2>3. Pledged(t)
    <3>1. \A a \in t.asks : a.req <= q.req /\ a.req \in Nat
      BY <1>1, <1>2, DialogFields DEF Fair, Pledged, Calls
    <3>2. \A a \in t.asks : a.req <= t.req
      BY <1>1, <1>3, <3>1
    <3>3. ~In(t, "preview", t.req)
      <4>1. [what |-> "preview", req |-> t.req].req = t.req
        OBVIOUS
      <4> QED
        BY <1>1, <1>3, <3>1, <4>1 DEF In
    <3>4. t.active.req = 0
      BY <1>3, ModalWords
    <3> QED
      BY <1>2, <2>1, <3>2, <3>3, <3>4 DEF Fair, Pledged
  <2>4. Spoke(t)
    BY <1>2, <2>1 DEF Fair, Spoke, GivenSame
  <2>5. Sending(t)
    BY <1>3, ModalWords DEF Sending
  <2> QED
    BY <1>2, <2>2, <2>3, <2>4, <2>5 DEF Fair, GivenSame, t
<1>4. CASE t = q
  BY <1>4 DEF t
<1> QED
  BY <1>2, <1>3, <1>4

LEMMA DialogIsGood ==
  ASSUME DialogInv
  PROVE  Dlg!ShownIsOwn /\ Dlg!NewerStays /\ Dlg!CanBeClosed /\ Dlg!SuccessIsTrue
<1>1. /\ m.view \in Sessions /\ m.active \in Sessions
      /\ (m.view = Dlg!None <=> m.view.modal = "none") /\ (m.active = Dlg!None <=> m.active.modal = "none")
      /\ m.view.modal \in Dlg!Modals \cup {"none"}
  BY DialogFields DEF DialogInv, Fair
<1>2. m.view.modal \in Windows \/ m.view.modal = "send" \/ m.view = Dlg!None
  BY <1>1, ModalWords
<1>3. Dlg!ShownIsOwn
  <2> SUFFICES ASSUME m.view # Dlg!None
               PROVE  LET c == m.says[m.view.modal] IN
                        /\ m.view = m.active => c.msg \in {0, m.view.req}
                        /\ c.busy /\ m.view.modal = "feedback" => Dlg!Waits("save", m.view.req)
                        /\ c.busy /\ m.view.modal = "send" /\ m.view = m.active => Dlg!Waits("send", m.view.req)
                        /\ c.loading /\ m.view = m.active /\ ~m.gap => Dlg!Waits("preview", m.view.req)
    BY DEF Dlg!ShownIsOwn
  <2>1. CASE m.view.modal \in Windows
    <3>1. m.view.modal # "send" /\ ~m.says[m.view.modal].loading
      BY <2>1 DEF Windows, DialogInv, Fair, Spoke
    <3> QED
      BY <2>1, <3>1 DEF DialogInv, Fair, Spoke, In, Dlg!Waits
  <2>2. CASE m.view.modal = "send"
    BY <2>2 DEF DialogInv, Fair, Sending, In, Dlg!Waits
  <2> QED
    BY <1>2, <2>1, <2>2
<1>4. Dlg!NewerStays /\ Dlg!CanBeClosed
  BY DEF DialogInv, Fair, Standing, Dlg!NewerStays, Dlg!CanBeClosed
<1>5. Dlg!SuccessIsTrue
  BY DEF DialogInv, Fair, Spoke, Dlg!SuccessIsTrue
<1> QED
  BY <1>3, <1>4, <1>5

LEMMA DialogStart == Dlg!Init => DialogInv
<1> SUFFICES ASSUME Dlg!Init PROVE DialogInv
  OBVIOUS
<1> DEFINE says == [w \in Dlg!Modals |-> Dlg!Blank]
<1>1. /\ says \in [Dlg!Modals -> Says]
      /\ \A w \in Dlg!Modals : says[w] = Dlg!Blank
  BY ModalWords
<1>2. PICK log \in Dlg!Logs :
        m = [req |-> 0, begun |-> 0, active |-> Dlg!None, view |-> Dlg!None, says |-> says,
             asks |-> {}, lines |-> {}, files |-> {}, kept |-> {}, vip |-> {}, log |-> log, sent |-> <<>>,
             upto |-> 0, astray |-> FALSE, gap |-> FALSE]
  BY Zenon DEF Dlg!Init
<1> HIDE DEF says
<1>3. /\ m.req = 0 /\ m.active = Dlg!None /\ m.view = Dlg!None /\ m.says = says /\ m.asks = {}
      /\ m.lines = {} /\ m.files = {} /\ m.kept = {} /\ m.vip = {} /\ ~m.astray /\ ~m.gap
  BY <1>2
<1>4. DialogRec(m)
  BY <1>1, <1>2, ModalWords DEF DialogRec
<1>5. Standing(m) /\ Pledged(m)
  BY <1>3, ModalWords DEF Standing, Pledged, In
<1>6. \A w \in Windows : w \in Dlg!Modals /\ w # "none"
  BY ModalWords
<1>7. Spoke(m) /\ Sending(m)
  BY <1>1, <1>3, <1>6, ModalWords DEF Spoke, Sending
<1> QED
  BY <1>3, <1>4, <1>5, <1>7 DEF DialogInv, Fair

-----------------------------------------------------------------------------
LEMMA DialogOpensKeeps ==
  ASSUME DialogInv, NEW w \in Dlg!Modals, Dlg!UserOpens(w)
  PROVE  DialogInv'
<1> DEFINE n == m.req + 1
           b == m.begun + 1
           a == [modal |-> w, req |-> n]
           t == [m EXCEPT !.req = n, !.begun = b, !.active = a]
<1>1. DialogRec(m) /\ m.req \in Nat /\ m.view.req \in Nat
  BY DialogFields DEF DialogInv, Fair
<1>2. w # "send" /\ m' = t
  BY DEF Dlg!UserOpens, Dlg!Opened, Dlg!Begun
<1>3. n \in Nat /\ a \in Sessions /\ a.modal = w /\ a.req = n
  BY <1>1, SessionIs, ModalWords
<1> HIDE DEF a, b
<1>4. /\ DialogRec(t) /\ GivenSame(m, t) /\ t.asks = m.asks /\ t.says = m.says /\ t.view = m.view
      /\ t.gap = m.gap /\ t.astray = m.astray /\ t.active = a /\ t.req = n
  BY <1>1, <1>3, Zenon DEF DialogRec, GivenSame
<1> HIDE DEF t
<1>5. \A o, r : In(t, o, r) <=> In(m, o, r)
  BY <1>4 DEF In
<1>6. Standing(t)
  BY <1>1, <1>3, <1>4 DEF DialogInv, Fair, Standing
<1>7. \A x \in m.asks : x.req <= m.req /\ x.req \in Nat
  BY <1>1, DialogFields DEF DialogInv, Fair, Pledged, Calls
<1>8. \A o, r : In(m, o, r) => r <= m.req /\ r \in Nat
  <2>1. \A o, r : [what |-> o, req |-> r].req = r
    OBVIOUS
  <2> QED
    BY <1>7, <2>1 DEF In
<1>9. Pledged(t)
  <2>1. \A x \in t.asks : x.req <= t.req
    BY <1>1, <1>4, <1>7
  <2>2. ~In(t, "preview", t.req)
    BY <1>1, <1>4, <1>5, <1>8
  <2>3. \A r \in Nat : In(t, "count", r) => r # 0 /\ r # t.view.req /\ r # t.active.req
    BY <1>1, <1>3, <1>4, <1>5, <1>8 DEF DialogInv, Fair, Pledged
  <2> QED
    BY <2>1, <2>2, <2>3 DEF Pledged
<1>10. Spoke(t)
  BY <1>4, <1>5 DEF DialogInv, Fair, Spoke, GivenSame
<1>11. Sending(t)
  BY <1>2, <1>3, <1>4 DEF Sending
<1>12. Fair(t)
  BY <1>4, <1>6, <1>9, <1>10, <1>11 DEF DialogInv, Fair, GivenSame
<1> QED
  BY <1>2, <1>12 DEF DialogInv

LEMMA UserClosesKeeps ==
  ASSUME DialogInv, Dlg!UserCloses
  PROVE  DialogInv'
<1>1. m.view.req \in Nat /\ m.view.modal \in Dlg!Modals
  BY DialogFields DEF DialogInv, Fair, Dlg!UserCloses
<1> QED
  BY <1>1, FairClosed DEF DialogInv, Dlg!UserCloses

\* What is rendered anew was asked for anew, and the sending dialog waits only while it is active.
LEMMA DialogRendersKeeps ==
  ASSUME DialogInv, Dlg!Renders
  PROVE  DialogInv'
<1> DEFINE touched == {m.view.modal, m.active.modal} \cap {"feedback", "about", "donation"}
           says == [w \in Dlg!Modals |-> IF w \in touched THEN Dlg!Reset(m, w) ELSE m.says[w]]
           t == [m EXCEPT !.view = m.active, !.says = says]
           g == [t EXCEPT !.asks = @ \cup {[what |-> "about", req |-> m.active.req]}]
<1>1. /\ DialogRec(m) /\ m.req \in Nat /\ m.says \in [Dlg!Modals -> Says] /\ m.active \in Sessions
      /\ m.active.req \in Nat
  BY DialogFields DEF DialogInv, Fair
<1>2. m.view # m.active /\ m' = IF m.active.modal = "about" THEN g ELSE t
  BY DEF Dlg!Renders
<1>3. /\ \A w \in Dlg!Modals : Dlg!Reset(m, w) \in Says /\ (Dlg!Reset(m, w).loading => m.says[w].loading)
      /\ \A w \in Dlg!Modals : w = m.active.modal => Dlg!Reset(m, w) = Dlg!Blank
  BY <1>1, ModalWords, Zenon DEF Dlg!Reset, Says
<1>4. m.active.modal \in Windows => m.active.modal \in touched
  BY Zenon DEF Windows
<1>5. "send" \notin touched
  OBVIOUS
<1>6. /\ says \in [Dlg!Modals -> Says] /\ says["send"] = m.says["send"]
      /\ \A w \in Windows : ~says[w].loading
      /\ \A w \in Windows : w = m.active.modal => says[w] = Dlg!Blank
  <2> HIDE DEF touched
  <2>1. \A w \in Dlg!Modals : says[w] = IF w \in touched THEN Dlg!Reset(m, w) ELSE m.says[w]
    OBVIOUS
  <2>2. says \in [Dlg!Modals -> Says]
    BY <1>1, <1>3
  <2> HIDE DEF says
  <2>3. \A w \in Windows : w \in Dlg!Modals /\ ~m.says[w].loading
    BY ModalWords DEF DialogInv, Fair, Spoke
  <2>4. "send" \in Dlg!Modals
    BY ModalWords
  <2> QED
    BY <1>3, <1>4, <1>5, <2>1, <2>2, <2>3, <2>4
<1> HIDE DEF touched, says
<1>7. /\ DialogRec(t) /\ GivenSame(m, t) /\ t.req = m.req /\ t.active = m.active /\ t.view = m.active
      /\ t.gap = m.gap /\ t.astray = m.astray /\ t.asks = m.asks /\ t.says = says
  BY <1>1, <1>6, Zenon DEF DialogRec, GivenSame
<1> HIDE DEF t
<1>8. \A o, r : In(t, o, r) <=> In(m, o, r)
  BY <1>7 DEF In
<1>9. Standing(t) /\ Pledged(t)
  BY <1>1, <1>7, <1>8 DEF DialogInv, Fair, Standing, Pledged
<1>10. Spoke(t)
  <2>1. t.view.modal \in Windows => t.says[t.view.modal] = Dlg!Blank
    BY <1>6, <1>7
  <2>2. "feedback" \in Windows
    BY ModalWords
  <2> QED
    BY <1>6, <1>7, <2>1, <2>2, ModalWords DEF Spoke
<1>11. Sending(t)
  <2>1. t.says["send"] = m.says["send"]
    BY <1>6, <1>7
  <2> QED
    BY <1>2, <1>7, <1>8, <2>1 DEF DialogInv, Fair, Sending
<1>12. Fair(t)
  BY <1>7, <1>9, <1>10, <1>11 DEF DialogInv, Fair, GivenSame
<1>13. Fair(g)
  <2>1. g = Dlg!Asked(t, "about", m.active.req)
    BY DEF Dlg!Asked
  <2>2. m.active.req <= t.req
    BY <1>7 DEF DialogInv, Fair, Standing
  <2> HIDE DEF g
  <2> QED
    BY <1>1, <1>12, <2>1, <2>2, FairAsked
<1> HIDE DEF g
<1> QED
  BY <1>2, <1>12, <1>13 DEF DialogInv

LEMMA FadesKeeps ==
  ASSUME DialogInv, NEW w \in Dlg!Modals, Dlg!MessageFades(w)
  PROVE  DialogInv'
<1> DEFINE s == m.says[w].timer
           c == [m.says[w] EXCEPT !.timer = 0]
           z == [m.says[w] EXCEPT !.timer = 0, !.msg = 0, !.good = FALSE]
<1>1. DialogRec(m) /\ m.says[w] \in Says /\ m.says \in [Dlg!Modals -> Says]
  BY DialogFields DEF DialogInv, Fair
<1>2. /\ c \in Says /\ c.msg = m.says[w].msg /\ c.good = m.says[w].good /\ c.busy = m.says[w].busy
      /\ c.loading = m.says[w].loading
      /\ z \in Says /\ z.msg = 0 /\ ~z.good /\ z.busy = m.says[w].busy /\ z.loading = m.says[w].loading
  BY <1>1, Zenon DEF Says
<1>3. m' = [m EXCEPT !.says[w] = c] \/ m' = [m EXCEPT !.says[w] = z]
  BY <1>1, Zenon DEF Dlg!MessageFades, DialogRec
<1> HIDE DEF c, z
<1>4. PICK x \in {c, z} : m' = [m EXCEPT !.says[w] = x]
  BY <1>3
<1>5. /\ x \in Says /\ x.msg \in {0, m.says[w].msg} /\ (x.good => m.says[w].good) /\ x.busy = m.says[w].busy
      /\ x.loading = m.says[w].loading
  BY <1>2, <1>4
<1>6. CASE w \in Windows
  <2>1. ~x.loading /\ (m.view.modal = w => x.msg \in {0, m.view.req})
    BY <1>5, <1>6 DEF DialogInv, Fair, Spoke
  <2>2. w = "feedback" /\ m.view.modal = w /\ x.busy => In(m, "save", m.view.req)
    BY <1>5 DEF DialogInv, Fair, Spoke
  <2>3. w = "feedback" /\ m.view.modal = w /\ x.good => m.view.req \in m.lines /\ m.view.req \in m.files
    BY <1>5 DEF DialogInv, Fair, Spoke
  <2> QED
    BY <1>4, <1>5, <1>6, <2>1, <2>2, <2>3, FairSays DEF DialogInv
<1>7. CASE w = "send"
  <2> DEFINE t == [m EXCEPT !.says["send"] = x]
  <2>1. /\ DialogRec(t) /\ SessionSame(m, t) /\ GivenSame(m, t) /\ t.asks = m.asks
        /\ t.says["send"] = x /\ \A o \in Dlg!Modals : o # "send" => t.says[o] = m.says[o]
    BY <1>1, <1>5, <1>7, SaysChange
  <2> HIDE DEF t
  <2>2. \A o, r : In(t, o, r) <=> In(m, o, r)
    BY <2>1 DEF In
  <2>3. Standing(t) /\ Pledged(t)
    BY <2>1, <2>2 DEF DialogInv, Fair, Standing, Pledged, SessionSame
  <2>4. \A o \in Windows : t.says[o] = m.says[o]
    BY <2>1, ModalWords
  <2>5. Spoke(t)
    <3>1. "feedback" \in Windows
      BY ModalWords
    <3> QED
      BY <2>1, <2>2, <2>4, <3>1 DEF DialogInv, Fair, Spoke, SessionSame, GivenSame
  <2>6. Sending(t)
    BY <1>5, <1>7, <2>1, <2>2 DEF DialogInv, Fair, Sending, SessionSame
  <2>7. Fair(t)
    BY <2>1, <2>3, <2>5, <2>6 DEF DialogInv, Fair, GivenSame
  <2> QED
    BY <1>4, <1>7, <2>7 DEF DialogInv, t
<1> QED
  BY <1>6, <1>7, ModalWords

LEMMA SavesKeeps ==
  ASSUME DialogInv, Dlg!Saves
  PROVE  DialogInv'
<1> DEFINE t == Dlg!Asked(m, "save", m.view.req)
           c == [m.says["feedback"] EXCEPT !.busy = TRUE]
<1>1. DialogRec(m) /\ m.view.req \in Nat /\ m.says["feedback"] \in Says /\ "feedback" \in Windows
  BY DialogFields, ModalWords DEF DialogInv, Fair
<1>2. m.view.modal = "feedback" /\ m' = [t EXCEPT !.says["feedback"].busy = TRUE]
  BY DEF Dlg!Saves
<1>3. Fair(t)
  BY <1>1, FairAsked DEF DialogInv, Fair, Standing
<1>4. /\ Heeded(m, t) /\ In(t, "save", m.view.req)
  BY <1>1, AskedDoes DEF AskNames, In
<1> HIDE DEF t
<1>5. t.says = m.says /\ t.view = m.view /\ t.lines = m.lines /\ t.files = m.files /\ DialogRec(t)
  BY <1>4 DEF Heeded, SessionSame, GivenSame
<1>6. /\ c \in Says /\ c.msg = t.says["feedback"].msg /\ c.good = t.says["feedback"].good /\ ~c.loading
  BY <1>1, <1>5, Zenon DEF Says, DialogInv, Fair, Spoke
<1>7. m' = [t EXCEPT !.says["feedback"] = c]
  BY <1>2, <1>5 DEF DialogRec
<1> HIDE DEF c
<1>8. Fair([t EXCEPT !.says["feedback"] = c])
  BY <1>1, <1>3, <1>4, <1>5, <1>6, FairSays, Zenon DEF Fair, Spoke
<1> QED
  BY <1>7, <1>8 DEF DialogInv

\* The line and the file are written, or not.
LEMMA StoredDoes ==
  ASSUME NEW q, DialogRec(q), NEW s \in Nat, NEW line \in BOOLEAN, NEW file \in BOOLEAN
  PROVE  LET n == [Dlg!Stored(q, s, line, file) EXCEPT !.says["feedback"].good = q.says["feedback"].good] IN
           /\ (Dlg!Stored(q, s, line, file).says["feedback"].good <=> line /\ file)
           /\ DialogRec(n) /\ SessionSame(q, n) /\ n.says = q.says /\ n.asks = q.asks
           /\ q.lines \subseteq n.lines /\ q.files \subseteq n.files /\ n.kept = q.kept /\ n.vip = q.vip
           /\ (line /\ file => s \in n.lines /\ s \in n.files)
<1> DEFINE L == IF line THEN q.lines \cup {s} ELSE q.lines
           F == IF line /\ file THEN q.files \cup {s} ELSE q.files
           g == line /\ file
           st == Dlg!Stored(q, s, line, file)
           n == [st EXCEPT !.says["feedback"].good = q.says["feedback"].good]
<1>1. /\ L \in SUBSET Nat /\ F \in SUBSET Nat /\ q.lines \subseteq L /\ q.files \subseteq F
      /\ (line /\ file => s \in L /\ s \in F) /\ g \in BOOLEAN
  BY DialogFields
<1>2. st = [q EXCEPT !.lines = L, !.files = F, !.says["feedback"].good = g]
  BY DEF Dlg!Stored
<1>3. q.says \in [Dlg!Modals -> Says] /\ q.says["feedback"] \in Says /\ "feedback" \in Dlg!Modals
  BY DialogFields, ModalWords
<1> HIDE DEF L, F, st
<1> DEFINE c == [q.says["feedback"] EXCEPT !.good = g]
           says == [q.says EXCEPT !["feedback"] = c]
<1>4. says["feedback"] = c /\ c.good = g
  BY <1>3 DEF Says
<1>5. st = [q EXCEPT !.lines = L, !.files = F, !.says = says]
  BY <1>2 DEF DialogRec
<1>6. st.says = says
  BY <1>5 DEF DialogRec
<1>7. [says EXCEPT !["feedback"].good = q.says["feedback"].good] = q.says
  BY <1>3, <1>4 DEF Says
<1>8. n = [q EXCEPT !.lines = L, !.files = F]
  <2>1. n = [st EXCEPT !.says = [says EXCEPT !["feedback"].good = q.says["feedback"].good]]
    BY <1>6
  <2> HIDE DEF says, n
  <2> QED
    BY <1>5, <1>7, <2>1, Zenon DEF DialogRec
<1>9. st.says["feedback"].good <=> line /\ file
  BY <1>4, <1>6, Zenon
<1> HIDE DEF n
<1>10. /\ DialogRec(n) /\ SessionSame(q, n) /\ n.says = q.says /\ n.asks = q.asks
       /\ n.lines = L /\ n.files = F /\ n.kept = q.kept /\ n.vip = q.vip
  BY <1>1, <1>8, Zenon DEF DialogRec, SessionSame
<1> QED
  BY <1>1, <1>9, <1>10 DEF n, st

LEMMA SaveAnsweredKeeps ==
  ASSUME DialogInv, NEW s \in Nat, NEW line \in BOOLEAN, NEW file \in BOOLEAN, Dlg!SaveAnswered(s, line, file)
  PROVE  DialogInv'
<1> DEFINE o == Dlg!Without(m, "save", s)
           n == [Dlg!Stored(o, s, line, file) EXCEPT !.says["feedback"].good = m.says["feedback"].good]
           good == line /\ file
           told == Dlg!Shows(n, "feedback", s, good)
<1>1. DialogRec(m) /\ m.view \in Sessions /\ "feedback" \in Windows /\ "feedback" \in Dlg!Modals /\ good \in BOOLEAN
  BY DialogFields, ModalWords DEF DialogInv, Fair
<1>2. Heeded(m, o) /\ o.asks = m.asks \ {[what |-> "save", req |-> s]}
  BY <1>1, WithoutDoes
<1>3. DialogRec(o) /\ o.says = m.says
  BY <1>2 DEF Heeded
<1>4. m' = IF ~Dlg!Owns(m, "feedback", s) THEN told
           ELSE [told EXCEPT !.says["feedback"].busy = FALSE,
                             !.says["feedback"].closer = IF good THEN s ELSE @]
  <2>1. Dlg!Stored(o, s, line, file).says["feedback"].good = good
    <3>1. /\ Dlg!Stored(o, s, line, file).says["feedback"].good <=> good
          /\ Dlg!Stored(o, s, line, file) = [o EXCEPT !.lines = IF line THEN @ \cup {s} ELSE @,
               !.files = IF line /\ file THEN @ \cup {s} ELSE @, !.says["feedback"].good = good]
      BY <1>3, StoredDoes, Zenon DEF Dlg!Stored
    <3>2. o.says["feedback"] \in Says /\ o.says \in [Dlg!Modals -> Says]
      BY <1>1, <1>3, DialogFields
    <3> HIDE DEF o, good
    <3> QED
      BY <1>1, <3>1, <3>2 DEF DialogRec, Says
  <2> HIDE DEF o, good
  <2> QED
    BY <2>1, Zenon DEF Dlg!SaveAnswered, o
<1>5. /\ DialogRec(n) /\ SessionSame(o, n) /\ n.says = o.says /\ n.asks = o.asks
      /\ o.lines \subseteq n.lines /\ o.files \subseteq n.files /\ n.kept = o.kept /\ n.vip = o.vip
      /\ (good => s \in n.lines /\ s \in n.files)
  BY <1>3, StoredDoes
<1>6. m.view = [modal |-> "feedback", req |-> s] <=> m.view.modal = "feedback" /\ m.view.req = s
  BY <1>1, SessionIs
<1>7. CASE m.view # [modal |-> "feedback", req |-> s]
  <2>1. Fair(o)
    BY <1>7, FairAnswered DEF DialogInv
  <2> HIDE DEF o, n, good
  <2>2. Fair(n)
    BY <1>5, <2>1, FairGiven DEF Fair
  <2>3. Fair(told)
    BY <1>1, <1>5, <2>2, FairShows, Zenon
  <2> HIDE DEF told
  <2> QED
    BY <1>4, <1>7, <2>3 DEF Dlg!Owns, DialogInv
<1>8. CASE m.view = [modal |-> "feedback", req |-> s]
  <2> DEFINE i == IF good THEN s ELSE told.says["feedback"].closer
             no == FALSE
             c == [told.says["feedback"] EXCEPT !.busy = no, !.closer = i]
             t == [told EXCEPT !.says["feedback"] = c]
             u == [m EXCEPT !.says["feedback"].busy = no]
  <2>1. n.view = m.view /\ n.says = m.says
    BY <1>2, <1>5 DEF Heeded, SessionSame
  <2>2. /\ DialogRec(told) /\ SessionSame(n, told) /\ GivenSame(n, told) /\ told.asks = n.asks
        /\ \A w \in Dlg!Modals : w # "feedback" => told.says[w] = n.says[w]
        /\ told.says["feedback"].msg = s /\ (told.says["feedback"].good <=> good)
        /\ told.says["feedback"].loading = n.says["feedback"].loading
    <3> HIDE DEF n, good
    <3> QED
      BY <1>1, <1>5, <1>8, <2>1, ShowsDoes
  <2> HIDE DEF told, o, n, good
  <2>3. /\ told.says["feedback"] \in Says /\ told.says \in [Dlg!Modals -> Says] /\ no \in BOOLEAN /\ ~no
        /\ ~told.says["feedback"].loading
    BY <1>1, <2>1, <2>2, DialogFields DEF DialogInv, Fair, Spoke
  <2> HIDE DEF no
  <2>4. i \in Nat
    BY <2>3 DEF Says
  <2> HIDE DEF i
  <2>5. /\ c \in Says /\ c.msg = s /\ (c.good <=> good) /\ ~c.busy /\ ~c.loading
    BY <2>2, <2>3, <2>4, Zenon DEF Says
  <2>6. m' = t
    <3>1. m' = [told EXCEPT !.says["feedback"].busy = no, !.says["feedback"].closer = IF good THEN s ELSE @]
      BY <1>4, <1>8 DEF Dlg!Owns, no
    <3>2. m' = [told EXCEPT !.says["feedback"].busy = no, !.says["feedback"].closer = i]
      BY <1>1, <2>2, <2>3, <3>1 DEF DialogRec, Says, i
    <3> QED
      BY <2>2, <2>3, <3>2, Zenon DEF DialogRec
  <2> HIDE DEF c
  <2>7. /\ DialogRec(t) /\ SessionSame(told, t) /\ GivenSame(told, t) /\ t.asks = told.asks
        /\ t.says["feedback"] = c /\ \A w \in Dlg!Modals : w # "feedback" => t.says[w] = told.says[w]
    BY <1>1, <2>2, <2>5, SaysChange
  <2> HIDE DEF t
  <2>8. /\ SessionSame(m, t) /\ m.lines \subseteq t.lines /\ m.files \subseteq t.files
        /\ t.kept = m.kept /\ t.vip = m.vip /\ (good => s \in t.lines /\ s \in t.files)
        /\ t.asks = m.asks \ {[what |-> "save", req |-> s]}
        /\ \A w \in Dlg!Modals : w # "feedback" => t.says[w] = m.says[w]
    BY <1>2, <1>5, <2>1, <2>2, <2>7 DEF Heeded, SessionSame, GivenSame
  <2>9. /\ \A x, r : In(t, x, r) => In(m, x, r)
        /\ \A x, r : x # "save" => (In(m, x, r) => In(t, x, r))
    <3>1. \A x, r : x # "save" => [what |-> x, req |-> r] # [what |-> "save", req |-> s]
      BY OtherAsk
    <3> QED
      BY <2>8, <3>1 DEF In
  <2>10. Standing(t) /\ Pledged(t)
    BY <2>8, <2>9 DEF DialogInv, Fair, Standing, Pledged, SessionSame
  <2>11. Spoke(t)
    <3>1. t.view.modal = "feedback" /\ t.view.req = s /\ t.view.modal \in Windows
      BY <1>1, <1>6, <1>8, <2>8 DEF SessionSame
    <3>2. \A w \in Windows : ~t.says[w].loading
      BY <2>5, <2>7, <2>8, ModalWords DEF DialogInv, Fair, Spoke
    <3> QED
      BY <2>5, <2>7, <2>8, <3>1, <3>2 DEF Spoke
  <2>12. Sending(t)
    <3>1. t.says["send"] = m.says["send"]
      BY <2>8, ModalWords
    <3> QED
      BY <2>8, <2>9, <3>1 DEF DialogInv, Fair, Sending, SessionSame
  <2>13. Fair(t)
    BY <2>7, <2>8, <2>10, <2>11, <2>12 DEF DialogInv, Fair
  <2> QED
    BY <2>6, <2>13 DEF DialogInv
<1> QED
  BY <1>7, <1>8

LEMMA DialogClosesKeeps ==
  ASSUME DialogInv, Dlg!ClosesAfterSave
  PROVE  DialogInv'
<1> DEFINE s == m.says["feedback"].closer
           c == [m.says["feedback"] EXCEPT !.closer = 0]
           q == [m EXCEPT !.says["feedback"] = c]
<1>1. /\ DialogRec(m) /\ m.says["feedback"] \in Says /\ "feedback" \in Windows /\ "feedback" \in Dlg!Modals
  BY DialogFields, ModalWords DEF DialogInv, Fair
<1>2. /\ c \in Says /\ c.msg = m.says["feedback"].msg /\ c.good = m.says["feedback"].good
      /\ c.busy = m.says["feedback"].busy /\ ~c.loading /\ s \in Nat
  BY <1>1 DEF Says, DialogInv, Fair, Spoke
<1>3. q = [m EXCEPT !.says["feedback"].closer = 0]
  BY <1>1 DEF DialogRec
<1>4. m' = q \/ m' = Dlg!Closed(q, "feedback", s)
  BY <1>3 DEF Dlg!ClosesAfterSave
<1> HIDE DEF c, s
<1>5. Fair(q)
  BY <1>1, <1>2, FairSays, Zenon DEF DialogInv, Fair, Spoke
<1> HIDE DEF q
<1> QED
  BY <1>1, <1>2, <1>4, <1>5, FairClosed DEF DialogInv

LEMMA PagesKeep ==
  ASSUME DialogInv, Dlg!OpensIssue \/ Dlg!Copies
  PROVE  DialogInv'
<1>1. m.view.req \in Nat /\ m.view.req <= m.req
  BY DialogFields DEF DialogInv, Fair, Standing
<1> QED
  BY <1>1, FairAsked DEF DialogInv, Dlg!OpensIssue, Dlg!Copies

LEMMA IssueKeeps ==
  ASSUME DialogInv, NEW s \in Nat, NEW opened \in BOOLEAN, Dlg!IssueAnswered(s, opened)
  PROVE  DialogInv'
<1> DEFINE o == Dlg!Without(m, "github", s)
           no == FALSE
<1>1. m' = o \/ m' = Dlg!Shows(o, "feedback", s, no)
  BY Zenon DEF Dlg!IssueAnswered
<1>2. Fair(o)
  BY FairAnswered, Zenon DEF DialogInv
<1>3. no \in BOOLEAN /\ ~no /\ "feedback" \in Windows
  BY ModalWords
<1> HIDE DEF o, no
<1> QED
  BY <1>1, <1>2, <1>3, FairShows DEF DialogInv

LEMMA AboutKeeps ==
  ASSUME DialogInv, NEW s \in Nat, Dlg!AboutAnswered(s)
  PROVE  DialogInv'
<1> DEFINE o == Dlg!Without(m, "about", s)
           c == [o.says["about"] EXCEPT !.msg = s]
<1>1. DialogRec(m) /\ m.view \in Sessions /\ "about" \in Windows /\ "about" \in Dlg!Modals
  BY DialogFields, ModalWords DEF DialogInv, Fair
<1>2. Heeded(m, o)
  BY <1>1, WithoutDoes
<1>3. Fair(o)
  BY FairAnswered, Zenon DEF DialogInv
<1>4. m.view = [modal |-> "about", req |-> s] <=> m.view.modal = "about" /\ m.view.req = s
  BY <1>1, SessionIs
<1>5. m' = IF Dlg!Owns(m, "about", s) THEN [o EXCEPT !.says["about"].msg = s] ELSE o
  BY DEF Dlg!AboutAnswered
<1> HIDE DEF o
<1>6. DialogRec(o) /\ o.view = m.view /\ o.says["about"] \in Says /\ ~o.says["about"].loading
  BY <1>1, <1>2, <1>3, DialogFields DEF Heeded, SessionSame, Fair, Spoke
<1>7. c \in Says /\ c.msg = s /\ ~c.loading
  BY <1>6 DEF Says
<1>8. [o EXCEPT !.says["about"].msg = s] = [o EXCEPT !.says["about"] = c]
  BY <1>6 DEF DialogRec
<1> HIDE DEF c
<1>9. CASE m.view = [modal |-> "about", req |-> s]
  <2>1. Fair([o EXCEPT !.says["about"] = c])
    BY <1>1, <1>3, <1>4, <1>6, <1>7, <1>9, FairSays
  <2> QED
    BY <1>5, <1>8, <1>9, <2>1 DEF Dlg!Owns, DialogInv
<1>10. CASE m.view # [modal |-> "about", req |-> s]
  BY <1>3, <1>5, <1>10 DEF Dlg!Owns, DialogInv
<1> QED
  BY <1>9, <1>10

\* A celebration follows support that is kept.
LEMMA KeptChange ==
  ASSUME NEW q, Fair(q), NEW kept \in SUBSET Nat, NEW vip \in SUBSET Nat, vip \subseteq kept
  PROVE  /\ Fair([q EXCEPT !.kept = kept, !.vip = vip])
         /\ [q EXCEPT !.kept = kept, !.vip = vip].kept = kept
         /\ [q EXCEPT !.kept = kept, !.vip = vip].vip = vip
<1> DEFINE t == [q EXCEPT !.kept = kept, !.vip = vip]
<1>1. /\ DialogRec(t) /\ SessionSame(q, t) /\ t.says = q.says /\ t.asks = q.asks /\ t.lines = q.lines
      /\ t.files = q.files /\ t.kept = kept /\ t.vip = vip
  BY Zenon DEF Fair, DialogRec, SessionSame
<1> HIDE DEF t
<1>2. Fair(t)
  BY <1>1, FairGiven, Zenon
<1> QED
  BY <1>1, <1>2 DEF t

LEMMA AscendsDoes ==
  ASSUME NEW q, Fair(q), NEW s \in Nat
  PROVE  LET t == [q EXCEPT !.kept = @ \cup {s}] IN Fair(t) /\ Fair(Dlg!Ascends(t, s))
<1> DEFINE K == q.kept \cup {s}
           V == q.vip \cup {s}
           t == [q EXCEPT !.kept = K, !.vip = q.vip]
           z == [q EXCEPT !.kept = K, !.vip = V]
           yes == TRUE
<1>1. /\ K \in SUBSET Nat /\ V \in SUBSET Nat /\ q.vip \in SUBSET Nat /\ q.vip \subseteq K /\ V \subseteq K
      /\ DialogRec(q)
  BY DialogFields DEF Fair
<1>2. [q EXCEPT !.kept = @ \cup {s}] = t
  BY <1>1, Zenon DEF DialogRec
<1> HIDE DEF K, V
<1>3. Fair(t) /\ Fair(z) /\ t.vip = q.vip
  <2>1. Fair(t)
    BY <1>1, KeptChange, Zenon
  <2>3. t.vip = q.vip
    BY <1>1 DEF DialogRec
  <2>2. Fair(z)
    BY <1>1, KeptChange, Zenon
  <2> QED
    BY <2>1, <2>2, <2>3
<1>4. [t EXCEPT !.vip = @ \cup {s}] = z
  BY <1>1, Zenon DEF DialogRec, V
<1>5. Dlg!Ascends(t, s) = t \/ Dlg!Ascends(t, s) = Dlg!Shows(z, "donation", s, yes)
  BY <1>4, Zenon DEF Dlg!Ascends
<1>6. yes \in BOOLEAN /\ "donation" \in Windows
  BY ModalWords
<1> HIDE DEF t, z, yes
<1>7. Fair(Dlg!Shows(z, "donation", s, yes))
  BY <1>3, <1>6, FairShows
<1>8. Fair(t) /\ Fair(Dlg!Ascends(t, s))
  BY <1>3, <1>5, <1>7
<1> QED
  BY <1>2, <1>8

LEMMA CopyKeeps ==
  ASSUME DialogInv, NEW s \in Nat, NEW ok \in BOOLEAN, Dlg!CopyAnswered(s, ok)
  PROVE  DialogInv'
<1> DEFINE o == Dlg!Without(m, "copy", s)
           n == [o EXCEPT !.kept = @ \cup {s}]
           e == [o EXCEPT !.kept = o.kept, !.vip = o.vip]
           no == FALSE
<1>1. Fair(o)
  BY FairAnswered, Zenon DEF DialogInv
<1>2. /\ ok => m' = Dlg!Ascends(n, s)
      /\ ~ok => m' = Dlg!Shows([o EXCEPT !.kept = o.kept], "donation", s, no)
  BY Zenon DEF Dlg!CopyAnswered, Dlg!Copied
<1>3. no \in BOOLEAN /\ "donation" \in Windows
  BY ModalWords
<1> HIDE DEF o, no
<1>4. [o EXCEPT !.kept = o.kept] = o
  BY <1>1 DEF Fair, DialogRec
<1>5. Fair(Dlg!Ascends(n, s))
  BY <1>1, AscendsDoes
<1>6. Fair(Dlg!Shows(o, "donation", s, no))
  BY <1>1, <1>3, FairShows
<1> HIDE DEF n
<1> QED
  BY <1>2, <1>4, <1>5, <1>6 DEF DialogInv

LEMMA LinkKeeps ==
  ASSUME DialogInv, Dlg!OpensLink
  PROVE  DialogInv'
<1>1. m.view.req \in Nat
  BY DialogFields DEF DialogInv, Fair
<1> QED
  BY <1>1, AscendsDoes DEF DialogInv, Dlg!OpensLink

-----------------------------------------------------------------------------
\* A request that is begun while a dialog is active makes the gap.
LEMMA AsksToSendKeeps ==
  ASSUME DialogInv, Dlg!AsksToSend
  PROVE  DialogInv'
<1> DEFINE n == m.req + 1
           b == m.begun + 1
           gap == m.gap \/ m.active # Dlg!None
           q == [m EXCEPT !.req = n, !.begun = b, !.gap = gap]
           t == Dlg!Asked(q, "count", n)
           a == [what |-> "count", req |-> n]
<1>1. DialogRec(m) /\ m.req \in Nat /\ m.gap \in BOOLEAN /\ m.active.req \in Nat /\ m.asks \in SUBSET Calls
  BY DialogFields DEF DialogInv, Fair
<1>2. m.view = Dlg!None /\ m' = t
  <2>1. m' = [Dlg!Asked(Dlg!Begun(m), "count", n) EXCEPT !.gap = @ \/ m.active # Dlg!None]
    BY DEF Dlg!AsksToSend
  <2>2. Dlg!Begun(m) = [m EXCEPT !.req = n, !.begun = b]
    BY DEF Dlg!Begun
  <2>3. [Dlg!Asked(Dlg!Begun(m), "count", n) EXCEPT !.gap = @ \/ m.active # Dlg!None] = t
    <3> DEFINE c == m.asks \cup {a}
    <3>1. Dlg!Asked(Dlg!Begun(m), "count", n) = [m EXCEPT !.req = n, !.begun = b, !.asks = c]
      BY <1>1, <2>2 DEF Dlg!Asked, DialogRec
    <3>2. t = [m EXCEPT !.req = n, !.begun = b, !.gap = gap, !.asks = c]
      BY <1>1 DEF Dlg!Asked, DialogRec
    <3> HIDE DEF c, t, n, b
    <3> QED
      BY <1>1, <3>1, <3>2, Zenon DEF DialogRec
  <2> QED
    BY <2>1, <2>3 DEF Dlg!AsksToSend
<1>3. n \in Nat /\ n > m.req /\ gap \in BOOLEAN /\ (m.gap => gap) /\ (m.active # Dlg!None => gap)
  BY <1>1
<1> HIDE DEF n, b, gap
<1>4. /\ DialogRec(q) /\ GivenSame(m, q) /\ q.asks = m.asks /\ q.says = m.says /\ q.req = n /\ q.gap = gap
      /\ q.view = m.view /\ q.active = m.active /\ q.astray = m.astray
  BY <1>1, <1>3, Zenon DEF DialogRec, GivenSame
<1> HIDE DEF q
<1>5. Heeded(q, t) /\ t.asks = q.asks \cup {a}
  BY <1>3, <1>4, AskedDoes DEF AskNames
<1>6. \A o, r : o # "count" \/ r # n => [what |-> o, req |-> r] # a
  BY OtherAsk
<1> HIDE DEF t
<1>7. /\ DialogRec(t) /\ GivenSame(m, t) /\ t.says = m.says /\ t.req = n /\ t.gap = gap /\ t.view = Dlg!None
      /\ t.active = m.active /\ t.astray = m.astray
  BY <1>2, <1>4, <1>5 DEF Heeded, SessionSame, GivenSame
<1>8. \A o, r : o # "count" \/ r # n => (In(t, o, r) <=> In(m, o, r))
  BY <1>4, <1>5, <1>6 DEF In
<1>9. \A x \in m.asks : x.req <= m.req /\ x.req \in Nat
  BY <1>1 DEF DialogInv, Fair, Pledged, Calls
<1>10. Standing(t)
  BY <1>1, <1>3, <1>7, ModalWords DEF DialogInv, Fair, Standing
<1>11. Pledged(t)
  <2>1. a.req = n
    OBVIOUS
  <2>2. \A x \in t.asks : x.req <= t.req
    BY <1>1, <1>3, <1>4, <1>5, <1>7, <1>9, <2>1
  <2>3. ~In(t, "preview", t.req)
    <3>1. [what |-> "preview", req |-> n].req = n
      OBVIOUS
    <3>2. ~In(m, "preview", n)
      BY <1>1, <1>3, <1>9, <3>1 DEF In
    <3> QED
      BY <1>7, <1>8, <3>2
  <2>4. m.view.req = 0
    BY <1>2, ModalWords
  <2>5. \A r \in Nat : In(t, "count", r) => r # 0 /\ r # t.view.req /\ r # t.active.req
    BY <1>1, <1>2, <1>3, <1>7, <1>8, <2>4 DEF DialogInv, Fair, Pledged, Standing
  <2> QED
    BY <2>2, <2>3, <2>5 DEF Pledged
<1>12. Spoke(t)
  <2>1. t.view.modal = "none"
    BY <1>7, ModalWords
  <2> QED
    BY <1>7, <2>1 DEF DialogInv, Fair, Spoke, Windows
<1>13. Sending(t)
  <2>1. t.active.modal = "send" => gap /\ m.active # m.view
    BY <1>2, <1>3, <1>7, ModalWords
  <2> QED
    BY <1>7, <2>1 DEF DialogInv, Fair, Sending
<1> QED
  BY <1>2, <1>7, <1>10, <1>11, <1>12, <1>13 DEF DialogInv, Fair, GivenSame

\* What the sending dialog says is of the active session: this is all there is to keep.
LEMMA FairSends ==
  ASSUME NEW q, Fair(q), NEW c \in Says,
         q.active.modal = "send" =>
           /\ c.msg \in {0, q.active.req}
           /\ c.busy => q.view = q.active /\ q.active.req = q.req /\ In(q, "send", q.active.req)
           /\ c.loading /\ ~q.gap => In(q, "preview", q.active.req)
  PROVE  Fair([q EXCEPT !.says["send"] = c])
<1> DEFINE t == [q EXCEPT !.says["send"] = c]
<1>1. DialogRec(q) /\ "send" \in Dlg!Modals
  BY ModalWords DEF Fair
<1>2. /\ DialogRec(t) /\ SessionSame(q, t) /\ GivenSame(q, t) /\ t.asks = q.asks
      /\ t.says["send"] = c /\ \A o \in Dlg!Modals : o # "send" => t.says[o] = q.says[o]
  BY <1>1, SaysChange
<1> HIDE DEF t
<1>3. \A o, r : In(t, o, r) <=> In(q, o, r)
  BY <1>2 DEF In
<1>4. Standing(t) /\ Pledged(t)
  BY <1>2, <1>3 DEF Fair, Standing, Pledged, SessionSame
<1>5. \A o \in Windows : t.says[o] = q.says[o]
  BY <1>2, ModalWords
<1>6. Spoke(t)
  <2>1. "feedback" \in Windows
    BY ModalWords
  <2> QED
    BY <1>2, <1>3, <1>5, <2>1 DEF Fair, Spoke, SessionSame, GivenSame
<1>7. Sending(t)
  BY <1>2, <1>3 DEF Sending, SessionSame
<1> QED
  BY <1>2, <1>4, <1>6, <1>7 DEF Fair, GivenSame, t

\* A count that is the latest request's opens the dialog of a session nobody has seen yet.
LEMMA CountKeeps ==
  ASSUME DialogInv, NEW s \in Nat, NEW fails \in BOOLEAN, Dlg!CountAnswered(s, fails)
  PROVE  DialogInv'
<1> DEFINE o == Dlg!Without(m, "count", s)
           v == [modal |-> "send", req |-> s]
           w == [o EXCEPT !.active = v]
           z == Dlg!Asked(w, "preview", s)
           c == [Dlg!Blank EXCEPT !.loading = TRUE]
           t == [z EXCEPT !.says["send"] = c]
           a == [what |-> "preview", req |-> s]
<1>1. DialogRec(m) /\ m.req \in Nat /\ m.view \in Sessions /\ m.view.req \in Nat
  BY DialogFields DEF DialogInv, Fair
<1>2. Fair(o)
  BY FairAnswered, Zenon DEF DialogInv
<1>3. Heeded(m, o) /\ o.asks = m.asks \ {[what |-> "count", req |-> s]}
  BY <1>1, WithoutDoes
<1>4. o.req = m.req /\ o.view = m.view /\ DialogRec(o) /\ o.says = m.says /\ o.gap = m.gap
  BY <1>3 DEF Heeded, SessionSame
<1>5. m' = o \/ (s = m.req /\ m' = t)
  <2>1. m' = o \/ (s = m.req /\ m' = [Dlg!Asked(Dlg!Opened(o, "send", s), "preview", s) EXCEPT !.says["send"] = c])
    BY DEF Dlg!CountAnswered, Dlg!Current
  <2>2. s = m.req => Dlg!Opened(o, "send", s) = w
    BY <1>4 DEF Dlg!Opened
  <2> HIDE DEF o, c, w
  <2> QED
    BY <2>1, <2>2
<1>6. In(m, "count", s) /\ ~In(o, "count", s)
  BY <1>3 DEF In, Dlg!Waits, Dlg!CountAnswered
<1> HIDE DEF o
<1>7. v \in Sessions /\ v.modal = "send" /\ v.req = s
  BY SessionIs, ModalWords
<1>8. a.req = s /\ \A x, r : x # "preview" => [what |-> x, req |-> r] # a
  BY OtherAsk
<1>9. c \in Says /\ c.msg = 0 /\ ~c.busy
  BY ModalWords, Zenon DEF Says
<1> HIDE DEF v, c
<1>10. /\ DialogRec(w) /\ GivenSame(o, w) /\ w.says = o.says /\ w.asks = o.asks /\ w.active = v
       /\ w.req = o.req /\ w.view = o.view /\ w.gap = o.gap /\ w.astray = o.astray
  BY <1>4, <1>7 DEF DialogRec, GivenSame
<1> HIDE DEF w
<1>11. Heeded(w, z) /\ z.asks = w.asks \cup {a}
  BY <1>10, AskedDoes DEF AskNames
<1> HIDE DEF z
<1>12. /\ DialogRec(z) /\ SessionSame(w, z) /\ GivenSame(w, z) /\ z.says = w.says
  BY <1>11 DEF Heeded
<1>13. /\ DialogRec(t) /\ SessionSame(z, t) /\ GivenSame(z, t) /\ t.asks = z.asks
       /\ t.says["send"] = c /\ \A x \in Dlg!Modals : x # "send" => t.says[x] = z.says[x]
  BY <1>9, <1>12, ModalWords, SaysChange
<1> HIDE DEF t, a
<1>14. /\ GivenSame(o, t) /\ t.active = v /\ t.req = o.req /\ t.view = o.view /\ t.gap = o.gap
       /\ t.astray = o.astray /\ t.asks = o.asks \cup {a}
       /\ \A x \in Dlg!Modals : x # "send" => t.says[x] = o.says[x]
  BY <1>10, <1>11, <1>12, <1>13 DEF SessionSame, GivenSame
<1>15. \A x, r : x # "preview" => (In(t, x, r) <=> In(o, x, r))
  BY <1>8, <1>14 DEF In
<1>16. ASSUME s = m.req PROVE Fair(t)
  <2>1. s # o.view.req /\ s \in Nat
    BY <1>1, <1>4, <1>6 DEF DialogInv, Fair, Pledged
  <2>2. Standing(t)
    BY <1>2, <1>4, <1>7, <1>14, <1>16, <2>1 DEF Fair, Standing
  <2>3. Pledged(t)
    <3>1. \A x \in t.asks : x.req <= t.req
      BY <1>1, <1>2, <1>4, <1>8, <1>14, <1>16 DEF Fair, Pledged
    <3>2. \A r \in Nat : In(t, "count", r) => r # 0 /\ r # t.view.req /\ r # t.active.req
      BY <1>2, <1>6, <1>7, <1>14, <1>15 DEF Fair, Pledged
    <3>3. t.active = [modal |-> "send", req |-> t.req]
      BY <1>4, <1>14, <1>16 DEF v
    <3> QED
      BY <3>1, <3>2, <3>3 DEF Pledged
  <2>4. Spoke(t)
    <3>1. \A x \in Windows : t.says[x] = o.says[x]
      BY <1>14, ModalWords
    <3>2. "feedback" \in Windows
      BY ModalWords
    <3> QED
      BY <1>2, <1>14, <1>15, <3>1, <3>2 DEF Fair, Spoke, GivenSame
  <2>5. Sending(t)
    <3>1. In(t, "preview", s)
      BY <1>14 DEF In, a
    <3> QED
      BY <1>7, <1>9, <1>13, <1>14, <3>1 DEF Sending
  <2> QED
    BY <1>2, <1>13, <1>14, <2>2, <2>3, <2>4, <2>5 DEF Fair, GivenSame
<1> QED
  BY <1>2, <1>5, <1>16 DEF DialogInv

LEMMA PreviewKeeps ==
  ASSUME DialogInv, NEW s \in Nat, NEW fails \in BOOLEAN, Dlg!PreviewAnswered(s, fails)
  PROVE  DialogInv'
<1> DEFINE o == Dlg!Without(m, "preview", s)
           i == IF fails THEN 0 ELSE s
           no == FALSE
           c == [m.says["send"] EXCEPT !.msg = i, !.loading = no]
           q == [m EXCEPT !.says["send"] = c]
<1>1. /\ DialogRec(m) /\ m.req \in Nat /\ "send" \in Dlg!Modals /\ m.says["send"] \in Says
      /\ m.says \in [Dlg!Modals -> Says] /\ m.active \in Sessions
  BY DialogFields, ModalWords DEF DialogInv, Fair
<1>2. CASE s # m.req
  <2>1. m' = o
    BY <1>2 DEF Dlg!PreviewAnswered, Dlg!Current
  <2>2. Fair(o)
    BY <1>2, FairAnswered, Zenon DEF DialogInv
  <2> HIDE DEF o
  <2> QED
    BY <2>1, <2>2 DEF DialogInv
<1>3. CASE s = m.req
  <2>1. /\ m' = [o EXCEPT !.says["send"].msg = IF fails THEN 0 ELSE s, !.says["send"].loading = FALSE]
        /\ In(m, "preview", m.req)
    BY <1>3 DEF Dlg!PreviewAnswered, Dlg!Current, Dlg!Waits, In
  <2>2. i \in {0, s} /\ i \in Nat /\ no \in BOOLEAN /\ ~no
    OBVIOUS
  <2>3. m' = [o EXCEPT !.says["send"].msg = i, !.says["send"].loading = no]
    BY <2>1
  <2> HIDE DEF i, no
  <2>4. m.active.req = s
    BY <1>3, <2>1 DEF DialogInv, Fair, Pledged
  <2>5. c \in Says /\ c.msg = i /\ ~c.loading /\ c.busy = m.says["send"].busy
    BY <1>1, <2>2, Zenon DEF Says
  <2>6. m' = Dlg!Without(q, "preview", s)
    <3> DEFINE asks == m.asks \ {[what |-> "preview", req |-> s]}
               says == [m.says EXCEPT !["send"] = c]
    <3>1. o = [m EXCEPT !.asks = asks]
      BY DEF Dlg!Without
    <3>2. q = [m EXCEPT !.says = says]
      OBVIOUS
    <3>3. Dlg!Without(q, "preview", s) = [m EXCEPT !.asks = asks, !.says = says]
      <4>1. q.asks = m.asks
        BY <1>1 DEF DialogRec
      <4> HIDE DEF q
      <4>2. Dlg!Without(q, "preview", s) = [q EXCEPT !.asks = asks]
        BY <4>1 DEF Dlg!Without
      <4> HIDE DEF asks, says
      <4> QED
        BY <1>1, <3>2, <4>2, Zenon DEF DialogRec
    <3> HIDE DEF asks, o, q
    <3>4. m' = [m EXCEPT !.asks = asks, !.says = says]
      BY <1>1, <2>3, <3>1, Zenon DEF DialogRec
    <3> QED
      BY <3>3, <3>4
  <2> HIDE DEF c
  <2>7. Fair(q)
    BY <2>2, <2>4, <2>5, FairSends DEF DialogInv, Fair, Sending
  <2>8. ~q.says["send"].loading
    BY <1>1, <2>5, SaysChange
  <2> HIDE DEF q
  <2>9. Fair(Dlg!Without(q, "preview", s))
    BY <2>7, <2>8, FairAnswered, Zenon
  <2> QED
    BY <2>6, <2>9 DEF DialogInv
<1> QED
  BY <1>2, <1>3

\* What is confirmed is the latest request's dialog, and so the active one.
LEMMA ConfirmsKeeps ==
  ASSUME DialogInv, Dlg!Confirms
  PROVE  DialogInv'
<1> DEFINE t == Dlg!Asked(m, "send", m.view.req)
           yes == TRUE
           c == [t.says["send"] EXCEPT !.busy = yes]
<1>1. /\ DialogRec(m) /\ m.view.req \in Nat /\ "send" \in Dlg!Modals
  BY DialogFields, ModalWords DEF DialogInv, Fair
<1>2. /\ m.view.modal = "send" /\ m.view.req = m.req
      /\ m' = [t EXCEPT !.says["send"].busy = yes]
  BY DEF Dlg!Confirms, Dlg!Current
<1>3. m.active = m.view
  BY <1>2, ModalWords DEF DialogInv, Fair, Standing
<1>4. Fair(t)
  BY <1>1, FairAsked DEF DialogInv, Fair, Standing
<1>5. Heeded(m, t) /\ In(t, "send", m.view.req)
  BY <1>1, AskedDoes DEF AskNames, In
<1> HIDE DEF t
<1>6. DialogRec(t) /\ t.says["send"] \in Says /\ t.view = m.view /\ t.active = m.active /\ t.req = m.req
  BY <1>1, <1>5, DialogFields DEF Heeded, SessionSame
<1>7. yes \in BOOLEAN
  OBVIOUS
<1> HIDE DEF yes
<1>8. /\ c \in Says /\ c.msg = t.says["send"].msg /\ (c.loading <=> t.says["send"].loading)
  BY <1>6, <1>7 DEF Says
<1>9. m' = [t EXCEPT !.says["send"] = c]
  BY <1>2, <1>6 DEF DialogRec
<1> HIDE DEF c
<1>10. Fair([t EXCEPT !.says["send"] = c])
  BY <1>2, <1>3, <1>4, <1>5, <1>6, <1>8, FairSends DEF Fair, Sending
<1> QED
  BY <1>9, <1>10 DEF DialogInv

LEMMA ReportChange ==
  ASSUME NEW q, Fair(q), NEW report, NEW upto
  PROVE  LET t == [q EXCEPT !.sent = report, !.upto = upto] IN
           Fair(t) /\ t.says = q.says /\ t.req = q.req
<1> DEFINE t == [q EXCEPT !.sent = report, !.upto = upto]
<1>1. /\ DialogRec(t) /\ SessionSame(q, t) /\ t.says = q.says /\ t.asks = q.asks /\ t.lines = q.lines
      /\ t.files = q.files /\ t.kept = q.kept /\ t.vip = q.vip
  BY Zenon DEF Fair, DialogRec, SessionSame
<1> HIDE DEF t
<1>2. Fair(t)
  BY <1>1, FairGiven DEF Fair
<1> QED
  BY <1>1, <1>2 DEF t, SessionSame

LEMMA SendKeeps ==
  ASSUME DialogInv, NEW s \in Nat, NEW ok \in BOOLEAN, Dlg!SendAnswered(s, ok)
  PROVE  DialogInv'
<1> DEFINE o == Dlg!Without(m, "send", s)
           a == Dlg!Fitted(m.log)
           b == Len(m.log)
           q == [o EXCEPT !.sent = a, !.upto = b]
           no == FALSE
           v == [modal |-> "send", req |-> s]
           asks == m.asks \ {[what |-> "send", req |-> s]}
<1>1. /\ DialogRec(m) /\ m.req \in Nat /\ "send" \in Dlg!Modals /\ m.says["send"] \in Says
      /\ m.says \in [Dlg!Modals -> Says] /\ m.active \in Sessions
  BY DialogFields, ModalWords DEF DialogInv, Fair
<1>2. /\ s # m.req => m' = q
      /\ s = m.req /\ ok => m' = Dlg!Closed(q, "send", s)
      /\ s = m.req /\ ~ok => m' = [q EXCEPT !.says["send"].busy = no]
  BY DEF Dlg!SendAnswered, Dlg!Current
<1>3. m.active = v <=> m.active.modal = "send" /\ m.active.req = s
  BY <1>1, SessionIs
<1>4. o = [m EXCEPT !.asks = asks]
  BY DEF Dlg!Without
<1>5. q = [m EXCEPT !.asks = asks, !.sent = a, !.upto = b]
  BY <1>1, <1>4, Zenon DEF DialogRec
<1> HIDE DEF a, b
<1>6. ASSUME s # m.req \/ ~m.says["send"].busy \/ m.active.modal # "send" PROVE Fair(q)
  <2>1. Fair(o)
    BY <1>6, FairAnswered, Zenon DEF DialogInv
  <2> HIDE DEF o
  <2> QED
    BY <2>1, ReportChange, Zenon
<1>7. CASE s # m.req
  BY <1>2, <1>6, <1>7 DEF DialogInv
<1>8. CASE s = m.req /\ ~ok
  <2> DEFINE c == [m.says["send"] EXCEPT !.busy = no]
             says == [m.says EXCEPT !["send"] = c]
             x == [m EXCEPT !.says["send"] = c]
             y == Dlg!Without(x, "send", s)
  <2>1. no \in BOOLEAN /\ ~no
    OBVIOUS
  <2> HIDE DEF no
  <2>2. /\ c \in Says /\ c.msg = m.says["send"].msg /\ ~c.busy /\ c.loading = m.says["send"].loading
    BY <1>1, <2>1 DEF Says
  <2>3. x = [m EXCEPT !.says = says]
    OBVIOUS
  <2>4. m' = [m EXCEPT !.asks = asks, !.sent = a, !.upto = b, !.says = says]
    <3> HIDE DEF asks
    <3>1. [q EXCEPT !.says["send"].busy = no] = [m EXCEPT !.asks = asks, !.sent = a, !.upto = b, !.says = says]
      BY <1>1, <1>5, Zenon DEF DialogRec
    <3> QED
      BY <1>2, <1>8, <3>1
  <2> HIDE DEF c
  <2>5. Fair(x)
    BY <2>2, FairSends DEF DialogInv, Fair, Sending
  <2>6. ~x.says["send"].busy /\ x.asks = m.asks
    BY <1>1, <2>2, SaysChange
  <2> HIDE DEF says, x
  <2>7. y = [x EXCEPT !.asks = asks]
    BY <2>6 DEF Dlg!Without
  <2>8. Fair(y)
    BY <2>5, <2>6, FairAnswered, Zenon
  <2> HIDE DEF y, asks
  <2>9. m' = [y EXCEPT !.sent = a, !.upto = b]
    BY <1>1, <2>3, <2>4, <2>7, Zenon DEF DialogRec
  <2> QED
    BY <2>8, <2>9, ReportChange, Zenon DEF DialogInv
<1>9. CASE s = m.req /\ ok /\ m.active = v
  <2> DEFINE n == m.req + 1
             astray == m.astray \/ m.active.req # s
             x == Dlg!Closed(m, "send", s)
             y == Dlg!Without(x, "send", s)
  <2>1. q.active = m.active /\ q.req = m.req /\ q.astray = m.astray
    BY <1>1, <1>5, Zenon DEF DialogRec
  <2> HIDE DEF q, o
  <2>2. Dlg!Closed(q, "send", s) = [q EXCEPT !.req = n, !.active = Dlg!None, !.astray = astray]
    BY <1>9, <2>1 DEF Dlg!Closed, DialogRec
  <2>3. x = [m EXCEPT !.req = n, !.active = Dlg!None, !.astray = astray]
    BY <1>9 DEF Dlg!Closed
  <2> HIDE DEF n, astray, v
  <2>4. m' = [m EXCEPT !.asks = asks, !.sent = a, !.upto = b, !.req = n, !.active = Dlg!None, !.astray = astray]
    <3> HIDE DEF asks
    <3> QED
      BY <1>1, <1>2, <1>5, <1>9, <2>2 DEF DialogRec
  <2>5. Fair(x)
    BY <1>1, FairClosed DEF DialogInv
  <2>6. x.active.modal # "send" /\ x.asks = m.asks
    BY <1>1, <2>3, ModalWords, Zenon DEF DialogRec
  <2> HIDE DEF x
  <2>7. y = [x EXCEPT !.asks = asks]
    BY <2>6 DEF Dlg!Without
  <2>8. Fair(y)
    BY <2>5, <2>6, FairAnswered, Zenon
  <2> HIDE DEF y, asks
  <2>9. m' = [y EXCEPT !.sent = a, !.upto = b]
    BY <1>1, <2>3, <2>4, <2>7, Zenon DEF DialogRec
  <2> QED
    BY <2>8, <2>9, ReportChange, Zenon DEF DialogInv
<1>10. CASE s = m.req /\ ok /\ m.active # v
  <2>1. Fair(q)
    BY <1>3, <1>6, <1>10 DEF DialogInv, Fair, Sending
  <2> HIDE DEF q
  <2> QED
    BY <1>1, <1>2, <1>10, <2>1, FairClosed DEF DialogInv
<1> QED
  BY <1>7, <1>8, <1>9, <1>10

-----------------------------------------------------------------------------
LEMMA DialogStep ==
  ASSUME DialogInv, Dlg!Next
  PROVE  DialogInv'
<1>1. CASE \E w \in Dlg!Modals : Dlg!UserOpens(w) \/ Dlg!MessageFades(w)
  BY <1>1, DialogOpensKeeps, FadesKeeps
<1>2. CASE Dlg!UserCloses \/ Dlg!Renders
  BY <1>2, UserClosesKeeps, DialogRendersKeeps
<1>3. CASE Dlg!Saves \/ Dlg!ClosesAfterSave \/ Dlg!OpensIssue \/ Dlg!Copies \/ Dlg!OpensLink
  BY <1>3, SavesKeeps, DialogClosesKeeps, PagesKeep, LinkKeeps
<1>4. CASE Dlg!AsksToSend \/ Dlg!Confirms
  BY <1>4, AsksToSendKeeps, ConfirmsKeeps
<1>5. \A s \in Dlg!Requests, b \in BOOLEAN, line \in BOOLEAN :
        \/ Dlg!SaveAnswered(s, line, b) \/ Dlg!IssueAnswered(s, b) \/ Dlg!AboutAnswered(s)
        \/ Dlg!CopyAnswered(s, b) \/ Dlg!CountAnswered(s, b) \/ Dlg!PreviewAnswered(s, b)
        \/ Dlg!SendAnswered(s, b)
        => DialogInv'
  <2> SUFFICES ASSUME NEW s \in Dlg!Requests, NEW b \in BOOLEAN, NEW line \in BOOLEAN,
                      \/ Dlg!SaveAnswered(s, line, b) \/ Dlg!IssueAnswered(s, b) \/ Dlg!AboutAnswered(s)
                      \/ Dlg!CopyAnswered(s, b) \/ Dlg!CountAnswered(s, b) \/ Dlg!PreviewAnswered(s, b)
                      \/ Dlg!SendAnswered(s, b)
               PROVE  DialogInv'
    OBVIOUS
  <2>1. s \in Nat
    <3>1. PICK x \in m.asks : x.req = s
      BY Zenon DEF Dlg!SaveAnswered, Dlg!IssueAnswered, Dlg!AboutAnswered, Dlg!CopyAnswered, Dlg!CountAnswered,
             Dlg!PreviewAnswered, Dlg!SendAnswered, Dlg!Waits
    <3> QED
      BY <3>1, DialogFields DEF DialogInv, Fair, Calls
  <2> QED
    BY <2>1, SaveAnsweredKeeps, IssueKeeps, AboutKeeps, CopyKeeps, CountKeeps, PreviewKeeps, SendKeeps
<1>6. CASE \E s \in Dlg!Requests, b \in BOOLEAN :
             \/ (\E line \in BOOLEAN : Dlg!SaveAnswered(s, line, b))
             \/ Dlg!IssueAnswered(s, b) \/ Dlg!AboutAnswered(s) \/ Dlg!CopyAnswered(s, b)
             \/ Dlg!CountAnswered(s, b) \/ Dlg!PreviewAnswered(s, b) \/ Dlg!SendAnswered(s, b)
  BY <1>5, <1>6
<1> QED
  BY <1>1, <1>2, <1>3, <1>4, <1>6 DEF Dlg!Next

-----------------------------------------------------------------------------
(* The renderer in the desktop process *)

RendererInv ==
  /\ part = "dialogs" => DialogInv
  /\ part = "page"    => PageInv
  /\ part = "rest"    => RestInv
  /\ part = "talk"    => TalkInv
  /\ part = "life"    => LifeInv

LEMMA RendererStart == Init => RendererInv
BY DialogStart, PageStart, RestStart, TalkStart, LifeStart DEF Init, RendererInv

LEMMA RendererStep == ASSUME ChangeLimits, RendererInv, [Next]_vars PROVE RendererInv'
<1>1. CASE UNCHANGED vars
  <2>1. m' = m /\ part' = part
    BY <1>1 DEF vars
  <2>2. (DialogInv => DialogInv') /\ (PageInv => PageInv') /\ (TalkInv => TalkInv')
    BY <2>1 DEF DialogInv, PageInv, TalkInv
  <2>3. RestInv => RestInv'
    BY <2>1 DEF RestInv, PointerInv, Rest!PetRests, Rest!RestIsEarned, Rest!FocusIsKnown, Rest!HoldIsTrue,
       Rest!NeverStuckAwake
  <2>4. LifeInv => LifeInv'
    BY <2>1 DEF LifeInv, GateInv, SceneInv, BagInv, Life!AmbientFollows
  <2> QED
    BY <2>1, <2>2, <2>3, <2>4 DEF RendererInv
<1>2. CASE part = "dialogs" /\ Dlg!Next /\ UNCHANGED part
  BY <1>2, DialogStep DEF RendererInv
<1>3. CASE part = "page" /\ Page!Next /\ UNCHANGED part
  BY <1>3, PageStep DEF RendererInv
<1>4. CASE part = "rest" /\ Rest!Next /\ UNCHANGED part
  BY <1>4, RestStep DEF RendererInv
<1>5. CASE part = "talk" /\ Talk!Next /\ UNCHANGED part
  BY <1>5, TalkStep DEF RendererInv
<1>6. CASE part = "life" /\ Life!Next /\ UNCHANGED part
  BY <1>6, LifeStep DEF RendererInv
<1>7. CASE part \notin {"dialogs", "page", "rest", "talk", "life"} /\ UNCHANGED part
  BY <1>7 DEF RendererInv
<1> QED
  BY <1>1, <1>2, <1>3, <1>4, <1>5, <1>6, <1>7 DEF Next, Of

\* For any number of requests, views, tips and events, in any order of answers, timers and
\* clicks: no late answer or timer reaches a dialog it does not belong to, a quiet page shows
\* what is true, and the pet rests, speaks and acts by its events (App.tsx, Layout.tsx,
\* Settings.tsx, Models.tsx, PetWidget.tsx).
THEOREM RendererIsKept == ASSUME ChangeLimits PROVE Spec => []RendererIsHonest
<1>1. Init => RendererInv
  BY RendererStart
<1>2. RendererInv /\ [Next]_vars => RendererInv'
  BY RendererStep
<1>3. RendererInv => RendererIsHonest
  BY DialogIsGood, PageIsGood, TalkIsGood, LifeIsGood
  DEF RendererInv, RestInv, RendererIsHonest, Dlg!DialogsAreHonest
<1> QED
  BY <1>1, <1>2, <1>3, PTL DEF Spec
=============================================================================

------------------------------- MODULE Views -------------------------------
(***************************************************************************)
(* What the renderer's pages show and what is true in the main process:    *)
(* the gateway's status, polled and pushed (Layout.tsx, index.ts), the     *)
(* lists and switches changed ahead of their answers (Dashboard.tsx,       *)
(* Settings.tsx), and the models with their second copy in a store         *)
(* (Models.tsx, Settings.tsx). A query's cache behaves as the code uses    *)
(* it: one fetch at a time, cancelled or asked anew on demand.             *)
(***************************************************************************)
EXTENDS Integers, Sequences, FiniteSets

CONSTANTS MaxStatus,   \* bound: states the gateway goes through
          MaxChanges,  \* bound: changes by the user
          MaxViews     \* bound: windows opened after the first

VARIABLE w             \* one page's query, one record

Fields == {"first", "second"}
Values == [Fields -> 0 .. 1]
Unread == [first |-> -1, second |-> -1]
Asked  == [first |-> -2, second |-> -2]
Idle   == [first |-> -3, second |-> -3]
Status(n) == [first |-> n, second |-> 0]

Change == [id : 1 .. MaxChanges, field : Fields, value : 0 .. 1, done : BOOLEAN, page : {"models", "settings"}]

TypeOK ==
  /\ w.kind \in {"status", "switches", "models"}
  /\ w.view \in {"none", "loading", "hidden", "models", "settings"}
  /\ w.views \in 0 .. MaxViews /\ w.made \in 0 .. MaxChanges
  /\ \A v \in {w.truth, w.data, w.store} : v \in Values \cup {Unread} \/ v.first \in 0 .. MaxStatus
  /\ w.fetch \in {Idle, Asked} \/ w.fetch.first \in 0 .. MaxStatus
  /\ w.pushes \in Seq(0 .. MaxStatus) /\ w.behind \in BOOLEAN  \* the fetch was read after a push
  /\ w.changes \subseteq Change                                \* mutations under way
  /\ w.prev \in [1 .. MaxChanges -> Values \cup {Unread}]      \* context.previous
  /\ w.refreshing \in BOOLEAN                                  \* refreshMutation
  /\ w.error \in BOOLEAN                                       \* the last fetch failed
  /\ w.untold \subseteq {"models", "settings"}                 \* pages told of a failure that was none
  /\ w.back \in BOOLEAN                                        \* an older status replaced a newer

Mounted == w.view \in {"hidden", "models", "settings"}

-----------------------------------------------------------------------------
(* The cache *)

Cancel(q) == [q EXCEPT !.fetch = Idle]
Ask(q)    == IF q.fetch = Idle THEN [q EXCEPT !.fetch = Asked, !.behind = FALSE] ELSE q
Anew(q)   == [q EXCEPT !.fetch = Asked, !.behind = FALSE]
Put(q, v) == [q EXCEPT !.data = v, !.error = FALSE,
                       !.back = @ \/ (q.kind = "status" /\ v.first < q.data.first),
                       !.store = IF q.kind = "models" /\ q.view = "settings" /\ v # q.data THEN v ELSE @]

\* The poll, or the window's return to view; the models page does not poll.
Polls ==
  /\ Mounted /\ w.view # "hidden" /\ w.kind # "models" /\ w.fetch = Idle
  /\ w' = Ask(w)

\* The main process, or the gateway behind it, reads what it answers.
IsRead ==
  /\ Mounted /\ w.fetch = Asked /\ w.kind # "models"
  /\ w' = [w EXCEPT !.fetch = w.truth, !.behind = w.pushes # <<>>]

\* An answer comes late, but no earlier than the pushes sent before it.
Answered ==
  /\ Mounted /\ w.fetch \notin {Idle, Asked} /\ ~(w.behind /\ w.pushes # <<>>)
  /\ w' = Put(Cancel(w), w.fetch)
Fails == Mounted /\ w.kind = "switches" /\ w.fetch # Idle /\ w' = [Cancel(w) EXCEPT !.error = TRUE]

-----------------------------------------------------------------------------
(* The status *)

\* onStatusChange and sendGatewayStatus: a push reaches a page that listens.
StatusChanges ==
  /\ w.kind = "status" /\ w.truth.first < MaxStatus
  /\ w' = [w EXCEPT !.truth.first = @ + 1,
                    !.pushes = IF Mounted THEN Append(@, w.truth.first + 1) ELSE @]

\* The push cancels a fetch on its way and is itself what is shown.
Pushed(q, v) == Put(Cancel(q), v)

PushArrives ==
  /\ Mounted /\ w.pushes # <<>>
  /\ w' = Pushed([w EXCEPT !.pushes = Tail(@)], Status(Head(w.pushes)))

\* The window closes, or is made again; the page listens and asks as it mounts.
WindowGoes ==
  /\ w.view # "none" /\ w.kind = "status" /\ w.views < MaxViews
  /\ w' = [w EXCEPT !.view = "none", !.pushes = <<>>, !.data = Unread, !.fetch = Idle, !.views = @ + 1]
WindowComes == w.view = "none" /\ w' = [w EXCEPT !.view = "loading"]

\* Layout mounts: its query asks, whatever it was hydrated with.
Mounted1(q, v) == Anew([q EXCEPT !.view = v])

Hydrates == w.view = "loading" /\ w.data = Unread /\ w' = [w EXCEPT !.data = w.truth]
Mounts   == w.view = "loading" /\ w.data # Unread /\ w' = Mounted1(w, "models")
Hides    == w.kind = "status" /\ w.view = "models" /\ w' = [w EXCEPT !.view = "hidden"]
Reveals  == w.view = "hidden" /\ w' = Ask([w EXCEPT !.view = "models"])

-----------------------------------------------------------------------------
(* Lists and switches changed ahead of the answer *)

Pending(page, f) == \E c \in w.changes : c.page = page /\ c.field = f

\* onMutate: a fetch on its way is cancelled, what is shown is kept and changed at once.
Mutates(f, v) ==
  /\ w.kind = "switches" /\ Mounted /\ w.data # Unread /\ w.made < MaxChanges
  /\ f = "second" => ~Pending("models", f)          \* a switch waits for its answer, an order does not
  /\ w' = [Put(Cancel(w), [w.data EXCEPT ![f] = v])
             EXCEPT !.made = @ + 1, !.prev[w.made + 1] = w.data,
                    !.changes = @ \cup {[id |-> w.made + 1, field |-> f, value |-> v, done |-> FALSE,
                                         page |-> "models"]}]

\* The main process makes the change, and its answer is on its way.
Applies(c) ==
  /\ c \in w.changes /\ ~c.done /\ w.kind = "switches"
  /\ w' = [w EXCEPT !.truth[c.field] = c.value, !.changes = (@ \ {c}) \cup {[c EXCEPT !.done = TRUE]}]

Settled(q, ok) == Anew(q)

\* onError puts back what was shown before; onSettled asks anew whatever happened. An
\* error may hide a change that was made.
Settles(c, ok) ==
  /\ c \in w.changes /\ w.kind = "switches" /\ (ok => c.done)
  /\ LET q == [w EXCEPT !.changes = @ \ {c}]
     IN w' = Settled(IF ok THEN q ELSE Put(q, w.prev[c.id]), ok)

-----------------------------------------------------------------------------
(* The models and their store *)

OnModels == w.kind = "models" /\ Mounted

\* The settings page copies the query's data into the store when it opens and when it changes.
Navigates(page) ==
  /\ OnModels /\ page # w.view
  /\ w' = [w EXCEPT !.view = page, !.store = IF page = "settings" /\ w.data # Unread THEN w.data ELSE @]

\* The models' answers leave the main process in the order its changes were made.
ModelsAnswered == OnModels /\ w.fetch = Asked /\ w' = Put(Cancel(w), w.truth)

Toggles(f, v) ==
  /\ OnModels /\ w.view \in {"models", "settings"} /\ w.made < MaxChanges /\ ~Pending(w.view, f)
  /\ (w.view = "models" => w.data # Unread /\ v # w.data[f])
  /\ (w.view = "settings" => w.store # Unread /\ v # w.store[f])
  /\ w' = [w EXCEPT !.made = @ + 1,
                    !.changes = @ \cup {[id |-> w.made + 1, field |-> f, value |-> v, done |-> FALSE,
                                         page |-> w.view]}]

InStore(q, c) == IF q.store = Unread THEN q.store ELSE [q.store EXCEPT ![c.field] = c.value]

\* A success changes the store and asks for the list anew.
Toggled(q, c) == Anew([q EXCEPT !.store = InStore(q, c)])

\* The first answer comes first. A failure is followed by a fetch from the settings page
\* only, so that from the other one a change that was made after all goes unseen.
ToggleAnswered(c, made, ok) ==
  /\ OnModels /\ c \in w.changes /\ (\A e \in w.changes : c.id <= e.id) /\ (ok => made)
  /\ LET q == [w EXCEPT !.changes = @ \ {c}, !.truth[c.field] = IF made THEN c.value ELSE @]
     IN w' = CASE ok                    -> Toggled(q, c)
               [] OTHER -> LET s == [q EXCEPT !.untold = IF made THEN @ \cup {c.page} ELSE @]
                           IN IF c.page = "settings" THEN Anew(s) ELSE s

\* bulkToggleModels: the answer is the list.
BulkToggles(v, made, ok) ==
  /\ OnModels /\ w.view = "models" /\ w.made < MaxChanges /\ w.data # Unread /\ w.changes = {}
  /\ ok => made
  /\ LET all == [f \in Fields |-> v]
         q == [w EXCEPT !.made = @ + 1, !.truth = IF made THEN all ELSE @]
     IN w' = IF ok THEN Anew(Put([q EXCEPT !.store = all], all)) ELSE [q EXCEPT !.untold = IF made THEN @ \cup {"models"} ELSE @]

\* refreshMutation on the settings page: the list goes to the store, then the query asks.
Refreshes == OnModels /\ w.view = "settings" /\ ~w.refreshing /\ w.made < MaxChanges
             /\ w' = [w EXCEPT !.refreshing = TRUE, !.made = @ + 1]
Refreshed(ok) ==
  /\ w.refreshing
  /\ w' = Anew([w EXCEPT !.refreshing = FALSE, !.store = IF ok THEN w.truth ELSE @])

-----------------------------------------------------------------------------

Init ==
  \E kind \in {"status", "switches", "models"} :
    w = [kind |-> kind, view |-> IF kind = "status" THEN "loading" ELSE "models", views |-> 0, made |-> 0,
         truth |-> Status(0), data |-> Unread, store |-> Unread,
         fetch |-> IF kind = "status" THEN Idle ELSE Asked, pushes |-> <<>>, behind |-> FALSE,
         changes |-> {}, prev |-> [i \in 1 .. MaxChanges |-> Unread], refreshing |-> FALSE,
         error |-> FALSE, untold |-> {}, back |-> FALSE]

Arrives == IsRead \/ Answered \/ ModelsAnswered
Next ==
  \/ Polls \/ Arrives \/ Fails \/ StatusChanges \/ PushArrives \/ WindowGoes \/ WindowComes
  \/ Hydrates \/ Mounts \/ Hides \/ Reveals \/ Refreshes
  \/ (\E f \in Fields, v \in 0 .. 1 : Mutates(f, v) \/ Toggles(f, v))
  \/ (\E page \in {"models", "settings"} : Navigates(page))
  \/ (\E ok \in BOOLEAN : Refreshed(ok))
  \/ (\E v \in 0 .. 1, made, ok \in BOOLEAN : BulkToggles(v, made, ok))
  \/ \E c \in w.changes : \/ Applies(c)
                          \/ \E ok, made \in BOOLEAN : Settles(c, ok) \/ ToggleAnswered(c, made, ok)

Spec == Init /\ [][Next]_w

-----------------------------------------------------------------------------
(* Properties *)

\* A page with nothing on its way shows the truth, however polls, pushes, changes, their
\* failures and their answers met; a list that could not be fetched says so.
QuietIsTrue ==
  /\ Mounted /\ w.fetch = Idle /\ w.pushes = <<>> /\ w.changes = {} /\ ~w.error /\ "models" \notin w.untold =>
       w.data = w.truth
  /\ w.view = "settings" /\ w.fetch = Idle /\ w.changes = {} /\ ~w.refreshing /\ w.untold = {} =>
       w.store = w.truth

\* A page that watches never sees the gateway go back to an earlier state.
StatusGoesForward == ~w.back

PagesAreHonest == QuietIsTrue /\ StatusGoesForward
=============================================================================

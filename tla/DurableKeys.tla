------------------------------ MODULE DurableKeys ------------------------------
(***************************************************************************)
(* What durable key administration promises, without a protocol: the store *)
(* may change at any moment while a key's outcome is open, and an answer   *)
(* "done" is given only for what is stored and then binds the store.       *)
(***************************************************************************)
CONSTANTS Keys

VARIABLES
  stored,   \* what a launch of the application would read
  answered  \* the value last answered as done, while it stands

Values  == {"absent", "active", "disabled"}
Unknown == "unknown"

Init == stored \in [Keys -> Values] /\ answered = [k \in Keys |-> Unknown]

\* Answers are withdrawn: a new change of the key is asked for, or the answer was lost.
Withdraw(ks) == /\ answered' = [k \in Keys |-> IF k \in ks THEN Unknown ELSE answered[k]]
                /\ UNCHANGED stored

\* A write, complete or not, of a change or of its undoing: only keys whose
\* outcome is open may change.
Write == /\ stored' \in [Keys -> Values]
         /\ \A k \in Keys : answered[k] # Unknown => stored'[k] = stored[k]
         /\ UNCHANGED answered

\* The change of key k is answered as done.
Answer(k) == /\ answered' = [answered EXCEPT ![k] = stored[k]]
             /\ UNCHANGED stored

Next == \/ Write
        \/ \E k \in Keys : Answer(k)
        \/ \E ks \in SUBSET Keys : Withdraw(ks)

Spec == Init /\ [][Next]_<<stored, answered>>
=============================================================================

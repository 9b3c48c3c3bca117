------------------------------ MODULE MCKeyPool ------------------------------
(***************************************************************************)
(* A small instance of KeyPool in two parts, which bound its steps in two  *)
(* ways. "parking": one key that two requests without a model use while    *)
(* the ladders climb. "routing": two keys and one model, a clock that may  *)
(* be set back, no ladder climbing.                                        *)
(*                                                                         *)
(* One tick stands for ten seconds to an hour: only the order of the       *)
(* windows matters (short < quota < auth, ladders doubling).               *)
(***************************************************************************)
EXTENDS KeyPool, TLC

CONSTANTS k1, k2, m1, r1, r2

VARIABLE part

Parking ==
  /\ \/ \E r \in Requests, excluded \in SUBSET Keys : Select(r, NoModel, excluded)
     \/ SweepOnly(NoModel)
     \/ \E r \in Requests, k \in Keys : Verdict(r, k)
     \/ Administer \/ Tick \/ Reload
  /\ Cardinality(issued') <= 1

Routing ==
  \/ \E m \in Models \cup {NoModel}, excluded \in SUBSET Keys : Select(r1, m, excluded)
  \/ \E m \in Models \cup {NoModel} : SweepOnly(m)
  \/ \E k \in Keys, d \in ShortBackoffs : ModelRateLimit(r1, k, d) \/ ShortBackoff(r1, k, d)
  \/ \E k \in Keys : CountedFailure(r1, k) \/ Success(r1, k)
  \/ Administer \/ StepBack \/ Reload
  \/ now = 0 /\ Tick

InitParts ==
  Init /\ \/ part = "parking" /\ Cardinality(issued) <= 1
          \/ part = "routing"
NextParts ==
  part' = part /\ \/ part = "parking" /\ Parking
                  \/ part = "routing" /\ Routing

SpecParts == InitParts /\ [][NextParts]_<<part, vars>>

Symmetry == Permutations({k1, k2})
=============================================================================

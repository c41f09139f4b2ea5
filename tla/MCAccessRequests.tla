-------------------------- MODULE MCAccessRequests --------------------------
(***************************************************************************)
(* Instances of AccessRequests for TLC: bob asks several times for access   *)
(* to a dataset of alice, who approves and denies; root, an administrator,  *)
(* tries to approve as well.                                               *)
(***************************************************************************)
EXTENDS AccessRequests, TLC

CONSTANTS ds, alice, bob, root, yes, no, yesByRoot

MCOwner == [d \in Dataset |-> alice]
MCActor == [o \in Op |-> IF o \in Ask THEN bob ELSE IF o = yesByRoot THEN root ELSE alice]
MCTarget == [o \in Op |-> <<ds, bob>>]
MCVerdict == [o \in Decide |-> IF o = no THEN "denied" ELSE "approved"]

\* The asks of one user are interchangeable.
AskSymmetry == Permutations(Ask)
=============================================================================

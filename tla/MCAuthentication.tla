------------------------- MODULE MCAuthentication -------------------------
(***************************************************************************)
(* Instances of Authentication for TLC.                                     *)
(***************************************************************************)
EXTENDS Authentication, TLC

CONSTANTS writer, reader, alice, bob

\* The users are interchangeable, and so are the instances of the read pool.
AuthSymmetry == Permutations(User) \cup Permutations(Instance \ {Writer})
=============================================================================

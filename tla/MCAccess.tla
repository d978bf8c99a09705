------------------------------ MODULE MCAccess ------------------------------
(***************************************************************************)
(* Instances of the way to the handlers for TLC.                           *)
(***************************************************************************)
EXTENDS AccessProperties, TLC

\* Requests and users are interchangeable.
Symmetry == Permutations(Requests) \cup Permutations(Users)
=============================================================================

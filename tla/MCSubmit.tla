------------------------------ MODULE MCSubmit ------------------------------
(***************************************************************************)
(* Instances of the submission pipeline for TLC.                           *)
(***************************************************************************)
EXTENDS SubmitProperties, TLC

\* Calls, keys and ids are interchangeable.
Symmetry == Permutations(Calls) \cup Permutations(Keys) \cup Permutations(Ids)
=============================================================================

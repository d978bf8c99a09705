---------------------------- MODULE MCRateLimit -----------------------------
(***************************************************************************)
(* Instances of the rate limiter for TLC.                                  *)
(***************************************************************************)
EXTENDS RateLimitProperties, TLC

\* Requests and users are interchangeable.
Symmetry == Permutations(Requests) \cup Permutations(Users)
=============================================================================

------------------------------- MODULE MCBatch ------------------------------
(***************************************************************************)
(* Instances of batches for TLC.                                           *)
(***************************************************************************)
EXTENDS BatchProperties, TLC

CONSTANTS r1, r2, r3, r4, r5, r6, bPair, bOther

\* A batch of two and one that is an item too large.
PairAndLarge == bPair :> <<r1, r2>> @@ bOther :> <<r3, r4, r5>>
=============================================================================

---------------------------- MODULE MCJobQueue -----------------------------
(* Small instances of JobQueue: `twin' and `first' carry the same idempotency *)
(* key, the other jobs none.                                                  *)
EXTENDS JobQueue

CONSTANTS first, twin, k1

MCKeyOf == [j \in Jobs |-> IF j \in {first, twin} THEN k1 ELSE NoKey]
MCPercents == {-5, 120}
MCSymmetry == Permutations(Tokens) \cup Permutations(Jobs \ {first, twin})
=============================================================================

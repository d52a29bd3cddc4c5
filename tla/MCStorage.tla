----------------------------- MODULE MCStorage -----------------------------
(* Instances of Storage for TLC; the cfg files choose what may happen.       *)
EXTENDS Storage, TLC

Symmetry == Permutations(Reqs) \cup Permutations(Keys)

============================================================================

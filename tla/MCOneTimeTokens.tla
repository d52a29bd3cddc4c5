-------------------------- MODULE MCOneTimeTokens --------------------------
(* Instances of OneTimeTokens for TLC.                                       *)
EXTENDS OneTimeTokens, TLC

Symmetry == Permutations(Calls) \cup Permutations(Addrs \ {First})

============================================================================

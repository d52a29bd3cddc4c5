---------------------------- MODULE MCNetService ----------------------------
(* Instances of NetService for TLC.                                          *)
EXTENDS NetService, TLC

Symmetry == Permutations(Ticks)

============================================================================

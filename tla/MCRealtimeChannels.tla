------------------------- MODULE MCRealtimeChannels -------------------------
(* Instances of RealtimeChannels for TLC.                                    *)
EXTENDS RealtimeChannels, TLC

Symmetry == Permutations(Conns) \cup Permutations(Msgs) \cup Permutations(Keys)

============================================================================

---------------------------- MODULE MCTusUpload ----------------------------
(* Instances of TusUpload for TLC.                                           *)
EXTENDS TusUpload, TLC

Symmetry == Permutations(Reqs) \cup Permutations(Uploads)

============================================================================

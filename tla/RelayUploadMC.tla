---------------------------- MODULE RelayUploadMC ----------------------------
(* RelayUpload on small instances for TLC: the ids are interchangeable. *)
EXTENDS RelayUpload, TLC

RequestSymmetry == Permutations(Requests)
=============================================================================

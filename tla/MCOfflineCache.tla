---------------------------- MODULE MCOfflineCache ----------------------------
(* Small instances of OfflineCache for TLC. *)
EXTENDS OfflineCache, TLC

Symmetry == Permutations(Users)
=============================================================================

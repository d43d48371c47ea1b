-------------------------- MODULE MCEntryStatistics --------------------------
(* Small instances of EntryStatistics for TLC. *)
EXTENDS EntryStatistics, TLC

Symmetry == Permutations(Moments) \union Permutations(Journals) \union Permutations(Requests)
=============================================================================

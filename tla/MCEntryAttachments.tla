------------------------- MODULE MCEntryAttachments -------------------------
(* Small instances of EntryAttachments for TLC. *)
EXTENDS EntryAttachments, TLC
CONSTANTS f1, f2, photo

TwoFiles == {f1, f2}
\* One photo, picked twice.
Picked == [f \in TwoFiles |-> photo]
Twins == Permutations(TwoFiles)
=============================================================================

---------------------------- MODULE MCMediaLibrary ----------------------------
(* Instances of MediaLibrary for TLC. *)
EXTENDS MediaLibrary, TLC

CONSTANTS u1, u2, u3, m1, m2, d1, jpg, jpeg, photo, clip

TwoUploads   == {u1, u2}
ThreeUploads == {u1, u2, u3}
TwoMoments   == {m1, m2}
OneDeletion  == {d1}
OneContent   == {photo}
TwoContents  == {photo, clip}
OneSuffix    == {jpg}
TwoSuffixes  == {jpg, jpeg}

\* Uploads, moments, contents and deletions are interchangeable.
Interchangeable ==
    Permutations(Uploads) \cup Permutations(Moments) \cup Permutations(Contents)
        \cup Permutations(Deletions)

\* The events each run lets happen.
Deleting        == {"delete_media"}

================================================================================

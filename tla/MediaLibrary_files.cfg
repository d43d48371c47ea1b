SPECIFICATION Spec
CONSTANTS
    u1 = u1
    u2 = u2
    u3 = u3
    m1 = m1
    m2 = m2
    d1 = d1
    jpg = jpg
    jpeg = jpeg
    photo = photo
    clip = clip
    None = None
    Uploads <- ThreeUploads
    Moments <- TwoMoments
    Contents <- TwoContents
    Suffixes <- OneSuffix
    Deletions <- OneDeletion
    Events <- Deleting
INVARIANTS EveryFileAccounted LostOnlyByOverlap
SYMMETRY Interchangeable
CHECK_DEADLOCK FALSE

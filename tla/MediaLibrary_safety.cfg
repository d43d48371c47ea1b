SPECIFICATION Spec
CONSTANTS
    u1 = u1
    u2 = u2
    u3 = u3
    m1 = m1
    m2 = m2
    d1 = d1
    jpg = jpg
    jpeg = jpeg
    photo = photo
    clip = clip
    None = None
    Uploads <- TwoUploads
    Moments <- TwoMoments
    Contents <- OneContent
    Suffixes <- TwoSuffixes
    Deletions <- OneDeletion
    Events <- AllEvents
INVARIANTS TypeOK AnsweredIsStored
SYMMETRY Interchangeable
CHECK_DEADLOCK FALSE

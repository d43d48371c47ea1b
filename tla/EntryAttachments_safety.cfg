SPECIFICATION Spec
CONSTANTS
    f1 = f1
    f2 = f2
    photo = photo
    Files <- TwoFiles
    Contents = {photo}
    Content <- Picked
    Before = {photo}
    MaxMoments = 3
    None = None
INVARIANTS TypeOK  RemovedIsNotReinserted NoStrayDraft SavedStays NothingLeftOut
SYMMETRY Twins
CHECK_DEADLOCK FALSE

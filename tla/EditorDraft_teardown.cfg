SPECIFICATION Spec
CONSTANTS
    MaxEditors = 2
    MaxWords = 2
    MaxOps = 1
    Beginnings = {"photo"}
    Changes = {"photo", "legacy"}
    None = None
    Unread = Unread
INVARIANT TeardownIsAFlush
CHECK_DEADLOCK FALSE

SPECIFICATION Spec
CONSTANTS
    MaxEditors = 1
    MaxWords = 2
    MaxOps = 1
    Beginnings = {"photo"}
    Changes = {"photo", "legacy"}
    None = None
    Unread = Unread
PROPERTY NoSilentOverwrite
CHECK_DEADLOCK FALSE

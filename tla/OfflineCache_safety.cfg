SPECIFICATION CacheSpec
CONSTANTS
    Tabs = {t1}
    Users = {u1, u2}
    None = None
    Overtaking = FALSE
    MaxGen = 2
    MaxLogouts = 1
    MaxOps = 2
    MaxWrites = 1
SYMMETRY Symmetry
INVARIANTS CacheTypeOK ErasedStaysErased SlotIsOwn ScreenIsOwn KeepsPersisting
PROPERTY LateRestoreIsDropped

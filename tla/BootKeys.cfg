SPECIFICATION FairSpec
CONSTANTS
    PhysKeys <- MCPhysKeys
    Beyond = {"LALT"}
    KeysFrom = 13
    TicksFrom = 0
    MaxHeld = 2
    MaxBytes = 2
INVARIANTS
    HandlersInstalled
    NothingInService
    FlagsFollowKeys
    EveryCharacterTyped
PROPERTIES
    EnterEndsRead
CHECK_DEADLOCK FALSE

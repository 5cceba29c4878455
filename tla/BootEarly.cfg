SPECIFICATION Spec
CONSTANTS
    PhysKeys <- MCEarlyKeys
    Beyond = {"UNKNOWN"}
    KeysFrom = 0
    TicksFrom = 0
    MaxHeld = 1
    MaxBytes = 2
INVARIANTS
    NoTripleFault
CHECK_DEADLOCK FALSE

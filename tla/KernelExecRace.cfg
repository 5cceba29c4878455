SPECIFICATION FairSpec
CONSTANTS
    MaxProcesses = 3
    MaxTerminals = 3
    Races = {"exec"}
PROPERTIES
    ExecuteHandsOff
CHECK_DEADLOCK FALSE

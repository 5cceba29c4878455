SPECIFICATION FairSpec
CONSTANTS
    MaxProcesses = 3
    MaxTerminals = 3
    Races = {}
INVARIANTS
    TypeOK
    ProcessTree
    ControlSafe
    PendingShell
PROPERTIES
    RefinesTermStacks
    EveryTerminalRuns
    ShownTerminalGetsShell

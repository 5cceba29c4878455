SPECIFICATION PagingSpec
CONSTANTS
    MaxProcesses = 3
    MaxTerminals = 3
    Races = {"key", "exec", "halt"}
INVARIANTS
    AddressSpace
    LiveHasActive
    OwnScreen
    ScreenOnRequest
    OwnMemory
CHECK_DEADLOCK FALSE

SPECIFICATION Spec
CONSTANTS
    MaxProcesses = 3
    MaxTerminals = 2
    Races = {"key", "exec", "halt", "rtc"}
INVARIANTS
    CountExact
CHECK_DEADLOCK FALSE

SPECIFICATION FairSpec
CONSTANTS
    Procs = {p1, p2}
    Fds = {2, 3}
    Rates <- MCRates
    Interleaved = FALSE
INVARIANTS
    OnWhileOpen
    Divisors
    
PROPERTIES
    ReadReturns

\* Two users, pages of one, one delivery at a time, one fault;
\* in development the three workers are nested.
SPECIFICATION FairSpec
CONSTANTS
    None = None
    Users = {1, 2}
    Limit = 1
    Batches = {b1}
    Workers = {w1, w2, w3}
    Parallel = 1
    MaxFaults = 1
    MaxJobs = 4
PROPERTIES BatchCompletes JobEnds
CHECK_DEADLOCK FALSE

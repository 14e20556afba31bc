\* Two users, pages of one, two deliveries at a time, one fault;
\* in development the three workers are nested.
SPECIFICATION Spec
CONSTANTS
    None = None
    Users = {1, 2}
    Limit = 1
    Batches = {b1}
    Workers = {w1, w2, w3}
    Parallel = 2
    MaxFaults = 1
    MaxJobs = 4
INVARIANTS TypeOK CompletedBatchCovers OneJobPerUser LocalBatchSettles
SYMMETRY WorkerSymmetry
CHECK_DEADLOCK FALSE

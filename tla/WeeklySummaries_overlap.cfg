\* Two requests at a time, two entries, two jobs, three days in weeks of one.
SPECIFICATION Spec
CONSTANTS
    None = None
    Requests = {r1, r2}
    Week = 1
    MaxTime = 3
    MaxLogs = 2
    MaxSummaries = 2
    MaxJobs = 2
SYMMETRY RequestSymmetry
INVARIANTS TypeOK OneSummaryPerWeek NotDueTwice
PROPERTIES ForgetsOnlyOld JobsMakeTheirOwn
CHECK_DEADLOCK FALSE
CONSTRAINT Telling

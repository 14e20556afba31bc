\* One account, two emails, two requests at a time.
SPECIFICATION Spec
CONSTANTS
    None = None
    Ids = {a1}
    Emails = {e1, e2}
    Requests = {r1, r2}
    Threshold = 2
    LockTime = 1
    MaxFailures = 3
    MaxTime = 3
SYMMETRY RequestSymmetry
INVARIANTS TypeOK LockoutExact
PROPERTY LockHolds

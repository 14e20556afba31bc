\* One account, two requests at a time.
SPECIFICATION Spec
CONSTANTS
    None = None
    Ids = {a1}
    Emails = {e1}
    Requests = {r1, r2}
    Threshold = 2
    LockTime = 1
    MaxFailures = 2
    MaxTime = 1
SYMMETRY RequestSymmetry
INVARIANT LockoutReached

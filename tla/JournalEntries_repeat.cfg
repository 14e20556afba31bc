\* Two overlapping deliveries of one task.
SPECIFICATION Spec
CONSTANTS
    None = None
    Logs = {l1}
    Prompts = {p1}
    Workers = {w1, w2}
INVARIANT AnalysedOnce
CHECK_DEADLOCK FALSE

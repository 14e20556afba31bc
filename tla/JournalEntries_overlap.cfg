\* Two entries, two overlapping deliveries, one prompt.
SPECIFICATION FairToOne
CONSTANTS
    None = None
    Logs = {l1, l2}
    Prompts = {p1}
    Workers = {w1, w2}
INVARIANTS TypeOK AnalysisAtomic NoEntryDropped OnceUnlessOverlapped
PROPERTIES EveryTaskAnalysed CompletedStaysCompleted ImplementsLifecycle
CHECK_DEADLOCK FALSE

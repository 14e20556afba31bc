\* Two requests at a time, three days.
SPECIFICATION Spec
CONSTANTS
    None = None
    Requests = {r1, r2}
    MaxQuestions = 2
    FallbackQuestions = 1
    MaxPrompts = 5
    MaxDay = 3
SYMMETRY RequestSymmetry
INVARIANTS TypeOK OnboardingOnce OneOpenPrompt FollowUpChain

\* Two requests at a time on the tokens of one account.
SPECIFICATION Spec
CONSTANTS
    None = None
    Users = {alice}
    Requests = {r1, r2}
    MaxRefreshTokens = 2
    ReuseWindow = 1
    RefreshTtl = 1
    JwtTtl = 2
    MaxTokens = 3
    MaxTime = 2
SYMMETRY RequestSymmetry
INVARIANT ReplayEndsFamily

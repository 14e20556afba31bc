\* One request at a time on the tokens of one account.
SPECIFICATION Spec
CONSTANTS
    None = None
    Users = {alice}
    Requests = {r1}
    MaxRefreshTokens = 2
    ReuseWindow = 1
    RefreshTtl = 1
    JwtTtl = 3
    MaxTokens = 3
    MaxTime = 3
INVARIANT PruneCountsActiveTokens

--------------------------- MODULE MCRefreshTokens ---------------------------
(* Instances of RefreshTokens for TLC.                                      *)
EXTENDS RefreshTokens, Durations, TLC

\* The two readings of REFRESH_TOKEN_TTL compared, as far as TLC's integers
\* go.  RefreshTokens has the two lifetimes as separate constants.
ASSUME ReadingsCompared ==
    \A n \in 0 .. 24, unit \in Letters \cup {"bare"} :
        ParseDurationToMs(n, unit) = LibraryMs(n, unit) <=> ReadAlike(n, unit)

RequestSymmetry == Permutations(Requests)
=============================================================================

------------------------------- MODULE Sessions -------------------------------
(***************************************************************************)
(* What rotation promises of a login session, without rows, lifetimes and  *)
(* database calls: a session is opened with a token, the token is consumed *)
(* and another, never used before, takes its place, until the session      *)
(* ends for good.  It has one usable token, or none while it is renewed.   *)
(* A session is named by the token it was opened with.  RefreshTokens      *)
(* implements this specification as long as its requests do not overlap.   *)
(***************************************************************************)
CONSTANTS TokenIds, None

VARIABLES
    phase,  \* of each session
    token   \* the usable token of each session

vars == <<phase, token>>

Init == /\ phase = [f \in TokenIds |-> "unused"]
        /\ token = [f \in TokenIds |-> None]

Open(f) ==
    /\ phase[f] = "unused"
    /\ phase' = [phase EXCEPT ![f] = "open"]
    /\ token' = [token EXCEPT ![f] = f]

\* The token is presented, and of no use any longer.
Consume(f) ==
    /\ phase[f] = "open"
    /\ phase' = [phase EXCEPT ![f] = "renewing"]
    /\ token' = [token EXCEPT ![f] = None]

\* A successor is a token that opens no session of its own.
Renew(f, t) ==
    /\ phase[f] = "renewing" /\ phase[t] = "unused"
    /\ phase' = [phase EXCEPT ![f] = "open", ![t] = "ended"]
    /\ token' = [token EXCEPT ![f] = t]

\* Logout, expiry, a replay, the limit, the removal of the account, or a
\* renewal that fails half way.
End(S) ==
    /\ phase' = [f \in TokenIds |-> IF f \in S THEN "ended" ELSE phase[f]]
    /\ token' = [f \in TokenIds |-> IF f \in S THEN None ELSE token[f]]

Next == \/ \E f \in TokenIds : \/ Open(f) \/ Consume(f)
                               \/ \E t \in TokenIds : Renew(f, t)
        \/ \E S \in SUBSET {f \in TokenIds : phase[f] \in {"open", "renewing"}} : End(S)

Spec == Init /\ [][Next]_vars
=============================================================================

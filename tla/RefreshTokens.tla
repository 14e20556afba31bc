--------------------------- MODULE RefreshTokens ---------------------------
(***************************************************************************)
(* The refresh_tokens table and the handlers of AuthService that read and  *)
(* write it: login and register, refresh (rotation and reuse detection),   *)
(* logout, pruning, and the account changes an administrator makes beside  *)
(* them.  A request occupies a slot of Requests and takes one step per     *)
(* database call, so the calls of two requests interleave.                 *)
(*                                                                         *)
(* A token is the number of its INSERT: the order of ids is the order of   *)
(* created_at.  A family is the token that opened it.                      *)
(***************************************************************************)
EXTENDS Integers, FiniteSets

CONSTANTS
    Users, Requests,
    MaxRefreshTokens,   \* MAX_REFRESH_TOKENS_PER_USER
    ReuseWindow,        \* TOKEN_REUSE_GRACE_PERIOD_SECONDS; 0 has no end
    RefreshTtl,         \* REFRESH_TOKEN_TTL as parseDurationToMs reads it
    JwtTtl,             \* the same string as the JWT library reads it
    None,               \* SQL NULL
    MaxTokens, MaxTime  \* bounds of the model: INSERTs, clock

ASSUME LimitAssumption == MaxRefreshTokens \in Nat \ {0}
ASSUME DurationAssumption == ReuseWindow \in Nat /\ RefreshTtl \in Nat /\ JwtTtl \in Nat
ASSUME BoundAssumption == MaxTokens \in Nat /\ MaxTime \in Nat
ASSUME NoneAssumption == None \notin Nat

VARIABLES
    rows,       \* the refresh_tokens table: a function on the ids present
    account,    \* what a handler that loads the user row sees
    issued,     \* number of tokens ever inserted
    now,        \* the clock
    delivered,  \* tokens answered to the clients of each user
    pc, job,    \* per request: the database call it is about to make, and
                \* the locals that call and the next ones use
    ents,       \* per request: the entities it loaded and marked or doomed
    ended       \* history: families a replay or a logout was answered to end

vars == <<rows, account, issued, now, delivered, pc, job, ents, ended>>

TokenId == 1 .. MaxTokens
Row == [user : Users, family : TokenId, parent : TokenId \cup {None},
        expiresAt : Nat, revokedAt : Nat \cup {None}]
Status == {"absent", "active", "blocked", "removed"}
Call == {"idle", "family", "revoke", "store", "limit", "evict"}
Job == [user : Users \cup {None}, family : TokenId \cup {None},
        parent : TokenId \cup {None}, new : TokenId \cup {None},
        replay : BOOLEAN]
Issuing(u, f, p) == [user |-> u, family |-> f, parent |-> p, new |-> None,
                     replay |-> FALSE]
Replaying(f) == [user |-> None, family |-> f, parent |-> None, new |-> None,
                 replay |-> TRUE]
NoJob == Issuing(None, None, None)
Empty == [t \in {} |-> None]

IsTable(f) == /\ f = [t \in DOMAIN f |-> f[t]]
              /\ DOMAIN f \subseteq TokenId
              /\ \A t \in DOMAIN f : f[t] \in Row

----------------------------------------------------------------------------
(* Reads of the table.                                                     *)

Live(t) == t \in DOMAIN rows /\ rows[t].revokedAt = None
Tokens(u) == {t \in DOMAIN rows : rows[t].user = u}
Expired(t) == rows[t].expiresAt < now

\* verifyAsync rejects the token from this instant on
JwtExpiry(t) == rows[t].expiresAt - RefreshTtl + JwtTtl

WithinReuseWindow(t) == ReuseWindow = 0 \/ rows[t].revokedAt + ReuseWindow > now

FamilyTokens(f) == {t \in DOMAIN rows : rows[t].family = f}

\* Variants: one row too many is kept; the newest rows are removed.
OverflowLate(u) ==
    {t \in Tokens(u) : Cardinality({s \in Tokens(u) : s > t}) > MaxRefreshTokens}
OverflowNewest(u) ==
    {t \in Tokens(u) : Cardinality({s \in Tokens(u) : s < t}) >= MaxRefreshTokens}

\* slice(0, length - max) of the user's rows, oldest first
Overflow(u) ==
    {t \in Tokens(u) : Cardinality({s \in Tokens(u) : s > t}) >= MaxRefreshTokens}

\* Variant: the entities are saved without markRevoked.
MarkedNot(S) == [t \in S |-> rows[t]]

\* the entities of S as markRevoked leaves them
Marked(S) == [t \in S |-> [rows[t] EXCEPT !.revokedAt = now]]

(* Writes.  rotated_from_id is ON DELETE SET NULL.                         *)
Without(S) ==
    [t \in DOMAIN rows \ S |->
        IF rows[t].parent \in S THEN [rows[t] EXCEPT !.parent = None] ELSE rows[t]]

\* save() writes every column that differs and re-inserts a vanished row
Written(batch) ==
    [t \in DOMAIN rows \cup DOMAIN batch |->
        IF t \in DOMAIN batch THEN batch[t] ELSE rows[t]]

\* the foreign keys of a row that is about to be written with the table T
KeysHold(row, T) == /\ account[row.user] # "removed"
                    /\ row.parent \in {None} \cup T

----------------------------------------------------------------------------
Init == /\ rows = Empty
        /\ account = [u \in Users |-> "absent"]
        /\ issued = 0
        /\ now = 1
        /\ delivered = [u \in Users |-> {}]
        /\ pc = [r \in Requests |-> "idle"]
        /\ job = [r \in Requests |-> NoJob]
        /\ ents = [r \in Requests |-> Empty]
        /\ ended = {}

\* The next call of the handler, its locals and the entities it holds.
Start(r, call, j, batch) ==
    /\ pc' = [pc EXCEPT ![r] = call]
    /\ job' = [job EXCEPT ![r] = j]
    /\ ents' = [ents EXCEPT ![r] = batch]

\* The handler returns or throws: its locals are gone.
Finish(r) == Start(r, "idle", NoJob, Empty)

\* Variant: the response carries the token that was presented.
RespondOld(r) == delivered' = [delivered EXCEPT ![job[r].user] = @ \cup {job[r].parent}]

\* The response with the new token leaves.
Respond(r) == delivered' = [delivered EXCEPT ![job[r].user] = @ \cup {job[r].new}]

(* register: the new account is active and gets a token.                   *)
Register(r, u) ==
    /\ pc[r] = "idle" /\ account[u] = "absent"
    /\ account' = [account EXCEPT ![u] = "active"]
    /\ Start(r, "store", Issuing(u, None, None), Empty)
    /\ UNCHANGED <<rows, issued, now, delivered, ended>>

(* login: validateUser found the account active and the password right.    *)
Login(r, u) ==
    /\ pc[r] = "idle" /\ account[u] = "active"
    /\ Start(r, "store", Issuing(u, None, None), Empty)
    /\ UNCHANGED <<rows, account, issued, now, delivered, ended>>

\* A client presents t to POST /auth/refresh, the JWT verifies and findOne
\* returns its row.
Presented(r, t) == /\ pc[r] = "idle"
                   /\ \E u \in Users : t \in delivered[u]
                   /\ t \in DOMAIN rows
                   /\ now < JwtExpiry(t)

\* The row is revoked: inside the window the whole family goes next.
RefreshReplay(r, t) ==
    /\ Presented(r, t)
    /\ rows[t].revokedAt # None
    /\ WithinReuseWindow(t)
    /\ Start(r, "family", Replaying(rows[t].family), Empty)
    /\ UNCHANGED <<rows, account, issued, now, delivered, ended>>

\* The row has expired: it is revoked and the request refused.
RefreshExpired(r, t) ==
    /\ Presented(r, t)
    /\ rows[t].revokedAt = None
    /\ Expired(t)
    /\ Start(r, "revoke", NoJob, Marked({t}))
    /\ UNCHANGED <<rows, account, issued, now, delivered, ended>>

\* Variants: the successor is issued without revokeToken; the test of
\* revokedAt is lost.
RefreshRotateKeeping(r, t) ==
    /\ Presented(r, t)
    /\ rows[t].revokedAt = None
    /\ ~Expired(t)
    /\ account[rows[t].user] = "active"
    /\ Start(r, "store", Issuing(rows[t].user, rows[t].family, t), Empty)
    /\ UNCHANGED <<rows, account, issued, now, delivered, ended>>
RefreshRotateAgain(r, t) ==
    /\ Presented(r, t)
    /\ ~Expired(t)
    /\ account[rows[t].user] = "active"
    /\ Start(r, "revoke", Issuing(rows[t].user, rows[t].family, t), Marked({t}))
    /\ UNCHANGED <<rows, account, issued, now, delivered, ended>>

\* The token is good and so is its account: revoke it, then issue the next.
RefreshRotate(r, t) ==
    /\ Presented(r, t)
    /\ rows[t].revokedAt = None
    /\ ~Expired(t)
    /\ account[rows[t].user] = "active"
    /\ Start(r, "revoke", Issuing(rows[t].user, rows[t].family, t), Marked({t}))
    /\ UNCHANGED <<rows, account, issued, now, delivered, ended>>

\* JwtStrategy.validate: an access token, answered beside a refresh token,
\* of an account that exists and is active.
Admitted(u) == account[u] = "active" /\ delivered[u] # {}

(* logout of one token.                                                    *)
Logout(r, u, t) ==
    /\ pc[r] = "idle" /\ Admitted(u)
    /\ \E v \in Users : t \in delivered[v]
    /\ t \in Tokens(u)
    /\ Start(r, "revoke", NoJob, Marked({t}))
    /\ UNCHANGED <<rows, account, issued, now, delivered, ended>>

(* logout with allDevices: one DELETE.                                     *)
LogoutAll(r, u) ==
    /\ pc[r] = "idle" /\ Admitted(u)
    /\ rows' = Without(Tokens(u))
    /\ ended' = ended \cup {[family |-> rows[t].family, by |-> "logout"] : t \in Tokens(u)}
    /\ UNCHANGED <<account, issued, now, delivered, pc, job, ents>>

\* Variant: only the rows revoked already are found.
FindFamilyRevoked(r) ==
    /\ pc[r] = "family"
    /\ Start(r, "revoke", job[r],
             Marked({t \in FamilyTokens(job[r].family) : rows[t].revokedAt # None}))
    /\ UNCHANGED <<rows, account, issued, now, delivered, ended>>

(* revokeFamily, its find: the stamp is taken when the rows arrive.        *)
FindFamily(r) ==
    /\ pc[r] = "family"
    /\ Start(r, "revoke", job[r], Marked(FamilyTokens(job[r].family)))
    /\ UNCHANGED <<rows, account, issued, now, delivered, ended>>

(* The save of the marked entities, by revokeToken or revokeFamily.        *)
SaveRevoked(r) ==
    /\ pc[r] = "revoke"
    /\ \A t \in DOMAIN ents[r] :
          KeysHold(ents[r][t], DOMAIN rows \cup DOMAIN ents[r])
    /\ rows' = Written(ents[r])
    /\ IF job[r].parent = None
       THEN Finish(r)
       ELSE Start(r, "store", job[r], Empty)
    /\ ended' = IF job[r].replay
                THEN ended \cup {[family |-> job[r].family, by |-> "replay"]}
                ELSE ended
    /\ UNCHANGED <<account, issued, now, delivered>>

(* generateRefreshToken, its save.                                         *)
NewRow(r) == [user |-> job[r].user,
              family |-> IF job[r].parent = None THEN issued + 1 ELSE job[r].family,
              parent |-> job[r].parent,
              expiresAt |-> now + RefreshTtl,
              revokedAt |-> None]

StoreToken(r) ==
    /\ pc[r] = "store" /\ issued < MaxTokens
    /\ KeysHold(NewRow(r), DOMAIN rows)
    /\ rows' = [t \in DOMAIN rows \cup {issued + 1} |->
                   IF t = issued + 1 THEN NewRow(r) ELSE rows[t]]
    /\ issued' = issued + 1
    /\ Start(r, "limit", [job[r] EXCEPT !.new = issued + 1], Empty)
    /\ UNCHANGED <<account, now, delivered, ended>>

(* enforceRefreshTokenLimit, its find: few enough rows, or some to remove. *)
WithinLimit(r) ==
    /\ pc[r] = "limit"
    /\ Overflow(job[r].user) = {}
    /\ Respond(r)
    /\ Finish(r)
    /\ UNCHANGED <<rows, account, issued, now, ended>>

OverLimit(r) ==
    /\ pc[r] = "limit"
    /\ Overflow(job[r].user) # {}
    /\ Start(r, "evict", job[r], [t \in Overflow(job[r].user) |-> rows[t]])
    /\ UNCHANGED <<rows, account, issued, now, delivered, ended>>

\* ... and its remove of the doomed entities, then the response.
EvictOverflow(r) ==
    /\ pc[r] = "evict"
    /\ rows' = Without(DOMAIN ents[r])
    /\ Respond(r)
    /\ Finish(r)
    /\ UNCHANGED <<account, issued, now, ended>>

(* A request dies before its next call: a crash, a database error, or a    *)
(* foreign key that no longer holds.  What it already wrote stays.         *)
Abort(r) == /\ pc[r] # "idle"
            /\ Finish(r)
            /\ UNCHANGED <<rows, account, issued, now, delivered, ended>>

(* DELETE /auth/refresh/expired                                            *)
RemoveExpiredRefreshTokens(r) ==
    /\ pc[r] = "idle"
    /\ rows' = Without({t \in DOMAIN rows : Expired(t)})
    /\ UNCHANGED <<account, issued, now, delivered, pc, job, ents, ended>>

(* The account is suspended or locked, or let in again.                    *)
Block(u) == /\ account[u] = "active"
            /\ account' = [account EXCEPT ![u] = "blocked"]
            /\ UNCHANGED <<rows, issued, now, delivered, pc, job, ents, ended>>

Unblock(u) == /\ account[u] = "blocked"
              /\ account' = [account EXCEPT ![u] = "active"]
              /\ UNCHANGED <<rows, issued, now, delivered, pc, job, ents, ended>>

(* DELETE /users/:id; user_id is ON DELETE CASCADE.                        *)
RemoveUser(r, u) ==
    /\ pc[r] = "idle" /\ account[u] \in {"active", "blocked"}
    /\ account' = [account EXCEPT ![u] = "removed"]
    /\ rows' = Without(Tokens(u))
    /\ UNCHANGED <<issued, now, delivered, pc, job, ents, ended>>

Tick == /\ now < MaxTime
        /\ now' = now + 1
        /\ UNCHANGED <<rows, account, issued, delivered, pc, job, ents, ended>>

Begin(r) ==
    \/ \E u \in Users : \/ Register(r, u) \/ Login(r, u)
                        \/ LogoutAll(r, u) \/ RemoveUser(r, u)
    \/ \E t \in DOMAIN rows : \/ RefreshReplay(r, t) \/ RefreshExpired(r, t)
                              \/ RefreshRotate(r, t)
    \/ \E u \in Users, t \in DOMAIN rows : Logout(r, u, t)
    \/ RemoveExpiredRefreshTokens(r)

Continue(r) == \/ FindFamily(r) \/ SaveRevoked(r) \/ StoreToken(r)
               \/ WithinLimit(r) \/ OverLimit(r) \/ EvictOverflow(r)

Next == \/ \E r \in Requests : Begin(r) \/ Continue(r) \/ Abort(r)
        \/ \E u \in Users : Block(u) \/ Unblock(u)
        \/ Tick

Spec == Init /\ [][Next]_vars
----------------------------------------------------------------------------
(* Type invariant: every row is well formed and was inserted, and a         *)
(* request carries exactly the locals its next database call reads.         *)
LocalsOK(r) ==
    /\ IsTable(ents[r]) /\ DOMAIN ents[r] \subseteq 1 .. issued
    /\ pc[r] \in {"store", "limit", "evict"} => job[r].user \in Users
    /\ pc[r] \in {"limit", "evict"} => job[r].new \in 1 .. issued
    /\ pc[r] = "family" \/ job[r].replay => job[r].family \in TokenId
    /\ job[r].parent # None => /\ job[r].parent \in 1 .. issued
                               /\ job[r].user \in Users
                               /\ job[r].family \in TokenId

TypeOK ==
    /\ IsTable(rows) /\ DOMAIN rows \subseteq 1 .. issued
    /\ account \in [Users -> Status]
    /\ issued \in 0 .. MaxTokens
    /\ now \in Nat
    /\ delivered \in [Users -> SUBSET (1 .. issued)]
    /\ pc \in [Requests -> Call]
    /\ job \in [Requests -> Job]
    /\ DOMAIN ents = Requests
    /\ \A r \in Requests : LocalsOK(r)
    /\ ended \subseteq [family : TokenId, by : {"replay", "logout"}]

(* Rotation leaves a chain: the row a token was rotated from, while it is   *)
(* kept, is older, of the same family and account, and revoked, however     *)
(* the calls of the requests interleave; no row outlives its account.       *)
(* AuthService.refresh revokes and saves before issueTokens inserts.        *)
RotationChain ==
    \A t \in DOMAIN rows :
        /\ account[rows[t].user] # "removed"
        /\ rows[t].parent # None =>
              LET p == rows[t].parent
              IN /\ p \in DOMAIN rows /\ p < t
                 /\ rows[p].family = rows[t].family
                 /\ rows[p].user = rows[t].user
                 /\ rows[p].revokedAt # None

(* Once a token has been answered to a client, the account has no more      *)
(* than MAX_REFRESH_TOKENS_PER_USER usable tokens among it and the older    *)
(* ones, although the limit is enforced by a find and a later remove, after *)
(* the insert, with other requests inserting and saving in between          *)
(* (enforceRefreshTokenLimit).                                              *)
LiveUpTo(u, n) == {t \in Tokens(u) : t <= n /\ Live(t)}

EnforcedLimit ==
    \A u \in Users : \A n \in delivered[u] :
        Cardinality(LiveUpTo(u, n)) <= MaxRefreshTokens

(* A token that was inserted and is no longer usable, revoked or removed,   *)
(* never becomes usable again: the saves of entities loaded earlier write   *)
(* whole rows, and insert again the rows that vanished meanwhile.           *)
RetiredStaysRetired ==
    [][\A t \in 1 .. issued : ~Live(t) => ~Live(t)']_vars

(* With one request at a time a session has at most one usable token:       *)
(* "Each refresh token use issues a new token and invalidates the old one"  *)
(* (SECURITY.md).                                                           *)
OneLivePerFamily ==
    \A s, t \in DOMAIN rows :
        Live(s) /\ Live(t) /\ rows[s].family = rows[t].family => s = t

(* With one request at a time a family ended by a replay or by a logout     *)
(* from all devices has no usable token ever after (revokeFamily, logout).  *)
EndedFamiliesStayEnded ==
    \A e \in ended : \A t \in FamilyTokens(e.family) : ~Live(t)

(* With one request at a time the token a client has just been given is     *)
(* usable: enforceRefreshTokenLimit removes the oldest rows, never the one  *)
(* it was called for.                                                       *)
FreshTokenUsable ==
    [][\A u \in Users : \A n \in 1 .. issued :
          n \in delivered'[u] \ delivered[u] => Live(n)']_vars

(* SECURITY.md, Replay Attack Detection: "If a revoked token is reused      *)
(* within the detection window, the entire family is invalidated".          *)
ReplayEndsFamily ==
    \A e \in ended : e.by = "replay" =>
        \A t \in FamilyTokens(e.family) : ~Live(t)

(* README.md: MAX_REFRESH_TOKENS_PER_USER is the "Maximum active refresh    *)
(* tokens before pruning": a usable token is only pruned from an account    *)
(* that has more usable tokens than that.                                   *)
PruneCountsActiveTokens ==
    \A r \in Requests : pc[r] = "evict" =>
        \/ \A t \in DOMAIN ents[r] : ~Live(t)
        \/ Cardinality({t \in Tokens(job[r].user) : Live(t)}) > MaxRefreshTokens

----------------------------------------------------------------------------
(* The session a family of tokens stands for: it is being renewed while a   *)
(* request has revoked its token and not yet inserted the successor.        *)
Usable(f) == {t \in DOMAIN rows : rows[t].family = f /\ rows[t].revokedAt = None}
Renewing(f) == \E r \in Requests : pc[r] = "store" /\ job[r].family = f

Phase(f) == CASE f > issued -> "unused"
              [] f <= issued /\ Usable(f) # {} -> "open"
              [] f <= issued /\ Usable(f) = {} /\ Renewing(f) -> "renewing"
              [] OTHER -> "ended"

Session == INSTANCE Sessions WITH
              TokenIds <- TokenId,
              phase <- [f \in TokenId |-> Phase(f)],
              token <- [f \in TokenId |-> IF Usable(f) = {} THEN None ELSE CHOOSE t \in Usable(f) : TRUE]

(* With one request at a time the table implements sessions: a token is     *)
(* used once, its successor takes its place in the same session, a death    *)
(* between the revocation and the insert ends the session, and nothing a    *)
(* client, an administrator or the pruning does opens it again (refresh,    *)
(* logout, removeExpiredRefreshTokens, enforceRefreshTokenLimit).           *)
ImplementsSessions == Session!Spec
=============================================================================

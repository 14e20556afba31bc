------------------------------ MODULE Accounts ------------------------------
(***************************************************************************)
(* The users table and the handlers that read and write it: the password   *)
(* check of a login with its lockout (AuthService.validateUser,            *)
(* UsersService.recordFailedLogin, markSuccessfulLogin), and the creation, *)
(* update and removal of accounts.  A request takes one step per database  *)
(* call, so the calls of two requests interleave.                          *)
(*                                                                         *)
(* usersRepository.save(entity) selects the row and writes the columns in  *)
(* which the entity differs, so the row becomes the entity.  A row that is *)
(* gone is inserted again, which fails on the NOT NULL password unless the *)
(* entity was given one: the finds do not select that column.              *)
(* The user name is treated in the code as the email is and left out.      *)
(***************************************************************************)
EXTENDS Naturals, FiniteSets

CONSTANTS
    Ids, Emails, Requests,
    Threshold,      \* AUTH_LOCKOUT_THRESHOLD
    LockTime,       \* AUTH_LOCKOUT_DURATION_MINUTES
    None,
    MaxFailures, MaxTime  \* bounds: failed logins of an account, clock

ASSUME PolicyAssumption == Threshold \in Nat \ {0} /\ LockTime \in Nat
ASSUME BoundAssumption == MaxFailures \in Nat /\ MaxTime \in Nat
VARIABLES
    users,     \* the table: a function on the ids present
    removed,   \* ids of the accounts that are gone
    now,       \* the clock
    pc,        \* per request: the database call it is about to make
    id, ent,   \* per request: the account it serves, the entity it holds
    failures,  \* history: wrong passwords recorded since the last success
    older,     \* history: requests that were already running when the
               \* present lock of an account was written
    alone      \* history: no two requests have overlapped

vars == <<users, removed, now, pc, id, ent, failures, older, alone>>

\* lockedUntil is 0 for NULL; "blocked" is pending, suspended or banned;
\* password is FALSE in an entity that carries none
Status == {"active", "blocked"}
User == [email : Emails, status : Status, password : BOOLEAN,
         attempts : Nat, lockedUntil : Nat]

ASSUME NoneAssumption == None \notin Ids /\ None \notin User

Call == {"idle", "record", "count", "mark", "save", "check", "insert"}

Locked(u) == u.lockedUntil > now
Loaded(a) == [users[a] EXCEPT !.password = FALSE]
EmailUsed(e) == \E a \in DOMAIN users : users[a].email = e
Busy == {r \in Requests : pc[r] # "idle"}

\* Variant: the account is locked one failure late.
FailedLate(u) ==
    LET n == u.attempts + 1
    IN [u EXCEPT !.attempts = n,
                 !.lockedUntil = IF n > Threshold THEN now + LockTime ELSE @]

\* incrementFailedAttempts, and lockUntil at the threshold
Failed(u) ==
    LET n == u.attempts + 1
    IN [u EXCEPT !.attempts = n,
                 !.lockedUntil = IF n >= Threshold THEN now + LockTime ELSE @]

Init == /\ users = [a \in {} |-> None]
        /\ removed = {}
        /\ now = 1
        /\ pc = [r \in Requests |-> "idle"]
        /\ id = [r \in Requests |-> None]
        /\ ent = [r \in Requests |-> None]
        /\ failures = [a \in Ids |-> 0]
        /\ older = [a \in Ids |-> {}]
        /\ alone = TRUE

Goto(r, call, a, u) == /\ pc' = [pc EXCEPT ![r] = call]
                       /\ id' = [id EXCEPT ![r] = a]
                       /\ ent' = [ent EXCEPT ![r] = u]

\* A request arrives and makes its first call.
Begin(r, call, a, u) ==
    /\ pc[r] = "idle"
    /\ Goto(r, call, a, u)
    /\ alone' = (alone /\ Busy = {})
    /\ UNCHANGED older

\* A request goes on.
Step(r, call, u) == Goto(r, call, id[r], u) /\ UNCHANGED <<older, alone>>

\* A request ends; `locks` when it leaves a new lock behind.
Finish(r, locks) ==
    /\ Goto(r, "idle", None, None)
    /\ older' = [a \in Ids |-> (IF locks /\ a = id[r] THEN Busy ELSE older[a]) \ {r}]
    /\ UNCHANGED alone

----------------------------------------------------------------------------
(* validateUser: the row is read once; a locked account is refused before   *)
(* the password is compared.                                                *)
LoginWrong(r, a) ==
    /\ ~Locked(users[a]) /\ failures[a] < MaxFailures
    /\ Begin(r, "record", a, None)
    /\ UNCHANGED <<users, removed, now, failures>>

\* Variant: the lock is not looked at.
LoginRightUnlocked(r, a) ==
    /\ users[a].status = "active"
    /\ Begin(r, "mark", a, None)
    /\ UNCHANGED <<users, removed, now, failures>>

LoginRight(r, a) ==
    /\ ~Locked(users[a]) /\ users[a].status = "active"
    /\ Begin(r, "mark", a, None)
    /\ UNCHANGED <<users, removed, now, failures>>

(* recordFailedLogin, its find ...                                          *)
RecordFailedLogin(r) ==
    /\ pc[r] = "record" /\ id[r] \in DOMAIN users
    /\ Step(r, "count", Failed(Loaded(id[r])))
    /\ UNCHANGED <<users, removed, now, failures>>

\* Variant: a vanished row is always inserted again.
WriteAlways(r) ==
    users' = [b \in DOMAIN users \cup {id[r]} |->
                 IF b = id[r] THEN [ent[r] EXCEPT !.password = TRUE] ELSE users[b]]

\* save: the columns are there and the unique index on the email holds
Write(r) ==
    /\ id[r] \in DOMAIN users \/ ent[r].password
    /\ \A b \in DOMAIN users \ {id[r]} : users[b].email # ent[r].email
    /\ users' = [b \in DOMAIN users \cup {id[r]} |->
                    IF b = id[r] THEN [ent[r] EXCEPT !.password = TRUE] ELSE users[b]]

\* the save of r leaves another lock than it finds
NewLock(r) == /\ ent[r].lockedUntil # 0
              /\ id[r] \in DOMAIN users => users[id[r]].lockedUntil # ent[r].lockedUntil

(* ... and its save.                                                        *)
SaveFailedLogin(r) ==
    /\ pc[r] = "count"
    /\ Write(r)
    /\ failures' = [failures EXCEPT ![id[r]] = @ + 1]
    /\ Finish(r, NewLock(r))
    /\ UNCHANGED <<removed, now>>

(* markSuccessfulLogin: one UPDATE by id.  Tokens are issued next.          *)
MarkSuccessfulLogin(r) ==
    LET a == id[r]
    IN /\ pc[r] = "mark"
       /\ users' = [b \in DOMAIN users |->
             IF b = a THEN [users[a] EXCEPT !.attempts = 0, !.lockedUntil = 0] ELSE users[b]]
       /\ failures' = [failures EXCEPT ![a] = 0]
       /\ Finish(r, FALSE)
       /\ UNCHANGED <<removed, now>>

----------------------------------------------------------------------------
(* create, by POST /users or register: look for the email, then insert.     *)
Create(r, e, s) ==
    /\ ~EmailUsed(e)
    /\ Begin(r, "insert", None, [email |-> e, status |-> s, password |-> TRUE, attempts |-> 0, lockedUntil |-> 0])
    /\ UNCHANGED <<users, removed, now, failures>>

Insert(r, a) ==
    /\ pc[r] = "insert" /\ a \notin DOMAIN users \cup removed
    /\ ~EmailUsed(ent[r].email)
    /\ users' = [b \in DOMAIN users \cup {a} |-> IF b = a THEN ent[r] ELSE users[b]]
    /\ Finish(r, FALSE)
    /\ UNCHANGED <<removed, now, failures>>

(* update: findOne, the email looked for when it changes, the save.         *)
Update(r, a, e, s, p) ==
    /\ Begin(r, IF e = users[a].email THEN "save" ELSE "check", a,
             [Loaded(a) EXCEPT !.email = e, !.status = s, !.password = p])
    /\ UNCHANGED <<users, removed, now, failures>>

EnsureUniqueEmail(r) ==
    /\ pc[r] = "check" /\ ~EmailUsed(ent[r].email)
    /\ Step(r, "save", ent[r])
    /\ UNCHANGED <<users, removed, now, failures>>

SaveUpdate(r) ==
    /\ pc[r] = "save"
    /\ Write(r)
    /\ removed' = IF ent[r].password THEN removed \ {id[r]} ELSE removed
    /\ Finish(r, NewLock(r))
    /\ UNCHANGED <<now, failures>>

(* DELETE /users/:id                                                        *)
Remove(r, a) ==
    /\ pc[r] = "idle"
    /\ users' = [b \in DOMAIN users \ {a} |-> users[b]]
    /\ removed' = removed \cup {a}
    /\ alone' = (alone /\ Busy = {})
    /\ UNCHANGED <<now, pc, id, ent, failures, older>>

(* A request dies before its next call: a crash, a database error, a        *)
(* violated index, NotFoundException or ConflictException.                  *)
Abort(r) == /\ pc[r] # "idle"
            /\ Finish(r, FALSE)
            /\ UNCHANGED <<users, removed, now, failures>>

Tick == /\ now < MaxTime
        /\ now' = now + 1
        /\ UNCHANGED <<users, removed, pc, id, ent, failures, older, alone>>

Next == \/ \E r \in Requests :
              \/ \E a \in DOMAIN users :
                    \/ LoginWrong(r, a) \/ LoginRight(r, a) \/ Remove(r, a)
                    \/ \E e \in Emails, s \in Status, p \in BOOLEAN : Update(r, a, e, s, p)
              \/ \E e \in Emails, s \in Status : Create(r, e, s)
              \/ \E a \in Ids : Insert(r, a)
              \/ RecordFailedLogin(r) \/ SaveFailedLogin(r) \/ MarkSuccessfulLogin(r)
              \/ EnsureUniqueEmail(r) \/ SaveUpdate(r) \/ Abort(r)
        \/ Tick

Spec == Init /\ [][Next]_vars

----------------------------------------------------------------------------
SlotOK(r) ==
    /\ pc[r] \in {"count", "save", "check", "insert"} <=> ent[r] # None
    /\ pc[r] \notin {"idle", "insert"} <=> id[r] # None
    /\ pc[r] = "count" => ~ent[r].password
    /\ pc[r] = "insert" => ent[r].password

(* Type invariant: a request holds the entity its next call writes, every   *)
(* row has a password, and an account that is gone only comes back by an    *)
(* update that sets a password, although saves of entities loaded before    *)
(* its removal are still on their way.                                      *)
TypeOK ==
    /\ DOMAIN users \subseteq Ids \ removed
    /\ \A a \in DOMAIN users : users[a] \in User /\ users[a].password
    /\ removed \subseteq Ids
    /\ now \in Nat \ {0}
    /\ pc \in [Requests -> Call]
    /\ id \in [Requests -> Ids \cup {None}]
    /\ failures \in [Ids -> Nat]
    /\ older \in [Ids -> SUBSET Busy]
    /\ alone \in BOOLEAN
    /\ ent \in [Requests -> User \cup {None}]
    /\ \A r \in Requests : SlotOK(r)

(* While requests have not overlapped, the counter of an account is the     *)
(* number of wrong passwords since its last login, whatever updates and     *)
(* aborted requests came between, and the account has been locked exactly   *)
(* when that number reached the threshold.                                  *)
LockoutExact ==
    alone => \A a \in DOMAIN users :
        /\ users[a].attempts = failures[a]
        /\ users[a].lockedUntil # 0 <=> failures[a] >= Threshold

(* A lock is only lifted or shortened before its end by a request that was  *)
(* already running when it was written: no login that begins under the lock *)
(* gets past it, and an update of the locked account writes the lock back   *)
(* as it read it (validateUser, update).                                    *)
LockHolds ==
    [][\A a \in DOMAIN users :
          Locked(users[a]) /\ a \in DOMAIN users' /\ users'[a].lockedUntil < users[a].lockedUntil
            => \E r \in older[a] : pc[r] # "idle" /\ pc'[r] = "idle"]_vars

(* SECURITY.md, Account Lockout: "Threshold: 5 failed login attempts": an   *)
(* account with that many since its last login has been locked.             *)
LockoutReached ==
    \A a \in DOMAIN users : failures[a] >= Threshold => users[a].lockedUntil # 0
=============================================================================

--------------------------- MODULE AccountsProofs ---------------------------
(***************************************************************************)
(* Proofs about Accounts, for any accounts, requests, threshold and length *)
(* of a lock: the type invariant, that a lock is only lifted early by a    *)
(* request that was running when it was written, and that the count is     *)
(* exact while requests do not overlap.                                    *)
(***************************************************************************)
EXTENDS Accounts, TLAPS

(* What a failed login makes of an entity is an entity.                     *)
LEMMA FailedIsUser ==
    ASSUME NEW u \in User, now \in Nat
    PROVE  /\ Failed(u) \in User /\ Failed(u).password = u.password
           /\ Failed(u).attempts = u.attempts + 1
           /\ Failed(u).lockedUntil = IF u.attempts + 1 >= Threshold THEN now + LockTime
                                      ELSE u.lockedUntil
<1>1. u.attempts + 1 \in Nat /\ now + LockTime \in Nat /\ u.lockedUntil \in Nat
  BY PolicyAssumption DEF User
<1>2. CASE u.attempts + 1 >= Threshold
  <2>1. Failed(u) = [u EXCEPT !.attempts = u.attempts + 1, !.lockedUntil = now + LockTime]
    BY <1>2 DEF Failed
  <2> QED
    BY <1>1, <1>2, <2>1 DEF User
<1>3. CASE ~(u.attempts + 1 >= Threshold)
  <2>1. Failed(u) = [u EXCEPT !.attempts = u.attempts + 1, !.lockedUntil = u.lockedUntil]
    BY <1>3 DEF Failed
  <2> QED
    BY <1>1, <1>3, <2>1 DEF User
<1> QED
  BY <1>2, <1>3

(* A row with a password, and an entity without one.                        *)
LEMMA PasswordIsUser ==
    ASSUME NEW u \in User, NEW p \in BOOLEAN
    PROVE  /\ [u EXCEPT !.password = p] \in User
           /\ [u EXCEPT !.password = p].password = p
           /\ [u EXCEPT !.password = p].attempts = u.attempts
           /\ [u EXCEPT !.password = p].lockedUntil = u.lockedUntil
  BY DEF User

(* A request that moves on to a call with the locals this call needs.       *)
LEMMA GotoKeepsSlots ==
    ASSUME TypeOK, NEW r \in Requests, NEW c \in Call, NEW a \in Ids \cup {None},
           NEW u \in User \cup {None}, Goto(r, c, a, u),
           c \in {"count", "save", "check", "insert"} <=> u # None,
           c \notin {"idle", "insert"} <=> a # None,
           c = "count" => ~u.password, c = "insert" => u.password
    PROVE  /\ pc' \in [Requests -> Call] /\ id' \in [Requests -> Ids \cup {None}]
           /\ ent' \in [Requests -> User \cup {None}]
           /\ \A q \in Requests : SlotOK(q)'
           /\ Busy' = IF c = "idle" THEN Busy \ {r} ELSE Busy \cup {r}
<1>1. /\ pc' \in [Requests -> Call] /\ id' \in [Requests -> Ids \cup {None}]
      /\ ent' \in [Requests -> User \cup {None}]
  BY DEF TypeOK, Goto
<1>2. pc'[r] = c /\ id'[r] = a /\ ent'[r] = u
  BY DEF TypeOK, Goto
<1>3. \A q \in Requests \ {r} : pc'[q] = pc[q] /\ id'[q] = id[q] /\ ent'[q] = ent[q]
  BY DEF TypeOK, Goto
<1>4. SlotOK(r)'
  BY <1>2 DEF SlotOK
<1>5. \A q \in Requests \ {r} : SlotOK(q)'
  BY <1>3 DEF SlotOK, TypeOK
<1>6. Busy' = IF c = "idle" THEN Busy \ {r} ELSE Busy \cup {r}
  BY <1>2, <1>3 DEF Busy
<1> QED
  BY <1>1, <1>4, <1>5, <1>6

(* The start of a request keeps the bookkeeping well typed.                 *)
LEMMA BeginKeepsSlots ==
    ASSUME TypeOK, NEW r \in Requests, NEW c \in Call \ {"idle"}, NEW a \in Ids \cup {None},
           NEW u \in User \cup {None}, Begin(r, c, a, u),
           c \in {"count", "save", "check", "insert"} <=> u # None,
           c # "insert" <=> a # None,
           c # "count", c = "insert" => u.password
    PROVE  /\ pc' \in [Requests -> Call] /\ id' \in [Requests -> Ids \cup {None}]
           /\ ent' \in [Requests -> User \cup {None}]
           /\ \A q \in Requests : SlotOK(q)'
           /\ older' \in [Ids -> SUBSET Busy'] /\ alone' \in BOOLEAN
<1>1. Goto(r, c, a, u) /\ older' = older /\ alone' \in BOOLEAN
  BY DEF Begin
<1>2. Busy' = Busy \cup {r}
  BY <1>1, GotoKeepsSlots
<1>3. older' \in [Ids -> SUBSET Busy']
  BY <1>1, <1>2 DEF TypeOK
<1> QED
  BY <1>1, <1>3, GotoKeepsSlots

(* So does its end.                                                         *)
LEMMA FinishKeepsSlots ==
    ASSUME TypeOK, NEW r \in Requests, NEW locks, Finish(r, locks)
    PROVE  /\ pc' \in [Requests -> Call] /\ id' \in [Requests -> Ids \cup {None}]
           /\ ent' \in [Requests -> User \cup {None}]
           /\ \A q \in Requests : SlotOK(q)'
           /\ older' \in [Ids -> SUBSET Busy'] /\ alone' \in BOOLEAN
<1>1. Goto(r, "idle", None, None) /\ alone' = alone /\ "idle" \in Call
  BY DEF Finish, Call
<1>2. Busy' = Busy \ {r}
  BY <1>1, GotoKeepsSlots
<1>3. older' \in [Ids -> SUBSET Busy']
  BY <1>2 DEF TypeOK, Finish
<1> QED
  BY <1>1, <1>3, GotoKeepsSlots DEF TypeOK

(* And a step in its middle.                                                *)
LEMMA StepKeepsSlots ==
    ASSUME TypeOK, NEW r \in Requests, pc[r] \notin {"idle", "insert"}, NEW u \in User,
           NEW c \in {"count", "save"}, Step(r, c, u), c = "count" => ~u.password
    PROVE  /\ pc' \in [Requests -> Call] /\ id' \in [Requests -> Ids \cup {None}]
           /\ ent' \in [Requests -> User \cup {None}]
           /\ \A q \in Requests : SlotOK(q)'
           /\ older' \in [Ids -> SUBSET Busy'] /\ alone' \in BOOLEAN
<1>1. Goto(r, c, id[r], u) /\ older' = older /\ alone' = alone
  BY DEF Step
<1>2. id[r] \in Ids /\ id[r] # None /\ u # None /\ c \in Call
  BY NoneAssumption DEF TypeOK, SlotOK, Call
<1>3. Busy' = Busy
  <2>1. Busy' = Busy \cup {r}
    BY <1>1, <1>2, GotoKeepsSlots
  <2> QED
    BY <2>1 DEF Busy
<1>4. older' \in [Ids -> SUBSET Busy']
  BY <1>1, <1>3 DEF TypeOK
<1> QED
  BY <1>1, <1>2, <1>4, GotoKeepsSlots DEF TypeOK

(* The entity of a request that is about to write it.                       *)
LEMMA Writer ==
    ASSUME TypeOK, NEW r \in Requests, pc[r] \in {"count", "save"}
    PROVE  id[r] \in Ids /\ ent[r] \in User
  BY NoneAssumption DEF TypeOK, SlotOK

(* Every reachable state satisfies TypeOK.                                  *)
LEMMA InitTypeOK == Init => TypeOK
<1> SUFFICES ASSUME Init PROVE TypeOK
  OBVIOUS
<1>1. \A r \in Requests : pc[r] = "idle" /\ id[r] = None /\ ent[r] = None
  BY DEF Init
<1>2. \A r \in Requests : SlotOK(r)
  BY <1>1 DEF SlotOK
<1>3. DOMAIN users = {} /\ alone \in BOOLEAN /\ failures \in [Ids -> Nat]
  BY DEF Init
<1> QED
  BY <1>2, <1>3 DEF Init, TypeOK, Call

LEMMA NextTypeOK == TypeOK /\ [Next]_vars => TypeOK'
<1> SUFFICES ASSUME TypeOK, [Next]_vars PROVE TypeOK'
  OBVIOUS
<1> USE NoneAssumption
<1>1. ASSUME NEW r \in Requests, NEW a \in DOMAIN users, LoginWrong(r, a) PROVE TypeOK'
  BY <1>1, BeginKeepsSlots DEF LoginWrong, TypeOK, Call
<1>2. ASSUME NEW r \in Requests, NEW a \in DOMAIN users, LoginRight(r, a) PROVE TypeOK'
  BY <1>2, BeginKeepsSlots DEF LoginRight, TypeOK, Call
<1>3. ASSUME NEW r \in Requests, RecordFailedLogin(r) PROVE TypeOK'
  <2>1. Loaded(id[r]) \in User /\ ~Loaded(id[r]).password
    BY <1>3, PasswordIsUser DEF RecordFailedLogin, Loaded, TypeOK
  <2>2. Failed(Loaded(id[r])) \in User /\ ~Failed(Loaded(id[r])).password
    BY <2>1, FailedIsUser DEF TypeOK
  <2>3. Step(r, "count", Failed(Loaded(id[r]))) /\ pc[r] = "record"
        /\ UNCHANGED <<users, removed, now, failures>>
    BY <1>3 DEF RecordFailedLogin
  <2> QED
    BY <2>2, <2>3, StepKeepsSlots DEF TypeOK
<1>4. ASSUME NEW r \in Requests, SaveFailedLogin(r) PROVE TypeOK'
  <2>1. id[r] \in DOMAIN users /\ id[r] \in Ids /\ ent[r] \in User
    BY <1>4, Writer DEF SaveFailedLogin, Write, TypeOK, SlotOK
  <2>2. DOMAIN users' = DOMAIN users /\ \A b \in DOMAIN users' : users'[b] \in User /\ users'[b].password
    BY <1>4, <2>1, PasswordIsUser DEF SaveFailedLogin, Write, TypeOK
  <2>3. failures' \in [Ids -> Nat]
    BY <1>4, <2>1 DEF SaveFailedLogin, TypeOK
  <2>4. Finish(r, NewLock(r)) /\ removed' = removed /\ now' = now
    BY <1>4 DEF SaveFailedLogin
  <2> QED
    BY <2>2, <2>3, <2>4, FinishKeepsSlots DEF TypeOK
<1>5. ASSUME NEW r \in Requests, MarkSuccessfulLogin(r) PROVE TypeOK'
  <2>1. DOMAIN users' = DOMAIN users /\ \A b \in DOMAIN users' : users'[b] \in User /\ users'[b].password
    BY <1>5 DEF MarkSuccessfulLogin, TypeOK, User
  <2>2. failures' \in [Ids -> Nat]
    BY <1>5 DEF MarkSuccessfulLogin, TypeOK
  <2>3. Finish(r, FALSE) /\ removed' = removed /\ now' = now
    BY <1>5 DEF MarkSuccessfulLogin
  <2> QED
    BY <2>1, <2>2, <2>3, FinishKeepsSlots DEF TypeOK
<1>6. ASSUME NEW r \in Requests, NEW e \in Emails, NEW s \in Status, Create(r, e, s) PROVE TypeOK'
  <2> DEFINE new == [email |-> e, status |-> s, password |-> TRUE, attempts |-> 0, lockedUntil |-> 0]
  <2>1. new \in User /\ new.password
    BY DEF User
  <2>2. Begin(r, "insert", None, new) /\ UNCHANGED <<users, removed, now, failures>>
    BY <1>6 DEF Create
  <2> HIDE DEF new
  <2> QED
    BY <2>1, <2>2, BeginKeepsSlots DEF TypeOK, Call
<1>7. ASSUME NEW r \in Requests, NEW a \in Ids, Insert(r, a) PROVE TypeOK'
  <2>1. ent[r] \in User /\ ent[r].password
    BY <1>7 DEF Insert, TypeOK, SlotOK
  <2>2. DOMAIN users' = DOMAIN users \cup {a}
        /\ \A b \in DOMAIN users' : users'[b] \in User /\ users'[b].password
    BY <1>7, <2>1 DEF Insert, TypeOK
  <2>3. Finish(r, FALSE) /\ UNCHANGED <<removed, now, failures>> /\ a \notin removed
    BY <1>7 DEF Insert
  <2> QED
    BY <2>2, <2>3, FinishKeepsSlots DEF TypeOK
<1>8. ASSUME NEW r \in Requests, NEW a \in DOMAIN users, NEW e \in Emails, NEW s \in Status,
             NEW p \in BOOLEAN, Update(r, a, e, s, p) PROVE TypeOK'
  <2> DEFINE new == [Loaded(a) EXCEPT !.email = e, !.status = s, !.password = p]
  <2>1. new \in User
    BY DEF User, Loaded, TypeOK
  <2>2. PICK c \in {"save", "check"} : Begin(r, c, a, new)
    BY <1>8 DEF Update
  <2>3. UNCHANGED <<users, removed, now, failures>>
    BY <1>8 DEF Update
  <2> HIDE DEF new
  <2> QED
    BY <2>1, <2>2, <2>3, BeginKeepsSlots DEF TypeOK, Call
<1>9. ASSUME NEW r \in Requests, EnsureUniqueEmail(r) PROVE TypeOK'
  <2>1. Step(r, "save", ent[r]) /\ pc[r] = "check" /\ UNCHANGED <<users, removed, now, failures>>
    BY <1>9 DEF EnsureUniqueEmail
  <2>2. ent[r] \in User
    BY <2>1 DEF TypeOK, SlotOK
  <2> QED
    BY <2>1, <2>2, StepKeepsSlots DEF TypeOK
<1>10. ASSUME NEW r \in Requests, SaveUpdate(r) PROVE TypeOK'
  <2>1. id[r] \in Ids /\ ent[r] \in User
    BY <1>10, Writer DEF SaveUpdate
  <2>2. DOMAIN users' = DOMAIN users \cup {id[r]}
        /\ \A b \in DOMAIN users' : users'[b] \in User /\ users'[b].password
    BY <1>10, <2>1, PasswordIsUser DEF SaveUpdate, Write, TypeOK
  <2>3. DOMAIN users' \subseteq Ids \ removed' /\ removed' \subseteq Ids
    BY <1>10, <2>1, <2>2 DEF SaveUpdate, Write, TypeOK
  <2>4. Finish(r, NewLock(r)) /\ now' = now /\ failures' = failures
    BY <1>10 DEF SaveUpdate
  <2> QED
    BY <2>2, <2>3, <2>4, FinishKeepsSlots DEF TypeOK
<1>11. ASSUME NEW r \in Requests, NEW a \in DOMAIN users, Remove(r, a) PROVE TypeOK'
  BY <1>11 DEF Remove, TypeOK, SlotOK, Busy
<1>12. ASSUME NEW r \in Requests, Abort(r) PROVE TypeOK'
  BY <1>12, FinishKeepsSlots DEF Abort, TypeOK
<1>13. CASE Tick
  BY <1>13 DEF Tick, TypeOK, SlotOK, Busy
<1>14. CASE UNCHANGED vars
  BY <1>14 DEF vars, TypeOK, SlotOK, Busy
<1> QED
  BY <1>1, <1>2, <1>3, <1>4, <1>5, <1>6, <1>7, <1>8, <1>9, <1>10, <1>11, <1>12, <1>13, <1>14
  DEF Next

(* Every reachable state satisfies TypeOK.                                  *)
THEOREM TypeCorrect == Spec => []TypeOK
  BY InitTypeOK, NextTypeOK, PTL DEF Spec

----------------------------------------------------------------------------
(* What a request holds of a locked account it serves: either it was already running when the
   lock was written, or it is an update that read the lock and writes it back.              *)
LocksCarried ==
    \A a \in DOMAIN users, r \in Requests :
        id[r] = a /\ Locked(users[a]) /\ r \notin older[a]
            => pc[r] \in {"save", "check"} /\ ent[r].lockedUntil = users[a].lockedUntil

(* A row about to be inserted has no failures and no lock.                  *)
NewIsClean == \A r \in Requests :
    pc[r] = "insert" => ent[r].attempts = 0 /\ ent[r].lockedUntil = 0

HoldInv == LocksCarried /\ NewIsClean

(* A Goto sets the locals of one request.                                   *)
LEMMA GotoLocals ==
    ASSUME TypeOK, NEW r \in Requests, NEW c, NEW a, NEW u, Goto(r, c, a, u)
    PROVE  /\ pc'[r] = c /\ id'[r] = a /\ ent'[r] = u
           /\ \A q \in Requests \ {r} : pc'[q] = pc[q] /\ id'[q] = id[q] /\ ent'[q] = ent[q]
  BY DEF TypeOK, Goto

(* The end of a request forgets it, and a new lock remembers who is running. *)
LEMMA FinishLocals ==
    ASSUME TypeOK, NEW r \in Requests, NEW locks, Finish(r, locks)
    PROVE  /\ pc'[r] = "idle" /\ id'[r] = None /\ ent'[r] = None /\ alone' = alone
           /\ \A q \in Requests \ {r} : pc'[q] = pc[q] /\ id'[q] = id[q] /\ ent'[q] = ent[q]
           /\ \A a \in Ids, q \in Requests \ {r} :
                 /\ ~locks \/ a # id[r] => (q \in older'[a] <=> q \in older[a])
                 /\ locks /\ a = id[r] => (q \in older'[a] <=> q \in Busy)
<1>1. Goto(r, "idle", None, None) /\ alone' = alone
  BY DEF Finish
<1>2. older' = [a \in Ids |-> (IF locks /\ a = id[r] THEN Busy ELSE older[a]) \ {r}]
  BY DEF Finish
<1>3. ASSUME NEW a \in Ids, NEW q \in Requests \ {r}
      PROVE  /\ ~locks \/ a # id[r] => (q \in older'[a] <=> q \in older[a])
             /\ locks /\ a = id[r] => (q \in older'[a] <=> q \in Busy)
  BY <1>2, <1>3
<1> QED
  BY <1>1, <1>3, GotoLocals

(* A save makes the row what the entity is, and no other row changes.       *)
LEMMA WriteResult ==
    ASSUME TypeOK, NEW r \in Requests, pc[r] \in {"count", "save"}, Write(r)
    PROVE  /\ id[r] \in Ids /\ DOMAIN users' = DOMAIN users \cup {id[r]}
           /\ users'[id[r]].attempts = ent[r].attempts
           /\ users'[id[r]].lockedUntil = ent[r].lockedUntil
           /\ \A b \in DOMAIN users \ {id[r]} : users'[b] = users[b]
  BY Writer, PasswordIsUser DEF Write

(* The entity of a lookup carries the counter and the lock of the row.      *)
LEMMA LoadedKeeps ==
    ASSUME TypeOK, NEW a \in DOMAIN users
    PROVE  Loaded(a) \in User /\ Loaded(a).attempts = users[a].attempts
           /\ Loaded(a).lockedUntil = users[a].lockedUntil
  BY PasswordIsUser DEF Loaded, TypeOK

LEMMA InitHoldInv == Init => HoldInv
  BY DEF Init, HoldInv, LocksCarried, NewIsClean

(* The save of a counted failure or of an update: a lock it leaves is either the one it found,
   or a new one under which every other running request is old.                             *)
LEMMA SaveKeepsHold ==
    ASSUME TypeOK, HoldInv, NEW r \in Requests, pc[r] \in {"count", "save"}, Write(r),
           Finish(r, NewLock(r)), now' = now
    PROVE  HoldInv'
<1>1. NewIsClean'
  BY FinishLocals DEF HoldInv, NewIsClean
<1>2. ASSUME NEW a \in DOMAIN users', NEW q \in Requests, id'[q] = a, Locked(users[a])', q \notin older'[a]
      PROVE  pc'[q] \in {"save", "check"} /\ ent'[q].lockedUntil = users'[a].lockedUntil
  <2>1. a \in Ids /\ q # r /\ id[q] = a /\ pc'[q] = pc[q] /\ ent'[q] = ent[q]
    <3>1. a \in Ids
      BY <1>2, WriteResult DEF TypeOK
    <3>2. q # r
      BY <1>2, <3>1, FinishLocals, NoneAssumption
    <3> QED
      BY <1>2, <3>1, <3>2, FinishLocals
  <2>2. q \in Busy
    BY <2>1, NoneAssumption DEF TypeOK, SlotOK, Busy
  <2>3. CASE a # id[r]
    <3>1. users'[a] = users[a] /\ a \in DOMAIN users
      BY <2>3, WriteResult
    <3>2. q \notin older[a]
      BY <1>2, <2>1, <2>3, FinishLocals
    <3> QED
      BY <1>2, <2>1, <3>1, <3>2 DEF HoldInv, LocksCarried, Locked
  <2>4. CASE a = id[r]
    <3>1. ~NewLock(r) /\ q \notin older[a]
      BY <1>2, <2>1, <2>2, <2>4, FinishLocals
    <3>2. ent[r].lockedUntil # 0
      <4>1. users'[a].lockedUntil > now /\ users'[a].lockedUntil = ent[r].lockedUntil
        BY <1>2, <2>4, WriteResult DEF Locked
      <4> QED
        BY <4>1 DEF TypeOK
    <3>3. a \in DOMAIN users /\ users[a].lockedUntil = ent[r].lockedUntil
      BY <2>4, <3>1, <3>2 DEF NewLock
    <3>4. Locked(users[a]) /\ users'[a].lockedUntil = users[a].lockedUntil
      BY <1>2, <2>4, <3>3, WriteResult DEF Locked
    <3> QED
      BY <2>1, <3>1, <3>3, <3>4 DEF HoldInv, LocksCarried
  <2> QED
    BY <2>3, <2>4
<1> QED
  BY <1>1, <1>2 DEF HoldInv, LocksCarried

(* A request that begins: it serves an account that is not locked, or holds the lock it read. *)
LEMMA BeginKeepsHold ==
    ASSUME TypeOK, HoldInv, NEW r \in Requests, NEW c \in Call, NEW a \in Ids \cup {None}, NEW u,
           Begin(r, c, a, u), users' = users, now' = now,
           c = "insert" => u.attempts = 0 /\ u.lockedUntil = 0,
           a \in DOMAIN users /\ Locked(users[a]) =>
               c \in {"save", "check"} /\ u.lockedUntil = users[a].lockedUntil
    PROVE  HoldInv'
<1>1. Goto(r, c, a, u) /\ older' = older
  BY DEF Begin
<1>2. /\ pc'[r] = c /\ id'[r] = a /\ ent'[r] = u
      /\ \A q \in Requests \ {r} : pc'[q] = pc[q] /\ id'[q] = id[q] /\ ent'[q] = ent[q]
  BY <1>1, GotoLocals
<1>3. NewIsClean'
  BY <1>2 DEF HoldInv, NewIsClean
<1>4. LocksCarried'
  BY <1>1, <1>2 DEF HoldInv, LocksCarried, Locked
<1> QED
  BY <1>3, <1>4 DEF HoldInv

(* A request that ends without a new lock, when each locked row is as it was. *)
LEMMA FinishKeepsHold ==
    ASSUME TypeOK, HoldInv, NEW r \in Requests, Finish(r, FALSE), now' = now,
           \A a \in DOMAIN users' : users'[a].lockedUntil = 0 \/ (a \in DOMAIN users /\ users'[a] = users[a]),
           DOMAIN users' \subseteq Ids
    PROVE  HoldInv'
<1>1. NewIsClean'
  BY FinishLocals DEF HoldInv, NewIsClean
<1>2. ASSUME NEW a \in DOMAIN users', NEW q \in Requests, id'[q] = a, Locked(users[a])', q \notin older'[a]
      PROVE  pc'[q] \in {"save", "check"} /\ ent'[q].lockedUntil = users'[a].lockedUntil
  <2>1. users'[a].lockedUntil > now /\ now \in Nat
    BY <1>2 DEF Locked, TypeOK
  <2>2. a \in DOMAIN users /\ users'[a] = users[a] /\ Locked(users[a])
    BY <2>1 DEF Locked
  <2>3. a \in Ids /\ older'[a] = older[a] \ {r} /\ Goto(r, "idle", None, None)
    BY DEF Finish
  <2>4. q # r
    BY <1>2, <2>3, GotoLocals, NoneAssumption
  <2>5. id[q] = a /\ pc'[q] = pc[q] /\ ent'[q] = ent[q] /\ q \notin older[a]
    BY <1>2, <2>3, <2>4, GotoLocals
  <2> QED
    BY <2>2, <2>5 DEF HoldInv, LocksCarried
<1> QED
  BY <1>1, <1>2 DEF HoldInv, LocksCarried

LEMMA NextHoldInv == TypeOK /\ HoldInv /\ [Next]_vars => HoldInv'
<1> SUFFICES ASSUME TypeOK, HoldInv, [Next]_vars PROVE HoldInv'
  OBVIOUS
<1> USE NoneAssumption
<1>1. ASSUME NEW r \in Requests, NEW a \in DOMAIN users, LoginWrong(r, a) PROVE HoldInv'
  BY <1>1, BeginKeepsHold DEF LoginWrong, TypeOK, Call
<1>2. ASSUME NEW r \in Requests, NEW a \in DOMAIN users, LoginRight(r, a) PROVE HoldInv'
  BY <1>2, BeginKeepsHold DEF LoginRight, TypeOK, Call
<1>3. ASSUME NEW r \in Requests, RecordFailedLogin(r) PROVE HoldInv'
  <2>1. /\ pc[r] = "record" /\ older' = older /\ UNCHANGED <<users, now>>
        /\ Goto(r, "count", id[r], Failed(Loaded(id[r])))
    BY <1>3 DEF RecordFailedLogin, Step
  <2>2. /\ pc'[r] = "count" /\ id'[r] = id[r]
        /\ \A q \in Requests \ {r} : pc'[q] = pc[q] /\ id'[q] = id[q] /\ ent'[q] = ent[q]
    BY <2>1, GotoLocals
  <2> QED
    BY <2>1, <2>2 DEF HoldInv, LocksCarried, NewIsClean, Locked
<1>4. ASSUME NEW r \in Requests, SaveFailedLogin(r) PROVE HoldInv'
  BY <1>4, SaveKeepsHold DEF SaveFailedLogin
<1>5. ASSUME NEW r \in Requests, MarkSuccessfulLogin(r) PROVE HoldInv'
  <2>1. Finish(r, FALSE) /\ now' = now
        /\ users' = [b \in DOMAIN users |->
              IF b = id[r] THEN [users[b] EXCEPT !.attempts = 0, !.lockedUntil = 0] ELSE users[b]]
    BY <1>5 DEF MarkSuccessfulLogin
  <2>2. DOMAIN users' = DOMAIN users /\ \A b \in DOMAIN users : users'[b] = users[b] \/ users'[b].lockedUntil = 0
    BY <2>1 DEF TypeOK, User
  <2>3. DOMAIN users' \subseteq Ids
    BY <2>1, <2>2 DEF TypeOK
  <2>4. \A b \in DOMAIN users' : users'[b].lockedUntil = 0 \/ (b \in DOMAIN users /\ users'[b] = users[b])
    BY <2>2
  <2> QED
    BY <2>1, <2>3, <2>4, FinishKeepsHold
<1>6. ASSUME NEW r \in Requests, NEW e \in Emails, NEW s \in Status, Create(r, e, s) PROVE HoldInv'
  <2> DEFINE new == [email |-> e, status |-> s, password |-> TRUE, attempts |-> 0, lockedUntil |-> 0]
  <2>1. new.attempts = 0 /\ new.lockedUntil = 0
    OBVIOUS
  <2>2. Begin(r, "insert", None, new) /\ UNCHANGED <<users, removed, now, failures>>
    BY <1>6 DEF Create
  <2> HIDE DEF new
  <2> QED
    BY <2>1, <2>2, BeginKeepsHold DEF TypeOK, Call
<1>7. ASSUME NEW r \in Requests, NEW a \in Ids, Insert(r, a) PROVE HoldInv'
  <2>1. /\ Finish(r, FALSE) /\ now' = now /\ a \notin DOMAIN users
        /\ users' = [b \in DOMAIN users \cup {a} |-> IF b = a THEN ent[r] ELSE users[b]]
    BY <1>7 DEF Insert
  <2>2. users'[a].lockedUntil = 0
    BY <1>7, <2>1 DEF Insert, HoldInv, NewIsClean
  <2>3. DOMAIN users' \subseteq Ids
    BY <2>1, <2>2 DEF TypeOK
  <2>4. \A b \in DOMAIN users' : users'[b].lockedUntil = 0 \/ (b \in DOMAIN users /\ users'[b] = users[b])
    <3>1. DOMAIN users' = DOMAIN users \cup {a} /\ \A b \in DOMAIN users : users'[b] = users[b]
      BY <2>1
    <3> QED
      BY <2>2, <3>1
  <2> QED
    BY <2>1, <2>3, <2>4, FinishKeepsHold
<1>8. ASSUME NEW r \in Requests, NEW a \in DOMAIN users, NEW e \in Emails, NEW s \in Status,
             NEW p \in BOOLEAN, Update(r, a, e, s, p) PROVE HoldInv'
  <2> DEFINE new == [Loaded(a) EXCEPT !.email = e, !.status = s, !.password = p]
  <2>1. new.lockedUntil = users[a].lockedUntil
    BY LoadedKeeps DEF User
  <2>2. PICK c \in {"save", "check"} : Begin(r, c, a, new)
    BY <1>8 DEF Update
  <2>3. UNCHANGED <<users, removed, now, failures>>
    BY <1>8 DEF Update
  <2> HIDE DEF new
  <2> QED
    BY <2>1, <2>2, <2>3, BeginKeepsHold DEF TypeOK, Call
<1>9. ASSUME NEW r \in Requests, EnsureUniqueEmail(r) PROVE HoldInv'
  <2>1. /\ Goto(r, "save", id[r], ent[r]) /\ pc[r] = "check" /\ older' = older
        /\ UNCHANGED <<users, now>>
    BY <1>9 DEF EnsureUniqueEmail, Step
  <2> QED
    BY <2>1, GotoLocals DEF HoldInv, LocksCarried, NewIsClean, Locked
<1>10. ASSUME NEW r \in Requests, SaveUpdate(r) PROVE HoldInv'
  BY <1>10, SaveKeepsHold DEF SaveUpdate
<1>11. ASSUME NEW r \in Requests, NEW a \in DOMAIN users, Remove(r, a) PROVE HoldInv'
  BY <1>11 DEF Remove, HoldInv, LocksCarried, NewIsClean, Locked
<1>12. ASSUME NEW r \in Requests, Abort(r) PROVE HoldInv'
  BY <1>12, FinishKeepsHold DEF Abort, TypeOK
<1>13. CASE Tick
  <2>1. \A a \in DOMAIN users : Locked(users[a])' => Locked(users[a])
    BY <1>13 DEF Tick, Locked, TypeOK, User
  <2> QED
    BY <1>13, <2>1 DEF Tick, HoldInv, LocksCarried, NewIsClean
<1>14. CASE UNCHANGED vars
  BY <1>14 DEF vars, HoldInv, LocksCarried, NewIsClean, Locked
<1> QED
  BY <1>1, <1>2, <1>3, <1>4, <1>5, <1>6, <1>7, <1>8, <1>9, <1>10, <1>11, <1>12, <1>13, <1>14
  DEF Next
(* What a step that moves the end of a present lock towards now must be.    *)
LEMMA EarlyEnd ==
    ASSUME TypeOK, HoldInv, Next, NEW a \in DOMAIN users, Locked(users[a]), a \in DOMAIN users',
           users'[a].lockedUntil < users[a].lockedUntil
    PROVE  \E r \in older[a] : pc[r] # "idle" /\ pc'[r] = "idle"
<1>1. users'[a] # users[a]
  BY DEF TypeOK, User
<1>2. ASSUME NEW r \in Requests, pc[r] \in {"count", "save"}, Write(r), Finish(r, NewLock(r))
      PROVE  r \in older[a] /\ pc[r] # "idle" /\ pc'[r] = "idle"
  <2>1. id[r] = a /\ users'[a].lockedUntil = ent[r].lockedUntil
    BY <1>1, <1>2, WriteResult
  <2>2. ent[r].lockedUntil # users[a].lockedUntil
    BY <2>1 DEF TypeOK, User
  <2> QED
    BY <1>2, <2>1, <2>2, FinishLocals DEF HoldInv, LocksCarried
<1>3. ASSUME NEW r \in Requests, MarkSuccessfulLogin(r)
      PROVE  r \in older[a] /\ pc[r] # "idle" /\ pc'[r] = "idle"
  <2>1. id[r] = a /\ pc[r] = "mark" /\ Goto(r, "idle", None, None)
    BY <1>1, <1>3 DEF MarkSuccessfulLogin, Finish
  <2> QED
    BY <2>1, GotoLocals DEF HoldInv, LocksCarried
<1>4. ASSUME NEW r \in Requests, NEW b \in Ids, Insert(r, b) PROVE FALSE
  BY <1>1, <1>4 DEF Insert
<1>5. ASSUME NEW r \in Requests, NEW b \in DOMAIN users, Remove(r, b) PROVE FALSE
  BY <1>1, <1>5 DEF Remove
<1>6. users' # users
  BY <1>1
<1>7. PICK r \in Requests : SaveFailedLogin(r) \/ SaveUpdate(r) \/ MarkSuccessfulLogin(r)
  BY <1>4, <1>5, <1>6
  DEF Next, LoginWrong, LoginRight, Update, Create, RecordFailedLogin, EnsureUniqueEmail, Abort, Tick
<1>8. r \in older[a] /\ pc[r] # "idle" /\ pc'[r] = "idle"
  BY <1>2, <1>3, <1>7 DEF SaveFailedLogin, SaveUpdate
<1> QED
  BY <1>8

(* A lock ends early only by a request that was running when it was written. *)
THEOREM LocksHold == Spec => LockHolds
<1>1. TypeOK /\ HoldInv /\ [Next]_vars
        => [\A a \in DOMAIN users :
              Locked(users[a]) /\ a \in DOMAIN users' /\ users'[a].lockedUntil < users[a].lockedUntil
                => \E r \in older[a] : pc[r] # "idle" /\ pc'[r] = "idle"]_vars
  BY EarlyEnd
<1> QED
  BY <1>1, InitTypeOK, NextTypeOK, InitHoldInv, NextHoldInv, PTL DEF Spec, LockHolds

----------------------------------------------------------------------------
(* The counter.  An entity or row counts n failures, and is locked for them. *)
Counts(u, n) == u.attempts = n /\ (u.lockedUntil # 0 <=> n >= Threshold)

(* While requests do not overlap: one is running at most; each row counts the failures of its
   account, and so does the entity of an update, while that of a failed login is one ahead; an
   id that is still to be given has no failures.                                            *)
OneAtATime == \A q, r \in Busy : q = r
RowsCount == \A a \in DOMAIN users : Counts(users[a], failures[a])
EntitiesCount == \A r \in Requests :
    /\ pc[r] = "count" => Counts(ent[r], failures[id[r]] + 1)
    /\ pc[r] \in {"save", "check"} => Counts(ent[r], failures[id[r]])
FreshHaveNone == \A a \in Ids \ (DOMAIN users \cup removed) : failures[a] = 0

CountInv == alone => OneAtATime /\ RowsCount /\ EntitiesCount /\ FreshHaveNone

(* A failed login moves the count of the entity one ahead.                  *)
LEMMA FailedCounts ==
    ASSUME TypeOK, NEW u \in User, NEW n \in Nat, Counts(u, n)
    PROVE  Counts(Failed(u), n + 1)
<1>1. now + LockTime # 0 /\ now \in Nat
  BY PolicyAssumption DEF TypeOK
<1>2. /\ Failed(u).attempts = n + 1
      /\ Failed(u).lockedUntil = IF n + 1 >= Threshold THEN now + LockTime ELSE u.lockedUntil
  BY <1>1, FailedIsUser DEF Counts
<1>3. CASE n + 1 >= Threshold
  BY <1>1, <1>2, <1>3 DEF Counts
<1>4. CASE ~(n + 1 >= Threshold)
  BY <1>2, <1>4, PolicyAssumption DEF Counts
<1> QED
  BY <1>3, <1>4

(* Nothing counted is nothing locked.                                       *)
LEMMA CleanCounts ==
    ASSUME NEW u, u.attempts = 0, u.lockedUntil = 0
    PROVE  Counts(u, 0)
  BY PolicyAssumption DEF Counts

(* A request that begins while none is running.                             *)
LEMMA BeginKeepsCount ==
    ASSUME TypeOK, CountInv, NEW r \in Requests, NEW c, NEW a, NEW u, Begin(r, c, a, u),
           UNCHANGED <<users, removed, failures>>, c # "count",
           c \in {"save", "check"} => a \in DOMAIN users /\ u.attempts = users[a].attempts
                                     /\ u.lockedUntil = users[a].lockedUntil
    PROVE  CountInv'
<1> SUFFICES ASSUME alone' PROVE (OneAtATime /\ RowsCount /\ EntitiesCount /\ FreshHaveNone)'
  BY DEF CountInv
<1>1. alone /\ Busy = {} /\ Goto(r, c, a, u)
  BY DEF Begin
<1>2. /\ pc'[r] = c /\ id'[r] = a /\ ent'[r] = u
      /\ \A q \in Requests \ {r} : pc'[q] = "idle"
  BY <1>1, GotoLocals DEF Busy
<1>3. OneAtATime'
  BY <1>2 DEF OneAtATime, Busy
<1>4. RowsCount' /\ FreshHaveNone'
  BY <1>1 DEF CountInv, RowsCount, FreshHaveNone, Counts
<1>5. EntitiesCount'
  BY <1>1, <1>2 DEF CountInv, RowsCount, EntitiesCount, Counts
<1> QED
  BY <1>3, <1>4, <1>5

(* A request that ends.                                                     *)
LEMMA FinishKeepsCount ==
    ASSUME TypeOK, CountInv, NEW r \in Requests, NEW locks, Finish(r, locks), pc[r] # "idle",
           alone => RowsCount' /\ FreshHaveNone'
    PROVE  CountInv'
<1> SUFFICES ASSUME alone' PROVE (OneAtATime /\ RowsCount /\ EntitiesCount /\ FreshHaveNone)'
  BY DEF CountInv
<1>1. alone /\ Goto(r, "idle", None, None)
  BY DEF Finish
<1>2. \A q \in Requests : pc'[q] = "idle"
  BY <1>1, GotoLocals DEF CountInv, OneAtATime, Busy
<1>3. OneAtATime' /\ EntitiesCount'
  BY <1>2 DEF OneAtATime, EntitiesCount, Busy
<1> QED
  BY <1>1, <1>3

LEMMA InitCountInv == Init => CountInv
  BY DEF Init, CountInv, OneAtATime, RowsCount, EntitiesCount, FreshHaveNone, Busy

LEMMA NextCountInv == TypeOK /\ NewIsClean /\ CountInv /\ [Next]_vars => CountInv'
<1> SUFFICES ASSUME TypeOK, NewIsClean, CountInv, [Next]_vars PROVE CountInv'
  OBVIOUS
<1>1. ASSUME NEW r \in Requests, NEW a \in DOMAIN users, LoginWrong(r, a) PROVE CountInv'
  BY <1>1, BeginKeepsCount DEF LoginWrong
<1>2. ASSUME NEW r \in Requests, NEW a \in DOMAIN users, LoginRight(r, a) PROVE CountInv'
  BY <1>2, BeginKeepsCount DEF LoginRight
<1>3. ASSUME NEW r \in Requests, RecordFailedLogin(r) PROVE CountInv'
  <2> SUFFICES ASSUME alone PROVE CountInv'
    BY <1>3 DEF RecordFailedLogin, Step, CountInv
  <2>1. /\ pc[r] = "record" /\ id[r] \in DOMAIN users /\ id[r] \in Ids
        /\ UNCHANGED <<users, removed, failures, alone>>
        /\ Goto(r, "count", id[r], Failed(Loaded(id[r])))
    BY <1>3 DEF RecordFailedLogin, Step, TypeOK
  <2>2. /\ pc'[r] = "count" /\ id'[r] = id[r] /\ ent'[r] = Failed(Loaded(id[r]))
        /\ \A q \in Requests \ {r} : pc'[q] = "idle" /\ pc[q] = "idle"
    BY <2>1, GotoLocals DEF CountInv, OneAtATime, Busy
  <2>3. Counts(ent'[r], failures[id[r]] + 1)
    <3>1. failures[id[r]] \in Nat /\ Loaded(id[r]) \in User /\ Counts(Loaded(id[r]), failures[id[r]])
      BY <2>1, LoadedKeeps DEF CountInv, RowsCount, Counts, TypeOK
    <3> QED
      BY <2>2, <3>1, FailedCounts
  <2>4. OneAtATime' /\ EntitiesCount'
    BY <2>1, <2>2, <2>3 DEF OneAtATime, EntitiesCount, Busy, Counts
  <2> QED
    BY <2>1, <2>4 DEF CountInv, RowsCount, FreshHaveNone, Counts
<1>4. ASSUME NEW r \in Requests, SaveFailedLogin(r) PROVE CountInv'
  <2>1. /\ pc[r] = "count" /\ Write(r) /\ Finish(r, NewLock(r)) /\ removed' = removed
        /\ failures' = [failures EXCEPT ![id[r]] = failures[id[r]] + 1]
    BY <1>4 DEF SaveFailedLogin
  <2>2. ASSUME alone PROVE RowsCount' /\ FreshHaveNone'
    <3>1. Counts(ent[r], failures[id[r]] + 1) /\ id[r] \in Ids
      BY <2>1, <2>2, Writer DEF CountInv, EntitiesCount
    <3>2. failures'[id[r]] = failures[id[r]] + 1 /\ \A b \in Ids \ {id[r]} : failures'[b] = failures[b]
      BY <2>1, <3>1 DEF TypeOK
    <3>3. RowsCount'
      <4>1. Counts(users'[id[r]], failures'[id[r]])
        BY <2>1, <3>1, <3>2, WriteResult DEF Counts
      <4>2. ASSUME NEW b \in DOMAIN users \ {id[r]} PROVE Counts(users'[b], failures'[b])
        <5>1. users'[b] = users[b] /\ b \in Ids
          BY <2>1, <4>2, WriteResult DEF TypeOK
        <5> QED
          BY <2>2, <3>2, <4>2, <5>1 DEF CountInv, RowsCount
      <4> QED
        BY <2>1, <4>1, <4>2, WriteResult DEF RowsCount
    <3>4. FreshHaveNone'
      BY <2>1, <2>2, <3>2, WriteResult DEF CountInv, FreshHaveNone
    <3> QED
      BY <3>3, <3>4
  <2> QED
    BY <2>1, <2>2, FinishKeepsCount
<1>5. ASSUME NEW r \in Requests, MarkSuccessfulLogin(r) PROVE CountInv'
  <2>1. /\ Finish(r, FALSE) /\ removed' = removed /\ pc[r] = "mark"
        /\ users' = [b \in DOMAIN users |->
              IF b = id[r] THEN [users[b] EXCEPT !.attempts = 0, !.lockedUntil = 0] ELSE users[b]]
        /\ failures' = [failures EXCEPT ![id[r]] = 0]
    BY <1>5 DEF MarkSuccessfulLogin
  <2>2. ASSUME alone PROVE RowsCount' /\ FreshHaveNone'
    <3>1. \A b \in Ids : failures'[b] = IF b = id[r] THEN 0 ELSE failures[b]
      BY <2>1 DEF TypeOK
    <3>2. ASSUME NEW b \in DOMAIN users PROVE Counts(users'[b], failures'[b])
      <4>1. CASE b = id[r]
        <5>1. users'[b].attempts = 0 /\ users'[b].lockedUntil = 0 /\ failures'[b] = 0
          BY <2>1, <3>1, <4>1 DEF TypeOK, User
        <5> QED
          BY <5>1, CleanCounts DEF Counts
      <4>2. CASE b # id[r]
        BY <2>1, <2>2, <3>1, <4>2 DEF CountInv, RowsCount, Counts, TypeOK
      <4> QED
        BY <4>1, <4>2
    <3> QED
      BY <2>1, <2>2, <3>1, <3>2 DEF CountInv, RowsCount, FreshHaveNone
  <2> QED
    BY <2>1, <2>2, FinishKeepsCount
<1>6. ASSUME NEW r \in Requests, NEW e \in Emails, NEW s \in Status, Create(r, e, s) PROVE CountInv'
  BY <1>6, BeginKeepsCount DEF Create
<1>7. ASSUME NEW r \in Requests, NEW a \in Ids, Insert(r, a) PROVE CountInv'
  <2>1. /\ Finish(r, FALSE) /\ UNCHANGED <<removed, failures>> /\ a \notin DOMAIN users \cup removed
        /\ users' = [b \in DOMAIN users \cup {a} |-> IF b = a THEN ent[r] ELSE users[b]]
        /\ pc[r] = "insert"
    BY <1>7 DEF Insert
  <2>2. ASSUME alone PROVE RowsCount' /\ FreshHaveNone'
    <3>1. failures[a] = 0 /\ Counts(ent[r], 0)
      BY <2>1, <2>2, CleanCounts DEF CountInv, FreshHaveNone, NewIsClean
    <3>2. users'[a] = ent[r] /\ DOMAIN users' = DOMAIN users \cup {a}
          /\ \A b \in DOMAIN users : users'[b] = users[b]
      BY <2>1
    <3> QED
      BY <2>1, <2>2, <3>1, <3>2 DEF CountInv, RowsCount, FreshHaveNone, Counts
  <2> QED
    BY <2>1, <2>2, FinishKeepsCount
<1>8. ASSUME NEW r \in Requests, NEW a \in DOMAIN users, NEW e \in Emails, NEW s \in Status,
             NEW p \in BOOLEAN, Update(r, a, e, s, p) PROVE CountInv'
  <2> DEFINE new == [Loaded(a) EXCEPT !.email = e, !.status = s, !.password = p]
  <2>1. new.attempts = users[a].attempts /\ new.lockedUntil = users[a].lockedUntil
    BY LoadedKeeps DEF User
  <2>2. PICK c \in {"save", "check"} : Begin(r, c, a, new)
    BY <1>8 DEF Update
  <2>3. UNCHANGED <<users, removed, now, failures>>
    BY <1>8 DEF Update
  <2> HIDE DEF new
  <2> QED
    BY <2>1, <2>2, <2>3, BeginKeepsCount
<1>9. ASSUME NEW r \in Requests, EnsureUniqueEmail(r) PROVE CountInv'
  <2>1. /\ Goto(r, "save", id[r], ent[r]) /\ pc[r] = "check"
        /\ UNCHANGED <<users, removed, failures, alone>>
    BY <1>9 DEF EnsureUniqueEmail, Step
  <2>2. Busy' = Busy
    BY <2>1, GotoLocals DEF Busy
  <2> QED
    BY <2>1, <2>2, GotoLocals DEF CountInv, OneAtATime, RowsCount, EntitiesCount, FreshHaveNone, Counts
<1>10. ASSUME NEW r \in Requests, SaveUpdate(r) PROVE CountInv'
  <2>1. /\ pc[r] = "save" /\ Write(r) /\ Finish(r, NewLock(r)) /\ failures' = failures
        /\ removed \ {id[r]} \subseteq removed'
    BY <1>10 DEF SaveUpdate
  <2>2. ASSUME alone PROVE RowsCount' /\ FreshHaveNone'
    <3>1. Counts(ent[r], failures[id[r]])
      BY <2>1, <2>2 DEF CountInv, EntitiesCount
    <3>2. FreshHaveNone'
      BY <2>1, <2>2, WriteResult DEF CountInv, FreshHaveNone
    <3>3. Counts(users'[id[r]], failures'[id[r]])
      BY <2>1, <3>1, WriteResult DEF Counts
    <3>4. ASSUME NEW b \in DOMAIN users \ {id[r]} PROVE Counts(users'[b], failures'[b])
      BY <2>1, <2>2, <3>4, WriteResult DEF CountInv, RowsCount, Counts
    <3> QED
      BY <2>1, <3>2, <3>3, <3>4, WriteResult DEF RowsCount
  <2> QED
    BY <2>1, <2>2, FinishKeepsCount
<1>11. ASSUME NEW r \in Requests, NEW a \in DOMAIN users, Remove(r, a) PROVE CountInv'
  BY <1>11 DEF Remove, CountInv, OneAtATime, RowsCount, EntitiesCount, FreshHaveNone, Counts, Busy
<1>12. ASSUME NEW r \in Requests, Abort(r) PROVE CountInv'
  <2>1. Finish(r, FALSE) /\ pc[r] # "idle" /\ UNCHANGED <<users, removed, failures>>
    BY <1>12 DEF Abort
  <2>2. alone => RowsCount' /\ FreshHaveNone'
    BY <2>1 DEF CountInv, RowsCount, FreshHaveNone, Counts
  <2> QED
    BY <2>1, <2>2, FinishKeepsCount
<1>13. CASE Tick
  BY <1>13 DEF Tick, CountInv, OneAtATime, RowsCount, EntitiesCount, FreshHaveNone, Counts, Busy
<1>14. CASE UNCHANGED vars
  BY <1>14 DEF vars, CountInv, OneAtATime, RowsCount, EntitiesCount, FreshHaveNone, Counts, Busy
<1> QED
  BY <1>1, <1>2, <1>3, <1>4, <1>5, <1>6, <1>7, <1>8, <1>9, <1>10, <1>11, <1>12, <1>13, <1>14
  DEF Next

(* While requests do not overlap the counter and the lock of an account are exactly those of the
   wrong passwords since its last login.                                                    *)
THEOREM CountsAreExact == Spec => []LockoutExact
<1>1. CountInv => LockoutExact
  BY DEF CountInv, RowsCount, Counts, LockoutExact
<1> QED
  BY <1>1, InitTypeOK, NextTypeOK, InitHoldInv, NextHoldInv, InitCountInv, NextCountInv, PTL
  DEF Spec, HoldInv
=============================================================================

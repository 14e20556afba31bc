--------------------------- MODULE SessionsProofs ---------------------------
(***************************************************************************)
(* Proofs of what RefreshTokens promises while requests do not overlap: a  *)
(* session has at most one usable token, a session that was ended stays    *)
(* ended, the token just answered is usable, and the table implements      *)
(* Sessions.  RefreshTokens_concurrent checks what is left of this when    *)
(* they do overlap.                                                        *)
(***************************************************************************)
EXTENDS RefreshTokensProofs

(* Requests do not overlap.                                                 *)
OneAtATime == \A r, s \in Requests : r = s

(* A family is named by a token that was inserted.                          *)
FamiliesIssued ==
    /\ \A t \in TokenId : \A c \in Copies(t) : c.family <= issued
    /\ \A r \in Requests : job[r].family # None => job[r].family <= issued
    /\ \A e \in ended : e.family <= issued

(* The tokens of a family are of one account, the next one included.        *)
Rotating(r) == pc[r] \in {"revoke", "store"} /\ job[r].parent # None

FamilyOfOneUser ==
    /\ \A s, t \in TokenId : \A c \in Copies(s), d \in Copies(t) :
          c.family = d.family => c.user = d.user
    /\ \A r \in Requests : Rotating(r) =>
          \A t \in TokenId : \A c \in Copies(t) :
             c.family = job[r].family => c.user = job[r].user

(* The locals of a replay, of a login and of a rotation.                    *)
JobShape ==
    \A r \in Requests :
        /\ job[r].replay => job[r].parent = None
        /\ pc[r] = "family" => job[r].replay
        /\ pc[r] = "store" /\ job[r].parent = None => job[r].family = None

(* A rotation is of a session that has not ended, and it has in hand the    *)
(* only usable token of the session until it has saved it.                  *)
RotationOwnsSession ==
    \A r \in Requests : Rotating(r) =>
        /\ \A e \in ended : e.family # job[r].family
        /\ \A t \in FamilyTokens(job[r].family) : Live(t) => pc[r] = "revoke" /\ t = job[r].parent
        /\ pc[r] = "revoke" => /\ job[r].parent \in FamilyTokens(job[r].family)
                               /\ Live(job[r].parent)
                               /\ DOMAIN ents[r] = {job[r].parent}

(* A replay is about to save every usable token of the family it ends.      *)
ReplayHoldsFamily ==
    \A r \in Requests : pc[r] = "revoke" /\ job[r].replay =>
        \A t \in FamilyTokens(job[r].family) : Live(t) => t \in DOMAIN ents[r]

(* The token a request has inserted is the newest of its account, usable,   *)
(* and not among those the request is about to remove.                      *)
NewIsUsable ==
    \A r \in Requests : pc[r] \in {"limit", "evict"} =>
        /\ job[r].new = issued
        /\ Live(issued) /\ rows[issued].user = job[r].user
        /\ pc[r] = "evict" => issued \notin DOMAIN ents[r]

SessionInv == /\ FamiliesIssued /\ FamilyOfOneUser /\ JobShape
              /\ OneLivePerFamily /\ EndedFamiliesStayEnded
              /\ RotationOwnsSession /\ ReplayHoldsFamily /\ NewIsUsable

SessionContext == TypeOK /\ WritesRevoked /\ ChainInv /\ SessionInv

LEMMA InitSessionInv == Init => SessionInv
BY DEF Init, SessionInv, FamiliesIssued, FamilyOfOneUser, JobShape, OneLivePerFamily,
   EndedFamiliesStayEnded, RotationOwnsSession, ReplayHoldsFamily, NewIsUsable, Rotating,
   FamilyTokens, Copies, Saving, Empty, NoJob, Issuing

(* While a request is under way and makes no call, nothing happens to the   *)
(* table: only the clock and the account's state move.                      *)
LEMMA RestStep ==
    ASSUME OneAtATime, TypeOK, [Next]_vars, NEW q \in Requests, pc[q] # "idle", pc'[q] = pc[q]
    PROVE  UNCHANGED <<rows, issued, delivered, pc, job, ents, ended>>
<1>1. \A r \in Requests : r = q
  BY DEF OneAtATime
<1>2. ASSUME NEW r \in Requests, NEW c, NEW j, NEW batch, Start(r, c, j, batch)
      PROVE  pc'[q] = c
  BY <1>1, <1>2 DEF Start, TypeOK
<1>3. ASSUME NEW r \in Requests, Begin(r) PROVE pc[q] = "idle"
  BY <1>1, <1>3 DEF Begin, Register, Login, LogoutAll, RemoveUser, RefreshReplay,
     RefreshExpired, RefreshRotate, Presented, Logout, RemoveExpiredRefreshTokens
<1>4. ASSUME NEW r \in Requests, Continue(r) \/ Abort(r) PROVE pc'[q] # pc[q]
  BY <1>1, <1>2, <1>4 DEF Continue, Abort, FindFamily, SaveRevoked, StoreToken, WithinLimit,
     OverLimit, EvictOverflow, Finish
<1> QED
  BY <1>3, <1>4 DEF Next, Block, Unblock, Tick, vars

(* A row is a copy of its token.                                            *)
LEMMA RowIsCopy ==
    ASSUME TypeOK, NEW t \in DOMAIN rows
    PROVE  t \in TokenId /\ rows[t] \in Copies(t) /\ rows[t] \in Row
BY DEF TypeOK, IsTable, Copies

(* Only an insertion moves the count.                                       *)
LEMMA IssuedStep ==
    ASSUME TypeOK, [Next]_vars
    PROVE  /\ issued \in Nat /\ issued' \in {issued, issued + 1}
           /\ (\A r \in Requests : ~StoreToken(r)) => issued' = issued
<1>1. ASSUME NEW r \in Requests, Begin(r) PROVE issued' = issued
  BY <1>1 DEF Begin, Register, Login, LogoutAll, RemoveUser, RefreshReplay, RefreshExpired,
     RefreshRotate, Logout, RemoveExpiredRefreshTokens
<1>2. ASSUME NEW r \in Requests, Continue(r) \/ Abort(r)
      PROVE  issued' = issued \/ StoreToken(r)
  BY <1>2 DEF Continue, FindFamily, SaveRevoked, WithinLimit, OverLimit, EvictOverflow, Abort
<1>3. issued' = issued \/ \E r \in Requests : StoreToken(r)
  BY <1>1, <1>2 DEF Next, Block, Unblock, Tick, vars
<1>4. issued \in Nat
  BY DEF TypeOK
<1>5. \A r \in Requests : StoreToken(r) => issued' = issued + 1
  BY DEF StoreToken
<1> QED
  BY <1>3, <1>4, <1>5

(* A family ends when the save of a replay or a logout from all devices     *)
(* says so.                                                                 *)
LEMMA EndedStep ==
    ASSUME [Next]_vars, NEW e \in ended', e \notin ended
    PROVE  \/ \E r \in Requests : SaveRevoked(r) /\ job[r].replay /\ e.family = job[r].family
           \/ \E r \in Requests, u \in Users :
                 LogoutAll(r, u) /\ \E s \in Tokens(u) : e.family = rows[s].family
<1>1. ASSUME NEW r \in Requests, Begin(r)
      PROVE  ended' = ended \/ \E u \in Users : LogoutAll(r, u)
  BY <1>1 DEF Begin, Register, Login, RemoveUser, RefreshReplay, RefreshExpired,
     RefreshRotate, Logout, RemoveExpiredRefreshTokens
<1>2. ASSUME NEW r \in Requests, Continue(r) \/ Abort(r)
      PROVE  ended' = ended \/ SaveRevoked(r)
  BY <1>2 DEF Continue, FindFamily, StoreToken, WithinLimit, OverLimit, EvictOverflow, Abort
<1>3. \/ \E r \in Requests : SaveRevoked(r)
      \/ \E r \in Requests, u \in Users : LogoutAll(r, u)
  BY <1>1, <1>2 DEF Next, Block, Unblock, Tick, vars
<1>4. ASSUME NEW r \in Requests, SaveRevoked(r) PROVE job[r].replay /\ e.family = job[r].family
  BY <1>4 DEF SaveRevoked
<1>5. ASSUME NEW r \in Requests, NEW u \in Users, LogoutAll(r, u)
      PROVE  \E s \in Tokens(u) : e.family = rows[s].family
  BY <1>5 DEF LogoutAll
<1> QED
  BY <1>3, <1>4, <1>5

(* The family a request works on is its own already, or that of the row it  *)
(* was presented with.                                                      *)
LEMMA JobFamilyStep ==
    ASSUME TypeOK, [Next]_vars, NEW q \in Requests, job'[q].family # None
    PROVE  \/ job'[q].family = job[q].family
           \/ \E t \in DOMAIN rows : job'[q].family = rows[t].family
<1> DEFINE Known == \/ job'[q].family = job[q].family
                    \/ \E t \in DOMAIN rows : job'[q].family = rows[t].family
<1>1. ASSUME job' = job PROVE Known
  BY <1>1
<1>2. ASSUME NEW r \in Requests, NEW c, NEW j, NEW batch, Start(r, c, j, batch),
             \/ j.family = None \/ j.family = job[r].family
             \/ \E t \in DOMAIN rows : j.family = rows[t].family
      PROVE  Known
  BY <1>2 DEF Start, TypeOK
<1>3. NoJob.family = None /\ \A u \in Users : Issuing(u, None, None).family = None
  BY DEF NoJob, Issuing
<1>4. ASSUME NEW r \in Requests, StoreToken(r) PROVE Known
  <2>1. [job[r] EXCEPT !.new = issued + 1].family = job[r].family
    BY DEF TypeOK, Job
  <2> QED
    BY <1>2, <1>4, <2>1 DEF StoreToken
<1>5. ASSUME NEW r \in Requests, NEW t \in DOMAIN rows,
             RefreshReplay(r, t) \/ RefreshRotate(r, t)
      PROVE  Known
  <2>1. /\ Replaying(rows[t].family).family = rows[t].family
        /\ Issuing(rows[t].user, rows[t].family, t).family = rows[t].family
    BY DEF Replaying, Issuing
  <2> QED
    BY <1>2, <1>5, <2>1 DEF RefreshReplay, RefreshRotate
<1>6. ASSUME NEW r \in Requests, Begin(r) PROVE Known
  <2> HIDE DEF Known
  <2> QED
    BY <1>1, <1>2, <1>3, <1>5, <1>6 DEF Begin, Register, Login, LogoutAll, RemoveUser,
       RefreshExpired, Logout, RemoveExpiredRefreshTokens
<1>7. ASSUME NEW r \in Requests, Continue(r) \/ Abort(r) PROVE Known
  <2> HIDE DEF Known
  <2> QED
    BY <1>2, <1>3, <1>4, <1>7 DEF Continue, Abort, FindFamily, SaveRevoked, WithinLimit,
       OverLimit, EvictOverflow, Finish
<1> HIDE DEF Known
<1>8. Known
  BY <1>1, <1>6, <1>7 DEF Next, Block, Unblock, Tick, vars
<1> QED
  BY <1>8 DEF Known

LEMMA NextFamiliesIssued == TypeOK /\ FamiliesIssued /\ [Next]_vars => FamiliesIssued'
<1> SUFFICES ASSUME TypeOK, FamiliesIssued, [Next]_vars PROVE FamiliesIssued'
  OBVIOUS
<1>0. issued \in Nat /\ issued' \in Nat /\ issued <= issued'
  BY IssuedStep
<1>1. \A t \in DOMAIN rows : rows[t].family <= issued /\ rows[t].family \in Nat
  BY RowIsCopy DEF FamiliesIssued, Row, TokenId
<1>2. ASSUME NEW t \in TokenId, NEW c \in Copies(t)' PROVE c.family <= issued'
  <2>1. ASSUME NEW r \in Requests, StoreToken(r) PROVE c.family <= issued'
    <3>1. issued' = issued + 1
      BY <2>1 DEF StoreToken
    <3>2. CASE c = NewRow(r)
      <4>1. c.family \in {issued + 1, job[r].family}
            /\ (c.family # issued + 1 => job[r].parent # None)
        BY <3>2 DEF NewRow
      <4>2. job[r].parent # None => job[r].family \in TokenId /\ job[r].family # None
        BY NoneAssumption DEF TypeOK, LocalsOK, TokenId
      <4>3. c.family # issued + 1 => c.family <= issued /\ c.family \in Nat
        BY <4>1, <4>2 DEF FamiliesIssued, TokenId
      <4> QED
        BY <1>0, <3>1, <4>3
    <3>3. CASE c # NewRow(r)
      <4>1. c \in Copies(t)
        BY <2>1, <3>3, CopiesOfInsertion
      <4>2. c.family <= issued /\ c.family \in Nat
        BY <4>1, CopyTyped DEF FamiliesIssued, Row, TokenId
      <4> QED
        BY <1>0, <4>2
    <3> QED
      BY <3>2, <3>3
  <2>2. CASE \A r \in Requests : ~StoreToken(r)
    <3>1. PICK d \in Copies(t) : c.family = d.family
      BY <2>2, CopyDescends
    <3>2. d.family <= issued /\ d.family \in Nat
      BY CopyTyped DEF FamiliesIssued, Row, TokenId
    <3> QED
      BY <1>0, <3>1, <3>2
  <2> QED
    BY <2>1, <2>2
<1>3. ASSUME NEW q \in Requests, job'[q].family # None PROVE job'[q].family <= issued'
  <2>1. CASE job'[q].family = job[q].family
    <3>1. job[q].family <= issued /\ job[q].family \in Nat
      BY <1>3, <2>1 DEF FamiliesIssued, TypeOK, Job, TokenId
    <3> QED
      BY <1>0, <2>1, <3>1
  <2>2. CASE \E t \in DOMAIN rows : job'[q].family = rows[t].family
    BY <1>0, <1>1, <2>2
  <2> QED
    BY <1>3, <2>1, <2>2, JobFamilyStep
<1>4. ASSUME NEW e \in ended' PROVE e.family <= issued'
  <2>1. CASE e \in ended
    <3>1. e.family <= issued /\ e.family \in Nat
      BY <2>1 DEF FamiliesIssued, TypeOK, TokenId
    <3> QED
      BY <1>0, <3>1
  <2>2. CASE \E r \in Requests : job[r].replay /\ e.family = job[r].family
    <3>1. e.family # None /\ e.family \in Nat
      BY <2>2, NoneAssumption DEF TypeOK, LocalsOK, TokenId
    <3>2. e.family <= issued
      BY <2>2, <3>1 DEF FamiliesIssued
    <3> QED
      BY <1>0, <3>1, <3>2
  <2>3. CASE \E u \in Users : \E s \in Tokens(u) : e.family = rows[s].family
    BY <1>0, <1>1, <2>3 DEF Tokens
  <2> QED
    BY <2>1, <2>2, <2>3, EndedStep
<1> QED
  BY <1>2, <1>3, <1>4 DEF FamiliesIssued

LEMMA NextJobShape == TypeOK /\ JobShape /\ [Next]_vars => JobShape'
<1> SUFFICES ASSUME TypeOK, JobShape, [Next]_vars PROVE JobShape'
  OBVIOUS
<1>1. ASSUME UNCHANGED <<pc, job>> PROVE JobShape'
  BY <1>1 DEF JobShape
<1>2. ASSUME NEW r \in Requests, NEW c, NEW j, NEW batch, Start(r, c, j, batch),
             j.replay => j.parent = None,
             c = "family" => j.replay,
             c = "store" /\ j.parent = None => j.family = None
      PROVE  JobShape'
  BY <1>2 DEF Start, TypeOK, JobShape
<1>3. /\ ~NoJob.replay
      /\ \A u, f, p : /\ Issuing(u, f, p).parent = p /\ Issuing(u, f, p).family = f
                      /\ ~Issuing(u, f, p).replay
      /\ \A f : Replaying(f).replay /\ Replaying(f).parent = None
  BY DEF NoJob, Issuing, Replaying
<1>4. ASSUME NEW r \in Requests PROVE job[r].replay => job[r].parent = None
  BY DEF JobShape
<1>5. ASSUME NEW r \in Requests, NEW u \in Users, Register(r, u) \/ Login(r, u) PROVE JobShape'
  BY <1>2, <1>3, <1>5 DEF Register, Login
<1>6. ASSUME NEW r \in Requests, NEW t \in DOMAIN rows, RefreshReplay(r, t) PROVE JobShape'
  BY <1>2, <1>3, <1>6 DEF RefreshReplay
<1>7. ASSUME NEW r \in Requests, NEW t \in DOMAIN rows,
             RefreshExpired(r, t) \/ RefreshRotate(r, t)
      PROVE  JobShape'
  BY <1>2, <1>3, <1>7 DEF RefreshExpired, RefreshRotate
<1>8. ASSUME NEW r \in Requests, NEW u \in Users, NEW t \in DOMAIN rows, Logout(r, u, t)
      PROVE  JobShape'
  BY <1>2, <1>3, <1>8 DEF Logout
<1>9. ASSUME NEW r \in Requests, StoreToken(r) PROVE JobShape'
  <2>1. LET j == [job[r] EXCEPT !.new = issued + 1]
        IN  j.replay = job[r].replay /\ j.parent = job[r].parent
    BY DEF TypeOK, Job
  <2> QED
    BY <1>2, <1>4, <1>9, <2>1 DEF StoreToken
<1>10. ASSUME NEW r \in Requests, FindFamily(r) \/ OverLimit(r) PROVE JobShape'
  BY <1>2, <1>4, <1>10 DEF FindFamily, OverLimit
<1>11. ASSUME NEW r \in Requests, SaveRevoked(r) PROVE JobShape'
  BY <1>2, <1>3, <1>4, <1>11 DEF SaveRevoked, Finish
<1>12. ASSUME NEW r \in Requests, WithinLimit(r) \/ EvictOverflow(r) \/ Abort(r) PROVE JobShape'
  BY <1>2, <1>3, <1>12 DEF WithinLimit, EvictOverflow, Abort, Finish
<1> QED
  BY <1>1, <1>5, <1>6, <1>7, <1>8, <1>9, <1>10, <1>11, <1>12 DEF Next, Begin, Continue,
     LogoutAll, RemoveUser, RemoveExpiredRefreshTokens, Block, Unblock, Tick, vars

(* The new row is of a family of its own, or of the one being rotated.      *)
LEMMA NewRowFamily ==
    ASSUME TypeOK, FamiliesIssued, NEW r \in Requests, StoreToken(r)
    PROVE  /\ issued \in Nat /\ NewRow(r).user = job[r].user
           /\ \/ NewRow(r).family = issued + 1 /\ job[r].parent = None
              \/ Rotating(r) /\ NewRow(r).family = job[r].family
           /\ \A t \in TokenId : \A c \in Copies(t) : c.family # issued + 1
           /\ \A e \in ended : e.family # issued + 1
<1>1. issued \in Nat
  BY DEF TypeOK
<1>2. ASSUME NEW t \in TokenId, NEW c \in Copies(t) PROVE c.family # issued + 1
  <2>1. c.family <= issued
    BY DEF FamiliesIssued
  <2> QED
    BY <1>1, <2>1
<1>3. ASSUME NEW e \in ended PROVE e.family # issued + 1
  <2>1. e.family <= issued
    BY DEF FamiliesIssued
  <2> QED
    BY <1>1, <2>1
<1> QED
  BY <1>1, <1>2, <1>3 DEF NewRow, StoreToken, Rotating

LEMMA NextFamilyOfOneUser ==
    ASSUME OneAtATime, SessionContext, [Next]_vars
    PROVE  FamilyOfOneUser'
<1> USE DEF SessionContext, SessionInv
<1>1. ASSUME NEW s \in TokenId, NEW t \in TokenId, NEW c \in Copies(s)', NEW d \in Copies(t)',
             c.family = d.family
      PROVE  c.user = d.user
  <2>1. CASE \A r \in Requests : ~StoreToken(r)
    BY <1>1, <2>1, CopyDescends DEF FamilyOfOneUser
  <2>2. ASSUME NEW r \in Requests, StoreToken(r) PROVE c.user = d.user
    <3>1. /\ c = NewRow(r) \/ c \in Copies(s)
          /\ d = NewRow(r) \/ d \in Copies(t)
      BY <2>2, CopiesOfInsertion
    <3>2. ASSUME NEW k \in TokenId, NEW b \in Copies(k), b.family = NewRow(r).family
          PROVE  b.user = NewRow(r).user
      BY <2>2, <3>2, NewRowFamily DEF FamilyOfOneUser
    <3> QED
      BY <1>1, <3>1, <3>2 DEF FamilyOfOneUser
  <2> QED
    BY <2>1, <2>2
<1>2. ASSUME NEW q \in Requests, Rotating(q)', NEW t \in TokenId, NEW c \in Copies(t)',
             c.family = job'[q].family
      PROVE  c.user = job'[q].user
  <2>0. pc'[q] \in {"revoke", "store"} /\ job'[q].parent # None
    BY <1>2 DEF Rotating
  <2>1. \A r \in Requests : ~StoreToken(r)
    BY <2>0 DEF StoreToken, Start, TypeOK, OneAtATime
  <2>2. PICK d \in Copies(t) : d.user = c.user /\ d.family = c.family
    BY <2>1, CopyDescends
  <2>3. ASSUME Rotating(q), job'[q] = job[q] PROVE c.user = job'[q].user
    BY <1>2, <2>2, <2>3 DEF FamilyOfOneUser
  <2>4. ASSUME NEW s \in DOMAIN rows, RefreshRotate(q, s) PROVE c.user = job'[q].user
    <3>1. job'[q].user = rows[s].user /\ job'[q].family = rows[s].family
      BY <2>4 DEF RefreshRotate, Start, TypeOK, Issuing
    <3>2. s \in TokenId /\ rows[s] \in Copies(s)
      BY RowIsCopy
    <3> QED
      BY <1>2, <2>2, <3>1, <3>2 DEF FamilyOfOneUser
  <2>5. CASE pc'[q] = pc[q] /\ job'[q] = job[q]
    BY <2>0, <2>3, <2>5 DEF Rotating
  <2>6. CASE SaveRevoked(q) /\ job'[q] = job[q]
    BY <2>0, <2>3, <2>6 DEF Rotating, SaveRevoked
  <2> QED
    BY <2>0, <2>4, <2>5, <2>6, RotationStep DEF ChainInv
<1> QED
  BY <1>1, <1>2 DEF FamilyOfOneUser

(* A usable token after the step is the one just inserted, or was usable    *)
(* and of the same session before.                                          *)
LEMMA LiveStep ==
    ASSUME TypeOK, WritesRevoked, [Next]_vars, NEW t \in DOMAIN rows', Live(t)'
    PROVE  \/ /\ t \in DOMAIN rows /\ Live(t)
              /\ rows'[t].user = rows[t].user /\ rows'[t].family = rows[t].family
           \/ \E r \in Requests : /\ StoreToken(r) /\ t = issued + 1
                                  /\ rows'[t] = NewRow(r)
<1>1. issued \in Nat /\ DOMAIN rows' \subseteq 1 .. issued'
  BY NextTypeOK DEF TypeOK
<1>2. CASE t \in 1 .. issued
  BY <1>2, LiveShrinks
<1>3. CASE t \notin 1 .. issued
  <2>1. PICK r \in Requests : StoreToken(r)
    BY <1>1, <1>3, IssuedStep
  <2>2. t = issued + 1
    BY <1>1, <1>3, <2>1 DEF StoreToken
  <2> QED
    BY <2>1, <2>2 DEF StoreToken
<1> QED
  BY <1>2, <1>3

LEMMA NextOneLivePerFamily ==
    ASSUME SessionContext, [Next]_vars
    PROVE  OneLivePerFamily'
<1> USE DEF SessionContext, SessionInv
<1> SUFFICES ASSUME NEW s \in DOMAIN rows', NEW t \in DOMAIN rows', Live(s)', Live(t)',
                    rows'[s].family = rows'[t].family
             PROVE  s = t
  BY DEF OneLivePerFamily
<1>1. ASSUME NEW r \in Requests, StoreToken(r),
             NEW k \in DOMAIN rows, Live(k), rows[k].family = NewRow(r).family
      PROVE  FALSE
  <2>1. k \in TokenId /\ rows[k] \in Copies(k)
    BY RowIsCopy
  <2>2. Rotating(r) /\ NewRow(r).family = job[r].family
    BY <1>1, <2>1, NewRowFamily
  <2> QED
    BY <1>1, <2>2 DEF RotationOwnsSession, FamilyTokens, StoreToken
<1> QED
  BY <1>1, LiveStep DEF OneLivePerFamily

LEMMA NextEndedFamilies ==
    ASSUME SessionContext, [Next]_vars
    PROVE  EndedFamiliesStayEnded'
<1> USE DEF SessionContext, SessionInv
<1> SUFFICES ASSUME NEW e \in ended', NEW t \in DOMAIN rows', rows'[t].family = e.family,
                    Live(t)'
             PROVE  FALSE
  BY DEF EndedFamiliesStayEnded, FamilyTokens
<1>1. ASSUME NEW r \in Requests, StoreToken(r), t = issued + 1, rows'[t] = NewRow(r)
      PROVE  FALSE
  <2>1. e \in ended
    BY <1>1 DEF StoreToken
  <2> QED
    BY <1>1, <2>1, NewRowFamily DEF RotationOwnsSession
<1>2. ASSUME t \in DOMAIN rows, Live(t), rows'[t].user = rows[t].user,
             rows'[t].family = rows[t].family
      PROVE  FALSE
  <2>1. CASE e \in ended
    BY <1>2, <2>1 DEF EndedFamiliesStayEnded, FamilyTokens
  <2>2. ASSUME NEW r \in Requests, SaveRevoked(r), job[r].replay, e.family = job[r].family
        PROVE  FALSE
    <3>1. t \in DOMAIN ents[r] /\ pc[r] = "revoke" /\ rows' = Written(ents[r])
      BY <1>2, <2>2 DEF ReplayHoldsFamily, FamilyTokens, SaveRevoked
    <3>2. rows'[t].revokedAt # None
      BY <3>1 DEF Written, WritesRevoked
    <3> QED
      BY <3>2 DEF Live
  <2>3. ASSUME NEW r \in Requests, NEW u \in Users, LogoutAll(r, u),
               NEW s \in Tokens(u), e.family = rows[s].family
        PROVE  FALSE
    <3>1. /\ s \in TokenId /\ rows[s] \in Copies(s) /\ rows[s].user = u
          /\ t \in TokenId /\ rows[t] \in Copies(t)
      BY <1>2, RowIsCopy DEF Tokens
    <3>2. t \in Tokens(u)
      <4>1. rows[t].family = rows[s].family
        BY <1>2, <2>3
      <4>2. rows[t].user = rows[s].user
        BY <3>1, <4>1 DEF FamilyOfOneUser
      <4> QED
        BY <1>2, <3>1, <4>2 DEF Tokens
    <3>3. rows' = Without(Tokens(u))
      BY <2>3 DEF LogoutAll
    <3> QED
      BY <3>2, <3>3, WithoutIsTable
  <2> QED
    BY <2>1, <2>2, <2>3, EndedStep
<1> QED
  BY <1>1, <1>2, LiveStep

LEMMA NextRotationOwnsSession ==
    ASSUME OneAtATime, SessionContext, [Next]_vars
    PROVE  RotationOwnsSession'
<1> USE DEF SessionContext, SessionInv
<1> SUFFICES ASSUME NEW q \in Requests, Rotating(q)'
             PROVE  /\ \A e \in ended' : e.family # job'[q].family
                    /\ \A t \in FamilyTokens(job[q].family)' :
                          Live(t)' => pc'[q] = "revoke" /\ t = job'[q].parent
                    /\ pc'[q] = "revoke" => /\ job'[q].parent \in FamilyTokens(job[q].family)'
                                            /\ Live(job[q].parent)'
                                            /\ DOMAIN ents'[q] = {job'[q].parent}
  BY DEF RotationOwnsSession
<1>0. pc'[q] \in {"revoke", "store"} /\ job'[q].parent # None
  BY DEF Rotating
<1>1. CASE pc'[q] = pc[q] /\ job'[q] = job[q] /\ ents'[q] = ents[q]
  <2>1. UNCHANGED <<rows, pc, job, ents, ended>> /\ Rotating(q)
    BY <1>0, <1>1, RestStep DEF Rotating
  <2> QED
    BY <2>1 DEF RotationOwnsSession, FamilyTokens, Live
<1>2. ASSUME NEW s \in DOMAIN rows, RefreshRotate(q, s)
      PROVE  /\ \A e \in ended' : e.family # job'[q].family
             /\ \A t \in FamilyTokens(job[q].family)' :
                   Live(t)' => pc'[q] = "revoke" /\ t = job'[q].parent
             /\ job'[q].parent \in FamilyTokens(job[q].family)' /\ Live(job[q].parent)'
             /\ DOMAIN ents'[q] = {job'[q].parent}
  <2>1. /\ job'[q].parent = s /\ job'[q].family = rows[s].family /\ pc'[q] = "revoke"
        /\ ents'[q] = Marked({s}) /\ UNCHANGED <<rows, ended>> /\ rows[s].revokedAt = None
    BY <1>2 DEF RefreshRotate, Start, TypeOK, Issuing
  <2>2. DOMAIN ents'[q] = {s}
    BY <2>1, MarkedIsTable
  <2> QED
    BY <2>1, <2>2 DEF OneLivePerFamily, EndedFamiliesStayEnded, FamilyTokens, Live
<1>3. CASE SaveRevoked(q) /\ pc'[q] = "store" /\ job'[q] = job[q]
  <2>1. /\ pc[q] = "revoke" /\ Rotating(q) /\ rows' = Written(ents[q])
        /\ ended' = ended /\ \A r \in Requests : ~StoreToken(r)
    BY <1>0, <1>3 DEF Rotating, SaveRevoked, JobShape, StoreToken, TypeOK
  <2>2. ASSUME NEW t \in FamilyTokens(job[q].family)', Live(t)' PROVE FALSE
    <3>1. t \in DOMAIN rows' /\ rows'[t].family = job[q].family
      BY <1>3 DEF FamilyTokens
    <3>2. t \in DOMAIN rows /\ Live(t) /\ rows[t].family = job[q].family
      BY <2>1, <2>2, <3>1, LiveStep
    <3>3. t \in DOMAIN ents[q]
      BY <2>1, <3>2 DEF RotationOwnsSession, FamilyTokens
    <3> QED
      BY <2>1, <2>2, <3>3 DEF Written, WritesRevoked, Live
  <2> QED
    BY <1>3, <2>1, <2>2 DEF RotationOwnsSession
<1> QED
  BY <1>0, <1>1, <1>2, <1>3, RotationStep DEF ChainInv

LEMMA NextReplayHoldsFamily ==
    ASSUME OneAtATime, SessionContext, [Next]_vars
    PROVE  ReplayHoldsFamily'
<1> USE DEF SessionContext, SessionInv
<1> SUFFICES ASSUME NEW q \in Requests, pc'[q] = "revoke", job'[q].replay,
                    NEW t \in FamilyTokens(job[q].family)', Live(t)'
             PROVE  t \in DOMAIN ents'[q]
  BY DEF ReplayHoldsFamily
<1>1. CASE pc[q] = "revoke"
  BY <1>1, RestStep DEF ReplayHoldsFamily, FamilyTokens, Live
<1>2. ASSUME NEW r \in Requests, NEW c, NEW j, NEW batch, Start(r, c, j, batch)
      PROVE  c = "revoke" /\ j.replay
  BY <1>2 DEF Start, TypeOK, OneAtATime
<1>3. ASSUME NEW r \in Requests, FindFamily(r) PROVE t \in DOMAIN ents'[q]
  BY <1>3, MarkedIsTable DEF FindFamily, Start, TypeOK, OneAtATime, FamilyTokens
<1>4. ASSUME NEW r \in Requests, Begin(r) PROVE FALSE
  <2>1. ~NoJob.replay /\ \A u, f, p : ~Issuing(u, f, p).replay
    BY DEF NoJob, Issuing
  <2>2. pc' # pc
    BY <1>1, <1>4 DEF OneAtATime, Begin, Register, Login, LogoutAll, RemoveUser, RefreshReplay,
       RefreshExpired, RefreshRotate, Presented, Logout, RemoveExpiredRefreshTokens
  <2>3. ~\E u \in Users : Register(r, u) \/ Login(r, u) \/ LogoutAll(r, u) \/ RemoveUser(r, u)
    BY <1>2, <2>1, <2>2 DEF Register, Login, LogoutAll, RemoveUser
  <2>4. \A k \in DOMAIN rows : ~RefreshReplay(r, k) /\ ~RefreshExpired(r, k) /\ ~RefreshRotate(r, k)
    <3> TAKE k \in DOMAIN rows
    <3>1. ~RefreshReplay(r, k)
      BY <1>2 DEF RefreshReplay
    <3>2. ~RefreshExpired(r, k) /\ ~RefreshRotate(r, k)
      BY <1>2, <2>1 DEF RefreshExpired, RefreshRotate
    <3> QED
      BY <3>1, <3>2
  <2>5. ~\E u \in Users, k \in DOMAIN rows : Logout(r, u, k)
    BY <1>2, <2>1 DEF Logout
  <2> QED
    BY <1>4, <2>2, <2>3, <2>4, <2>5 DEF Begin, RemoveExpiredRefreshTokens
<1>5. ASSUME NEW r \in Requests, Continue(r) \/ Abort(r) PROVE t \in DOMAIN ents'[q]
  BY <1>2, <1>3, <1>5 DEF Continue, Abort, SaveRevoked, StoreToken, WithinLimit, OverLimit,
     EvictOverflow, Finish
<1> QED
  BY <1>1, <1>4, <1>5 DEF Next, Block, Unblock, Tick, vars

LEMMA NextNewIsUsable ==
    ASSUME OneAtATime, SessionContext, [Next]_vars
    PROVE  NewIsUsable'
<1> USE DEF SessionContext, SessionInv
<1> SUFFICES ASSUME NEW q \in Requests, pc'[q] \in {"limit", "evict"}
             PROVE  /\ job'[q].new = issued'
                    /\ Live(issued)' /\ rows'[issued'].user = job'[q].user
                    /\ pc'[q] = "evict" => issued' \notin DOMAIN ents'[q]
  BY DEF NewIsUsable
<1>1. CASE pc'[q] = pc[q]
  <2>1. UNCHANGED <<rows, issued, pc, job, ents>>
    BY <1>1, RestStep
  <2> QED
    BY <2>1 DEF NewIsUsable, Live
<1>2. ASSUME NEW r \in Requests, NEW c, NEW j, NEW batch, Start(r, c, j, batch)
      PROVE  c \in {"limit", "evict"} /\ q = r /\ pc'[q] = c /\ job'[q] = j /\ ents'[q] = batch
  BY <1>2 DEF Start, TypeOK, OneAtATime
<1>3. ASSUME NEW r \in Requests, StoreToken(r)
      PROVE  /\ job'[q].new = issued' /\ pc'[q] = "limit"
             /\ Live(issued)' /\ rows'[issued'].user = job'[q].user
  <2> DEFINE j == [job[r] EXCEPT !.new = issued + 1]
  <2>1. j.new = issued + 1 /\ j.user = job[r].user
    BY DEF TypeOK, Job
  <2>2. job'[q] = j /\ pc'[q] = "limit" /\ q = r
    BY <1>2, <1>3 DEF StoreToken
  <2>3. issued' = issued + 1 /\ issued' \in DOMAIN rows' /\ rows'[issued'] = NewRow(r)
    BY <1>3 DEF StoreToken
  <2> QED
    BY <2>1, <2>2, <2>3 DEF Live, NewRow
<1>4. ASSUME NEW r \in Requests, OverLimit(r)
      PROVE  /\ job'[q].new = issued'
             /\ Live(issued)' /\ rows'[issued'].user = job'[q].user
             /\ issued' \notin DOMAIN ents'[q]
  <2>1. /\ q = r /\ job'[q] = job[q] /\ DOMAIN ents'[q] = Overflow(job[q].user)
        /\ UNCHANGED <<rows, issued>> /\ pc[q] = "limit"
    BY <1>2, <1>4 DEF OverLimit
  <2>2. issued \notin Overflow(job[q].user)
    <3>1. {s \in Tokens(job[q].user) : s > issued} = {}
      BY DEF Tokens, TypeOK
    <3>2. Cardinality({}) = 0 /\ ~(0 >= MaxRefreshTokens)
      BY FS_EmptySet, LimitAssumption
    <3> QED
      BY <3>1, <3>2 DEF Overflow
  <2> QED
    BY <2>1, <2>2 DEF NewIsUsable, Live
<1>5. ASSUME NEW r \in Requests, Begin(r) PROVE FALSE
  <2>1. pc' # pc
    BY <1>5 DEF OneAtATime, Begin, Register, Login, LogoutAll, RemoveUser, RefreshReplay,
       RefreshExpired, RefreshRotate, Presented, Logout, RemoveExpiredRefreshTokens
  <2>2. ~\E u \in Users : Register(r, u) \/ Login(r, u) \/ LogoutAll(r, u) \/ RemoveUser(r, u)
    BY <1>2, <2>1 DEF Register, Login, LogoutAll, RemoveUser
  <2>3. \A k \in DOMAIN rows : ~RefreshReplay(r, k) /\ ~RefreshExpired(r, k) /\ ~RefreshRotate(r, k)
    <3> TAKE k \in DOMAIN rows
    <3>1. ~RefreshReplay(r, k)
      BY <1>2 DEF RefreshReplay
    <3>2. ~RefreshExpired(r, k) /\ ~RefreshRotate(r, k)
      BY <1>2 DEF RefreshExpired, RefreshRotate
    <3> QED
      BY <3>1, <3>2
  <2>4. ~\E u \in Users, k \in DOMAIN rows : Logout(r, u, k)
    BY <1>2 DEF Logout
  <2> QED
    BY <1>5, <2>1, <2>2, <2>3, <2>4 DEF Begin, RemoveExpiredRefreshTokens
<1>6. ASSUME NEW r \in Requests, FindFamily(r) \/ SaveRevoked(r) \/ WithinLimit(r)
                                 \/ EvictOverflow(r) \/ Abort(r)
      PROVE  FALSE
  BY <1>2, <1>6 DEF FindFamily, SaveRevoked, WithinLimit, EvictOverflow, Abort, Finish
<1> QED
  BY <1>1, <1>3, <1>4, <1>5, <1>6 DEF Next, Continue, Block, Unblock, Tick, vars

LEMMA NextSessionContext ==
    ASSUME OneAtATime
    PROVE  SessionContext /\ [Next]_vars => SessionContext'
<1> SUFFICES ASSUME SessionContext, [Next]_vars PROVE SessionContext'
  OBVIOUS
<1>1. TypeOK' /\ WritesRevoked' /\ ChainInv'
  BY NextTypeOK, NextWritesRevoked, NextChainInv DEF SessionContext
<1>2. FamiliesIssued' /\ JobShape'
  BY NextFamiliesIssued, NextJobShape DEF SessionContext, SessionInv
<1>3. FamilyOfOneUser' /\ OneLivePerFamily' /\ EndedFamiliesStayEnded'
  BY NextFamilyOfOneUser, NextOneLivePerFamily, NextEndedFamilies
<1>4. RotationOwnsSession' /\ ReplayHoldsFamily' /\ NewIsUsable'
  BY NextRotationOwnsSession, NextReplayHoldsFamily, NextNewIsUsable
<1> QED
  BY <1>1, <1>2, <1>3, <1>4 DEF SessionContext, SessionInv

LEMMA InitSessionContext == Init => SessionContext
BY InitTypeOK, InitWritesRevoked, InitChainInv, InitSessionInv DEF SessionContext

(* While requests do not overlap, a session has at most one usable token.   *)
THEOREM OneUsableTokenPerSession ==
    ASSUME OneAtATime
    PROVE  Spec => []OneLivePerFamily
<1>1. SessionContext => OneLivePerFamily
  BY DEF SessionContext, SessionInv
<1>2. SessionContext /\ [Next]_vars => SessionContext'
  BY NextSessionContext
<1> QED
  BY <1>1, <1>2, InitSessionContext, PTL DEF Spec

(* While requests do not overlap, a family that a replay or a logout from   *)
(* all devices was answered to end never has a usable token again.          *)
THEOREM EndedSessionsStayEnded ==
    ASSUME OneAtATime
    PROVE  Spec => []EndedFamiliesStayEnded
<1>1. SessionContext => EndedFamiliesStayEnded
  BY DEF SessionContext, SessionInv
<1>2. SessionContext /\ [Next]_vars => SessionContext'
  BY NextSessionContext
<1> QED
  BY <1>1, <1>2, InitSessionContext, PTL DEF Spec

(* While requests do not overlap, a token is usable when it is answered:    *)
(* enforceRefreshTokenLimit has not removed it.                             *)
THEOREM AnsweredTokensAreUsable ==
    ASSUME OneAtATime
    PROVE  Spec => FreshTokenUsable
<1>1. ASSUME SessionContext, [Next]_vars, NEW u \in Users, NEW n \in 1 .. issued,
             n \in delivered'[u] \ delivered[u]
      PROVE  Live(n)'
  <2>0. TypeOK /\ NewIsUsable
    BY <1>1 DEF SessionContext, SessionInv
  <2>1. PICK r \in Requests : WithinLimit(r) \/ EvictOverflow(r)
    BY <1>1, <2>0, DeliveredStep
  <2>2. n = job[r].new
    BY <1>1, <2>0, <2>1, DeliveredStep DEF OneAtATime
  <2>3. Live(n) /\ n = issued /\ (pc[r] = "evict" => n \notin DOMAIN ents[r])
    <3>1. pc[r] \in {"limit", "evict"}
      BY <2>1 DEF WithinLimit, EvictOverflow
    <3> QED
      BY <2>0, <2>2, <3>1 DEF NewIsUsable
  <2>4. CASE WithinLimit(r)
    BY <2>3, <2>4 DEF WithinLimit, Live
  <2>5. CASE EvictOverflow(r)
    <3>1. n \in DOMAIN rows \ DOMAIN ents[r] /\ rows' = Without(DOMAIN ents[r])
      BY <2>3, <2>5 DEF EvictOverflow, Live
    <3>2. n \in DOMAIN rows' /\ rows'[n] \in {rows[n], [rows[n] EXCEPT !.parent = None]}
      BY <3>1 DEF Without
    <3>3. rows[n] \in Row /\ rows[n].revokedAt = None
      BY <2>0, <2>3 DEF TypeOK, IsTable, Live
    <3> QED
      BY <3>2, <3>3 DEF Live, Row
  <2> QED
    BY <2>1, <2>4, <2>5
<1>2. SessionContext /\ [Next]_vars
        => [\A u \in Users : \A n \in 1 .. issued :
               n \in delivered'[u] \ delivered[u] => Live(n)']_vars
  BY <1>1
<1>3. SessionContext /\ [Next]_vars => SessionContext'
  BY NextSessionContext
<1> QED
  BY <1>2, <1>3, InitSessionContext, PTL DEF Spec, FreshTokenUsable

----------------------------------------------------------------------------
(* The refinement.  A session is open while it has a usable token, and the  *)
(* abstract token is that one.                                              *)
TokenOf(f) == IF Usable(f) = {} THEN None ELSE CHOOSE t \in Usable(f) : TRUE

LEMMA PhaseFacts ==
    ASSUME issued \in Nat, NEW f \in TokenId
    PROVE  /\ f > issued => Phase(f) = "unused"
           /\ f <= issued /\ Usable(f) # {} => Phase(f) = "open"
           /\ f <= issued /\ Usable(f) = {} /\ Renewing(f) => Phase(f) = "renewing"
           /\ f <= issued /\ Usable(f) = {} /\ ~Renewing(f) => Phase(f) = "ended"
BY DEF Phase, TokenId

LEMMA PhaseFactsNext ==
    ASSUME issued' \in Nat, NEW f \in TokenId
    PROVE  /\ f > issued' => Phase(f)' = "unused"
           /\ f <= issued' /\ Usable(f)' # {} => Phase(f)' = "open"
           /\ f <= issued' /\ Usable(f)' = {} /\ Renewing(f)' => Phase(f)' = "renewing"
           /\ f <= issued' /\ Usable(f)' = {} /\ ~Renewing(f)' => Phase(f)' = "ended"
BY DEF Phase, TokenId

(* A family that no token has opened has no row; a session that is being    *)
(* renewed has no usable token; no session has two.                         *)
LEMMA UsableFacts ==
    ASSUME SessionContext, NEW f \in TokenId
    PROVE  /\ f > issued => Usable(f) = {}
           /\ Renewing(f) => Usable(f) = {}
           /\ \A s, t \in Usable(f) : s = t
<1> USE DEF SessionContext, SessionInv
<1>1. issued \in Nat /\ f \in Nat
  BY DEF TypeOK, TokenId
<1>2. ASSUME f > issued PROVE Usable(f) = {}
  <2>1. \A t \in DOMAIN rows : rows[t].family <= issued
    BY RowIsCopy DEF FamiliesIssued
  <2> QED
    BY <1>1, <1>2, <2>1 DEF Usable
<1>3. ASSUME NEW r \in Requests, pc[r] = "store", job[r].family = f PROVE Usable(f) = {}
  <2>1. f # None
    BY NoneAssumption DEF TokenId
  <2>2. Rotating(r)
    BY <1>3, <2>1 DEF JobShape, Rotating
  <2> QED
    BY <1>3, <2>2 DEF RotationOwnsSession, FamilyTokens, Usable, Live
<1> QED
  BY <1>2, <1>3 DEF Renewing, OneLivePerFamily, Usable, Live

(* A step that inserts no token makes none usable.                          *)
LEMMA UsableShrinks ==
    ASSUME TypeOK, WritesRevoked, [Next]_vars, \A r \in Requests : ~StoreToken(r),
           NEW f \in TokenId
    PROVE  Usable(f)' \subseteq Usable(f)
BY LiveStep DEF Usable, Live

(* A session starts being renewed when its token has been saved as revoked. *)
LEMMA RenewingStep ==
    ASSUME SessionContext, [Next]_vars, NEW f \in TokenId, Renewing(f)'
    PROVE  \/ Renewing(f)
           \/ \E r \in Requests : /\ SaveRevoked(r) /\ job[r].parent # None
                                  /\ job[r].family = f
<1>1. PICK q \in Requests : pc'[q] = "store" /\ job'[q].family = f
  BY DEF Renewing
<1>2. f # None
  BY NoneAssumption DEF TokenId
<1>3. JobShape'
  BY NextJobShape DEF SessionContext, SessionInv
<1>4. job'[q].parent # None
  BY <1>1, <1>2, <1>3 DEF JobShape
<1>5. \/ pc'[q] = pc[q] /\ job'[q] = job[q]
      \/ \E t \in DOMAIN rows : RefreshRotate(q, t)
      \/ SaveRevoked(q) /\ job'[q] = job[q]
  BY <1>1, <1>4, RotationStep DEF SessionContext, ChainInv
<1>6. ASSUME NEW t \in DOMAIN rows, RefreshRotate(q, t) PROVE FALSE
  BY <1>1, <1>6 DEF RefreshRotate, Start, SessionContext, TypeOK
<1> QED
  BY <1>1, <1>4, <1>5, <1>6 DEF Renewing

(* A step that neither inserts a token nor takes one out of circulation for *)
(* a renewal ends sessions, or does nothing to them.                        *)
LEMMA EndingStep ==
    ASSUME SessionContext, SessionContext', issued' = issued,
           \A f \in TokenId : Usable(f)' \subseteq Usable(f) /\ (Renewing(f)' => Renewing(f))
    PROVE  Session!Next
<1> DEFINE P == [f \in TokenId |-> Phase(f)]
           S == {f \in TokenId : P[f] \in {"open", "renewing"} /\ Phase(f)' = "ended"}
<1>0. issued \in Nat /\ issued' \in Nat
  BY DEF SessionContext, TypeOK
<1>1. ASSUME NEW f \in S PROVE Phase(f)' = "ended" /\ TokenOf(f)' = None
  <2>1. f <= issued'
    <3>1. ~(f > issued')
      BY <1>0, PhaseFactsNext
    <3> QED
      BY <1>0, <3>1 DEF TokenId
  <2>2. Usable(f)' = {}
    BY <1>0, <2>1, PhaseFactsNext
  <2> QED
    BY <2>2 DEF TokenOf
<1>2. ASSUME NEW f \in TokenId, f \notin S PROVE Phase(f)' = Phase(f) /\ TokenOf(f)' = TokenOf(f)
  <2>1. Usable(f)' \subseteq Usable(f) /\ (Renewing(f)' => Renewing(f))
    OBVIOUS
  <2>2. /\ f > issued => Usable(f) = {}
        /\ Renewing(f) => Usable(f) = {}
        /\ \A s, t \in Usable(f) : s = t
    BY UsableFacts
  <2>3. CASE f > issued
    BY <1>0, <2>1, <2>2, <2>3, PhaseFacts, PhaseFactsNext DEF TokenOf
  <2>4. CASE f <= issued /\ Usable(f) = {}
    <3>1. Usable(f)' = {} /\ TokenOf(f)' = None /\ TokenOf(f) = None
      BY <2>1, <2>4 DEF TokenOf
    <3>2. Phase(f) = (IF Renewing(f) THEN "renewing" ELSE "ended")
      BY <1>0, <2>4, PhaseFacts
    <3>3. Phase(f)' = (IF Renewing(f)' THEN "renewing" ELSE "ended")
      BY <1>0, <2>4, <3>1, PhaseFactsNext
    <3>4. Renewing(f) => Phase(f)' # "ended"
      BY <1>2, <3>2
    <3> QED
      BY <2>1, <3>1, <3>2, <3>3, <3>4
  <2>5. CASE f <= issued /\ Usable(f) # {}
    <3>1. Phase(f) = "open" /\ ~Renewing(f)'
      BY <1>0, <2>1, <2>2, <2>5, PhaseFacts
    <3>2. Phase(f)' # "ended"
      BY <1>2, <3>1
    <3>3. Usable(f)' # {} /\ Phase(f)' = "open"
      BY <1>0, <2>5, <3>1, <3>2, PhaseFactsNext
    <3>4. Usable(f)' = Usable(f)
      BY <2>1, <2>2, <3>3
    <3> QED
      BY <3>1, <3>3, <3>4 DEF TokenOf
  <2>6. f <= issued \/ f > issued
    BY <1>0 DEF TokenId
  <2> QED
    BY <2>3, <2>4, <2>5, <2>6
<1>3. S \in SUBSET {f \in TokenId : P[f] \in {"open", "renewing"}}
  OBVIOUS
<1> HIDE DEF S
<1>4. Session!End(S)
  BY <1>1, <1>2 DEF Session!End, TokenOf
<1> QED
  BY <1>3, <1>4 DEF Session!Next

(* The save of a rotated token takes it out of circulation.                 *)
LEMMA ConsumingStep ==
    ASSUME OneAtATime, SessionContext, SessionContext', [Next]_vars,
           NEW r \in Requests, SaveRevoked(r),
           NEW p \in TokenId, p = job[r].parent, NEW g \in TokenId, g = job[r].family
    PROVE  Session!Next
<1> DEFINE P == [f \in TokenId |-> Phase(f)]
           T == [f \in TokenId |-> TokenOf(f)]
<1>0. /\ issued \in Nat /\ issued' = issued /\ pc[r] = "revoke" /\ Rotating(r)
      /\ rows' = Written(ents[r]) /\ pc'[r] = "store" /\ job'[r] = job[r]
  <2>1. job[r].parent # None
    BY NoneAssumption DEF TokenId
  <2> QED
    BY <2>1 DEF SessionContext, TypeOK, SaveRevoked, Start, Rotating
<1>2. /\ p \in DOMAIN rows /\ rows[p].family = g /\ Live(p)
      /\ DOMAIN ents[r] = {p} /\ ents[r][p].family = g /\ ents[r][p].revokedAt # None
  <2>1. p \in FamilyTokens(g) /\ Live(p) /\ DOMAIN ents[r] = {p}
    BY <1>0 DEF SessionContext, SessionInv, RotationOwnsSession
  <2>2. ents[r][p] \in Copies(p)
    BY <1>0, <2>1 DEF Copies, Saving
  <2>3. ents[r][p].family = g
    BY <1>0, <2>2 DEF SessionContext, ChainInv, RotationsHold
  <2> QED
    BY <1>0, <2>1, <2>3 DEF FamilyTokens, SessionContext, WritesRevoked
<1>3. g <= issued
  <2>1. g # None
    BY NoneAssumption DEF TokenId
  <2> QED
    BY <2>1 DEF SessionContext, SessionInv, FamiliesIssued
<1>4. Renewing(g)' /\ \A f \in TokenId \ {g} : ~Renewing(f) /\ ~Renewing(f)'
  BY <1>0 DEF Renewing, OneAtATime
<1>5. Usable(g) # {} /\ Usable(g)' = {}
  <2>1. p \in Usable(g)
    BY <1>2 DEF Usable, Live
  <2>2. \A t \in Usable(g) : t = p
    BY <2>1, UsableFacts
  <2>3. Usable(g)' \subseteq Usable(g)
    <3>1. \A q \in Requests : ~StoreToken(q)
      BY <1>0 DEF OneAtATime, StoreToken
    <3> QED
      BY <3>1, UsableShrinks DEF SessionContext
  <2>4. rows'[p].revokedAt # None
    BY <1>0, <1>2 DEF Written
  <2> QED
    BY <2>1, <2>2, <2>3, <2>4 DEF Usable
<1>6. ASSUME NEW f \in TokenId, f # g PROVE Usable(f)' = Usable(f)
  <2>1. DOMAIN rows' = DOMAIN rows
    BY <1>0, <1>2 DEF Written
  <2>2. \A t \in DOMAIN rows \ {p} : rows'[t] = rows[t]
    BY <1>0, <1>2 DEF Written
  <2>3. rows'[p].family = g
    BY <1>0, <1>2 DEF Written
  <2> QED
    BY <1>2, <1>6, <2>1, <2>2, <2>3 DEF Usable
<1>7. Phase(g) = "open" /\ Phase(g)' = "renewing" /\ TokenOf(g)' = None
  BY <1>0, <1>3, <1>4, <1>5, PhaseFacts, PhaseFactsNext DEF TokenOf
<1>8. ASSUME NEW f \in TokenId, f # g PROVE Phase(f)' = Phase(f) /\ TokenOf(f)' = TokenOf(f)
  <2>1. Usable(f)' = Usable(f) /\ ~Renewing(f) /\ ~Renewing(f)'
    BY <1>4, <1>6, <1>8
  <2>2. TokenOf(f)' = TokenOf(f)
    BY <2>1 DEF TokenOf
  <2>3. f <= issued \/ f > issued
    BY <1>0 DEF TokenId
  <2> QED
    BY <1>0, <2>1, <2>2, <2>3, PhaseFacts, PhaseFactsNext
<1>9. P' = [P EXCEPT ![g] = "renewing"] /\ T' = [T EXCEPT ![g] = None] /\ P[g] = "open"
  BY <1>7, <1>8
<1>10. Session!Consume(g)
  BY <1>9 DEF Session!Consume, TokenOf
<1> QED
  BY <1>10 DEF Session!Next

(* An insertion opens a session, or renews one.                             *)
LEMMA InsertingStep ==
    ASSUME OneAtATime, SessionContext, SessionContext', [Next]_vars,
           NEW r \in Requests, StoreToken(r),
           NEW n, n = issued + 1, NEW g, g = NewRow(r).family
    PROVE  Session!Next
<1> DEFINE P == [f \in TokenId |-> Phase(f)]
           T == [f \in TokenId |-> TokenOf(f)]
<1>0. /\ issued \in Nat /\ issued' = n /\ n \in TokenId /\ pc[r] = "store" /\ pc'[r] = "limit"
      /\ DOMAIN rows' = DOMAIN rows \cup {n} /\ n \notin DOMAIN rows
      /\ rows'[n] = NewRow(r) /\ \A t \in DOMAIN rows : rows'[t] = rows[t]
  BY BoundAssumption DEF StoreToken, Start, SessionContext, TypeOK, TokenId
<1>1. g \in TokenId
  BY <1>0, NewRowIsRow DEF StoreToken, SessionContext, Row
<1>2. \A f \in TokenId : ~Renewing(f)'
  BY <1>0 DEF Renewing, OneAtATime
<1>3. ASSUME NEW f \in TokenId, f # g PROVE Usable(f)' = Usable(f)
  BY <1>0, <1>3 DEF Usable
<1>4. Usable(g) = {} /\ Usable(g)' = {n}
  <2>1. ASSUME NEW t \in Usable(g) PROVE FALSE
    <3>1. t \in DOMAIN rows /\ Live(t) /\ rows[t].family = g
      BY <2>1 DEF Usable, Live
    <3>2. rows[t] \in Copies(t) /\ t \in TokenId
      BY <3>1, RowIsCopy DEF SessionContext
    <3>3. Rotating(r) /\ g = job[r].family
      BY <3>1, <3>2, NewRowFamily DEF SessionContext, SessionInv
    <3> QED
      BY <1>0, <3>1, <3>3 DEF SessionContext, SessionInv, RotationOwnsSession, FamilyTokens
  <2>2. NewRow(r).revokedAt = None
    BY DEF NewRow
  <2> QED
    BY <1>0, <2>1, <2>2 DEF Usable
<1>5. \/ g = n /\ job[r].parent = None
      \/ g = job[r].family /\ Rotating(r) /\ g <= issued /\ g # n
  <2>1. \/ g = n /\ job[r].parent = None
        \/ g = job[r].family /\ Rotating(r)
    BY NewRowFamily DEF SessionContext, SessionInv
  <2>2. g = job[r].family => g <= issued
    <3>1. g # None
      BY <1>1, NoneAssumption DEF TokenId
    <3> QED
      BY <3>1 DEF SessionContext, SessionInv, FamiliesIssued
  <2>3. g <= issued => g # n
    BY <1>0
  <2> QED
    BY <2>1, <2>2, <2>3
<1>6. Phase(g)' = "open" /\ TokenOf(g)' = n
  <2>1. g <= n
    BY <1>0, <1>1, <1>5 DEF TokenId
  <2> QED
    BY <1>0, <1>1, <1>4, <2>1, PhaseFactsNext DEF TokenOf
<1>7. Phase(n) = "unused" /\ Usable(n) = {} /\ TokenOf(n) = None
  BY <1>0, PhaseFacts, UsableFacts DEF TokenOf
<1>8. ASSUME NEW f \in TokenId, f # g, f # n
      PROVE  Phase(f)' = Phase(f) /\ TokenOf(f)' = TokenOf(f)
  <2>1. ~Renewing(f)
    <3>1. job[r].family # f
      BY <1>5, <1>8, <1>0, NoneAssumption DEF SessionContext, SessionInv, JobShape, TokenId
    <3> QED
      BY <3>1 DEF Renewing, OneAtATime
  <2>2. Usable(f)' = Usable(f) /\ ~Renewing(f)'
    BY <1>2, <1>3, <1>8
  <2>3. TokenOf(f)' = TokenOf(f)
    BY <2>2 DEF TokenOf
  <2>4. CASE f > issued
    <3>1. f > issued'
      BY <1>0, <1>8, <2>4 DEF TokenId
    <3> QED
      BY <1>0, <2>3, <2>4, <3>1, PhaseFacts, PhaseFactsNext
  <2>5. CASE f <= issued
    <3>1. f <= issued'
      BY <1>0, <2>5 DEF TokenId
    <3> QED
      BY <1>0, <2>1, <2>2, <2>3, <2>5, <3>1, PhaseFacts, PhaseFactsNext
  <2> QED
    BY <1>0, <2>4, <2>5 DEF TokenId
<1>9. CASE g = n
  <2>1. P' = [P EXCEPT ![n] = "open"] /\ T' = [T EXCEPT ![n] = n] /\ P[n] = "unused"
    BY <1>0, <1>6, <1>7, <1>8, <1>9
  <2>2. Session!Open(n)
    BY <2>1 DEF Session!Open, TokenOf
  <2> QED
    BY <1>0, <2>2 DEF Session!Next
<1>10. CASE g # n
  <2>1. Phase(g) = "renewing"
    <3>1. Renewing(g)
      BY <1>0, <1>5, <1>10 DEF Renewing
    <3> QED
      BY <1>0, <1>1, <1>4, <1>5, <1>10, <3>1, PhaseFacts
  <2>2. Phase(n)' = "ended" /\ TokenOf(n)' = None
    <3>1. Usable(n)' = {} /\ ~Renewing(n)'
      BY <1>0, <1>2, <1>3, <1>7, <1>10
    <3> QED
      BY <1>0, <3>1, PhaseFactsNext DEF TokenOf
  <2>3. /\ P' = [P EXCEPT ![g] = "open", ![n] = "ended"] /\ T' = [T EXCEPT ![g] = n]
        /\ P[g] = "renewing" /\ P[n] = "unused"
    BY <1>0, <1>1, <1>6, <1>7, <1>8, <1>10, <2>1, <2>2
  <2>4. Session!Renew(g, n)
    BY <2>3 DEF Session!Renew, TokenOf
  <2> QED
    BY <1>0, <1>1, <2>4 DEF Session!Next
<1> QED
  BY <1>9, <1>10

(* While requests do not overlap, the table implements sessions: every step *)
(* opens one, consumes its token, renews it, ends some, or changes none.    *)
THEOREM TableImplementsSessions ==
    ASSUME OneAtATime
    PROVE  Spec => ImplementsSessions
<1>1. Init => Session!Init
  <2> SUFFICES ASSUME Init PROVE Session!Init
    OBVIOUS
  <2>1. issued = 0 /\ \A f \in TokenId : Usable(f) = {}
    BY DEF Init, Usable, Empty
  <2>2. \A f \in TokenId : Phase(f) = "unused"
    BY <2>1, PhaseFacts DEF TokenId
  <2> QED
    BY <2>1, <2>2 DEF Session!Init
<1>2. ASSUME SessionContext, SessionContext', [Next]_vars
      PROVE  Session!Next
  <2>1. CASE \E r \in Requests : StoreToken(r)
    BY <1>2, <2>1, InsertingStep
  <2>2. CASE \E r \in Requests : SaveRevoked(r) /\ job[r].parent # None
    <3>1. PICK r \in Requests : SaveRevoked(r) /\ job[r].parent # None
      BY <2>2
    <3>2. job[r].parent \in TokenId /\ job[r].family \in TokenId
      BY <1>2, <3>1 DEF SessionContext, TypeOK, LocalsOK, Job
    <3> QED
      BY <1>2, <3>1, <3>2, ConsumingStep
  <2>3. CASE /\ \A r \in Requests : ~StoreToken(r)
             /\ ~\E r \in Requests : SaveRevoked(r) /\ job[r].parent # None
    <3>1. issued' = issued
      BY <1>2, <2>3, IssuedStep DEF SessionContext
    <3>2. \A f \in TokenId : Usable(f)' \subseteq Usable(f)
      BY <1>2, <2>3, UsableShrinks DEF SessionContext
    <3>3. \A f \in TokenId : Renewing(f)' => Renewing(f)
      BY <1>2, <2>3, RenewingStep
    <3> QED
      BY <1>2, <3>1, <3>2, <3>3, EndingStep
  <2> QED
    BY <2>1, <2>2, <2>3
<1>3. SessionContext /\ SessionContext' /\ [Next]_vars => [Session!Next]_Session!vars
  BY <1>2
<1>4. SessionContext /\ [Next]_vars => SessionContext'
  BY NextSessionContext
<1> QED
  BY <1>1, <1>3, <1>4, InitSessionContext, PTL DEF Spec, ImplementsSessions, Session!Spec

=============================================================================

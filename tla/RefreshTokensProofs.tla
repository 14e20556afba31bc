------------------------ MODULE RefreshTokensProofs ------------------------
(* Proofs about RefreshTokens for every set of users and requests, every    *)
(* limit and every duration.                                                *)
EXTENDS RefreshTokens, FiniteSetTheorems, WellFoundedInduction, TLAPS

(* The entities a request marks are well formed rows, stamped now.          *)
LEMMA MarkedIsTable ==
    ASSUME TypeOK, NEW S \in SUBSET DOMAIN rows
    PROVE  /\ IsTable(Marked(S)) /\ DOMAIN Marked(S) = S
           /\ \A t \in S : /\ Marked(S)[t].revokedAt # None
                           /\ Marked(S)[t] = [rows[t] EXCEPT !.revokedAt = now]
<1>1. DOMAIN Marked(S) = S /\ Marked(S) = [t \in DOMAIN Marked(S) |-> Marked(S)[t]]
  BY DEF Marked
<1>2. ASSUME NEW t \in S
      PROVE  /\ Marked(S)[t] = [rows[t] EXCEPT !.revokedAt = now]
             /\ Marked(S)[t] \in Row /\ Marked(S)[t].revokedAt = now
  <2>1. rows[t] \in Row /\ now \in Nat /\ t \in TokenId
    BY DEF TypeOK, IsTable
  <2>2. Marked(S)[t] = [rows[t] EXCEPT !.revokedAt = now]
    BY DEF Marked
  <2> QED
    BY <2>1, <2>2 DEF Row
<1>3. now # None /\ S \subseteq TokenId
  BY NoneAssumption DEF TypeOK, IsTable
<1> QED
  BY <1>1, <1>2, <1>3 DEF IsTable

(* Deleting rows leaves a table: ON DELETE SET NULL changes parents only.   *)
LEMMA WithoutIsTable ==
    ASSUME TypeOK, NEW S
    PROVE  IsTable(Without(S)) /\ DOMAIN Without(S) = DOMAIN rows \ S
BY DEF TypeOK, IsTable, Without, Row

(* Saving a batch of entities leaves a table.                               *)
LEMMA WrittenIsTable ==
    ASSUME TypeOK, NEW batch, IsTable(batch)
    PROVE  IsTable(Written(batch)) /\ DOMAIN Written(batch) = DOMAIN rows \cup DOMAIN batch
BY DEF TypeOK, IsTable, Written, Row

(* The row generateRefreshToken inserts is well formed.                     *)
LEMMA NewRowIsRow ==
    ASSUME TypeOK, NEW r \in Requests, pc[r] = "store", issued < MaxTokens
    PROVE  NewRow(r) \in Row
<1>1. job[r].user \in Users /\ issued + 1 \in TokenId
  BY BoundAssumption DEF TypeOK, LocalsOK, TokenId
<1>2. job[r].parent \in TokenId \cup {None}
  BY DEF TypeOK, Job
<1>3. job[r].parent # None => job[r].family \in TokenId
  BY DEF TypeOK, LocalsOK
<1>4. now + RefreshTtl \in Nat
  BY DurationAssumption DEF TypeOK
<1> QED
  BY <1>1, <1>2, <1>3, <1>4 DEF NewRow, Row

(* The empty table is well typed.                                           *)
LEMMA InitTypeOK == Init => TypeOK
<1> SUFFICES ASSUME Init PROVE TypeOK
  OBVIOUS
<1>1. IsTable(Empty) /\ DOMAIN Empty = {}
  BY DEF IsTable, Empty
<1>2. NoJob \in Job
  BY DEF NoJob, Issuing, Job
<1> QED
  BY <1>1, <1>2, BoundAssumption DEF Init, TypeOK, LocalsOK, Status, Call, NoJob, Issuing

(* The part of TypeOK about the slots.                                      *)
SlotsOK == /\ pc \in [Requests -> Call] /\ job \in [Requests -> Job]
           /\ DOMAIN ents = Requests
           /\ \A q \in Requests : LocalsOK(q)

(* A step that changes the slot of one request keeps the others well typed. *)
LEMMA SlotTyped ==
    ASSUME TypeOK, NEW r \in Requests, NEW c \in Call, NEW j \in Job, NEW batch,
           Start(r, c, j, batch),
           issued' \in Nat, issued' >= issued,
           IsTable(batch), DOMAIN batch \subseteq 1 .. issued',
           c \in {"store", "limit", "evict"} => j.user \in Users,
           c \in {"limit", "evict"} => j.new \in 1 .. issued',
           c = "family" \/ j.replay => j.family \in TokenId,
           j.parent # None => /\ j.parent \in 1 .. issued'
                              /\ j.user \in Users /\ j.family \in TokenId
    PROVE  SlotsOK'
<1>1. /\ pc' \in [Requests -> Call] /\ job' \in [Requests -> Job]
      /\ DOMAIN ents' = Requests
  BY DEF TypeOK, Start
<1>2. issued \in Nat /\ 1 .. issued \subseteq 1 .. issued'
  BY BoundAssumption DEF TypeOK
<1>3. pc'[r] = c /\ job'[r] = j /\ ents'[r] = batch
  BY DEF TypeOK, Start
<1>4. LocalsOK(r)'
  BY <1>3 DEF LocalsOK, IsTable
<1>5. ASSUME NEW q \in Requests, q # r PROVE LocalsOK(q)'
  <2>1. pc'[q] = pc[q] /\ job'[q] = job[q] /\ ents'[q] = ents[q]
    BY <1>5 DEF TypeOK, Start
  <2>2. LocalsOK(q)
    BY DEF TypeOK
  <2> QED
    BY <2>1, <2>2, <1>2 DEF LocalsOK, IsTable
<1> QED
  BY <1>1, <1>4, <1>5 DEF SlotsOK

(* A step that changes no slot and inserts nothing keeps them well typed.   *)
LEMMA SlotsUnchanged ==
    ASSUME TypeOK, UNCHANGED <<pc, job, ents, issued>>
    PROVE  SlotsOK'
BY DEF TypeOK, LocalsOK, IsTable, SlotsOK

(* The empty batch, and the locals of a handler that has only begun.        *)
LEMMA EmptyIsTable == IsTable(Empty) /\ DOMAIN Empty = {}
BY DEF IsTable, Empty

LEMMA IssuingIsJob ==
    ASSUME NEW u \in Users \cup {None}, NEW f \in TokenId \cup {None},
           NEW p \in TokenId \cup {None}
    PROVE  /\ Issuing(u, f, p) \in Job
           /\ Issuing(u, f, p).user = u /\ Issuing(u, f, p).family = f
           /\ Issuing(u, f, p).parent = p /\ ~ Issuing(u, f, p).replay
BY DEF Issuing, Job

LEMMA ReplayingIsJob ==
    ASSUME NEW f \in TokenId
    PROVE  /\ Replaying(f) \in Job
           /\ Replaying(f).family = f /\ Replaying(f).parent = None
BY DEF Replaying, Job

LEMMA NoJobIsJob ==
    /\ NoJob \in Job /\ "idle" \in Call
    /\ NoJob.parent = None /\ ~ NoJob.replay
BY DEF NoJob, Issuing, Job, Call

(* A finished request.                                                      *)
LEMMA FinishTyped ==
    ASSUME TypeOK, NEW r \in Requests, Finish(r), UNCHANGED issued
    PROVE  SlotsOK'
<1>1. issued \in Nat
  BY DEF TypeOK
<1> QED
  BY <1>1, SlotTyped, EmptyIsTable, NoJobIsJob DEF Finish

(* TypeOK is inductive: one case per action.                                *)
LEMMA NextTypeOK == TypeOK /\ [Next]_vars => TypeOK'
<1> SUFFICES ASSUME TypeOK, [Next]_vars PROVE TypeOK'
  OBVIOUS
<1>0. /\ issued \in Nat /\ now \in Nat
      /\ DOMAIN rows \subseteq TokenId /\ 1 .. issued \subseteq TokenId
  BY BoundAssumption DEF TypeOK, TokenId, IsTable
<1>1. ASSUME NEW r \in Requests, NEW u \in Users, Register(r, u) PROVE TypeOK'
  <2> DEFINE j == Issuing(u, None, None)
  <2>1. j \in Job /\ j.user = u /\ j.parent = None /\ ~ j.replay
    BY IssuingIsJob
  <2>2. Start(r, "store", j, Empty) /\ UNCHANGED issued
    BY <1>1 DEF Register
  <2> HIDE DEF j
  <2>3. SlotsOK'
    BY <1>0, <2>1, <2>2, SlotTyped, EmptyIsTable DEF Call
  <2> QED
    BY <1>1, <2>3 DEF Register, TypeOK, SlotsOK, Status
<1>2. ASSUME NEW r \in Requests, NEW u \in Users, Login(r, u) PROVE TypeOK'
  <2> DEFINE j == Issuing(u, None, None)
  <2>1. j \in Job /\ j.user = u /\ j.parent = None /\ ~ j.replay
    BY IssuingIsJob
  <2>2. Start(r, "store", j, Empty) /\ UNCHANGED issued
    BY <1>2 DEF Login
  <2> HIDE DEF j
  <2>3. SlotsOK'
    BY <1>0, <2>1, <2>2, SlotTyped, EmptyIsTable DEF Call
  <2> QED
    BY <1>2, <2>3 DEF Login, TypeOK, SlotsOK
<1>3. ASSUME NEW r \in Requests, NEW u \in Users, LogoutAll(r, u) PROVE TypeOK'
  <2>1. IsTable(rows)' /\ DOMAIN rows' \subseteq DOMAIN rows
    BY <1>3, WithoutIsTable DEF LogoutAll
  <2>2. ended' \subseteq [family : TokenId, by : {"replay", "logout"}]
    BY <1>3 DEF LogoutAll, TypeOK, IsTable, Row, Tokens
  <2> QED
    BY <1>3, <2>1, <2>2, SlotsUnchanged DEF LogoutAll, TypeOK, SlotsOK
<1>4. ASSUME NEW r \in Requests, NEW u \in Users, RemoveUser(r, u) PROVE TypeOK'
  <2>1. IsTable(rows)' /\ DOMAIN rows' \subseteq DOMAIN rows
    BY <1>4, WithoutIsTable DEF RemoveUser
  <2> QED
    BY <1>4, <2>1, SlotsUnchanged DEF RemoveUser, TypeOK, SlotsOK, Status
<1>5. ASSUME NEW r \in Requests, NEW t \in DOMAIN rows, RefreshReplay(r, t) PROVE TypeOK'
  <2>1. rows[t].family \in TokenId
    BY DEF TypeOK, IsTable, Row
  <2>2. SlotsOK'
    BY <1>0, <1>5, <2>1, ReplayingIsJob, SlotTyped, EmptyIsTable DEF RefreshReplay, Call
  <2> QED
    BY <1>5, <2>2 DEF RefreshReplay, TypeOK, SlotsOK
<1>6. ASSUME NEW r \in Requests, NEW t \in DOMAIN rows, RefreshExpired(r, t) PROVE TypeOK'
  <2>1. IsTable(Marked({t})) /\ DOMAIN Marked({t}) = {t} /\ t \in 1 .. issued
    BY MarkedIsTable DEF TypeOK
  <2>2. SlotsOK'
    BY <1>0, <1>6, <2>1, SlotTyped, NoJobIsJob DEF RefreshExpired, Call
  <2> QED
    BY <1>6, <2>2 DEF RefreshExpired, TypeOK, SlotsOK
<1>7. ASSUME NEW r \in Requests, NEW t \in DOMAIN rows, RefreshRotate(r, t) PROVE TypeOK'
  <2>1. IsTable(Marked({t})) /\ DOMAIN Marked({t}) = {t} /\ t \in 1 .. issued
    BY MarkedIsTable DEF TypeOK
  <2>2. rows[t].family \in TokenId /\ rows[t].user \in Users
    BY DEF TypeOK, IsTable, Row
  <2> DEFINE j == Issuing(rows[t].user, rows[t].family, t)
  <2>3. /\ j \in Job /\ j.user = rows[t].user /\ j.family = rows[t].family
        /\ j.parent = t /\ ~ j.replay
    BY <1>0, <2>2, IssuingIsJob
  <2>4. Start(r, "revoke", j, Marked({t})) /\ UNCHANGED issued
    BY <1>7 DEF RefreshRotate
  <2> HIDE DEF j
  <2>5. SlotsOK'
    BY <1>0, <2>1, <2>2, <2>3, <2>4, SlotTyped DEF Call
  <2> QED
    BY <1>7, <2>5 DEF RefreshRotate, TypeOK, SlotsOK
<1>8. ASSUME NEW r \in Requests, NEW u \in Users, NEW t \in DOMAIN rows, Logout(r, u, t)
      PROVE TypeOK'
  <2>1. IsTable(Marked({t})) /\ DOMAIN Marked({t}) = {t} /\ t \in 1 .. issued
    BY MarkedIsTable DEF TypeOK
  <2>2. SlotsOK'
    BY <1>0, <1>8, <2>1, SlotTyped, NoJobIsJob DEF Logout, Call
  <2> QED
    BY <1>8, <2>2 DEF Logout, TypeOK, SlotsOK
<1>9. ASSUME NEW r \in Requests, RemoveExpiredRefreshTokens(r) PROVE TypeOK'
  <2>1. IsTable(rows)' /\ DOMAIN rows' \subseteq DOMAIN rows
    BY <1>9, WithoutIsTable DEF RemoveExpiredRefreshTokens
  <2> QED
    BY <1>9, <2>1, SlotsUnchanged DEF RemoveExpiredRefreshTokens, TypeOK, SlotsOK
<1>10. ASSUME NEW r \in Requests, FindFamily(r) PROVE TypeOK'
  <2> DEFINE S == FamilyTokens(job[r].family)
  <2>1. IsTable(Marked(S)) /\ DOMAIN Marked(S) = S /\ S \subseteq 1 .. issued
    BY MarkedIsTable DEF TypeOK, FamilyTokens
  <2>2. job[r] \in Job /\ LocalsOK(r)
    BY DEF TypeOK
  <2>3. SlotsOK'
    BY <1>0, <1>10, <2>1, <2>2, SlotTyped DEF FindFamily, Call, LocalsOK
  <2> QED
    BY <1>10, <2>3 DEF FindFamily, TypeOK, SlotsOK
<1>11. ASSUME NEW r \in Requests, SaveRevoked(r) PROVE TypeOK'
  <2>1. IsTable(rows)' /\ DOMAIN rows' \subseteq 1 .. issued
    BY <1>11, WrittenIsTable DEF SaveRevoked, TypeOK, LocalsOK, IsTable
  <2>2. job[r] \in Job /\ LocalsOK(r)
    BY DEF TypeOK
  <2>3. ended' \subseteq [family : TokenId, by : {"replay", "logout"}]
    BY <1>11, <2>2 DEF SaveRevoked, TypeOK, LocalsOK
  <2>4. SlotsOK'
    <3>1. CASE job[r].parent = None
      BY <1>11, <3>1, FinishTyped DEF SaveRevoked
    <3>2. CASE job[r].parent # None
      BY <1>0, <1>11, <2>2, <3>2, SlotTyped, EmptyIsTable
      DEF SaveRevoked, Call, LocalsOK
    <3> QED
      BY <3>1, <3>2
  <2> QED
    BY <1>11, <2>1, <2>3, <2>4 DEF SaveRevoked, TypeOK, SlotsOK
<1>12. ASSUME NEW r \in Requests, StoreToken(r) PROVE TypeOK'
  <2> DEFINE n == issued + 1
  <2>1. n \in TokenId /\ n \in Nat /\ n \in 0 .. MaxTokens /\ 1 .. issued \subseteq 1 .. n
    BY <1>0, <1>12, BoundAssumption DEF StoreToken, TypeOK, TokenId
  <2>2. IsTable(rows)' /\ DOMAIN rows' \subseteq 1 .. n
    BY <1>0, <1>12, <2>1, NewRowIsRow DEF StoreToken, TypeOK, IsTable
  <2>3. LocalsOK(r) /\ job[r] \in Job
    BY DEF TypeOK
  <2> DEFINE j == [job[r] EXCEPT !.new = n]
  <2>4. /\ j \in Job /\ j.user = job[r].user /\ j.family = job[r].family
        /\ j.parent = job[r].parent /\ j.replay = job[r].replay /\ j.new = n
    BY <2>1, <2>3 DEF Job
  <2>5. Start(r, "limit", j, Empty) /\ issued' = n /\ pc[r] = "store"
    BY <1>12 DEF StoreToken
  <2> HIDE DEF j
  <2>6. SlotsOK'
    BY <1>0, <2>1, <2>3, <2>4, <2>5, SlotTyped, EmptyIsTable DEF Call, LocalsOK
  <2> QED
    BY <1>12, <2>1, <2>2, <2>6 DEF StoreToken, TypeOK, SlotsOK
<1>13. ASSUME NEW r \in Requests, WithinLimit(r) PROVE TypeOK'
  <2>1. job[r].user \in Users /\ job[r].new \in 1 .. issued
    BY <1>13 DEF WithinLimit, TypeOK, LocalsOK
  <2> QED
    BY <1>13, <2>1, FinishTyped DEF WithinLimit, Respond, TypeOK, SlotsOK
<1>14. ASSUME NEW r \in Requests, OverLimit(r) PROVE TypeOK'
  <2> DEFINE batch == [t \in Overflow(job[r].user) |-> rows[t]]
  <2>1. IsTable(batch) /\ DOMAIN batch \subseteq 1 .. issued
    BY DEF IsTable, Overflow, Tokens, TypeOK
  <2>2. job[r] \in Job /\ LocalsOK(r)
    BY DEF TypeOK
  <2> HIDE DEF batch
  <2>3. SlotsOK'
    BY <1>0, <1>14, <2>1, <2>2, SlotTyped DEF OverLimit, Call, LocalsOK, batch
  <2> QED
    BY <1>14, <2>3 DEF OverLimit, TypeOK, SlotsOK
<1>15. ASSUME NEW r \in Requests, EvictOverflow(r) PROVE TypeOK'
  <2>1. job[r].user \in Users /\ job[r].new \in 1 .. issued
    BY <1>15 DEF EvictOverflow, TypeOK, LocalsOK
  <2>2. IsTable(rows)' /\ DOMAIN rows' \subseteq DOMAIN rows
    BY <1>15, WithoutIsTable DEF EvictOverflow
  <2> QED
    BY <1>15, <2>1, <2>2, FinishTyped DEF EvictOverflow, Respond, TypeOK, SlotsOK
<1>16. ASSUME NEW r \in Requests, Abort(r) PROVE TypeOK'
  BY <1>16, FinishTyped DEF Abort, TypeOK, SlotsOK
<1>17. ASSUME NEW u \in Users, Block(u) \/ Unblock(u) PROVE TypeOK'
  BY <1>17, SlotsUnchanged DEF Block, Unblock, TypeOK, SlotsOK, Status
<1>18. CASE Tick
  BY <1>18, SlotsUnchanged DEF Tick, TypeOK, SlotsOK
<1>19. CASE UNCHANGED vars
  BY <1>19, SlotsUnchanged DEF vars, TypeOK, SlotsOK
<1> QED
  BY <1>1, <1>2, <1>3, <1>4, <1>5, <1>6, <1>7, <1>8, <1>9, <1>10, <1>11, <1>12,
     <1>13, <1>14, <1>15, <1>16, <1>17, <1>18, <1>19 DEF Next, Begin, Continue

(* Every reachable state is well typed.                                     *)
THEOREM TypeCorrect == Spec => []TypeOK
BY InitTypeOK, NextTypeOK, PTL DEF Spec

----------------------------------------------------------------------------
(* A retired token stays retired.  A save can insert a vanished row again,  *)
(* so the invariant needed is that every entity on its way to a save is     *)
(* marked revoked.                                                          *)
WritesRevoked ==
    \A r \in Requests : pc[r] = "revoke" =>
        \A t \in DOMAIN ents[r] : ents[r][t].revokedAt # None

(* A slot that a step fills holds revoked entities if it is about to save.  *)
LEMMA FilledSlotWritesRevoked ==
    ASSUME TypeOK, WritesRevoked, NEW r \in Requests, NEW c, NEW j, NEW batch,
           Start(r, c, j, batch),
           c = "revoke" => \A t \in DOMAIN batch : batch[t].revokedAt # None
    PROVE  WritesRevoked'
BY DEF TypeOK, WritesRevoked, Start

LEMMA NextWritesRevoked == TypeOK /\ WritesRevoked /\ [Next]_vars => WritesRevoked'
<1> SUFFICES ASSUME TypeOK, WritesRevoked, [Next]_vars PROVE WritesRevoked'
  OBVIOUS
<1>1. CASE UNCHANGED <<pc, ents>>
  BY <1>1 DEF WritesRevoked
<1>2. ASSUME NEW r \in Requests, NEW j, NEW S \in SUBSET DOMAIN rows,
             Start(r, "revoke", j, Marked(S))
      PROVE  WritesRevoked'
  BY <1>2, MarkedIsTable, FilledSlotWritesRevoked
<1>3. ASSUME NEW r \in Requests, NEW c, c # "revoke", NEW j, NEW batch, Start(r, c, j, batch)
      PROVE  WritesRevoked'
  BY <1>3, FilledSlotWritesRevoked
<1>4. ASSUME NEW r \in Requests, NEW t \in DOMAIN rows,
             RefreshExpired(r, t) \/ RefreshRotate(r, t)
      PROVE  WritesRevoked'
  BY <1>2, <1>4 DEF RefreshExpired, RefreshRotate
<1>5. ASSUME NEW r \in Requests, NEW u \in Users, NEW t \in DOMAIN rows, Logout(r, u, t)
      PROVE  WritesRevoked'
  BY <1>2, <1>5 DEF Logout
<1>6. ASSUME NEW r \in Requests, FindFamily(r) PROVE WritesRevoked'
  BY <1>2, <1>6 DEF FindFamily, FamilyTokens
<1>7. ASSUME NEW r \in Requests, NEW u \in Users, Register(r, u) \/ Login(r, u)
      PROVE  WritesRevoked'
  BY <1>3, <1>7 DEF Register, Login
<1>8. ASSUME NEW r \in Requests, NEW t \in DOMAIN rows, RefreshReplay(r, t)
      PROVE  WritesRevoked'
  BY <1>3, <1>8 DEF RefreshReplay
<1>9. ASSUME NEW r \in Requests, Continue(r) \/ Abort(r) PROVE WritesRevoked'
  BY <1>3, <1>6, <1>9 DEF Continue, Abort, SaveRevoked, StoreToken, WithinLimit, OverLimit,
     EvictOverflow, Finish
<1> QED
  BY <1>1, <1>4, <1>5, <1>7, <1>8, <1>9 DEF Next, Begin, LogoutAll, RemoveUser,
     RemoveExpiredRefreshTokens, Block, Unblock, Tick, vars

(* The ways a step can change the table.                                    *)
LEMMA RowsStep ==
    ASSUME [Next]_vars
    PROVE  \/ UNCHANGED rows
           \/ \E S : rows' = Without(S)
           \/ \E r \in Requests : SaveRevoked(r)
           \/ \E r \in Requests : StoreToken(r)
BY DEF Next, Begin, Continue, Register, Login, LogoutAll, RemoveUser, RefreshReplay,
   RefreshExpired, RefreshRotate, Logout, RemoveExpiredRefreshTokens, FindFamily,
   WithinLimit, OverLimit, EvictOverflow, Abort, Block, Unblock, Tick, vars

(* A usable token was usable before the step, or is the one just inserted.  *)
LEMMA LiveShrinks ==
    ASSUME TypeOK, WritesRevoked, [Next]_vars, NEW t \in 1 .. issued, Live(t)'
    PROVE  /\ Live(t) /\ t \in DOMAIN rows
           /\ rows'[t].user = rows[t].user /\ rows'[t].family = rows[t].family
<1> DEFINE Was == /\ Live(t) /\ t \in DOMAIN rows
                  /\ rows'[t].user = rows[t].user /\ rows'[t].family = rows[t].family
<1>1. CASE UNCHANGED rows
  BY <1>1 DEF Live
<1>2. ASSUME NEW S, rows' = Without(S)
      PROVE  Was
  <2>1. t \in DOMAIN rows \ S
    BY <1>2, WithoutIsTable DEF Live
  <2>2. rows[t] \in Row /\ rows'[t] \in {rows[t], [rows[t] EXCEPT !.parent = None]}
    BY <1>2, <2>1 DEF Without, TypeOK, IsTable
  <2>3. /\ rows'[t].revokedAt = rows[t].revokedAt /\ rows'[t].user = rows[t].user
        /\ rows'[t].family = rows[t].family
    BY <2>2 DEF Row
  <2> QED
    BY <2>1, <2>3 DEF Live
<1>3. ASSUME NEW r \in Requests, SaveRevoked(r)
      PROVE  Was
  <2>1. rows' = Written(ents[r]) /\ IsTable(ents[r]) /\ pc[r] = "revoke"
    BY <1>3 DEF SaveRevoked, TypeOK, LocalsOK
  <2>2. t \in DOMAIN rows \cup DOMAIN ents[r]
    BY <2>1, WrittenIsTable DEF Live
  <2>3. t \notin DOMAIN ents[r]
    BY <2>1, <2>2 DEF WritesRevoked, Live, Written
  <2> QED
    BY <2>1, <2>2, <2>3 DEF Written, Live
<1>4. ASSUME NEW r \in Requests, StoreToken(r)
      PROVE  Was
  <2>1. t # issued + 1
    BY DEF TypeOK
  <2> QED
    BY <1>4, <2>1 DEF StoreToken, Live
<1> QED
  BY <1>1, <1>2, <1>3, <1>4, RowsStep

LEMMA InitWritesRevoked == Init => WritesRevoked
BY DEF Init, WritesRevoked

(* A token that was inserted and is not usable never becomes usable again.  *)
THEOREM RetiredTokensStayRetired == Spec => RetiredStaysRetired
<1>1. TypeOK /\ WritesRevoked /\ [Next]_vars
        => [\A t \in 1 .. issued : ~Live(t) => ~Live(t)']_vars
  BY LiveShrinks
<1> QED
  BY <1>1, InitTypeOK, NextTypeOK, InitWritesRevoked, NextWritesRevoked, PTL
  DEF Spec, RetiredStaysRetired

----------------------------------------------------------------------------
(* The limit.  Of a finite set of numbers, those with fewer than M greater  *)
(* ones are at most M.                                                      *)
LEMMA NewestAtMost ==
    ASSUME NEW S \in SUBSET Nat, IsFiniteSet(S), NEW M \in Nat \ {0}
    PROVE  LET K == {t \in S : ~(Cardinality({s \in S : s > t}) >= M)}
           IN  IsFiniteSet(K) /\ Cardinality(K) <= M
<1> DEFINE Newer(t) == {s \in S : s > t}
           K == {t \in S : ~(Cardinality(Newer(t)) >= M)}
<1> SUFFICES IsFiniteSet(K) /\ Cardinality(K) <= M
  OBVIOUS
<1>1. IsFiniteSet(K)
  BY FS_Subset
<1>2. CASE K = {}
  <2> HIDE DEF K
  <2> QED
    BY <1>1, <1>2, FS_EmptySet
<1>3. CASE K # {}
  <2>1. PICK m \in K : \A k \in K : ~(k < m)
    <3>1. \E m \in K : \A k \in K : ~(<<k, m>> \in OpToRel(<, Nat))
      BY <1>3, NatLessThanWellFounded, WFMin
    <3> QED
      BY <3>1 DEF OpToRel
  <2>2. IsFiniteSet(Newer(m)) /\ Cardinality(Newer(m)) \in Nat
    BY FS_Subset, FS_CardinalityType
  <2>3. Cardinality(Newer(m)) < M
    BY <2>1, <2>2
  <2>4. IsFiniteSet(Newer(m) \cup {m}) /\ Cardinality(Newer(m) \cup {m}) <= M
    <3>1. m \notin Newer(m)
      BY <2>1
    <3>2. /\ IsFiniteSet(Newer(m) \cup {m})
          /\ Cardinality(Newer(m) \cup {m}) = Cardinality(Newer(m)) + 1
      <4> HIDE DEF Newer, K
      <4> QED
        BY <2>2, <3>1, FS_AddElement
    <3> HIDE DEF Newer, K
    <3> QED
      BY <2>2, <2>3, <3>2
  <2>5. K \subseteq Newer(m) \cup {m}
    <3> SUFFICES ASSUME NEW k \in K, k # m PROVE k \in S /\ k > m
      OBVIOUS
    <3>1. k \in S /\ k \in Nat /\ m \in Nat /\ ~(k < m)
      BY <2>1
    <3> QED
      BY <3>1
  <2>6. Cardinality(K) <= Cardinality(Newer(m) \cup {m})
    BY <2>4, <2>5, FS_Subset
  <2>7. Cardinality(K) \in Nat /\ Cardinality(Newer(m) \cup {m}) \in Nat
    BY <1>1, <2>4, FS_CardinalityType
  <2> QED
    BY <1>1, <2>4, <2>6, <2>7
<1> QED
  BY <1>2, <1>3

(* What enforceRefreshTokenLimit leaves of an account's rows.               *)
LEMMA KeptWithinLimit ==
    ASSUME TypeOK, NEW u \in Users
    PROVE  /\ IsFiniteSet(Tokens(u) \ Overflow(u))
           /\ Cardinality(Tokens(u) \ Overflow(u)) <= MaxRefreshTokens
<1> DEFINE S == Tokens(u)
           K == {t \in S : ~(Cardinality({s \in S : s > t}) >= MaxRefreshTokens)}
<1>1. S \in SUBSET Nat /\ IsFiniteSet(S)
  <2>1. S \subseteq 1 .. issued /\ issued \in Nat
    BY DEF TypeOK, Tokens
  <2>2. IsFiniteSet(1 .. issued)
    BY <2>1, FS_Interval
  <2> QED
    BY <2>1, <2>2, FS_Subset
<1>2. IsFiniteSet(K) /\ Cardinality(K) <= MaxRefreshTokens
  <2> HIDE DEF S
  <2> QED
    BY <1>1, LimitAssumption, NewestAtMost
<1>3. K = Tokens(u) \ Overflow(u)
  BY DEF Overflow
<1> QED
  BY <1>2, <1>3

(* The tokens between the find and the remove: those of the doomed account  *)
(* that are not doomed are already within the limit.                        *)
DoomedSuffice ==
    \A r \in Requests : pc[r] = "evict" =>
        Cardinality(LiveUpTo(job[r].user, job[r].new) \ DOMAIN ents[r]) <= MaxRefreshTokens

LimitInv == EnforcedLimit /\ DoomedSuffice

(* The set the limit bounds never grows.                                    *)
LEMMA LiveUpToShrinks ==
    ASSUME TypeOK, WritesRevoked, [Next]_vars, NEW u \in Users, NEW n \in 1 .. issued,
           NEW D, Cardinality(LiveUpTo(u, n) \ D) <= MaxRefreshTokens
    PROVE  Cardinality(LiveUpTo(u, n)' \ D) <= MaxRefreshTokens
<1>1. issued \in Nat /\ DOMAIN rows \subseteq 1 .. issued
  BY DEF TypeOK
<1>2. DOMAIN rows' \subseteq Nat
  BY NextTypeOK DEF TypeOK
<1>3. LiveUpTo(u, n)' \subseteq LiveUpTo(u, n)
  <2> SUFFICES ASSUME NEW t \in LiveUpTo(u, n)' PROVE t \in LiveUpTo(u, n)
    OBVIOUS
  <2>1. t \in DOMAIN rows' /\ rows'[t].user = u /\ t <= n /\ Live(t)'
    BY DEF LiveUpTo, Tokens
  <2>2. t \in 1 .. issued
    <3>1. t >= 1
      BY <2>1, NextTypeOK DEF TypeOK
    <3> QED
      BY <1>1, <1>2, <2>1, <3>1
  <2>3. Live(t) /\ t \in DOMAIN rows /\ rows[t].user = u
    BY <2>1, <2>2, LiveShrinks
  <2> QED
    BY <2>1, <2>3 DEF LiveUpTo, Tokens
<1>4. IsFiniteSet(LiveUpTo(u, n) \ D) /\ IsFiniteSet(LiveUpTo(u, n)' \ D)
  <2>1. LiveUpTo(u, n) \subseteq 1 .. issued
    BY <1>1 DEF LiveUpTo, Tokens
  <2>2. IsFiniteSet(LiveUpTo(u, n))
    <3>1. IsFiniteSet(1 .. issued)
      BY <1>1, FS_Interval
    <3> QED
      BY <2>1, <3>1, FS_Subset
  <2>3. LiveUpTo(u, n) \ D \subseteq LiveUpTo(u, n)
    OBVIOUS
  <2>4. LiveUpTo(u, n)' \ D \subseteq LiveUpTo(u, n)
    BY <1>3
  <2> QED
    BY <2>2, <2>3, <2>4, FS_Subset
<1>5. LiveUpTo(u, n)' \ D \subseteq LiveUpTo(u, n) \ D
  BY <1>3
<1>6. Cardinality(LiveUpTo(u, n)' \ D) <= Cardinality(LiveUpTo(u, n) \ D)
  BY <1>4, <1>5, FS_Subset
<1> QED
  BY <1>4, <1>6, FS_CardinalityType, LimitAssumption

(* A token reaches a client by one of the two ends of the limit check.      *)
LEMMA DeliveredStep ==
    ASSUME TypeOK, [Next]_vars, NEW u \in Users, NEW n \in delivered'[u],
           n \notin delivered[u]
    PROVE  \E r \in Requests : /\ WithinLimit(r) \/ EvictOverflow(r)
                               /\ u = job[r].user /\ n = job[r].new
<1>1. ASSUME NEW r \in Requests, Respond(r) PROVE u = job[r].user /\ n = job[r].new
  BY <1>1 DEF Respond, TypeOK
<1>2. \E r \in Requests : WithinLimit(r) \/ EvictOverflow(r)
  BY DEF Next, Begin, Continue, Register, Login, LogoutAll, RemoveUser, RefreshReplay,
     RefreshExpired, RefreshRotate, Logout, RemoveExpiredRefreshTokens, FindFamily,
     SaveRevoked, StoreToken, OverLimit, Abort, Block, Unblock, Tick, vars
<1> QED
  BY <1>1, <1>2 DEF WithinLimit, EvictOverflow

(* A slot about to remove was already, or has just found what to remove.    *)
LEMMA EvictStep ==
    ASSUME TypeOK, [Next]_vars, NEW r \in Requests, pc'[r] = "evict"
    PROVE  \/ OverLimit(r)
           \/ pc[r] = "evict" /\ job'[r] = job[r] /\ ents'[r] = ents[r]
<1>1. CASE UNCHANGED <<pc, job, ents>>
  BY <1>1
<1>2. ASSUME NEW q \in Requests, NEW c, NEW j, NEW batch, Start(q, c, j, batch),
             c # "evict" \/ (q = r => OverLimit(r))
      PROVE  \/ OverLimit(r)
             \/ pc[r] = "evict" /\ job'[r] = job[r] /\ ents'[r] = ents[r]
  BY <1>2 DEF Start, TypeOK
<1>3. ASSUME NEW q \in Requests, Continue(q) \/ Abort(q)
      PROVE  \/ OverLimit(r)
             \/ pc[r] = "evict" /\ job'[r] = job[r] /\ ents'[r] = ents[r]
  <2>1. CASE OverLimit(q)
    BY <1>2, <2>1 DEF OverLimit
  <2> QED
    BY <1>2, <1>3, <2>1 DEF Continue, Abort, FindFamily, SaveRevoked, StoreToken,
       WithinLimit, EvictOverflow, Finish
<1>4. ASSUME NEW q \in Requests, Begin(q)
      PROVE  \/ OverLimit(r)
             \/ pc[r] = "evict" /\ job'[r] = job[r] /\ ents'[r] = ents[r]
  BY <1>1, <1>2, <1>4 DEF Begin, Register, Login, LogoutAll, RemoveUser, RefreshReplay,
     RefreshExpired, RefreshRotate, Logout, RemoveExpiredRefreshTokens
<1> QED
  BY <1>1, <1>3, <1>4 DEF Next, Block, Unblock, Tick, vars

LEMMA NextLimitInv ==
    TypeOK /\ WritesRevoked /\ LimitInv /\ [Next]_vars => LimitInv'
<1> SUFFICES ASSUME TypeOK, WritesRevoked, LimitInv, [Next]_vars PROVE LimitInv'
  OBVIOUS
<1>1. ASSUME NEW u \in Users, NEW n \in delivered'[u]
      PROVE  Cardinality(LiveUpTo(u, n)') <= MaxRefreshTokens
  <2>1. CASE n \in delivered[u]
    <3>1. n \in 1 .. issued /\ Cardinality(LiveUpTo(u, n) \ {}) <= MaxRefreshTokens
      BY <2>1 DEF TypeOK, LimitInv, EnforcedLimit
    <3> QED
      BY <3>1, LiveUpToShrinks
  <2>2. CASE n \notin delivered[u]
    <3>1. PICK r \in Requests : /\ WithinLimit(r) \/ EvictOverflow(r)
                               /\ u = job[r].user /\ n = job[r].new
      BY <2>2, DeliveredStep
    <3>2. n \in 1 .. issued
      BY <3>1 DEF WithinLimit, EvictOverflow, TypeOK, LocalsOK
    <3>3. CASE WithinLimit(r)
      <4>1. /\ IsFiniteSet(Tokens(u)) /\ Cardinality(Tokens(u)) <= MaxRefreshTokens
        BY <3>1, <3>3, KeptWithinLimit DEF WithinLimit
      <4>2. Cardinality(LiveUpTo(u, n)) <= MaxRefreshTokens
        BY <4>1, FS_Subset, FS_CardinalityType, LimitAssumption DEF LiveUpTo
      <4> QED
        BY <3>2, <4>2, LiveUpToShrinks
    <3>4. CASE EvictOverflow(r)
      <4> DEFINE D == DOMAIN ents[r]
      <4>1. Cardinality(LiveUpTo(u, n) \ D) <= MaxRefreshTokens
        BY <3>1, <3>4 DEF LimitInv, DoomedSuffice, EvictOverflow
      <4>2. LiveUpTo(u, n)' \ D = LiveUpTo(u, n)'
        BY <3>4, WithoutIsTable DEF EvictOverflow, LiveUpTo, Tokens
      <4> QED
        BY <3>2, <4>1, <4>2, LiveUpToShrinks
    <3> QED
      BY <3>1, <3>3, <3>4
  <2> QED
    BY <2>1, <2>2
<1>2. ASSUME NEW r \in Requests, pc'[r] = "evict"
      PROVE  \A u \in Users, n \in 1 .. issued :
                 job'[r].user = u /\ job'[r].new = n =>
                    Cardinality(LiveUpTo(u, n)' \ DOMAIN ents'[r]) <= MaxRefreshTokens
  <2> SUFFICES ASSUME NEW u \in Users, NEW n \in 1 .. issued,
                      job'[r].user = u, job'[r].new = n
               PROVE  Cardinality(LiveUpTo(u, n)' \ DOMAIN ents'[r]) <= MaxRefreshTokens
    OBVIOUS
  <2>1. CASE OverLimit(r)
    <3>1. job'[r] = job[r] /\ DOMAIN ents'[r] = Overflow(u)
      BY <2>1 DEF OverLimit, Start, TypeOK
    <3>2. Cardinality(LiveUpTo(u, n) \ Overflow(u)) <= MaxRefreshTokens
      <4>1. LiveUpTo(u, n) \ Overflow(u) \subseteq Tokens(u) \ Overflow(u)
        BY DEF LiveUpTo
      <4>2. /\ IsFiniteSet(LiveUpTo(u, n) \ Overflow(u))
            /\ Cardinality(LiveUpTo(u, n) \ Overflow(u))
                  <= Cardinality(Tokens(u) \ Overflow(u))
        BY <4>1, KeptWithinLimit, FS_Subset
      <4>3. /\ IsFiniteSet(Tokens(u) \ Overflow(u))
            /\ Cardinality(Tokens(u) \ Overflow(u)) <= MaxRefreshTokens
        BY KeptWithinLimit
      <4>4. /\ Cardinality(LiveUpTo(u, n) \ Overflow(u)) \in Nat
            /\ Cardinality(Tokens(u) \ Overflow(u)) \in Nat
        BY <4>2, <4>3, FS_CardinalityType
      <4> QED
        BY <4>2, <4>3, <4>4, LimitAssumption
    <3> QED
      BY <3>1, <3>2, LiveUpToShrinks
  <2>2. CASE pc[r] = "evict" /\ job'[r] = job[r] /\ ents'[r] = ents[r]
    <3>1. Cardinality(LiveUpTo(u, n) \ DOMAIN ents[r]) <= MaxRefreshTokens
      BY <2>2 DEF LimitInv, DoomedSuffice
    <3> QED
      BY <2>2, <3>1, LiveUpToShrinks
  <2> QED
    BY <1>2, <2>1, <2>2, EvictStep
<1>3. ASSUME NEW r \in Requests, pc'[r] = "evict"
      PROVE  job'[r].user \in Users /\ job'[r].new \in 1 .. issued
  BY <1>3, EvictStep DEF OverLimit, Start, TypeOK, LocalsOK
<1>4. EnforcedLimit'
  BY <1>1 DEF EnforcedLimit
<1>5. DoomedSuffice'
  BY <1>2, <1>3 DEF DoomedSuffice
<1> QED
  BY <1>4, <1>5 DEF LimitInv

LEMMA InitLimitInv == Init => LimitInv
BY DEF Init, LimitInv, EnforcedLimit, DoomedSuffice

(* The limit holds whenever a token has been answered, for every limit,     *)
(* number of accounts and number of concurrent requests.                    *)
THEOREM LimitEnforced == Spec => []EnforcedLimit
<1>1. LimitInv => EnforcedLimit
  BY DEF LimitInv
<1> QED
  BY <1>1, InitTypeOK, NextTypeOK, InitWritesRevoked, NextWritesRevoked,
     InitLimitInv, NextLimitInv, PTL DEF Spec

----------------------------------------------------------------------------
(* Rotation.  A token lives on in every entity that a request has loaded    *)
(* and is about to save, and save() writes the whole row: what holds of a   *)
(* row must hold of each copy of it.                                        *)
Saving(t) == {r \in Requests : pc[r] = "revoke" /\ t \in DOMAIN ents[r]}
Copies(t) == {rows[s] : s \in DOMAIN rows \cap {t}} \cup {ents[r][t] : r \in Saving(t)}

(* The copies of a token are of one account and one family.                 *)
CopiesAgree ==
    \A t \in TokenId : \A c, d \in Copies(t) : c.user = d.user /\ c.family = d.family

(* Whatever copy of a token names the token it was rotated from, every copy *)
(* of that one is of the same session and revoked.                          *)
ParentsRevoked ==
    \A t \in TokenId : \A c \in Copies(t) : c.parent # None =>
        /\ c.parent < t
        /\ \A d \in Copies(c.parent) :
              /\ d.user = c.user /\ d.family = c.family
              /\ d.revokedAt # None

(* A request that rotates a token holds its session, and once it has saved  *)
(* the token no copy of it is usable.                                       *)
RotationsHold ==
    \A r \in Requests, p \in TokenId : pc[r] \in {"revoke", "store"} /\ job[r].parent = p =>
        /\ pc[r] = "revoke" => p \in DOMAIN ents[r]
        /\ \A d \in Copies(p) : /\ d.user = job[r].user /\ d.family = job[r].family
                                /\ pc[r] = "store" => d.revokedAt # None

(* A request that ends a replayed family issues no token.                   *)
ReplaysIssueNothing == \A r \in Requests : pc[r] = "family" => job[r].parent = None

(* The foreign keys of the table.                                           *)
ForeignKeys ==
    \A t \in DOMAIN rows : /\ account[rows[t].user] # "removed"
                           /\ rows[t].parent \in {None} \cup DOMAIN rows

ChainInv == /\ CopiesAgree /\ ParentsRevoked /\ RotationsHold
            /\ ReplaysIssueNothing /\ ForeignKeys

LEMMA InitChainInv == Init => ChainInv
BY DEF Init, ChainInv, CopiesAgree, ParentsRevoked, RotationsHold, ReplaysIssueNothing,
   ForeignKeys, Copies, Saving, Empty, NoJob, Issuing

(* A copy is a well formed row of a token that was inserted.                *)
LEMMA CopyTyped ==
    ASSUME TypeOK, NEW t, NEW c \in Copies(t)
    PROVE  c \in Row /\ t \in 1 .. issued
<1>1. CASE t \in DOMAIN rows /\ c = rows[t]
  BY <1>1 DEF TypeOK, IsTable
<1>2. ASSUME NEW r \in Saving(t), c = ents[r][t] PROVE c \in Row /\ t \in 1 .. issued
  BY <1>2 DEF Saving, TypeOK, LocalsOK, IsTable
<1> QED
  BY <1>1, <1>2 DEF Copies

(* What markRevoked leaves of a row.                                        *)
LEMMA MarkedRow ==
    ASSUME TypeOK, NEW t \in DOMAIN rows, NEW d, d = [rows[t] EXCEPT !.revokedAt = now]
    PROVE  /\ d.user = rows[t].user /\ d.family = rows[t].family
           /\ d.parent = rows[t].parent /\ d.revokedAt # None
<1>1. rows[t] \in Row /\ now # None
  BY NoneAssumption DEF TypeOK, IsTable
<1> QED
  BY <1>1 DEF Row

(* The entities a request holds after a step: those it held, or the rows it *)
(* has just loaded and marked.                                              *)
LEMMA SavingStep ==
    ASSUME TypeOK, [Next]_vars, NEW t, NEW q \in Saving(t)'
    PROVE  \/ q \in Saving(t) /\ ents'[q] = ents[q]
           \/ t \in DOMAIN rows /\ ents'[q][t] = [rows[t] EXCEPT !.revokedAt = now]
<1> DEFINE Held == q \in Saving(t) /\ ents'[q] = ents[q]
           Loaded == t \in DOMAIN rows /\ ents'[q][t] = [rows[t] EXCEPT !.revokedAt = now]
<1>0. q \in Requests /\ pc'[q] = "revoke" /\ t \in DOMAIN ents'[q]
  BY DEF Saving
<1>1. ASSUME UNCHANGED <<pc, ents>> PROVE Held
  BY <1>0, <1>1 DEF Saving
<1>2. ASSUME NEW r \in Requests, NEW j, NEW S \in SUBSET DOMAIN rows,
             Start(r, "revoke", j, Marked(S))
      PROVE  Held \/ Loaded
  <2>1. CASE q = r
    <3>1. ents'[q] = Marked(S)
      BY <1>2, <2>1 DEF Start, TypeOK
    <3>2. t \in S
      BY <1>0, <3>1, MarkedIsTable
    <3> QED
      BY <3>1, <3>2, MarkedIsTable
  <2>2. CASE q # r
    BY <1>0, <1>2, <2>2 DEF Start, TypeOK, Saving
  <2> QED
    BY <2>1, <2>2
<1>3. ASSUME NEW r \in Requests, NEW c, c # "revoke", NEW j, NEW batch, Start(r, c, j, batch)
      PROVE  Held \/ Loaded
  BY <1>0, <1>3 DEF Start, TypeOK, Saving
<1>4. ASSUME NEW r \in Requests, NEW s \in DOMAIN rows,
             RefreshExpired(r, s) \/ RefreshRotate(r, s)
      PROVE  Held \/ Loaded
  BY <1>2, <1>4 DEF RefreshExpired, RefreshRotate
<1>5. ASSUME NEW r \in Requests, NEW u \in Users, NEW s \in DOMAIN rows, Logout(r, u, s)
      PROVE  Held \/ Loaded
  BY <1>2, <1>5 DEF Logout
<1>6. ASSUME NEW r \in Requests, FindFamily(r) PROVE Held \/ Loaded
  BY <1>2, <1>6 DEF FindFamily, FamilyTokens
<1>7. ASSUME NEW r \in Requests, NEW u \in Users, Register(r, u) \/ Login(r, u)
      PROVE  Held \/ Loaded
  BY <1>3, <1>7 DEF Register, Login
<1>8. ASSUME NEW r \in Requests, NEW s \in DOMAIN rows, RefreshReplay(r, s)
      PROVE  Held \/ Loaded
  BY <1>3, <1>8 DEF RefreshReplay
<1>9. ASSUME NEW r \in Requests, Continue(r) \/ Abort(r) PROVE Held \/ Loaded
  BY <1>3, <1>6, <1>9 DEF Continue, Abort, SaveRevoked, StoreToken, WithinLimit, OverLimit,
     EvictOverflow, Finish
<1> HIDE DEF Held, Loaded
<1>10. Held \/ Loaded
  BY <1>1, <1>4, <1>5, <1>7, <1>8, <1>9 DEF Next, Begin, LogoutAll, RemoveUser,
     RemoveExpiredRefreshTokens, Block, Unblock, Tick, vars
<1> QED
  BY <1>10 DEF Held, Loaded

(* A row after a step that inserts no token: a copy there was, except that  *)
(* a deletion may have cut it from the row it was rotated from.             *)
LEMMA RowDescends ==
    ASSUME TypeOK, [Next]_vars, \A r \in Requests : ~StoreToken(r), NEW t \in DOMAIN rows'
    PROVE  \E c \in Copies(t) : rows'[t] \in {c, [c EXCEPT !.parent = None]}
<1>1. CASE UNCHANGED rows
  BY <1>1 DEF Copies
<1>2. ASSUME NEW S, rows' = Without(S)
      PROVE  \E c \in Copies(t) : rows'[t] \in {c, [c EXCEPT !.parent = None]}
  <2>1. t \in DOMAIN rows /\ rows'[t] \in {rows[t], [rows[t] EXCEPT !.parent = None]}
    BY <1>2 DEF Without
  <2> QED
    BY <2>1 DEF Copies
<1>3. ASSUME NEW r \in Requests, SaveRevoked(r)
      PROVE  \E c \in Copies(t) : rows'[t] = c
  <2>1. /\ rows' = Written(ents[r]) /\ pc[r] = "revoke"
        /\ t \in DOMAIN rows \cup DOMAIN ents[r]
    BY <1>3, WrittenIsTable DEF SaveRevoked, TypeOK, LocalsOK
  <2>2. CASE t \in DOMAIN ents[r]
    BY <2>1, <2>2 DEF Written, Copies, Saving
  <2>3. CASE t \notin DOMAIN ents[r]
    BY <2>1, <2>3 DEF Written, Copies
  <2> QED
    BY <2>2, <2>3
<1> QED
  BY <1>1, <1>2, <1>3, RowsStep

(* Every copy after such a step descends from a copy before it, of the same *)
(* session; it keeps its parent or loses it, and it stays revoked.          *)
LEMMA CopyDescends ==
    ASSUME TypeOK, [Next]_vars, \A r \in Requests : ~StoreToken(r),
           NEW t, NEW d \in Copies(t)'
    PROVE  \E c \in Copies(t) :
              /\ d.user = c.user /\ d.family = c.family
              /\ d.parent \in {c.parent, None}
              /\ c.revokedAt # None => d.revokedAt # None
<1>1. CASE t \in DOMAIN rows' /\ d = rows'[t]
  <2>1. PICK c \in Copies(t) : d \in {c, [c EXCEPT !.parent = None]}
    BY <1>1, RowDescends
  <2>2. c \in Row
    BY CopyTyped
  <2> QED
    BY <2>1, <2>2 DEF Row
<1>2. ASSUME NEW q \in Saving(t)', d = ents'[q][t]
      PROVE  \E c \in Copies(t) :
                /\ d.user = c.user /\ d.family = c.family
                /\ d.parent \in {c.parent, None}
                /\ c.revokedAt # None => d.revokedAt # None
  <2>1. CASE q \in Saving(t) /\ ents'[q] = ents[q]
    BY <1>2, <2>1 DEF Copies
  <2>2. CASE t \in DOMAIN rows /\ d = [rows[t] EXCEPT !.revokedAt = now]
    <3>1. rows[t] \in Copies(t)
      BY <2>2 DEF Copies
    <3> QED
      BY <2>2, <3>1, MarkedRow
  <2> QED
    BY <1>2, <2>1, <2>2, SavingStep
<1>3. d \in {rows'[s] : s \in DOMAIN rows' \cap {t}} \cup {ents'[q][t] : q \in Saving(t)'}
  BY DEF Copies
<1> QED
  BY <1>1, <1>2, <1>3

(* An insertion adds the new row, and nothing holds a copy of it yet.       *)
LEMMA CopiesOfInsertion ==
    ASSUME TypeOK, NEW r \in Requests, StoreToken(r), NEW t
    PROVE  Copies(t)' = IF t = issued + 1 THEN {NewRow(r)} ELSE Copies(t)
<1>1. issued \in Nat /\ DOMAIN rows \subseteq 1 .. issued
  BY DEF TypeOK
<1>2. \A q \in Requests : DOMAIN ents[q] \subseteq 1 .. issued
  BY DEF TypeOK, LocalsOK
<1>3. \A q \in Saving(t) : ents'[q] = ents[q]
  BY DEF StoreToken, Start, Saving, TypeOK
<1>4. Saving(t)' = Saving(t)
  BY DEF StoreToken, Start, Saving, TypeOK
<1>5. CASE t = issued + 1
  <2>1. t \notin 1 .. issued
    BY <1>1, <1>5
  <2>2. Saving(t) = {}
    BY <1>2, <2>1 DEF Saving
  <2>3. t \in DOMAIN rows' /\ rows'[t] = NewRow(r)
    BY <1>5 DEF StoreToken
  <2> QED
    BY <1>4, <1>5, <2>2, <2>3 DEF Copies
<1>6. CASE t # issued + 1
  <2>1. DOMAIN rows' \cap {t} = DOMAIN rows \cap {t}
    BY <1>6 DEF StoreToken
  <2>2. \A s \in DOMAIN rows \cap {t} : rows'[s] = rows[s]
    BY <1>6 DEF StoreToken
  <2> QED
    BY <1>3, <1>4, <1>6, <2>1, <2>2 DEF Copies
<1> QED
  BY <1>5, <1>6

(* How a request comes to rotate a token, and to have revoked it.           *)
LEMMA RotationStep ==
    ASSUME TypeOK, ReplaysIssueNothing, [Next]_vars, NEW q \in Requests,
           pc'[q] \in {"revoke", "store"}, job'[q].parent # None
    PROVE  \/ pc'[q] = pc[q] /\ job'[q] = job[q] /\ ents'[q] = ents[q]
           \/ \E t \in DOMAIN rows : RefreshRotate(q, t)
           \/ SaveRevoked(q) /\ pc'[q] = "store" /\ job'[q] = job[q]
<1> DEFINE Kept == pc'[q] = pc[q] /\ job'[q] = job[q] /\ ents'[q] = ents[q]
           Loads == \E t \in DOMAIN rows : RefreshRotate(q, t)
           Saves == SaveRevoked(q) /\ pc'[q] = "store" /\ job'[q] = job[q]
<1>1. ASSUME UNCHANGED <<pc, job, ents>> PROVE Kept
  BY <1>1
<1>2. ASSUME NEW r \in Requests, NEW c, NEW j, NEW batch, Start(r, c, j, batch),
             c \notin {"revoke", "store"} \/ j.parent = None
      PROVE  Kept
  BY <1>2 DEF Start, TypeOK
<1>3. ASSUME NEW r \in Requests, NEW t \in DOMAIN rows, RefreshRotate(r, t)
      PROVE  Kept \/ Loads
  BY <1>3 DEF RefreshRotate, Start, TypeOK
<1>4. ASSUME NEW r \in Requests, SaveRevoked(r) PROVE Kept \/ Saves
  <2>1. CASE q # r
    BY <1>4, <2>1 DEF SaveRevoked, Finish, Start, TypeOK
  <2>2. CASE q = r
    <3>1. CASE job[r].parent = None
      BY <1>2, <1>4, <3>1, NoJobIsJob DEF SaveRevoked, Finish
    <3>2. CASE job[r].parent # None
      BY <1>4, <2>2, <3>2 DEF SaveRevoked, Start, TypeOK
    <3> QED
      BY <3>1, <3>2
  <2> QED
    BY <2>1, <2>2
<1>5. ASSUME NEW r \in Requests, FindFamily(r) PROVE Kept
  BY <1>2, <1>5 DEF FindFamily, ReplaysIssueNothing
<1>6. ASSUME NEW r \in Requests, StoreToken(r) \/ WithinLimit(r) \/ OverLimit(r)
                                 \/ EvictOverflow(r) \/ Abort(r)
      PROVE  Kept
  BY <1>2, <1>6 DEF StoreToken, WithinLimit, OverLimit, EvictOverflow, Abort, Finish
<1>7. ASSUME NEW r \in Requests, NEW u \in Users, Register(r, u) \/ Login(r, u)
      PROVE  Kept
  <2>1. Issuing(u, None, None).parent = None
    BY DEF Issuing
  <2> QED
    BY <1>2, <1>7, <2>1 DEF Register, Login
<1>8. ASSUME NEW r \in Requests, NEW t \in DOMAIN rows,
             RefreshReplay(r, t) \/ RefreshExpired(r, t)
      PROVE  Kept
  BY <1>2, <1>8, NoJobIsJob DEF RefreshReplay, RefreshExpired
<1>9. ASSUME NEW r \in Requests, NEW u \in Users, NEW t \in DOMAIN rows, Logout(r, u, t)
      PROVE  Kept
  BY <1>2, <1>9, NoJobIsJob DEF Logout
<1> HIDE DEF Kept, Loads, Saves
<1>10. Kept \/ Loads \/ Saves
  BY <1>1, <1>3, <1>4, <1>5, <1>6, <1>7, <1>8, <1>9 DEF Next, Begin, Continue, LogoutAll,
     RemoveUser, RemoveExpiredRefreshTokens, Block, Unblock, Tick, vars
<1> QED
  BY <1>10 DEF Kept, Loads, Saves

LEMMA NextCopiesAgree == TypeOK /\ CopiesAgree /\ [Next]_vars => CopiesAgree'
<1> SUFFICES ASSUME TypeOK, CopiesAgree, [Next]_vars, NEW t \in TokenId,
                    NEW c \in Copies(t)', NEW d \in Copies(t)'
             PROVE  c.user = d.user /\ c.family = d.family
  BY DEF CopiesAgree
<1>1. ASSUME NEW r \in Requests, StoreToken(r)
      PROVE  c.user = d.user /\ c.family = d.family
  BY <1>1, CopiesOfInsertion DEF CopiesAgree
<1>2. CASE \A r \in Requests : ~StoreToken(r)
  BY <1>2, CopyDescends DEF CopiesAgree
<1> QED
  BY <1>1, <1>2

LEMMA NextParentsRevoked ==
    TypeOK /\ ParentsRevoked /\ RotationsHold /\ [Next]_vars => ParentsRevoked'
<1> SUFFICES ASSUME TypeOK, ParentsRevoked, RotationsHold, [Next]_vars, NEW t \in TokenId,
                    NEW c \in Copies(t)', c.parent # None
             PROVE  /\ c.parent < t
                    /\ \A d \in Copies(c.parent)' :
                          /\ d.user = c.user /\ d.family = c.family
                          /\ d.revokedAt # None
  BY DEF ParentsRevoked
<1>0. issued \in Nat /\ t \in Nat
  BY DEF TypeOK, TokenId
<1>1. ASSUME NEW r \in Requests, StoreToken(r)
      PROVE  /\ c.parent < t
             /\ \A d \in Copies(c.parent)' :
                   /\ d.user = c.user /\ d.family = c.family
                   /\ d.revokedAt # None
  <2> DEFINE p == c.parent
  <2>1. CASE t = issued + 1
    <3>1. c = NewRow(r) /\ pc[r] = "store"
      BY <1>1, <2>1, CopiesOfInsertion DEF StoreToken
    <3>2. /\ p = job[r].parent /\ p \in 1 .. issued
          /\ c.user = job[r].user /\ c.family = job[r].family
      BY <3>1 DEF NewRow, TypeOK, LocalsOK
    <3>3. p < t /\ p # issued + 1 /\ p \in TokenId
      BY <1>0, <2>1, <3>2, BoundAssumption DEF TypeOK, TokenId
    <3>4. Copies(p)' = Copies(p)
      BY <1>1, <3>3, CopiesOfInsertion
    <3> QED
      BY <3>1, <3>2, <3>3, <3>4 DEF RotationsHold
  <2>2. CASE t # issued + 1
    <3>1. c \in Copies(t)
      BY <1>1, <2>2, CopiesOfInsertion
    <3>2. c \in Row /\ t \in 1 .. issued
      BY <3>1, CopyTyped
    <3>3. p < t /\ p \in Nat
      BY <3>1, <3>2 DEF ParentsRevoked, Row, TokenId
    <3>4. Copies(p)' = Copies(p)
      <4>1. p # issued + 1
        BY <1>0, <3>2, <3>3
      <4> QED
        BY <1>1, <4>1, CopiesOfInsertion
    <3> QED
      BY <3>1, <3>4 DEF ParentsRevoked
  <2> QED
    BY <2>1, <2>2
<1>2. CASE \A r \in Requests : ~StoreToken(r)
  <2>1. PICK c0 \in Copies(t) : /\ c.user = c0.user /\ c.family = c0.family
                                /\ c.parent = c0.parent
    BY <1>2, CopyDescends
  <2>2. /\ c.parent < t
        /\ \A d \in Copies(c.parent) : /\ d.user = c.user /\ d.family = c.family
                                       /\ d.revokedAt # None
    BY <2>1 DEF ParentsRevoked
  <2> QED
    BY <1>2, <2>2, CopyDescends
<1> QED
  BY <1>1, <1>2

LEMMA NextRotationsHold ==
    ASSUME TypeOK, WritesRevoked, CopiesAgree, RotationsHold, ReplaysIssueNothing, [Next]_vars
    PROVE  RotationsHold'
<1> SUFFICES ASSUME NEW q \in Requests, NEW p \in TokenId,
                    pc'[q] \in {"revoke", "store"}, job'[q].parent = p
             PROVE  /\ pc'[q] = "revoke" => p \in DOMAIN ents'[q]
                    /\ \A d \in Copies(p)' :
                          /\ d.user = job'[q].user /\ d.family = job'[q].family
                          /\ pc'[q] = "store" => d.revokedAt # None
  BY DEF RotationsHold
<1>0. p # None
  BY NoneAssumption DEF TokenId
<1>1. CASE pc'[q] = pc[q] /\ job'[q] = job[q] /\ ents'[q] = ents[q]
  <2>1. /\ pc[q] = "revoke" => p \in DOMAIN ents[q]
        /\ \A d \in Copies(p) : /\ d.user = job[q].user /\ d.family = job[q].family
                                /\ pc[q] = "store" => d.revokedAt # None
    BY <1>1 DEF RotationsHold
  <2>2. ASSUME NEW r \in Requests, StoreToken(r) PROVE Copies(p)' = Copies(p)
    <3>1. p \in 1 .. issued /\ issued \in Nat
      BY <1>0, <1>1 DEF TypeOK, LocalsOK
    <3>2. p # issued + 1
      BY <3>1
    <3> QED
      BY <2>2, <3>2, CopiesOfInsertion
  <2>3. CASE \E r \in Requests : StoreToken(r)
    BY <1>1, <2>1, <2>2, <2>3
  <2>4. CASE \A r \in Requests : ~StoreToken(r)
    BY <1>1, <2>1, <2>4, CopyDescends
  <2> QED
    BY <2>3, <2>4
<1>2. ASSUME NEW t \in DOMAIN rows, RefreshRotate(q, t)
      PROVE  /\ p \in DOMAIN ents'[q] /\ pc'[q] = "revoke"
             /\ \A d \in Copies(p)' : d.user = job'[q].user /\ d.family = job'[q].family
  <2>1. /\ pc'[q] = "revoke" /\ ents'[q] = Marked({t})
        /\ job'[q] = Issuing(rows[t].user, rows[t].family, t)
    BY <1>2 DEF RefreshRotate, Start, TypeOK
  <2>2. /\ p = t /\ job'[q].user = rows[t].user /\ job'[q].family = rows[t].family
    BY <2>1 DEF Issuing
  <2>3. \A r \in Requests : ~StoreToken(r)
    BY <1>2 DEF RefreshRotate, StoreToken, TypeOK
  <2>4. rows[t] \in Copies(t) /\ t \in TokenId
    BY DEF Copies, TypeOK, IsTable
  <2>5. \A d \in Copies(t)' : d.user = rows[t].user /\ d.family = rows[t].family
    BY <2>3, <2>4, CopyDescends DEF CopiesAgree
  <2> QED
    BY <2>1, <2>2, <2>5 DEF Marked
<1>3. CASE SaveRevoked(q) /\ pc'[q] = "store" /\ job'[q] = job[q]
  <2>1. /\ pc[q] = "revoke" /\ rows' = Written(ents[q]) /\ p \in DOMAIN ents[q]
        /\ \A d \in Copies(p) : d.user = job[q].user /\ d.family = job[q].family
    BY <1>3 DEF SaveRevoked, RotationsHold
  <2>2. \A r \in Requests : ~StoreToken(r)
    BY <1>3 DEF SaveRevoked, StoreToken, TypeOK
  <2>3. \A d \in Copies(p)' : d.user = job[q].user /\ d.family = job[q].family
    BY <2>1, <2>2, CopyDescends
  <2>4. \A d \in Copies(p)' : d.revokedAt # None
    <3>1. rows'[p].revokedAt # None
      BY <2>1 DEF Written, WritesRevoked
    <3>2. \A r \in Saving(p)' : ents'[r][p].revokedAt # None
      BY NextWritesRevoked DEF WritesRevoked, Saving
    <3>3. Copies(p)' \subseteq {rows'[p]} \cup {ents'[r][p] : r \in Saving(p)'}
      BY DEF Copies
    <3> QED
      BY <3>1, <3>2, <3>3
  <2> QED
    BY <1>3, <2>3, <2>4
<1> QED
  BY <1>0, <1>1, <1>2, <1>3, RotationStep

LEMMA NextReplaysIssueNothing ==
    TypeOK /\ ReplaysIssueNothing /\ [Next]_vars => ReplaysIssueNothing'
<1> SUFFICES ASSUME TypeOK, ReplaysIssueNothing, [Next]_vars, NEW q \in Requests,
                    pc'[q] = "family"
             PROVE  job'[q].parent = None
  BY DEF ReplaysIssueNothing
<1>1. CASE UNCHANGED <<pc, job>>
  BY <1>1 DEF ReplaysIssueNothing
<1>2. ASSUME NEW r \in Requests, NEW c, NEW j, NEW batch, Start(r, c, j, batch),
             c # "family" \/ j.parent = None
      PROVE  job'[q].parent = None
  BY <1>2 DEF Start, TypeOK, ReplaysIssueNothing
<1>3. ASSUME NEW r \in Requests, NEW t \in DOMAIN rows, RefreshReplay(r, t)
      PROVE  job'[q].parent = None
  <2>1. Replaying(rows[t].family).parent = None
    BY DEF Replaying
  <2> QED
    BY <1>2, <1>3, <2>1 DEF RefreshReplay
<1>4. ASSUME NEW r \in Requests, Continue(r) \/ Abort(r) PROVE job'[q].parent = None
  BY <1>2, <1>4 DEF Continue, Abort, FindFamily, SaveRevoked, StoreToken, WithinLimit,
     OverLimit, EvictOverflow, Finish
<1>5. ASSUME NEW r \in Requests, Begin(r) PROVE job'[q].parent = None
  BY <1>1, <1>2, <1>3, <1>5 DEF Begin, Register, Login, LogoutAll, RemoveUser,
     RefreshExpired, RefreshRotate, Logout, RemoveExpiredRefreshTokens
<1> QED
  BY <1>1, <1>4, <1>5 DEF Next, Block, Unblock, Tick, vars

(* An account that is removed took its rows with it; the others keep theirs *)
(* and no save or insertion writes a row whose account or parent is gone.   *)
LEMMA NextForeignKeys == TypeOK /\ ForeignKeys /\ [Next]_vars => ForeignKeys'
<1> SUFFICES ASSUME TypeOK, ForeignKeys, [Next]_vars, NEW t \in DOMAIN rows'
             PROVE  /\ account'[rows'[t].user] # "removed"
                    /\ rows'[t].parent \in {None} \cup DOMAIN rows'
  BY DEF ForeignKeys
<1>1. ASSUME NEW S, rows' = Without(S), account' = account
      PROVE  /\ account'[rows'[t].user] # "removed"
             /\ rows'[t].parent \in {None} \cup DOMAIN rows'
  <2>1. t \in DOMAIN rows /\ rows[t] \in Row /\ DOMAIN rows' = DOMAIN rows \ S
    BY <1>1, WithoutIsTable DEF TypeOK, IsTable
  <2>2. CASE rows[t].parent \in S
    BY <1>1, <2>1, <2>2 DEF Without, Row, ForeignKeys
  <2>3. CASE rows[t].parent \notin S
    BY <1>1, <2>1, <2>3 DEF Without, ForeignKeys
  <2> QED
    BY <2>2, <2>3
<1>2. ASSUME NEW r \in Requests, NEW u \in Users, RemoveUser(r, u)
      PROVE  /\ account'[rows'[t].user] # "removed"
             /\ rows'[t].parent \in {None} \cup DOMAIN rows'
  <2>1. /\ t \in DOMAIN rows \ Tokens(u) /\ rows[t] \in Row
        /\ DOMAIN rows' = DOMAIN rows \ Tokens(u)
    <3>1. rows' = Without(Tokens(u))
      BY <1>2 DEF RemoveUser
    <3>2. DOMAIN rows' = DOMAIN rows \ Tokens(u)
      BY <3>1, WithoutIsTable
    <3> QED
      BY <3>2 DEF TypeOK, IsTable
  <2>2. rows[t].user # u /\ account'[rows[t].user] # "removed"
    BY <1>2, <2>1 DEF RemoveUser, Tokens, ForeignKeys, TypeOK
  <2>3. CASE rows[t].parent \in Tokens(u)
    BY <1>2, <2>1, <2>2, <2>3 DEF RemoveUser, Without, Row
  <2>4. CASE rows[t].parent \notin Tokens(u)
    BY <1>2, <2>1, <2>2, <2>4 DEF RemoveUser, Without, ForeignKeys
  <2> QED
    BY <2>3, <2>4
<1>3. ASSUME NEW r \in Requests, SaveRevoked(r)
      PROVE  /\ account'[rows'[t].user] # "removed"
             /\ rows'[t].parent \in {None} \cup DOMAIN rows'
  <2>1. /\ rows' = Written(ents[r]) /\ account' = account
        /\ DOMAIN rows' = DOMAIN rows \cup DOMAIN ents[r]
        /\ \A s \in DOMAIN ents[r] : KeysHold(ents[r][s], DOMAIN rows')
    BY <1>3, WrittenIsTable DEF SaveRevoked, TypeOK, LocalsOK
  <2>2. CASE t \in DOMAIN ents[r]
    BY <2>1, <2>2 DEF Written, KeysHold
  <2>3. CASE t \notin DOMAIN ents[r]
    BY <2>1, <2>3 DEF Written, ForeignKeys
  <2> QED
    BY <2>2, <2>3
<1>4. ASSUME NEW r \in Requests, StoreToken(r)
      PROVE  /\ account'[rows'[t].user] # "removed"
             /\ rows'[t].parent \in {None} \cup DOMAIN rows'
  BY <1>4 DEF StoreToken, KeysHold, ForeignKeys
<1>5. ASSUME UNCHANGED rows,
             \A u \in Users : account'[u] = "removed" => account[u] = "removed"
      PROVE  /\ account'[rows'[t].user] # "removed"
             /\ rows'[t].parent \in {None} \cup DOMAIN rows'
  BY <1>5 DEF ForeignKeys, TypeOK, IsTable, Row
<1>6. ASSUME NEW u \in Users, Block(u) \/ Unblock(u)
      PROVE  /\ UNCHANGED rows
             /\ \A v \in Users : account'[v] = "removed" => account[v] = "removed"
  BY <1>6 DEF Block, Unblock, TypeOK
<1>7. ASSUME NEW r \in Requests, NEW u \in Users, Register(r, u) \/ Login(r, u)
      PROVE  /\ UNCHANGED rows
             /\ \A v \in Users : account'[v] = "removed" => account[v] = "removed"
  BY <1>7 DEF Register, Login, TypeOK
<1>8. ASSUME NEW r \in Requests, Continue(r) \/ Abort(r)
      PROVE  \/ SaveRevoked(r) \/ StoreToken(r)
             \/ UNCHANGED <<rows, account>>
             \/ account' = account /\ \E S : rows' = Without(S)
  BY <1>8 DEF Continue, Abort, FindFamily, WithinLimit, OverLimit, EvictOverflow
<1>9. ASSUME NEW r \in Requests, Begin(r)
      PROVE  \/ \E u \in Users : Register(r, u) \/ Login(r, u) \/ RemoveUser(r, u)
             \/ UNCHANGED <<rows, account>>
             \/ account' = account /\ \E S : rows' = Without(S)
  BY <1>9 DEF Begin, LogoutAll, RefreshReplay, RefreshExpired, RefreshRotate, Logout,
     RemoveExpiredRefreshTokens
<1>10. \/ \E r \in Requests : Begin(r) \/ Continue(r) \/ Abort(r)
       \/ \E u \in Users : Block(u) \/ Unblock(u)
       \/ UNCHANGED <<rows, account>>
  BY DEF Next, Tick, vars
<1> QED
  BY <1>1, <1>2, <1>3, <1>4, <1>5, <1>6, <1>7, <1>8, <1>9, <1>10

LEMMA NextChainInv == TypeOK /\ WritesRevoked /\ ChainInv /\ [Next]_vars => ChainInv'
BY NextCopiesAgree, NextParentsRevoked, NextRotationsHold, NextReplaysIssueNothing,
   NextForeignKeys DEF ChainInv

(* A kept row is a copy, so the chain follows.                              *)
LEMMA ChainFollows == TypeOK /\ ChainInv => RotationChain
<1> SUFFICES ASSUME TypeOK, ChainInv, NEW t \in DOMAIN rows
             PROVE  /\ account[rows[t].user] # "removed"
                    /\ rows[t].parent # None =>
                          LET p == rows[t].parent
                          IN /\ p \in DOMAIN rows /\ p < t
                             /\ rows[p].family = rows[t].family
                             /\ rows[p].user = rows[t].user
                             /\ rows[p].revokedAt # None
  BY DEF RotationChain
<1>1. t \in TokenId /\ \A s \in DOMAIN rows : rows[s] \in Copies(s)
  BY DEF TypeOK, IsTable, Copies
<1>2. /\ account[rows[t].user] # "removed"
      /\ rows[t].parent # None => rows[t].parent \in DOMAIN rows
  BY DEF ChainInv, ForeignKeys
<1> QED
  BY <1>1, <1>2 DEF ChainInv, ParentsRevoked

(* Rotation leaves a chain of revoked tokens of one session, however the    *)
(* calls of any number of requests interleave.                              *)
THEOREM RotationsFormAChain == Spec => []RotationChain
BY InitTypeOK, NextTypeOK, InitWritesRevoked, NextWritesRevoked, InitChainInv,
   NextChainInv, ChainFollows, PTL DEF Spec

=============================================================================

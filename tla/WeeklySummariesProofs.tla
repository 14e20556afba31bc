------------------------ MODULE WeeklySummariesProofs ------------------------
(***************************************************************************)
(* Proofs about WeeklySummaries, for any requests, any length of the week  *)
(* and any bounds: the type invariant and the four properties.             *)
(***************************************************************************)
EXTENDS WeeklySummaries, TLAPS

(* A sequence over a set is one over every larger set.                      *)
LEMMA SeqGrows ==
    ASSUME NEW S, NEW T, S \subseteq T, NEW s \in Seq(S)
    PROVE  s \in Seq(T)
OBVIOUS

SummaryRow(n, k) == [created : 1 .. n, content : SUBSET (1 .. k)]

(* Rows of the past are rows of the present.                                *)
LEMMA RowsGrow ==
    ASSUME NEW n \in Nat, NEW m \in Nat, n <= m, NEW k \in Nat, NEW l \in Nat, k <= l,
           NEW s \in Seq(SummaryRow(n, k))
    PROVE  s \in Seq(SummaryRow(m, l))
<1>1. SummaryRow(n, k) \subseteq SummaryRow(m, l)
  BY DEF SummaryRow
<1> QED
  BY <1>1, SeqGrows

----------------------------------------------------------------------------
\* the part of TypeOK about the rows, the queue and the clock ...
RowsOK ==
    /\ now \in Nat \ {0}
    /\ logs \in Seq(1 .. now) /\ Len(logs) <= MaxLogs
    /\ summaries \in Seq(SummaryRow(now, Len(logs)))
    /\ Len(summaries) <= MaxSummaries
    /\ stamp \in 0 .. now
    /\ removed \in BOOLEAN
    /\ issued \in 0 .. MaxJobs /\ queue \subseteq 1 .. issued
    /\ sealed \in [1 .. MaxSummaries -> 0 .. issued]
    /\ kept \in BOOLEAN
    /\ removed => logs = <<>> /\ summaries = <<>> /\ stamp = 0

\* ... and the part about the requests
RequestsOK ==
    /\ alone \in BOOLEAN
    /\ pc \in [Requests -> Call]
    /\ job \in [Requests -> (1 .. issued) \cup {None}]
    /\ target \in [Requests -> (1 .. MaxSummaries) \cup {None}]
    /\ found \in [Requests -> SUBSET (1 .. MaxLogs)]
    /\ held \in [Requests -> 0 .. now]
    /\ \A r \in Requests :
          /\ ~removed => /\ target[r] \in (1 .. Len(summaries)) \cup {None}
                         /\ found[r] \subseteq 1 .. Len(logs)
          /\ pc[r] \in {"stamp", "finish"} => job[r] # None

LEMMA TypeParts == TypeOK <=> RowsOK /\ RequestsOK
BY DEF TypeOK, RowsOK, RequestsOK, SummaryRow

(* What the types say of the rows one by one.                               *)
LEMMA RowFacts ==
    ASSUME RowsOK
    PROVE  /\ Len(logs) \in Nat /\ Len(summaries) \in Nat
           /\ Len(logs) <= MaxLogs /\ Len(summaries) <= MaxSummaries
           /\ \A e \in 1 .. Len(logs) : logs[e] \in 1 .. now
           /\ \A i \in 1 .. Len(summaries) :
                 /\ summaries[i] \in SummaryRow(now, Len(logs))
                 /\ summaries[i].created \in 1 .. now
                 /\ summaries[i].content \subseteq 1 .. Len(logs)
           /\ summaries = <<>> <=> Len(summaries) = 0
           /\ now \in Nat /\ stamp \in Nat /\ issued \in Nat
<1>1. now \in Nat /\ stamp \in Nat /\ issued \in Nat
  BY DEF RowsOK
<1>2. /\ Len(logs) \in Nat /\ Len(logs) <= MaxLogs
      /\ \A e \in 1 .. Len(logs) : logs[e] \in 1 .. now
  BY DEF RowsOK
<1>3. /\ Len(summaries) \in Nat /\ Len(summaries) <= MaxSummaries
      /\ \A i \in 1 .. Len(summaries) : summaries[i] \in SummaryRow(now, Len(logs))
  BY DEF RowsOK
<1>4. summaries = <<>> <=> Len(summaries) = 0
  BY DEF RowsOK
<1>5. \A i \in 1 .. Len(summaries) :
         /\ summaries[i].created \in 1 .. now
         /\ summaries[i].content \subseteq 1 .. Len(logs)
  BY <1>3 DEF SummaryRow
<1> QED
  BY <1>1, <1>2, <1>3, <1>4, <1>5

(* A step of a request to its next call keeps the types of the requests     *)
(* when the clock, the jobs and the rows a request refers to stay.          *)
LEMMA GotoTypes ==
    ASSUME RowsOK, RequestsOK, NEW r \in Requests, NEW call \in Call,
           NEW j \in (1 .. issued) \cup {None},
           NEW t \in (1 .. MaxSummaries) \cup {None},
           NEW L \in SUBSET (1 .. MaxLogs), NEW h \in 0 .. now,
           Goto(r, call, j, t, L, h), alone' \in BOOLEAN,
           now' = now, issued' = issued, removed' = removed, logs' = logs,
           Len(summaries') \in Nat, Len(summaries') >= Len(summaries),
           ~removed => t \in (1 .. Len(summaries')) \cup {None},
           ~removed => L \subseteq 1 .. Len(logs),
           call \in {"stamp", "finish"} => j # None
    PROVE  RequestsOK'
<1> USE DEF RequestsOK, Goto
<1>1. pc' \in [Requests -> Call]
  OBVIOUS
<1>2. job' \in [Requests -> (1 .. issued) \cup {None}]
  OBVIOUS
<1>3. target' \in [Requests -> (1 .. MaxSummaries) \cup {None}]
  OBVIOUS
<1>4. found' \in [Requests -> SUBSET (1 .. MaxLogs)]
  OBVIOUS
<1>5. held' \in [Requests -> 0 .. now]
  OBVIOUS
<1>6. ASSUME NEW s \in Requests, ~removed
      PROVE  /\ target'[s] \in (1 .. Len(summaries')) \cup {None}
             /\ found'[s] \subseteq 1 .. Len(logs)
  <2>1. CASE s = r
    BY <1>6, <2>1
  <2>2. CASE s # r
    <3>1. target'[s] = target[s] /\ found'[s] = found[s]
      BY <2>2
    <3>2. target[s] \in (1 .. Len(summaries)) \cup {None} /\ found[s] \subseteq 1 .. Len(logs)
      BY <1>6
    <3>3. 1 .. Len(summaries) \subseteq 1 .. Len(summaries')
      BY RowFacts
    <3> QED
      BY <3>1, <3>2, <3>3
  <2> QED
    BY <2>1, <2>2
<1>7. ASSUME NEW s \in Requests, pc'[s] \in {"stamp", "finish"}
      PROVE  job'[s] # None
  BY <1>7
<1> QED
  BY <1>1, <1>2, <1>3, <1>4, <1>5, <1>6, <1>7

(* CurrentSummary is the latest summary or none.                            *)
LEMMA CurrentIsLatest ==
    ASSUME RowsOK
    PROVE  /\ CurrentSummary \in (1 .. Len(summaries)) \cup {None}
           /\ CurrentSummary \in (1 .. MaxSummaries) \cup {None}
           /\ CurrentSummary = None =>
                 summaries = <<>> \/ summaries[Len(summaries)].created + Week <= now
           /\ CurrentSummary # None =>
                 /\ CurrentSummary = Len(summaries)
                 /\ ~(summaries[CurrentSummary].created + Week <= now)
<1>1. Len(summaries) \in Nat /\ Len(summaries) # None
  BY RowFacts, NoneAssumption
<1> QED
  BY <1>1, RowFacts, BoundAssumption DEF CurrentSummary

(* A step of the clock, of the rows or of the queue that leaves the         *)
(* requests alone keeps their types.                                        *)
LEMMA IdleTypes ==
    ASSUME RowsOK, RequestsOK, UNCHANGED <<locals, alone>>,
           now' \in Nat, now <= now', issued' \in Nat, issued <= issued',
           \/ removed'
           \/ /\ removed' = removed
              /\ Len(summaries') \in Nat /\ Len(summaries) <= Len(summaries')
              /\ Len(logs') \in Nat /\ Len(logs) <= Len(logs')
    PROVE  RequestsOK'
<1> USE RowFacts DEF RequestsOK, locals
<1>1. 1 .. issued \subseteq 1 .. issued' /\ 0 .. now \subseteq 0 .. now'
  OBVIOUS
<1>2. job' \in [Requests -> (1 .. issued') \cup {None}] /\ held' \in [Requests -> 0 .. now']
  BY <1>1
<1>3. ASSUME NEW s \in Requests, ~removed'
      PROVE  /\ target'[s] \in (1 .. Len(summaries')) \cup {None}
             /\ found'[s] \subseteq 1 .. Len(logs')
  <2>1. target[s] \in (1 .. Len(summaries)) \cup {None} /\ found[s] \subseteq 1 .. Len(logs)
    BY <1>3
  <2>2. 1 .. Len(summaries) \subseteq 1 .. Len(summaries') /\ 1 .. Len(logs) \subseteq 1 .. Len(logs')
    BY <1>3
  <2> QED
    BY <2>1, <2>2
<1> QED
  BY <1>2, <1>3

----------------------------------------------------------------------------
(* Every reachable state satisfies TypeOK.                                  *)
THEOREM TypeCorrect == Spec => []TypeOK
<1> USE NoneAssumption, BoundAssumption
<1>1. Init => RowsOK /\ RequestsOK
  <2> SUFFICES ASSUME Init PROVE RowsOK /\ RequestsOK
    OBVIOUS
  <2>1. logs = <<>> /\ summaries = <<>> /\ removed = FALSE /\ kept = TRUE /\ alone = TRUE
    BY DEF Init
  <2>2. RowsOK
    <3>1. logs \in Seq(1 .. now) /\ summaries \in Seq(SummaryRow(now, Len(logs)))
      BY <2>1
    <3>2. Len(logs) = 0 /\ Len(summaries) = 0
      BY <2>1
    <3>3. now \in Nat \ {0} /\ stamp \in 0 .. now /\ issued \in 0 .. MaxJobs /\ queue \subseteq 1 .. issued
      BY DEF Init
    <3>4. sealed \in [1 .. MaxSummaries -> 0 .. issued]
      BY DEF Init
    <3>5. Len(logs) <= MaxLogs /\ Len(summaries) <= MaxSummaries
      BY <3>2
    <3> QED
      BY <2>1, <3>1, <3>3, <3>4, <3>5 DEF Init, RowsOK
  <2>3. \A r \in Requests : pc[r] = "idle" /\ target[r] = None /\ found[r] = {}
    BY DEF Init
  <2>4. RequestsOK
    BY <2>1, <2>3 DEF Init, RequestsOK, Call
  <2> QED
    BY <2>2, <2>4
<1>2. RowsOK /\ RequestsOK /\ [Next]_vars => RowsOK' /\ RequestsOK'
  <2> SUFFICES ASSUME RowsOK, RequestsOK, [Next]_vars PROVE RowsOK' /\ RequestsOK'
    OBVIOUS
  <2>a. ASSUME rows' = rows, now' = now, issued' = issued, queue' \subseteq queue
        PROVE  RowsOK'
    BY <2>a DEF RowsOK, rows, SummaryRow
  <2>b. ASSUME NEW r \in Requests, Finish(r), now' = now, issued' = issued,
               UNCHANGED <<removed, logs>>, Len(summaries') \in Nat,
               Len(summaries') >= Len(summaries)
        PROVE  RequestsOK'
    <3>1. alone' \in BOOLEAN /\ 0 \in 0 .. now /\ "idle" \in Call
      BY <2>b, RowFacts DEF Finish, RequestsOK, Call
    <3> QED
      BY <2>b, <3>1, GotoTypes DEF Finish
  <2>c. ASSUME NEW r \in Requests, NEW call \in Call, NEW t \in (1 .. MaxSummaries) \cup {None},
               NEW L \in SUBSET (1 .. MaxLogs), Step(r, call, t, L),
               now' = now, issued' = issued, UNCHANGED <<removed, logs>>,
               Len(summaries') \in Nat, Len(summaries') >= Len(summaries),
               ~removed => t \in (1 .. Len(summaries')) \cup {None},
               ~removed => L \subseteq 1 .. Len(logs),
               call \in {"stamp", "finish"} => job[r] # None
        PROVE  RequestsOK'
    <3>1. job[r] \in (1 .. issued) \cup {None} /\ held[r] \in 0 .. now /\ alone' \in BOOLEAN
      BY <2>c DEF RequestsOK, Step
    <3> QED
      BY <2>c, <3>1, GotoTypes DEF Step
  <2>d. ASSUME NEW r \in Requests, NEW t \in (1 .. MaxSummaries) \cup {None},
               AfterSummary(r, t), now' = now, issued' = issued, UNCHANGED <<removed, logs>>,
               Len(summaries') \in Nat, Len(summaries') >= Len(summaries),
               ~removed => t \in (1 .. Len(summaries')) \cup {None}
        PROVE  RequestsOK'
    <3>1. CASE job[r] = None
      BY <2>b, <2>d, <3>1 DEF AfterSummary
    <3>2. CASE job[r] # None
      BY <2>c, <2>d, <3>2 DEF AfterSummary, Call
    <3> QED
      BY <3>1, <3>2
  <2>e. ASSUME NEW r \in Requests, NEW call \in {"logs", "user"},
               NEW j \in (1 .. issued) \cup {None}, NEW t \in (1 .. Len(summaries)) \cup {None},
               NEW h \in 0 .. now, Begin(r, call, j, t, h), UNCHANGED <<now, rows, issued>>
        PROVE  RequestsOK'
    <3>1. alone' \in BOOLEAN /\ call \in Call
      BY <2>e DEF Begin, RequestsOK, Call
    <3>2. t \in (1 .. MaxSummaries) \cup {None}
      BY RowFacts
    <3>3. /\ Goto(r, call, j, t, {}, h) /\ {} \in SUBSET (1 .. MaxLogs)
          /\ UNCHANGED <<removed, logs, summaries, now, issued>>
      BY <2>e DEF Begin, rows
    <3>4. Len(summaries') \in Nat /\ Len(summaries') >= Len(summaries)
      BY <3>3, RowFacts
    <3>5. /\ ~removed => t \in (1 .. Len(summaries')) \cup {None}
          /\ ~removed => {} \subseteq 1 .. Len(logs)
          /\ call \in {"stamp", "finish"} => j # None
      BY <3>3
    <3> QED
      BY <3>1, <3>2, <3>3, <3>4, <3>5, GotoTypes
  <2>2. ASSUME NEW r \in Requests, Trigger(r) PROVE RowsOK' /\ RequestsOK'
    <3>1. /\ Begin(r, "logs", None, CurrentSummary, 0) /\ UNCHANGED <<now, rows, issued>>
          /\ queue' \subseteq queue
      BY <2>2 DEF Trigger
    <3>2. 0 \in 0 .. now /\ CurrentSummary \in (1 .. Len(summaries)) \cup {None}
      BY CurrentIsLatest, RowFacts
    <3> QED
      BY <3>1, <3>2, <2>a, <2>e
  <2>3. ASSUME NEW r \in Requests, NEW j \in queue, Deliver(r, j) PROVE RowsOK' /\ RequestsOK'
    <3>1. j \in (1 .. issued) \cup {None}
      BY DEF RowsOK
    <3> QED
      <4>1. /\ Begin(r, "logs", j, CurrentSummary, 0) /\ UNCHANGED <<now, rows, issued>>
            /\ queue' \subseteq queue
        BY <2>3 DEF Deliver
      <4>2. 0 \in 0 .. now /\ CurrentSummary \in (1 .. Len(summaries)) \cup {None}
        BY CurrentIsLatest, RowFacts
      <4> QED
        BY <3>1, <4>1, <4>2, <2>a, <2>e
  <2>4. ASSUME NEW r \in Requests, FindLogs(r) PROVE RowsOK' /\ RequestsOK'
    <3>1. RowsOK' /\ UNCHANGED <<removed, logs, summaries>> /\ now' = now /\ issued' = issued
      BY <2>4, <2>a DEF FindLogs, rows
    <3>2. CASE RecentLogs = {}
      <4>1. AfterSummary(r, None)
        BY <2>4, <3>2 DEF FindLogs
      <4>2. /\ Len(summaries') \in Nat /\ Len(summaries') >= Len(summaries)
            /\ None \in (1 .. MaxSummaries) \cup {None}
            /\ None \in (1 .. Len(summaries')) \cup {None}
        BY <3>1, RowFacts
      <4> QED
        BY <2>d, <3>1, <4>1, <4>2
    <3>3. CASE RecentLogs # {}
      <4>1. RecentLogs \subseteq 1 .. Len(logs) /\ RecentLogs \in SUBSET (1 .. MaxLogs)
        BY RowFacts DEF RecentLogs
      <4>2. /\ target[r] \in (1 .. MaxSummaries) \cup {None}
            /\ ~removed => target[r] \in (1 .. Len(summaries)) \cup {None}
        BY DEF RequestsOK
      <4>3. Step(r, "save", target[r], RecentLogs)
        BY <2>4, <3>3 DEF FindLogs
      <4>4. "save" \in Call /\ "save" \notin {"stamp", "finish"}
        BY DEF Call
      <4>5. /\ Len(summaries') \in Nat /\ Len(summaries') >= Len(summaries)
            /\ ~removed => target[r] \in (1 .. Len(summaries')) \cup {None}
        BY <3>1, <4>2, RowFacts
      <4>6. RequestsOK'
        BY <2>c, <3>1, <4>1, <4>2, <4>3, <4>4, <4>5
      <4> QED
        BY <3>1, <4>6
    <3> QED
      BY <3>1, <3>2, <3>3
  <2>5. ASSUME NEW r \in Requests, UpdateSummary(r) PROVE RowsOK' /\ RequestsOK'
    <3>1. target[r] \in 1 .. Len(summaries) /\ found[r] \subseteq 1 .. Len(logs)
      BY <2>5 DEF UpdateSummary, RequestsOK
    <3>2. summaries' \in Seq(SummaryRow(now, Len(logs))) /\ Len(summaries') = Len(summaries)
      <4>1. [summaries[target[r]] EXCEPT !.content = found[r]] \in SummaryRow(now, Len(logs))
        BY <3>1, RowFacts DEF SummaryRow
      <4>2. summaries' = [summaries EXCEPT ![target[r]] = [summaries[target[r]] EXCEPT !.content = found[r]]]
        BY <2>5, <3>1 DEF UpdateSummary
      <4> QED
        BY <3>1, <4>1, <4>2 DEF RowsOK
    <3>3. RowsOK'
      BY <2>5, <3>2 DEF UpdateSummary, RowsOK
    <3> QED
      BY <2>5, <2>d, <3>1, <3>2, <3>3, RowFacts DEF UpdateSummary
  <2>6. ASSUME NEW r \in Requests, CreateSummary(r) PROVE RowsOK' /\ RequestsOK'
    <3>1. [created |-> now, content |-> found[r]] \in SummaryRow(now, Len(logs))
      BY <2>6 DEF CreateSummary, RequestsOK, SummaryRow, RowsOK
    <3>2. summaries' \in Seq(SummaryRow(now, Len(logs))) /\ Len(summaries') = Len(summaries) + 1
      BY <2>6, <3>1, RowFacts DEF CreateSummary, RowsOK
    <3>3. RowsOK'
      BY <2>6, <3>2, RowFacts DEF CreateSummary, RowsOK
    <3>4. Len(summaries) + 1 \in 1 .. MaxSummaries /\ Len(summaries) + 1 \in 1 .. Len(summaries')
      BY <2>6, <3>2, RowFacts DEF CreateSummary
    <3> QED
      BY <2>6, <2>d, <3>2, <3>3, <3>4, RowFacts DEF CreateSummary
  <2>7. ASSUME NEW r \in Requests, StampUser(r) PROVE RowsOK' /\ RequestsOK'
    <3>1. /\ stamp' \in 0 .. now /\ (removed => stamp' = 0)
          /\ sealed' \in [1 .. MaxSummaries -> 0 .. issued]
      <4>1. CASE removed
        BY <2>7, <4>1 DEF StampUser, RowsOK
      <4>2. CASE ~removed
        <5>1. stamp' = now /\ Seal(target[r]) /\ target[r] \in (1 .. MaxSummaries) \cup {None}
          BY <2>7, <4>2 DEF StampUser, RequestsOK
        <5>2. sealed \in [1 .. MaxSummaries -> 0 .. issued] /\ issued \in 0 .. issued /\ now \in 0 .. now
          BY RowFacts DEF RowsOK
        <5> QED
          BY <4>2, <5>1, <5>2 DEF Seal
      <4> QED
        BY <4>1, <4>2
    <3>2. /\ UNCHANGED <<now, logs, summaries, removed, kept, issued, queue>>
          /\ Step(r, "finish", None, {})
      BY <2>7 DEF StampUser
    <3>3. RowsOK'
      BY <3>1, <3>2 DEF RowsOK, SummaryRow
    <3>4. "finish" \in Call /\ job[r] # None
      BY <2>7 DEF StampUser, RequestsOK, Call
    <3>5. /\ Len(summaries') \in Nat /\ Len(summaries') >= Len(summaries)
          /\ {} \in SUBSET (1 .. MaxLogs) /\ {} \subseteq 1 .. Len(logs)
          /\ None \in (1 .. MaxSummaries) \cup {None}
          /\ None \in (1 .. Len(summaries')) \cup {None}
      BY <3>2, RowFacts
    <3>6. RequestsOK'
      BY <2>c, <3>2, <3>4, <3>5
    <3> QED
      BY <3>3, <3>6
  <2>8. ASSUME NEW r \in Requests, FinishJob(r) \/ Fail(r) \/ Crash(r) PROVE RowsOK' /\ RequestsOK'
    <3>1. Finish(r) /\ rows' = rows /\ now' = now /\ issued' = issued /\ queue' \subseteq queue
      BY <2>8 DEF FinishJob, Fail, Crash
    <3> QED
      BY <3>1, <2>a, <2>b, RowFacts DEF rows
  <2>9. ASSUME NEW r \in Requests, LoadUser(r) PROVE RowsOK' /\ RequestsOK'
    <3>1. stamp \in 0 .. now
      BY DEF RowsOK
    <3> QED
      BY <2>9, <3>1, <2>a, <2>e DEF LoadUser
  <2>10. ASSUME NEW r \in Requests, SaveUser(r) PROVE RowsOK' /\ RequestsOK'
    <3>1. held[r] \in 0 .. now
      BY DEF RequestsOK
    <3>2. RowsOK'
      BY <2>10, <3>1 DEF SaveUser, RowsOK
    <3> QED
      BY <2>10, <3>2, <2>b, RowFacts DEF SaveUser
  <2>11. CASE SelectDue
    <3>1. RowsOK' /\ issued <= issued' /\ issued' \in Nat
      BY <2>11, RowFacts DEF SelectDue, RowsOK, rows, SummaryRow
    <3> QED
      BY <2>11, <3>1, IdleTypes, RowFacts DEF SelectDue, rows
  <2>12. CASE WriteLog
    <3>1. logs' \in Seq(1 .. now) /\ Len(logs') = Len(logs) + 1
      BY <2>12, RowFacts DEF WriteLog, RowsOK
    <3>2. summaries \in Seq(SummaryRow(now, Len(logs')))
      BY <3>1, RowFacts, RowsGrow DEF RowsOK
    <3>3. RowsOK'
      BY <2>12, <3>1, <3>2, RowFacts DEF WriteLog, RowsOK
    <3> QED
      BY <2>12, <3>1, <3>3, IdleTypes, RowFacts DEF WriteLog
  <2>13. CASE RemoveUser
    <3>1. RowsOK'
      BY <2>13, RowFacts DEF RemoveUser, RowsOK
    <3> QED
      BY <2>13, <3>1, IdleTypes, RowFacts DEF RemoveUser
  <2>14. CASE Tick
    <3>1. now' = now + 1 /\ now' \in Nat \ {0} /\ UNCHANGED <<rows, issued, queue, locals, alone>>
      BY <2>14, RowFacts DEF Tick
    <3>2. logs \in Seq(1 .. now') /\ summaries \in Seq(SummaryRow(now', Len(logs)))
      <4>1. 1 .. now \subseteq 1 .. now'
        BY <3>1, RowFacts
      <4> QED
        BY <3>1, <4>1, RowFacts, RowsGrow, SeqGrows DEF RowsOK
    <3>3. RowsOK'
      BY <3>1, <3>2, RowFacts DEF RowsOK, rows
    <3> QED
      BY <3>1, <3>3, IdleTypes, RowFacts DEF rows
  <2>15. CASE UNCHANGED vars
    BY <2>15 DEF vars, rows, RowsOK, RequestsOK, SummaryRow
  <2> QED
    BY <2>2, <2>3, <2>4, <2>5, <2>6, <2>7, <2>8, <2>9, <2>10, <2>11, <2>12, <2>13,
       <2>14, <2>15 DEF Next
<1> QED
  BY <1>1, <1>2, TypeParts, PTL DEF Spec

----------------------------------------------------------------------------
(* While requests have not overlapped, one is running at most, the user     *)
(* entity it holds has the stamp of the row, and no save took it back.      *)
AloneInv ==
    alone => /\ \A r, s \in Requests : pc[r] # "idle" /\ pc[s] # "idle" => r = s
             /\ \A r \in Requests : pc[r] = "user" /\ ~removed => held[r] = stamp
             /\ kept

(* AloneInv is an invariant.                                                *)
LEMMA AloneInvariant == Spec => []AloneInv
<1>1. Init => AloneInv
  BY DEF Init, AloneInv
<1>2. TypeOK /\ AloneInv /\ [Next]_vars => AloneInv'
  <2> SUFFICES ASSUME TypeOK, AloneInv, [Next]_vars, alone' PROVE AloneInv'
    BY DEF AloneInv
  <2>0. RowsOK /\ RequestsOK
    BY TypeParts
  <2> USE DEF AloneInv, RequestsOK
  <2>a. ASSUME NEW r \in Requests, NEW call, NEW j, NEW t, NEW h, Begin(r, call, j, t, h),
               call = "user" => h = stamp, UNCHANGED <<stamp, removed, kept>>
        PROVE  AloneInv'
    <3>1. alone /\ \A s \in Requests : pc[s] = "idle"
      BY <2>a DEF Begin, Busy
    <3>2. pc' = [pc EXCEPT ![r] = call] /\ held' = [held EXCEPT ![r] = h]
      BY <2>a DEF Begin, Goto
    <3> QED
      BY <2>0, <2>a, <3>1, <3>2
  <2>b. ASSUME NEW r \in Requests, Finish(r), pc[r] # "idle", kept => kept'
        PROVE  AloneInv'
    <3>1. alone /\ pc' = [pc EXCEPT ![r] = "idle"]
      BY <2>b DEF Finish, Goto
    <3>2. \A s \in Requests : pc'[s] = "idle"
      BY <2>0, <2>b, <3>1
    <3> QED
      BY <2>b, <3>1, <3>2
  <2>c. ASSUME NEW r \in Requests, NEW call, NEW t, NEW L, Step(r, call, t, L),
               pc[r] # "idle", call # "user", kept' = kept
        PROVE  AloneInv'
    <3>1. alone /\ pc' = [pc EXCEPT ![r] = call]
      BY <2>c DEF Step, Goto
    <3>2. \A s \in Requests : s # r => pc'[s] = "idle"
      BY <2>0, <2>c, <3>1
    <3>3. pc'[r] # "user"
      BY <2>0, <2>c, <3>1
    <3> QED
      BY <2>c, <3>1, <3>2, <3>3
  <2>d. ASSUME NEW r \in Requests, NEW t, AfterSummary(r, t), pc[r] # "idle", kept' = kept
        PROVE  AloneInv'
    BY <2>b, <2>c, <2>d DEF AfterSummary
  <2>1. ASSUME NEW r \in Requests, Trigger(r) \/ LoadUser(r) \/ \E j \in queue : Deliver(r, j)
        PROVE  AloneInv'
    BY <2>1, <2>a DEF Trigger, LoadUser, Deliver, rows
  <2>2. ASSUME NEW r \in Requests,
               FindLogs(r) \/ UpdateSummary(r) \/ CreateSummary(r) \/ StampUser(r)
        PROVE  AloneInv'
    BY <2>2, <2>c, <2>d DEF FindLogs, UpdateSummary, CreateSummary, StampUser, rows
  <2>3. ASSUME NEW r \in Requests, FinishJob(r) \/ Fail(r) \/ Crash(r) PROVE AloneInv'
    BY <2>3, <2>b DEF FinishJob, Fail, Crash, rows
  <2>4. ASSUME NEW r \in Requests, SaveUser(r) PROVE AloneInv'
    <3>1. alone /\ held[r] = stamp
      BY <2>4 DEF SaveUser, Finish
    <3>2. held[r] >= stamp
      BY <2>0, <3>1, RowFacts
    <3>3. kept => kept'
      BY <2>4, <3>2 DEF SaveUser
    <3> QED
      BY <2>4, <2>b, <3>3 DEF SaveUser
  <2>5. ASSUME UNCHANGED <<pc, held, alone, kept>>, UNCHANGED <<stamp, removed>> \/ removed'
        PROVE  AloneInv'
    BY <2>5
  <2>6. CASE SelectDue \/ WriteLog \/ Tick \/ UNCHANGED vars
    <3>1. UNCHANGED <<pc, held, alone, kept, stamp, removed>>
      BY <2>6 DEF SelectDue, WriteLog, Tick, vars, rows, locals
    <3> QED
      BY <2>5, <3>1
  <2>7. CASE RemoveUser
    BY <2>5, <2>7 DEF RemoveUser, locals
  <2> QED
    BY <2>1, <2>2, <2>3, <2>4, <2>6, <2>7 DEF Next
<1> QED
  BY <1>1, <1>2, TypeCorrect, PTL DEF Spec

----------------------------------------------------------------------------
(* Until a save of a user entity takes the stamp back, it is not before the *)
(* summaries whose jobs have set it, and an index without a row is not      *)
(* sealed.                                                                  *)
StampCovers ==
    /\ kept => \A i \in 1 .. Len(summaries) : sealed[i] > 0 => summaries[i].created <= stamp
    /\ \A i \in 1 .. MaxSummaries : i > Len(summaries) => sealed[i] = 0

(* What the steps of requests and the others do to the summaries.           *)
LEMMA SummarySteps ==
    ASSUME TypeOK, [Next]_vars
    PROVE  \/ summaries' = summaries
           \/ RemoveUser
           \/ \E r \in Requests : UpdateSummary(r) \/ CreateSummary(r)
<1>1. ASSUME NEW r \in Requests,
             \/ Trigger(r) \/ FindLogs(r) \/ StampUser(r) \/ FinishJob(r) \/ Fail(r)
             \/ Crash(r) \/ LoadUser(r) \/ SaveUser(r) \/ \E j \in queue : Deliver(r, j)
      PROVE  summaries' = summaries
  BY <1>1 DEF Trigger, FindLogs, StampUser, FinishJob, Fail, Crash, LoadUser, SaveUser, Deliver, rows
<1>2. CASE SelectDue \/ WriteLog \/ Tick \/ UNCHANGED vars
  BY <1>2 DEF SelectDue, WriteLog, Tick, vars, rows
<1> QED
  BY <1>1, <1>2 DEF Next

(* An update changes the content of the summary it found ...                *)
LEMMA UpdateEffect ==
    ASSUME TypeOK, NEW r \in Requests, UpdateSummary(r)
    PROVE  /\ target[r] \in 1 .. Len(summaries) /\ Len(summaries') = Len(summaries)
           /\ \A i \in 1 .. Len(summaries) :
                 /\ summaries'[i].created = summaries[i].created
                 /\ i # target[r] => summaries'[i] = summaries[i]
                 /\ i = target[r] => summaries'[i].content = found[r]
<1>0. RowsOK /\ RequestsOK
  BY TypeParts
<1>1. target[r] \in 1 .. Len(summaries)
  BY <1>0 DEF UpdateSummary, RequestsOK
<1>2. summaries[target[r]] \in SummaryRow(now, Len(logs))
  BY <1>0, <1>1, RowFacts
<1>3. summaries' = [summaries EXCEPT ![target[r]] = [summaries[target[r]] EXCEPT !.content = found[r]]]
  BY <1>1 DEF UpdateSummary
<1>4. DOMAIN summaries = 1 .. Len(summaries) /\ Len(summaries') = Len(summaries)
  BY <1>0, <1>3 DEF RowsOK
<1>5. \A i \in 1 .. Len(summaries) : i # target[r] => summaries'[i] = summaries[i]
  BY <1>0, <1>3, <1>4 DEF RowsOK
<1>6. summaries'[target[r]] = [summaries[target[r]] EXCEPT !.content = found[r]]
  BY <1>0, <1>1, <1>3, <1>4 DEF RowsOK
<1>7. summaries'[target[r]].created = summaries[target[r]].created /\ summaries'[target[r]].content = found[r]
  BY <1>2, <1>6 DEF SummaryRow
<1> QED
  BY <1>1, <1>4, <1>5, <1>7

(* ... and an insert adds one of now after the others.                      *)
LEMMA CreateEffect ==
    ASSUME TypeOK, NEW r \in Requests, CreateSummary(r)
    PROVE  /\ Len(summaries') = Len(summaries) + 1 /\ Len(summaries) < MaxSummaries
           /\ summaries'[Len(summaries) + 1] = [created |-> now, content |-> found[r]]
           /\ \A i \in 1 .. Len(summaries) : summaries'[i] = summaries[i]
BY TypeParts, RowFacts DEF CreateSummary, RowsOK

(* StampCovers is an invariant.                                             *)
LEMMA StampInvariant == Spec => []StampCovers
<1>1. Init => StampCovers
  BY DEF Init, StampCovers
<1>2. TypeOK /\ StampCovers /\ [Next]_vars => StampCovers'
  <2> SUFFICES ASSUME TypeOK, StampCovers, [Next]_vars PROVE StampCovers'
    OBVIOUS
  <2>0. RowsOK /\ RequestsOK
    BY TypeParts
  <2> USE DEF StampCovers
  <2>1. ASSUME UNCHANGED <<summaries, sealed, stamp, kept>> PROVE StampCovers'
    BY <2>1
  <2>2. ASSUME NEW r \in Requests, UpdateSummary(r) PROVE StampCovers'
    BY <2>0, <2>2, UpdateEffect, RowFacts DEF UpdateSummary
  <2>3. ASSUME NEW r \in Requests, CreateSummary(r) PROVE StampCovers'
    <3>1. UNCHANGED <<sealed, stamp, kept>>
      BY <2>3 DEF CreateSummary
    <3>2. Len(summaries) \in Nat /\ Len(summaries) < MaxSummaries /\ Len(summaries') = Len(summaries) + 1
      BY <2>0, <2>3, CreateEffect, RowFacts
    <3>3. sealed[Len(summaries) + 1] = 0
      BY <3>2, BoundAssumption
    <3>4. \A i \in 1 .. Len(summaries) : summaries'[i] = summaries[i]
      BY <2>3, CreateEffect
    <3>5. \A i \in 1 .. Len(summaries') : sealed'[i] > 0 => i \in 1 .. Len(summaries)
      BY <3>1, <3>2, <3>3
    <3>6. \A i \in 1 .. MaxSummaries : i > Len(summaries') => sealed'[i] = 0
      BY <3>1, <3>2
    <3> QED
      BY <3>1, <3>4, <3>5, <3>6
  <2>4. ASSUME NEW r \in Requests, StampUser(r), ~removed PROVE StampCovers'
    <3>1. /\ stamp' = now /\ Seal(target[r]) /\ summaries' = summaries
          /\ target[r] \in (1 .. Len(summaries)) \cup {None}
      BY <2>0, <2>4 DEF StampUser, RequestsOK
    <3>2. \A i \in 1 .. MaxSummaries : i > Len(summaries) => sealed'[i] = 0
      BY <2>0, <3>1, RowFacts, NoneAssumption DEF Seal, RowsOK
    <3> QED
      BY <2>0, <3>1, <3>2, RowFacts
  <2>5. ASSUME NEW r \in Requests, SaveUser(r) PROVE StampCovers'
    <3>1. /\ UNCHANGED <<summaries, sealed>> /\ stamp' = held[r]
          /\ kept' => kept /\ held[r] >= stamp
          /\ held[r] \in 0 .. now
      BY <2>0, <2>5 DEF SaveUser, RequestsOK
    <3> QED
      BY <2>0, <3>1, RowFacts
  <2>6. CASE RemoveUser
    <3>1. Len(summaries') = 0 /\ \A i \in 1 .. MaxSummaries : sealed'[i] = 0
      BY <2>6 DEF RemoveUser
    <3> QED
      BY <3>1
  <2>7. ASSUME NEW r \in Requests,
               \/ Trigger(r) \/ FindLogs(r) \/ FinishJob(r) \/ Fail(r) \/ Crash(r)
               \/ LoadUser(r) \/ (\E j \in queue : Deliver(r, j)) \/ (StampUser(r) /\ removed)
        PROVE  StampCovers'
    BY <2>1, <2>7 DEF Trigger, FindLogs, FinishJob, Fail, Crash, LoadUser, Deliver, StampUser, rows
  <2>8. CASE SelectDue \/ WriteLog \/ Tick \/ UNCHANGED vars
    BY <2>1, <2>8 DEF SelectDue, WriteLog, Tick, vars, rows
  <2> QED
    BY <2>2, <2>3, <2>4, <2>5, <2>6, <2>7, <2>8 DEF Next
<1> QED
  BY <1>1, <1>2, TypeCorrect, PTL DEF Spec

(* Every reachable state satisfies NotDueTwice: an account is not selected  *)
(* again (findUsersDueForSummary) before a week after the summary its last  *)
(* job has made.                                                            *)
THEOREM NeverDueTwice == Spec => []NotDueTwice
<1>1. TypeOK /\ AloneInv /\ StampCovers => NotDueTwice
  <2> SUFFICES ASSUME TypeOK, AloneInv, StampCovers, kept \/ alone, Due,
                      NEW i \in 1 .. Len(summaries), sealed[i] > 0
               PROVE  summaries[i].created + Week < now
    BY DEF NotDueTwice
  <2>1. summaries[i].created <= stamp
    BY DEF AloneInv, StampCovers
  <2> QED
    BY <2>1, TypeParts, RowFacts, WeekAssumption DEF Due
<1> QED
  BY <1>1, TypeCorrect, AloneInvariant, StampInvariant, PTL

----------------------------------------------------------------------------
(* Until a save takes the stamp back: a job made after a summary was sealed *)
(* was made when the summary was old, and no such job is updating it.       *)
JobsApart ==
    kept => \A i \in 1 .. Len(summaries) : sealed[i] > 0 =>
        /\ \A j \in 1 .. issued : j > sealed[i] => summaries[i].created + Week < now
        /\ \A r \in Requests : pc[r] \in {"logs", "save"} /\ target[r] = i
              => job[r] = None \/ job[r] \in 1 .. sealed[i]

(* JobsApart is an invariant.                                               *)
LEMMA JobsInvariant == Spec => []JobsApart
<1>1. Init => JobsApart
  BY DEF Init, JobsApart
<1>2. TypeOK /\ StampCovers /\ NotDueTwice /\ JobsApart /\ [Next]_vars => JobsApart'
  <2> SUFFICES ASSUME TypeOK, StampCovers, NotDueTwice, JobsApart, [Next]_vars PROVE JobsApart'
    OBVIOUS
  <2>0. RowsOK /\ RequestsOK
    BY TypeParts
  <2> DEFINE Old(i) == \A j \in 1 .. issued : j > sealed[i] => summaries[i].created + Week < now
             Mine(i) == \A r \in Requests : pc[r] \in {"logs", "save"} /\ target[r] = i
                           => job[r] = None \/ job[r] \in 1 .. sealed[i]
  <2>a. ASSUME kept' => kept, issued' = issued, sealed' = sealed, now <= now', now' \in Nat,
               \A i \in 1 .. Len(summaries') : sealed[i] > 0 =>
                  i \in 1 .. Len(summaries) /\ summaries'[i].created = summaries[i].created,
               NEW r \in Requests, NEW call, NEW j, NEW t,
               pc' = [pc EXCEPT ![r] = call], job' = [job EXCEPT ![r] = j],
               target' = [target EXCEPT ![r] = t],
               kept' /\ call \in {"logs", "save"} =>
                  \A i \in 1 .. Len(summaries) : sealed[i] > 0 /\ t = i => j = None \/ j \in 1 .. sealed[i]
        PROVE  JobsApart'
    <3> SUFFICES ASSUME kept', NEW i \in 1 .. Len(summaries'), sealed[i] > 0
                 PROVE  Old(i)' /\ Mine(i)'
      BY <2>a DEF JobsApart
    <3>1. i \in 1 .. Len(summaries) /\ Old(i) /\ Mine(i)
      BY <2>a DEF JobsApart
    <3>2. Old(i)'
      BY <2>0, <2>a, <3>1, RowFacts, WeekAssumption
    <3>3. ASSUME NEW s \in Requests, pc'[s] \in {"logs", "save"}, target'[s] = i
          PROVE  job'[s] = None \/ job'[s] \in 1 .. sealed[i]
      <4>1. CASE s = r
        BY <2>0, <2>a, <3>1, <3>3, <4>1 DEF RequestsOK
      <4>2. CASE s # r
        BY <2>0, <2>a, <3>1, <3>3, <4>2 DEF RequestsOK
      <4> QED
        BY <4>1, <4>2
    <3> QED
      BY <2>a, <3>2, <3>3
  <2>b. ASSUME NEW r \in Requests, Finish(r) \/ (\E t, L : Step(r, "stamp", t, L) \/ Step(r, "finish", t, L)),
               kept' => kept, UNCHANGED <<issued, sealed, now>>,
               \A i \in 1 .. Len(summaries') : sealed[i] > 0 =>
                  i \in 1 .. Len(summaries) /\ summaries'[i].created = summaries[i].created
        PROVE  JobsApart'
    <3>1. PICK call, j, t :
             /\ call \in {"idle", "stamp", "finish"}
             /\ pc' = [pc EXCEPT ![r] = call] /\ job' = [job EXCEPT ![r] = j]
             /\ target' = [target EXCEPT ![r] = t]
      BY <2>b DEF Finish, Step, Goto
    <3>2. now <= now' /\ now' \in Nat
      BY <2>0, <2>b, RowFacts
    <3> QED
      BY <2>a, <2>b, <3>1, <3>2
  <2>c. ASSUME UNCHANGED <<kept, issued, sealed, now, summaries>>,
               NEW r \in Requests, NEW call, NEW j, NEW t,
               pc' = [pc EXCEPT ![r] = call], job' = [job EXCEPT ![r] = j],
               target' = [target EXCEPT ![r] = t],
               kept => \A i \in 1 .. Len(summaries) :
                  sealed[i] > 0 /\ t = i => j = None \/ j \in 1 .. sealed[i]
        PROVE  JobsApart'
    <3>1. now <= now' /\ now' \in Nat /\ (kept' => kept) /\ issued' = issued /\ sealed' = sealed
      BY <2>0, <2>c, RowFacts
    <3>2. \A i \in 1 .. Len(summaries') : sealed[i] > 0 =>
             i \in 1 .. Len(summaries) /\ summaries'[i].created = summaries[i].created
      BY <2>c
    <3>3. kept' /\ call \in {"logs", "save"} => \A i \in 1 .. Len(summaries) :
             sealed[i] > 0 /\ t = i => j = None \/ j \in 1 .. sealed[i]
      BY <2>c, <3>1
    <3> QED
      BY <2>a, <2>c, <3>1, <3>2, <3>3
  <2>1. ASSUME NEW r \in Requests, NEW j \in queue, Deliver(r, j) PROVE JobsApart'
    <3>1. /\ pc' = [pc EXCEPT ![r] = "logs"] /\ job' = [job EXCEPT ![r] = j]
          /\ target' = [target EXCEPT ![r] = CurrentSummary]
          /\ UNCHANGED <<kept, issued, sealed, now, summaries>>
      BY <2>1 DEF Deliver, Begin, Goto, rows
    <3>2. ASSUME kept, NEW i \in 1 .. Len(summaries), sealed[i] > 0, CurrentSummary = i
          PROVE  j \in 1 .. sealed[i]
      <4>1. j \in 1 .. issued /\ sealed[i] \in Nat /\ i # None
        BY <2>0, <3>2, RowFacts, NoneAssumption, BoundAssumption DEF RowsOK
      <4>2. ~(summaries[i].created + Week <= now)
        BY <2>0, <3>2, <4>1, CurrentIsLatest
      <4>3. j > sealed[i] => summaries[i].created + Week < now
        BY <3>2, <4>1 DEF JobsApart
      <4> QED
        BY <2>0, <4>1, <4>2, <4>3, RowFacts, WeekAssumption
    <3> QED
      BY <2>c, <3>1, <3>2
  <2>2. ASSUME NEW r \in Requests, Trigger(r) \/ LoadUser(r) PROVE JobsApart'
    <3>1. PICK call, t : /\ pc' = [pc EXCEPT ![r] = call] /\ job' = [job EXCEPT ![r] = None]
                         /\ target' = [target EXCEPT ![r] = t]
      BY <2>2 DEF Trigger, LoadUser, Begin, Goto
    <3>2. UNCHANGED <<kept, issued, sealed, now, summaries>>
      BY <2>2 DEF Trigger, LoadUser, rows
    <3> QED
      BY <2>c, <3>1, <3>2
  <2>3. ASSUME NEW r \in Requests, FindLogs(r) PROVE JobsApart'
    <3>1. UNCHANGED <<kept, issued, sealed, now, summaries>>
      BY <2>3 DEF FindLogs, rows
    <3>2. CASE RecentLogs = {}
      BY <2>b, <2>3, <3>1, <3>2 DEF FindLogs, AfterSummary
    <3>3. CASE RecentLogs # {}
      <4>1. /\ pc[r] = "logs" /\ pc' = [pc EXCEPT ![r] = "save"]
            /\ job' = [job EXCEPT ![r] = job[r]] /\ target' = [target EXCEPT ![r] = target[r]]
        BY <2>3, <3>3 DEF FindLogs, Step, Goto
      <4>2. kept => \A i \in 1 .. Len(summaries) :
               sealed[i] > 0 /\ target[r] = i => job[r] = None \/ job[r] \in 1 .. sealed[i]
        BY <4>1 DEF JobsApart
      <4> QED
        BY <2>c, <3>1, <4>1, <4>2
    <3> QED
      BY <3>2, <3>3
  <2>4. ASSUME NEW r \in Requests, UpdateSummary(r) PROVE JobsApart'
    <3>1. UNCHANGED <<kept, issued, sealed, now>> /\ AfterSummary(r, target[r])
      BY <2>4 DEF UpdateSummary
    <3> QED
      BY <2>b, <2>4, <3>1, UpdateEffect DEF AfterSummary
  <2>5. ASSUME NEW r \in Requests, CreateSummary(r) PROVE JobsApart'
    <3>1. UNCHANGED <<kept, issued, sealed, now>> /\ AfterSummary(r, Len(summaries) + 1)
      BY <2>5 DEF CreateSummary
    <3>2. Len(summaries) \in Nat /\ Len(summaries) < MaxSummaries /\ Len(summaries') = Len(summaries) + 1
      BY <2>0, <2>5, CreateEffect, RowFacts
    <3>3. sealed[Len(summaries) + 1] = 0
      BY <3>2, BoundAssumption DEF StampCovers
    <3>4. \A i \in 1 .. Len(summaries') : sealed[i] > 0 => i \in 1 .. Len(summaries)
      BY <3>2, <3>3
    <3> QED
      BY <2>b, <2>5, <3>1, <3>4, CreateEffect DEF AfterSummary
  <2>6. ASSUME NEW r \in Requests, StampUser(r), ~removed PROVE JobsApart'
    <3>1. /\ Step(r, "finish", None, {}) /\ UNCHANGED <<kept, issued, now, summaries>>
          /\ Seal(target[r]) /\ target[r] \in (1 .. Len(summaries)) \cup {None}
      BY <2>0, <2>6 DEF StampUser, RequestsOK
    <3>2. CASE target[r] = None
      BY <2>b, <3>1, <3>2 DEF Seal
    <3>3. CASE target[r] # None
      <4> SUFFICES ASSUME kept, NEW i \in 1 .. Len(summaries), sealed'[i] > 0
                   PROVE  Old(i)' /\ Mine(i)'
        BY <3>1 DEF JobsApart
      <4>1. pc' = [pc EXCEPT ![r] = "finish"] /\ job' = [job EXCEPT ![r] = job[r]]
            /\ target' = [target EXCEPT ![r] = None]
        BY <3>1 DEF Step, Goto
      <4>2. \A s \in Requests : pc'[s] \in {"logs", "save"}
               => s # r /\ pc'[s] = pc[s] /\ job'[s] = job[s] /\ target'[s] = target[s]
        BY <2>0, <4>1 DEF RequestsOK
      <4>3. CASE i = target[r]
        <5>1. sealed'[i] = issued
          BY <2>0, <3>1, <4>3, <3>3 DEF Seal, RowsOK, RequestsOK
        <5> QED
          BY <2>0, <3>1, <4>2, <5>1, RowFacts DEF RequestsOK
      <4>4. CASE i # target[r]
        <5>1. sealed'[i] = sealed[i]
          BY <2>0, <3>1, <3>3, <4>4 DEF Seal, RowsOK
        <5>2. Old(i) /\ Mine(i)
          BY <5>1 DEF JobsApart
        <5> QED
          BY <3>1, <4>2, <5>1, <5>2
      <4> QED
        BY <4>3, <4>4
    <3> QED
      BY <3>2, <3>3
  <2>7. ASSUME NEW r \in Requests, StampUser(r), removed PROVE JobsApart'
    BY <2>b, <2>7 DEF StampUser
  <2>8. ASSUME NEW r \in Requests, FinishJob(r) \/ Fail(r) \/ Crash(r) \/ SaveUser(r)
        PROVE  JobsApart'
    <3>1. Finish(r) /\ UNCHANGED <<issued, sealed, now, summaries>> /\ (kept' => kept)
      <4>1. CASE FinishJob(r) \/ Fail(r) \/ Crash(r)
        BY <4>1 DEF FinishJob, Fail, Crash, rows
      <4>2. CASE SaveUser(r)
        BY <4>2 DEF SaveUser
      <4> QED
        BY <2>8, <4>1, <4>2
    <3> QED
      BY <2>b, <3>1
  <2>9. CASE SelectDue
    <3>1. /\ Due /\ issued' = issued + 1
          /\ UNCHANGED <<kept, sealed, now, summaries, pc, job, target>>
      BY <2>9 DEF SelectDue, rows, locals
    <3> SUFFICES ASSUME kept, NEW i \in 1 .. Len(summaries), sealed[i] > 0
                 PROVE  Old(i)' /\ Mine(i)'
      BY <3>1 DEF JobsApart
    <3>2. summaries[i].created + Week < now
      BY <3>1 DEF NotDueTwice
    <3> QED
      BY <3>1, <3>2 DEF JobsApart
  <2>10. CASE Tick \/ WriteLog \/ UNCHANGED vars
    <3>1. /\ now' \in Nat /\ now <= now'
          /\ UNCHANGED <<kept, sealed, issued, summaries, pc, job, target>>
      BY <2>0, <2>10, RowFacts DEF Tick, WriteLog, vars, rows, locals
    <3> SUFFICES ASSUME kept, NEW i \in 1 .. Len(summaries), sealed[i] > 0
                 PROVE  Old(i)' /\ Mine(i)'
      BY <3>1 DEF JobsApart
    <3>2. Old(i) /\ Mine(i)
      BY DEF JobsApart
    <3> QED
      BY <2>0, <3>1, <3>2, RowFacts, WeekAssumption
  <2>11. CASE RemoveUser
    <3>1. Len(summaries') = 0
      BY <2>11 DEF RemoveUser
    <3> QED
      BY <3>1 DEF JobsApart
  <2> QED
    BY <2>1, <2>2, <2>3, <2>4, <2>5, <2>6, <2>7, <2>8, <2>9, <2>10, <2>11 DEF Next
<1> QED
  BY <1>1, <1>2, TypeCorrect, StampInvariant, NeverDueTwice, PTL DEF Spec

(* No step of a job made after a summary was sealed overwrites it           *)
(* (processSummaryTask, findUsersDueForSummary, generateWeeklySummary).     *)
THEOREM JobsMakeTheirOwnSummaries == Spec => JobsMakeTheirOwn
<1> DEFINE Keeps == kept /\ ~removed' =>
          \A i \in 1 .. Len(summaries) :
              sealed[i] > 0 /\ summaries'[i].content # summaries[i].content
                  => \E r \in Requests : Overwrites(r, i)
<1>1. TypeOK /\ JobsApart /\ [Next]_vars => [Keeps]_vars
  <2> SUFFICES ASSUME TypeOK, JobsApart, [Next]_vars, kept, ~removed',
                      NEW i \in 1 .. Len(summaries), sealed[i] > 0,
                      summaries'[i].content # summaries[i].content
               PROVE  \E r \in Requests : Overwrites(r, i)
    OBVIOUS
  <2>1. ~RemoveUser /\ summaries' # summaries
    BY DEF RemoveUser
  <2>2. ASSUME NEW r \in Requests, CreateSummary(r) PROVE FALSE
    BY <2>2, CreateEffect
  <2>3. PICK r \in Requests : UpdateSummary(r)
    BY <2>1, <2>2, SummarySteps
  <2>4. target[r] = i /\ pc[r] = "save"
    BY <2>3, UpdateEffect DEF UpdateSummary
  <2> QED
    BY <2>4 DEF Overwrites, JobsApart
<1> QED
  BY <1>1, TypeCorrect, JobsInvariant, PTL DEF Spec, JobsMakeTheirOwn

----------------------------------------------------------------------------
(* While requests have not overlapped: one summary a week, and a request    *)
(* that has found none for this week may still insert one ...               *)
WeekInv ==
    OneSummaryPerWeek
    /\ (alone /\ ~removed =>
           \A r \in Requests : pc[r] \in {"logs", "save"} /\ target[r] = None =>
              \A i \in 1 .. Len(summaries) : summaries[i].created + Week <= now)

(* ... and the entries it has found are all that the summaries tell of      *)
(* and that are not old.                                                    *)
FoundAll ==
    alone /\ ~removed =>
        \A r \in Requests : pc[r] = "save" =>
           \A e \in 1 .. Len(logs) : Told(e) => e \in found[r] \/ logs[e] + Week < now

(* What no request does leaves the requests and the summaries alone.        *)
LEMMA OtherSteps ==
    ASSUME RowsOK, SelectDue \/ WriteLog \/ Tick \/ UNCHANGED vars
    PROVE  /\ now' \in Nat /\ now <= now'
           /\ SelectDue \/ Tick \/ UNCHANGED vars => logs' = logs
           /\ UNCHANGED <<summaries, removed, pc, job, target, found, alone>>
<1>1. now \in Nat /\ now <= now /\ now <= now + 1 /\ now + 1 \in Nat
  BY RowFacts
<1>2. now' \in {now, now + 1} /\ (SelectDue \/ Tick \/ UNCHANGED vars => logs' = logs)
  BY DEF SelectDue, WriteLog, Tick, vars, rows
<1>3. UNCHANGED <<summaries, removed>>
  BY DEF SelectDue, WriteLog, Tick, vars, rows
<1>4. UNCHANGED <<pc, job, target, found, alone>>
  BY DEF SelectDue, WriteLog, Tick, vars, locals
<1> QED
  BY <1>1, <1>2, <1>3, <1>4

(* Without overlap the step of a request finds the others idle.             *)
LEMMA OthersIdle ==
    ASSUME RequestsOK, AloneInv, alone, NEW r \in Requests, pc[r] # "idle" \/ Busy = {},
           NEW call, pc' = [pc EXCEPT ![r] = call]
    PROVE  \A s \in Requests : s # r => pc'[s] = "idle"
BY DEF RequestsOK, AloneInv, Busy

(* WeekInv is an invariant.                                                 *)
LEMMA WeekInvariant == Spec => []WeekInv
<1>1. Init => WeekInv
  BY DEF Init, WeekInv, OneSummaryPerWeek
<1>2. TypeOK /\ AloneInv /\ WeekInv /\ [Next]_vars => WeekInv'
  <2> SUFFICES ASSUME TypeOK, AloneInv, WeekInv, [Next]_vars, alone' PROVE WeekInv'
    BY DEF WeekInv, OneSummaryPerWeek
  <2>0. RowsOK /\ RequestsOK
    BY TypeParts
  <2> USE DEF WeekInv, OneSummaryPerWeek
  <2>a. ASSUME alone, NEW r \in Requests, NEW call, NEW t,
               pc[r] # "idle" \/ Busy = {},
               pc' = [pc EXCEPT ![r] = call], target' = [target EXCEPT ![r] = t],
               UNCHANGED <<now, removed>>, Len(summaries') = Len(summaries),
               \A i \in 1 .. Len(summaries) : summaries'[i].created = summaries[i].created,
               ~removed /\ call \in {"logs", "save"} /\ t = None =>
                  \A i \in 1 .. Len(summaries) : summaries[i].created + Week <= now
        PROVE  WeekInv'
    <3>1. \A s \in Requests : pc'[s] \in {"logs", "save"} => s = r
      BY <2>0, <2>a, OthersIdle
    <3>2. pc'[r] = call /\ target'[r] = t
      BY <2>0, <2>a DEF RequestsOK
    <3> QED
      BY <2>a, <3>1, <3>2
  <2>b. ASSUME NEW r \in Requests, pc[r] # "idle",
               Finish(r) \/ (\E t, L : Step(r, "stamp", t, L) \/ Step(r, "finish", t, L)),
               UNCHANGED <<now, removed>>, Len(summaries') = Len(summaries),
               \A i \in 1 .. Len(summaries) : summaries'[i].created = summaries[i].created
        PROVE  WeekInv'
    <3>1. alone
      BY <2>b DEF Finish, Step
    <3>2. PICK call \in {"idle", "stamp", "finish"} :
             \E t : pc' = [pc EXCEPT ![r] = call] /\ target' = [target EXCEPT ![r] = t]
      BY <2>b DEF Finish, Step, Goto
    <3>3. PICK t : target' = [target EXCEPT ![r] = t]
      BY <3>2
    <3> QED
      BY <2>a, <2>b, <3>1, <3>2, <3>3
  <2>1. ASSUME NEW r \in Requests, Trigger(r) \/ LoadUser(r) \/ \E j \in queue : Deliver(r, j)
        PROVE  WeekInv'
    <3>1. PICK call, t : /\ alone /\ Busy = {} /\ UNCHANGED <<now, removed, summaries>>
                         /\ pc' = [pc EXCEPT ![r] = call] /\ target' = [target EXCEPT ![r] = t]
                         /\ call \in {"logs", "save"} => t = CurrentSummary
      <4>1. CASE Trigger(r)
        BY <4>1 DEF Trigger, Begin, Goto, rows
      <4>2. CASE LoadUser(r)
        <5>1. /\ alone /\ Busy = {} /\ UNCHANGED <<now, removed, summaries>>
              /\ pc' = [pc EXCEPT ![r] = "user"] /\ target' = [target EXCEPT ![r] = None]
          BY <4>2 DEF LoadUser, Begin, Goto, rows
        <5>2. "user" \notin {"logs", "save"}
          OBVIOUS
        <5> QED
          BY <5>1, <5>2
      <4>3. CASE \E j \in queue : Deliver(r, j)
        BY <4>3 DEF Deliver, Begin, Goto, rows
      <4> QED
        BY <2>1, <4>1, <4>2, <4>3
    <3>2. ASSUME CurrentSummary = None, NEW i \in 1 .. Len(summaries)
          PROVE  summaries[i].created + Week <= now
      <4>1. summaries[Len(summaries)].created + Week <= now
        BY <2>0, <3>2, CurrentIsLatest, RowFacts
      <4>2. i # Len(summaries) => summaries[i].created + Week <= summaries[Len(summaries)].created
        BY <2>0, <3>1, <3>2, RowFacts
      <4> QED
        BY <2>0, <3>2, <4>1, <4>2, RowFacts, WeekAssumption
    <3> QED
      BY <2>a, <3>1, <3>2
  <2>2. ASSUME NEW r \in Requests, FindLogs(r) PROVE WeekInv'
    <3>1. pc[r] = "logs" /\ UNCHANGED <<now, removed, summaries>>
      BY <2>2 DEF FindLogs, rows
    <3>2. CASE RecentLogs = {}
      BY <2>b, <2>2, <3>1, <3>2 DEF FindLogs, AfterSummary
    <3>3. CASE RecentLogs # {}
      <4>1. alone /\ pc' = [pc EXCEPT ![r] = "save"] /\ target' = [target EXCEPT ![r] = target[r]]
        BY <2>2, <3>3 DEF FindLogs, Step, Goto
      <4>2. ~removed /\ target[r] = None =>
               \A i \in 1 .. Len(summaries) : summaries[i].created + Week <= now
        BY <3>1, <4>1
      <4> QED
        BY <2>a, <3>1, <4>1, <4>2
    <3> QED
      BY <3>2, <3>3
  <2>3. ASSUME NEW r \in Requests, UpdateSummary(r) PROVE WeekInv'
    BY <2>b, <2>3, UpdateEffect DEF UpdateSummary, AfterSummary
  <2>4. ASSUME NEW r \in Requests, CreateSummary(r) PROVE WeekInv'
    <3>1. /\ alone /\ now' = now
          /\ \A i \in 1 .. Len(summaries) : summaries[i].created + Week <= now
      BY <2>4 DEF CreateSummary, AfterSummary, Finish, Step
    <3>2. PICK call \in {"idle", "stamp"} : pc' = [pc EXCEPT ![r] = call]
      BY <2>4 DEF CreateSummary, AfterSummary, Finish, Step, Goto
    <3>3. \A s \in Requests : pc'[s] \notin {"logs", "save"}
      BY <2>0, <2>4, <3>1, <3>2, OthersIdle DEF CreateSummary, RequestsOK
    <3>4. OneSummaryPerWeek'
      <4> SUFFICES ASSUME NEW i \in 1 .. Len(summaries'), NEW j \in 1 .. Len(summaries'), i < j
                   PROVE  summaries'[i].created + Week <= summaries'[j].created
        OBVIOUS
      <4>1. /\ Len(summaries) \in Nat /\ Len(summaries') = Len(summaries) + 1
            /\ summaries'[Len(summaries) + 1].created = now
            /\ \A k \in 1 .. Len(summaries) : summaries'[k] = summaries[k]
        <5>1. summaries'[Len(summaries) + 1] = [created |-> now, content |-> found[r]]
          BY <2>4, CreateEffect
        <5> QED
          BY <2>0, <2>4, <5>1, CreateEffect, RowFacts
      <4>2. i \in 1 .. Len(summaries) /\ summaries'[i] = summaries[i]
        BY <4>1
      <4>3. CASE j \in 1 .. Len(summaries)
        BY <3>1, <4>1, <4>2, <4>3
      <4>4. CASE j = Len(summaries) + 1
        BY <3>1, <4>1, <4>2, <4>4
      <4> QED
        BY <4>1, <4>3, <4>4
    <3> QED
      BY <3>3, <3>4
  <2>5. ASSUME NEW r \in Requests,
               StampUser(r) \/ FinishJob(r) \/ Fail(r) \/ Crash(r) \/ SaveUser(r)
        PROVE  WeekInv'
    <3>1. /\ Finish(r) \/ Step(r, "finish", None, {})
          /\ pc[r] # "idle" /\ UNCHANGED <<now, removed, summaries>>
      BY <2>5 DEF StampUser, FinishJob, Fail, Crash, SaveUser, rows
    <3> QED
      BY <2>b, <3>1
  <2>6. CASE RemoveUser
    <3>1. Len(summaries') = 0 /\ removed'
      BY <2>6 DEF RemoveUser
    <3> QED
      BY <3>1
  <2>7. CASE SelectDue \/ WriteLog \/ Tick \/ UNCHANGED vars
    <3>1. /\ now' \in Nat /\ now <= now'
          /\ UNCHANGED <<summaries, removed, pc, target, alone>>
      BY <2>0, <2>7, OtherSteps
    <3>2. ASSUME NEW i \in 1 .. Len(summaries), summaries[i].created + Week <= now
          PROVE  summaries[i].created + Week <= now'
      BY <2>0, <3>1, <3>2, RowFacts, WeekAssumption
    <3> QED
      BY <3>1, <3>2
  <2> QED
    BY <2>1, <2>2, <2>3, <2>4, <2>5, <2>6, <2>7 DEF Next
<1> QED
  BY <1>1, <1>2, TypeCorrect, AloneInvariant, PTL DEF Spec

(* Every reachable state satisfies OneSummaryPerWeek: the update of the     *)
(* summary found and the insert of a new one (generateWeeklySummary) leave  *)
(* a week between any two summaries.                                        *)
THEOREM OneSummaryEachWeek == Spec => []OneSummaryPerWeek
<1>1. WeekInv => OneSummaryPerWeek
  BY DEF WeekInv
<1> QED
  BY <1>1, WeekInvariant, PTL

(* FoundAll is an invariant.                                                *)
LEMMA FoundInvariant == Spec => []FoundAll
<1>1. Init => FoundAll
  BY DEF Init, FoundAll
<1>2. TypeOK /\ AloneInv /\ FoundAll /\ [Next]_vars => FoundAll'
  <2> SUFFICES ASSUME TypeOK, AloneInv, FoundAll, [Next]_vars, alone', ~removed' PROVE FoundAll'
    BY DEF FoundAll
  <2>0. RowsOK /\ RequestsOK
    BY TypeParts
  <2> USE DEF FoundAll
  <2>a. ASSUME alone, NEW r \in Requests, NEW call, pc[r] # "idle" \/ Busy = {},
               pc' = [pc EXCEPT ![r] = call], call # "save"
        PROVE  FoundAll'
    BY <2>0, <2>a, OthersIdle DEF RequestsOK
  <2>1. ASSUME NEW r \in Requests, Trigger(r) \/ LoadUser(r) \/ \E j \in queue : Deliver(r, j)
        PROVE  FoundAll'
    <3>1. PICK call \in {"logs", "user"} : alone /\ Busy = {} /\ pc' = [pc EXCEPT ![r] = call]
      <4>1. CASE Trigger(r)
        BY <4>1 DEF Trigger, Begin, Goto
      <4>2. CASE LoadUser(r)
        BY <4>2 DEF LoadUser, Begin, Goto
      <4>3. CASE \E j \in queue : Deliver(r, j)
        BY <4>3 DEF Deliver, Begin, Goto
      <4> QED
        BY <2>1, <4>1, <4>2, <4>3
    <3> QED
      BY <2>a, <3>1
  <2>2. ASSUME NEW r \in Requests, FindLogs(r) PROVE FoundAll'
    <3>1. pc[r] = "logs" /\ UNCHANGED <<now, logs, removed, summaries>>
      BY <2>2 DEF FindLogs, rows
    <3>2. CASE RecentLogs = {}
      <4>1. alone /\ \E call \in {"idle", "stamp"} : pc' = [pc EXCEPT ![r] = call]
        BY <2>2, <3>2 DEF FindLogs, AfterSummary, Finish, Step, Goto
      <4> QED
        BY <2>a, <3>1, <4>1
    <3>3. CASE RecentLogs # {}
      <4>1. /\ alone /\ pc' = [pc EXCEPT ![r] = "save"]
            /\ found' = [found EXCEPT ![r] = RecentLogs]
        BY <2>2, <3>3 DEF FindLogs, Step, Goto
      <4>2. found'[r] = RecentLogs
        BY <2>0, <4>1 DEF RequestsOK
      <4>3. \A e \in 1 .. Len(logs) : e \in RecentLogs \/ logs[e] + Week < now
        BY <2>0, RowFacts, WeekAssumption DEF RecentLogs
      <4>4. \A s \in Requests : s # r => pc'[s] = "idle"
        BY <2>0, <3>1, <4>1, OthersIdle
      <4> QED
        BY <3>1, <4>2, <4>3, <4>4
    <3> QED
      BY <3>2, <3>3
  <2>3. ASSUME NEW r \in Requests, UpdateSummary(r) \/ CreateSummary(r) PROVE FoundAll'
    <3>1. alone /\ pc[r] = "save" /\ \E call \in {"idle", "stamp"} : pc' = [pc EXCEPT ![r] = call]
      BY <2>3 DEF UpdateSummary, CreateSummary, AfterSummary, Finish, Step, Goto
    <3> QED
      BY <2>a, <3>1
  <2>4. ASSUME NEW r \in Requests,
               StampUser(r) \/ FinishJob(r) \/ Fail(r) \/ Crash(r) \/ SaveUser(r)
        PROVE  FoundAll'
    <3>1. alone /\ pc[r] # "idle" /\ \E call \in {"idle", "finish"} : pc' = [pc EXCEPT ![r] = call]
      BY <2>4 DEF StampUser, FinishJob, Fail, Crash, SaveUser, Finish, Step, Goto
    <3> QED
      BY <2>a, <3>1
  <2>5. CASE WriteLog
    <3>1. /\ Len(logs) \in Nat /\ Len(logs') = Len(logs) + 1
          /\ \A e \in 1 .. Len(logs) : logs'[e] = logs[e]
          /\ UNCHANGED <<now, summaries, removed, pc, found, alone>>
      <4>1. logs' = Append(logs, now) /\ now' = now
        BY <2>5 DEF WriteLog
      <4>2. UNCHANGED <<summaries, removed, pc, found, alone>>
        BY <2>0, <2>5, OtherSteps
      <4> QED
        <5>1. logs \in Seq(1 .. now) /\ Len(logs) \in Nat
          BY <2>0, RowFacts DEF RowsOK
        <5>2. Len(logs') = Len(logs) + 1 /\ \A e \in 1 .. Len(logs) : logs'[e] = logs[e]
          BY <4>1, <5>1
        <5> QED
          BY <4>1, <4>2, <5>1, <5>2
    <3>2. ASSUME NEW e \in 1 .. Len(logs'), Told(e) PROVE e \in 1 .. Len(logs)
      BY <2>0, <3>2, RowFacts DEF Told
    <3>3. \A e : Told(e)' <=> Told(e)
      BY <3>1 DEF Told
    <3> QED
      BY <3>1, <3>2, <3>3
  <2>6. CASE SelectDue \/ Tick \/ UNCHANGED vars
    <3>1. now' \in Nat /\ now <= now' /\ UNCHANGED <<logs, summaries, removed, pc, found, alone>>
      BY <2>0, <2>6, OtherSteps
    <3>2. ASSUME NEW e \in 1 .. Len(logs), logs[e] + Week < now PROVE logs[e] + Week < now'
      BY <2>0, <3>1, <3>2, RowFacts, WeekAssumption
    <3>3. \A e : Told(e)' <=> Told(e)
      BY <3>1 DEF Told
    <3> QED
      BY <3>1, <3>2, <3>3
  <2>7. ~RemoveUser
    BY DEF RemoveUser
  <2> QED
    BY <2>1, <2>2, <2>3, <2>4, <2>5, <2>6, <2>7 DEF Next
<1> QED
  BY <1>1, <1>2, TypeCorrect, AloneInvariant, PTL DEF Spec

(* Without overlap no update makes the summaries forget an entry of the     *)
(* last week (generateWeeklySummary replaces the whole text).               *)
THEOREM NothingRecentForgotten == Spec => ForgetsOnlyOld
<1> DEFINE Forgets == alone /\ ~removed' =>
          \A e \in 1 .. Len(logs) : Told(e) /\ ~Told(e)' => logs[e] + Week < now
<1>1. TypeOK /\ FoundAll /\ [Next]_vars => [Forgets]_vars
  <2> SUFFICES ASSUME TypeOK, FoundAll, [Next]_vars, alone, ~removed',
                      NEW e \in 1 .. Len(logs), Told(e), ~Told(e)'
               PROVE  logs[e] + Week < now
    OBVIOUS
  <2>0. RowsOK
    BY TypeParts
  <2>1. ~RemoveUser /\ summaries' # summaries
    BY DEF RemoveUser, Told
  <2>2. PICK i \in 1 .. Len(summaries) : e \in summaries[i].content
    BY DEF Told
  <2>3. ASSUME NEW r \in Requests, CreateSummary(r) PROVE FALSE
    <3>1. i \in 1 .. Len(summaries') /\ summaries'[i] = summaries[i]
      <4>1. Len(summaries') = Len(summaries) + 1 /\ summaries'[i] = summaries[i]
        BY <2>3, CreateEffect
      <4> QED
        BY <2>0, <4>1, RowFacts
    <3> QED
      BY <2>2, <3>1 DEF Told
  <2>4. PICK r \in Requests : UpdateSummary(r)
    BY <2>1, <2>3, SummarySteps
  <2>5. e \notin found[r]
    BY <2>4, UpdateEffect DEF Told
  <2>6. pc[r] = "save" /\ ~removed
    BY <2>4 DEF UpdateSummary
  <2> QED
    BY <2>5, <2>6 DEF FoundAll
<1> QED
  BY <1>1, TypeCorrect, FoundInvariant, PTL DEF Spec, ForgetsOnlyOld
=============================================================================

------------------------ MODULE JournalEntriesProofs ------------------------
(***************************************************************************)
(* Proofs about JournalEntries, for any logs, prompts and workers: the     *)
(* type invariant, that an analysis is saved whole or not at all, that no  *)
(* entry is dropped, that an entry whose deliveries never overlapped is    *)
(* analysed once, and that the journal implements EntryLifecycle.          *)
(***************************************************************************)
EXTENDS JournalEntries, TLAPS

(* Every reachable state satisfies TypeOK.                                  *)
THEOREM TypeCorrect == Spec => []TypeOK
<1> USE NoneAssumption
<1>1. Init => TypeOK
  <2> SUFFICES ASSUME Init PROVE TypeOK
    OBVIOUS
  <2>1. removed = FALSE /\ removed \in BOOLEAN /\ ~removed
    BY DEF Init
  <2>2. \A w \in Workers : pc[w] = "idle" /\ on[w] = None
    BY DEF Init
  <2> QED
    BY <2>1, <2>2 DEF Init, TypeOK, LogStatus, Call
<1>2. TypeOK /\ [Next]_vars => TypeOK'
  <2> SUFFICES ASSUME TypeOK, [Next]_vars PROVE TypeOK'
    OBVIOUS
  <2> USE DEF TypeOK, LogStatus, Call, Goto, Release, SetStatus, Overlap, data
  <2>1. ASSUME NEW l \in Logs, NEW p \in Prompts \cup {None}, SaveEntry(l, p) PROVE TypeOK'
    BY <2>1 DEF SaveEntry
  <2>2. ASSUME NEW l \in Logs, CreateTask(l) PROVE TypeOK'
    BY <2>2 DEF CreateTask
  <2>3. ASSUME NEW l \in Logs, CreateTaskFails(l) PROVE TypeOK'
    BY <2>3 DEF CreateTaskFails
  <2>4. ASSUME NEW w \in Workers, NEW l \in Logs, Deliver(w, l) PROVE TypeOK'
    BY <2>4 DEF Deliver
  <2>5. ASSUME NEW w \in Workers, MarkProcessing(w) PROVE TypeOK'
    BY <2>5 DEF MarkProcessing
  <2>6. ASSUME NEW w \in Workers, AnalyseSucceeds(w) PROVE TypeOK'
    BY <2>6 DEF AnalyseSucceeds
  <2>7. ASSUME NEW w \in Workers, AnalyseFails(w) PROVE TypeOK'
    BY <2>7 DEF AnalyseFails
  <2>8. ASSUME NEW w \in Workers, Commit(w) PROVE TypeOK'
    BY <2>8 DEF Commit
  <2>9. ASSUME NEW w \in Workers, Rollback(w) PROVE TypeOK'
    BY <2>9 DEF Rollback
  <2>10. ASSUME NEW w \in Workers, MarkFailed(w) PROVE TypeOK'
    BY <2>10 DEF MarkFailed
  <2>11. ASSUME NEW w \in Workers, Acknowledge(w) PROVE TypeOK'
    BY <2>11 DEF Acknowledge
  <2>12. ASSUME NEW w \in Workers, Crash(w) PROVE TypeOK'
    BY <2>12 DEF Crash
  <2>13. CASE RemoveUser
    BY <2>13 DEF RemoveUser
  <2>14. CASE UNCHANGED vars
    BY <2>14 DEF vars
  <2> QED
    BY <2>1, <2>2, <2>3, <2>4, <2>5, <2>6, <2>7, <2>8, <2>9, <2>10, <2>11,
       <2>12, <2>13, <2>14 DEF Next, Work
<1> QED
  BY <1>1, <1>2, PTL DEF Spec

----------------------------------------------------------------------------
(* What an analysis leaves behind belongs to a log that has a row.          *)
AnalysedStored == \A l \in embedded : status[l] # "none"

AtomicInv == AnalysisAtomic /\ AnalysedStored

(* AtomicInv is an invariant: only the transaction saves an analysis.       *)
LEMMA AtomicInvariant == Spec => []AtomicInv
<1> USE NoneAssumption
<1>1. Init => AtomicInv
  BY DEF Init, AtomicInv, AnalysisAtomic, AnalysedStored
<1>2. TypeOK /\ TypeOK' /\ AtomicInv /\ [Next]_vars => AtomicInv'
  <2> SUFFICES ASSUME TypeOK, AtomicInv, [Next]_vars PROVE AtomicInv'
    OBVIOUS
  <2> USE DEF AtomicInv, AnalysisAtomic, AnalysedStored, TypeOK, LogStatus, SetStatus, data
  <2>1. ASSUME NEW l \in Logs, NEW p \in Prompts \cup {None}, SaveEntry(l, p) PROVE AtomicInv'
    BY <2>1 DEF SaveEntry
  <2>2. ASSUME NEW w \in Workers, MarkProcessing(w) PROVE AtomicInv'
    BY <2>2 DEF MarkProcessing
  <2>3. ASSUME NEW w \in Workers, Commit(w) PROVE AtomicInv'
    BY <2>3 DEF Commit
  <2>4. ASSUME NEW w \in Workers, MarkFailed(w) PROVE AtomicInv'
    BY <2>4 DEF MarkFailed
  <2>5. CASE RemoveUser
    BY <2>5 DEF RemoveUser
  <2>6. CASE UNCHANGED data
    BY <2>6
  <2>7. UNCHANGED data \/ RemoveUser
        \/ (\E l \in Logs, p \in Prompts \cup {None} : SaveEntry(l, p))
        \/ (\E w \in Workers : MarkProcessing(w) \/ Commit(w) \/ MarkFailed(w))
    BY DEF Next, Work, vars, CreateTask, CreateTaskFails, Deliver, AnalyseSucceeds,
           AnalyseFails, Rollback, Acknowledge, Crash
  <2> QED
    BY <2>1, <2>2, <2>3, <2>4, <2>5, <2>6, <2>7
<1> QED
  BY <1>1, <1>2, TypeCorrect, PTL DEF Spec

(* Every reachable state satisfies AnalysisAtomic: the attributes, the      *)
(* embedding and the status of a log and the prompt it answers are saved    *)
(* together, by the transaction of processLogEntry.                         *)
THEOREM AnalysesAreAtomic == Spec => []AnalysisAtomic
<1>1. AtomicInv => AnalysisAtomic
  BY DEF AtomicInv
<1> QED
  BY <1>1, AtomicInvariant, PTL

----------------------------------------------------------------------------
(* A log without a row, that is being created, queued or worked on, has     *)
(* lost it with its account.                                                *)
RowsOnlyCascade ==
    \A l \in Logs :
        l \in creating \cup tasks \/ (\E w \in Workers : on[w] = l)
            => status[l] # "none" \/ removed

(* A delivery that has begun the analysis of a log still has its task in    *)
(* the queue, unless another one has finished; one that is about to be      *)
(* answered with success leaves an analysed log.                            *)
TaskKept ==
    Production /\ ~removed => \A w \in Workers :
        /\ pc[w] \in {"mark", "analyse", "save", "fail"} => on[w] \in embedded \cup tasks
        /\ pc[w] = "ack" => on[w] \in embedded

DropInv == NoEntryDropped /\ RowsOnlyCascade /\ TaskKept

(* DropInv is an invariant: only an answered delivery drops a task.         *)
LEMMA DropInvariant == Spec => []DropInv
<1> USE NoneAssumption
<1>1. Init => DropInv
  BY DEF Init, DropInv, NoEntryDropped, RowsOnlyCascade, TaskKept
<1>2. TypeOK /\ AnalysisAtomic /\ DropInv /\ [Next]_vars => DropInv'
  <2> SUFFICES ASSUME TypeOK, AnalysisAtomic, DropInv, [Next]_vars PROVE DropInv'
    OBVIOUS
  <2> USE DEF DropInv, NoEntryDropped, RowsOnlyCascade, TaskKept, TypeOK, LogStatus,
              Call, Goto, Release, SetStatus, Overlap, Production, data
  <2>1. ASSUME NEW l \in Logs, NEW p \in Prompts \cup {None}, SaveEntry(l, p) PROVE DropInv'
    BY <2>1 DEF SaveEntry
  <2>2. ASSUME NEW l \in Logs, CreateTask(l) PROVE DropInv'
    BY <2>2 DEF CreateTask
  <2>3. ASSUME NEW l \in Logs, CreateTaskFails(l) PROVE DropInv'
    BY <2>3 DEF CreateTaskFails
  <2>4. ASSUME NEW w \in Workers, NEW l \in Logs, Deliver(w, l) PROVE DropInv'
    BY <2>4 DEF Deliver, AnalysisAtomic
  <2>5. ASSUME NEW w \in Workers, MarkProcessing(w) PROVE DropInv'
    BY <2>5 DEF MarkProcessing
  <2>6. ASSUME NEW w \in Workers, AnalyseSucceeds(w) PROVE DropInv'
    BY <2>6 DEF AnalyseSucceeds
  <2>7. ASSUME NEW w \in Workers, AnalyseFails(w) PROVE DropInv'
    BY <2>7 DEF AnalyseFails
  <2>8. ASSUME NEW w \in Workers, Commit(w) PROVE DropInv'
    BY <2>8 DEF Commit
  <2>9. ASSUME NEW w \in Workers, Rollback(w) PROVE DropInv'
    BY <2>9 DEF Rollback
  <2>10. ASSUME NEW w \in Workers, MarkFailed(w) PROVE DropInv'
    BY <2>10 DEF MarkFailed
  <2>11. ASSUME NEW w \in Workers, Acknowledge(w) PROVE DropInv'
    BY <2>11 DEF Acknowledge
  <2>12. ASSUME NEW w \in Workers, Crash(w) PROVE DropInv'
    BY <2>12 DEF Crash
  <2>13. CASE RemoveUser
    BY <2>13 DEF RemoveUser
  <2>14. CASE UNCHANGED vars
    BY <2>14 DEF vars
  <2> QED
    BY <2>1, <2>2, <2>3, <2>4, <2>5, <2>6, <2>7, <2>8, <2>9, <2>10, <2>11,
       <2>12, <2>13, <2>14 DEF Next, Work
<1> QED
  BY <1>1, <1>2, TypeCorrect, AnalysesAreAtomic, PTL DEF Spec

(* Every reachable state satisfies NoEntryDropped: the task of an entry     *)
(* whose analysis has begun stays in the queue until it is saved.           *)
THEOREM NoEntryIsDropped == Spec => []NoEntryDropped
<1>1. DropInv => NoEntryDropped
  BY DEF DropInv
<1> QED
  BY <1>1, DropInvariant, PTL

----------------------------------------------------------------------------
(* Of a log whose deliveries never overlapped one runs at most, it is not   *)
(* at work on a log that is analysed already, and such a log is completed.  *)
OneDelivery ==
    \A l \in Logs : l \notin overlapped =>
        /\ \A v, w \in Workers : on[v] = l /\ on[w] = l => v = w
        /\ \A w \in Workers : on[w] = l /\ pc[w] # "ack" => l \notin embedded
        /\ l \in embedded => status[l] = "completed"

OnceInv == OnceUnlessOverlapped /\ OneDelivery

(* OnceInv is an invariant: a delivery that finds the log not completed     *)
(* finds it without analysis, and stays the only one until it ends.         *)
LEMMA OnceInvariant == Spec => []OnceInv
<1> USE NoneAssumption
<1>1. Init => OnceInv
  BY DEF Init, OnceInv, OnceUnlessOverlapped, OneDelivery
<1>2. TypeOK /\ AtomicInv /\ OnceInv /\ [Next]_vars => OnceInv'
  <2> SUFFICES ASSUME TypeOK, AtomicInv, OnceInv, [Next]_vars PROVE OnceInv'
    OBVIOUS
  <2> USE DEF OnceInv, OnceUnlessOverlapped, OneDelivery, TypeOK, LogStatus,
              Call, Goto, Release, SetStatus, Overlap, Running, data
  <2>1. ASSUME NEW l \in Logs, NEW p \in Prompts \cup {None}, SaveEntry(l, p) PROVE OnceInv'
    BY <2>1 DEF SaveEntry, AtomicInv, AnalysedStored
  <2>2. ASSUME NEW l \in Logs, CreateTask(l) PROVE OnceInv'
    BY <2>2 DEF CreateTask
  <2>3. ASSUME NEW l \in Logs, CreateTaskFails(l) PROVE OnceInv'
    BY <2>3 DEF CreateTaskFails
  <2>4. ASSUME NEW w \in Workers, NEW l \in Logs, Deliver(w, l) PROVE OnceInv'
    BY <2>4 DEF Deliver
  <2>5. ASSUME NEW w \in Workers, MarkProcessing(w) PROVE OnceInv'
    BY <2>5 DEF MarkProcessing
  <2>6. ASSUME NEW w \in Workers, AnalyseSucceeds(w) PROVE OnceInv'
    BY <2>6 DEF AnalyseSucceeds
  <2>7. ASSUME NEW w \in Workers, AnalyseFails(w) PROVE OnceInv'
    BY <2>7 DEF AnalyseFails
  <2>8. ASSUME NEW w \in Workers, Commit(w) PROVE OnceInv'
    BY <2>8 DEF Commit, AtomicInv, AnalysisAtomic
  <2>9. ASSUME NEW w \in Workers, Rollback(w) PROVE OnceInv'
    BY <2>9 DEF Rollback
  <2>10. ASSUME NEW w \in Workers, MarkFailed(w) PROVE OnceInv'
    BY <2>10 DEF MarkFailed
  <2>11. ASSUME NEW w \in Workers, Acknowledge(w) PROVE OnceInv'
    BY <2>11 DEF Acknowledge
  <2>12. ASSUME NEW w \in Workers, Crash(w) PROVE OnceInv'
    BY <2>12 DEF Crash
  <2>13. CASE RemoveUser
    BY <2>13 DEF RemoveUser
  <2>14. CASE UNCHANGED vars
    BY <2>14 DEF vars
  <2> QED
    BY <2>1, <2>2, <2>3, <2>4, <2>5, <2>6, <2>7, <2>8, <2>9, <2>10, <2>11,
       <2>12, <2>13, <2>14 DEF Next, Work
<1> QED
  BY <1>1, <1>2, TypeCorrect, AtomicInvariant, PTL DEF Spec

(* Every reachable state satisfies OnceUnlessOverlapped: repeated           *)
(* deliveries of a log that never overlapped analyse it once.               *)
THEOREM AnalysedOnceUnlessOverlapped == Spec => []OnceUnlessOverlapped
<1>1. OnceInv => OnceUnlessOverlapped
  BY DEF OnceInv
<1> QED
  BY <1>1, OnceInvariant, PTL

(* Every step satisfies CompletedStaysCompleted: no late delivery takes     *)
(* back the completion of a log whose deliveries never overlapped.          *)
THEOREM CompletionIsFinal == Spec => CompletedStaysCompleted
<1> USE NoneAssumption
<1> DEFINE Final == \A l \in Logs : status[l] = "completed" =>
                        status'[l] = "completed" \/ removed' \/ l \in overlapped
<1>1. TypeOK /\ AtomicInv /\ OnceInv /\ [Next]_vars => [Final]_vars
  <2> SUFFICES ASSUME TypeOK, AtomicInv, OnceInv, Next PROVE Final
    OBVIOUS
  <2> USE DEF TypeOK, LogStatus, SetStatus, OnceInv, OneDelivery, AtomicInv, AnalysisAtomic
  <2>1. ASSUME NEW l \in Logs, NEW p \in Prompts \cup {None}, SaveEntry(l, p) PROVE Final
    BY <2>1 DEF SaveEntry
  <2>2. ASSUME NEW w \in Workers, MarkProcessing(w) PROVE Final
    BY <2>2 DEF MarkProcessing
  <2>3. ASSUME NEW w \in Workers, Commit(w) PROVE Final
    BY <2>3 DEF Commit
  <2>4. ASSUME NEW w \in Workers, MarkFailed(w) PROVE Final
    BY <2>4 DEF MarkFailed
  <2>5. CASE RemoveUser
    BY <2>5 DEF RemoveUser
  <2>6. CASE UNCHANGED data
    BY <2>6 DEF data
  <2>7. UNCHANGED data \/ RemoveUser
        \/ (\E l \in Logs, p \in Prompts \cup {None} : SaveEntry(l, p))
        \/ (\E w \in Workers : MarkProcessing(w) \/ Commit(w) \/ MarkFailed(w))
    BY DEF Next, Work, CreateTask, CreateTaskFails, Deliver, AnalyseSucceeds,
           AnalyseFails, Rollback, Acknowledge, Crash
  <2> QED
    BY <2>1, <2>2, <2>3, <2>4, <2>5, <2>6, <2>7
<1> QED
  BY <1>1, TypeCorrect, AtomicInvariant, OnceInvariant, PTL DEF Spec, CompletedStaysCompleted

----------------------------------------------------------------------------
(* The phase of a log depends on its own row, analysis and task alone.      *)
LEMMA SamePhase ==
    ASSUME NEW l \in Logs, UNCHANGED env,
           status[l] = "none" <=> status'[l] = "none",
           l \in embedded <=> l \in embedded',
           Production /\ status[l] # "none" /\ l \notin embedded =>
               (l \in tasks <=> l \in tasks')
    PROVE  Phase(l)' = Phase(l)
<1>1. CASE status[l] = "none"
  BY <1>1 DEF Phase
<1>2. CASE status[l] # "none" /\ l \in embedded
  BY <1>2 DEF Phase
<1>3. CASE status[l] # "none" /\ l \notin embedded
  BY <1>3 DEF Phase, Production
<1> QED
  BY <1>1, <1>2, <1>3

(* The journal implements the lifecycle of its entries: every step is a     *)
(* step of EntryLifecycle or leaves its variables alone.  That an entry is  *)
(* never un-accepted rests on NoEntryDropped, and that its prompt is        *)
(* answered with the analysis on the transaction.                           *)
THEOREM JournalImplementsLifecycle == Spec => ImplementsLifecycle
<1> USE NoneAssumption
<1>1. Init => Lifecycle!Init
  BY DEF Init, Lifecycle!Init, Phase
<1>2. TypeOK /\ TypeOK' /\ AtomicInv /\ DropInv /\ [Next]_vars => [Lifecycle!Next]_Lifecycle!vars
  <2> SUFFICES ASSUME TypeOK, TypeOK', AtomicInv, DropInv, [Next]_vars
               PROVE  [Lifecycle!Next]_Lifecycle!vars
    OBVIOUS
  <2> DEFINE entry == [l \in Logs |-> Phase(l)]
  <2>0. ASSUME UNCHANGED <<promptOf, answer, removed>>, \A l \in Logs : Phase(l)' = Phase(l)
        PROVE  UNCHANGED Lifecycle!vars
    BY <2>0 DEF Lifecycle!vars
  <2>1. ASSUME NEW l \in Logs, NEW p \in Prompts \cup {None}, SaveEntry(l, p)
        PROVE  Lifecycle!Write(l, p)
    <3>1. Phase(l) = "absent" /\ Phase(l)' = "kept"
      BY <2>1 DEF SaveEntry, Phase, TypeOK, AtomicInv, AnalysedStored, DropInv, RowsOnlyCascade
    <3>2. \A k \in Logs \ {l} : Phase(k)' = Phase(k)
      <4> TAKE k \in Logs \ {l}
      <4> QED
        BY <2>1, SamePhase DEF SaveEntry, TypeOK
    <3>3. entry' = [entry EXCEPT ![l] = "kept"]
      BY <3>1, <3>2
    <3> QED
      BY <2>1, <3>1, <3>3 DEF SaveEntry, Lifecycle!Write
  <2>2. ASSUME NEW l \in Logs, CreateTask(l)
        PROVE  Lifecycle!Accept(l) \/ UNCHANGED Lifecycle!vars
    <3>1. \A k \in Logs \ {l} : Phase(k)' = Phase(k)
      <4> TAKE k \in Logs \ {l}
      <4> QED
        BY <2>2, SamePhase DEF CreateTask, data
    <3>2. CASE Phase(l)' = Phase(l)
      BY <2>2, <2>0, <3>1, <3>2 DEF CreateTask, data
    <3>3. CASE Phase(l)' # Phase(l)
      <4>1. Phase(l) = "kept" /\ Phase(l)' = "accepted"
        BY <2>2, <3>3 DEF CreateTask, data, Phase, Production
      <4>2. entry' = [entry EXCEPT ![l] = "accepted"]
        BY <3>1, <4>1
      <4> QED
        BY <2>2, <4>1, <4>2 DEF CreateTask, data, Lifecycle!Accept
    <3> QED
      BY <3>2, <3>3
  <2>3. ASSUME NEW w \in Workers, NEW l \in Logs, on[w] = l, Commit(w)
        PROVE  Lifecycle!Analyse(l)
    <3>1. Phase(l) # "absent" /\ Phase(l)' = "analysed"
      BY <2>3 DEF Commit, Phase, TypeOK
    <3>2. \A k \in Logs \ {l} : Phase(k)' = Phase(k)
      <4> TAKE k \in Logs \ {l}
      <4> QED
        BY <2>3, SamePhase DEF Commit, TypeOK
    <3>3. entry' = [entry EXCEPT ![l] = "analysed"]
      BY <3>1, <3>2
    <3> QED
      BY <2>3, <3>1, <3>3 DEF Commit, Lifecycle!Analyse
  <2>4. ASSUME RemoveUser PROVE Lifecycle!Vanish
    <3>1. \A l \in Logs : Phase(l)' = "absent"
      BY <2>4 DEF RemoveUser, Phase
    <3>2. entry' = [l \in Logs |-> "absent"]
      BY <3>1
    <3> QED
      BY <2>4, <3>2 DEF RemoveUser, Lifecycle!Vanish
  <2>5. ASSUME NEW l \in Logs, CreateTaskFails(l) PROVE UNCHANGED Lifecycle!vars
    BY <2>5, <2>0, SamePhase DEF CreateTaskFails, data
  <2>6. ASSUME NEW w \in Workers, NEW l \in Logs, Deliver(w, l)
        PROVE  UNCHANGED Lifecycle!vars
    BY <2>6, <2>0, SamePhase DEF Deliver, data
  <2>7. ASSUME NEW w \in Workers, MarkProcessing(w) \/ MarkFailed(w)
        PROVE  UNCHANGED Lifecycle!vars
    BY <2>7, <2>0, SamePhase DEF MarkProcessing, MarkFailed, SetStatus, TypeOK
  <2>8. ASSUME NEW w \in Workers, Acknowledge(w) PROVE UNCHANGED Lifecycle!vars
    <3>1. Production /\ status[on[w]] # "none" => on[w] \in embedded
      BY <2>8 DEF Acknowledge, DropInv, TaskKept, TypeOK
    <3>2. \A l \in Logs : Phase(l)' = Phase(l)
      <4> TAKE l \in Logs
      <4> QED
        BY <2>8, <3>1, SamePhase DEF Acknowledge, data
    <3> QED
      BY <2>8, <2>0, <3>2 DEF Acknowledge, data
  <2>9. ASSUME UNCHANGED <<data, env, tasks>> PROVE UNCHANGED Lifecycle!vars
    BY <2>9, <2>0, SamePhase DEF data
  <2>10. RemoveUser \/ UNCHANGED <<data, env, tasks>>
         \/ (\E l \in Logs : (\E p \in Prompts \cup {None} : SaveEntry(l, p))
                \/ CreateTask(l) \/ CreateTaskFails(l) \/ (\E w \in Workers : Deliver(w, l)))
         \/ (\E w \in Workers : MarkProcessing(w) \/ MarkFailed(w) \/ Commit(w) \/ Acknowledge(w))
    BY DEF Next, Work, vars, data, AnalyseSucceeds, AnalyseFails, Rollback, Crash
  <2>11. \A w \in Workers : Commit(w) => on[w] \in Logs
    BY DEF Commit, TypeOK
  <2> QED
    BY <2>1, <2>2, <2>3, <2>4, <2>5, <2>6, <2>7, <2>8, <2>9, <2>10, <2>11 DEF Lifecycle!Next
<1> QED
  BY <1>1, <1>2, TypeCorrect, AtomicInvariant, DropInvariant, PTL
     DEF Spec, ImplementsLifecycle, Lifecycle!Spec
=============================================================================

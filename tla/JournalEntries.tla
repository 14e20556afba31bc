--------------------------- MODULE JournalEntries ---------------------------
(***************************************************************************)
(* The journal entries of one account and their asynchronous analysis:     *)
(* JournalService.createEntry saves a log and enqueues a task, the queue   *)
(* posts the task back, JournalService.processLogEntry analyses the log.   *)
(* In production the queue is Cloud Tasks: it repeats a delivery until one *)
(* is answered with success, and may deliver a task while an earlier       *)
(* delivery is still running.  In development createTask posts once and    *)
(* swallows the error.  A worker is a running delivery; it takes one step  *)
(* per database or model call.                                             *)
(***************************************************************************)
EXTENDS Naturals

CONSTANTS Logs, Prompts, Workers, None

ASSUME NoneAssumption == None \notin Logs \cup Prompts

VARIABLES
    status,     \* logs.status; "none" when there is no row
    promptOf,   \* metadata.promptId of each log
    embedded,   \* logs whose embedding, sentiment and entities are saved
    attributes, \* batches of attribute rows saved for a log: 0, 1, or 2 for more
    answer,     \* prompts.reference_log_id; None while is_answered is false
    removed,    \* the account and, by cascade, its rows are gone
    env,        \* NODE_ENV
    creating,   \* logs whose createEntry is between its save and createTask
    tasks,      \* tasks in the queue
    pc, on,     \* per worker: its next call, its log
    overlapped  \* history: logs of which two deliveries have run at a time

vars == <<status, promptOf, embedded, attributes, answer, removed, env,
          creating, tasks, pc, on, overlapped>>
data == <<status, promptOf, embedded, attributes, answer, removed>>

LogStatus == {"pending", "processing", "completed", "failed"}
Call == {"idle", "mark", "analyse", "save", "fail", "ack"}

Init == /\ status = [l \in Logs |-> "none"]
        /\ promptOf = [l \in Logs |-> None]
        /\ embedded = {}
        /\ attributes = [l \in Logs |-> 0]
        /\ answer = [p \in Prompts |-> None]
        /\ removed = FALSE
        /\ env \in {"development", "production"}
        /\ creating = {}
        /\ tasks = {}
        /\ pc = [w \in Workers |-> "idle"]
        /\ on = [w \in Workers |-> None]
        /\ overlapped = {}

Production == env = "production"

\* Variant: the row is saved, and so made again when it is gone.
SetStatusSaving(l, s) == status' = [status EXCEPT ![l] = s]

\* UPDATE logs SET status: no row, no effect
SetStatus(l, s) ==
    status' = IF status[l] = "none" THEN status ELSE [status EXCEPT ![l] = s]

----------------------------------------------------------------------------
(* createEntry.                                                            *)
SaveEntry(l, p) ==
    /\ ~removed /\ status[l] = "none"
    /\ status' = [status EXCEPT ![l] = "pending"]
    /\ promptOf' = [promptOf EXCEPT ![l] = p]
    /\ creating' = creating \cup {l}
    /\ UNCHANGED <<embedded, attributes, answer, removed, env, tasks, pc, on, overlapped>>

CreateTask(l) ==
    /\ l \in creating
    /\ creating' = creating \ {l}
    /\ tasks' = tasks \cup {l}
    /\ UNCHANGED <<data, env, pc, on, overlapped>>

\* The configuration is missing, Cloud Tasks refuses, the local POST does not
\* get through, or the process dies: the log stays, without a task.
CreateTaskFails(l) ==
    /\ l \in creating
    /\ creating' = creating \ {l}
    /\ UNCHANGED <<data, env, tasks, pc, on, overlapped>>

----------------------------------------------------------------------------
(* processLogEntry.                                                        *)
Goto(w, call) == pc' = [pc EXCEPT ![w] = call]
Release(w) == Goto(w, "idle") /\ on' = [on EXCEPT ![w] = None]

\* The deliveries of l that run; a further one makes them overlap.
Running(l) == {w \in Workers : on[w] = l}
Overlap(l) == overlapped' = IF Running(l) = {} THEN overlapped ELSE overlapped \cup {l}

\* Variant: the answer to the second delivery is forgotten.
DeliverAlways(w, l) ==
    /\ pc[w] = "idle" /\ l \in tasks
    /\ on' = [on EXCEPT ![w] = l]
    /\ tasks' = IF Production THEN tasks ELSE tasks \ {l}
    /\ Overlap(l)
    /\ Goto(w, IF status[l] = "none" THEN "ack" ELSE "mark")
    /\ UNCHANGED <<data, env, creating>>

\* A delivery arrives and findOne loads the log: one that is gone or already
\* completed is answered at once.
Deliver(w, l) ==
    /\ pc[w] = "idle" /\ l \in tasks
    /\ on' = [on EXCEPT ![w] = l]
    /\ tasks' = IF Production THEN tasks ELSE tasks \ {l}
    /\ Overlap(l)
    /\ Goto(w, IF status[l] \in {"none", "completed"} THEN "ack" ELSE "mark")
    /\ UNCHANGED <<data, env, creating>>

MarkProcessing(w) ==
    /\ pc[w] = "mark"
    /\ SetStatus(on[w], "processing")
    /\ Goto(w, "analyse")
    /\ UNCHANGED <<promptOf, embedded, attributes, answer, removed, env, creating, tasks, on, overlapped>>

\* The embedding, the search for context and the analysis: they read only.
AnalyseSucceeds(w) ==
    /\ pc[w] = "analyse"
    /\ Goto(w, "save")
    /\ UNCHANGED <<data, env, creating, tasks, on, overlapped>>

AnalyseFails(w) ==
    /\ pc[w] = "analyse"
    /\ Goto(w, "fail")
    /\ UNCHANGED <<data, env, creating, tasks, on, overlapped>>

\* Variant: the attributes are saved, the prompt and the log are not.
CommitAttributesOnly(w) ==
    LET l == on[w]
    IN /\ pc[w] = "save" /\ status[l] # "none"
       /\ attributes' = [attributes EXCEPT ![l] = IF @ = 2 THEN 2 ELSE @ + 1]
       /\ Goto(w, "ack")
       /\ UNCHANGED <<status, embedded, answer, promptOf, removed, env, creating, tasks, on, overlapped>>

\* The transaction: the log, its attributes and the prompt it answers.
Commit(w) ==
    LET l == on[w]
        p == promptOf[l]
    IN /\ pc[w] = "save" /\ status[l] # "none"
       /\ status' = [status EXCEPT ![l] = "completed"]
       /\ embedded' = embedded \cup {l}
       /\ attributes' = [attributes EXCEPT ![l] = IF @ = 2 THEN 2 ELSE @ + 1]
       /\ answer' = IF p = None THEN answer ELSE [answer EXCEPT ![p] = l]
       /\ Goto(w, "ack")
       /\ UNCHANGED <<promptOf, removed, env, creating, tasks, on, overlapped>>

\* It fails and is rolled back; re-inserting a log whose account is gone
\* always does.
Rollback(w) ==
    /\ pc[w] = "save"
    /\ Goto(w, "fail")
    /\ UNCHANGED <<data, env, creating, tasks, on, overlapped>>

\* Variant: the error is swallowed and the delivery answered with success.
MarkFailedQuietly(w) ==
    /\ pc[w] = "fail"
    /\ SetStatus(on[w], "failed")
    /\ Release(w)
    /\ tasks' = tasks \ {on[w]}
    /\ UNCHANGED <<promptOf, embedded, attributes, answer, removed, env, creating, overlapped>>

\* The catch block: the error is thrown on, so the task stays in the queue.
MarkFailed(w) ==
    /\ pc[w] = "fail"
    /\ SetStatus(on[w], "failed")
    /\ Release(w)
    /\ UNCHANGED <<promptOf, embedded, attributes, answer, removed, env, creating, tasks, overlapped>>

\* The delivery is answered with success: the queue drops the task.
Acknowledge(w) ==
    /\ pc[w] = "ack"
    /\ Release(w)
    /\ tasks' = tasks \ {on[w]}
    /\ UNCHANGED <<data, env, creating, overlapped>>

\* The process dies, or a statement outside the try block fails.
Crash(w) ==
    /\ pc[w] # "idle"
    /\ Release(w)
    /\ UNCHANGED <<data, env, creating, tasks, overlapped>>

\* DELETE /users/:id cascades to the journal.
RemoveUser ==
    /\ ~removed
    /\ removed' = TRUE
    /\ status' = [l \in Logs |-> "none"]
    /\ embedded' = {}
    /\ attributes' = [l \in Logs |-> 0]
    /\ answer' = [p \in Prompts |-> None]
    /\ UNCHANGED <<promptOf, env, creating, tasks, pc, on, overlapped>>

Work(w) == \/ MarkProcessing(w) \/ AnalyseSucceeds(w) \/ AnalyseFails(w) \/ Commit(w)
           \/ Rollback(w) \/ MarkFailed(w) \/ Acknowledge(w)

Next == \/ \E l \in Logs : \/ \E p \in Prompts \cup {None} : SaveEntry(l, p)
                           \/ CreateTask(l) \/ CreateTaskFails(l)
                           \/ \E w \in Workers : Deliver(w, l)
        \/ \E w \in Workers : Work(w) \/ Crash(w)
        \/ RemoveUser

Spec == Init /\ [][Next]_vars

(* A running worker goes on; Cloud Tasks delivers again what was not        *)
(* answered with success; crashes, the model and the database do not stop   *)
(* every delivery of a log for ever.                                        *)
OnLog(w, l) == on[w] = l
FairTo(l) ==
    /\ \A w \in Workers : WF_vars(Work(w))
    /\ WF_vars(CreateTask(l) \/ CreateTaskFails(l))
    /\ SF_vars(\E w \in Workers : Deliver(w, l))
    /\ SF_vars(\E w \in Workers : OnLog(w, l) /\ MarkProcessing(w))
    /\ SF_vars(\E w \in Workers : OnLog(w, l) /\ AnalyseSucceeds(w))
    /\ SF_vars(\E w \in Workers : OnLog(w, l) /\ Commit(w))

FairSpec == Spec /\ \A l \in Logs : FairTo(l)

----------------------------------------------------------------------------
(* Type invariant: a worker has a log exactly while it runs, and a removed  *)
(* account has no logs, though deliveries of its tasks still run.           *)
TypeOK ==
    /\ status \in [Logs -> LogStatus \cup {"none"}]
    /\ promptOf \in [Logs -> Prompts \cup {None}]
    /\ embedded \subseteq Logs
    /\ attributes \in [Logs -> 0 .. 2]
    /\ answer \in [Prompts -> Logs \cup {None}]
    /\ removed \in BOOLEAN
    /\ env \in {"development", "production"}
    /\ creating \subseteq Logs
    /\ tasks \subseteq Logs
    /\ pc \in [Workers -> Call]
    /\ on \in [Workers -> Logs \cup {None}]
    /\ overlapped \subseteq Logs
    /\ \A w \in Workers : pc[w] = "idle" <=> on[w] = None
    /\ removed => \A l \in Logs : status[l] = "none"

(* The analysis of a log is saved whole or not at all, whatever deliveries  *)
(* overlap, fail or crash: its attributes are there exactly when its        *)
(* embedding is, a completed log has them, and then its prompt is answered, *)
(* by a log that was itself analysed (the transaction of processLogEntry).  *)
AnalysisAtomic ==
    /\ \A l \in Logs :
          /\ attributes[l] > 0 <=> l \in embedded
          /\ status[l] = "completed" => l \in embedded
          /\ l \in embedded /\ promptOf[l] # None => answer[promptOf[l]] # None
    /\ \A p \in Prompts : answer[p] # None =>
          answer[p] \in embedded /\ promptOf[answer[p]] = p

(* No entry is dropped: outside a createEntry, a production log without     *)
(* analysis still has its task, unless createTask itself failed (then it    *)
(* is still pending): processLogEntry throws its errors on to the queue.    *)
NoEntryDropped ==
    Production => \A l \in Logs :
        status[l] \in {"processing", "failed"} => l \in embedded \cup tasks

(* An entry whose task reached the queue is analysed in the end, or its     *)
(* account removed, in spite of failures, crashes and overlapping           *)
(* deliveries.                                                              *)
TaskAnalysed(l) == Production /\ l \in tasks ~> l \in embedded \/ removed

(* A log whose deliveries never overlapped is analysed once: redelivery     *)
(* after a failure, a crash or a lost answer does not repeat its            *)
(* attributes, which getStats sums, whatever happens to the other logs.     *)
OnceUnlessOverlapped == \A l \in Logs : attributes[l] = 2 => l \in overlapped

(* Such a log, once completed, stays completed until the account is         *)
(* removed: no late delivery marks it processing or failed again.           *)
CompletedStaysCompleted ==
    [][\A l \in Logs : status[l] = "completed" =>
          status'[l] = "completed" \/ removed' \/ l \in overlapped]_vars

(* The comment of processLogEntry's early return, "already processed": a    *)
(* log is analysed once, however its deliveries come.                       *)
AnalysedOnce == \A l \in Logs : attributes[l] <= 1

----------------------------------------------------------------------------
(* The lifecycle of an entry is what is left of a log when its status, its  *)
(* deliveries and the calls of an analysis are hidden.                      *)
Phase(l) == CASE status[l] = "none" -> "absent"
              [] status[l] # "none" /\ l \in embedded -> "analysed"
              [] status[l] # "none" /\ l \notin embedded /\ Production /\ l \in tasks -> "accepted"
              [] OTHER -> "kept"

Lifecycle == INSTANCE EntryLifecycle
                WITH entry <- [l \in Logs |-> Phase(l)], asked <- promptOf, gone <- removed

(* The journal implements the lifecycle: whatever deliveries overlap, fail  *)
(* or crash, an accepted entry is never un-accepted, an analysed one never  *)
(* un-analysed, and its prompt is answered in the step that analyses it.    *)
ImplementsLifecycle == Lifecycle!Spec
=============================================================================

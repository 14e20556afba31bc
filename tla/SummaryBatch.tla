---------------------------- MODULE SummaryBatch ----------------------------
(***************************************************************************)
(* The weekly batch of summaries: SummaryService.initiateBatchSummaries    *)
(* opens a batch and enqueues its first page, processBatch walks the users *)
(* that are due in the order of their ids, page after page, saving and     *)
(* enqueueing one job for each, and processSummaryTask runs a job.         *)
(* A user is a number: the order of ids.  In production Cloud Tasks keeps  *)
(* a task until a delivery of it is answered with success, and may deliver *)
(* it while an earlier delivery still runs.  In development createTask     *)
(* posts the task once to the server itself, waits for the answer and      *)
(* swallows an error.  A worker is a running delivery and takes one step   *)
(* per call it awaits.                                                     *)
(***************************************************************************)
EXTENDS Naturals, Sequences, FiniteSets

CONSTANTS
    Users,      \* user ids, above the zero id the first page starts after
    Limit,      \* page size (100 in the code)
    Batches, Workers, None,
    Parallel,   \* bound: deliveries at a time in production
    MaxFaults,  \* bound: crashes, failed calls, overlapping deliveries
    MaxJobs     \* bound: job rows

ASSUME UsersAssumption == Users \subseteq Nat \ {0} /\ IsFiniteSet(Users)
ASSUME LimitAssumption == Limit \in Nat \ {0}
ASSUME NoneAssumption ==
    None \notin Nat \cup [type : {"page", "summary"}, batch : Batches \cup {None}, id : Nat]
ASSUME BoundAssumption == Parallel \in Nat /\ MaxFaults \in Nat /\ MaxJobs \in Nat

VARIABLES
    due,     \* users findUsersDueForSummary selects
    batch,   \* summary_job_batches.status
    jobs,    \* summary_jobs, in the order of their INSERTs
    tasks,   \* the queue
    env,     \* NODE_ENV
    opening, \* batches whose row is saved and whose first page is not enqueued
    pc, on,  \* per worker: its next call, its task
    todo,    \* per worker: the users of its page without a job yet
    last,    \* per worker: the last id of its page
    cur,     \* per worker: the job it has just saved or posted
    owed,    \* history: users due without a break since the batch was opened
    faults   \* what the bound counts

vars == <<due, batch, jobs, tasks, env, opening, pc, on, todo, last, cur, owed, faults>>

Page(b, after) == [type |-> "page", batch |-> b, id |-> after]
Summary(j) == [type |-> "summary", batch |-> None, id |-> j]
Call == {"idle", "fetch", "close", "job", "task", "next", "await", "ack",
         "start", "generate", "stamp", "finish", "fail"}

Production == env = "production"

Least(S) == CHOOSE u \in S : \A v \in S : u <= v
Greatest(S) == CHOOSE u \in S : \A v \in S : v <= u

\* Variants of the page: it starts one id late; it starts at the last id again.
PageLate(after) ==
    {u \in due : u > after + 1 /\ Cardinality({v \in due : after < v /\ v < u}) < Limit}
PageAgain(after) ==
    {u \in due : u >= after /\ Cardinality({v \in due : after <= v /\ v < u}) < Limit}

\* findUsersDueForSummary
UsersDue(after) ==
    {u \in due : u > after /\ Cardinality({v \in due : after < v /\ v < u}) < Limit}

Init == /\ due \in SUBSET Users
        /\ batch = [b \in Batches |-> "none"]
        /\ jobs = <<>>
        /\ tasks = {}
        /\ env \in {"development", "production"}
        /\ opening = {}
        /\ pc = [w \in Workers |-> "idle"]
        /\ on = [w \in Workers |-> None]
        /\ todo = [w \in Workers |-> {}]
        /\ last = [w \in Workers |-> 0]
        /\ cur = [w \in Workers |-> None]
        /\ owed = [b \in Batches |-> {}]
        /\ faults = 0

----------------------------------------------------------------------------
(* initiateBatchSummaries.                                                 *)
OpenBatch(b) ==
    /\ batch[b] = "none"
    /\ batch' = [batch EXCEPT ![b] = "in_progress"]
    /\ opening' = opening \cup {b}
    /\ owed' = [owed EXCEPT ![b] = due]
    /\ UNCHANGED <<due, jobs, tasks, pc, on, todo, last, cur, faults, env>>

EnqueueFirstPage(b) ==
    /\ b \in opening
    /\ opening' = opening \ {b}
    /\ tasks' = tasks \cup {Page(b, 0)}
    /\ UNCHANGED <<due, batch, jobs, pc, on, todo, last, cur, owed, faults, env>>

\* createTask fails, in development the post does not get through, or the
\* process dies: the batch stays in progress.
OpenFails(b) ==
    /\ b \in opening /\ faults < MaxFaults
    /\ opening' = opening \ {b}
    /\ faults' = faults + 1
    /\ UNCHANGED <<due, batch, jobs, tasks, pc, on, todo, last, cur, owed, env>>

----------------------------------------------------------------------------
(* Deliveries.                                                             *)
Goto(w, call) == pc' = [pc EXCEPT ![w] = call]
Release(w) == /\ Goto(w, "idle")
              /\ on' = [on EXCEPT ![w] = None]
              /\ todo' = [todo EXCEPT ![w] = {}]
              /\ last' = [last EXCEPT ![w] = 0]
              /\ cur' = [cur EXCEPT ![w] = None]

Running(t) == \E w \in Workers : on[w] = t

Deliver(w, t) ==
    /\ pc[w] = "idle" /\ t \in tasks
    /\ Production => Cardinality({v \in Workers : pc[v] # "idle"}) < Parallel
    /\ IF Running(t) THEN faults < MaxFaults /\ faults' = faults + 1
                     ELSE faults' = faults
    /\ on' = [on EXCEPT ![w] = t]
    /\ tasks' = IF Production THEN tasks ELSE tasks \ {t}
    /\ Goto(w, IF t.type = "page" THEN "fetch" ELSE "start")
    /\ UNCHANGED <<due, batch, jobs, opening, todo, last, cur, owed, env>>

\* The delivery is answered with success.
Acknowledge(w) ==
    /\ pc[w] = "ack"
    /\ tasks' = tasks \ {on[w]}
    /\ Release(w)
    /\ UNCHANGED <<due, batch, jobs, opening, owed, faults, env>>

\* A call outside a try block throws, or the process dies: no success.  In
\* development createTask never throws ...
Crash(w) ==
    /\ pc[w] # "idle" /\ faults < MaxFaults
    /\ Production \/ pc[w] \notin {"task", "next", "await"}
    /\ faults' = faults + 1
    /\ Release(w)
    /\ UNCHANGED <<due, batch, jobs, tasks, opening, owed, env>>

\* ... though the post may not get through ...
LosePost(t) ==
    /\ ~Production /\ t \in tasks /\ faults < MaxFaults
    /\ tasks' = tasks \ {t}
    /\ faults' = faults + 1
    /\ UNCHANGED <<due, batch, jobs, opening, pc, on, todo, last, cur, owed, env>>

\* ... and all deliveries die with the one process.
Die ==
    /\ ~Production /\ faults < MaxFaults
    /\ faults' = faults + 1
    /\ tasks' = {} /\ opening' = {}
    /\ pc' = [w \in Workers |-> "idle"]
    /\ on' = [w \in Workers |-> None]
    /\ todo' = [w \in Workers |-> {}]
    /\ last' = [w \in Workers |-> 0]
    /\ cur' = [w \in Workers |-> None]
    /\ UNCHANGED <<due, batch, jobs, owed, env>>

----------------------------------------------------------------------------
(* processBatch.                                                           *)
\* Variant: an empty page is not told apart.
FetchPageAny(w) ==
    LET users == UsersDue(on[w].id)
    IN /\ pc[w] = "fetch"
       /\ todo' = [todo EXCEPT ![w] = users]
       /\ last' = [last EXCEPT ![w] = IF users = {} THEN 0 ELSE Greatest(users)]
       /\ Goto(w, "job")
       /\ UNCHANGED <<due, batch, jobs, tasks, opening, on, cur, owed, faults, env>>

FetchPage(w) ==
    LET users == UsersDue(on[w].id)
    IN /\ pc[w] = "fetch"
       /\ todo' = [todo EXCEPT ![w] = users]
       /\ last' = [last EXCEPT ![w] = IF users = {} THEN 0 ELSE Greatest(users)]
       /\ Goto(w, IF users = {} THEN "close" ELSE "job")
       /\ UNCHANGED <<due, batch, jobs, tasks, opening, on, cur, owed, faults, env>>

CloseBatch(w) ==
    /\ pc[w] = "close"
    /\ batch' = [batch EXCEPT ![on[w].batch] = "completed"]
    /\ Goto(w, "ack")
    /\ UNCHANGED <<due, jobs, tasks, opening, on, todo, last, cur, owed, faults, env>>

\* The first user of the page without a job gets one ...
SaveJob(w) ==
    /\ pc[w] = "job" /\ Len(jobs) < MaxJobs
    /\ jobs' = Append(jobs, [batch |-> on[w].batch, user |-> Least(todo[w]),
                             status |-> "pending"])
    /\ cur' = [cur EXCEPT ![w] = Len(jobs) + 1]
    /\ Goto(w, "task")
    /\ UNCHANGED <<due, batch, tasks, opening, on, todo, last, owed, faults, env>>

\* The call after the job cur[w] or, for None, the next page is enqueued.
AfterTask(w, rest) == IF cur[w] = None THEN "ack" ELSE IF rest = {} THEN "next" ELSE "job"

\* Variant: "fire and forget", as the comment of createLocalTask has it.
EnqueueJobOnly(w) ==
    LET rest == todo[w] \ {jobs[cur[w]].user}
    IN /\ pc[w] = "task"
       /\ tasks' = tasks \cup {Summary(cur[w])}
       /\ todo' = [todo EXCEPT ![w] = rest]
       /\ cur' = [cur EXCEPT ![w] = None]
       /\ Goto(w, AfterTask(w, rest))
       /\ UNCHANGED <<due, batch, jobs, opening, on, last, owed, faults, env>>

\* ... and a task; in development it waits for the answer.
EnqueueJob(w) ==
    LET rest == todo[w] \ {jobs[cur[w]].user}
    IN /\ pc[w] = "task"
       /\ tasks' = tasks \cup {Summary(cur[w])}
       /\ todo' = [todo EXCEPT ![w] = rest]
       /\ IF Production THEN Goto(w, AfterTask(w, rest)) /\ cur' = [cur EXCEPT ![w] = None]
                        ELSE Goto(w, "await") /\ UNCHANGED cur
       /\ UNCHANGED <<due, batch, jobs, opening, on, last, owed, faults, env>>

EnqueueNextPage(w) ==
    /\ pc[w] = "next"
    /\ tasks' = tasks \cup {Page(on[w].batch, last[w])}
    /\ Goto(w, IF Production THEN "ack" ELSE "await")
    /\ UNCHANGED <<due, batch, jobs, opening, on, todo, last, cur, owed, faults, env>>

\* The task that w waits for.
Posted(w) == IF cur[w] = None THEN Page(on[w].batch, last[w]) ELSE Summary(cur[w])

\* createLocalTask has the answer, or an error it swallows.
Resume(w) ==
    /\ pc[w] = "await" /\ Posted(w) \notin tasks /\ ~Running(Posted(w))
    /\ cur' = [cur EXCEPT ![w] = None]
    /\ Goto(w, AfterTask(w, todo[w]))
    /\ UNCHANGED <<due, batch, jobs, tasks, opening, on, todo, last, owed, faults, env>>

----------------------------------------------------------------------------
(* processSummaryTask.                                                     *)
SetJob(w, s) == jobs' = [jobs EXCEPT ![on[w].id].status = s]

\* No user of R is due any longer.
NotDue(R) == /\ due' = due \ R
             /\ owed' = [b \in Batches |-> owed[b] \ R]

StartJob(w) ==
    /\ pc[w] = "start"
    /\ SetJob(w, "processing")
    /\ Goto(w, "generate")
    /\ UNCHANGED <<due, batch, tasks, opening, on, todo, last, cur, owed, faults, env>>

GenerateSucceeds(w) ==
    /\ pc[w] = "generate"
    /\ Goto(w, "stamp")
    /\ UNCHANGED <<due, batch, jobs, tasks, opening, on, todo, last, cur, owed, faults, env>>

\* generateWeeklySummary throws.
GenerateFails(w) ==
    /\ pc[w] = "generate"
    /\ Goto(w, "fail")
    /\ UNCHANGED <<due, batch, jobs, tasks, opening, on, todo, last, cur, owed, faults, env>>

\* updateLastSummaryAt
StampUser(w) ==
    /\ pc[w] = "stamp"
    /\ NotDue({jobs[on[w].id].user})
    /\ Goto(w, "finish")
    /\ UNCHANGED <<batch, jobs, tasks, opening, on, todo, last, cur, faults, env>>

\* A statement of the try block after the summary fails.
LateFailure(w) ==
    /\ pc[w] \in {"stamp", "finish"} /\ faults < MaxFaults
    /\ faults' = faults + 1
    /\ Goto(w, "fail")
    /\ UNCHANGED <<due, batch, jobs, tasks, opening, on, todo, last, cur, owed, env>>

FinishJob(w) ==
    /\ pc[w] = "finish"
    /\ SetJob(w, "completed")
    /\ Goto(w, "ack")
    /\ UNCHANGED <<due, batch, tasks, opening, on, todo, last, cur, owed, faults, env>>

\* Variant: the error is swallowed, the job left as it is and the delivery
\* answered with success.
FailJobSilently(w) ==
    /\ pc[w] = "fail"
    /\ Goto(w, "ack")
    /\ UNCHANGED <<due, batch, jobs, tasks, opening, on, todo, last, cur, owed, faults, env>>

\* The error is recorded and the delivery answered with success.
FailJob(w) ==
    /\ pc[w] = "fail"
    /\ SetJob(w, "failed")
    /\ Goto(w, "ack")
    /\ UNCHANGED <<due, batch, tasks, opening, on, todo, last, cur, owed, faults, env>>

----------------------------------------------------------------------------
(* Seven days have passed since the last summary, or an account is new;     *)
(* an account is removed.                                                   *)
BecomeDue(u) == /\ u \notin due
                /\ due' = due \cup {u}
                /\ UNCHANGED <<batch, jobs, tasks, opening, pc, on, todo, last, cur, owed, faults, env>>

RemoveUser(u) == /\ u \in due
                 /\ NotDue({u})
                 /\ UNCHANGED <<batch, jobs, tasks, opening, pc, on, todo, last, cur, faults, env>>

Work(w) == \/ FetchPage(w) \/ CloseBatch(w) \/ SaveJob(w) \/ EnqueueJob(w)
           \/ EnqueueNextPage(w) \/ Resume(w) \/ StartJob(w) \/ GenerateSucceeds(w) \/ GenerateFails(w)
           \/ StampUser(w) \/ FinishJob(w) \/ FailJob(w) \/ Acknowledge(w)

Next == \/ \E b \in Batches : OpenBatch(b) \/ EnqueueFirstPage(b) \/ OpenFails(b)
        \/ \E w \in Workers : \/ \E t \in tasks : Deliver(w, t)
                              \/ Work(w) \/ LateFailure(w) \/ Crash(w)
        \/ \E t \in tasks : LosePost(t)
        \/ Die
        \/ \E u \in Users : BecomeDue(u) \/ RemoveUser(u)

Spec == Init /\ [][Next]_vars

(* The process keeps serving, and the queue keeps delivering.               *)
Fairness == /\ \A w \in Workers : WF_vars(Work(w))
            /\ WF_vars(\E w \in Workers, t \in tasks : ~Running(t) /\ Deliver(w, t))

FairSpec == Spec /\ Fairness

----------------------------------------------------------------------------
Task == {Page(b, n) : b \in Batches, n \in Users \cup {0}}
        \cup {Summary(j) : j \in 1 .. Len(jobs)}
Job == [batch : Batches, user : Users,
        status : {"pending", "processing", "completed", "failed"}]

(* Type invariant: each worker runs a task of the kind its next call is of, *)
(* and has users to serve while it walks a page.                            *)
TypeOK ==
    /\ due \subseteq Users
    /\ batch \in [Batches -> {"none", "in_progress", "completed"}]
    /\ jobs \in Seq(Job)
    /\ tasks \subseteq Task
    /\ env \in {"development", "production"}
    /\ opening \subseteq Batches
    /\ pc \in [Workers -> Call]
    /\ todo \in [Workers -> SUBSET Users]
    /\ last \in [Workers -> Users \cup {0}]
    /\ cur \in [Workers -> (1 .. Len(jobs)) \cup {None}]
    /\ owed \in [Batches -> SUBSET due]
    /\ faults \in 0 .. MaxFaults
    /\ on \in [Workers -> Task \cup {None}]
    /\ \A w \in Workers :
          /\ pc[w] = "idle" <=> on[w] = None
          /\ pc[w] \in {"fetch", "close", "job", "task", "next", "await"} => on[w].type = "page"
          /\ pc[w] \in {"start", "generate", "stamp", "finish", "fail"} => on[w].type = "summary"
          /\ pc[w] \in {"job", "task"} => todo[w] # {}
          /\ pc[w] = "task" => cur[w] # None
          /\ cur[w] # None => pc[w] \in {"task", "await"}

\* u has a job of batch b that runs, has run, or waits in the queue
Served(b, u) ==
    \E j \in DOMAIN jobs : /\ jobs[j].batch = b /\ jobs[j].user = u
                           /\ jobs[j].status # "pending" \/ Summary(j) \in tasks

(* A batch is only completed when every user who has been due since it was  *)
(* opened has been handed to the queue: "the set might shrink ..., but with *)
(* keyset we just move forward" (processBatch).  It holds for pages that    *)
(* crash half way, are delivered twice or overlap, while other users become *)
(* due and jobs of the same batch already run.  In development it takes     *)
(* that no post fails.                                                      *)
CompletedBatchCovers ==
    Production \/ faults = 0 =>
        \A b \in Batches : batch[b] = "completed" => \A u \in owed[b] : Served(b, u)

(* No user gets two jobs of one batch, in development and, as long as there *)
(* is no fault, in production: pages are apart although jobs that fail      *)
(* leave their users due.                                                   *)
OneJobPerUser ==
    ~Production \/ faults = 0 => \A i, j \in DOMAIN jobs :
        jobs[i].batch = jobs[j].batch /\ jobs[i].user = jobs[j].user => i = j

Ended == {"completed", "failed"}

\* jobs of completed batches that have not ended
LeftOver == {j \in DOMAIN jobs : batch[jobs[j].batch] = "completed" /\ jobs[j].status \notin Ended}

(* In development, where a page waits for each of its jobs, no job of a     *)
(* completed batch is queued or running.  Each has ended, completed or      *)
(* failed, but for one per fault: a lost post leaves its job pending and a  *)
(* crash leaves one processing, for ever (createLocalTask swallows the      *)
(* error).  The death of the process leaves none: the batches under way are *)
(* never completed.                                                         *)
LocalBatchSettles ==
    ~Production =>
        /\ \A j \in DOMAIN jobs : batch[jobs[j].batch] = "completed" =>
              Summary(j) \notin tasks /\ ~Running(Summary(j))
        /\ Cardinality(LeftOver) <= faults

(* A batch whose first page is in the queue is completed in the end: every  *)
(* page moves to greater ids.  In development it takes that no post fails.  *)
BatchCompletes ==
    \A b \in Batches :
        Page(b, 0) \in tasks ~> batch[b] = "completed" \/ (~Production /\ faults > 0)

(* A job in the queue ends, completed or failed.                            *)
JobEnds ==
    \A j \in 1 .. MaxJobs :
        Summary(j) \in tasks ~>
            \/ j \in DOMAIN jobs /\ jobs[j].status \in Ended
            \/ ~Production /\ faults > 0
=============================================================================

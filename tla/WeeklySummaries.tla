--------------------------- MODULE WeeklySummaries ---------------------------
(***************************************************************************)
(* The weekly summaries of one account: SummaryService.                    *)
(* generateWeeklySummary, run by the owner (POST summary/trigger) or by a  *)
(* job of the weekly batch (processSummaryTask), which then stamps the     *)
(* account; and the handlers that load the whole user row and save it      *)
(* later, the stamp included (UsersService.update, recordFailedLogin).     *)
(* A request takes one step per database call.  A job stays in the queue   *)
(* until a delivery of it is answered with success.                        *)
(***************************************************************************)
EXTENDS Naturals, Sequences

CONSTANTS
    Requests, None,
    Week,                                    \* seven days
    MaxTime, MaxLogs, MaxSummaries, MaxJobs  \* bounds: clock, rows, jobs

ASSUME WeekAssumption == Week \in Nat \ {0}
ASSUME BoundAssumption ==
    MaxTime \in Nat /\ MaxLogs \in Nat /\ MaxSummaries \in Nat /\ MaxJobs \in Nat
ASSUME NoneAssumption == None \notin Nat

VARIABLES
    now,        \* the clock
    logs,       \* logs.created_at, in the order of the INSERTs
    summaries,  \* the weekly summaries, in the order of created_at
    stamp,      \* users.last_summary_at; 0 for NULL
    removed,    \* the account and, by cascade, its rows are gone
    issued,     \* number of jobs the batches have made for the account
    queue,      \* jobs in the queue
    pc,         \* per request: the call it is about to make
    job,        \* per request: its job; None for a request of the owner
    target,     \* per request: summaryToUpdate, or the summary it has saved
    found,      \* per request: the logs it summarises
    held,       \* per request: the stamp of the user entity it holds
    sealed,     \* history: the jobs there were when the job of a summary
                \* stamped the account; 0 before
    kept,       \* history: the stamp never went back
    alone       \* history: no two requests have overlapped

vars == <<now, logs, summaries, stamp, removed, issued, queue, pc, job, target,
          found, held, sealed, kept, alone>>
rows == <<logs, summaries, stamp, removed, sealed, kept>>
locals == <<pc, job, target, found, held>>

Call == {"idle", "logs", "save", "stamp", "finish", "user"}
Busy == {r \in Requests : pc[r] # "idle"}

Init == /\ now = 1
        /\ logs = <<>> /\ summaries = <<>> /\ stamp = 0 /\ removed = FALSE
        /\ issued = 0 /\ queue = {}
        /\ pc = [r \in Requests |-> "idle"]
        /\ job = [r \in Requests |-> None]
        /\ target = [r \in Requests |-> None]
        /\ found = [r \in Requests |-> {}]
        /\ held = [r \in Requests |-> 0]
        /\ sealed = [i \in 1 .. MaxSummaries |-> 0]
        /\ kept = TRUE /\ alone = TRUE

\* findUsersDueForSummary
Due == stamp = 0 \/ stamp + Week < now

\* Variant: a summary is current for a day less.
CurrentShorter ==
    IF summaries = <<>> \/ summaries[Len(summaries)].created + Week <= now + 1
    THEN None ELSE Len(summaries)

\* Variant: the latest summary is always updated.
LatestAny == IF summaries = <<>> THEN None ELSE Len(summaries)

\* the latest summary, when it is less than seven whole days old
CurrentSummary ==
    IF summaries = <<>> \/ summaries[Len(summaries)].created + Week <= now
    THEN None ELSE Len(summaries)

\* Variant: the last day only.
LogsOfDay == {e \in 1 .. Len(logs) : logs[e] + 1 > now}

\* the logs of the last seven days
RecentLogs == {e \in 1 .. Len(logs) : logs[e] + Week >= now}

----------------------------------------------------------------------------
(* Requests begin and end.                                                 *)
Goto(r, call, j, t, L, h) ==
    /\ pc' = [pc EXCEPT ![r] = call]
    /\ job' = [job EXCEPT ![r] = j]
    /\ target' = [target EXCEPT ![r] = t]
    /\ found' = [found EXCEPT ![r] = L]
    /\ held' = [held EXCEPT ![r] = h]

Begin(r, call, j, t, h) ==
    /\ pc[r] = "idle"
    /\ Goto(r, call, j, t, {}, h)
    /\ alone' = (alone /\ Busy = {})

Step(r, call, t, L) == Goto(r, call, job[r], t, L, held[r]) /\ UNCHANGED alone

Finish(r) == Goto(r, "idle", None, None, {}, 0) /\ UNCHANGED alone

\* the call after generateWeeklySummary: a job stamps the account
AfterSummary(r, t) ==
    IF job[r] = None THEN Finish(r) ELSE Step(r, "stamp", t, {})

(* POST summary/trigger                                                     *)
Trigger(r) ==
    /\ ~removed
    /\ Begin(r, "logs", None, CurrentSummary, 0)
    /\ UNCHANGED <<now, rows, issued, queue>>

(* A page of a batch selects the account and makes a job for it.            *)
SelectDue ==
    /\ ~removed /\ Due /\ issued < MaxJobs
    /\ issued' = issued + 1
    /\ queue' = queue \cup {issued + 1}
    /\ UNCHANGED <<now, rows, locals, alone>>

(* A delivery of a job arrives: processSummaryTask.                         *)
Deliver(r, j) ==
    /\ j \in queue
    /\ Begin(r, "logs", j, CurrentSummary, 0)
    /\ UNCHANGED <<now, rows, issued, queue>>

----------------------------------------------------------------------------
(* generateWeeklySummary has looked for the summary of the week.            *)
\* Without logs it returns null.
FindLogs(r) ==
    /\ pc[r] = "logs"
    /\ IF RecentLogs = {} THEN AfterSummary(r, None)
                          ELSE Step(r, "save", target[r], RecentLogs)
    /\ UNCHANGED <<now, rows, issued, queue>>

\* The model has answered.  A summary found before is overwritten.
UpdateSummary(r) ==
    /\ pc[r] = "save" /\ target[r] # None /\ ~removed
    /\ summaries' = [summaries EXCEPT ![target[r]].content = found[r]]
    /\ AfterSummary(r, target[r])
    /\ UNCHANGED <<now, logs, stamp, removed, sealed, kept, issued, queue>>

CreateSummary(r) ==
    /\ pc[r] = "save" /\ target[r] = None /\ ~removed /\ Len(summaries) < MaxSummaries
    /\ summaries' = Append(summaries, [created |-> now, content |-> found[r]])
    /\ AfterSummary(r, Len(summaries) + 1)
    /\ UNCHANGED <<now, logs, stamp, removed, sealed, kept, issued, queue>>

----------------------------------------------------------------------------
(* processSummaryTask goes on with updateLastSummaryAt, which has no effect *)
(* on a row that is gone ...                                                *)
Seal(t) == sealed' = IF t = None THEN sealed ELSE [sealed EXCEPT ![t] = issued]

\* Variant: the row is saved, an account that is gone is inserted again.
StampUserSaving(r) ==
    /\ pc[r] = "stamp"
    /\ stamp' = now /\ Seal(target[r])
    /\ Step(r, "finish", None, {})
    /\ UNCHANGED <<now, logs, summaries, removed, kept, issued, queue>>

StampUser(r) ==
    /\ pc[r] = "stamp"
    /\ IF removed THEN UNCHANGED <<stamp, sealed>> ELSE stamp' = now /\ Seal(target[r])
    /\ Step(r, "finish", None, {})
    /\ UNCHANGED <<now, logs, summaries, removed, kept, issued, queue>>

\* ... and is answered with success.
FinishJob(r) ==
    /\ pc[r] = "finish"
    /\ queue' = queue \ {job[r]}
    /\ Finish(r)
    /\ UNCHANGED <<now, rows, issued>>

(* The model or the database fails, or a foreign key does: the owner gets   *)
(* an error; a job is marked failed and answered with success all the same. *)
Fail(r) ==
    /\ pc[r] \notin {"idle", "user"}
    /\ queue' = queue \ {job[r]}
    /\ Finish(r)
    /\ UNCHANGED <<now, rows, issued>>

(* The process dies: a job stays in the queue.                              *)
Crash(r) ==
    /\ pc[r] # "idle"
    /\ Finish(r)
    /\ UNCHANGED <<now, rows, issued, queue>>

----------------------------------------------------------------------------
(* update and recordFailedLogin load the user row and save all of it.  The  *)
(* save fails on a row that is gone: the entity has no password.  (Accounts *)
(* has the update that brings a new one.)                                   *)
\* Variant: the entity comes without the stamp.
LoadUserWithout(r) ==
    /\ ~removed
    /\ Begin(r, "user", None, None, 0)
    /\ UNCHANGED <<now, rows, issued, queue>>

LoadUser(r) ==
    /\ ~removed
    /\ Begin(r, "user", None, None, stamp)
    /\ UNCHANGED <<now, rows, issued, queue>>

SaveUser(r) ==
    /\ pc[r] = "user" /\ ~removed
    /\ stamp' = held[r]
    /\ kept' = (kept /\ held[r] >= stamp)
    /\ Finish(r)
    /\ UNCHANGED <<now, logs, summaries, removed, sealed, issued, queue>>

(* createEntry: one INSERT.                                                 *)
WriteLog ==
    /\ ~removed /\ Len(logs) < MaxLogs
    /\ logs' = Append(logs, now)
    /\ UNCHANGED <<now, summaries, stamp, removed, sealed, kept, issued, queue, locals, alone>>

(* DELETE /users/:id cascades to logs and summaries.                        *)
RemoveUser ==
    /\ ~removed
    /\ removed' = TRUE
    /\ logs' = <<>> /\ summaries' = <<>> /\ stamp' = 0
    /\ sealed' = [i \in 1 .. MaxSummaries |-> 0]
    /\ UNCHANGED <<now, kept, issued, queue, locals, alone>>

Tick == /\ now < MaxTime
        /\ now' = now + 1
        /\ UNCHANGED <<rows, issued, queue, locals, alone>>

Next == \/ \E r \in Requests :
              \/ Trigger(r) \/ \E j \in queue : Deliver(r, j)
              \/ FindLogs(r) \/ UpdateSummary(r) \/ CreateSummary(r)
              \/ StampUser(r) \/ FinishJob(r) \/ Fail(r) \/ Crash(r)
              \/ LoadUser(r) \/ SaveUser(r)
        \/ SelectDue \/ WriteLog \/ RemoveUser \/ Tick

Spec == Init /\ [][Next]_vars

----------------------------------------------------------------------------
(* Type invariant: a request that updates a summary found it, and after     *)
(* the account is removed no request under way brings rows of it back.      *)
TypeOK ==
    /\ now \in Nat \ {0}
    /\ logs \in Seq(1 .. now) /\ Len(logs) <= MaxLogs
    /\ summaries \in Seq([created : 1 .. now, content : SUBSET (1 .. Len(logs))])
    /\ Len(summaries) <= MaxSummaries
    /\ stamp \in 0 .. now
    /\ removed \in BOOLEAN
    /\ issued \in 0 .. MaxJobs /\ queue \subseteq 1 .. issued
    /\ pc \in [Requests -> Call]
    /\ job \in [Requests -> (1 .. issued) \cup {None}]
    /\ target \in [Requests -> (1 .. MaxSummaries) \cup {None}]
    /\ found \in [Requests -> SUBSET (1 .. MaxLogs)]
    /\ held \in [Requests -> 0 .. now]
    /\ sealed \in [1 .. MaxSummaries -> 0 .. issued]
    /\ kept \in BOOLEAN /\ alone \in BOOLEAN
    /\ \A r \in Requests :
          /\ ~removed => /\ target[r] \in (1 .. Len(summaries)) \cup {None}
                         /\ found[r] \subseteq 1 .. Len(logs)
          /\ pc[r] \in {"stamp", "finish"} => job[r] # None
    /\ removed => logs = <<>> /\ summaries = <<>> /\ stamp = 0

(* While requests have not overlapped there is one summary a week: the look *)
(* for the summary of the week and the save are apart by the call of the    *)
(* model, and requests fail, crash and are delivered again in between.      *)
OneSummaryPerWeek ==
    alone => \A i, j \in 1 .. Len(summaries) :
        i < j => summaries[i].created + Week <= summaries[j].created

(* While requests have not overlapped, overwriting a summary only forgets   *)
(* what is more than a week old: an entry the summaries tell of is in them  *)
(* for its week, although each update replaces the whole text.              *)
Told(e) == \E i \in 1 .. Len(summaries) : e \in summaries[i].content

ForgetsOnlyOld ==
    [][alone /\ ~removed' =>
          \A e \in 1 .. Len(logs) : Told(e) /\ ~Told(e)' => logs[e] + Week < now]_vars

(* An account is not summarised twice in a week: when findUsersDueForSummary*)
(* selects it, the summaries its jobs have finished are over a week old.    *)
(* That needs the stamp, which only a save of a user entity loaded before   *)
(* it was set can take back; without overlap none does.                     *)
NotDueTwice ==
    (kept \/ alone) /\ Due =>
        \A i \in 1 .. Len(summaries) : sealed[i] > 0 => summaries[i].created + Week < now

(* The limits of findUsersDueForSummary and generateWeeklySummary agree: a  *)
(* summary whose job has stamped the account is never overwritten by a job  *)
(* made later, only by the owner or by a job that was selected before,      *)
(* however triggers, jobs and repeated deliveries overlap.                  *)
Overwrites(r, i) == /\ pc[r] = "save" /\ target[r] = i
                    /\ job[r] = None \/ job[r] \in 1 .. sealed[i]

JobsMakeTheirOwn ==
    [][kept /\ ~removed' =>
          \A i \in 1 .. Len(summaries) :
              sealed[i] > 0 /\ summaries'[i].content # summaries[i].content
                  => \E r \in Requests : Overwrites(r, i)]_vars
=============================================================================

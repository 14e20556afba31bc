# Holarium API: a TLA+ verification project

Holarium API (`src/`) is a NestJS service over PostgreSQL. It registers users, logs them in with
rotating refresh tokens, keeps their journal, has each entry analysed by a language model through
Google Cloud Tasks, and once a week writes summaries in a batch. Node runs a handler without
interruption between two `await`s, so the steps of the models are database calls, model calls and
task deliveries, and everything between two of them is part of one action.

## 1. Inventory

| Component | State | Operations | What makes it correct |
| --- | --- | --- | --- |
| Refresh tokens (`auth/auth.service.ts`, `auth/entities`) | table `refresh_tokens` | register, login, refresh, logout, logout from all devices, pruning of expired rows, enforcement of the limit, revocation of a family, parseDurationToMs | a retired token is never usable again; rotation leaves a chain; the limit holds at each answer; a replay ends the session |
| Users and lockout (`users/`, `validateUser`) | table `users` | create, update, remove, password check, failed and successful login | the counter counts; a lock holds until its end; removed accounts stay removed |
| Journal entries (`journal/journal.service.ts`) | tables `logs`, `attributes`, `prompts` | createEntry, processLogEntry, read-only statistics | an analysis is saved whole, once, and in the end |
| Prompts (`journal/prompt.service.ts`) | table `prompts` | getOnboardingPrompts, getDailyPrompt | one set of questions, one open prompt a day, follow-ups in order |
| Weekly summaries (`journal/summary.service.ts`) | tables `summary_job_batches`, `summary_jobs`, `summaries`, `users.last_summary_at` | initiateBatchSummaries, processBatch, processSummaryTask, generateWeeklySummary | a completed batch has reached every due user; batches and jobs end; one summary a week, which a later one does not overwrite |
| Task queue (`cloud-tasks/`, `auth/guards/cloud-task.guard.ts`) | the queue (external) | createTask | at-least-once delivery in production, one attempt in development |
| Guards and strategies | none | admit or refuse | what they require of an account is a guard of the actions |
| Language model (`journal/llm.service.ts`) | none | analyzeLog, generateSummary, generatePrompt, generateOnboardingQuestions | seen from its callers: a reply, a fallback or an error |
| Vectors, cryptography, configuration, logging, health, migrations | none that changes | - | not modelled (section 7) |

How they interact: a handler of tokens loads the user row with the token (status, lock) and the
tables are joined by foreign keys (`ON DELETE CASCADE` for the user, `SET NULL` for `rotated_from`).
createEntry and processBatch hand tasks to the queue, which calls back over HTTP; the analysis of an
entry answers a prompt; a job of the batch stamps the user row, on which the next page depends, and
which login failures and profile updates load and save whole.

What is hard here: handlers of different requests interleave at every call, and none of them
except processLogEntry uses a transaction; entities are found, kept over calls and saved whole;
Cloud Tasks repeats and overlaps deliveries; any step may be the last before a crash. The
list of hazards with their lines is in `PROJECT.json`.

## 2. Modules

| Module | Models | Runs |
| --- | --- | --- |
| `RefreshTokens` | the token table and its handlers | `MCRefreshTokens`: 4 |
| `Sessions` | abstract: a session passes on one token until it ends | as a property of `tokens_sequential` |
| `Durations` | the two readings of REFRESH_TOKEN_TTL | assumption of `MCRefreshTokens` |
| `Accounts` | the users table, login and lockout | `MCAccounts`: 2 |
| `JournalEntries` | entries, queue, analysis | `MCJournalEntries`: 2 |
| `EntryLifecycle` | abstract: an entry is kept, accepted, analysed | as a property of `entries_overlap` |
| `SummaryBatch` | the batch, its pages and jobs, for all users | `MCSummaryBatch`: 2 |
| `WeeklySummaries` | summaries, jobs and stamp of one account | `MCWeeklySummaries`: 1 |
| `Prompts` | onboarding and daily prompts | `MCPrompts`: 1 |
| `RefreshTokensProofs`, `SessionsProofs`, `DurationsProofs`, `AccountsProofs`, `JournalEntriesProofs`, `SummaryBatchProofs`, `WeeklySummariesProofs`, `PromptsProofs` | the theorems of section 5 | - |

In each module one action stands for one call of a handler together with the code up to its next call; a
request (or worker) has a program counter `pc` that names that call, and the locals that later
calls read. Definitions named as variants (`...Late`, `...Again` and so on) are not part of any
specification: they are plausible mistakes in the definition that follows them, and each property
is known to catch one (`mutants` in `PROJECT.json`).

### RefreshTokens
`rows` is the table as a function on the ids present; an id is the number of its INSERT, which stands for
`created_at`. `ents[r]` holds the entities a request has found and marked. `save` of such an entity
(`Written`) makes the row equal to it and inserts a row that is gone, which is what TypeORM's save does: it
selects the rows, then writes the differing columns or inserts; its SELECT and its write are one
step. `KeysHold` is the foreign keys: a save that breaks one fails (`Abort`). `Without` is DELETE with
`SET NULL`. The lifetimes of the row (`RefreshTtl`, read by parseDurationToMs) and of the JWT
(`JwtTtl`, read by the JWT library from the same string) are separate constants. An account is seen as the
handlers see it: `absent`, `active`, `blocked` or `removed`, changed by others at any time. Clients
present any token that was ever answered to anybody. A request that is refused without a write is not a step.
`Phase` maps the rows of a family to a session of `Sessions`: open while a row is usable, renewing while a request is
between the revocation of the old token and the insert of the new one, else ended.

### Durations
`ParseDurationToMs` and `LibraryMs` read a text as the service and the JWT library (with `ms` 2.1.3) do. A text is a whole number and what follows it:
one of the four letters the service knows, nothing, another spelling of one of the seven units of the library (one class per unit, as
all its spellings are read alike), or anything else, which the library refuses. Fractions, signs and exponents are left out.

### Accounts
A login reads the row once, so the test of the lock, the comparison and the test of the status
use one snapshot: `LoginWrong` and `LoginRight` are that read, and the write comes later. `recordFailedLogin` and
`update` find an entity, change the copy and save all of it. `password` tells whether an entity carries one:
the finds do not select the column, so a save of a vanished row fails unless the update sets a password.
The user name is handled as the email is and left out, as are roles and the time stamps of logins.

### JournalEntries
A worker is a running delivery. In production a task stays until a delivery is answered with success
and may be delivered while another delivery of it runs; in development the POST is made once
(`env`). Embedding, search and analysis only read, and are one step that succeeds or fails. The
transaction is one step. `attributes` counts the batches of attribute rows of a log up to two. `overlapped` is a history
variable: the logs of which two deliveries have run at a time. `Phase` maps a log to an entry of `EntryLifecycle`: kept,
accepted once its task is in the queue of production, analysed once its embedding is saved; the prompt is answered in that step.

### SummaryBatch
Users are numbers, in the order of ids. `due` is what findUsersDueForSummary selects; time and new
accounts make users due, a summary or removal ends it. `owed` is a history variable: the users due without a
break since the batch was opened. Faults (crashes, overlapping deliveries, failed calls outside a
`try`, lost posts) are counted up to `MaxFaults`. `env` is the queue's environment: that of production repeats a task until a delivery
succeeds, `Parallel` of them at a time; in development createTask posts the task once to the server itself and waits (`"await"`) until the delivery
has ended, so a page waits for each of its jobs and for the next page, an error is swallowed, and all deliveries die with
the one process (`Die`). `tasks` is a set: pages of a batch that start at the same id are one task. generateWeeklySummary is
one step that succeeds or fails; `WeeklySummaries` opens it.

### WeeklySummaries
One account and the three kinds of handler that touch its summaries and its stamp `last_summary_at`: the
owner's trigger, the jobs a batch makes for it (selected by `Due`, kept by the queue until a delivery is answered), and the
handlers that load the whole user row and save it later, stamp included. The clock is discrete and `Week` is seven days in its
unit; `Due` is the `<` of findUsersDueForSummary, `CurrentSummary` the comparison of whole days in
generateWeeklySummary, `RecentLogs` the `>=` of its query. The look for the summary of the week is the beginning of a request and
the save a later step; a save of a summary whose row is gone fails, as its account is gone (`Fail`). A save of a user
row that is gone fails too, because the entity carries no password. History variables: `sealed`, the jobs there were when the job
that made a summary stamped the account; `kept`, the stamp never went back; `alone`, no two requests have overlapped.

### Prompts
The clock counts days. `Questions` is what generateOnboardingQuestions makes of a `Reply` of the model.
`FindOpen` and `FindOnboarding` are requests that find nothing to serve (the others write nothing), followed by the other look-ups and the save, each a step; an entry may answer any
prompt at any time.

## 3. Runs and what they show

| Run | Instance | Shows |
| --- | --- | --- |
| `tokens_concurrent` | 1 account, 2 requests, limit 1, 3 inserts, clock 1..2 | `TypeOK`; `RotationChain`; `EnforcedLimit`; `RetiredStaysRetired` under every interleaving |
| `tokens_sequential` | 1 account, 1 request at a time, limit 2, 4 inserts, clock 1..3 | `OneLivePerFamily`, `EndedFamiliesStayEnded`, `FreshTokenUsable`, `ImplementsSessions`: what holds as long as requests do not overlap |
| `tokens_prune` (violated) | 1 account, limit 2 | the limit counts revoked rows: a usable token is pruned from an account within the limit |
| `tokens_replay` (violated) | 2 requests | a replay during a rotation leaves the successor usable |
| `accounts_concurrent` | 1 account, 2 emails, 2 requests, threshold 2, 3 failures, clock 1..3 | `LockoutExact` while requests do not overlap; `LockHolds` always |
| `accounts_lost` (violated) | 1 account, 2 requests | two wrong passwords at a time count as one |
| `entries_overlap` | 2 entries, 1 prompt, 2 workers, fairness to one entry | `AnalysisAtomic`, `NoEntryDropped`; `OnceUnlessOverlapped` and `CompletedStaysCompleted` for entries whose deliveries never overlapped; `EveryTaskAnalysed`; `ImplementsLifecycle` |
| `entries_repeat` (violated) | 1 entry, 2 workers | overlapping deliveries analyse an entry twice |
| `batch_overlap` | 2 users, pages of 1, 1 fault; 2 deliveries at a time in production, 3 nested in development | `CompletedBatchCovers`, `OneJobPerUser`; `LocalBatchSettles`: in development no job of a completed batch is queued or running, and none is left without having ended but one for each fault |
| `batch_progress` | the same with 1 delivery at a time in production, fairness | `BatchCompletes`, `JobEnds` |
| `weekly_overlap` | 2 requests, weeks of 1, clock 1..3, 2 entries, 2 summaries, 2 jobs | `OneSummaryPerWeek` and `ForgetsOnlyOld` while requests do not overlap; `NotDueTwice` unless a stale save took the stamp back; `JobsMakeTheirOwn` under every overlap but that |
| `prompts_overlap` | 2 requests, 5 prompts, replies of up to 2 questions, fallback of 1, 3 days | `OnboardingOnce`, `OneOpenPrompt`, `FollowUpChain` |

The bounds let each interesting case happen. Two requests are enough for a check and
an act of one with a write of the other in between; three inserts give a token, its successor and a rival;
a limit of one makes every insert overflow and a limit of two lets one account hold two
sessions, each of which is rotated with four inserts. With `ReuseWindow = 1` the window closes within the clock's range. `RefreshTtl = 1` lets
rows expire, and `JwtTtl` above it lets an expired row be presented. A threshold of two is the least
that has a counter between zero and the lock; three failures and three instants let a lock run out and be
set again. Pages of one user are all full, and the walk still has a middle and an end; in development page, next page and job are
open at a time, one worker each, with which the walk over two users never lacks a worker.
A week of one tick, two summaries and three instants hold a summary, one exactly a week later and the instants
around both limits; two jobs let one that was selected early run after one that was selected late.
`weekly_overlap` has the CONSTRAINT `Telling`: TLC does not go on from a state in which requests have overlapped and the stamp has
gone back. All properties but the type invariant, which is proved, hold there trivially.
The instances of Accounts hold one account: accounts meet only in the unique index of the emails, so a
conflict of emails is an `Abort` there.

### Findings
Four runs show the code departing from what its documents or comments say; each is a race or a count, and each is
written up in `PROJECT.json`: the limit of "active" tokens counts revoked ones (README.md:48),
a replay during a rotation does not end the family (SECURITY.md:75), concurrent failed logins are
under-counted (SECURITY.md:46), and a repeated delivery that overlaps the first is not recognised
(journal.service.ts:62-65).

### Hazards without a property
Several properties are stated while requests do not overlap (`OneLivePerFamily`, `EndedFamiliesStayEnded`, `OnboardingOnce`, `OneOpenPrompt`, `FollowUpChain`, `OneSummaryPerWeek`,
`ForgetsOnlyOld`, `LockoutExact`), for production without faults (`OneJobPerUser`), until a stale save (`NotDueTwice`) or for tasks that have reached the
queue (`NoEntryDropped`, `BatchCompletes`). The steps that break the condition are in the models, and the properties show that no harm is done
without them; how much is done with them they do not bound. So the races themselves (two refreshes of one token, which both rotate it; two requests for a prompt, for onboarding or for a summary; an account inserted again by an
update; a stamp taken back; a log or a batch whose task is never accepted; entries between two summaries) are listed in `PROJECT.json`
with a note and without a property: the code does not exclude them, and where a document speaks of one (SECURITY.md:65, of the uses of a refresh token)
it does not speak of two at a time.

## 4. Fairness

Only `entries_overlap` and `batch_progress` use it. `WF_vars(Work(w))`: a delivery that is running gets on,
because Node resumes a handler whose call has returned. Weak or strong fairness of `Deliver`: Cloud Tasks delivers a
task again until it is answered with success. In `JournalEntries` also strong fairness of the steps of a
successful analysis: the model and the database do not fail every time. This last one is an
assumption about the services, and without it an entry is retried for ever. `EveryTaskAnalysed` is
checked for one entry under the fairness due to that entry alone (`FairTo`): entries are alike, and nothing is assumed of the others.
Nothing is assumed in `SummaryBatch` beyond the queue and the process, since a job that fails is ended by the code, and crashes are
bounded. No fairness is assumed of users, administrators or the clock. The runs of `JournalEntries`, `SummaryBatch` and
`WeeklySummaries` do not check for deadlock: when all entries are analysed, the batch is done or the clock has ended the system may stop.

## 5. Proofs

`RefreshTokensProofs` proves, for every set of users and requests, every limit, window and lifetime and any
bounds on inserts and clock, from the assumptions of `RefreshTokens` and the finiteness lemmas of the library:

- `TypeCorrect`: `Spec => []TypeOK`. `TypeOK` is inductive because `LocalsOK` says which locals each
  call needs; one step per action.
- `RetiredTokensStayRetired`: `Spec => RetiredStaysRetired`. The strengthening `WritesRevoked` says
  that every entity a request is about to save (`pc = "revoke"`) is marked revoked. A save then never makes a
  row usable, whatever happened to the row since the entity was found, and an insert takes a new id.
- `LimitEnforced`: `Spec => []EnforcedLimit`. The strengthening `LimitInv` adds `DoomedSuffice`: of a request
  about to remove the overflow (`pc = "evict"`), the usable tokens up to the one it inserted, without those it holds to
  remove, are within the limit. It survives the steps of other requests because later inserts have greater ids and, by
  `RetiredStaysRetired`, the usable tokens up to a given one only become fewer. That the rows
  kept by the slice are within the limit is a lemma about finite sets of numbers.
- `RotationsFormAChain`: `Spec => []RotationChain`. The table alone is not inductive: a save writes, and may insert again, a
  row that was found long ago. `ChainInv` therefore speaks of all `Copies` of a token, in the table and in the entities on their
  way to a save: they agree on account and family; every copy of a token that some copy names as its parent is revoked and of the same
  session; a request that rotates a token holds its session, and after its save no copy of the token is usable; the foreign
  keys hold. The lemma `CopyDescends` carries this over a step: every copy comes from one of before, of the same session, which was not
  revoked unless the new one is; an insert adds the only copy of a new id (`CopiesOfInsertion`).

`SessionsProofs` adds what holds while requests do not overlap. Its theorems have the hypothesis `OneAtATime`: `Requests`, the slots
for requests, has one element at most, as in `tokens_sequential`; `tokens_replay` shows a property that fails without it.
Accounts, tokens, limits and lifetimes are arbitrary. A request may still die between any two calls.

- `OneUsableTokenPerSession`, `EndedSessionsStayEnded`: `[]OneLivePerFamily`, `[]EndedFamiliesStayEnded`. `SessionInv` adds to the two:
  a family is of one account and named by a token that was inserted; a rotation is of a session that has not ended
  and holds its only usable token until it has saved it; a replay about to save holds all usable tokens of the family.
- `AnsweredTokensAreUsable`: `FreshTokenUsable`. The token just inserted is the newest, so it is not in the overflow.
- `TableImplementsSessions`: `ImplementsSessions`. An insert is `Open` or `Renew`, the save of a rotated token `Consume`, and
  every other step shrinks the usable tokens of each family and starts no renewal, which is `End` of some sessions, or of none.

`AccountsProofs` proves, for any accounts, emails, requests, threshold and lock time, and any bounds:

- `TypeCorrect`: `Spec => []TypeOK`. `SlotOK` relates the call a request is about to make to its locals; lemmas say
  what the start, the middle and the end of a request keep.
- `LocksHold`: `Spec => LockHolds`. The strengthening `LocksCarried`: a request that serves a locked account and was not
  running when the lock was written is an update, and the entity it holds carries the end of that lock. So
  a save by it writes the lock back, and only older requests change it. A login that
  began under the lock has no write on its way, because the test of the lock comes first.
- `CountsAreExact`: `Spec => []LockoutExact`. The strengthening `CountInv`: while requests do not overlap one is running at
  most, the entity of an update counts what its row counts and that of a failed login one more, and an id still to be given has
  no failures.

`JournalEntriesProofs` proves, for any entries, prompts and workers and in both environments:

- `TypeCorrect`: `Spec => []TypeOK`.
- `AnalysesAreAtomic`: `Spec => []AnalysisAtomic`, with the addition that only a stored entry has an embedding.
- `NoEntryIsDropped`: `Spec => []NoEntryDropped`. The strengthening `TaskKept` says that a delivery at work on an entry has the
  task still in the queue or the analysis saved, and one about to be answered with success has it saved;
  `RowsOnlyCascade`, that an entry with a task or a delivery vanishes only with its account.
- `AnalysedOnceUnlessOverlapped` and `CompletionIsFinal`: `Spec => []OnceUnlessOverlapped`, `Spec => CompletedStaysCompleted`. The
  strengthening `OneDelivery`: of a log whose deliveries never overlapped one runs at most, and while it works the log has no analysis.
- `JournalImplementsLifecycle`: `Spec => ImplementsLifecycle`. Each action is shown to be a step of `EntryLifecycle` or a stutter,
  with `NoEntryDropped` where a delivery is answered: the task may go because the entry is analysed.

`WeeklySummariesProofs` proves, for any requests, any length of the week and any bounds:

- `TypeCorrect`: `Spec => []TypeOK`, in two parts, that of the rows and that of the requests.
- `NeverDueTwice`: `Spec => []NotDueTwice`. `AloneInv`: without overlap an entity of the user row has the stamp of the row, so no save takes
  it back. `StampCovers`: until then the stamp is not before the summaries it was set for; `Due` then says they are over a week old.
- `JobsMakeTheirOwnSummaries`: `Spec => JobsMakeTheirOwn`. `JobsApart`: a job made after a summary was sealed was made when that
  summary was over a week old, so its look for a current summary has not returned it.
- `OneSummaryEachWeek`: `Spec => []OneSummaryPerWeek`. `WeekInv`: a request that found no current summary is the only one, and still
  finds none when it saves, since the clock only makes summaries older.
- `NothingRecentForgotten`: `Spec => ForgetsOnlyOld`. `FoundAll`: what a request is about to save has every entry the summaries tell of
  that is not over a week old.

`SummaryBatchProofs` proves, for any finite set of users, any page size, batches, workers, number of parallel deliveries and of
faults, and in both environments:

- `TypeCorrect`: `Spec => []TypeOK`.
- `CompletedBatchesCover`: `Spec => []CompletedBatchCovers`. `CoverInv`: the users owed by a batch up to the id at which a page begins that is queued or running
  have been handed over (`Handled`), and up to the last user of a page that is being walked all but those still in
  `todo`. A page is completed when it is empty, and then no owed user is beyond it. This needs the facts on keyset paging of `PageFacts`, for
  which the set of users must be finite, as a table is.
- `UsersGetOneJob`: `Spec => []OneJobPerUser`. `FrontInv`: a batch has one front (its opening, the page that waits or the delivery
  that walks), it is the last of the pages, and all jobs of the batch are for users behind it.
- `LocalBatchesSettle`: `Spec => []LocalBatchSettles`. `LocalInv`: in development a queued or running job has a page that waits for it, is run by one
  delivery, and that delivery ends it; so the page that completes the batch is walked when no job is queued or running. `LostInv` counts the jobs
  that have not ended and never will (`Lost`) of the batches that are completed or can still be: at most one for each fault. The lemma
  `FaultEndsOne` is the step, a lost post or a crash of the one delivery of the job; the death of the process costs many jobs, but their batches have lost
  their front and are never completed.

`PromptsProofs` proves, for any requests, any number of questions and any bounds (a calendar of at least one day):

- `TypeCorrect`: `Spec => []TypeOK`, with `BasisOK`, what a request is about to follow up is daily and answered, and `InOrder`, the order
  of the prompts is that of their days.
- `OnboardingAskedOnce`, `OneOpenPromptADay`: `Spec => []OnboardingOnce`, `Spec => []OneOpenPrompt`. `AloneInv`: without overlap what the one
  request has found still holds when it saves, because answers only close prompts and a later day only makes prompts older.
- `FollowUpsFormAChain`: `Spec => []FollowUpChain`. `Chain` says it prompt by prompt: a prompt that is not the first of its day follows the
  latest daily one before it.

`DurationsProofs` proves `ReadingsAgree`: which texts the service and the JWT library read alike, for every number. For s, m, h and d
they do. Everything else but a bare number is thirty days to the service, so of the rest only "0" and the other spellings of thirty days are
read alike: 30 days, 720 hours, 43200 minutes, 2592000 seconds, 2592000000 ms. No number of weeks or years is, nor any text the library
refuses. TLC compares the readings only for small numbers of the letters and for bare ones, as thirty days in milliseconds exceed its integers.

TLC has checked the strengthenings of `RefreshTokensProofs`, `SessionsProofs`, `SummaryBatchProofs` and `PromptsProofs` on the
instances of the runs as well.

With these, each invariant and action property of a passing run, and each refinement, has a theorem. Only
model-checked are the liveness properties (`EveryTaskAnalysed`, `BatchCompletes`, `JobEnds`): liveness under fairness, ENABLED and
what a recursive computation returns for every input are beyond the prover. That the code departs from its documents is shown by the
counterexamples of the four violated runs.

## 6. Plan

In order:
1. `Accounts` composed with `RefreshTokens`: the nondeterministic status replaced by the users table, so that a login
   and a refresh are checked against the lock itself.
2. `SummaryBatch` composed with `WeeklySummaries`: several accounts whose jobs are opened.
3. Proofs about sessions with `OneAtATime` for each family instead of all requests: other accounts do not meet in any row.

## 7. Not modelled

- Guards, roles, throttling, validation, the exception filter and logging: they admit or refuse a request and change no state.
- Prompts to the language model, embeddings, the vector search and the encryption of device and address: external or pure. Of
  the model's replies the models have success, failure, fallback and the number of onboarding questions.
- Statistics and listings: read-only queries.
- The queue of development in `WeeklySummaries`: a job is delivered once there, a case of the deliveries it has.
- Configuration, start-up, health checks, migrations: run once; keys, cascades and indexes of the schema are in the models of the tables.
- Text of any kind (tokens, entries, prompts, summaries).
- A COMMIT that takes effect while its reply is lost, or a `release` of the connection that throws after it: the transaction of processLogEntry commits or
  it does not.
- A page that is enqueued twice by overlapping deliveries is one task (`tasks` is a set), which makes repeated pages rarer than in the code; repeated and
  overlapping deliveries of one task are modelled.
- Daylight saving: findUsersDueForSummary counts back seven calendar days, generateWeeklySummary seven times 24 hours; `Week` is both, as it is in UTC.
- Overflow of integers: the counters of the code are far from the width of their columns.

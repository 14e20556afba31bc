------------------------- MODULE SummaryBatchProofs -------------------------
(***************************************************************************)
(* Proofs about SummaryBatch, for any users, page size, batches, workers   *)
(* and any bounds: the type invariant, that a completed batch has handed   *)
(* over everybody who was due, that nobody gets two jobs of a batch, and   *)
(* that in development a completed batch has no job under way and has lost *)
(* one job per fault at most.                                              *)
(***************************************************************************)
EXTENDS SummaryBatch, FiniteSetTheorems, WellFoundedInduction, TLAPS

----------------------------------------------------------------------------
(* Every nonempty set of numbers has a least element, ...                   *)
LEMMA LeastExists ==
    ASSUME NEW S \in SUBSET Nat, S # {}
    PROVE  \E m \in S : \A q \in S : m <= q
<1>1. PICK m \in S : \A q \in S : ~(<<q, m>> \in OpToRel(<, Nat))
  BY NatLessThanWellFounded, WFMin
<1>2. \A q \in S : ~(q < m)
  BY <1>1 DEF OpToRel
<1> QED
  BY <1>2

(* ... and every finite one a greatest: the one with fewest greater ones.   *)
LEMMA GreatestExists ==
    ASSUME NEW S \in SUBSET Nat, IsFiniteSet(S), S # {}
    PROVE  \E m \in S : \A q \in S : q <= m
<1> DEFINE Above(u) == {v \in S : u < v}
           T == {Cardinality(Above(u)) : u \in S}
<1>1. \A u \in S : IsFiniteSet(Above(u)) /\ Cardinality(Above(u)) \in Nat
  BY FS_Subset, FS_CardinalityType
<1>2. PICK t \in T : \A k \in T : t <= k
  <2>1. T \subseteq Nat /\ T # {}
    BY <1>1
  <2> HIDE DEF T
  <2> QED
    BY <2>1, LeastExists
<1>3. PICK m \in S : t = Cardinality(Above(m))
  OBVIOUS
<1>4. ASSUME NEW q \in S, ~(q <= m) PROVE FALSE
  <2>1. Above(q) \subseteq Above(m) /\ Above(q) # Above(m)
    <3>1. q \in Nat /\ m \in Nat /\ m < q /\ ~(q < q)
      BY <1>4
    <3>2. \A v \in S : v \in Nat /\ (q < v => m < v)
      BY <3>1
    <3> QED
      BY <3>1, <3>2
  <2>2. Cardinality(Above(q)) < Cardinality(Above(m))
    <3> HIDE DEF Above
    <3> QED
      BY <1>1, <1>3, <2>1, FS_Subset
  <2>3. t <= Cardinality(Above(q))
    BY <1>2
  <2> HIDE DEF Above, T
  <2> QED
    BY <1>1, <1>3, <2>2, <2>3
<1> QED
  BY <1>4

LEMMA LeastFacts ==
    ASSUME NEW S \in SUBSET Nat, S # {}
    PROVE  Least(S) \in S /\ \A q \in S : Least(S) <= q
BY LeastExists DEF Least

LEMMA GreatestFacts ==
    ASSUME NEW S \in SUBSET Nat, IsFiniteSet(S), S # {}
    PROVE  Greatest(S) \in S /\ \A q \in S : q <= Greatest(S)
BY GreatestExists DEF Greatest

(* Keyset paging: a page has the least of the due users above the id, all   *)
(* of them up to its last one, and none only if nobody is due above the id. *)
LEMMA PageFacts ==
    ASSUME due \subseteq Users, NEW n \in Nat
    PROVE  LET P == UsersDue(n)
           IN  /\ P \subseteq due /\ \A u \in P : n < u
               /\ P = {} => \A u \in due : u <= n
               /\ P # {} => /\ Greatest(P) \in P /\ \A u \in P : u <= Greatest(P)
                            /\ \A u \in due : n < u /\ u <= Greatest(P) => u \in P
<1> DEFINE P == UsersDue(n)
           Between(u) == {v \in due : n < v /\ v < u}
<1>1. due \subseteq Nat /\ IsFiniteSet(due)
  BY UsersAssumption, FS_Subset
<1>a. \A u \in due : u \in Nat
  BY <1>1
<1>2. \A u \in due : IsFiniteSet(Between(u)) /\ Cardinality(Between(u)) \in Nat
  BY <1>1, FS_Subset, FS_CardinalityType
<1>3. P \subseteq due /\ P \subseteq Nat /\ IsFiniteSet(P) /\ \A u \in P : n < u
  BY <1>1, FS_Subset DEF UsersDue
<1>4. ASSUME P = {}, NEW u \in due, ~(u <= n) PROVE FALSE
  <2> DEFINE S == {v \in due : n < v}
  <2>1. u \in S /\ S \in SUBSET Nat
    BY <1>a, <1>4
  <2>2. PICK m \in S : \A q \in S : m <= q
    <3> HIDE DEF S
    <3> QED
      BY <2>1, LeastExists
  <2>3. Between(m) = {}
    BY <1>a, <2>2
  <2>4. Cardinality(Between(m)) < Limit
    BY <2>3, FS_EmptySet, LimitAssumption
  <2>5. m \in P
    BY <2>4 DEF UsersDue
  <2> QED
    BY <1>4, <2>5
<1>5. ASSUME P # {} PROVE Greatest(P) \in P /\ \A u \in P : u <= Greatest(P)
  <2> HIDE DEF P
  <2> QED
    BY <1>3, <1>5, GreatestFacts
<1>6. ASSUME P # {}, NEW u \in due, n < u, u <= Greatest(P) PROVE u \in P
  <2>1. Greatest(P) \in P
    BY <1>5, <1>6
  <2>2. PICK g \in P : g = Greatest(P)
    BY <2>1
  <2>3. Cardinality(Between(g)) < Limit
    BY <2>2 DEF UsersDue
  <2>4. Between(u) \subseteq Between(g)
    BY <1>a, <1>3, <1>6, <2>2
  <2>5. Cardinality(Between(u)) <= Cardinality(Between(g))
    <3>1. IsFiniteSet(Between(g))
      BY <1>2, <1>3, <2>2
    <3> HIDE DEF Between
    <3> QED
      BY <3>1, <2>4, FS_Subset
  <2>6. Cardinality(Between(u)) < Limit
    <3>1. Cardinality(Between(g)) \in Nat /\ Cardinality(Between(u)) \in Nat
      BY <1>2, <1>3, <1>6, <2>2
    <3> HIDE DEF Between
    <3> QED
      BY <3>1, <2>3, <2>5, LimitAssumption
  <2> QED
    BY <1>6, <2>6 DEF UsersDue
<1> HIDE DEF P
<1> QED
  BY <1>3, <1>4, <1>5, <1>6 DEF P

----------------------------------------------------------------------------
(* Tasks of different kinds, pages or jobs differ, and None is not a task.  *)
LEMMA TaskFacts ==
    /\ \A b, c, n, m : Page(b, n) = Page(c, m) => b = c /\ n = m
    /\ \A i, j : Summary(i) = Summary(j) => i = j
    /\ \A b, n, j : Page(b, n) # Summary(j)
    /\ \A b, n : Page(b, n).type = "page" /\ Page(b, n).batch = b /\ Page(b, n).id = n
    /\ \A j : Summary(j).type = "summary" /\ Summary(j).id = j
BY DEF Page, Summary

LEMMA NoneNotTask == Len(jobs) \in Nat => None \notin Task
<1>1. ASSUME NEW b \in Batches, NEW n \in Users \cup {0} PROVE None # Page(b, n)
  <2>1. n \in Nat
    BY UsersAssumption
  <2> QED
    BY <2>1, NoneAssumption DEF Page
<1>2. ASSUME NEW j \in Nat PROVE None # Summary(j)
  BY NoneAssumption DEF Summary
<1> QED
  BY <1>1, <1>2 DEF Task

(* Every reachable state satisfies TypeOK: a delivery runs a task of the    *)
(* kind its next call is of, and walks a page while it has users to serve.  *)
THEOREM TypeCorrect == Spec => []TypeOK
<1> USE NoneAssumption
<1>1. Init => TypeOK
  <2> SUFFICES ASSUME Init PROVE TypeOK
    OBVIOUS
  <2>1. jobs = <<>> /\ tasks = {} /\ faults = 0 /\ due \subseteq Users
    BY DEF Init
  <2>2. jobs \in Seq(Job) /\ tasks \subseteq Task /\ faults \in 0 .. MaxFaults
    BY <2>1, BoundAssumption
  <2>3. owed \in [Batches -> SUBSET due] /\ batch \in [Batches -> {"none", "in_progress", "completed"}]
    BY DEF Init
  <2>4. /\ pc \in [Workers -> Call] /\ on \in [Workers -> Task \cup {None}]
        /\ todo \in [Workers -> SUBSET Users] /\ last \in [Workers -> Users \cup {0}]
        /\ cur \in [Workers -> (1 .. Len(jobs)) \cup {None}]
    BY DEF Init, Call
  <2>5. \A w \in Workers : pc[w] = "idle" /\ on[w] = None /\ cur[w] = None
    BY DEF Init
  <2>6. env \in {"development", "production"} /\ opening \subseteq Batches
    BY DEF Init
  <2> HIDE DEF Init
  <2> QED
    BY <2>1, <2>2, <2>3, <2>4, <2>5, <2>6 DEF TypeOK
<1>2. TypeOK /\ [Next]_vars => TypeOK'
  <2> SUFFICES ASSUME TypeOK, [Next]_vars PROVE TypeOK'
    OBVIOUS
  <2>a. Len(jobs) \in Nat /\ DOMAIN jobs = 1 .. Len(jobs)
    BY DEF TypeOK
  <2>b. None \notin Task
    BY <2>a, NoneNotTask
  <2>c. /\ \A b \in Batches, n \in Users \cup {0} : Page(b, n) \in Task /\ Page(b, n).type = "page"
        /\ \A j \in 1 .. Len(jobs) : Summary(j) \in Task /\ Summary(j).type = "summary"
    BY TaskFacts DEF Task
  <2>d. ASSUME NEW t \in Task
        PROVE  \/ /\ t.type = "page" /\ t.batch \in Batches /\ t.id \in Users \cup {0}
                  /\ t = Page(t.batch, t.id)
               \/ t.type = "summary" /\ t.id \in 1 .. Len(jobs) /\ t = Summary(t.id)
    BY TaskFacts DEF Task
  <2>e. \A w \in Workers :
           /\ pc[w] \in {"fetch", "close", "job", "task", "next", "await"} =>
                 on[w].batch \in Batches /\ on[w].id \in Users \cup {0}
           /\ pc[w] \in {"start", "generate", "stamp", "finish", "fail"} => on[w].id \in 1 .. Len(jobs)
    BY <2>d DEF TypeOK
  <2>f. UNCHANGED jobs => Task' = Task
    BY DEF Task, Page, Summary
  <2> USE DEF TypeOK, Call, Goto, Release
  <2>1. ASSUME NEW b \in Batches, OpenBatch(b) PROVE TypeOK'
    BY <2>1, <2>f DEF OpenBatch
  <2>2. ASSUME NEW b \in Batches, EnqueueFirstPage(b) PROVE TypeOK'
    BY <2>2, <2>c, <2>f DEF EnqueueFirstPage
  <2>3. ASSUME NEW b \in Batches, OpenFails(b) PROVE TypeOK'
    BY <2>3, <2>f, BoundAssumption DEF OpenFails
  <2>4. ASSUME NEW w \in Workers, NEW t \in tasks, Deliver(w, t) PROVE TypeOK'
    <3>1. faults' \in 0 .. MaxFaults
      BY <2>4, BoundAssumption DEF Deliver
    <3>2. t \in Task /\ t # None /\ tasks' \subseteq Task
      BY <2>4, <2>b DEF Deliver
    <3>3. UNCHANGED <<due, batch, jobs, opening, todo, last, cur, owed, env>>
      BY <2>4 DEF Deliver
    <3>4. /\ on' = [on EXCEPT ![w] = t] /\ pc[w] = "idle"
          /\ pc' = [pc EXCEPT ![w] = IF t.type = "page" THEN "fetch" ELSE "start"]
      BY <2>4 DEF Deliver
    <3>5. t.type \in {"page", "summary"}
      BY <2>d, <3>2
    <3> QED
      BY <2>f, <3>1, <3>2, <3>3, <3>4, <3>5
  <2>5. ASSUME NEW w \in Workers, Acknowledge(w) PROVE TypeOK'
    BY <2>5, <2>f DEF Acknowledge
  <2>6. ASSUME NEW w \in Workers, Crash(w) PROVE TypeOK'
    BY <2>6, <2>f, BoundAssumption DEF Crash
  <2>7. ASSUME NEW t \in tasks, LosePost(t) PROVE TypeOK'
    BY <2>7, <2>f, BoundAssumption DEF LosePost
  <2>8. CASE Die
    BY <2>8, <2>f, BoundAssumption DEF Die
  <2>9. ASSUME NEW w \in Workers, FetchPage(w) PROVE TypeOK'
    <3> DEFINE P == UsersDue(on[w].id)
    <3>1. on[w].id \in Nat
      <4>1. on[w].id \in Users \cup {0}
        BY <2>9, <2>e DEF FetchPage
      <4>2. Users \cup {0} \subseteq Nat
        BY UsersAssumption
      <4> QED
        BY <4>1, <4>2
    <3>2. P \subseteq Users /\ (P # {} => Greatest(P) \in Users)
      BY <3>1, PageFacts
    <3>3. /\ todo' = [todo EXCEPT ![w] = P]
          /\ last' = [last EXCEPT ![w] = IF P = {} THEN 0 ELSE Greatest(P)]
          /\ pc' = [pc EXCEPT ![w] = IF P = {} THEN "close" ELSE "job"] /\ pc[w] = "fetch"
          /\ UNCHANGED <<due, batch, jobs, tasks, opening, on, cur, owed, faults, env>>
      BY <2>9 DEF FetchPage
    <3> HIDE DEF P
    <3> QED
      BY <2>f, <3>2, <3>3
  <2>10. ASSUME NEW w \in Workers, CloseBatch(w) PROVE TypeOK'
    BY <2>10, <2>e, <2>f DEF CloseBatch
  <2>11. ASSUME NEW w \in Workers, SaveJob(w) PROVE TypeOK'
    <3> DEFINE new == [batch |-> on[w].batch, user |-> Least(todo[w]), status |-> "pending"]
    <3>1. pc[w] = "job" /\ todo[w] # {} /\ todo[w] \subseteq Users
      BY <2>11 DEF SaveJob
    <3>2. new \in Job
      <4>1. Least(todo[w]) \in Users
        BY <3>1, UsersAssumption, LeastFacts
      <4> QED
        BY <4>1, <3>1, <2>e DEF Job
    <3>3. /\ jobs' = Append(jobs, new) /\ cur' = [cur EXCEPT ![w] = Len(jobs) + 1]
          /\ pc' = [pc EXCEPT ![w] = "task"]
          /\ UNCHANGED <<due, batch, tasks, opening, on, todo, last, owed, faults, env>>
      BY <2>11 DEF SaveJob
    <3> HIDE DEF new
    <3>4. jobs' \in Seq(Job) /\ Len(jobs') = Len(jobs) + 1
      BY <3>2, <3>3
    <3>5. Task \subseteq Task'
      <4>1. 1 .. Len(jobs) \subseteq 1 .. Len(jobs')
        BY <2>a, <3>4
      <4> QED
        BY <4>1 DEF Task, Page, Summary
    <3>6. cur' \in [Workers -> (1 .. Len(jobs')) \cup {None}]
      BY <2>a, <3>3, <3>4
    <3>7. on' \in [Workers -> Task' \cup {None}] /\ tasks' \subseteq Task'
      BY <3>3, <3>5
    <3>8. /\ pc'[w] = "task" /\ cur'[w] = Len(jobs) + 1
          /\ \A v \in Workers \ {w} : pc'[v] = pc[v] /\ cur'[v] = cur[v]
      BY <3>3
    <3>9. Len(jobs) + 1 # None
      BY <2>a
    <3> QED
      BY <3>1, <3>3, <3>4, <3>6, <3>7, <3>8, <3>9
  <2>12. ASSUME NEW w \in Workers, EnqueueJob(w) PROVE TypeOK'
    <3>1. cur[w] \in 1 .. Len(jobs) /\ pc[w] = "task"
      BY <2>12 DEF EnqueueJob
    <3>2. Summary(cur[w]) \in Task
      BY <3>1, <2>c
    <3> QED
      BY <2>12, <3>1, <3>2, <2>f DEF EnqueueJob, AfterTask
  <2>13. ASSUME NEW w \in Workers, EnqueueNextPage(w) PROVE TypeOK'
    <3>1. Page(on[w].batch, last[w]) \in Task /\ pc[w] = "next"
      BY <2>13, <2>c, <2>e DEF EnqueueNextPage
    <3> QED
      BY <2>13, <3>1, <2>f DEF EnqueueNextPage
  <2>14. ASSUME NEW w \in Workers, Resume(w) PROVE TypeOK'
    BY <2>14, <2>f DEF Resume, AfterTask
  <2>15. ASSUME NEW w \in Workers, NEW s \in {"processing", "completed", "failed"}, SetJob(w, s),
                pc[w] \in {"start", "finish", "fail"}, NEW c \in {"generate", "ack"}, Goto(w, c),
                UNCHANGED <<due, batch, tasks, opening, on, todo, last, cur, owed, faults, env>>
         PROVE  TypeOK'
    <3> DEFINE j == on[w].id
               new == [jobs[j] EXCEPT !.status = s]
    <3>1. j \in 1 .. Len(jobs) /\ jobs[j] \in Job
      BY <2>15, <2>a, <2>e
    <3>2. new \in Job
      BY <3>1, <2>15 DEF Job
    <3>3. jobs' = [jobs EXCEPT ![j] = new]
      BY <2>15 DEF SetJob
    <3> HIDE DEF new, j
    <3>4. jobs' \in Seq(Job) /\ Len(jobs') = Len(jobs)
      BY <3>1, <3>2, <3>3
    <3>5. Task' = Task
      BY <3>4 DEF Task, Page, Summary
    <3> QED
      BY <2>15, <3>4, <3>5
  <2>16. ASSUME NEW w \in Workers, StartJob(w) \/ FinishJob(w) \/ FailJob(w) PROVE TypeOK'
    BY <2>15, <2>16 DEF StartJob, FinishJob, FailJob
  <2>17. ASSUME NEW w \in Workers, GenerateSucceeds(w) PROVE TypeOK'
    BY <2>17, <2>f DEF GenerateSucceeds
  <2>18. ASSUME NEW w \in Workers, GenerateFails(w) PROVE TypeOK'
    BY <2>18, <2>f DEF GenerateFails
  <2>19. ASSUME NEW w \in Workers, StampUser(w) PROVE TypeOK'
    BY <2>19, <2>f DEF StampUser, NotDue
  <2>20. ASSUME NEW w \in Workers, LateFailure(w) PROVE TypeOK'
    BY <2>20, <2>f, BoundAssumption DEF LateFailure
  <2>21. ASSUME NEW u \in Users, BecomeDue(u) PROVE TypeOK'
    BY <2>21, <2>f DEF BecomeDue
  <2>22. ASSUME NEW u \in Users, RemoveUser(u) PROVE TypeOK'
    BY <2>22, <2>f DEF RemoveUser, NotDue
  <2>23. CASE UNCHANGED vars
    BY <2>23, <2>f DEF vars
  <2> HIDE DEF TypeOK, Call, Goto, Release
  <2> QED
    BY <2>1, <2>2, <2>3, <2>4, <2>5, <2>6, <2>7, <2>8, <2>9, <2>10, <2>11, <2>12, <2>13, <2>14,
       <2>16, <2>17, <2>18, <2>19, <2>20, <2>21, <2>22, <2>23 DEF Next, Work
<1> QED
  BY <1>1, <1>2, PTL DEF Spec

----------------------------------------------------------------------------
\* ids a page starts after
Ids == Users \cup {0}

\* calls of a delivery that walks its page, after it has fetched it
Walking == {"job", "task", "next", "await"}

\* w has still to hand over users of its page, or the rest of the batch
Walks(w) == pc[w] \in {"fetch", "close", "job", "task", "next"} \/ (pc[w] = "await" /\ cur[w] # None)

Live(t) == t \in tasks \/ Running(t)
Waits(t) == t \in tasks /\ ~Running(t)
JobsOf(b) == {j \in DOMAIN jobs : jobs[j].batch = b}

----------------------------------------------------------------------------
(* A batch that has not been opened has nothing.                            *)
Unopened ==
    \A b \in Batches : batch[b] = "none" =>
        /\ b \notin opening
        /\ \A n \in Ids : ~Live(Page(b, n))
        /\ JobsOf(b) = {}

(* What a delivery that walks its page holds: users above the id the page   *)
(* starts after, the last one the greatest; and a job of its batch.         *)
Walk ==
    \A w \in Workers :
        /\ pc[w] \in Walking => on[w].id < last[w] /\ \A u \in todo[w] : u <= last[w]
        /\ pc[w] = "next" => todo[w] = {}
        /\ cur[w] # None => jobs[cur[w]].batch = on[w].batch

(* A delivery of a job that is past its first step has left its mark.       *)
Started ==
    \A w \in Workers : on[w] # None /\ on[w].type = "summary" /\ pc[w] # "start" =>
        jobs[on[w].id].status # "pending"

----------------------------------------------------------------------------
(* Served, or in development the job is running.                            *)
Handled(b, u) ==
    \E j \in JobsOf(b) :
        /\ jobs[j].user = u
        /\ \/ jobs[j].status # "pending" \/ Summary(j) \in tasks
           \/ ~Production /\ Running(Summary(j))

(* All owed users up to the id a live page starts after have been handed    *)
(* over, up to the last of a page those it has not reached apart.           *)
CoverInv ==
    Production \/ faults = 0 =>
        /\ \A b \in Batches, n \in Ids :
              Live(Page(b, n)) => \A u \in owed[b] : u <= n => Handled(b, u)
        /\ \A w \in Workers, b \in Batches :
              pc[w] \in Walking /\ on[w].batch = b => \A u \in owed[b] :
                  u <= last[w] => Handled(b, u) \/ u \in todo[w]
        /\ \A w \in Workers, b \in Batches :
              pc[w] = "close" /\ on[w].batch = b => \A u \in owed[b] : u <= on[w].id
        /\ \A b \in Batches : batch[b] = "completed" => \A u \in owed[b] : Handled(b, u)

----------------------------------------------------------------------------
(* In development a page is posted once.                                    *)
PostedOnce ==
    ~Production => \A b \in Batches, n \in Ids : Page(b, n) \in tasks => ~Running(Page(b, n))

(* A batch has one front: its opening, the page that waits or the delivery  *)
(* that walks, and it has none when it is completed.                        *)
OneFront ==
    /\ \A v, w \in Workers : Walks(v) /\ Walks(w) /\ on[v].batch = on[w].batch => v = w
    /\ \A b \in Batches, n \in Ids : Waits(Page(b, n)) =>
          /\ \A m \in Ids : Waits(Page(b, m)) => n = m
          /\ \A w \in Workers : Walks(w) => on[w].batch # b
    /\ \A b \in opening : batch[b] = "in_progress" /\ \A n \in Ids : ~Live(Page(b, n))
    /\ \A b \in Batches : batch[b] = "completed" =>
          /\ \A n \in Ids : ~Waits(Page(b, n))
          /\ \A w \in Workers : Walks(w) => on[w].batch # b

(* The front is the last of the live pages.                                 *)
FrontIsLast ==
    \A b \in Batches, n, m \in Ids :
        /\ Live(Page(b, m))
        /\ Waits(Page(b, n)) \/ \E w \in Workers : Walks(w) /\ on[w] = Page(b, n)
        => m <= n

(* The jobs of a batch are for users behind its front.                      *)
JobsBehindFront ==
    \A b \in Batches, j \in DOMAIN jobs : jobs[j].batch = b =>
        /\ b \notin opening
        /\ \A n \in Ids : Waits(Page(b, n)) => jobs[j].user <= n
        /\ \A w \in Workers : Walks(w) /\ on[w].batch = b =>
              /\ pc[w] \in {"fetch", "close"} => jobs[j].user <= on[w].id
              /\ pc[w] \in Walking =>
                    /\ jobs[j].user <= last[w]
                    /\ jobs[j].user \in todo[w] => pc[w] = "task" /\ cur[w] = j

FrontInv ==
    ~Production \/ faults = 0 =>
        PostedOnce /\ OneFront /\ FrontIsLast /\ JobsBehindFront /\ OneJobPerUser

----------------------------------------------------------------------------
(* In development a page waits for the job it has posted, ...               *)
AwaitsJob ==
    \A j \in DOMAIN jobs : Live(Summary(j)) =>
        \E w \in Workers : pc[w] = "await" /\ cur[w] = j

(* ... and one delivery runs it, that ends it.                              *)
RunsOnce ==
    /\ \A j \in DOMAIN jobs : Summary(j) \in tasks => ~Running(Summary(j))
    /\ \A v, w \in Workers : on[v] = on[w] /\ on[v] # None /\ on[v].type = "summary" =>
          /\ v = w
          /\ pc[v] = "ack" => jobs[on[v].id].status \in Ended

LocalInv == ~Production => AwaitsJob /\ RunsOnce

----------------------------------------------------------------------------
\* b is completed or can still be
Fronted(b) ==
    \/ batch[b] = "completed"
    \/ \E n \in Ids : Waits(Page(b, n))
    \/ \E w \in Workers : Walks(w) /\ on[w].batch = b

\* jobs of such batches that have not ended and never will
Lost ==
    {j \in DOMAIN jobs :
        /\ jobs[j].status \notin Ended /\ ~Live(Summary(j))
        /\ ~\E w \in Workers : pc[w] = "task" /\ cur[w] = j
        /\ Fronted(jobs[j].batch)}

(* In development a fault costs one job of the batches that can still be    *)
(* completed.                                                               *)
LostInv == ~Production => Cardinality(Lost) <= faults

----------------------------------------------------------------------------
(* What a delivery runs, and when it has a job in its hands, ...            *)
LEMMA Deliveries ==
    ASSUME TypeOK
    PROVE  /\ \A w \in Workers : on[w] # None /\ on[w].type = "page" =>
                 on[w].batch \in Batches /\ on[w].id \in Ids /\ on[w] = Page(on[w].batch, on[w].id)
           /\ \A w \in Workers : on[w] # None /\ on[w].type = "summary" =>
                 on[w].id \in DOMAIN jobs /\ on[w] = Summary(on[w].id)
           /\ \A w \in Workers : on[w] # None => on[w].type \in {"page", "summary"}
           /\ \A w \in Workers : pc[w] \in {"fetch", "close", "job", "task", "next", "await"} =>
                 on[w] # None /\ on[w].type = "page"
           /\ \A w \in Workers : pc[w] \in {"start", "generate", "stamp", "finish", "fail"} =>
                 on[w] # None /\ on[w].type = "summary"
           /\ \A b \in Batches, n \in Ids : Page(b, n) # None
           /\ \A j \in DOMAIN jobs : Summary(j) # None
           /\ None \notin tasks /\ Ids \subseteq Nat
<1>1. Len(jobs) \in Nat /\ DOMAIN jobs = 1 .. Len(jobs)
  BY DEF TypeOK
<1>2. None \notin Task
  BY <1>1, NoneNotTask
<1>3. \A t \in Task : \/ /\ t.type = "page" /\ t.batch \in Batches /\ t.id \in Ids
                         /\ t = Page(t.batch, t.id)
                      \/ t.type = "summary" /\ t.id \in DOMAIN jobs /\ t = Summary(t.id)
  BY <1>1, TaskFacts DEF Task, Ids
<1>4. /\ \A b \in Batches, n \in Ids : Page(b, n) \in Task
      /\ \A j \in DOMAIN jobs : Summary(j) \in Task
  BY <1>1 DEF Task, Ids
<1>5. \A w \in Workers : on[w] \in Task \cup {None}
  BY DEF TypeOK
<1>6. \A w \in Workers :
         /\ pc[w] = "idle" <=> on[w] = None
         /\ pc[w] \in {"fetch", "close", "job", "task", "next", "await"} => on[w].type = "page"
         /\ pc[w] \in {"start", "generate", "stamp", "finish", "fail"} => on[w].type = "summary"
  BY DEF TypeOK
<1>7. Ids \subseteq Nat
  BY UsersAssumption DEF Ids
<1>8. tasks \subseteq Task
  BY DEF TypeOK
<1>9. \A w \in Workers : on[w] # None => on[w] \in Task
  BY <1>5
<1> QED
  BY <1>2, <1>3, <1>4, <1>6, <1>7, <1>8, <1>9

LEMMA Positions ==
    ASSUME TypeOK
    PROVE  /\ \A w \in Workers : cur[w] # None => cur[w] \in DOMAIN jobs
           /\ \A w \in Workers : pc[w] = "task" => cur[w] # None
           /\ \A w \in Workers : pc[w] \notin {"task", "await"} => cur[w] = None
<1>1. DOMAIN jobs = 1 .. Len(jobs)
  BY DEF TypeOK
<1> QED
  BY <1>1 DEF TypeOK

(* ... what a statement does to the jobs, ...                               *)
LEMMA SetJobFacts ==
    ASSUME TypeOK, NEW w \in Workers, on[w].id \in DOMAIN jobs, NEW s, SetJob(w, s)
    PROVE  /\ DOMAIN jobs' = DOMAIN jobs
           /\ \A j \in DOMAIN jobs :
                 /\ jobs'[j].batch = jobs[j].batch /\ jobs'[j].user = jobs[j].user
                 /\ jobs'[j].status = IF j = on[w].id THEN s ELSE jobs[j].status
<1>1. jobs \in Seq(Job)
  BY DEF TypeOK
<1>2. \A x \in Job : LET y == [x EXCEPT !.status = s]
                     IN  y.batch = x.batch /\ y.user = x.user /\ y.status = s
  BY DEF Job
<1>3. jobs' = [jobs EXCEPT ![on[w].id] = [jobs[on[w].id] EXCEPT !.status = s]]
  BY DEF SetJob
<1> QED
  BY <1>1, <1>2, <1>3

LEMMA SaveJobFacts ==
    ASSUME TypeOK, NEW w \in Workers, SaveJob(w)
    PROVE  LET k == Len(jobs) + 1
           IN  /\ DOMAIN jobs' = DOMAIN jobs \cup {k} /\ k \notin DOMAIN jobs /\ k # None
               /\ \A j \in DOMAIN jobs : jobs'[j] = jobs[j]
               /\ jobs'[k].batch = on[w].batch /\ jobs'[k].user = Least(todo[w])
               /\ jobs'[k].status = "pending"
<1> DEFINE new == [batch |-> on[w].batch, user |-> Least(todo[w]), status |-> "pending"]
<1>1. jobs \in Seq(Job) /\ jobs' = Append(jobs, new) /\ Len(jobs) \in Nat
  BY DEF TypeOK, SaveJob
<1>2. new.batch = on[w].batch /\ new.user = Least(todo[w]) /\ new.status = "pending"
  OBVIOUS
<1> HIDE DEF new
<1>3. /\ DOMAIN jobs' = 1 .. Len(jobs) + 1 /\ DOMAIN jobs = 1 .. Len(jobs)
      /\ \A j \in 1 .. Len(jobs) : jobs'[j] = jobs[j]
      /\ jobs'[Len(jobs) + 1] = new
  BY <1>1
<1> QED
  BY <1>1, <1>2, <1>3, NoneAssumption

(* ... and that jobs keep their batch and user and do not become pending.   *)
LEMMA JobsKept ==
    ASSUME TypeOK, [Next]_vars
    PROVE  /\ DOMAIN jobs \subseteq DOMAIN jobs'
           /\ \A j \in DOMAIN jobs :
                 /\ jobs'[j].batch = jobs[j].batch /\ jobs'[j].user = jobs[j].user
                 /\ jobs'[j].status = "pending" => jobs[j].status = "pending"
<1>1. ASSUME NEW w \in Workers, StartJob(w) \/ FinishJob(w) \/ FailJob(w)
      PROVE  /\ DOMAIN jobs \subseteq DOMAIN jobs'
             /\ \A j \in DOMAIN jobs :
                   /\ jobs'[j].batch = jobs[j].batch /\ jobs'[j].user = jobs[j].user
                   /\ jobs'[j].status = "pending" => jobs[j].status = "pending"
  <2>1. on[w].id \in DOMAIN jobs
    BY <1>1, Deliveries DEF StartJob, FinishJob, FailJob
  <2>2. PICK s \in {"processing", "completed", "failed"} : SetJob(w, s)
    BY <1>1 DEF StartJob, FinishJob, FailJob
  <2> QED
    BY <2>1, <2>2, SetJobFacts
<1>2. ASSUME NEW w \in Workers, SaveJob(w)
      PROVE  /\ DOMAIN jobs \subseteq DOMAIN jobs'
             /\ \A j \in DOMAIN jobs :
                   /\ jobs'[j].batch = jobs[j].batch /\ jobs'[j].user = jobs[j].user
                   /\ jobs'[j].status = "pending" => jobs[j].status = "pending"
  BY <1>2, SaveJobFacts
<1>3. \/ UNCHANGED jobs
      \/ \E w \in Workers : SaveJob(w) \/ StartJob(w) \/ FinishJob(w) \/ FailJob(w)
  BY DEF Next, Work, vars, OpenBatch, EnqueueFirstPage, OpenFails, Deliver, Acknowledge, Crash,
         LosePost, Die, FetchPage, CloseBatch, EnqueueJob, EnqueueNextPage, Resume, GenerateSucceeds,
         GenerateFails, StampUser, LateFailure, BecomeDue, RemoveUser
<1> QED
  BY <1>1, <1>2, <1>3

----------------------------------------------------------------------------
(* Started is an invariant: a job never becomes pending again.             *)
LEMMA StartedInvariant == Spec => []Started
<1>1. Init => Started
  BY DEF Init, Started, Goto, Release
<1>2. TypeOK /\ TypeOK' /\ Started /\ [Next]_vars => Started'
  <2> SUFFICES ASSUME TypeOK, TypeOK', Started, [Next]_vars PROVE Started'
    OBVIOUS
  <2>a. /\ pc \in [Workers -> Call] /\ on \in [Workers -> Task \cup {None}]
        /\ todo \in [Workers -> SUBSET Users] /\ last \in [Workers -> Users \cup {0}]
        /\ cur \in [Workers -> (1 .. Len(jobs)) \cup {None}]
    BY DEF TypeOK
  <2> USE DEF Started, Goto, Release
  <2>1. ASSUME NEW b \in Batches, OpenBatch(b) PROVE Started'
    BY <2>1, <2>a, TaskFacts DEF OpenBatch
  <2>2. ASSUME NEW b \in Batches, EnqueueFirstPage(b) PROVE Started'
    BY <2>2, <2>a, TaskFacts DEF EnqueueFirstPage
  <2>3. ASSUME NEW b \in Batches, OpenFails(b) PROVE Started'
    BY <2>3, <2>a, TaskFacts DEF OpenFails
  <2>4. ASSUME NEW w \in Workers, NEW t \in tasks, Deliver(w, t) PROVE Started'
    BY <2>4, <2>a, TaskFacts DEF Deliver
  <2>5. ASSUME NEW w \in Workers, Acknowledge(w) PROVE Started'
    BY <2>5, <2>a, TaskFacts DEF Acknowledge
  <2>6. ASSUME NEW w \in Workers, Crash(w) PROVE Started'
    BY <2>6, <2>a, TaskFacts DEF Crash
  <2>7. ASSUME NEW t \in tasks, LosePost(t) PROVE Started'
    BY <2>7, <2>a, TaskFacts DEF LosePost
  <2>8. CASE Die
    BY <2>8, <2>a, TaskFacts DEF Die
  <2>9. ASSUME NEW w \in Workers, FetchPage(w) PROVE Started'
    BY <2>9, <2>a, TaskFacts DEF FetchPage
  <2>10. ASSUME NEW w \in Workers, CloseBatch(w) PROVE Started'
    BY <2>10, <2>a, TaskFacts DEF CloseBatch
  <2>11. ASSUME NEW w \in Workers, SaveJob(w) PROVE Started'
    BY <2>11, <2>a, Deliveries, SaveJobFacts DEF SaveJob
  <2>12. ASSUME NEW w \in Workers, EnqueueJob(w) PROVE Started'
    BY <2>12, <2>a, TaskFacts DEF EnqueueJob, AfterTask
  <2>13. ASSUME NEW w \in Workers, EnqueueNextPage(w) PROVE Started'
    BY <2>13, <2>a, TaskFacts DEF EnqueueNextPage
  <2>14. ASSUME NEW w \in Workers, Resume(w) PROVE Started'
    BY <2>14, <2>a, TaskFacts DEF Resume, AfterTask, Posted
  <2>15. ASSUME NEW w \in Workers, StartJob(w) PROVE Started'
    <3>1. on[w].id \in DOMAIN jobs /\ SetJob(w, "processing")
      BY <2>15, Deliveries DEF StartJob
    <3> QED
      BY <2>15, <2>a, <3>1, Deliveries, SetJobFacts DEF StartJob
  <2>16. ASSUME NEW w \in Workers, GenerateSucceeds(w) PROVE Started'
    BY <2>16, <2>a, TaskFacts DEF GenerateSucceeds
  <2>17. ASSUME NEW w \in Workers, GenerateFails(w) PROVE Started'
    BY <2>17, <2>a, TaskFacts DEF GenerateFails
  <2>18. ASSUME NEW w \in Workers, StampUser(w) PROVE Started'
    BY <2>18, <2>a, TaskFacts DEF StampUser, NotDue
  <2>19. ASSUME NEW w \in Workers, LateFailure(w) PROVE Started'
    BY <2>19, <2>a, TaskFacts DEF LateFailure
  <2>20. ASSUME NEW w \in Workers, FinishJob(w) PROVE Started'
    BY <2>20, <2>a, TaskFacts DEF FinishJob, SetJob
  <2>21. ASSUME NEW w \in Workers, FailJob(w) PROVE Started'
    BY <2>21, <2>a, TaskFacts DEF FailJob, SetJob
  <2>22. ASSUME NEW u \in Users, BecomeDue(u) PROVE Started'
    BY <2>22, <2>a, TaskFacts DEF BecomeDue
  <2>23. ASSUME NEW u \in Users, RemoveUser(u) PROVE Started'
    BY <2>23, <2>a, TaskFacts DEF RemoveUser, NotDue
  <2>24. CASE UNCHANGED vars
    BY <2>24, <2>a, TaskFacts DEF vars
  <2> QED
    BY <2>1, <2>2, <2>3, <2>4, <2>5, <2>6, <2>7, <2>8, <2>9, <2>10, <2>11, <2>12,
       <2>13, <2>14, <2>15, <2>16, <2>17, <2>18, <2>19, <2>20, <2>21, <2>22, <2>23, <2>24 DEF Next, Work
<1> QED
  BY <1>1, <1>2, TypeCorrect, PTL DEF Spec

(* Walk is an invariant: only the delivery itself moves on its page.        *)
LEMMA WalkInvariant == Spec => []Walk
<1>1. Init => Walk
  BY DEF Init, Walk, Walking, Goto, Release
<1>2. TypeOK /\ TypeOK' /\ Walk /\ [Next]_vars => Walk'
  <2> SUFFICES ASSUME TypeOK, TypeOK', Walk, [Next]_vars PROVE Walk'
    OBVIOUS
  <2>a. /\ pc \in [Workers -> Call] /\ on \in [Workers -> Task \cup {None}]
        /\ todo \in [Workers -> SUBSET Users] /\ last \in [Workers -> Users \cup {0}]
        /\ cur \in [Workers -> (1 .. Len(jobs)) \cup {None}]
    BY DEF TypeOK
  <2> USE DEF Walk, Walking, Goto, Release
  <2>1. ASSUME NEW b \in Batches, OpenBatch(b) PROVE Walk'
    BY <2>1, <2>a, TaskFacts DEF OpenBatch
  <2>2. ASSUME NEW b \in Batches, EnqueueFirstPage(b) PROVE Walk'
    BY <2>2, <2>a, TaskFacts DEF EnqueueFirstPage
  <2>3. ASSUME NEW b \in Batches, OpenFails(b) PROVE Walk'
    BY <2>3, <2>a, TaskFacts DEF OpenFails
  <2>4. ASSUME NEW w \in Workers, NEW t \in tasks, Deliver(w, t) PROVE Walk'
    <3>1. pc[w] = "idle" /\ cur[w] = None
      BY <2>4 DEF Deliver, TypeOK
    <3> QED
      BY <2>4, <2>a, <3>1 DEF Deliver
  <2>5. ASSUME NEW w \in Workers, Acknowledge(w) PROVE Walk'
    BY <2>5, <2>a, TaskFacts DEF Acknowledge
  <2>6. ASSUME NEW w \in Workers, Crash(w) PROVE Walk'
    BY <2>6, <2>a, TaskFacts DEF Crash
  <2>7. ASSUME NEW t \in tasks, LosePost(t) PROVE Walk'
    BY <2>7, <2>a, TaskFacts DEF LosePost
  <2>8. CASE Die
    BY <2>8, <2>a, TaskFacts DEF Die
  <2>9. ASSUME NEW w \in Workers, FetchPage(w) PROVE Walk'
    <3> DEFINE P == UsersDue(on[w].id)
    <3>1. pc[w] = "fetch" /\ cur[w] = None /\ on[w].id \in Nat /\ due \subseteq Users
      BY <2>9, Deliveries DEF FetchPage, TypeOK
    <3>2. P # {} => on[w].id < Greatest(P) /\ \A u \in P : u <= Greatest(P)
      BY <3>1, PageFacts
    <3>3. /\ todo' = [todo EXCEPT ![w] = P]
          /\ last' = [last EXCEPT ![w] = IF P = {} THEN 0 ELSE Greatest(P)]
          /\ pc' = [pc EXCEPT ![w] = IF P = {} THEN "close" ELSE "job"]
          /\ UNCHANGED <<jobs, on, cur>>
      BY <2>9 DEF FetchPage
    <3> HIDE DEF P
    <3> QED
      BY <2>a, <3>1, <3>2, <3>3
  <2>10. ASSUME NEW w \in Workers, CloseBatch(w) PROVE Walk'
    BY <2>10, <2>a, TaskFacts DEF CloseBatch
  <2>11. ASSUME NEW w \in Workers, SaveJob(w) PROVE Walk'
    BY <2>11, <2>a, TaskFacts DEF SaveJob
  <2>12. ASSUME NEW w \in Workers, EnqueueJob(w) PROVE Walk'
    BY <2>12, <2>a, TaskFacts DEF EnqueueJob, AfterTask
  <2>13. ASSUME NEW w \in Workers, EnqueueNextPage(w) PROVE Walk'
    BY <2>13, <2>a, TaskFacts DEF EnqueueNextPage
  <2>14. ASSUME NEW w \in Workers, Resume(w) PROVE Walk'
    BY <2>14, <2>a, TaskFacts DEF Resume, AfterTask, Posted
  <2>15. ASSUME NEW w \in Workers, StartJob(w) PROVE Walk'
    BY <2>15, <2>a, TaskFacts DEF StartJob, SetJob
  <2>16. ASSUME NEW w \in Workers, GenerateSucceeds(w) PROVE Walk'
    BY <2>16, <2>a, TaskFacts DEF GenerateSucceeds
  <2>17. ASSUME NEW w \in Workers, GenerateFails(w) PROVE Walk'
    BY <2>17, <2>a, TaskFacts DEF GenerateFails
  <2>18. ASSUME NEW w \in Workers, StampUser(w) PROVE Walk'
    BY <2>18, <2>a, TaskFacts DEF StampUser, NotDue
  <2>19. ASSUME NEW w \in Workers, LateFailure(w) PROVE Walk'
    BY <2>19, <2>a, TaskFacts DEF LateFailure
  <2>20. ASSUME NEW w \in Workers, FinishJob(w) PROVE Walk'
    BY <2>20, <2>a, TaskFacts DEF FinishJob, SetJob
  <2>21. ASSUME NEW w \in Workers, FailJob(w) PROVE Walk'
    BY <2>21, <2>a, TaskFacts DEF FailJob, SetJob
  <2>22. ASSUME NEW u \in Users, BecomeDue(u) PROVE Walk'
    BY <2>22, <2>a, TaskFacts DEF BecomeDue
  <2>23. ASSUME NEW u \in Users, RemoveUser(u) PROVE Walk'
    BY <2>23, <2>a, TaskFacts DEF RemoveUser, NotDue
  <2>24. CASE UNCHANGED vars
    BY <2>24, <2>a, TaskFacts DEF vars
  <2> QED
    BY <2>1, <2>2, <2>3, <2>4, <2>5, <2>6, <2>7, <2>8, <2>9, <2>10, <2>11, <2>12,
       <2>13, <2>14, <2>15, <2>16, <2>17, <2>18, <2>19, <2>20, <2>21, <2>22, <2>23, <2>24 DEF Next, Work
<1> QED
  BY <1>1, <1>2, TypeCorrect, PTL DEF Spec

(* A task is enqueued by the opening of a batch or by the delivery that     *)
(* walks a page, and runs when it is delivered; so it becomes live.         *)
LEMMA TasksStep ==
    ASSUME TypeOK, [Next]_vars, NEW t, t \in tasks', t \notin tasks
    PROVE  \/ \E b \in opening : t = Page(b, 0) /\ EnqueueFirstPage(b)
           \/ \E w \in Workers : EnqueueJob(w) /\ t = Summary(cur[w])
           \/ \E w \in Workers : EnqueueNextPage(w) /\ t = Page(on[w].batch, last[w])
<1>1. ASSUME NEW b \in Batches, EnqueueFirstPage(b) PROVE b \in opening /\ t = Page(b, 0)
  BY <1>1 DEF EnqueueFirstPage
<1>2. ASSUME NEW w \in Workers, EnqueueJob(w) PROVE t = Summary(cur[w])
  BY <1>2 DEF EnqueueJob
<1>3. ASSUME NEW w \in Workers, EnqueueNextPage(w) PROVE t = Page(on[w].batch, last[w])
  BY <1>3 DEF EnqueueNextPage
<1>4. \/ \E b \in Batches : EnqueueFirstPage(b)
      \/ \E w \in Workers : EnqueueJob(w) \/ EnqueueNextPage(w)
      \/ tasks' \subseteq tasks
  BY DEF Next, Work, vars, OpenBatch, OpenFails, Deliver, Acknowledge, Crash, LosePost, Die, FetchPage,
         CloseBatch, SaveJob, Resume, StartJob, GenerateSucceeds, GenerateFails, StampUser, LateFailure,
         FinishJob, FailJob, BecomeDue, RemoveUser
<1> QED
  BY <1>1, <1>2, <1>3, <1>4

LEMMA RunningStep ==
    ASSUME TypeOK, [Next]_vars, NEW t, t # None, Running(t)', ~Running(t)
    PROVE  \E w \in Workers : t \in tasks /\ Deliver(w, t)
<1> USE DEF Running
<1>1. on \in [Workers -> Task \cup {None}]
  BY DEF TypeOK
<1>2. ASSUME NEW w \in Workers, on' = [on EXCEPT ![w] = None] PROVE FALSE
  BY <1>1, <1>2
<1>3. CASE UNCHANGED on
  BY <1>3
<1>4. ASSUME NEW w \in Workers, NEW s \in tasks, Deliver(w, s) PROVE t = s
  BY <1>1, <1>4 DEF Deliver
<1>5. CASE Die
  BY <1>5 DEF Die
<1>6. \/ \E w \in Workers : on' = [on EXCEPT ![w] = None] \/ \E s \in tasks : Deliver(w, s)
      \/ UNCHANGED on \/ Die
  BY DEF Next, Work, vars, OpenBatch, EnqueueFirstPage, OpenFails, Acknowledge, Crash, Release, LosePost,
         FetchPage, CloseBatch, SaveJob, EnqueueJob, EnqueueNextPage, Resume, StartJob,
         GenerateSucceeds, GenerateFails, StampUser, LateFailure, FinishJob, FailJob, BecomeDue, RemoveUser
<1> QED
  BY <1>2, <1>3, <1>4, <1>5, <1>6

LEMMA LiveStep ==
    ASSUME TypeOK, [Next]_vars, NEW t, t # None, Live(t)', ~Live(t)
    PROVE  \/ \E b \in opening : t = Page(b, 0) /\ EnqueueFirstPage(b)
           \/ \E w \in Workers : EnqueueJob(w) /\ t = Summary(cur[w])
           \/ \E w \in Workers : EnqueueNextPage(w) /\ t = Page(on[w].batch, last[w])
BY TasksStep, RunningStep DEF Live

(* What becomes of the statuses of the batches, and a new job.              *)
LEMMA BatchStep ==
    ASSUME TypeOK, [Next]_vars
    PROVE  /\ \A b \in Batches : b \in opening' => b \in opening \/ OpenBatch(b)
           /\ \A b \in Batches : batch'[b] = batch[b] \/ OpenBatch(b)
                 \/ \E w \in Workers : CloseBatch(w) /\ on[w].batch = b /\ batch'[b] = "completed"
           /\ \A b \in Batches : OpenBatch(b) =>
                 batch[b] = "none" /\ batch'[b] = "in_progress" /\ owed'[b] = due
           /\ \A b \in Batches : owed'[b] \subseteq owed[b] \/ OpenBatch(b)
           /\ \A j \in DOMAIN jobs' \ DOMAIN jobs : \E w \in Workers :
                 SaveJob(w) /\ jobs'[j].batch = on[w].batch /\ jobs'[j].user = Least(todo[w])
                            /\ j = Len(jobs) + 1
<1>1. batch \in [Batches -> {"none", "in_progress", "completed"}] /\ owed \in [Batches -> SUBSET due]
  BY DEF TypeOK
<1>2. ASSUME NEW b \in Batches, OpenBatch(b)
      PROVE  /\ opening' = opening \cup {b} /\ batch' = [batch EXCEPT ![b] = "in_progress"]
             /\ batch[b] = "none" /\ owed' = [owed EXCEPT ![b] = due] /\ UNCHANGED jobs
  BY <1>2 DEF OpenBatch
<1>3. ASSUME NEW w \in Workers, CloseBatch(w)
      PROVE  /\ batch' = [batch EXCEPT ![on[w].batch] = "completed"]
             /\ UNCHANGED <<jobs, opening, owed>>
  BY <1>3 DEF CloseBatch
<1>4. ASSUME NEW w \in Workers, StampUser(w)
      PROVE  /\ \A b \in Batches : owed'[b] \subseteq owed[b]
             /\ UNCHANGED <<batch, opening, jobs>>
  BY <1>4 DEF StampUser, NotDue
<1>11. ASSUME NEW u \in Users, RemoveUser(u)
      PROVE  /\ \A b \in Batches : owed'[b] \subseteq owed[b]
             /\ UNCHANGED <<batch, opening, jobs>>
  BY <1>11 DEF RemoveUser, NotDue
<1>5. ASSUME NEW w \in Workers, SaveJob(w)
      PROVE  /\ \A j \in DOMAIN jobs' \ DOMAIN jobs :
                   jobs'[j].batch = on[w].batch /\ jobs'[j].user = Least(todo[w]) /\ j = Len(jobs) + 1
             /\ UNCHANGED <<batch, opening, owed>>
  BY <1>5, SaveJobFacts DEF SaveJob
<1>6. ASSUME NEW w \in Workers, StartJob(w) \/ FinishJob(w) \/ FailJob(w)
      PROVE  DOMAIN jobs' = DOMAIN jobs /\ UNCHANGED <<batch, opening, owed>>
  BY <1>6, Deliveries, SetJobFacts DEF StartJob, FinishJob, FailJob
<1>7. \/ \E b \in Batches : OpenBatch(b)
      \/ \E w \in Workers : CloseBatch(w) \/ SaveJob(w) \/ StampUser(w)
      \/ \E w \in Workers : StartJob(w) \/ FinishJob(w) \/ FailJob(w)
      \/ \E u \in Users : RemoveUser(u)
      \/ UNCHANGED <<batch, owed, jobs>> /\ opening' \subseteq opening
  BY DEF Next, Work, vars, EnqueueFirstPage, OpenFails, Deliver, Acknowledge, Crash,
         LosePost, Die, FetchPage, EnqueueJob, EnqueueNextPage, Resume, GenerateSucceeds,
         GenerateFails, LateFailure, BecomeDue
<1>8. \A b \in Batches : OpenBatch(b) =>
                 batch[b] = "none" /\ batch'[b] = "in_progress" /\ owed'[b] = due
  BY <1>1, <1>2
<1>9. CASE \E b \in Batches : OpenBatch(b)
  BY <1>1, <1>2, <1>8, <1>9
<1>10. CASE \E w \in Workers : CloseBatch(w)
  BY <1>1, <1>3, <1>8, <1>10
<1> QED
  BY <1>4, <1>11, <1>5, <1>6, <1>7, <1>8, <1>9, <1>10

(* Unopened is an invariant: only an opening enqueues the first page.       *)
LEMMA UnopenedInvariant == Spec => []Unopened
<1>1. Init => Unopened
  <2> SUFFICES ASSUME Init PROVE Unopened
    OBVIOUS
  <2>1. \A b \in Batches, n \in Ids : Page(b, n) # None
    <3>1. jobs = <<>>
      BY DEF Init
    <3> QED
      BY <3>1, NoneNotTask DEF Task, Ids
  <2> QED
    BY <2>1 DEF Init, Unopened, Live, Running, JobsOf
<1>2. TypeOK /\ TypeOK' /\ Unopened /\ [Next]_vars => Unopened'
  <2> SUFFICES ASSUME TypeOK, TypeOK', Unopened, [Next]_vars, NEW b \in Batches, batch'[b] = "none"
               PROVE  /\ b \notin opening'
                      /\ \A n \in Ids : ~Live(Page(b, n))'
                      /\ JobsOf(b)' = {}
    BY DEF Unopened
  <2>1. batch[b] = "none" /\ ~OpenBatch(b)
    BY BatchStep
  <2>2. b \notin opening'
    BY <2>1, BatchStep DEF Unopened
  <2>3. \A w \in Workers : pc[w] \in {"job", "next"} => on[w].batch # b
    BY <2>1, Deliveries DEF Unopened, Live, Running
  <2>4. ASSUME NEW n \in Ids, Live(Page(b, n))' PROVE FALSE
    <3>1. Page(b, n) # None /\ ~Live(Page(b, n)) /\ b \notin opening
      BY <2>1, Deliveries DEF Unopened
    <3> QED
      BY <2>3, <2>4, <3>1, LiveStep, TaskFacts DEF EnqueueNextPage
  <2>5. ASSUME NEW j \in JobsOf(b)' PROVE FALSE
    <3>1. j \in DOMAIN jobs' /\ jobs'[j].batch = b
      BY <2>5 DEF JobsOf
    <3>2. j \notin DOMAIN jobs
      BY <2>1, <3>1, JobsKept DEF Unopened, JobsOf
    <3>3. PICK w \in Workers : SaveJob(w) /\ jobs'[j].batch = on[w].batch
      BY <3>1, <3>2, BatchStep
    <3> QED
      BY <2>3, <3>1, <3>3 DEF SaveJob
  <2> QED
    BY <2>2, <2>4, <2>5
<1> QED
  BY <1>1, <1>2, TypeCorrect, PTL DEF Spec

----------------------------------------------------------------------------
(* Faults are counted and the environment stays.                            *)
LEMMA FaultStep ==
    ASSUME TypeOK, TypeOK', [Next]_vars
    PROVE  /\ Production' = Production
           /\ faults' = 0 => faults = 0
           /\ faults \in Nat /\ (faults' = faults \/ faults' = faults + 1)
<1>1. env' = env
  BY DEF Next, Work, vars, OpenBatch, EnqueueFirstPage, OpenFails, Deliver, Acknowledge, Crash,
         LosePost, Die, FetchPage, CloseBatch, SaveJob, EnqueueJob, EnqueueNextPage, Resume, StartJob,
         GenerateSucceeds, GenerateFails, StampUser, LateFailure, FinishJob, FailJob, BecomeDue, RemoveUser
<1>2. faults' = faults \/ faults' = faults + 1
  BY DEF Next, Work, vars, OpenBatch, EnqueueFirstPage, OpenFails, Deliver, Acknowledge, Crash,
         LosePost, Die, FetchPage, CloseBatch, SaveJob, EnqueueJob, EnqueueNextPage, Resume, StartJob,
         GenerateSucceeds, GenerateFails, StampUser, LateFailure, FinishJob, FailJob, BecomeDue, RemoveUser
<1>3. faults \in Nat
  BY BoundAssumption DEF TypeOK
<1> QED
  BY <1>1, <1>2, <1>3 DEF Production

(* Without faults, and in production with them, a task that is in the queue *)
(* stays there until a delivery of it is answered; in development it runs.  *)
LEMMA TaskKept ==
    ASSUME TypeOK, TypeOK', [Next]_vars, Production' \/ faults' = 0, NEW t, t # None,
           t \in tasks \/ (~Production /\ Running(t)),
           ~(t \in tasks' \/ (~Production' /\ Running(t)'))
    PROVE  \E w \in Workers : Acknowledge(w) /\ on[w] = t
<1> USE DEF Running
<1>a. on \in [Workers -> Task \cup {None}] /\ Production' = Production /\ faults \in Nat
  BY FaultStep DEF TypeOK
<1>1. ASSUME UNCHANGED on, tasks \subseteq tasks' PROVE FALSE
  BY <1>1, <1>a
<1>2. ASSUME NEW w \in Workers, Acknowledge(w) PROVE on[w] = t
  BY <1>2, <1>a DEF Acknowledge, Release
<1>3. ASSUME NEW w \in Workers, Crash(w) PROVE FALSE
  BY <1>3, <1>a DEF Crash
<1>4. CASE (\E s \in tasks : LosePost(s)) \/ Die
  BY <1>4, <1>a DEF LosePost, Die
<1>5. ASSUME NEW w \in Workers, NEW s \in tasks, Deliver(w, s) PROVE FALSE
  <2>1. pc[w] = "idle" /\ on[w] = None
    BY <1>5 DEF Deliver, TypeOK
  <2> QED
    BY <1>5, <1>a, <2>1 DEF Deliver
<1>6. \/ \E w \in Workers : Acknowledge(w) \/ Crash(w) \/ \E s \in tasks : Deliver(w, s)
      \/ (\E s \in tasks : LosePost(s)) \/ Die
      \/ UNCHANGED on /\ tasks \subseteq tasks'
  BY DEF Next, Work, vars, OpenBatch, EnqueueFirstPage, OpenFails, FetchPage, CloseBatch, SaveJob,
         EnqueueJob, EnqueueNextPage, Resume, StartJob, GenerateSucceeds, GenerateFails, StampUser,
         LateFailure, FinishJob, FailJob, BecomeDue, RemoveUser
<1> QED
  BY <1>1, <1>2, <1>3, <1>4, <1>5, <1>6

(* A user who has been handed over stays so: a delivery is only answered    *)
(* when the job has left its mark.                                          *)
LEMMA HandledKept ==
    ASSUME TypeOK, TypeOK', Started, [Next]_vars, Production' \/ faults' = 0,
           NEW b, NEW u, Handled(b, u)
    PROVE  Handled(b, u)'
<1>1. PICK j \in JobsOf(b) :
        /\ jobs[j].user = u
        /\ \/ jobs[j].status # "pending" \/ Summary(j) \in tasks
           \/ ~Production /\ Running(Summary(j))
  BY DEF Handled
<1>2. j \in DOMAIN jobs /\ jobs[j].batch = b
  BY DEF JobsOf
<1>3. j \in JobsOf(b)' /\ jobs'[j].user = u /\ (jobs'[j].status = "pending" => jobs[j].status = "pending")
  BY <1>1, <1>2, JobsKept DEF JobsOf
<1>4. ASSUME jobs'[j].status = "pending",
             ~(Summary(j) \in tasks' \/ (~Production' /\ Running(Summary(j))'))
      PROVE  FALSE
  <2>1. Summary(j) # None
    BY <1>2, Deliveries
  <2>2. PICK w \in Workers : Acknowledge(w) /\ on[w] = Summary(j)
    BY <1>1, <1>3, <1>4, <2>1, TaskKept
  <2>3. jobs[j].status # "pending"
    BY <2>1, <2>2, TaskFacts DEF Started, Acknowledge
  <2> QED
    BY <1>3, <1>4, <2>3
<1> QED
  BY <1>3, <1>4 DEF Handled

(* How a delivery comes to the calls that walk its page, ...                *)
LEMMA WalkStep ==
    ASSUME TypeOK, TypeOK', [Next]_vars, NEW w \in Workers, pc'[w] \in Walking \cup {"close"}
    PROVE  /\ on'[w] = on[w]
           /\ \/ FetchPage(w)
              \/ /\ (pc[w] \in Walking /\ pc'[w] \in Walking) \/ pc'[w] = pc[w]
                 /\ last'[w] = last[w]
                 /\ todo'[w] = todo[w] \/ EnqueueJob(w)
<1> USE DEF Walking, Goto, Release
<1>a. /\ pc \in [Workers -> Call] /\ on \in [Workers -> Task \cup {None}]
      /\ todo \in [Workers -> SUBSET Users] /\ last \in [Workers -> Users \cup {0}]
  BY DEF TypeOK
<1>1. CASE UNCHANGED <<pc, on, todo, last>>
  BY <1>1
<1>2. ASSUME NEW v \in Workers, NEW t \in tasks, Deliver(v, t)
      PROVE  v # w /\ pc'[w] = pc[w] /\ on'[w] = on[w] /\ UNCHANGED <<todo, last>>
  BY <1>2, <1>a DEF Deliver
<1>3. ASSUME NEW v \in Workers, Acknowledge(v) \/ Crash(v)
      PROVE  v # w /\ pc'[w] = pc[w] /\ on'[w] = on[w] /\ todo'[w] = todo[w] /\ last'[w] = last[w]
  BY <1>3, <1>a DEF Acknowledge, Crash
<1>4. CASE Die
  BY <1>4 DEF Die
<1>5. ASSUME NEW v \in Workers, FetchPage(v)
      PROVE  /\ UNCHANGED on
             /\ v # w => pc'[w] = pc[w] /\ todo'[w] = todo[w] /\ last'[w] = last[w]
  BY <1>5, <1>a DEF FetchPage
<1>6. ASSUME NEW v \in Workers, EnqueueJob(v)
      PROVE  /\ UNCHANGED <<on, last>>
             /\ v # w => pc'[w] = pc[w] /\ todo'[w] = todo[w]
             /\ v = w => pc[w] \in Walking /\ pc'[w] \in Walking
  BY <1>6, <1>a DEF EnqueueJob, AfterTask
<1>7. ASSUME NEW v \in Workers, SaveJob(v) \/ EnqueueNextPage(v) \/ Resume(v)
      PROVE  /\ UNCHANGED <<on, last, todo>>
             /\ v # w => pc'[w] = pc[w]
             /\ v = w => pc[w] \in Walking /\ pc'[w] \in Walking
  BY <1>7, <1>a DEF SaveJob, EnqueueNextPage, Resume, AfterTask
<1>8. ASSUME NEW v \in Workers,
             \/ CloseBatch(v) \/ StartJob(v) \/ GenerateSucceeds(v) \/ GenerateFails(v) \/ StampUser(v)
             \/ LateFailure(v) \/ FinishJob(v) \/ FailJob(v)
      PROVE  UNCHANGED <<on, last, todo>> /\ pc'[w] = pc[w]
  BY <1>8, <1>a DEF CloseBatch, StartJob, GenerateSucceeds, GenerateFails, StampUser, LateFailure,
                    FinishJob, FailJob
<1>9. \/ UNCHANGED <<pc, on, todo, last>>
      \/ Die
      \/ \E v \in Workers :
            \/ (\E t \in tasks : Deliver(v, t)) \/ Acknowledge(v) \/ Crash(v) \/ FetchPage(v) \/ EnqueueJob(v)
            \/ SaveJob(v) \/ EnqueueNextPage(v) \/ Resume(v) \/ CloseBatch(v) \/ StartJob(v)
            \/ GenerateSucceeds(v) \/ GenerateFails(v) \/ StampUser(v) \/ LateFailure(v) \/ FinishJob(v)
            \/ FailJob(v)
  BY DEF Next, Work, vars, OpenBatch, EnqueueFirstPage, OpenFails, LosePost, BecomeDue, RemoveUser
<1> HIDE DEF Walking
<1> QED
  BY <1>1, <1>2, <1>3, <1>4, <1>5, <1>6, <1>7, <1>8, <1>9

(* ... and what a page fetch leaves behind.                                 *)
LEMMA FetchFacts ==
    ASSUME TypeOK, NEW w \in Workers, FetchPage(w)
    PROVE  /\ pc[w] = "fetch" /\ UNCHANGED <<due, batch, jobs, tasks, opening, on, cur, owed, faults, env>>
           /\ \/ /\ pc'[w] = "close" /\ \A u \in due : u <= on[w].id
              \/ /\ pc'[w] = "job" /\ last'[w] \in todo'[w] /\ on[w].id < last'[w]
                 /\ \A u \in todo'[w] : on[w].id < u /\ u <= last'[w]
                 /\ \A u \in due : on[w].id < u /\ u <= last'[w] => u \in todo'[w]
           /\ \A v \in Workers \ {w} : pc'[v] = pc[v] /\ todo'[v] = todo[v] /\ last'[v] = last[v]
<1> DEFINE P == UsersDue(on[w].id)
<1>a. /\ pc \in [Workers -> Call]
      /\ todo \in [Workers -> SUBSET Users] /\ last \in [Workers -> Users \cup {0}]
  BY DEF TypeOK
<1>1. pc[w] = "fetch" /\ on[w].id \in Nat /\ due \subseteq Users
  BY Deliveries DEF FetchPage, TypeOK
<1>2. /\ P = {} => \A u \in due : u <= on[w].id
      /\ P # {} => /\ Greatest(P) \in P /\ on[w].id < Greatest(P)
                   /\ \A u \in P : on[w].id < u /\ u <= Greatest(P)
                   /\ \A u \in due : on[w].id < u /\ u <= Greatest(P) => u \in P
  BY <1>1, PageFacts
<1>3. /\ todo' = [todo EXCEPT ![w] = P]
      /\ last' = [last EXCEPT ![w] = IF P = {} THEN 0 ELSE Greatest(P)]
      /\ pc' = [pc EXCEPT ![w] = IF P = {} THEN "close" ELSE "job"]
      /\ UNCHANGED <<due, batch, jobs, tasks, opening, on, cur, owed, faults, env>>
  BY DEF FetchPage, Goto
<1> HIDE DEF P
<1> QED
  BY <1>a, <1>1, <1>2, <1>3

(* CoverInv is an invariant: pages follow one another without a gap.        *)
LEMMA CoverInvariant == Spec => []CoverInv
<1>1. Init => CoverInv
  <2> SUFFICES ASSUME Init PROVE CoverInv
    OBVIOUS
  <2>1. \A b \in Batches, n \in Ids : Page(b, n) # None
    <3>1. jobs = <<>>
      BY DEF Init
    <3> QED
      BY <3>1, NoneNotTask DEF Task, Ids
  <2> QED
    BY <2>1 DEF Init, CoverInv, Live, Running, Walking
<1>2. /\ TypeOK /\ TypeOK' /\ Unopened /\ Walk /\ Started /\ CoverInv /\ [Next]_vars
      => CoverInv'
  <2> SUFFICES ASSUME TypeOK, TypeOK', Unopened, Walk, Started, CoverInv, [Next]_vars,
                      Production' \/ faults' = 0
               PROVE  CoverInv'
    BY DEF CoverInv
  <2>a. Production \/ faults = 0
    BY FaultStep
  <2>b. \A b, u : Handled(b, u) => Handled(b, u)'
    BY HandledKept
  <2>c. /\ owed \in [Batches -> SUBSET due] /\ owed' \in [Batches -> SUBSET due'] /\ due \subseteq Users
        /\ due' \subseteq Users
        /\ \A u \in Users : u \in Nat /\ u # 0
    BY UsersAssumption DEF TypeOK
  <2>1. ASSUME NEW b \in Batches, NEW n \in Ids, Live(Page(b, n)), NEW u \in owed[b], u <= n
        PROVE  Handled(b, u)
    BY <2>1, <2>a DEF CoverInv
  <2>2. ASSUME NEW w \in Workers, NEW b \in Batches, pc[w] \in Walking, on[w].batch = b,
               NEW u \in owed[b], u <= last[w], u \notin todo[w]
        PROVE  Handled(b, u)
    BY <2>2, <2>a DEF CoverInv
  <2>3. ASSUME NEW w \in Workers, NEW b \in Batches, pc[w] = "close", on[w].batch = b,
               NEW u \in owed[b]
        PROVE  u <= on[w].id
    BY <2>3, <2>a DEF CoverInv
  <2>4. ASSUME NEW w \in Workers, pc[w] \in Walking \cup {"fetch", "close"}
        PROVE  /\ on[w].batch \in Batches /\ on[w].id \in Ids
               /\ Live(Page(on[w].batch, on[w].id)) /\ batch[on[w].batch] # "none"
    BY <2>4, Deliveries DEF Walking, Unopened, Live, Running
  <2>5. \A b \in Batches : batch[b] # "none" => owed'[b] \subseteq owed[b]
    BY BatchStep
  <2>6. ASSUME NEW b \in Batches, NEW n \in Ids, Live(Page(b, n))', NEW u \in owed'[b], u <= n
        PROVE  Handled(b, u)'
    <3>1. CASE Live(Page(b, n))
      <4>1. u \in owed[b]
        BY <2>5, <3>1 DEF Unopened
      <4> QED
        BY <2>1, <2>6, <2>b, <3>1, <4>1
    <3>2. CASE ~Live(Page(b, n))
      <4>1. Page(b, n) # None /\ ~(u <= 0) /\ opening \subseteq Batches
        BY <2>c, Deliveries DEF TypeOK
      <4>2. PICK w \in Workers : EnqueueNextPage(w) /\ Page(b, n) = Page(on[w].batch, last[w])
        BY <2>6, <3>2, <4>1, LiveStep, TaskFacts
      <4>3. pc[w] = "next" /\ todo[w] = {} /\ on[w].batch = b /\ last[w] = n
        BY <4>2, TaskFacts DEF EnqueueNextPage, Walk
      <4>4. u \in owed[b]
        BY <2>4, <2>5, <4>3 DEF Walking
      <4> QED
        BY <2>2, <2>6, <2>b, <4>3, <4>4 DEF Walking
    <3> QED
      BY <3>1, <3>2
  <2>7. ASSUME NEW w \in Workers, pc'[w] \in Walking \cup {"close"}
        PROVE  /\ on'[w] = on[w] /\ on[w].batch \in Batches /\ on[w].id \in Nat
               /\ owed'[on[w].batch] \subseteq owed[on[w].batch]
               /\ \A u \in owed[on[w].batch] : u \in Nat /\ u \in due
    <3>1. pc[w] \in Walking \cup {"fetch", "close"} /\ on'[w] = on[w]
      BY <2>7, WalkStep DEF FetchPage
    <3> QED
      BY <2>4, <2>5, <2>c, <3>1, Deliveries
  <2>8. ASSUME NEW w \in Workers, NEW b \in Batches, pc'[w] \in Walking, on'[w].batch = b,
               NEW u \in owed'[b], u <= last'[w], u \notin todo'[w]
        PROVE  Handled(b, u)'
    <3>1. on'[w] = on[w] /\ on[w].batch = b /\ on[w].id \in Nat /\ u \in owed[b] /\ u \in Nat /\ u \in due
      BY <2>7, <2>8
    <3>2. CASE FetchPage(w)
      <4>1. ~(on[w].id < u) /\ pc[w] = "fetch"
        BY <2>8, <3>1, <3>2, FetchFacts DEF Walking
      <4>2. Handled(b, u)
        BY <2>1, <2>4, <3>1, <4>1
      <4> QED
        BY <2>b, <3>1, <4>2
    <3>3. CASE ~FetchPage(w) /\ u \notin todo[w]
      <4>1. pc[w] \in Walking /\ last'[w] = last[w]
        BY <2>8, <3>3, WalkStep
      <4> QED
        BY <2>2, <2>8, <2>b, <3>1, <3>3, <4>1
    <3>4. CASE ~FetchPage(w) /\ u \in todo[w]
      <4>1. EnqueueJob(w)
        BY <2>8, <3>4, WalkStep
      <4>2. /\ pc[w] = "task" /\ UNCHANGED jobs /\ Summary(cur[w]) \in tasks'
            /\ todo' = [todo EXCEPT ![w] = todo[w] \ {jobs[cur[w]].user}]
        BY <4>1 DEF EnqueueJob
      <4>3. cur[w] \in DOMAIN jobs /\ jobs[cur[w]].batch = b
        BY <4>2, <3>1, Positions DEF Walk
      <4>4. jobs[cur[w]].user = u
        BY <2>8, <3>4, <4>2 DEF TypeOK
      <4> QED
        BY <3>1, <4>2, <4>3, <4>4 DEF Handled, JobsOf
    <3> QED
      BY <3>2, <3>3, <3>4
  <2>9. ASSUME NEW w \in Workers, NEW b \in Batches, pc'[w] = "close", on'[w].batch = b,
               NEW u \in owed'[b]
        PROVE  u <= on'[w].id
    <3>1. on'[w] = on[w] /\ on[w].batch = b /\ u \in owed[b] /\ u \in due
      BY <2>7, <2>9
    <3>2. FetchPage(w) \/ pc[w] = "close"
      BY <2>9, WalkStep DEF Walking
    <3> QED
      BY <2>3, <2>9, <3>1, <3>2, FetchFacts
  <2>10. ASSUME NEW b \in Batches, batch'[b] = "completed", NEW u \in owed'[b]
         PROVE  Handled(b, u)'
    <3>1. CASE batch[b] = "completed"
      <4>1. u \in owed[b]
        BY <2>5, <3>1
      <4>2. Handled(b, u)
        BY <2>a, <3>1, <4>1 DEF CoverInv
      <4> QED
        BY <2>b, <4>2
    <3>2. CASE batch[b] # "completed"
      <4>1. PICK w \in Workers : CloseBatch(w) /\ on[w].batch = b
        BY <2>10, <3>2, BatchStep
      <4>2. pc[w] = "close"
        BY <4>1 DEF CloseBatch
      <4>3. u \in owed[b] /\ Live(Page(b, on[w].id)) /\ on[w].id \in Ids
        BY <2>4, <2>5, <4>1, <4>2
      <4>4. u <= on[w].id
        BY <2>3, <4>1, <4>2, <4>3
      <4> QED
        BY <2>1, <2>b, <4>3, <4>4
    <3> QED
      BY <3>1, <3>2
  <2> QED
    BY <2>6, <2>8, <2>9, <2>10 DEF CoverInv
<1> QED
  BY <1>1, <1>2, TypeCorrect, StartedInvariant, WalkInvariant, UnopenedInvariant, PTL DEF Spec

----------------------------------------------------------------------------
(* A delivery that has still to walk has been at it, or it begins.          *)
LEMMA WalksStep ==
    ASSUME TypeOK, TypeOK', [Next]_vars, NEW w \in Workers, Walks(w)'
    PROVE  \/ \E t \in tasks : Deliver(w, t) /\ t.type = "page" /\ on'[w] = t /\ pc'[w] = "fetch"
           \/ /\ Walks(w) /\ on'[w] = on[w]
              /\ pc'[w] = "fetch" => pc[w] = "fetch"
              /\ pc[w] = "task" => EnqueueJob(w) \/ (pc'[w] = "task" /\ cur'[w] = cur[w])
              /\ ~EnqueueNextPage(w) /\ ~CloseBatch(w)
<1> USE DEF Walks, Goto, Release
<1>a. /\ pc \in [Workers -> Call] /\ on \in [Workers -> Task \cup {None}]
      /\ cur \in [Workers -> (1 .. Len(jobs)) \cup {None}]
  BY DEF TypeOK
<1>1. CASE UNCHANGED <<pc, on, cur>>
  <2>1. ~EnqueueNextPage(w) /\ ~CloseBatch(w)
    BY <1>1, <1>a DEF EnqueueNextPage, CloseBatch
  <2> QED
    BY <1>1, <2>1
<1>2. ASSUME NEW v \in Workers, NEW t \in tasks, Deliver(v, t)
      PROVE  \/ v = w /\ t.type = "page" /\ on'[w] = t /\ pc'[w] = "fetch"
             \/ /\ pc'[w] = pc[w] /\ on'[w] = on[w] /\ cur'[w] = cur[w]
                /\ ~EnqueueNextPage(w) /\ ~CloseBatch(w)
  <2>1. /\ on' = [on EXCEPT ![v] = t] /\ pc[v] = "idle" /\ UNCHANGED cur
        /\ pc' = [pc EXCEPT ![v] = IF t.type = "page" THEN "fetch" ELSE "start"]
    BY <1>2 DEF Deliver
  <2>2. CASE v = w
    BY <2>1, <2>2, <1>a
  <2>3. CASE v # w
    <3>1. pc'[w] = pc[w] /\ on'[w] = on[w] /\ cur'[w] = cur[w]
      BY <2>1, <2>3, <1>a
    <3>2. ~EnqueueNextPage(w) /\ ~CloseBatch(w)
      BY <3>1, <1>a DEF EnqueueNextPage, CloseBatch
    <3> QED
      BY <3>1, <3>2
  <2> QED
    BY <2>2, <2>3
<1>3. ASSUME NEW v \in Workers, Acknowledge(v) \/ Crash(v)
      PROVE  /\ pc'[w] = pc[w] /\ on'[w] = on[w] /\ cur'[w] = cur[w]
             /\ ~EnqueueNextPage(w) /\ ~CloseBatch(w)
  <2>1. /\ pc' = [pc EXCEPT ![v] = "idle"] /\ on' = [on EXCEPT ![v] = None]
        /\ cur' = [cur EXCEPT ![v] = None]
    BY <1>3 DEF Acknowledge, Crash
  <2>2. v # w
    BY <2>1, <1>a
  <2>3. pc'[w] = pc[w] /\ on'[w] = on[w] /\ cur'[w] = cur[w]
    BY <2>1, <2>2, <1>a
  <2> QED
    BY <2>3, <1>a DEF EnqueueNextPage, CloseBatch
<1>4. CASE Die
  BY <1>4 DEF Die
<1>5. ASSUME NEW v \in Workers,
             \/ FetchPage(v) \/ CloseBatch(v) \/ SaveJob(v) \/ EnqueueJob(v) \/ EnqueueNextPage(v) \/ Resume(v)
      PROVE  /\ Walks(w) /\ on'[w] = on[w]
             /\ pc'[w] = "fetch" => pc[w] = "fetch"
             /\ pc[w] = "task" => EnqueueJob(w) \/ (pc'[w] = "task" /\ cur'[w] = cur[w])
             /\ ~EnqueueNextPage(w) /\ ~CloseBatch(w)
  <2>1. \A x \in Workers : /\ pc[x] = "task" => cur[x] # None
                           /\ pc[x] \notin {"task", "await"} => cur[x] = None
    BY Positions
  <2>2. CASE v = w
    <3>1. CASE FetchPage(w)
      BY <3>1, <1>a DEF FetchPage, EnqueueNextPage, CloseBatch
    <3>2. CASE CloseBatch(w)
      BY <3>2, <1>a DEF CloseBatch
    <3>3. CASE SaveJob(w)
      BY <3>3, <1>a DEF SaveJob, EnqueueNextPage, CloseBatch
    <3>4. CASE EnqueueJob(w)
      <4>1. pc[w] = "task" /\ on' = on
        BY <3>4 DEF EnqueueJob
      <4>2. pc'[w] # "fetch"
        BY <3>4, <1>a DEF EnqueueJob, AfterTask
      <4> QED
        BY <3>4, <4>1, <4>2 DEF EnqueueNextPage, CloseBatch
    <3>5. CASE EnqueueNextPage(w)
      BY <3>5, <1>a, <2>1 DEF EnqueueNextPage
    <3>6. CASE Resume(w)
      BY <3>6, <1>a DEF Resume, EnqueueNextPage, CloseBatch, AfterTask
    <3> QED
      BY <1>5, <2>2, <3>1, <3>2, <3>3, <3>4, <3>5, <3>6
  <2>3. CASE v # w
    <3>1. pc'[w] = pc[w] /\ on'[w] = on[w] /\ cur'[w] = cur[w]
      BY <1>5, <1>a, <2>3 DEF FetchPage, CloseBatch, SaveJob, EnqueueJob, EnqueueNextPage, Resume
    <3>2. ~EnqueueNextPage(w) /\ ~CloseBatch(w)
      BY <3>1, <1>a DEF EnqueueNextPage, CloseBatch
    <3> QED
      BY <3>1, <3>2
  <2> QED
    BY <2>2, <2>3
<1>6. ASSUME NEW v \in Workers,
             \/ StartJob(v) \/ GenerateSucceeds(v) \/ GenerateFails(v) \/ StampUser(v)
             \/ LateFailure(v) \/ FinishJob(v) \/ FailJob(v)
      PROVE  /\ pc'[w] = pc[w] /\ on'[w] = on[w] /\ cur'[w] = cur[w]
             /\ ~EnqueueNextPage(w) /\ ~CloseBatch(w)
  <2>1. pc'[w] = pc[w] /\ on'[w] = on[w] /\ cur'[w] = cur[w]
    BY <1>6, <1>a DEF StartJob, GenerateSucceeds, GenerateFails, StampUser, LateFailure, FinishJob, FailJob
  <2> QED
    BY <2>1, <1>a DEF EnqueueNextPage, CloseBatch
<1>7. \/ UNCHANGED <<pc, on, cur>>
      \/ Die
      \/ \E v \in Workers :
            \/ (\E t \in tasks : Deliver(v, t)) \/ Acknowledge(v) \/ Crash(v)
            \/ FetchPage(v) \/ CloseBatch(v) \/ SaveJob(v) \/ EnqueueJob(v) \/ EnqueueNextPage(v) \/ Resume(v)
            \/ StartJob(v) \/ GenerateSucceeds(v) \/ GenerateFails(v) \/ StampUser(v) \/ LateFailure(v)
            \/ FinishJob(v) \/ FailJob(v)
  BY DEF Next, Work, vars, OpenBatch, EnqueueFirstPage, OpenFails, LosePost, BecomeDue, RemoveUser
<1>8. ASSUME pc'[w] = pc[w], on'[w] = on[w], cur'[w] = cur[w]
      PROVE  Walks(w) /\ (pc[w] = "task" => pc'[w] = "task")
  BY <1>8
<1> HIDE DEF Walks, Goto, Release
<1> QED
  BY <1>1, <1>2, <1>3, <1>4, <1>5, <1>6, <1>7, <1>8

(* A task that comes to wait is enqueued: without faults, and in            *)
(* development with them, a delivery that ends leaves none.                 *)
LEMMA WaitsStep ==
    ASSUME TypeOK, TypeOK', [Next]_vars, ~Production' \/ faults' = 0, NEW t, t # None,
           ~Production => ~(t \in tasks /\ Running(t)),
           Waits(t)', ~Waits(t)
    PROVE  \/ \E b \in opening : t = Page(b, 0) /\ EnqueueFirstPage(b)
           \/ \E w \in Workers : EnqueueJob(w) /\ t = Summary(cur[w])
           \/ \E w \in Workers : EnqueueNextPage(w) /\ t = Page(on[w].batch, last[w])
<1>1. CASE ~Live(t)
  <2>1. Live(t)'
    BY DEF Waits, Live
  <2> QED
    BY <1>1, <2>1, LiveStep
<1>2. CASE Live(t)
  <2> USE DEF Running
  <2>a. on \in [Workers -> Task \cup {None}] /\ Production' = Production /\ faults \in Nat
    BY FaultStep DEF TypeOK
  <2>1. Running(t) /\ t \in tasks' /\ ~Running(t)'
    BY <1>2 DEF Live, Waits
  <2>2. CASE UNCHANGED on
    BY <2>1, <2>2
  <2>3. ASSUME NEW w \in Workers, Acknowledge(w) PROVE FALSE
    BY <2>1, <2>3, <2>a DEF Acknowledge, Release
  <2>4. ASSUME NEW w \in Workers, Crash(w) PROVE FALSE
    BY <2>1, <2>4, <2>a DEF Crash
  <2>5. CASE Die
    BY <2>1, <2>5 DEF Die
  <2>6. ASSUME NEW w \in Workers, NEW s \in tasks, Deliver(w, s) PROVE FALSE
    <3>1. on[w] = None
      BY <2>6 DEF Deliver, TypeOK
    <3> QED
      BY <2>1, <2>6, <2>a, <3>1 DEF Deliver
  <2>7. \/ UNCHANGED on \/ Die
        \/ \E w \in Workers : Acknowledge(w) \/ Crash(w) \/ \E s \in tasks : Deliver(w, s)
    BY DEF Next, Work, vars, OpenBatch, EnqueueFirstPage, OpenFails, LosePost, FetchPage, CloseBatch,
           SaveJob, EnqueueJob, EnqueueNextPage, Resume, StartJob, GenerateSucceeds, GenerateFails,
           StampUser, LateFailure, FinishJob, FailJob, BecomeDue, RemoveUser
  <2> QED
    BY <2>2, <2>3, <2>4, <2>5, <2>6, <2>7
<1> QED
  BY <1>1, <1>2

(* FrontInv is an invariant: the front moves from the opening of the batch  *)
(* to the first page, to the delivery of it and to the next page.           *)
LEMMA FrontInvariant == Spec => []FrontInv
<1>1. Init => FrontInv
  <2> SUFFICES ASSUME Init PROVE FrontInv
    OBVIOUS
  <2>1. \A b \in Batches, n \in Ids : Page(b, n) # None
    <3>1. jobs = <<>>
      BY DEF Init
    <3> QED
      BY <3>1, NoneNotTask DEF Task, Ids
  <2> QED
    BY <2>1 DEF Init, FrontInv, PostedOnce, OneFront, FrontIsLast, JobsBehindFront, OneJobPerUser,
                Live, Waits, Walks, Running
<1>2. TypeOK /\ TypeOK' /\ Unopened /\ Walk /\ FrontInv /\ [Next]_vars => FrontInv'
  <2> SUFFICES ASSUME TypeOK, TypeOK', Unopened, Walk, FrontInv, [Next]_vars, ~Production' \/ faults' = 0
               PROVE  (PostedOnce /\ OneFront /\ FrontIsLast /\ JobsBehindFront /\ OneJobPerUser)'
    BY DEF FrontInv
  <2>a. /\ PostedOnce /\ OneFront /\ FrontIsLast /\ JobsBehindFront /\ OneJobPerUser
        /\ ~Production \/ faults = 0
        /\ Production' = Production
    BY FaultStep DEF FrontInv
  <2>b. ASSUME NEW w \in Workers, Walks(w)
        PROVE  /\ on[w].batch \in Batches /\ on[w].id \in Ids /\ on[w] = Page(on[w].batch, on[w].id)
               /\ Live(Page(on[w].batch, on[w].id))
               /\ on[w].batch \notin opening /\ batch[on[w].batch] = "in_progress"
    <3>1. /\ on[w].batch \in Batches /\ on[w].id \in Ids /\ on[w] = Page(on[w].batch, on[w].id)
          /\ Live(Page(on[w].batch, on[w].id))
      BY <2>b, Deliveries DEF Walks, Live, Running
    <3>2. batch[on[w].batch] \in {"none", "in_progress", "completed"}
      BY <3>1 DEF TypeOK
    <3> QED
      BY <2>a, <2>b, <3>1, <3>2 DEF OneFront, Unopened
  <2>c. ASSUME NEW b \in Batches, NEW n \in Ids, Waits(Page(b, n))
        PROVE  b \notin opening /\ batch[b] = "in_progress"
    <3>1. batch[b] \in {"none", "in_progress", "completed"} /\ Live(Page(b, n))
      BY <2>c DEF TypeOK, Waits, Live
    <3> QED
      BY <2>a, <2>c, <3>1 DEF OneFront, Unopened
  <2>d. ASSUME NEW w \in Workers, NEW t \in tasks, Deliver(w, t), t.type = "page"
        PROVE  \E b \in Batches, n \in Ids : t = Page(b, n) /\ Waits(Page(b, n))
    <3>1. PICK b \in Batches, n \in Ids : t = Page(b, n)
      <4>1. t \in Task /\ \A j : t # Summary(j)
        BY <2>d, TaskFacts DEF TypeOK
      <4> QED
        BY <4>1 DEF Task, Ids
    <3>2. ~Running(t)
      <4>1. faults \in Nat
        BY FaultStep
      <4> QED
        BY <2>a, <2>d, <3>1, <4>1 DEF Deliver, PostedOnce
    <3> QED
      BY <3>1, <3>2 DEF Waits
  <2>e. ASSUME NEW w \in Workers, EnqueueNextPage(w)
        PROVE  /\ Walks(w) /\ pc[w] = "next" /\ todo[w] = {} /\ on[w].id < last[w]
               /\ on[w].batch \in Batches /\ UNCHANGED <<on, opening, batch, jobs>>
    <3>1. Walks(w) /\ pc[w] = "next" /\ todo[w] = {} /\ on[w].id < last[w]
      BY <2>e DEF EnqueueNextPage, Walks, Walk, Walking
    <3> QED
      BY <2>e, <3>1, <2>b DEF EnqueueNextPage
  <2>f. ASSUME NEW b \in Batches, NEW n \in Ids, Live(Page(b, n))', ~Live(Page(b, n))
        PROVE  \/ b \in opening /\ n = 0 /\ EnqueueFirstPage(b)
               \/ \E w \in Workers : EnqueueNextPage(w) /\ on[w].batch = b /\ n = last[w]
    BY <2>f, Deliveries, LiveStep, TaskFacts
  <2>g. ASSUME NEW b \in Batches, NEW n \in Ids, Waits(Page(b, n))', ~Waits(Page(b, n))
        PROVE  \/ b \in opening /\ n = 0 /\ EnqueueFirstPage(b)
               \/ \E w \in Workers : EnqueueNextPage(w) /\ on[w].batch = b /\ n = last[w]
    <3>1. ~Production => ~(Page(b, n) \in tasks /\ Running(Page(b, n)))
      BY <2>a DEF PostedOnce
    <3> QED
      BY <2>g, <3>1, Deliveries, WaitsStep, TaskFacts
  <2>h. ASSUME NEW w \in Workers, Walks(w)'
        PROVE  \/ \E n \in Ids, b \in Batches :
                     /\ Deliver(w, Page(b, n)) /\ Waits(Page(b, n)) /\ on'[w] = Page(b, n)
                     /\ on'[w].batch = b /\ on'[w].id = n /\ pc'[w] = "fetch"
               \/ /\ Walks(w) /\ on'[w] = on[w]
                  /\ pc'[w] = "fetch" => pc[w] = "fetch"
                  /\ pc[w] = "task" => EnqueueJob(w) \/ (pc'[w] = "task" /\ cur'[w] = cur[w])
                  /\ ~EnqueueNextPage(w) /\ ~CloseBatch(w)
    BY <2>h, <2>d, WalksStep, TaskFacts
  <2>i. Ids \subseteq Nat
    BY Deliveries
  <2>1. PostedOnce'
    <3> SUFFICES ASSUME ~Production, NEW b \in Batches, NEW n \in Ids,
                        Page(b, n) \in tasks', Running(Page(b, n))'
                 PROVE  FALSE
      BY <2>a DEF PostedOnce
    <3>1. Page(b, n) # None
      BY Deliveries
    <3>2. CASE Page(b, n) \in tasks
      <4>1. ~Running(Page(b, n))
        BY <2>a, <3>2 DEF PostedOnce
      <4>2. PICK w \in Workers : Deliver(w, Page(b, n))
        BY <3>1, <4>1, RunningStep
      <4> QED
        BY <4>2 DEF Deliver
    <3>3. CASE Page(b, n) \notin tasks
      <4>1. Running(Page(b, n))
        BY <3>1, <3>3, RunningStep
      <4>2. Live(Page(b, n)) /\ b \notin opening
        BY <2>a, <4>1 DEF Live, OneFront
      <4>3. PICK w \in Workers : EnqueueNextPage(w) /\ Page(b, n) = Page(on[w].batch, last[w])
        BY <3>3, <4>2, TasksStep, TaskFacts
      <4>4. on[w].batch = b /\ last[w] = n /\ Walks(w) /\ on[w].id < last[w] /\ on[w].id \in Ids
            /\ on[w] = Page(b, on[w].id)
        BY <4>3, <2>b, <2>e, TaskFacts
      <4>5. n <= on[w].id
        BY <2>a, <4>2, <4>4 DEF FrontIsLast
      <4>6. on[w].id \in Nat /\ n \in Nat /\ on[w].id < n
        BY <2>i, <4>4
      <4> QED
        BY <4>5, <4>6
    <3> QED
      BY <3>2, <3>3
  <2>2. OneFront'
    <3>1. ASSUME NEW v \in Workers, NEW w \in Workers, Walks(v)', Walks(w)',
                 on'[v].batch = on'[w].batch
          PROVE  v = w
      <4>1. CASE /\ Walks(v) /\ on'[v] = on[v] /\ Walks(w) /\ on'[w] = on[w]
        BY <2>a, <3>1, <4>1 DEF OneFront
      <4>2. ASSUME NEW x \in Workers, NEW y \in Workers, on'[x].batch = on'[y].batch,
                   Walks(x) /\ on'[x] = on[x],
                   NEW n \in Ids, NEW b \in Batches, Deliver(y, Page(b, n)),
                   Waits(Page(b, n)), on'[y].batch = b
            PROVE  FALSE
        BY <2>a, <4>2 DEF OneFront
      <4>3. ASSUME NEW n \in Ids, NEW b \in Batches, Deliver(v, Page(b, n)),
                   NEW m \in Ids, NEW c \in Batches, Deliver(w, Page(c, m)), v # w,
                   pc'[w] = "fetch"
            PROVE  FALSE
        BY <4>3 DEF Deliver, Goto, TypeOK
      <4> QED
        BY <2>h, <3>1, <4>1, <4>2, <4>3
    <3>2. ASSUME NEW b \in Batches, NEW n \in Ids, Waits(Page(b, n))',
                 NEW m \in Ids, Waits(Page(b, m))'
          PROVE  n = m
      <4>1. CASE Waits(Page(b, n)) /\ Waits(Page(b, m))
        BY <2>a, <4>1 DEF OneFront
      <4>2. ASSUME NEW k \in Ids, Waits(Page(b, k)), NEW i \in Ids, Waits(Page(b, i))', ~Waits(Page(b, i))
            PROVE  FALSE
        BY <2>a, <2>c, <2>e, <2>g, <4>2 DEF OneFront
      <4>3. CASE ~Waits(Page(b, n)) /\ ~Waits(Page(b, m))
        <5>1. CASE b \in opening /\ n = 0
          <6>1. \A w \in Workers : EnqueueNextPage(w) => on[w].batch # b
            BY <2>b, <2>e, <5>1
          <6> QED
            BY <2>g, <3>2, <4>3, <5>1, <6>1
        <5>2. CASE ~(b \in opening /\ n = 0)
          <6>1. PICK w \in Workers : EnqueueNextPage(w) /\ on[w].batch = b /\ n = last[w]
            BY <2>g, <3>2, <4>3, <5>2
          <6>2. b \notin opening
            BY <2>b, <2>e, <6>1
          <6>3. PICK v \in Workers : EnqueueNextPage(v) /\ on[v].batch = b /\ m = last[v]
            BY <2>g, <3>2, <4>3, <6>2
          <6>4. v = w
            BY <2>a, <2>e, <6>1, <6>3 DEF OneFront
          <6> QED
            BY <6>1, <6>3, <6>4
        <5> QED
          BY <5>1, <5>2
      <4> QED
        BY <3>2, <4>1, <4>2, <4>3
    <3>3. ASSUME NEW b \in Batches, NEW n \in Ids, Waits(Page(b, n))',
                 NEW w \in Workers, Walks(w)', on'[w].batch = b
          PROVE  FALSE
      <4>1. CASE Walks(w) /\ on'[w] = on[w]
        <5>1. ~Waits(Page(b, n)) /\ b \notin opening
          BY <2>a, <2>b, <3>3, <4>1 DEF OneFront
        <5>2. PICK v \in Workers : EnqueueNextPage(v) /\ on[v].batch = b
          BY <2>g, <3>3, <5>1
        <5>3. v = w
          BY <2>a, <2>e, <3>3, <4>1, <5>2 DEF OneFront
        <5>4. EnqueueNextPage(w) /\ pc[w] = "next"
          BY <2>e, <5>2, <5>3
        <5> QED
          <6>1. ASSUME NEW k \in Ids, Deliver(w, Page(b, k)) PROVE FALSE
            BY <5>4, <6>1 DEF Deliver
          <6> QED
            BY <2>h, <3>3, <5>4, <6>1
      <4>2. CASE ~(Walks(w) /\ on'[w] = on[w])
        <5>1. PICK m \in Ids : /\ Deliver(w, Page(b, m)) /\ Waits(Page(b, m)) /\ on'[w] = Page(b, m)
          BY <2>h, <3>3, <4>2, TaskFacts
        <5>2. n # m
          BY <3>3, <5>1 DEF Waits, Running
        <5>3. ~Waits(Page(b, n)) /\ b \notin opening
          BY <2>a, <2>c, <5>1, <5>2 DEF OneFront
        <5>4. PICK v \in Workers : EnqueueNextPage(v) /\ on[v].batch = b
          BY <2>g, <3>3, <5>3
        <5> QED
          BY <2>a, <2>e, <5>1, <5>4 DEF OneFront
      <4> QED
        BY <4>1, <4>2
    <3>4. ASSUME NEW b \in opening' PROVE batch'[b] = "in_progress"
      <4>1. b \in Batches
        BY <3>4 DEF TypeOK
      <4>2. (b \in opening /\ batch[b] = "in_progress") \/ OpenBatch(b)
        BY <2>a, <3>4, <4>1, BatchStep DEF OneFront
      <4>3. ASSUME NEW w \in Workers, CloseBatch(w), on[w].batch = b, b \in opening PROVE FALSE
        BY <2>b, <4>3 DEF CloseBatch, Walks
      <4> QED
        BY <4>1, <4>2, <4>3, BatchStep
    <3>5. ASSUME NEW b \in opening', NEW n \in Ids, Live(Page(b, n))' PROVE FALSE
      <4>1. b \in Batches
        BY <3>5 DEF TypeOK
      <4>2. b \in opening \/ OpenBatch(b)
        BY <3>5, <4>1, BatchStep
      <4>3. ~Live(Page(b, n))
        BY <2>a, <4>1, <4>2 DEF OneFront, Unopened, OpenBatch
      <4>4. CASE EnqueueFirstPage(b)
        BY <3>5, <4>4 DEF EnqueueFirstPage
      <4>5. ASSUME NEW w \in Workers, EnqueueNextPage(w), on[w].batch = b PROVE FALSE
        BY <2>b, <2>e, <4>2, <4>5 DEF OpenBatch
      <4> QED
        BY <2>f, <3>5, <4>1, <4>3, <4>4, <4>5
    <3>6. ASSUME NEW b \in Batches, batch'[b] = "completed"
          PROVE  /\ \A n \in Ids : ~Waits(Page(b, n))'
                 /\ \A w \in Workers : Walks(w)' => on'[w].batch # b
      <4>1. CASE batch[b] = "completed"
        <5>1. ASSUME NEW n \in Ids, Waits(Page(b, n))' PROVE FALSE
          BY <2>a, <2>b, <2>e, <2>g, <4>1, <5>1 DEF OneFront
        <5>2. ASSUME NEW w \in Workers, Walks(w)', on'[w].batch = b PROVE FALSE
          BY <2>b, <2>c, <2>h, <4>1, <5>2
        <5> QED
          BY <5>1, <5>2
      <4>2. CASE batch[b] # "completed"
        <5>1. PICK w \in Workers : CloseBatch(w) /\ on[w].batch = b
          BY <3>6, <4>2, BatchStep
        <5>2. pc[w] = "close" /\ Walks(w) /\ UNCHANGED <<tasks, on>>
          BY <5>1 DEF CloseBatch, Walks
        <5>3. ASSUME NEW n \in Ids, Waits(Page(b, n))' PROVE FALSE
          <6>1. Waits(Page(b, n))
            BY <5>2, <5>3 DEF Waits, Running
          <6> QED
            BY <2>a, <5>1, <5>2, <6>1 DEF OneFront
        <5>4. ASSUME NEW v \in Workers, Walks(v)', on'[v].batch = b PROVE FALSE
          <6>1. \A n \in Ids : ~Waits(Page(b, n))
            BY <2>a, <5>1, <5>2 DEF OneFront
          <6>2. Walks(v) /\ on[v].batch = b /\ ~CloseBatch(v)
            BY <2>h, <5>4, <6>1
          <6>3. v = w
            BY <2>a, <5>1, <5>2, <6>2 DEF OneFront
          <6> QED
            BY <5>1, <6>2, <6>3
        <5> QED
          BY <5>3, <5>4
      <4> QED
        BY <4>1, <4>2
    <3> QED
      BY <3>1, <3>2, <3>3, <3>4, <3>5, <3>6 DEF OneFront
  <2>3. FrontIsLast'
    <3> SUFFICES ASSUME NEW b \in Batches, NEW n \in Ids, NEW m \in Ids, Live(Page(b, m))',
                        Waits(Page(b, n))' \/ \E w \in Workers : Walks(w)' /\ on'[w] = Page(b, n)
                 PROVE  m <= n
      BY DEF FrontIsLast
    <3>a. n \in Nat /\ m \in Nat
      BY <2>i
    <3>1. ASSUME NEW w \in Workers, EnqueueNextPage(w), on[w].batch = b
          PROVE  /\ Live(Page(b, m)) => m < last[w]
                 /\ ~Live(Page(b, m)) => m = last[w]
                 /\ Waits(Page(b, n))' => n = last[w]
                 /\ \A v \in Workers : Walks(v)' => on'[v] # Page(b, n)
      <4>1. Walks(w) /\ on[w].id < last[w] /\ on[w] = Page(b, on[w].id) /\ on[w].id \in Nat
            /\ on[w].id \in Ids /\ b \notin opening
        BY <2>b, <2>e, <2>i, <3>1
      <4>2. \A k \in Ids : ~Waits(Page(b, k))
        BY <2>a, <3>1, <4>1 DEF OneFront
      <4>3. \A v \in Workers : EnqueueNextPage(v) /\ on[v].batch = b => v = w
        BY <2>a, <2>e, <3>1 DEF OneFront
      <4>4. Live(Page(b, m)) => m < last[w]
        <5>1. last[w] \in Nat
          BY <2>i DEF TypeOK, Ids
        <5>2. Live(Page(b, m)) => m <= on[w].id
          BY <2>a, <4>1 DEF FrontIsLast
        <5> QED
          BY <3>a, <4>1, <5>1, <5>2
      <4>5. ~Live(Page(b, m)) => m = last[w]
        BY <2>f, <4>1, <4>3
      <4>6. Waits(Page(b, n))' => n = last[w]
        BY <2>g, <4>1, <4>2, <4>3
      <4>7. ASSUME NEW v \in Workers, Walks(v)', on'[v] = Page(b, n) PROVE FALSE
        <5>1. on'[v].batch = b
          BY <4>7, TaskFacts
        <5>2. Walks(v) /\ on[v].batch = b /\ ~EnqueueNextPage(v)
          BY <2>h, <4>2, <4>7, <5>1
        <5>3. v = w
          BY <2>a, <3>1, <4>1, <5>2 DEF OneFront
        <5> QED
          BY <3>1, <5>2, <5>3
      <4> QED
        BY <4>4, <4>5, <4>6, <4>7
    <3>2. CASE \E w \in Workers : EnqueueNextPage(w) /\ on[w].batch = b
      <4>1. PICK w \in Workers : EnqueueNextPage(w) /\ on[w].batch = b
        BY <3>2
      <4>2. n = last[w] /\ (m < last[w] \/ m = last[w])
        BY <3>1, <4>1
      <4> QED
        BY <3>a, <4>2
    <3>3. CASE EnqueueFirstPage(b)
      <4>1. b \in opening
        BY <3>3 DEF EnqueueFirstPage
      <4>2. ~Live(Page(b, m))
        BY <2>a, <4>1 DEF OneFront
      <4>3. \A w \in Workers : EnqueueNextPage(w) => on[w].batch # b
        BY <2>b, <2>e, <4>1
      <4>4. m = 0
        BY <2>f, <4>2, <4>3
      <4> QED
        BY <3>a, <4>4
    <3>4. CASE ~EnqueueFirstPage(b) /\ \A w \in Workers : EnqueueNextPage(w) => on[w].batch # b
      <4>1. Live(Page(b, m))
        BY <2>f, <3>4
      <4>2. Waits(Page(b, n))' => Waits(Page(b, n))
        BY <2>g, <3>4
      <4>3. ASSUME NEW w \in Workers, Walks(w)', on'[w] = Page(b, n)
            PROVE  Waits(Page(b, n)) \/ (Walks(w) /\ on[w] = Page(b, n))
        BY <2>h, <4>3, TaskFacts
      <4>4. Waits(Page(b, n)) \/ \E w \in Workers : Walks(w) /\ on[w] = Page(b, n)
        BY <4>2, <4>3
      <4> QED
        BY <2>a, <4>1, <4>4 DEF FrontIsLast
    <3> QED
      BY <3>2, <3>3, <3>4
  <2>4. ASSUME NEW w \in Workers, SaveJob(w)
        PROVE  /\ Walks(w) /\ pc[w] = "job" /\ pc'[w] = "task" /\ cur'[w] = Len(jobs) + 1
               /\ Least(todo[w]) \in todo[w] /\ Least(todo[w]) <= last[w]
               /\ UNCHANGED <<on, tasks, opening, todo, last>>
    <3>1. /\ pc[w] = "job" /\ pc' = [pc EXCEPT ![w] = "task"] /\ cur' = [cur EXCEPT ![w] = Len(jobs) + 1]
          /\ UNCHANGED <<on, tasks, opening, todo, last>>
      BY <2>4 DEF SaveJob, Goto
    <3>2. todo[w] \subseteq Users /\ todo[w] # {}
      BY <3>1 DEF TypeOK
    <3>3. Least(todo[w]) \in todo[w]
      BY <3>2, UsersAssumption, LeastFacts
    <3>4. Least(todo[w]) <= last[w]
      BY <3>1, <3>3 DEF Walk, Walking
    <3> QED
      BY <3>1, <3>3, <3>4 DEF TypeOK, Walks
  <2>5. JobsBehindFront'
    <3> SUFFICES ASSUME NEW b \in Batches, NEW j \in DOMAIN jobs', jobs'[j].batch = b
                 PROVE  /\ b \notin opening'
                        /\ \A n \in Ids : Waits(Page(b, n))' => jobs'[j].user <= n
                        /\ \A w \in Workers : Walks(w)' /\ on'[w].batch = b =>
                              /\ pc'[w] \in {"fetch", "close"} => jobs'[j].user <= on'[w].id
                              /\ pc'[w] \in Walking =>
                                    /\ jobs'[j].user <= last'[w]
                                    /\ jobs'[j].user \in todo'[w] => pc'[w] = "task" /\ cur'[w] = j
      BY DEF JobsBehindFront
    <3>1. CASE j \in DOMAIN jobs
      <4>1. jobs[j].batch = b /\ jobs'[j].user = jobs[j].user /\ jobs[j].user \in Nat
        <5>1. jobs[j].user \in Nat
          <6>1. jobs[j] \in Job
            BY <3>1 DEF TypeOK
          <6> QED
            BY <6>1, UsersAssumption DEF Job
        <5> QED
          BY <3>1, <5>1, JobsKept
      <4>2. b \notin opening'
        BY <2>a, <3>1, <4>1, BatchStep DEF JobsBehindFront, OpenBatch, Unopened, JobsOf
      <4>3. ASSUME NEW n \in Ids, Waits(Page(b, n))' PROVE jobs[j].user <= n
        <5>1. CASE Waits(Page(b, n))
          BY <2>a, <3>1, <4>1, <5>1 DEF JobsBehindFront
        <5>2. CASE ~Waits(Page(b, n))
          <6>1. b \notin opening
            BY <2>a, <3>1, <4>1 DEF JobsBehindFront
          <6>2. PICK w \in Workers : EnqueueNextPage(w) /\ on[w].batch = b /\ n = last[w]
            BY <2>g, <4>3, <5>2, <6>1
          <6>3. Walks(w) /\ pc[w] = "next"
            BY <2>e, <6>2
          <6> QED
            BY <2>a, <3>1, <4>1, <6>2, <6>3 DEF JobsBehindFront, Walking
        <5> QED
          BY <5>1, <5>2
      <4>4. ASSUME NEW w \in Workers, Walks(w)', on'[w].batch = b, pc'[w] \in {"fetch", "close"}
            PROVE  jobs[j].user <= on'[w].id
        <5>1. CASE Walks(w) /\ on'[w] = on[w]
          <6>1. pc[w] \in {"fetch", "close"}
            BY <2>h, <4>4, <5>1, WalkStep DEF FetchPage, Walking, Deliver, Walks
          <6> QED
            BY <2>a, <3>1, <4>1, <4>4, <5>1, <6>1 DEF JobsBehindFront
        <5>2. CASE ~(Walks(w) /\ on'[w] = on[w])
          BY <2>a, <2>h, <3>1, <4>1, <4>4, <5>2 DEF JobsBehindFront
        <5> QED
          BY <5>1, <5>2
      <4>5. ASSUME NEW w \in Workers, Walks(w)', on'[w].batch = b, pc'[w] \in Walking
            PROVE  /\ jobs[j].user <= last'[w]
                   /\ jobs[j].user \in todo'[w] => pc'[w] = "task" /\ cur'[w] = j
        <5>1. /\ Walks(w) /\ on'[w] = on[w] /\ on[w].id \in Nat
              /\ pc[w] = "task" => EnqueueJob(w) \/ (pc'[w] = "task" /\ cur'[w] = cur[w])
          BY <2>b, <2>h, <2>i, <4>5 DEF Walking
        <5>2. CASE FetchPage(w)
          <6>1. pc[w] = "fetch" /\ on[w].id < last'[w] /\ \A u \in todo'[w] : on[w].id < u
            BY <4>5, <5>2, FetchFacts DEF Walking
          <6>2. jobs[j].user <= on[w].id
            BY <2>a, <3>1, <4>1, <4>5, <5>1, <6>1 DEF JobsBehindFront
          <6>3. last'[w] \in Nat /\ todo'[w] \subseteq Nat
            <7>1. last'[w] \in Ids /\ todo'[w] \subseteq Users
              BY DEF TypeOK, Ids
            <7> QED
              BY <7>1, <2>i DEF Ids
          <6> QED
            BY <4>1, <5>1, <6>1, <6>2, <6>3
        <5>3. CASE ~FetchPage(w)
          <6>1. /\ pc[w] \in Walking /\ last'[w] = last[w]
                /\ todo'[w] = todo[w] \/ EnqueueJob(w)
            BY <4>5, <5>3, WalkStep
          <6>2. /\ jobs[j].user <= last[w]
                /\ jobs[j].user \in todo[w] => pc[w] = "task" /\ cur[w] = j
            BY <2>a, <3>1, <4>1, <4>5, <5>1, <6>1 DEF JobsBehindFront
          <6>3. EnqueueJob(w) => todo'[w] = todo[w] \ {jobs[cur[w]].user}
            BY DEF EnqueueJob, TypeOK
          <6> QED
            BY <5>1, <6>1, <6>2, <6>3
        <5> QED
          BY <5>2, <5>3
      <4> QED
        BY <4>1, <4>2, <4>3, <4>4, <4>5
    <3>2. CASE j \notin DOMAIN jobs
      <4>1. PICK w \in Workers : /\ SaveJob(w) /\ b = on[w].batch /\ jobs'[j].user = Least(todo[w])
                                 /\ j = Len(jobs) + 1
        BY <3>2, BatchStep
      <4>2. /\ Walks(w) /\ pc[w] = "job" /\ pc'[w] = "task" /\ cur'[w] = j
            /\ jobs'[j].user <= last'[w]
            /\ UNCHANGED <<on, tasks, opening>>
        BY <2>4, <4>1
      <4>3. b \notin opening'
        BY <2>b, <4>1, <4>2
      <4>4. ASSUME NEW n \in Ids, Waits(Page(b, n))' PROVE FALSE
        <5>1. Waits(Page(b, n))
          BY <4>2, <4>4 DEF Waits, Running
        <5> QED
          BY <2>a, <4>1, <4>2, <5>1 DEF OneFront
      <4>5. ASSUME NEW v \in Workers, Walks(v)', on'[v].batch = b PROVE v = w
        <5>1. \A n \in Ids : ~Waits(Page(b, n))
          BY <2>a, <4>1, <4>2 DEF OneFront
        <5>2. Walks(v) /\ on[v].batch = b
          BY <2>h, <4>5, <5>1
        <5> QED
          BY <2>a, <4>1, <4>2, <5>2 DEF OneFront
      <4> QED
        BY <4>2, <4>3, <4>4, <4>5 DEF Walking
    <3> QED
      BY <3>1, <3>2
  <2>6. OneJobPerUser'
    <3>1. ASSUME NEW i \in DOMAIN jobs, NEW j \in DOMAIN jobs' \ DOMAIN jobs,
                 jobs'[i].batch = jobs'[j].batch, jobs'[i].user = jobs'[j].user
          PROVE  FALSE
      <4>1. PICK w \in Workers : /\ SaveJob(w) /\ jobs'[j].batch = on[w].batch
                                 /\ jobs'[j].user = Least(todo[w])
        BY BatchStep
      <4>2. Walks(w) /\ pc[w] = "job" /\ jobs'[j].user \in todo[w]
        BY <2>4, <4>1
      <4>3. jobs[i].batch = on[w].batch /\ jobs[i].user \in todo[w] /\ on[w].batch \in Batches
        BY <2>b, <3>1, <4>1, <4>2, JobsKept
      <4> QED
        BY <2>a, <4>2, <4>3 DEF JobsBehindFront, Walking
    <3>2. ASSUME NEW i \in DOMAIN jobs, NEW j \in DOMAIN jobs,
                 jobs'[i].batch = jobs'[j].batch, jobs'[i].user = jobs'[j].user
          PROVE  i = j
      BY <2>a, <3>2, JobsKept DEF OneJobPerUser
    <3>3. \A i, j \in DOMAIN jobs' \ DOMAIN jobs : i = j
      BY BatchStep
    <3> QED
      BY <3>1, <3>2, <3>3 DEF OneJobPerUser
  <2> QED
    BY <2>1, <2>2, <2>3, <2>5, <2>6
<1> QED
  BY <1>1, <1>2, TypeCorrect, WalkInvariant, UnopenedInvariant, PTL DEF Spec

(* Every reachable state satisfies OneJobPerUser: no user gets two jobs of  *)
(* one batch.                                                               *)
THEOREM UsersGetOneJob == Spec => []OneJobPerUser
<1>1. FrontInv => OneJobPerUser
  BY DEF FrontInv, OneJobPerUser
<1> QED
  BY <1>1, FrontInvariant, PTL

----------------------------------------------------------------------------
(* A delivery is moved by its own steps and the death of the process only.  *)
LEMMA CallStep ==
    ASSUME TypeOK, [Next]_vars, NEW w \in Workers
    PROVE  \/ pc'[w] = pc[w] /\ on'[w] = on[w] /\ cur'[w] = cur[w]
           \/ (\E t \in tasks : Deliver(w, t)) \/ Work(w) \/ LateFailure(w) \/ Crash(w) \/ Die
<1>a. /\ pc \in [Workers -> Call] /\ on \in [Workers -> Task \cup {None}]
      /\ cur \in [Workers -> (1 .. Len(jobs)) \cup {None}]
  BY DEF TypeOK
<1>1. ASSUME NEW v \in Workers, v # w, NEW t \in tasks, Deliver(v, t)
      PROVE  pc'[w] = pc[w] /\ on'[w] = on[w] /\ cur'[w] = cur[w]
  BY <1>1, <1>a DEF Deliver, Goto
<1>2. ASSUME NEW v \in Workers, v # w, Acknowledge(v) \/ Crash(v)
      PROVE  pc'[w] = pc[w] /\ on'[w] = on[w] /\ cur'[w] = cur[w]
  BY <1>2, <1>a DEF Acknowledge, Crash, Release, Goto
<1>3. ASSUME NEW v \in Workers, v # w, Work(v) \/ LateFailure(v), ~Acknowledge(v)
      PROVE  pc'[w] = pc[w] /\ on'[w] = on[w] /\ cur'[w] = cur[w]
  BY <1>3, <1>a DEF Work, FetchPage, CloseBatch, SaveJob, EnqueueJob, EnqueueNextPage, Resume, StartJob,
     GenerateSucceeds, GenerateFails, StampUser, FinishJob, FailJob, LateFailure, Goto
<1>4. \/ UNCHANGED <<pc, on, cur>> \/ Die
      \/ \E v \in Workers : (\E t \in tasks : Deliver(v, t)) \/ Work(v) \/ LateFailure(v) \/ Crash(v)
  BY DEF Next, vars, OpenBatch, EnqueueFirstPage, OpenFails, LosePost, BecomeDue, RemoveUser
<1> QED
  BY <1>1, <1>2, <1>3, <1>4

(* A statement changes the status of the job that its delivery runs.        *)
LEMMA StatusStep ==
    ASSUME TypeOK, [Next]_vars, NEW j \in DOMAIN jobs, jobs'[j].status # jobs[j].status
    PROVE  \E w \in Workers : /\ on[w] = Summary(j) /\ pc[w] # "ack" /\ UNCHANGED <<on, tasks>>
                              /\ StartJob(w) \/ FinishJob(w) \/ FailJob(w)
<1>1. ASSUME NEW w \in Workers, StartJob(w) \/ FinishJob(w) \/ FailJob(w)
      PROVE  on[w] = Summary(j) /\ pc[w] # "ack" /\ UNCHANGED <<on, tasks>>
  <2>1. on[w].id \in DOMAIN jobs /\ on[w] = Summary(on[w].id)
    BY <1>1, Deliveries DEF StartJob, FinishJob, FailJob
  <2>2. PICK s \in {"processing", "completed", "failed"} : SetJob(w, s)
    BY <1>1 DEF StartJob, FinishJob, FailJob
  <2>3. j = on[w].id
    BY <2>1, <2>2, SetJobFacts
  <2> QED
    BY <1>1, <2>1, <2>3 DEF StartJob, FinishJob, FailJob
<1>2. \/ jobs' = jobs
      \/ \E w \in Workers : SaveJob(w) \/ StartJob(w) \/ FinishJob(w) \/ FailJob(w)
  BY DEF Next, Work, vars, OpenBatch, EnqueueFirstPage, OpenFails, Deliver, Acknowledge, Crash,
         LosePost, Die, FetchPage, CloseBatch, EnqueueJob, EnqueueNextPage, Resume, GenerateSucceeds,
         GenerateFails, StampUser, LateFailure, BecomeDue, RemoveUser
<1> QED
  BY <1>1, <1>2, SaveJobFacts

(* LocalInv is an invariant: with one front one page at most waits for a    *)
(* job.                                                                     *)
LEMMA LocalInvariant == Spec => []LocalInv
<1>1. Init => LocalInv
  BY DEF Init, LocalInv, AwaitsJob, RunsOnce
<1>2. TypeOK /\ TypeOK' /\ Walk /\ FrontInv /\ LocalInv /\ [Next]_vars => LocalInv'
  <2> SUFFICES ASSUME TypeOK, TypeOK', Walk, FrontInv, LocalInv, [Next]_vars, ~Production'
               PROVE  (AwaitsJob /\ RunsOnce)'
    BY DEF LocalInv
  <2>a. ~Production /\ OneFront /\ AwaitsJob /\ RunsOnce
    BY FaultStep DEF FrontInv, LocalInv
  <2>b. \A v, w \in Workers : cur[v] # None /\ cur[v] = cur[w] => v = w
    <3>1. \A w \in Workers : cur[w] # None => Walks(w) /\ jobs[cur[w]].batch = on[w].batch
      BY Positions DEF Walk, Walks
    <3> QED
      BY <2>a, <3>1 DEF OneFront
  <2>c. \A j \in DOMAIN jobs' : Summary(j) # None
    <3>1. Len(jobs') \in Nat /\ DOMAIN jobs' = 1 .. Len(jobs')
      BY DEF TypeOK
    <3> QED
      BY <3>1, NoneAssumption DEF Summary
  <2>d. ASSUME NEW j, Live(Summary(j)), j \in DOMAIN jobs' PROVE j \in DOMAIN jobs
    <3>1. Summary(j) \in Task
      <4>1. Summary(j) # None
        BY <2>c, <2>d
      <4> QED
        BY <2>d, <4>1 DEF TypeOK, Live, Running
    <3>2. j \in 1 .. Len(jobs)
      BY <3>1, TaskFacts DEF Task
    <3> QED
      BY <3>2 DEF TypeOK
  <2>e. ASSUME NEW w \in Workers, EnqueueJob(w)
        PROVE  /\ pc[w] = "task" /\ pc'[w] = "await" /\ cur'[w] = cur[w] /\ UNCHANGED <<on, jobs>>
               /\ Summary(cur[w]) \in tasks' /\ cur[w] # None
    BY <2>a, <2>e, Positions DEF EnqueueJob, Goto, TypeOK
  <2>1. AwaitsJob'
    <3> SUFFICES ASSUME NEW j \in DOMAIN jobs', Live(Summary(j))'
                 PROVE  \E w \in Workers : pc'[w] = "await" /\ cur'[w] = j
      BY DEF AwaitsJob
    <3>1. CASE Live(Summary(j))
      <4>1. PICK w \in Workers : pc[w] = "await" /\ cur[w] = j
        BY <2>a, <2>d, <3>1 DEF AwaitsJob
      <4>2. ~Resume(w)
        BY <2>a, <2>d, <3>1, <4>1, NoneAssumption DEF Resume, Posted, Live, Running, TypeOK
      <4>3. ~Die
        BY <2>c DEF Die, Live, Running
      <4>4. pc'[w] = pc[w] /\ cur'[w] = cur[w]
        BY <2>a, <4>1, <4>2, <4>3, CallStep
           DEF Work, FetchPage, CloseBatch, SaveJob, EnqueueJob, EnqueueNextPage, StartJob,
               GenerateSucceeds, GenerateFails, StampUser, FinishJob, FailJob, LateFailure, Acknowledge,
               Crash, Deliver
      <4> QED
        BY <4>1, <4>4
    <3>2. CASE ~Live(Summary(j))
      <4>1. PICK w \in Workers : EnqueueJob(w) /\ Summary(j) = Summary(cur[w])
        BY <2>c, <3>2, LiveStep, TaskFacts
      <4> QED
        BY <2>e, <4>1, TaskFacts
    <3> QED
      BY <3>1, <3>2
  <2>2. ASSUME NEW j \in DOMAIN jobs', Summary(j) \in tasks', Running(Summary(j))' PROVE FALSE
    <3>1. CASE Summary(j) \in tasks
      <4>1. ~Running(Summary(j))
        BY <2>a, <2>d, <3>1 DEF RunsOnce, Live
      <4>2. PICK w \in Workers : Deliver(w, Summary(j))
        BY <2>2, <2>c, <4>1, RunningStep
      <4> QED
        BY <2>a, <2>2, <4>2 DEF Deliver
    <3>2. CASE Summary(j) \notin tasks
      <4>1. PICK w \in Workers : EnqueueJob(w) /\ j = cur[w]
        BY <2>2, <3>2, TasksStep, TaskFacts
      <4>2. Running(Summary(j))
        BY <2>2, <2>e, <4>1 DEF Running
      <4>3. PICK v \in Workers : pc[v] = "await" /\ cur[v] = j
        BY <2>a, <2>d, <2>2, <4>2 DEF AwaitsJob, Live
      <4> QED
        BY <2>b, <2>e, <4>1, <4>3
    <3> QED
      BY <3>1, <3>2
  <2>3. ASSUME NEW w \in Workers, on'[w] # None
        PROVE  \/ on'[w] = on[w]
               \/ \E t \in tasks : Deliver(w, t) /\ on'[w] = t /\ on[w] = None
    <3>1. ASSUME NEW t \in tasks, Deliver(w, t) PROVE on'[w] = t /\ on[w] = None
      BY <3>1 DEF Deliver, TypeOK
    <3>2. CASE Crash(w) \/ Acknowledge(w) \/ Die
      BY <2>3, <3>2 DEF Crash, Acknowledge, Die, Release, TypeOK
    <3>3. CASE (Work(w) /\ ~Acknowledge(w)) \/ LateFailure(w)
      BY <3>3 DEF Work, FetchPage, CloseBatch, SaveJob, EnqueueJob, EnqueueNextPage, Resume, StartJob,
                  GenerateSucceeds, GenerateFails, StampUser, FinishJob, FailJob, LateFailure
    <3> QED
      BY <3>1, <3>2, <3>3, CallStep
  <2>4. ASSUME NEW v \in Workers, NEW w \in Workers, on'[v] = on'[w], on'[v] # None,
               on'[v].type = "summary"
        PROVE  v = w
    <3>1. ASSUME NEW x \in Workers, NEW y \in Workers, NEW t \in tasks,
                 Deliver(x, t), on[y] = t, t.type = "summary"
          PROVE  FALSE
      <4>1. t # None /\ \E j \in DOMAIN jobs : t = Summary(j)
        BY <3>1, Deliveries
      <4> QED
        BY <2>a, <3>1, <4>1 DEF RunsOnce, Running
    <3>2. ASSUME NEW t \in tasks, Deliver(v, t), NEW s \in tasks, Deliver(w, s), v # w PROVE FALSE
      <4>1. pc'[w] = "idle"
        BY <3>2 DEF Deliver, Goto, TypeOK
      <4>2. pc'[w] # "idle"
        BY <3>2 DEF Deliver, Goto, TypeOK
      <4> QED
        BY <4>1, <4>2
    <3>3. CASE on'[v] = on[v] /\ on'[w] = on[w]
      BY <2>a, <2>4, <3>3 DEF RunsOnce
    <3> QED
      BY <2>3, <2>4, <3>1, <3>2, <3>3
  <2>5. ASSUME NEW w \in Workers, on'[w] # None, on'[w].type = "summary", pc'[w] = "ack"
        PROVE  jobs'[on'[w].id].status \in Ended
    <3>1. ASSUME NEW t \in tasks, Deliver(w, t) PROVE FALSE
      BY <2>5, <3>1 DEF Deliver, Goto, TypeOK
    <3>2. on'[w] = on[w] /\ on[w] # None /\ on[w].id \in DOMAIN jobs /\ on[w] = Summary(on[w].id)
      BY <2>3, <2>5, <3>1, Deliveries
    <3>3. CASE pc[w] = "ack"
      <4>1. jobs[on[w].id].status \in Ended
        BY <2>a, <2>5, <3>2, <3>3 DEF RunsOnce
      <4>2. jobs'[on[w].id].status = jobs[on[w].id].status
        <5>1. ASSUME NEW v \in Workers, on[v] = on[w], pc[v] # "ack" PROVE FALSE
          BY <2>a, <2>5, <3>2, <3>3, <5>1 DEF RunsOnce
        <5> QED
          BY <3>2, <5>1, StatusStep
      <4> QED
        BY <3>2, <4>1, <4>2
    <3>4. CASE pc[w] # "ack"
      <4>1. FinishJob(w) \/ FailJob(w)
        <5>1. pc[w] \notin {"fetch", "close", "job", "task", "next", "await"}
          BY <2>5, <3>2, Deliveries
        <5>2. pc'[w] # pc[w]
          BY <2>5, <3>4
        <5>3. ~Crash(w) /\ ~Acknowledge(w) /\ ~Die
          BY <2>5 DEF Crash, Acknowledge, Die, Release, Goto, TypeOK
        <5>4. ~StartJob(w) /\ ~GenerateSucceeds(w) /\ ~GenerateFails(w) /\ ~StampUser(w) /\ ~LateFailure(w)
          BY <2>5 DEF StartJob, GenerateSucceeds, GenerateFails, StampUser, LateFailure, Goto, TypeOK
        <5> QED
          BY <3>1, <5>1, <5>2, <5>3, <5>4, CallStep
             DEF Work, FetchPage, CloseBatch, SaveJob, EnqueueJob, EnqueueNextPage, Resume
      <4>2. SetJob(w, "completed") \/ SetJob(w, "failed")
        BY <4>1 DEF FinishJob, FailJob
      <4> QED
        BY <3>2, <4>2, SetJobFacts DEF Ended
    <3> QED
      BY <3>3, <3>4
  <2>6. RunsOnce'
    BY <2>2, <2>4, <2>5 DEF RunsOnce
  <2> QED
    BY <2>1, <2>6
<1> QED
  BY <1>1, <1>2, TypeCorrect, WalkInvariant, FrontInvariant, PTL DEF Spec

----------------------------------------------------------------------------
(* In development a batch that can be completed could be before: a page is  *)
(* enqueued by a delivery that walks, or for a batch without jobs.          *)
LEMMA FrontedStep ==
    ASSUME TypeOK, TypeOK', FrontInv, [Next]_vars, ~Production, NEW j \in DOMAIN jobs,
           NEW b \in Batches, jobs[j].batch = b, Fronted(b)'
    PROVE  Fronted(b)
<1>a. PostedOnce /\ OneFront /\ JobsBehindFront /\ Production' = Production
  BY FaultStep DEF FrontInv
<1>1. CASE batch'[b] = "completed"
  <2>1. ~OpenBatch(b)
    BY <1>1, BatchStep
  <2>2. ASSUME NEW w \in Workers, CloseBatch(w), on[w].batch = b PROVE Fronted(b)
    BY <2>2 DEF Fronted, Walks, CloseBatch
  <2> QED
    BY <1>1, <2>1, <2>2, BatchStep DEF Fronted
<1>2. ASSUME NEW n \in Ids, Waits(Page(b, n))' PROVE Fronted(b)
  <2>1. Page(b, n) # None /\ ~(Page(b, n) \in tasks /\ Running(Page(b, n)))
    BY <1>a, Deliveries DEF PostedOnce
  <2>2. b \notin opening
    BY <1>a DEF JobsBehindFront
  <2>3. ASSUME NEW w \in Workers, EnqueueNextPage(w), on[w].batch = b PROVE Fronted(b)
    BY <2>3 DEF Fronted, Walks, EnqueueNextPage
  <2>4. CASE Waits(Page(b, n))
    BY <2>4 DEF Fronted
  <2>5. CASE ~Waits(Page(b, n))
    BY <1>2, <1>a, <2>1, <2>2, <2>3, <2>5, WaitsStep, TaskFacts
  <2> QED
    BY <2>4, <2>5
<1>3. ASSUME NEW w \in Workers, Walks(w)', on'[w].batch = b PROVE Fronted(b)
  <2>1. CASE Walks(w) /\ on'[w] = on[w]
    BY <1>3, <2>1 DEF Fronted
  <2>2. ASSUME NEW t \in tasks, t.type = "page", on'[w] = t PROVE Fronted(b)
    <3>1. t.id \in Ids /\ t = Page(b, t.id)
      <4>1. t \in Task
        BY DEF TypeOK
      <4> QED
        BY <1>3, <2>2, <4>1, TaskFacts DEF Task, Ids
    <3>2. Waits(Page(b, t.id))
      BY <1>a, <3>1 DEF PostedOnce, Waits
    <3> QED
      BY <3>1, <3>2 DEF Fronted
  <2> QED
    BY <1>3, <2>1, <2>2, WalksStep
<1> QED
  BY <1>1, <1>2, <1>3 DEF Fronted

(* In development a job is lost by a post that does not get through or by   *)
(* the crash of its delivery; each is a fault.                              *)
LEMMA LostStep ==
    ASSUME TypeOK, TypeOK', Walk, FrontInv, LocalInv, [Next]_vars, ~Production,
           NEW j \in Lost', j \notin Lost
    PROVE  /\ Live(Summary(j)) /\ ~Live(Summary(j))'
           /\ (\E t \in tasks : LosePost(t)) \/ \E w \in Workers : Crash(w)
<1>a. /\ OneFront /\ AwaitsJob /\ RunsOnce /\ Production' = Production
      /\ on \in [Workers -> Task \cup {None}]
  BY FaultStep DEF FrontInv, LocalInv, TypeOK
<1>1. /\ j \in DOMAIN jobs' /\ jobs'[j].status \notin Ended /\ ~Live(Summary(j))'
      /\ \A w \in Workers : ~(pc'[w] = "task" /\ cur'[w] = j)
      /\ Fronted(jobs[j].batch)'
  BY DEF Lost
<1>2. j \in DOMAIN jobs
  <2>1. ASSUME j \notin DOMAIN jobs PROVE FALSE
    <3>1. PICK w \in Workers : SaveJob(w) /\ j = Len(jobs) + 1
      BY <1>1, <2>1, BatchStep
    <3> QED
      BY <1>1, <3>1 DEF SaveJob, Goto, TypeOK
  <2> QED
    BY <2>1
<1>3. jobs'[j].batch = jobs[j].batch /\ jobs[j].batch \in Batches
  <2>1. jobs[j] \in Job
    BY <1>2 DEF TypeOK
  <2> QED
    BY <1>2, <2>1, JobsKept DEF Job
<1>4. PICK b \in Batches : b = jobs[j].batch /\ b = jobs'[j].batch
  BY <1>3
<1>b. Fronted(b)'
  BY <1>1, <1>4 DEF Fronted
<1>c. Fronted(b)
  BY <1>2, <1>4, <1>b, FrontedStep
<1>5. jobs[j].status \notin Ended
  <2>1. CASE jobs'[j].status = jobs[j].status
    BY <1>1, <2>1
  <2>2. CASE jobs'[j].status # jobs[j].status
    BY <1>1, <1>2, <2>2, StatusStep DEF Live, Running
  <2> QED
    BY <2>1, <2>2
<1>6. ASSUME NEW w \in Workers, cur[w] = j PROVE ~Die
  <2>1. Walks(w) /\ on[w].batch = jobs[j].batch
    BY <1>2, <1>6, Positions, NoneAssumption DEF Walks, Walk, TypeOK
  <2>2. batch[jobs[j].batch] # "completed"
    BY <1>3, <1>a, <2>1 DEF OneFront
  <2>3. ASSUME Die PROVE FALSE
    <3>1. /\ batch' = batch /\ tasks' = {} /\ \A v \in Workers : pc'[v] = "idle"
      BY <2>3 DEF Die
    <3> QED
      BY <1>b, <1>4, <2>2, <3>1 DEF Fronted, Waits, Walks
  <2> QED
    BY <2>3
<1>7. Summary(j) # None
  BY <1>2, Deliveries
<1>8. CASE Live(Summary(j))
  <2>1. ~Die
    BY <1>2, <1>6, <1>8, <1>a DEF AwaitsJob
  <2>2. ASSUME NEW w \in Workers, Acknowledge(w) PROVE FALSE
    <3>1. on[w] = Summary(j)
      <4>1. tasks' = tasks \ {on[w]} /\ on' = [on EXCEPT ![w] = None]
        BY <2>2 DEF Acknowledge, Release
      <4> QED
        BY <1>1, <1>8, <1>a, <4>1 DEF Live, Running
    <3> QED
      BY <1>5, <1>7, <1>a, <2>2, <3>1, TaskFacts DEF Acknowledge, RunsOnce
  <2>5. ASSUME NEW w \in Workers, NEW t \in tasks, Deliver(w, t) PROVE FALSE
    <3>1. on' = [on EXCEPT ![w] = t] /\ on[w] = None /\ tasks' = tasks \ {t}
      BY <1>a, <2>5 DEF Deliver, TypeOK
    <3> QED
      BY <1>1, <1>7, <1>8, <1>a, <3>1 DEF Live, Running
  <2>6. ~(UNCHANGED on /\ tasks \subseteq tasks')
    BY <1>1, <1>8 DEF Live, Running
  <2>7. \/ \E w \in Workers : Acknowledge(w) \/ Crash(w) \/ \E t \in tasks : Deliver(w, t)
        \/ (\E t \in tasks : LosePost(t)) \/ Die
        \/ UNCHANGED on /\ tasks \subseteq tasks'
    BY DEF Next, Work, vars, OpenBatch, EnqueueFirstPage, OpenFails, FetchPage, CloseBatch, SaveJob,
           EnqueueJob, EnqueueNextPage, Resume, StartJob, GenerateSucceeds, GenerateFails, StampUser,
           LateFailure, FinishJob, FailJob, BecomeDue, RemoveUser
  <2> QED
    BY <1>1, <1>8, <2>1, <2>2, <2>5, <2>6, <2>7
<1>9. ASSUME NEW w \in Workers, pc[w] = "task", cur[w] = j PROVE FALSE
  <2>1. ~EnqueueJob(w)
    BY <1>1, <1>9 DEF EnqueueJob, Live
  <2>2. ~Crash(w) /\ ~Die
    BY <1>6, <1>9 DEF Crash
  <2>3. pc'[w] = "task" /\ cur'[w] = j
    BY <1>9, <2>1, <2>2, CallStep
       DEF Work, FetchPage, CloseBatch, SaveJob, EnqueueNextPage, Resume, StartJob,
           GenerateSucceeds, GenerateFails, StampUser, FinishJob, FailJob, LateFailure, Acknowledge,
           Deliver
  <2> QED
    BY <1>1, <2>3
<1> QED
  BY <1>2, <1>4, <1>c, <1>5, <1>8, <1>9 DEF Lost

(* A fault of either kind ends one task.                                    *)
LEMMA FaultEndsOne ==
    ASSUME TypeOK, NEW s, NEW t, Live(s), ~Live(s)', Live(t), ~Live(t)',
           (\E r \in tasks : LosePost(r)) \/ \E w \in Workers : Crash(w)
    PROVE  s = t /\ faults' = faults + 1
<1> USE DEF Live, Running
<1>1. on \in [Workers -> Task \cup {None}]
  BY DEF TypeOK
<1>2. ASSUME NEW r \in tasks, LosePost(r) PROVE s = r /\ t = r /\ faults' = faults + 1
  <2>1. tasks' = tasks \ {r} /\ on' = on /\ faults' = faults + 1
    BY <1>2 DEF LosePost
  <2> QED
    BY <2>1
<1>3. ASSUME NEW w \in Workers, Crash(w) PROVE s = on[w] /\ t = on[w] /\ faults' = faults + 1
  <2>1. tasks' = tasks /\ on' = [on EXCEPT ![w] = None] /\ faults' = faults + 1
    BY <1>3 DEF Crash, Release
  <2> QED
    BY <1>1, <2>1
<1> QED
  BY <1>2, <1>3

(* LostInv is an invariant.                                                 *)
LEMMA LostInvariant == Spec => []LostInv
<1>1. Init => LostInv
  <2> SUFFICES ASSUME Init PROVE LostInv
    OBVIOUS
  <2>1. Lost = {} /\ faults = 0
    BY DEF Init, Lost
  <2> QED
    BY <2>1, FS_EmptySet DEF LostInv
<1>2. TypeOK /\ TypeOK' /\ Walk /\ FrontInv /\ LocalInv /\ LostInv /\ [Next]_vars => LostInv'
  <2> SUFFICES ASSUME TypeOK, TypeOK', Walk, FrontInv, LocalInv, LostInv, [Next]_vars, ~Production'
               PROVE  Cardinality(Lost') <= faults'
    BY DEF LostInv
  <2>a. ~Production /\ Cardinality(Lost) <= faults /\ faults \in Nat /\ faults' \in Nat
    BY FaultStep, BoundAssumption DEF LostInv, TypeOK
  <2>b. IsFiniteSet(Lost) /\ IsFiniteSet(Lost') /\ Cardinality(Lost) \in Nat /\ Cardinality(Lost') \in Nat
    <3>1. /\ Len(jobs) \in Nat /\ DOMAIN jobs = 1 .. Len(jobs)
          /\ Len(jobs') \in Nat /\ DOMAIN jobs' = 1 .. Len(jobs')
      BY DEF TypeOK
    <3>2. Lost \subseteq 1 .. Len(jobs) /\ Lost' \subseteq 1 .. Len(jobs')
      BY <3>1 DEF Lost
    <3>3. IsFiniteSet(1 .. Len(jobs)) /\ IsFiniteSet(1 .. Len(jobs'))
      BY <3>1, FS_Interval
    <3> QED
      BY <3>2, <3>3, FS_Subset, FS_CardinalityType
  <2>c. faults' = faults \/ faults' = faults + 1
    BY FaultStep
  <2>1. CASE Lost' \subseteq Lost
    <3>1. Cardinality(Lost') <= Cardinality(Lost)
      BY <2>1, <2>b, FS_Subset
    <3> QED
      BY <2>a, <2>b, <2>c, <3>1
  <2>2. ASSUME NEW k, Lost' \subseteq Lost \cup {k}, faults' = faults + 1
        PROVE  Cardinality(Lost') <= faults'
    <3>1. IsFiniteSet(Lost \cup {k}) /\ Cardinality(Lost \cup {k}) \in Nat
          /\ Cardinality(Lost \cup {k}) <= Cardinality(Lost) + 1
      BY <2>b, FS_AddElement, FS_CardinalityType
    <3>2. Cardinality(Lost') <= Cardinality(Lost \cup {k})
      BY <2>2, <3>1, FS_Subset
    <3> QED
      BY <2>2, <2>a, <2>b, <3>1, <3>2
  <2>6. ASSUME NEW j \in Lost', j \notin Lost
        PROVE  Lost' \subseteq Lost \cup {j} /\ faults' = faults + 1
    <3>1. \A k \in Lost' \ Lost :
             /\ Live(Summary(k)) /\ ~Live(Summary(k))'
             /\ (\E t \in tasks : LosePost(t)) \/ \E w \in Workers : Crash(w)
      BY <2>a, LostStep
    <3>2. \A k \in Lost' \ Lost : Summary(k) = Summary(j) /\ faults' = faults + 1
      BY <2>6, <3>1, FaultEndsOne
    <3> QED
      BY <2>6, <3>2, TaskFacts
  <2> QED
    BY <2>1, <2>2, <2>6
<1> QED
  BY <1>1, <1>2, TypeCorrect, WalkInvariant, FrontInvariant, LocalInvariant, PTL DEF Spec

(* Every reachable state satisfies LocalBatchSettles: in development no job *)
(* of a completed batch is queued or running, and each has ended but for    *)
(* one per fault.                                                           *)
THEOREM LocalBatchesSettle == Spec => []LocalBatchSettles
<1>1. TypeOK /\ Walk /\ FrontInv /\ LocalInv /\ LostInv => LocalBatchSettles
  <2> SUFFICES ASSUME TypeOK, Walk, FrontInv, LocalInv, LostInv, ~Production
               PROVE  /\ \A j \in DOMAIN jobs : batch[jobs[j].batch] = "completed" =>
                            Summary(j) \notin tasks /\ ~Running(Summary(j))
                      /\ Cardinality(LeftOver) <= faults
    BY DEF LocalBatchSettles
  <2>1. ASSUME NEW j \in DOMAIN jobs, batch[jobs[j].batch] = "completed", NEW w \in Workers, cur[w] = j
        PROVE  FALSE
    <3>1. cur[w] # None
      BY <2>1, NoneAssumption DEF TypeOK
    <3>2. Walks(w) /\ on[w].batch = jobs[j].batch /\ jobs[j].batch \in Batches
      <4>1. jobs[j] \in Job
        BY <2>1 DEF TypeOK
      <4>2. jobs[j].batch \in Batches
        BY <4>1 DEF Job
      <4> QED
        BY <2>1, <3>1, <4>2, Positions DEF Walks, Walk
    <3> QED
      BY <2>1, <3>2 DEF FrontInv, OneFront
  <2>2. \A j \in DOMAIN jobs : batch[jobs[j].batch] = "completed" => ~Live(Summary(j))
    BY <2>1 DEF LocalInv, AwaitsJob
  <2>3. LeftOver \subseteq Lost
    BY <2>1, <2>2 DEF LeftOver, Lost, Fronted
  <2>4. IsFiniteSet(Lost)
    <3>1. Len(jobs) \in Nat /\ DOMAIN jobs = 1 .. Len(jobs)
      BY DEF TypeOK
    <3>2. Lost \subseteq 1 .. Len(jobs)
      BY <3>1 DEF Lost
    <3>3. IsFiniteSet(1 .. Len(jobs))
      BY <3>1, FS_Interval
    <3> QED
      BY <3>2, <3>3, FS_Subset
  <2>5. Cardinality(LeftOver) <= faults
    <3>1. /\ Cardinality(LeftOver) <= Cardinality(Lost) /\ Cardinality(Lost) <= faults
          /\ Cardinality(LeftOver) \in Nat /\ Cardinality(Lost) \in Nat /\ faults \in Nat
      BY <2>3, <2>4, FS_Subset, FS_CardinalityType, BoundAssumption DEF LostInv, TypeOK
    <3> QED
      BY <3>1
  <2> QED
    BY <2>2, <2>5 DEF Live
<1> QED
  BY <1>1, TypeCorrect, WalkInvariant, FrontInvariant, LocalInvariant, LostInvariant, PTL

(* Every reachable state satisfies CompletedBatchCovers: whoever has been   *)
(* due since a batch was opened has been handed over when it is completed.  *)
THEOREM CompletedBatchesCover == Spec => []CompletedBatchCovers
<1>1. CoverInv /\ LocalBatchSettles => CompletedBatchCovers
  BY DEF CoverInv, LocalBatchSettles, CompletedBatchCovers, Handled, Served, JobsOf
<1> QED
  BY <1>1, CoverInvariant, LocalBatchesSettle, PTL
=============================================================================

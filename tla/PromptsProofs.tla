---------------------------- MODULE PromptsProofs ----------------------------
(***************************************************************************)
(* Proofs about Prompts, for any requests, any number of questions and any *)
(* bounds: the type invariant and the three properties.                    *)
(***************************************************************************)
EXTENDS Prompts, FiniteSetTheorems, SequenceTheorems,
        WellFoundedInduction, TLAPS

(* A request that is about to save holds a daily prompt that is answered.   *)
BasisOK ==
    /\ DOMAIN basis = Requests
    /\ \A r \in Requests : basis[r] # None =>
          prompts[basis[r]].type = "daily" /\ prompts[basis[r]].isAnswered

(* Prompts are in the order of their days.                                  *)
InOrder ==
    /\ \A p \in DOMAIN prompts : prompts[p].created <= today
    /\ \A p, q \in DOMAIN prompts : p <= q => prompts[p].created <= prompts[q].created

TypeInv == TypeOK /\ BasisOK /\ InOrder

(* While requests have not overlapped one is running at most; what it has   *)
(* found still holds when it saves: there are no onboarding prompts, or all *)
(* daily prompts since its day are answered and it follows up the latest.   *)
AloneInv ==
    alone => \A r \in Requests :
        /\ pc[r] # "idle" => Busy = {r}
        /\ pc[r] = "onboarding" => Onboarding = {}
        /\ pc[r] \in {"latest", "save"} => \A p \in Since(day[r]) : prompts[p].isAnswered
        /\ pc[r] = "save" => \A p \in Since(day[r]) : basis[r] \in Since(day[r]) /\ p <= basis[r]

----------------------------------------------------------------------------
(* A nonempty set of numbers with an upper bound has a greatest element.    *)
LEMMA GreatestExists ==
    ASSUME NEW n \in Nat, NEW S \in SUBSET (1 .. n), S # {}
    PROVE  \E m \in S : \A q \in S : q <= m
<1> DEFINE T == {k \in Nat : \E q \in S : q + k = n}
<1>1. T \subseteq Nat /\ T # {}
  <2>1. PICK q \in S : TRUE
    OBVIOUS
  <2>2. n - q \in Nat /\ q + (n - q) = n
    BY <2>1
  <2> QED
    BY <2>2
<1>2. PICK t \in T : \A u \in T : ~(<<u, t>> \in OpToRel(<, Nat))
  <2> HIDE DEF T
  <2> QED
    BY <1>1, NatLessThanWellFounded, WFMin
<1>3. \A u \in T : ~(u < t)
  BY <1>2 DEF OpToRel
<1>4. PICK m \in S : m + t = n
  OBVIOUS
<1>5. ASSUME NEW q \in S PROVE q <= m
  <2>1. n - q \in Nat /\ q + (n - q) = n /\ q \in Nat /\ m \in Nat
    OBVIOUS
  <2>2. ~(n - q < t)
    BY <2>1, <1>3
  <2> QED
    BY <2>1, <2>2, <1>4
<1> QED
  BY <1>5

(* Latest returns None for no prompts, and the latest of some.              *)
LEMMA LatestFacts ==
    ASSUME NEW n \in Nat, NEW S \in SUBSET (1 .. n)
    PROVE  /\ S = {} => Latest(S) = None
           /\ S # {} => Latest(S) \in S /\ \A q \in S : q <= Latest(S)
BY GreatestExists DEF Latest

(* The columns of a row.                                                    *)
LEMMA Row ==
    ASSUME TypeOK
    PROVE  /\ Len(prompts) \in Nat /\ DOMAIN prompts = 1 .. Len(prompts)
           /\ \A p \in DOMAIN prompts : /\ prompts[p] \in Prompt
                                        /\ prompts[p].created \in Nat
<1>1. prompts \in Seq(Prompt)
  BY DEF TypeOK
<1>2. \A p \in DOMAIN prompts : prompts[p] \in Prompt
  BY <1>1
<1> QED
  BY <1>1, <1>2 DEF Prompt

(* Answering a prompt changes no other column.                              *)
LEMMA AnsweredRow ==
    ASSUME NEW x \in Prompt
    PROVE  LET y == [x EXCEPT !.isAnswered = TRUE]
           IN  /\ y \in Prompt
               /\ y.type = x.type /\ y.created = x.created /\ y.follows = x.follows
               /\ y.isAnswered
BY DEF Prompt

(* TypeInv is an invariant: the clock does not go back, rows are only added *)
(* and answered, and a request carries a daily prompt it found answered.    *)
LEMMA TypeInvariant == Spec => []TypeInv
<1> USE NoneAssumption, BoundAssumption, QuestionsAssumption
<1>1. Init => TypeInv
  BY DEF Init, TypeInv, TypeOK, BasisOK, InOrder, Prompt, Call
<1>2. TypeInv /\ [Next]_vars => TypeInv'
  <2> SUFFICES ASSUME TypeInv, [Next]_vars PROVE TypeInv'
    OBVIOUS
  <2> USE DEF TypeInv, TypeOK, BasisOK, InOrder, Call
  <2>1. ASSUME NEW r \in Requests, NEW call \in Call, Begin(r, call) PROVE TypeInv'
    BY <2>1 DEF Begin, Goto
  <2>2. ASSUME NEW r \in Requests, NEW reply \in Reply, SaveOnboarding(r, reply) PROVE TypeInv'
    <3> DEFINE k == Questions(reply)
               new == [i \in 1 .. k |-> New("onboarding", None)]
    <3>1. k \in Nat /\ new \in Seq(Prompt) /\ Len(new) = k
      <4>1. k \in Nat
        BY DEF Questions, Reply
      <4>2. New("onboarding", None) \in Prompt
        BY DEF New, Prompt
      <4> QED
        BY <4>1, <4>2
    <3>2. /\ prompts' \in Seq(Prompt) /\ Len(prompts') = Len(prompts) + k
          /\ \A p \in DOMAIN prompts : prompts'[p] = prompts[p]
          /\ \A p \in DOMAIN prompts' \ DOMAIN prompts : prompts'[p] = New("onboarding", None)
      BY <2>2, <3>1 DEF SaveOnboarding
    <3> HIDE DEF k, new
    <3>3. UNCHANGED <<today, day, alone>> /\ Goto(r, "idle", None)
      BY <2>2 DEF SaveOnboarding, Finish
    <3>4. TypeOK'
      <4>1. DOMAIN prompts \subseteq DOMAIN prompts'
        BY <3>1, <3>2, Row
      <4>2. \A p \in DOMAIN prompts' :
               LET q == prompts'[p].follows
               IN q # None => /\ q \in 1 .. p - 1
                              /\ prompts'[q].type = "daily" /\ prompts'[q].isAnswered
        <5>1. ASSUME NEW p \in DOMAIN prompts' \ DOMAIN prompts PROVE prompts'[p].follows = None
          BY <3>2 DEF New
        <5>2. ASSUME NEW p \in DOMAIN prompts, prompts[p].follows # None
              PROVE  LET q == prompts[p].follows
                     IN q \in DOMAIN prompts
          BY <5>2, Row
        <5> QED
          BY <3>2, <5>1, <5>2
      <4>3. \A s \in Requests : basis'[s] \in DOMAIN prompts' \cup {None}
        BY <3>3, <4>1 DEF Goto
      <4> QED
        BY <3>2, <3>3, <4>2, <4>3 DEF Goto
    <3>5. BasisOK'
      BY <3>1, <3>2, <3>3 DEF Goto
    <3>6. InOrder'
      <4>1. \A p \in DOMAIN prompts' \ DOMAIN prompts : prompts'[p].created = today
        BY <3>2 DEF New
      <4>2. \A p \in DOMAIN prompts', q \in DOMAIN prompts : p <= q => p \in DOMAIN prompts
        BY <3>1, <3>2, Row
      <4> QED
        <5>1. \A p \in DOMAIN prompts' :
                 \/ p \in DOMAIN prompts /\ prompts'[p].created = prompts[p].created
                 \/ p \notin DOMAIN prompts /\ prompts'[p].created = today
          BY <3>2, <4>1
        <5>2. \A p \in DOMAIN prompts : prompts[p].created \in Nat /\ prompts[p].created <= today
          BY Row
        <5>3. \A p, q \in DOMAIN prompts : p <= q => prompts[p].created <= prompts[q].created
          OBVIOUS
        <5>4. today \in Nat /\ today' = today
          BY <3>3
        <5> HIDE DEF TypeOK, BasisOK, TypeInv
        <5> QED
          BY <4>2, <5>1, <5>2, <5>3, <5>4
    <3> QED
      BY <3>4, <3>5, <3>6
  <2>3. ASSUME NEW r \in Requests, FindLatestAnswered(r) PROVE TypeInv'
    <3> DEFINE S == {p \in Since(day[r]) : prompts[p].isAnswered}
    <3>1. Latest(S) \in S \cup {None}
      BY Row, LatestFacts DEF Since
    <3> HIDE DEF S
    <3> QED
      BY <2>3, <3>1 DEF FindLatestAnswered, Goto, Since, S
  <2>4. ASSUME NEW r \in Requests, SaveDaily(r) PROVE TypeInv'
    <3> USE <2>4 DEF SaveDaily, Finish, Goto
    <3>1. prompts' = Append(prompts, New("daily", basis[r])) /\ New("daily", basis[r]) \in Prompt
      BY DEF New, Prompt
    <3>2. TypeOK'
      BY <3>1 DEF New
    <3>3. BasisOK'
      BY <3>1
    <3>4. InOrder'
      BY <3>1 DEF New
    <3> QED
      BY <3>2, <3>3, <3>4
  <2>5. ASSUME NEW r \in Requests, Abort(r) PROVE TypeInv'
    BY <2>5 DEF Abort, Finish, Goto
  <2>6. ASSUME NEW p \in DOMAIN prompts, Answer(p) PROVE TypeInv'
    <3> USE <2>6 DEF Answer
    <3>1. /\ prompts' \in Seq(Prompt) /\ DOMAIN prompts' = DOMAIN prompts
          /\ \A q \in DOMAIN prompts :
                /\ prompts'[q].type = prompts[q].type
                /\ prompts'[q].created = prompts[q].created
                /\ prompts'[q].follows = prompts[q].follows
                /\ prompts[q].isAnswered => prompts'[q].isAnswered
      <4>1. prompts[p] \in Prompt
        BY Row
      <4>2. /\ [prompts[p] EXCEPT !.isAnswered = TRUE] \in Prompt
            /\ [prompts[p] EXCEPT !.isAnswered = TRUE].type = prompts[p].type
            /\ [prompts[p] EXCEPT !.isAnswered = TRUE].created = prompts[p].created
            /\ [prompts[p] EXCEPT !.isAnswered = TRUE].follows = prompts[p].follows
            /\ [prompts[p] EXCEPT !.isAnswered = TRUE].isAnswered
        BY <4>1, AnsweredRow
      <4>3. prompts' = [prompts EXCEPT ![p] = [prompts[p] EXCEPT !.isAnswered = TRUE]]
        OBVIOUS
      <4> HIDE DEF TypeOK, BasisOK, InOrder, Answer
      <4>4. prompts \in Seq(Prompt)
        BY DEF TypeOK
      <4> QED
        BY <4>2, <4>3, <4>4
    <3>2. TypeOK'
      BY <3>1
    <3>3. BasisOK'
      BY <3>1
    <3>4. InOrder'
      BY <3>1
    <3> QED
      BY <3>2, <3>3, <3>4
  <2>7. CASE Midnight
    <3> USE <2>7 DEF Midnight
    <3>1. TypeOK' /\ BasisOK'
      OBVIOUS
    <3>2. InOrder'
      BY Row
    <3> QED
      BY <3>1, <3>2
  <2>8. CASE UNCHANGED vars
    BY <2>8 DEF vars
  <2> QED
    BY <2>1, <2>2, <2>3, <2>4, <2>5, <2>6, <2>7, <2>8 DEF Next, FindOnboarding, FindOpen
<1> QED
  BY <1>1, <1>2, PTL DEF Spec

(* Every reachable state satisfies TypeOK: a follow-up follows an older     *)
(* daily prompt that has been answered.                                     *)
THEOREM TypeCorrect == Spec => []TypeOK
<1>1. TypeInv => TypeOK
  BY DEF TypeInv
<1> QED
  BY <1>1, TypeInvariant, PTL

----------------------------------------------------------------------------
(* What a step does to the rows: nothing, it answers one, it adds the       *)
(* onboarding questions, or it adds a daily prompt.                         *)
LEMMA RowsOfStep ==
    ASSUME TypeInv, TypeInv', [Next]_vars
    PROVE  \/ UNCHANGED prompts
           \/ /\ UNCHANGED <<today, pc, day, basis, alone>>
              /\ DOMAIN prompts' = DOMAIN prompts
              /\ \A q \in DOMAIN prompts :
                    /\ prompts'[q].type = prompts[q].type
                    /\ prompts'[q].created = prompts[q].created
                    /\ prompts'[q].follows = prompts[q].follows
                    /\ prompts[q].isAnswered => prompts'[q].isAnswered
           \/ \E r \in Requests, k \in 0 .. MaxQuestions :
                 /\ pc[r] = "onboarding" /\ Goto(r, "idle", None) /\ UNCHANGED <<today, day, alone>>
                 /\ DOMAIN prompts' = 1 .. Len(prompts) + k
                 /\ \A q \in DOMAIN prompts : prompts'[q] = prompts[q]
                 /\ \A q \in DOMAIN prompts' \ DOMAIN prompts : prompts'[q].type = "onboarding"
           \/ \E r \in Requests :
                 /\ pc[r] = "save" /\ Goto(r, "idle", None) /\ UNCHANGED <<today, day, alone>>
                 /\ DOMAIN prompts' = 1 .. Len(prompts) + 1
                 /\ \A q \in DOMAIN prompts : prompts'[q] = prompts[q]
                 /\ prompts'[Len(prompts) + 1] = New("daily", basis[r])
<1>1. ASSUME NEW r \in Requests, NEW reply \in Reply, SaveOnboarding(r, reply)
      PROVE  \E k \in 0 .. MaxQuestions :
                 /\ DOMAIN prompts' = 1 .. Len(prompts) + k
                 /\ \A q \in DOMAIN prompts : prompts'[q] = prompts[q]
                 /\ \A q \in DOMAIN prompts' \ DOMAIN prompts : prompts'[q].type = "onboarding"
  <2> DEFINE k == Questions(reply)
             new == [i \in 1 .. k |-> New("onboarding", None)]
  <2>1. k \in 0 .. MaxQuestions
    BY QuestionsAssumption DEF Questions, Reply
  <2>2. new \in Seq(Prompt) /\ Len(new) = k
    <3>1. New("onboarding", None) \in Prompt
      BY <1>1 DEF New, Prompt, TypeInv, TypeOK
    <3> QED
      BY <2>1, <3>1
  <2>3. prompts' = prompts \o new /\ prompts \in Seq(Prompt)
    BY <1>1 DEF SaveOnboarding, TypeInv, TypeOK
  <2>4. \A i \in 1 .. k : new[i].type = "onboarding"
    BY DEF New
  <2> HIDE DEF k, new
  <2>5. /\ DOMAIN prompts' = 1 .. Len(prompts) + k
        /\ \A q \in DOMAIN prompts : prompts'[q] = prompts[q]
        /\ \A q \in DOMAIN prompts' \ DOMAIN prompts : prompts'[q] = new[q - Len(prompts)]
    <3>1. prompts' = prompts \o new /\ prompts \in Seq(Prompt) /\ new \in Seq(Prompt) /\ Len(new) = k
      BY <2>2, <2>3
    <3>2. /\ Len(prompts') = Len(prompts) + k /\ prompts' \in Seq(Prompt) /\ Len(prompts) \in Nat
          /\ \A q \in 1 .. Len(prompts) + k :
                prompts'[q] = IF q <= Len(prompts) THEN prompts[q] ELSE new[q - Len(prompts)]
      <4>1. ASSUME NEW s1 \in Seq(Prompt), NEW s2 \in Seq(Prompt)
            PROVE  /\ Len(s1 \o s2) = Len(s1) + Len(s2) /\ s1 \o s2 \in Seq(Prompt)
                   /\ \A q \in 1 .. Len(s1) + Len(s2) :
                         (s1 \o s2)[q] = IF q <= Len(s1) THEN s1[q] ELSE s2[q - Len(s1)]
        BY ConcatProperties
      <4>2. /\ Len(prompts \o new) = Len(prompts) + Len(new) /\ prompts \o new \in Seq(Prompt)
            /\ \A q \in 1 .. Len(prompts) + Len(new) :
                  (prompts \o new)[q] = IF q <= Len(prompts) THEN prompts[q] ELSE new[q - Len(prompts)]
        BY <3>1, <4>1
      <4>3. Len(prompts) \in Nat
        BY <3>1
      <4> QED
        BY ONLY <3>1, <4>2, <4>3
    <3>3. DOMAIN prompts = 1 .. Len(prompts) /\ DOMAIN prompts' = 1 .. Len(prompts) + k
      BY <3>1, <3>2
    <3> QED
      BY <2>1, <3>2, <3>3
  <2>6. \A q \in DOMAIN prompts' \ DOMAIN prompts : q - Len(prompts) \in 1 .. k
    BY <2>1, <2>2, <2>3
  <2> QED
    BY <2>1, <2>4, <2>5, <2>6
<1>2. ASSUME NEW r \in Requests, SaveDaily(r)
      PROVE  /\ DOMAIN prompts' = 1 .. Len(prompts) + 1
             /\ \A q \in DOMAIN prompts : prompts'[q] = prompts[q]
             /\ prompts'[Len(prompts) + 1] = New("daily", basis[r])
  BY <1>2 DEF SaveDaily, TypeInv, TypeOK
<1>3. ASSUME NEW p \in DOMAIN prompts, Answer(p)
      PROVE  /\ DOMAIN prompts' = DOMAIN prompts
             /\ \A q \in DOMAIN prompts :
                    /\ prompts'[q].type = prompts[q].type
                    /\ prompts'[q].created = prompts[q].created
                    /\ prompts'[q].follows = prompts[q].follows
                    /\ prompts[q].isAnswered => prompts'[q].isAnswered
  <2>1. prompts \in Seq(Prompt)
    BY DEF TypeInv, TypeOK
  <2>2. prompts' = [prompts EXCEPT ![p] = [prompts[p] EXCEPT !.isAnswered = TRUE]]
    BY <1>3 DEF Answer
  <2> QED
    BY <2>1, <2>2, AnsweredRow
<1> QED
  BY <1>1, <1>2, <1>3
     DEF Next, vars, FindOnboarding, FindOpen, Begin, SaveOnboarding, FindLatestAnswered, SaveDaily,
         Finish, Abort, Answer, Midnight

(* Requests that have overlapped have overlapped ever since.                *)
LEMMA AloneBefore == alone' /\ [Next]_vars => alone
BY DEF Next, vars, FindOnboarding, FindOpen, Begin, SaveOnboarding, FindLatestAnswered, SaveDaily,
       Finish, Abort, Answer, Midnight

(* AloneInv is an invariant: no request changes what another one has found, *)
(* and answers only close prompts.                                          *)
LEMMA AloneInvariant == Spec => []AloneInv
<1>1. Init => AloneInv
  BY DEF Init, AloneInv
<1>2. TypeInv /\ TypeInv' /\ AloneInv /\ [Next]_vars => AloneInv'
  <2> SUFFICES ASSUME TypeInv, TypeInv', AloneInv, [Next]_vars, alone'
               PROVE  AloneInv'
    BY DEF AloneInv
  <2>0. /\ pc \in [Requests -> Call] /\ day \in [Requests -> 1 .. today] /\ DOMAIN basis = Requests
    BY DEF TypeInv, TypeOK, BasisOK
  <2>a. alone
    BY AloneBefore
  <2>1. ASSUME NEW r \in Requests, FindOnboarding(r) PROVE AloneInv'
    BY <2>1, <2>0 DEF FindOnboarding, Begin, Goto, AloneInv, Busy, Onboarding
  <2>2. ASSUME NEW r \in Requests, FindOpen(r) PROVE AloneInv'
    <3>1. \A p \in Since(today) : prompts[p].isAnswered
      BY <2>2 DEF FindOpen, Open
    <3>2. /\ UNCHANGED <<prompts, today>> /\ Busy = {}
          /\ pc' = [pc EXCEPT ![r] = "latest"] /\ day' = [day EXCEPT ![r] = today]
      BY <2>2 DEF FindOpen, Begin, Goto
    <3>3. \A d : Since(d)' = Since(d)
      BY <3>2 DEF Since
    <3>4. Busy' = {r} /\ \A s \in Requests \ {r} : pc'[s] = "idle"
      BY <3>2, <2>0 DEF Busy
    <3> QED
      BY <3>2, <3>3, <3>4, <3>1, <2>0 DEF AloneInv
  <2>3. ASSUME NEW r \in Requests, FindLatestAnswered(r) PROVE AloneInv'
    <3>1. pc[r] = "latest" /\ Busy = {r} /\ \A p \in Since(day[r]) : prompts[p].isAnswered
      BY <2>3, <2>a DEF FindLatestAnswered, AloneInv
    <3>2. {p \in Since(day[r]) : prompts[p].isAnswered} = Since(day[r])
      BY <3>1
    <3>3. \A p \in Since(day[r]) :
             Latest(Since(day[r])) \in Since(day[r]) /\ p <= Latest(Since(day[r]))
      BY Row, LatestFacts DEF TypeInv, Since
    <3>4. /\ UNCHANGED <<prompts, today, day>>
          /\ pc' = [pc EXCEPT ![r] = "save"]
          /\ basis' = [basis EXCEPT ![r] = Latest(Since(day[r]))]
      BY <2>3, <3>2 DEF FindLatestAnswered, Goto
    <3>5. \A d : Since(d)' = Since(d)
      BY <3>4 DEF Since
    <3>6. \A s \in Requests \ {r} : pc[s] = "idle" /\ pc'[s] = "idle"
      BY <3>1, <3>4, <2>0 DEF Busy
    <3>7. Busy' = {r}
      BY <3>4, <3>6, <2>0 DEF Busy
    <3> QED
      BY <3>1, <3>3, <3>4, <3>5, <3>6, <3>7, <2>0 DEF AloneInv
  <2>4. ASSUME NEW r \in Requests, pc[r] # "idle", Goto(r, "idle", None) PROVE AloneInv'
    <3>1. \A s \in Requests : pc'[s] = "idle"
      BY <2>4, <2>0, <2>a DEF Goto, AloneInv, Busy
    <3> QED
      BY <3>1 DEF AloneInv
  <2>5. CASE UNCHANGED <<today, pc, day, basis>> /\ ~UNCHANGED prompts
    <3>1. /\ DOMAIN prompts' = DOMAIN prompts
          /\ \A q \in DOMAIN prompts :
                /\ prompts'[q].type = prompts[q].type
                /\ prompts'[q].created = prompts[q].created
                /\ prompts[q].isAnswered => prompts'[q].isAnswered
      BY <2>5, <2>0, RowsOfStep DEF Goto
    <3> QED
      BY <2>5, <2>a, <3>1 DEF AloneInv, Busy, Since, Onboarding
  <2>6. CASE UNCHANGED <<prompts, pc, day, basis>>
    BY <2>6, <2>a DEF AloneInv, Busy, Since, Onboarding
  <2>7. \/ UNCHANGED <<today, pc, day, basis>> \/ UNCHANGED <<prompts, pc, day, basis>>
        \/ \E r \in Requests : \/ FindOnboarding(r) \/ FindOpen(r) \/ FindLatestAnswered(r)
                               \/ pc[r] # "idle" /\ Goto(r, "idle", None)
    BY DEF Next, vars, SaveOnboarding, SaveDaily, Finish, Abort, Answer, Midnight
  <2> QED
    BY <2>1, <2>2, <2>3, <2>4, <2>5, <2>6, <2>7
<1> QED
  BY <1>1, <1>2, TypeInvariant, PTL DEF Spec

----------------------------------------------------------------------------
(* Every reachable state satisfies OnboardingOnce: one set of questions.    *)
THEOREM OnboardingAskedOnce == Spec => []OnboardingOnce
<1>1. Init => OnboardingOnce
  <2> SUFFICES ASSUME Init PROVE Cardinality(Onboarding) <= MaxQuestions
    BY DEF OnboardingOnce, Onboarding
  <2>1. Onboarding = {}
    BY DEF Init, Onboarding
  <2> QED
    BY <2>1, FS_EmptySet, QuestionsAssumption
<1>2. TypeInv /\ TypeInv' /\ AloneInv /\ OnboardingOnce /\ [Next]_vars => OnboardingOnce'
  <2> SUFFICES ASSUME TypeInv, TypeInv', AloneInv, OnboardingOnce, [Next]_vars, alone'
               PROVE  Cardinality(Onboarding') <= MaxQuestions
    BY DEF OnboardingOnce, Onboarding
  <2>a. alone
    BY AloneBefore
  <2>1. CASE Onboarding' = Onboarding
    BY <2>1, <2>a DEF OnboardingOnce, Onboarding
  <2>2. ASSUME NEW r \in Requests, NEW k \in 0 .. MaxQuestions, pc[r] = "onboarding",
               DOMAIN prompts' = 1 .. Len(prompts) + k,
               \A q \in DOMAIN prompts : prompts'[q] = prompts[q]
        PROVE  Cardinality(Onboarding') <= MaxQuestions
    <3>1. Onboarding = {}
      BY <2>2, <2>a DEF AloneInv
    <3>2. Onboarding' \subseteq Len(prompts) + 1 .. Len(prompts) + k
      BY <2>2, <3>1, Row, QuestionsAssumption DEF Onboarding, TypeInv
    <3>3. /\ IsFiniteSet(Len(prompts) + 1 .. Len(prompts) + k)
          /\ Cardinality(Len(prompts) + 1 .. Len(prompts) + k) = k
      <4>1. Len(prompts) \in Nat /\ k \in Nat /\ Len(prompts) + 1 \in Int /\ Len(prompts) + k \in Int
        BY Row, QuestionsAssumption DEF TypeInv
      <4>2. \A a, b \in Int : IsFiniteSet(a .. b)
                              /\ Cardinality(a .. b) = IF a > b THEN 0 ELSE b - a + 1
        BY FS_Interval
      <4>3. PICK a, b \in Int : a = Len(prompts) + 1 /\ b = Len(prompts) + k
        BY <4>1
      <4>4. Cardinality(a .. b) = k
        BY <4>1, <4>2, <4>3
      <4> QED
        BY <4>2, <4>3, <4>4
    <3>4. Cardinality(Onboarding') <= k /\ Cardinality(Onboarding') \in Nat
      BY <3>2, <3>3, FS_Subset, FS_CardinalityType
    <3> QED
      BY <3>4, QuestionsAssumption
  <2>3. ASSUME NEW r \in Requests,
               DOMAIN prompts' = 1 .. Len(prompts) + 1,
               \A q \in DOMAIN prompts : prompts'[q] = prompts[q],
               prompts'[Len(prompts) + 1] = New("daily", basis[r])
        PROVE  Onboarding' = Onboarding
    BY <2>3, Row DEF Onboarding, New, TypeInv
  <2> QED
    BY <2>1, <2>2, <2>3, RowsOfStep DEF Onboarding
<1> QED
  BY <1>1, <1>2, TypeInvariant, AloneInvariant, PTL DEF Spec

(* Every reachable state satisfies OneOpenPrompt: a day has one open prompt *)
(* at most, the latest.                                                     *)
THEOREM OneOpenPromptADay == Spec => []OneOpenPrompt
<1>1. Init => OneOpenPrompt
  BY DEF Init, OneOpenPrompt
<1>2. TypeInv /\ TypeInv' /\ AloneInv /\ OneOpenPrompt /\ [Next]_vars => OneOpenPrompt'
  <2> SUFFICES ASSUME TypeInv, TypeInv', AloneInv, OneOpenPrompt, [Next]_vars, alone',
                      NEW p \in DOMAIN prompts', NEW q \in DOMAIN prompts',
                      prompts'[p].type = "daily", prompts'[q].type = "daily",
                      prompts'[p].created = prompts'[q].created, p < q
               PROVE  prompts'[p].isAnswered
    BY DEF OneOpenPrompt
  <2>a. alone
    BY AloneBefore
  <2>b. DOMAIN prompts = 1 .. Len(prompts) /\ Len(prompts) \in Nat
    BY Row DEF TypeInv
  <2>1. CASE UNCHANGED prompts
    BY <2>1, <2>a DEF OneOpenPrompt
  <2>2. CASE /\ DOMAIN prompts' = DOMAIN prompts
             /\ \A s \in DOMAIN prompts :
                   /\ prompts'[s].type = prompts[s].type
                   /\ prompts'[s].created = prompts[s].created
                   /\ prompts[s].isAnswered => prompts'[s].isAnswered
    BY <2>2, <2>a DEF OneOpenPrompt
  <2>3. ASSUME NEW k \in 0 .. MaxQuestions,
               \A s \in DOMAIN prompts : prompts'[s] = prompts[s],
               \A s \in DOMAIN prompts' \ DOMAIN prompts : prompts'[s].type = "onboarding"
        PROVE  prompts'[p].isAnswered
    BY <2>3, <2>a DEF OneOpenPrompt
  <2>4. ASSUME NEW r \in Requests, pc[r] = "save",
               DOMAIN prompts' = 1 .. Len(prompts) + 1,
               \A s \in DOMAIN prompts : prompts'[s] = prompts[s],
               prompts'[Len(prompts) + 1] = New("daily", basis[r])
        PROVE  prompts'[p].isAnswered
    <3>1. p \in DOMAIN prompts
      BY <2>4, <2>b
    <3>2. CASE q \in DOMAIN prompts
      BY <2>4, <2>a, <3>1, <3>2 DEF OneOpenPrompt
    <3>3. CASE q = Len(prompts) + 1
      <4>1. prompts[p].created = today /\ prompts[p].type = "daily"
        BY <2>4, <3>1, <3>3 DEF New
      <4>2. p \in Since(day[r])
        BY <3>1, <4>1 DEF Since, TypeInv, TypeOK
      <4> QED
        BY <2>4, <2>a, <3>1, <4>2 DEF AloneInv
    <3> QED
      BY <3>2, <3>3, <2>b, <2>4
  <2> QED
    BY <2>1, <2>2, <2>3, <2>4, RowsOfStep
<1> QED
  BY <1>1, <1>2, TypeInvariant, AloneInvariant, PTL DEF Spec

----------------------------------------------------------------------------
(* FollowUpChain, prompt by prompt.                                         *)
Chain ==
    alone => \A p, q \in DOMAIN prompts :
        /\ prompts[p].type = "daily" /\ prompts[q].type = "daily"
        /\ prompts[p].created = prompts[q].created /\ q < p
        => LET f == prompts[p].follows
           IN /\ f \in DOMAIN prompts /\ f < p
              /\ prompts[f].type = "daily" /\ prompts[f].created = prompts[p].created
              /\ q <= f

(* Chain is an invariant: the prompt a request follows up when it saves is  *)
(* the last one of the day, if there is any.                                *)
LEMMA ChainInvariant == Spec => []Chain
<1>1. Init => Chain
  BY DEF Init, Chain
<1>2. TypeInv /\ TypeInv' /\ AloneInv /\ Chain /\ [Next]_vars => Chain'
  <2> SUFFICES ASSUME TypeInv, TypeInv', AloneInv, Chain, [Next]_vars, alone',
                      NEW p \in DOMAIN prompts', NEW q \in DOMAIN prompts',
                      prompts'[p].type = "daily", prompts'[q].type = "daily",
                      prompts'[p].created = prompts'[q].created, q < p
               PROVE  LET f == prompts'[p].follows
                      IN /\ f \in DOMAIN prompts' /\ f < p
                         /\ prompts'[f].type = "daily" /\ prompts'[f].created = prompts'[p].created
                         /\ q <= f
    BY DEF Chain
  <2>a. alone
    BY AloneBefore
  <2>b. DOMAIN prompts = 1 .. Len(prompts) /\ Len(prompts) \in Nat
    BY Row DEF TypeInv
  <2>1. CASE UNCHANGED prompts
    BY <2>1, <2>a DEF Chain
  <2>2. CASE /\ DOMAIN prompts' = DOMAIN prompts
             /\ \A s \in DOMAIN prompts :
                   /\ prompts'[s].type = prompts[s].type
                   /\ prompts'[s].created = prompts[s].created
                   /\ prompts'[s].follows = prompts[s].follows
    BY <2>2, <2>a DEF Chain
  <2>3. ASSUME DOMAIN prompts \subseteq DOMAIN prompts',
               \A s \in DOMAIN prompts : prompts'[s] = prompts[s],
               p \in DOMAIN prompts, q \in DOMAIN prompts
        PROVE  LET f == prompts'[p].follows
               IN /\ f \in DOMAIN prompts' /\ f < p
                  /\ prompts'[f].type = "daily" /\ prompts'[f].created = prompts'[p].created
                  /\ q <= f
    BY <2>3, <2>a DEF Chain
  <2>4. ASSUME NEW r \in Requests, pc[r] = "save", UNCHANGED <<today, day, alone>>,
               DOMAIN prompts' = 1 .. Len(prompts) + 1,
               \A s \in DOMAIN prompts : prompts'[s] = prompts[s],
               prompts'[Len(prompts) + 1] = New("daily", basis[r]),
               p \notin DOMAIN prompts
        PROVE  LET f == prompts'[p].follows
               IN /\ f \in DOMAIN prompts' /\ f < p
                  /\ prompts'[f].type = "daily" /\ prompts'[f].created = prompts'[p].created
                  /\ q <= f
    <3>1. p = Len(prompts) + 1 /\ q \in DOMAIN prompts
      BY <2>4, <2>b
    <3>2. /\ prompts'[p].follows = basis[r] /\ prompts'[p].created = today
          /\ prompts[q].created = today /\ prompts[q].type = "daily"
      BY <2>4, <3>1 DEF New
    <3>3. q \in Since(day[r])
      BY <3>1, <3>2 DEF Since, TypeInv, TypeOK
    <3>4. basis[r] \in Since(day[r]) /\ q <= basis[r]
      BY <2>4, <2>a, <3>3 DEF AloneInv
    <3>5. basis[r] \in DOMAIN prompts /\ prompts[basis[r]].type = "daily"
      BY <3>4 DEF Since
    <3>6. prompts[basis[r]].created = today
      <4>1. prompts[basis[r]].created <= today /\ prompts[q].created <= prompts[basis[r]].created
        BY <3>1, <3>4, <3>5 DEF TypeInv, InOrder
      <4>2. today \in Nat /\ prompts[basis[r]].created \in Nat
        BY <3>5, Row DEF TypeInv, TypeOK
      <4> QED
        BY <3>2, <4>1, <4>2
    <3> QED
      BY <2>4, <2>b, <3>1, <3>2, <3>4, <3>5, <3>6
  <2>5. \/ UNCHANGED prompts
        \/ /\ DOMAIN prompts' = DOMAIN prompts
           /\ \A s \in DOMAIN prompts :
                 /\ prompts'[s].type = prompts[s].type
                 /\ prompts'[s].created = prompts[s].created
                 /\ prompts'[s].follows = prompts[s].follows
        \/ /\ DOMAIN prompts \subseteq DOMAIN prompts'
           /\ \A s \in DOMAIN prompts : prompts'[s] = prompts[s]
           /\ p \in DOMAIN prompts /\ q \in DOMAIN prompts
        \/ \E r \in Requests :
              /\ pc[r] = "save" /\ UNCHANGED <<today, day, alone>>
              /\ DOMAIN prompts' = 1 .. Len(prompts) + 1
              /\ \A s \in DOMAIN prompts : prompts'[s] = prompts[s]
              /\ prompts'[Len(prompts) + 1] = New("daily", basis[r])
              /\ p \notin DOMAIN prompts
    <3>1. ASSUME NEW r \in Requests, NEW k \in 0 .. MaxQuestions,
                 DOMAIN prompts' = 1 .. Len(prompts) + k,
                 \A s \in DOMAIN prompts' \ DOMAIN prompts : prompts'[s].type = "onboarding"
          PROVE  DOMAIN prompts \subseteq DOMAIN prompts' /\ {p, q} \subseteq DOMAIN prompts
      BY <3>1, <2>b, QuestionsAssumption
    <3>2. ASSUME DOMAIN prompts' = 1 .. Len(prompts) + 1, p \in DOMAIN prompts
          PROVE  DOMAIN prompts \subseteq DOMAIN prompts' /\ q \in DOMAIN prompts
      BY <3>2, <2>b
    <3> QED
      BY <3>1, <3>2, RowsOfStep
  <2> QED
    BY <2>1, <2>2, <2>3, <2>4, <2>5
<1> QED
  BY <1>1, <1>2, TypeInvariant, AloneInvariant, PTL DEF Spec

(* Every reachable state satisfies FollowUpChain: the prompts of a day form *)
(* a conversation.                                                          *)
THEOREM FollowUpsFormAChain == Spec => []FollowUpChain
<1>1. TypeInv /\ Chain => FollowUpChain
  <2> SUFFICES ASSUME TypeInv, Chain, alone, NEW d \in 1 .. today,
                      NEW p \in Since(d), prompts[p].created = d,
                      NEW q \in Since(d), prompts[q].created = d, q < p
               PROVE  LET f == prompts[p].follows
                      IN f \in Since(d) /\ prompts[f].created = d /\ f < p /\ q <= f
    BY DEF FollowUpChain
  <2> QED
    BY DEF Chain, Since
<1> QED
  BY <1>1, TypeInvariant, ChainInvariant, PTL
=============================================================================

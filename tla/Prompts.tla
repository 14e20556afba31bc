------------------------------ MODULE Prompts ------------------------------
(***************************************************************************)
(* The prompts of one account: PromptService.getOnboardingPrompts and      *)
(* getDailyPrompt look for prompts to serve, and when there are none ask   *)
(* the model for new ones and save them.  The analysis of an entry answers *)
(* a prompt (JournalService.processLogEntry).  A request takes one step    *)
(* per database or model call.  The clock counts days.                     *)
(***************************************************************************)
EXTENDS Naturals, Sequences, FiniteSets

CONSTANTS
    Requests, None,
    MaxQuestions,          \* most questions the model answers with
    FallbackQuestions,     \* number of questions when its reply is not understood
    MaxPrompts, MaxDay     \* bounds: prompt rows, days

ASSUME QuestionsAssumption ==
    MaxQuestions \in Nat /\ FallbackQuestions \in 0 .. MaxQuestions
ASSUME BoundAssumption == MaxPrompts \in Nat /\ MaxDay \in Nat \ {0}
ASSUME NoneAssumption == None \notin Nat

VARIABLES
    prompts,  \* the prompts table, in the order of created_at
    today,    \* the day the clock shows
    pc,       \* per request: the call it is about to make
    day,      \* per request: the day it began, `today` of getDailyPrompt
    basis,    \* per request: the answered prompt its new prompt follows up
    alone     \* history: no two requests have overlapped

vars == <<prompts, today, pc, day, basis, alone>>

Prompt == [type : {"onboarding", "daily"}, created : 1 .. MaxDay,
           isAnswered : BOOLEAN, follows : Nat \cup {None}]
Call == {"idle", "onboarding", "latest", "save"}

\* a reply to generateOnboardingQuestions: an array, an array under the key
\* "questions", other or no JSON, or no reply at all
Reply == [form : {"array", "questions", "other", "none"}, length : 0 .. MaxQuestions]

\* generateOnboardingQuestions: the number of questions it returns
Questions(reply) ==
    IF reply.form \in {"array", "questions"} THEN reply.length ELSE FallbackQuestions

New(type, p) == [type |-> type, created |-> today, isAnswered |-> FALSE, follows |-> p]
Busy == {r \in Requests : pc[r] # "idle"}

\* Variant: answered ones are not looked at.
OnboardingOpen == {p \in DOMAIN prompts : prompts[p].type = "onboarding" /\ ~prompts[p].isAnswered}

Onboarding == {p \in DOMAIN prompts : prompts[p].type = "onboarding"}

\* Variant: of any type.
SinceAny(d) == {p \in DOMAIN prompts : prompts[p].created >= d}

\* the daily prompts created on day d or later
Since(d) == {p \in DOMAIN prompts : prompts[p].type = "daily" /\ prompts[p].created >= d}

\* Variant: created after the day.
OpenLate(d) == {p \in Since(d + 1) : ~prompts[p].isAnswered}

Open(d) == {p \in Since(d) : ~prompts[p].isAnswered}

\* Variant: in ascending order.
LatestFirst(S) == IF S = {} THEN None ELSE CHOOSE p \in S : \A q \in S : p <= q

Latest(S) == IF S = {} THEN None ELSE CHOOSE p \in S : \A q \in S : q <= p

Init == /\ prompts = <<>>
        /\ today = 1
        /\ pc = [r \in Requests |-> "idle"]
        /\ day = [r \in Requests |-> 1]
        /\ basis = [r \in Requests |-> None]
        /\ alone = TRUE

Goto(r, call, p) == /\ pc' = [pc EXCEPT ![r] = call]
                    /\ basis' = [basis EXCEPT ![r] = p]

\* A request begins and has nothing to serve yet.
Begin(r, call) ==
    /\ pc[r] = "idle"
    /\ Goto(r, call, None)
    /\ day' = [day EXCEPT ![r] = today]
    /\ alone' = (alone /\ Busy = {})
    /\ UNCHANGED <<prompts, today>>

Finish(r) == Goto(r, "idle", None) /\ UNCHANGED <<today, day, alone>>

----------------------------------------------------------------------------
(* getOnboardingPrompts: none exist, the questions are asked for ...        *)
FindOnboarding(r) == Onboarding = {} /\ Begin(r, "onboarding")

\* ... and saved, as many as the reply has.
SaveOnboarding(r, reply) ==
    /\ pc[r] = "onboarding" /\ Len(prompts) + Questions(reply) <= MaxPrompts
    /\ prompts' = prompts \o [i \in 1 .. Questions(reply) |-> New("onboarding", None)]
    /\ Finish(r)

(* getDailyPrompt: there is no open prompt of today ...                     *)
FindOpen(r) == Open(today) = {} /\ Begin(r, "latest")

\* ... the latest answered one is looked for, to follow it up ...
FindLatestAnswered(r) ==
    /\ pc[r] = "latest"
    /\ Goto(r, "save", Latest({p \in Since(day[r]) : prompts[p].isAnswered}))
    /\ UNCHANGED <<prompts, today, day, alone>>

\* ... and the prompt of the model is saved.
SaveDaily(r) ==
    /\ pc[r] = "save" /\ Len(prompts) < MaxPrompts
    /\ prompts' = Append(prompts, New("daily", basis[r]))
    /\ Finish(r)

(* The database fails or the process dies; the model has fallback answers.  *)
Abort(r) == /\ pc[r] # "idle"
            /\ Finish(r)
            /\ UNCHANGED prompts

(* The transaction of processLogEntry: the entry may answer a prompt of any *)
(* day, at any time.                                                        *)
Answer(p) == /\ ~prompts[p].isAnswered
             /\ prompts' = [prompts EXCEPT ![p].isAnswered = TRUE]
             /\ UNCHANGED <<today, pc, day, basis, alone>>

Midnight == /\ today < MaxDay
            /\ today' = today + 1
            /\ UNCHANGED <<prompts, pc, day, basis, alone>>

Next == \/ \E r \in Requests :
              \/ FindOnboarding(r) \/ \E reply \in Reply : SaveOnboarding(r, reply)
              \/ FindOpen(r) \/ FindLatestAnswered(r) \/ SaveDaily(r) \/ Abort(r)
        \/ \E p \in DOMAIN prompts : Answer(p)
        \/ Midnight

Spec == Init /\ [][Next]_vars

----------------------------------------------------------------------------
(* Type invariant: a follow-up follows an older daily prompt that has been  *)
(* answered, however requests and answers interleave.                       *)
TypeOK ==
    /\ prompts \in Seq(Prompt)
    /\ today \in 1 .. MaxDay
    /\ pc \in [Requests -> Call]
    /\ day \in [Requests -> 1 .. today]
    /\ \A r \in Requests : basis[r] \in DOMAIN prompts \cup {None}
    /\ alone \in BOOLEAN
    /\ \A p \in DOMAIN prompts :
          LET q == prompts[p].follows
          IN q # None => /\ q \in 1 .. p - 1
                         /\ prompts[q].type = "daily" /\ prompts[q].isAnswered

(* While requests have not overlapped the account is asked its onboarding   *)
(* questions once: no second set is saved beside the first.                 *)
OnboardingOnce ==
    alone => Cardinality({p \in DOMAIN prompts : prompts[p].type = "onboarding"}) <= MaxQuestions

(* While requests have not overlapped a day has one open prompt at most,    *)
(* the latest, although prompts are saved after midnight that were asked    *)
(* for before it, and answers come at any time (getDailyPrompt).            *)
OneOpenPrompt ==
    alone => \A p, q \in DOMAIN prompts :
        /\ prompts[p].type = "daily" /\ prompts[q].type = "daily"
        /\ prompts[p].created = prompts[q].created /\ p < q
        => prompts[p].isAnswered

(* While requests have not overlapped the prompts of a day form a           *)
(* conversation: each follows up the one before it.                         *)
FollowUpChain ==
    alone => \A d \in 1 .. today :
        LET ofDay == {p \in Since(d) : prompts[p].created = d}
        IN \A p \in ofDay :
              LET before == {q \in ofDay : q < p}
              IN before # {} => prompts[p].follows \in before
                                /\ \A q \in before : q <= prompts[p].follows
=============================================================================

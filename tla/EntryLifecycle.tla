---------------------------- MODULE EntryLifecycle ----------------------------
(***************************************************************************)
(* What the journal promises of its entries, without statuses, deliveries  *)
(* and the steps of an analysis: an entry is kept, may be accepted for     *)
(* analysis, and is analysed in one step together with the prompt it       *)
(* answers.  It never goes back, and vanishes only with its account.       *)
(* JournalEntries implements this specification.                           *)
(***************************************************************************)
CONSTANTS Logs, Prompts, None

VARIABLES
    entry,   \* the phase of each entry
    asked,   \* the prompt an entry is written for
    answer,  \* the entry that answers a prompt
    gone     \* the account is removed

vars == <<entry, asked, answer, gone>>

Init == /\ entry = [l \in Logs |-> "absent"]
        /\ asked = [l \in Logs |-> None]
        /\ answer = [p \in Prompts |-> None]
        /\ gone = FALSE

Write(l, p) ==
    /\ ~gone /\ entry[l] = "absent"
    /\ entry' = [entry EXCEPT ![l] = "kept"]
    /\ asked' = [asked EXCEPT ![l] = p]
    /\ UNCHANGED <<answer, gone>>

\* The analysis is promised.
Accept(l) ==
    /\ entry[l] = "kept"
    /\ entry' = [entry EXCEPT ![l] = "accepted"]
    /\ UNCHANGED <<asked, answer, gone>>

\* It may be repeated, and overwrites the answer of another entry.
Analyse(l) ==
    /\ entry[l] # "absent"
    /\ entry' = [entry EXCEPT ![l] = "analysed"]
    /\ answer' = IF asked[l] = None THEN answer ELSE [answer EXCEPT ![asked[l]] = l]
    /\ UNCHANGED <<asked, gone>>

Vanish ==
    /\ ~gone
    /\ gone' = TRUE
    /\ entry' = [l \in Logs |-> "absent"]
    /\ answer' = [p \in Prompts |-> None]
    /\ UNCHANGED asked

Next == \/ \E l \in Logs : \/ \E p \in Prompts \cup {None} : Write(l, p)
                           \/ Accept(l) \/ Analyse(l)
        \/ Vanish

Spec == Init /\ [][Next]_vars

(* The promise: an accepted entry does not stay without analysis.           *)
Honoured(l) == entry[l] = "accepted" ~> entry[l] # "accepted"
=============================================================================

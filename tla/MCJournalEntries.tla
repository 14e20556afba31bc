--------------------------- MODULE MCJournalEntries ---------------------------
(* Instances of JournalEntries for TLC.                                     *)
EXTENDS JournalEntries, TLC

\* Logs are alike: liveness is checked for one of them, under the fairness
\* this log is due, while nothing is assumed of the deliveries of the others.
ALog == CHOOSE l \in Logs : TRUE
FairToOne == Spec /\ FairTo(ALog)

(* The task of this entry is analysed in the end, or its account removed.   *)
EveryTaskAnalysed == TaskAnalysed(ALog)
=============================================================================

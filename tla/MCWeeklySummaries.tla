-------------------------- MODULE MCWeeklySummaries --------------------------
(* Instances of WeeklySummaries for TLC.                                    *)
EXTENDS WeeklySummaries, TLC

\* The requests that matter: all the properties but the type are about
\* behaviours without an overlap or without a stamp that went back.
Telling == kept \/ alone
RequestSymmetry == Permutations(Requests)
=============================================================================

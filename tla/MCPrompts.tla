------------------------------ MODULE MCPrompts ------------------------------
(* Instances of Prompts for TLC.                                            *)
EXTENDS Prompts, TLC

RequestSymmetry == Permutations(Requests)
=============================================================================

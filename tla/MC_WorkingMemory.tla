--------------------------- MODULE MC_WorkingMemory ---------------------------
(***************************************************************************)
(* Instances of WorkingMemory for TLC                                      *)
(***************************************************************************)
EXTENDS WorkingMemory, TLC

RoleTokens == [user |-> {1, 3}, assistant |-> {1}, tool |-> {1, 3}]

\* Results that exceed the conversation budget
LargeResults == [user |-> {1}, assistant |-> {1}, tool |-> {6}]

\* Call IDs are interchangeable
Symmetry == Permutations(Call)
===============================================================================

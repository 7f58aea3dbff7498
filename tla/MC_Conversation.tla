--------------------------- MODULE MC_Conversation ---------------------------
(***************************************************************************)
(* Instances of Conversation for TLC                                       *)
(***************************************************************************)
EXTENDS Conversation, TLC

\* Turns are interchangeable, and so are steer messages
Symmetry == Permutations(Turn) \cup Permutations(Steer)
===============================================================================

------------------------------- MODULE MC_Gate --------------------------------
(***************************************************************************)
(* Instances of Gate for TLC                                               *)
(***************************************************************************)
EXTENDS Gate, TLC

CONSTANTS p, q, ask, bash

\* Two calls of one tool, and a question
Calls == {p, q, ask}
Questions == {ask}
Tools == {bash}
Bash == (p :> bash @@ q :> bash)
===============================================================================

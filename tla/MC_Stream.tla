------------------------------- MODULE MC_Stream ------------------------------
(* An instance of Stream: bash, which is inspected, audited and captured, and  *)
(* another tool.                                                              *)
EXTENDS Stream

CONSTANTS bash, read

MCTool == {bash, read}
MCAsks ==
  {[tool |-> bash, input |-> "plain"], [tool |-> bash, input |-> "blocked_command"],
   [tool |-> read, input |-> "blocked_command"], [tool |-> read, input |-> "path_denied"]}
=============================================================================

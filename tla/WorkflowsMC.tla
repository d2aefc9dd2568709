----------------------------- MODULE WorkflowsMC -----------------------------
(* A workflow for TLC.                                                       *)
EXTENDS Workflows

CONSTANTS send, tidy

\* A key that two steps share, around a step that asks for an approval.
MCStepDefs ==
    << [key |-> send, policy |-> "allow", conditional |-> FALSE],
       [key |-> tidy, policy |-> "ask", conditional |-> FALSE],
       [key |-> send, policy |-> "allow", conditional |-> TRUE] >>
=============================================================================

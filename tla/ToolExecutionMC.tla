--------------------------- MODULE ToolExecutionMC ---------------------------
(* Workloads for TLC: a request and its resend to a tool that is verified, *)
(* with the same arguments or with others; and a request to one that is    *)
(* not, beside a read.                                                     *)
EXTENDS ToolExecution

CONSTANTS c1, c2

Request(k, a) == [key |-> k, args |-> a]

MCWorkloads ==
    {[c \in Calls |-> Request("verified", "args")],
     [c \in Calls |-> Request("verified", IF c = c2 THEN "other" ELSE "args")],
     [c \in Calls |-> Request(IF c = c2 THEN "read" ELSE "blind", "args")]}
=============================================================================

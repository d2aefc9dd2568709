----------------------------- MODULE BackgroundMC -----------------------------
(* What runs in processes and threads of its own, checked in one run: the     *)
(* supervisor of the background runtime, the jobs and reminders under the     *)
(* supervisor of the services, and the handlers of tools.  They share no      *)
(* state, so a behaviour is one of a single component, chosen at the start,   *)
(* while the others rest.                                                     *)
EXTENDS Supervisor, ServiceSupervisor, ToolExecutionMC

VARIABLE moving

backgroundVars == <<moving, vars, svcVars, toolVars>>

BackgroundInit ==
    /\ Init /\ SvcInit /\ ToolInit
    /\ moving \in {"runtime", "services", "tools"}
    /\ moving # "tools" => asked = CHOOSE w \in Workloads : TRUE

BackgroundNext ==
    /\ UNCHANGED moving
    /\ \/ moving = "runtime" /\ Next /\ UNCHANGED <<svcVars, toolVars>>
       \/ moving = "services" /\ SvcNext /\ UNCHANGED <<vars, toolVars>>
       \/ moving = "tools" /\ ToolNext /\ UNCHANGED <<vars, svcVars>>

\* The fairness of each, of the one that moves.
BackgroundFairness ==
    /\ WF_vars(moving = "runtime" /\ Tick)
    /\ WF_vars(moving = "runtime" /\ Clock)
    /\ \A p \in Pids : WF_vars(moving = "runtime" /\ Progress(p))
    /\ \A t \in Threads : WF_svcVars(moving = "services" /\ ThreadStep(t))
    /\ WF_svcVars(moving = "services" /\ HealthStep)
    /\ WF_svcVars(moving = "services" /\ SvcTick)
    /\ \A c \in Calls :
         /\ WF_toolVars(moving = "tools" /\ Attempt(c) /\ UNCHANGED asked)
         /\ WF_toolVars(moving = "tools" /\ Poll(c) /\ UNCHANGED asked)
         /\ WF_toolVars(moving = "tools" /\ Verify(c) /\ UNCHANGED asked)

BackgroundSpec == BackgroundInit /\ [][BackgroundNext]_backgroundVars /\ BackgroundFairness
=============================================================================

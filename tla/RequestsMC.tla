------------------------------ MODULE RequestsMC ------------------------------
(* What a request meets on its way, checked in one run: the tables behind the *)
(* mobile gateway, the gateway over them, the approvals of a workflow, the    *)
(* leases of the models that serve it, and the speakers it is answered on.    *)
(* They share no state but the first two, so a behaviour is one of a single   *)
(* component, chosen at the start, while the others rest.                     *)
EXTENDS MobileGatewayMC, WorkflowsMC, WarmRuntime, MediaOutput

CONSTANTS voice, language

\* The language model has no room beside the voice, or none at all.
MCCost == (voice :> 1) @@ (language :> 2)

VARIABLE moving

requestsVars == <<moving, allVars, wfVars, warmVars, mediaVars>>

RequestsInit ==
    /\ moving \in {"store", "gateway", "workflow", "models", "speakers"}
    /\ IF moving = "store" THEN GatewayInit ELSE PairedInit
    /\ WfInit /\ WarmInit /\ MediaInit
    /\ moving # "models" => budget = CHOOSE b \in Budgets : TRUE
    /\ level = [s \in Speakers |-> CHOOSE v \in Levels : TRUE]

\* Where a behaviour may go.  The gateway's threads multiply the states, so it
\* starts from a paired phone and has two sessions, two tokens and one pairing
\* request to a time of 1; the tables alone have all of them, but not the third
\* token together with the second pairing request.
Bounded ==
    /\ IdsInOrder
    /\ moving = "gateway" =>
         session[3] = None /\ token[3] = None /\ pairing[2] = None /\ now <= 1
    /\ moving = "store" => token[3] = None \/ pairing[2] = None

RequestsNext ==
    /\ UNCHANGED moving
    /\ \/ moving = "store" /\ Next /\ UNCHANGED <<gatewayVars, wfVars, warmVars, mediaVars>>
       \/ moving = "gateway" /\ GatewayNext /\ UNCHANGED <<wfVars, warmVars, mediaVars>>
       \/ moving = "workflow" /\ WfNext /\ UNCHANGED <<allVars, warmVars, mediaVars>>
       \/ moving = "models" /\ WarmNext /\ UNCHANGED <<allVars, wfVars, mediaVars>>
       \/ moving = "speakers" /\ MediaNext /\ UNCHANGED <<allVars, wfVars, warmVars>>
    /\ Bounded'

RequestsSpec == RequestsInit /\ [][RequestsNext]_requestsVars

=============================================================================

----------------------------- MODULE ActionGraph -----------------------------
(***************************************************************************)
(* The execution of a plan of actions (rex/actions/graph_executor.py): the *)
(* rounds of the scheduler over a validated dependency graph (graph.py),   *)
(* the thread pool that runs a batch of reads, and the turn's cancellation.*)
(*                                                                         *)
(* A node is its place in graph.nodes, whose order the scheduler follows.  *)
(* The dispatcher (see ToolExecution) answers any dispatch in the end.     *)
(***************************************************************************)
EXTENDS Naturals, FiniteSets

CONSTANTS
    N,                  \* the nodes of a plan
    Resources,          \* the resources of conflict_keys
    Plans,              \* the plans that may be executed
    MaxParallelReads,   \* max_parallel_reads
    NoRecord            \* no record

Nodes == 1..N
Wildcard == "*"
Operations == {"read", "mutation"}

\* ActionNode, attribute by attribute.  canonical is what _operation_resolver
\* says of the node's tool, "unknown" when it raises.
PlanType == [
    deps : [Nodes -> SUBSET Nodes],
    operation : [Nodes -> Operations],
    canonical : [Nodes -> Operations \cup {"unknown"}],
    keys : [Nodes -> SUBSET (Resources \cup {Wildcard})],
    authorized : [Nodes -> BOOLEAN],
    confirms : [Nodes -> BOOLEAN],
    verifies : [Nodes -> BOOLEAN]]

\* _assert_acyclic: the nodes can be ranked above what they depend on.
Acyclic(deps) ==
    \E rank \in [Nodes -> Nodes] : \A n \in Nodes : \A d \in deps[n] : rank[d] < rank[n]

States == {"planned", "completed", "verified", "unverified", "failed", "cancelled"}

\* ActionExecutionRecord: the state of its lifecycle, and whether it has a
\* blocked_reason.
Records == [state : States, blocked : BOOLEAN]

ASSUME GraphAssumption ==
    /\ N \in Nat \ {0}
    /\ MaxParallelReads \in Nat \ {0}
    /\ Plans \subseteq PlanType
    /\ \A plan \in Plans : Acyclic(plan.deps)
    /\ NoRecord \notin Records

VARIABLES
    plan,       \* the graph being executed; it never changes
    round,      \* the scheduler: look, run (a batch), done, or stuck
    record,     \* records
    batch,      \* the nodes it is running
    running,    \* those whose dispatch is under way
    dispatched, \* history: the nodes handed to the dispatcher
    confirmed,  \* confirmations
    turnCancelled  \* the turn is cancelled

graphVars == <<plan, round, record, batch, running, dispatched, confirmed, turnCancelled>>

(* Every variable has its type.                                            *)
GraphTypeOK ==
    /\ plan \in Plans
    /\ round \in {"look", "run", "done", "stuck"}
    /\ record \in [Nodes -> Records \cup {NoRecord}]
    /\ batch \subseteq Nodes
    /\ running \subseteq batch
    /\ dispatched \subseteq Nodes
    /\ confirmed \subseteq Nodes
    /\ turnCancelled \in BOOLEAN

GraphInit ==
    /\ plan \in Plans
    /\ round = "look"
    /\ record = [n \in Nodes |-> NoRecord]
    /\ batch = {}
    /\ running = {}
    /\ dispatched = {}
    /\ confirmed = {}
    /\ turnCancelled = FALSE

-----------------------------------------------------------------------------
(* What the scheduler sees.                                                *)

Pending == {n \in Nodes : record[n] = NoRecord}

\* ActionExecutionRecord.success
Succeeded(n) ==
    /\ record[n] # NoRecord
    /\ ~record[n].blocked
    /\ \/ record[n].state = "verified"
       \/ record[n].state = "completed" /\ plan.operation[n] = "read"

Unsuccessful(n) == record[n] # NoRecord /\ ~Succeeded(n)

\* Mutant of BlockedInPass: one failure blocks everything.
BlockedByAny(blocked) ==
    blocked = {n \in Pending : \E d \in Nodes : Unsuccessful(d)}

\* What one pass of _block_failed_descendants over the pending nodes records:
\* it sees the nodes blocked before it in the list.
BlockedInPass(blocked) ==
    blocked = {n \in Pending :
                 \E d \in plan.deps[n] : Unsuccessful(d) \/ (d < n /\ d \in blocked)}

\* Mutant of Ready: whatever became of what it depends on.
ReadyOnceRecorded(pending) == {n \in pending : plan.deps[n] \cap pending = {}}

Ready(pending) == {n \in pending : \A d \in plan.deps[n] : Succeeded(d)}

\* _boundary_block_reason and _operation_block_reason
Released(n, yes) ==
    /\ plan.authorized[n]
    /\ plan.confirms[n] => n \in yes
    /\ plan.canonical[n] = plan.operation[n]

\* What a node keeps others from; without keys it claims everything.
\* Mutant of Claims: without keys it claims nothing.
ClaimsAsListed(n) == plan.keys[n]

Claims(n) == IF plan.keys[n] = {} THEN {Wildcard} ELSE plan.keys[n]

\* Two nodes may be read together.
Compatible(m, n) ==
    /\ plan.operation[m] = "read" /\ plan.operation[n] = "read"
    /\ Wildcard \notin Claims(m) \cup Claims(n)
    /\ Claims(m) \cap Claims(n) = {}

\* _next_batch: the longest run of ready nodes, from the first of them on,
\* that may be read together, and the first one in any case.
Batch(ready) ==
    {n \in ready : \A m \in ready : n <= m} \cup
    UNION {run \in SUBSET ready :
             /\ Cardinality(run) <= MaxParallelReads
             /\ \A n \in run, m \in ready : m < n => m \in run
             /\ \A m, n \in run : m # n => Compatible(m, n)}

Blocked == [state |-> "planned", blocked |-> TRUE]
Outcome(state) == [state |-> state, blocked |-> FALSE]

Recorded(nodes, what) == [n \in Nodes |-> IF n \in nodes THEN what ELSE record[n]]

-----------------------------------------------------------------------------
(* A round of the scheduler.                                               *)

\* Mutant of SeeCancelled: the loop ends without a record of the rest.
SeeCancelledOnly ==
    /\ round = "look"
    /\ Pending # {}
    /\ turnCancelled
    /\ round' = "done"
    /\ UNCHANGED <<plan, record, batch, running, dispatched, confirmed, turnCancelled>>

SeeCancelled ==
    /\ round = "look"
    /\ Pending # {}
    /\ turnCancelled
    /\ record' = Recorded(Pending, Outcome("cancelled"))
    /\ round' = "done"
    /\ UNCHANGED <<plan, batch, running, dispatched, confirmed, turnCancelled>>

Complete ==
    /\ round = "look"
    /\ Pending = {}
    /\ round' = "done"
    /\ UNCHANGED <<plan, record, batch, running, dispatched, confirmed, turnCancelled>>

\* A round that was begun before the turn was cancelled: blocked are the nodes
\* the pass blocks.
Round(blocked) ==
    /\ round = "look"
    /\ Pending # {}
    /\ ~turnCancelled
    /\ BlockedInPass(blocked)
    /\ UNCHANGED <<plan, running, dispatched, turnCancelled>>

AllBlocked ==
    \E blocked \in SUBSET Pending :
        /\ Round(blocked)
        /\ Pending \ blocked = {}
        /\ record' = Recorded(blocked, Blocked)
        /\ round' = "done"
        /\ UNCHANGED <<batch, confirmed>>

\* RuntimeError: validated action graph made no scheduling progress
NoProgress ==
    \E blocked \in SUBSET Pending :
        /\ Round(blocked)
        /\ Pending \ blocked # {}
        /\ Ready(Pending \ blocked) = {}
        /\ round' = "stuck"
        /\ UNCHANGED <<record, batch, confirmed>>

\* The confirmation resolver is asked about every ready node that needs a
\* confirmation, again in every round; yes are those it confirms.  Those that
\* are not released are recorded as blocked.
Gate(blocked, yes) ==
    LET ready == Ready(Pending \ blocked)
        held == {n \in ready : ~Released(n, yes)}
    IN  /\ ready # {}
        /\ yes \subseteq {n \in ready : plan.confirms[n]}
        /\ record' = Recorded(blocked \cup held, Blocked)
        /\ confirmed' = (confirmed \ ready) \cup yes

Passed(blocked, yes) == {n \in Ready(Pending \ blocked) : Released(n, yes)}

Hold ==
    \E blocked \in SUBSET Pending :
        /\ Round(blocked)
        /\ \E yes \in SUBSET Pending :
             /\ Gate(blocked, yes)
             /\ Passed(blocked, yes) = {}
        /\ UNCHANGED <<round, batch>>

Schedule ==
    \E blocked \in SUBSET Pending :
        /\ Round(blocked)
        /\ \E yes \in SUBSET Pending :
             /\ Gate(blocked, yes)
             /\ Passed(blocked, yes) # {}
             /\ batch' = Batch(Passed(blocked, yes))
        /\ round' = "run"

\* _execute_batch returns when every future has.
Join ==
    /\ round = "run"
    /\ batch \cap Pending = {}
    /\ round' = "look"
    /\ batch' = {}
    /\ UNCHANGED <<plan, record, running, dispatched, confirmed, turnCancelled>>

-----------------------------------------------------------------------------
(* A node of the batch, in its thread.                                     *)

Waiting(n) == round = "run" /\ n \in (batch \cap Pending) \ running

\* TurnCancelledError: of a node that was not started, of a read under way, or
\* of a mutation whose handler was not submitted yet.
Abandon(n) ==
    /\ Waiting(n) \/ n \in running
    /\ turnCancelled
    /\ record' = [record EXCEPT ![n] = Outcome("cancelled")]
    /\ running' = running \ {n}
    /\ UNCHANGED <<plan, round, batch, dispatched, confirmed, turnCancelled>>

Dispatch(n) ==
    /\ Waiting(n)
    /\ ~turnCancelled
    /\ running' = running \cup {n}
    /\ dispatched' = dispatched \cup {n}
    /\ UNCHANGED <<plan, round, record, batch, confirmed, turnCancelled>>

\* The record of what the dispatcher returned: a completion that is not
\* verified does not do for a mutation, nor where verification is required.
RecordOf(n, state) ==
    IF state = "completed" /\ (plan.operation[n] = "mutation" \/ plan.verifies[n])
    THEN Outcome("unverified")
    ELSE Outcome(state)

Return(n) ==
    /\ n \in running
    /\ \E state \in States \ {"cancelled"} : record' = [record EXCEPT ![n] = RecordOf(n, state)]
    /\ running' = running \ {n}
    /\ UNCHANGED <<plan, round, batch, dispatched, confirmed, turnCancelled>>

\* _failed_record: the dispatcher raised.
Raise(n) ==
    /\ n \in running
    /\ record' = [record EXCEPT ![n] = [state |-> "failed", blocked |-> TRUE]]
    /\ running' = running \ {n}
    /\ UNCHANGED <<plan, round, batch, dispatched, confirmed, turnCancelled>>

CancelTurn ==
    /\ ~turnCancelled
    /\ round \in {"look", "run"}
    /\ turnCancelled' = TRUE
    /\ UNCHANGED <<plan, round, record, batch, running, dispatched, confirmed>>

-----------------------------------------------------------------------------
Scheduler ==
    \/ SeeCancelled \/ Complete \/ AllBlocked \/ NoProgress \/ Hold \/ Schedule \/ Join

Node(n) == Abandon(n) \/ Dispatch(n) \/ Return(n) \/ Raise(n)

GraphNext == Scheduler \/ (\E n \in Nodes : Node(n)) \/ CancelTurn

GraphSpec == GraphInit /\ [][GraphNext]_graphVars

\* The scheduler and its threads run, and the dispatcher answers.
GraphFairSpec ==
    /\ GraphSpec
    /\ WF_graphVars(Scheduler)
    /\ \A n \in Nodes : WF_graphVars(Node(n))

-----------------------------------------------------------------------------
(* Properties.                                                             *)

\* Nothing runs beside a mutation, nor beside a read whose resources it may
\* touch: by what is known of the tools, whatever the plan says.
NoConflictingOverlap ==
    \A m, n \in running :
        m # n => /\ plan.canonical[m] = "read"
                 /\ plan.keys[m] # {} /\ plan.keys[m] \cap plan.keys[n] = {}
                 /\ Wildcard \notin plan.keys[m]

\* Whatever was handed to the dispatcher was released, and all it depends on
\* had succeeded; what succeeded does not change any more.
SafeToStart ==
    \A n \in dispatched :
        /\ Released(n, confirmed)
        /\ \A d \in plan.deps[n] : Succeeded(d) /\ d \in dispatched

\* A failure reaches no further than it must: at the end, every node that was
\* not started was not released, or depends on one that did not succeed.
OnlyUnsafeSkipped ==
    (round = "done" /\ ~turnCancelled) =>
        \A n \in Nodes \ dispatched :
            \/ ~Released(n, confirmed)
            \/ \E d \in plan.deps[n] : ~Succeeded(d)

\* Once the turn is cancelled nothing starts any more, though a batch may just
\* have been chosen; what runs is still recorded as what it was.
NothingStartsCancelled == [][turnCancelled => running' \subseteq running]_graphVars

\* A plan that lists every node after what it depends on.
Ordered == \A n \in Nodes : plan.deps[n] \subseteq 1..(n - 1)

\* Every such plan ends, with a record of each of its nodes.
EveryNodeSettles == []<>(Ordered => round = "done" /\ Pending = {})

\* graph_executor.py:93 a validated graph makes progress.
ValidatedGraphProgresses == round # "stuck"
=============================================================================

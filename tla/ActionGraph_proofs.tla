------------------------- MODULE ActionGraph_proofs -------------------------
(***************************************************************************)
(* Proofs about ActionGraph, for any set of plans and any limit: reads     *)
(* overlap only where they may, whatever is started was released and had   *)
(* what it depends on, and a plan in dependency order makes progress.      *)
(***************************************************************************)
EXTENDS ActionGraph, TLAPS, WellFoundedInduction

-----------------------------------------------------------------------------
(* The inductive invariant.                                                *)

Idle == round # "run" => batch = {}

UnderWay == \A n \in running : record[n] = NoRecord /\ n \in dispatched

Accounted == \A n \in dispatched : record[n] # NoRecord \/ n \in running

Ran == \A n \in Nodes : Succeeded(n) => n \in dispatched

Supported(n) ==
    /\ Released(n, confirmed)
    /\ \A d \in plan.deps[n] : Succeeded(d) /\ d \in dispatched

Chosen == \A n \in batch : Supported(n)

Together == \A m, n \in batch : m # n => Compatible(m, n)

Inv ==
    /\ GraphTypeOK
    /\ Idle
    /\ UnderWay
    /\ Accounted
    /\ Ran
    /\ Chosen
    /\ Together
    /\ SafeToStart

LEMMA PlanTyped ==
    ASSUME GraphTypeOK, NEW n \in Nodes
    PROVE  /\ plan \in PlanType
           /\ plan.deps[n] \subseteq Nodes
           /\ plan.operation[n] \in Operations
           /\ plan.keys[n] \subseteq Resources \cup {Wildcard}
BY GraphAssumption DEF GraphTypeOK, PlanType

LEMMA InitInv == GraphInit => Inv
<1> SUFFICES ASSUME GraphInit PROVE Inv
  OBVIOUS
<1>1. GraphTypeOK
  BY DEF GraphInit, GraphTypeOK
<1>2. Idle /\ UnderWay /\ Accounted /\ Ran /\ Chosen /\ Together /\ SafeToStart
  BY DEF GraphInit, Idle, UnderWay, Accounted, Ran, Chosen, Together, SafeToStart, Succeeded
<1> QED
  BY <1>1, <1>2 DEF Inv

-----------------------------------------------------------------------------
(* What a step does to the records.                                        *)

\* The scheduler marks nodes that have no record yet.
Marks ==
    \E nodes \in SUBSET Pending, what \in Records :
        /\ record' = Recorded(nodes, what)
        /\ what.blocked \/ what.state = "cancelled"

LEMMA BlockedIsRecord ==
    /\ Blocked \in Records /\ Blocked.blocked
    /\ Outcome("cancelled") \in Records /\ Outcome("cancelled").state = "cancelled"
    /\ \A state \in States : Outcome(state) \in Records
BY DEF Blocked, Outcome, Records, States

LEMMA GateMarks ==
    ASSUME NEW blocked \in SUBSET Pending, NEW yes \in SUBSET Pending, Gate(blocked, yes)
    PROVE  Marks
<1> DEFINE ready == Ready(Pending \ blocked)
           held == {n \in ready : ~Released(n, yes)}
<1>1. blocked \cup held \in SUBSET Pending
  BY DEF Ready
<1>2. record' = Recorded(blocked \cup held, Blocked)
  BY DEF Gate
<1> QED
  BY <1>1, <1>2, BlockedIsRecord DEF Marks

\* Forms of a step, by what becomes of the records.
LEMMA Forms ==
    ASSUME GraphTypeOK, [GraphNext]_graphVars
    PROVE  /\ plan' = plan
           /\ dispatched \subseteq dispatched'
           /\ \/ Marks /\ round = "look" /\ UNCHANGED <<running, dispatched>>
              \/ record' = record /\ running' = running
              \/ \E n \in Nodes : Dispatch(n)
              \/ \E n \in Nodes : Abandon(n) \/ Return(n) \/ Raise(n)
<1>1. CASE SeeCancelled
  BY <1>1, BlockedIsRecord DEF SeeCancelled, Marks
<1>2. CASE Complete \/ Join \/ CancelTurn \/ UNCHANGED graphVars
  BY <1>2 DEF Complete, Join, CancelTurn, graphVars
<1>3. CASE AllBlocked
  BY <1>3, BlockedIsRecord DEF AllBlocked, Round, Marks
<1>4. CASE NoProgress
  BY <1>4 DEF NoProgress, Round
<1>5. CASE Hold \/ Schedule
  <2>1. PICK blocked \in SUBSET Pending, yes \in SUBSET Pending :
          Round(blocked) /\ Gate(blocked, yes)
    BY <1>5 DEF Hold, Schedule
  <2> QED
    BY <2>1, GateMarks DEF Round
<1>6. ASSUME NEW n \in Nodes, Node(n)
      PROVE  /\ plan' = plan
             /\ dispatched \subseteq dispatched'
             /\ Abandon(n) \/ Dispatch(n) \/ Return(n) \/ Raise(n)
  BY <1>6 DEF Node, Abandon, Dispatch, Return, Raise
<1> QED
  BY <1>1, <1>2, <1>3, <1>4, <1>5, <1>6 DEF GraphNext, Scheduler

\* A node that ends leaves the others as they are.
LEMMA Ends ==
    ASSUME GraphTypeOK, NEW n \in Nodes, Abandon(n) \/ Return(n) \/ Raise(n)
    PROVE  /\ record[n] = NoRecord => n \in batch
           /\ running' = running \ {n}
           /\ \E what \in Records :
                /\ record' = [record EXCEPT ![n] = what]
                /\ n \in running \/ what.state = "cancelled"
           /\ UNCHANGED <<plan, round, batch, dispatched, confirmed>>
<1>1. CASE Abandon(n)
  BY <1>1, BlockedIsRecord DEF Abandon, Waiting, GraphTypeOK
<1>2. CASE Return(n)
  <2>1. PICK state \in States \ {"cancelled"} :
          record' = [record EXCEPT ![n] = RecordOf(n, state)]
    BY <1>2 DEF Return
  <2>2. "unverified" \in States
    BY DEF States
  <2>3. RecordOf(n, state) \in Records
    BY <2>2, BlockedIsRecord DEF RecordOf
  <2> QED
    BY <1>2, <2>1, <2>3 DEF Return, GraphTypeOK
<1>3. CASE Raise(n)
  <2>1. [state |-> "failed", blocked |-> TRUE] \in Records
    BY DEF Records, States
  <2> QED
    BY <1>3, <2>1 DEF Raise, GraphTypeOK
<1> QED
  BY <1>1, <1>2, <1>3

\* Records are written once, and only what runs may come to succeed.
LEMMA RecordsPersist ==
    ASSUME GraphTypeOK, UnderWay, [GraphNext]_graphVars, NEW n \in Nodes
    PROVE  /\ record[n] # NoRecord => record'[n] = record[n]
           /\ Succeeded(n)' => Succeeded(n) \/ n \in running
           /\ Succeeded(n) => Succeeded(n)'
<1>0. plan' = plan
  BY Forms
<1>1. CASE Marks
  <2>1. PICK nodes \in SUBSET Pending, what \in Records :
          /\ record' = Recorded(nodes, what)
          /\ what.blocked \/ what.state = "cancelled"
    BY <1>1 DEF Marks
  <2>2. record'[n] = IF n \in nodes THEN what ELSE record[n]
    BY <2>1 DEF Recorded
  <2>3. n \in nodes => record[n] = NoRecord
    BY DEF Pending
  <2> QED
    BY <1>0, <2>1, <2>2, <2>3 DEF Succeeded
<1>2. CASE record' = record
  BY <1>0, <1>2 DEF Succeeded
<1>3. CASE \E m \in Nodes : Abandon(m) \/ Return(m) \/ Raise(m)
  <2>1. PICK m \in Nodes : Abandon(m) \/ Return(m) \/ Raise(m)
    BY <1>3
  <2>2. record[m] = NoRecord
    BY <2>1 DEF Abandon, Return, Raise, Waiting, Pending, UnderWay
  <2>3. PICK what \in Records :
          /\ record' = [record EXCEPT ![m] = what]
          /\ m \in running \/ what.state = "cancelled"
    BY <2>1, Ends
  <2>4. record'[n] = IF n = m THEN what ELSE record[n]
    BY <2>3 DEF GraphTypeOK
  <2> QED
    BY <1>0, <2>2, <2>3, <2>4 DEF Succeeded
<1>4. CASE \E m \in Nodes : Dispatch(m)
  BY <1>0, <1>4 DEF Dispatch, Succeeded
<1> QED
  BY <1>1, <1>2, <1>3, <1>4, Forms

-----------------------------------------------------------------------------
(* Types.                                                                  *)

LEMMA BatchReady ==
    ASSUME NEW ready, NEW n \in Batch(ready)
    PROVE  n \in ready
BY DEF Batch

LEMMA TypesStep ==
    ASSUME GraphTypeOK, Idle, UnderWay, [GraphNext]_graphVars
    PROVE  GraphTypeOK'
<1>1. CASE Complete \/ NoProgress \/ CancelTurn \/ UNCHANGED graphVars
  BY <1>1 DEF Complete, NoProgress, Round, CancelTurn, graphVars, GraphTypeOK
<1>2. CASE SeeCancelled
  BY <1>2, BlockedIsRecord DEF SeeCancelled, Recorded, GraphTypeOK
<1>3. CASE AllBlocked
  BY <1>3, BlockedIsRecord DEF AllBlocked, Round, Recorded, GraphTypeOK
<1>4. CASE Hold \/ Schedule
  <2>1. PICK blocked \in SUBSET Pending, yes \in SUBSET Pending :
          /\ Round(blocked) /\ Gate(blocked, yes)
          /\ \/ round' = round /\ batch' = batch
             \/ round' = "run" /\ batch' = Batch(Passed(blocked, yes))
    BY <1>4 DEF Hold, Schedule
  <2>2. record' \in [Nodes -> Records \cup {NoRecord}]
    BY <2>1, BlockedIsRecord DEF Gate, Recorded, GraphTypeOK
  <2>3. confirmed' \subseteq Nodes
    BY <2>1 DEF Gate, Pending, GraphTypeOK
  <2>4. batch' \subseteq Nodes
    BY <2>1, BatchReady DEF Passed, Ready, Pending, GraphTypeOK
  <2>5. running = {}
    BY <2>1 DEF Round, Idle, GraphTypeOK
  <2> QED
    BY <2>1, <2>2, <2>3, <2>4, <2>5 DEF Round, GraphTypeOK
<1>5. CASE Join
  <2>1. running = {}
    BY <1>5 DEF Join, Pending, UnderWay, GraphTypeOK
  <2> QED
    BY <1>5, <2>1 DEF Join, GraphTypeOK
<1>6. ASSUME NEW n \in Nodes, Dispatch(n) PROVE GraphTypeOK'
  BY <1>6 DEF Dispatch, Waiting, GraphTypeOK
<1>7. ASSUME NEW n \in Nodes, Abandon(n) \/ Return(n) \/ Raise(n) PROVE GraphTypeOK'
  <2>1. turnCancelled' = turnCancelled
    BY <1>7 DEF Abandon, Return, Raise
  <2> QED
    BY <1>7, <2>1, Ends DEF GraphTypeOK
<1> QED
  BY <1>1, <1>2, <1>3, <1>4, <1>5, <1>6, <1>7 DEF GraphNext, Scheduler, Node

-----------------------------------------------------------------------------
(* A batch.                                                                *)

\* Any two nodes of a batch may be read together: the larger of the two
\* prefixes they come from holds both.
LEMMA BatchCompatible ==
    ASSUME NEW ready \in SUBSET Nodes, NEW m \in Batch(ready), NEW n \in Batch(ready), m # n
    PROVE  Compatible(m, n)
<1> DEFINE Prefix(run) ==
        /\ run \subseteq ready
        /\ \A y \in run, x \in ready : x < y => x \in run
        /\ \A x, y \in run : x # y => Compatible(x, y)
<1>1. m \in ready /\ n \in ready /\ ready \subseteq Nat
  BY BatchReady DEF Nodes
<1>2. ASSUME NEW x \in Batch(ready)
      PROVE  (\A y \in ready : x <= y) \/ (\E run : Prefix(run) /\ x \in run)
  BY <1>2 DEF Batch
<1>3. ASSUME NEW run, Prefix(run), NEW x \in run, NEW y \in ready, y < x, x # y
      PROVE  Compatible(x, y) /\ Compatible(y, x)
  BY <1>3
<1>4. CASE m < n
  <2>1. ~(\A y \in ready : n <= y)
    BY <1>1, <1>4
  <2> QED
    BY <1>1, <1>2, <1>3, <1>4, <2>1
<1>5. CASE n < m
  <2>1. ~(\A y \in ready : m <= y)
    BY <1>1, <1>5
  <2> QED
    BY <1>1, <1>2, <1>3, <1>5, <2>1
<1> QED
  BY <1>1, <1>4, <1>5

\* What is chosen is released by the last answer, and what it depends on has
\* succeeded.
LEMMA ChosenAtSchedule ==
    ASSUME Inv, Schedule
    PROVE  /\ \A n \in batch' : n \in Nodes /\ Supported(n)'
           /\ Together'
<1>1. PICK blocked \in SUBSET Pending, yes \in SUBSET Pending :
        /\ Round(blocked) /\ Gate(blocked, yes)
        /\ batch' = Batch(Passed(blocked, yes))
  BY DEF Schedule
<1>2. Passed(blocked, yes) \in SUBSET Nodes /\ plan' = plan /\ dispatched' = dispatched
  BY <1>1 DEF Passed, Ready, Pending, Round
<1>3. ASSUME NEW n \in batch' PROVE n \in Nodes /\ Supported(n)'
  <2>1. n \in Passed(blocked, yes)
    BY <1>1, <1>3, BatchReady
  <2>2. n \in Nodes /\ Released(n, yes) /\ \A d \in plan.deps[n] : Succeeded(d)
    BY <2>1 DEF Passed, Ready, Pending
  <2>3. yes \subseteq confirmed'
    BY <1>1 DEF Gate
  <2>4. Released(n, confirmed)'
    BY <1>2, <2>2, <2>3 DEF Released
  <2>5. ASSUME NEW d \in plan.deps[n] PROVE Succeeded(d)' /\ d \in dispatched'
    <3>1. d \in Nodes /\ Succeeded(d)
      BY <2>2, <2>5, PlanTyped DEF Inv
    <3>2. [GraphNext]_graphVars
      BY DEF GraphNext, Scheduler
    <3> QED
      BY <1>2, <3>1, <3>2, RecordsPersist DEF Inv, Ran
  <2> QED
    BY <1>2, <2>2, <2>4, <2>5 DEF Supported
<1>4. Together'
  <2> SUFFICES ASSUME NEW m \in batch', NEW n \in batch', m # n
              PROVE  Compatible(m, n)'
    BY DEF Together
  <2>1. Compatible(m, n)
    BY <1>1, <1>2, BatchCompatible
  <2> QED
    BY <1>2, <2>1 DEF Compatible, Claims
<1> QED
  BY <1>3, <1>4

-----------------------------------------------------------------------------
(* The invariant is kept.                                                  *)

\* Otherwise the batch shrinks at most, and a confirmation is only revised of
\* a node that has no record, while nothing runs.
LEMMA Otherwise ==
    ASSUME Inv, [GraphNext]_graphVars, ~Schedule
    PROVE  /\ batch' \subseteq batch
           /\ \/ confirmed' = confirmed
              \/ /\ round = "look"
                 /\ \A n \in Nodes : record[n] # NoRecord /\ n \in confirmed => n \in confirmed'
<1>1. CASE Hold
  <2>1. PICK blocked \in SUBSET Pending, yes \in SUBSET Pending :
          Round(blocked) /\ Gate(blocked, yes)
    BY <1>1 DEF Hold
  <2>2. \A n \in Ready(Pending \ blocked) : record[n] = NoRecord
    BY DEF Ready, Pending
  <2>3. confirmed' = (confirmed \ Ready(Pending \ blocked)) \cup yes
    BY <2>1 DEF Gate
  <2> QED
    BY <1>1, <2>1, <2>2, <2>3 DEF Hold, Round
<1>2. CASE SeeCancelled \/ Complete \/ AllBlocked \/ NoProgress \/ Join \/ CancelTurn \/ UNCHANGED graphVars
  BY <1>2 DEF SeeCancelled, Complete, AllBlocked, NoProgress, Join, CancelTurn, Round, graphVars
<1>3. ASSUME NEW n \in Nodes, Node(n) PROVE batch' = batch /\ confirmed' = confirmed
  BY <1>3 DEF Node, Abandon, Dispatch, Return, Raise
<1> QED
  BY <1>1, <1>2, <1>3 DEF GraphNext, Scheduler

LEMMA StillSupported ==
    ASSUME Inv, [GraphNext]_graphVars, ~Schedule, NEW n \in Nodes, Supported(n),
           record[n] # NoRecord \/ round = "run"
    PROVE  Supported(n)'
<1>0. plan' = plan /\ dispatched \subseteq dispatched'
  BY Forms DEF Inv
<1>1. n \in confirmed => n \in confirmed'
  BY Otherwise
<1>2. Released(n, confirmed)'
  BY <1>0, <1>1 DEF Supported, Released
<1>3. ASSUME NEW d \in plan.deps[n] PROVE Succeeded(d)' /\ d \in dispatched'
  <2>1. d \in Nodes
    BY <1>3, PlanTyped DEF Inv
  <2> QED
    BY <1>0, <1>3, <2>1, RecordsPersist DEF Inv, Supported
<1> QED
  BY <1>0, <1>2, <1>3 DEF Supported

LEMMA ChosenStep ==
    ASSUME Inv, [GraphNext]_graphVars
    PROVE  Chosen' /\ Together'
<1>1. CASE Schedule
  BY <1>1, ChosenAtSchedule DEF Chosen
<1>2. CASE ~Schedule
  <2>0. plan' = plan /\ batch' \subseteq batch /\ batch \subseteq Nodes
    BY <1>2, Forms, Otherwise DEF Inv, GraphTypeOK
  <2>1. ASSUME NEW n \in batch' PROVE Supported(n)'
    <3>1. n \in batch /\ n \in Nodes /\ round = "run"
      BY <2>0, <2>1 DEF Inv, Idle
    <3> QED
      BY <1>2, <3>1, StillSupported DEF Inv, Chosen
  <2>2. Together'
    BY <2>0 DEF Inv, Together, Compatible, Claims
  <2> QED
    BY <2>1, <2>2 DEF Chosen
<1> QED
  BY <1>1, <1>2

\* What a step does to what runs and what was dispatched.
LEMMA RunningStep ==
    ASSUME Inv, [GraphNext]_graphVars
    PROVE  /\ UnderWay' /\ Accounted' /\ Ran'
           /\ dispatched' \subseteq dispatched \cup batch
<1>0. \A n \in Nodes : /\ record[n] # NoRecord => record'[n] = record[n]
                       /\ Succeeded(n)' => Succeeded(n) \/ n \in running
  BY RecordsPersist DEF Inv
<1>1. dispatched \subseteq dispatched' /\ running \subseteq dispatched
  BY Forms DEF Inv, UnderWay
<1>2. Ran'
  <2> SUFFICES ASSUME NEW n \in Nodes, Succeeded(n)' PROVE n \in dispatched'
    BY DEF Ran
  <2> QED
    BY <1>0, <1>1 DEF Inv, Ran
<1>3. CASE Marks /\ round = "look" /\ UNCHANGED <<running, dispatched>>
  <2>1. running = {}
    BY <1>3 DEF Inv, Idle, GraphTypeOK
  <2> QED
    BY <1>0, <1>2, <1>3, <2>1 DEF Inv, UnderWay, Accounted, GraphTypeOK
<1>4. CASE record' = record /\ running' = running /\ dispatched' = dispatched
  BY <1>2, <1>4 DEF Inv, UnderWay, Accounted
<1>5. CASE \E n \in Nodes : Dispatch(n)
  <2>1. PICK n \in Nodes : Dispatch(n)
    BY <1>5
  <2>2. /\ record' = record /\ record[n] = NoRecord /\ n \in batch
        /\ running' = running \cup {n} /\ dispatched' = dispatched \cup {n}
    BY <2>1 DEF Dispatch, Waiting, Pending
  <2> QED
    BY <1>2, <2>2 DEF Inv, UnderWay, Accounted
<1>6. CASE \E n \in Nodes : Abandon(n) \/ Return(n) \/ Raise(n)
  <2>1. PICK n \in Nodes : Abandon(n) \/ Return(n) \/ Raise(n)
    BY <1>6
  <2>2. PICK what \in Records : record' = [record EXCEPT ![n] = what]
    BY <2>1, Ends DEF Inv
  <2>3. running' = running \ {n} /\ dispatched' = dispatched
    BY <2>1, Ends DEF Inv
  <2>4. \A m \in Nodes : record'[m] = IF m = n THEN what ELSE record[m]
    BY <2>2 DEF Inv, GraphTypeOK
  <2>5. what # NoRecord /\ running \subseteq Nodes /\ dispatched \subseteq Nodes
    BY GraphAssumption DEF Inv, GraphTypeOK
  <2> QED
    BY <1>2, <2>3, <2>4, <2>5 DEF Inv, UnderWay, Accounted
<1>7. dispatched' = dispatched \/ \E n \in Nodes : Dispatch(n)
  <2>1. ASSUME NEW n \in Nodes, Node(n), ~Dispatch(n) PROVE dispatched' = dispatched
    BY <2>1 DEF Node, Abandon, Return, Raise
  <2>2. CASE Scheduler \/ CancelTurn \/ UNCHANGED graphVars
    BY <2>2 DEF Scheduler, SeeCancelled, Complete, AllBlocked, NoProgress, Hold, Schedule,
                Join, Round, CancelTurn, graphVars
  <2> QED
    BY <2>1, <2>2 DEF GraphNext
<1> QED
  BY <1>3, <1>4, <1>5, <1>6, <1>7, Forms DEF Inv

LEMMA SafeStep ==
    ASSUME Inv, [GraphNext]_graphVars
    PROVE  SafeToStart'
<1> SUFFICES ASSUME NEW n \in dispatched' PROVE Supported(n)'
  BY DEF SafeToStart, Supported
<1>1. n \in Nodes /\ n \in dispatched \cup batch
  BY RunningStep DEF Inv, GraphTypeOK
<1>2. Supported(n)
  BY <1>1 DEF Inv, SafeToStart, Chosen, Supported
<1>3. record[n] # NoRecord \/ round = "run"
  BY <1>1 DEF Inv, Accounted, Idle, GraphTypeOK
<1>4. CASE ~Schedule
  BY <1>1, <1>2, <1>3, <1>4, StillSupported
<1>5. CASE Schedule
  <2>1. PICK blocked \in SUBSET Pending, yes \in SUBSET Pending :
          Round(blocked) /\ Gate(blocked, yes)
    BY <1>5 DEF Schedule
  <2>2. record[n] # NoRecord
    BY <1>3, <2>1 DEF Round
  <2>3. n \notin Ready(Pending \ blocked)
    BY <2>2 DEF Ready, Pending
  <2>4. n \in confirmed => n \in confirmed'
    BY <2>1, <2>3 DEF Gate
  <2>5. plan' = plan /\ dispatched' = dispatched
    BY <2>1 DEF Round
  <2>6. ASSUME NEW d \in plan.deps[n] PROVE Succeeded(d)' /\ d \in dispatched'
    <3>1. d \in Nodes
      BY <1>1, <2>6, PlanTyped DEF Inv
    <3> QED
      BY <1>2, <2>5, <2>6, <3>1, RecordsPersist DEF Inv, Supported
  <2> QED
    BY <1>2, <2>4, <2>5, <2>6 DEF Supported, Released
<1> QED
  BY <1>4, <1>5

LEMMA InvStep ==
    ASSUME Inv, [GraphNext]_graphVars
    PROVE  Inv'
<1>1. GraphTypeOK'
  BY TypesStep DEF Inv
<1>2. Idle'
  <2>1. ASSUME NEW n \in Nodes, Node(n) PROVE round' = round /\ batch' = batch
    BY <2>1 DEF Node, Abandon, Dispatch, Return, Raise
  <2>2. CASE Scheduler \/ CancelTurn \/ UNCHANGED graphVars
    BY <2>2 DEF Scheduler, SeeCancelled, Complete, AllBlocked, NoProgress, Hold, Schedule,
                Join, Round, CancelTurn, graphVars, Inv, Idle
  <2> QED
    BY <2>1, <2>2 DEF GraphNext, Inv, Idle
<1>3. UnderWay' /\ Accounted' /\ Ran'
  BY RunningStep
<1>4. Chosen' /\ Together'
  BY ChosenStep
<1>5. SafeToStart'
  BY SafeStep
<1> QED
  BY <1>1, <1>2, <1>3, <1>4, <1>5 DEF Inv

LEMMA Invariant == GraphSpec => []Inv
<1>1. Inv /\ [GraphNext]_graphVars => Inv'
  BY InvStep
<1> QED
  BY <1>1, InitInv, PTL DEF GraphSpec

-----------------------------------------------------------------------------
(* The theorems.                                                           *)

\* Every variable of the executor keeps its type; in particular no thread is
\* left running when a batch was joined.
THEOREM GraphTypesHold == GraphSpec => []GraphTypeOK
<1>1. Inv => GraphTypeOK
  BY DEF Inv
<1> QED
  BY <1>1, Invariant, PTL

\* Whatever the plan claims, no two dispatches overlap unless both are reads by
\* what is known of the tools, of resources they name and do not share.
THEOREM ReadsOverlapSafely == GraphSpec => []NoConflictingOverlap
<1>1. Inv => NoConflictingOverlap
  <2> SUFFICES ASSUME Inv, NEW m \in running, NEW n \in running, m # n
              PROVE  /\ plan.canonical[m] = "read"
                     /\ plan.keys[m] # {} /\ plan.keys[m] \cap plan.keys[n] = {}
                     /\ Wildcard \notin plan.keys[m]
    BY DEF NoConflictingOverlap
  <2>1. m \in batch /\ n \in batch
    BY DEF Inv, GraphTypeOK
  <2>2. Compatible(m, n) /\ Released(m, confirmed)
    BY <2>1 DEF Inv, Together, Chosen, Supported
  <2>3. Claims(m) = plan.keys[m] /\ Claims(n) = plan.keys[n]
    BY <2>2 DEF Compatible, Claims
  <2>4. plan.keys[m] # {}
    BY <2>2 DEF Compatible, Claims
  <2> QED
    BY <2>2, <2>3, <2>4 DEF Compatible, Released
<1> QED
  BY <1>1, Invariant, PTL

\* No action is started unless it was authorized, confirmed by the last answer
\* and of the operation it claims, and all it depends on has succeeded.
THEOREM StartedSafely == GraphSpec => []SafeToStart
<1>1. Inv => SafeToStart
  BY DEF Inv
<1> QED
  BY <1>1, Invariant, PTL

\* The first node, in the order of the plan, of a set of nodes.
LEMMA FirstNode ==
    ASSUME NEW nodes \in SUBSET Nodes, nodes # {}
    PROVE  \E n \in nodes : \A m \in nodes : n <= m
<1>1. nodes \subseteq Nat
  BY DEF Nodes
<1>2. PICK n \in nodes : \A m \in nodes : ~(<<m, n>> \in OpToRel(<, Nat))
  BY <1>1, WFMin, NatLessThanWellFounded
<1>3. ASSUME NEW m \in nodes PROVE ~(m < n)
  BY <1>1, <1>2, <1>3 DEF OpToRel
<1> QED
  BY <1>1, <1>3

\* A plan whose nodes come after what they depend on never gets stuck.
LEMMA OrderedMoves ==
    ASSUME Inv, Ordered
    PROVE  ~NoProgress
<1> SUFFICES ASSUME NoProgress PROVE FALSE
  OBVIOUS
<1>1. PICK blocked \in SUBSET Pending :
        /\ Round(blocked)
        /\ Pending \ blocked # {} /\ Ready(Pending \ blocked) = {}
  BY DEF NoProgress
<1>2. Pending \ blocked \subseteq Nodes
  BY DEF Pending
<1>3. PICK n \in Pending \ blocked : \A m \in Pending \ blocked : n <= m
  BY <1>1, <1>2, FirstNode
<1>4. ASSUME NEW d \in plan.deps[n] PROVE Succeeded(d)
  <2>1. n \in Nodes /\ d \in Nodes /\ d \in 1..(n - 1)
    BY <1>2, <1>3, <1>4, PlanTyped DEF Ordered, Inv
  <2>2. n \in Nat /\ d \in Nat /\ d < n
    BY <2>1 DEF Nodes
  <2>3. d \notin Pending \ blocked
    BY <1>3, <2>2
  <2>4. ~Unsuccessful(d) /\ d \notin blocked
    BY <1>1, <1>3, <1>4, <2>2 DEF Round, BlockedInPass
  <2> QED
    BY <2>1, <2>3, <2>4 DEF Pending, Unsuccessful
<1>5. n \in Ready(Pending \ blocked)
  BY <1>3, <1>4 DEF Ready
<1> QED
  BY <1>1, <1>5

\* The scheduler's last error cannot occur for a plan in dependency order.
THEOREM OrderedPlansProgress == GraphSpec => [](Ordered => ValidatedGraphProgresses)
<1> DEFINE Moves == Ordered => ValidatedGraphProgresses
<1>1. GraphInit => Moves
  BY DEF GraphInit, ValidatedGraphProgresses
<1>2. Inv /\ Moves /\ [GraphNext]_graphVars => Moves'
  <2> SUFFICES ASSUME Inv, Moves, [GraphNext]_graphVars, Ordered' PROVE round' # "stuck"
    BY DEF ValidatedGraphProgresses
  <2>1. Ordered
    BY Forms DEF Inv, Ordered
  <2>2. round # "stuck" /\ ~NoProgress
    BY <2>1, OrderedMoves DEF ValidatedGraphProgresses
  <2>3. ASSUME NEW n \in Nodes, Node(n) PROVE round' = round
    BY <2>3 DEF Node, Abandon, Dispatch, Return, Raise
  <2>4. CASE Scheduler \/ CancelTurn \/ UNCHANGED graphVars
    BY <2>2, <2>4 DEF Scheduler, SeeCancelled, Complete, AllBlocked, Hold, Schedule, Join, CancelTurn, graphVars
  <2> QED
    BY <2>2, <2>3, <2>4 DEF GraphNext
<1> QED
  BY <1>1, <1>2, Invariant, PTL DEF GraphSpec

-----------------------------------------------------------------------------
(* What was skipped.                                                       *)

\* A node with a record that was not started, in a turn that was not cancelled,
\* was not released or depends on one that did not succeed.
Explained(n) == ~Released(n, confirmed) \/ \E d \in plan.deps[n] : Unsuccessful(d)

Explains ==
    /\ ~turnCancelled =>
         \A n \in Nodes \ dispatched : record[n] # NoRecord => Explained(n)
    /\ round = "done" => Pending = {}

\* An explanation stays one: a record is not written again, nor is the answer
\* about a node that has one asked for again.
LEMMA StillExplained ==
    ASSUME Inv, [GraphNext]_graphVars, NEW n \in Nodes, record[n] # NoRecord, Explained(n),
           n \in confirmed' => n \in confirmed
    PROVE  Explained(n)'
<1>1. plan' = plan
  BY Forms DEF Inv
<1>2. ASSUME NEW d \in plan.deps[n], Unsuccessful(d) PROVE Unsuccessful(d)'
  <2>1. d \in Nodes
    BY <1>2, PlanTyped DEF Inv
  <2> QED
    BY <1>2, <2>1, RecordsPersist, GraphAssumption DEF Inv, UnderWay, Unsuccessful
<1>3. ~Released(n, confirmed) => ~Released(n, confirmed)'
  BY <1>1 DEF Released
<1> QED
  BY <1>1, <1>2, <1>3 DEF Explained

\* What a round marks: the blocked depend on something unsuccessful, now at the
\* latest, and the held are not released.
LEMMA MarkedIsExplained ==
    ASSUME Inv, [GraphNext]_graphVars, NEW blocked \in SUBSET Pending, Round(blocked),
           NEW nodes, record' = Recorded(nodes, Blocked), blocked \subseteq nodes,
           NEW n \in blocked
    PROVE  Explained(n)'
<1>1. n \in Nodes /\ plan' = plan /\ BlockedInPass(blocked)
  BY DEF Pending, Round
<1>2. PICK d \in plan.deps[n] : Unsuccessful(d) \/ d \in blocked
  BY <1>1 DEF BlockedInPass
<1>3. d \in Nodes
  BY <1>1, PlanTyped DEF Inv
<1>4. CASE Unsuccessful(d)
  BY <1>1, <1>3, <1>4, RecordsPersist, GraphAssumption DEF Inv, UnderWay, Unsuccessful, Explained
<1>5. CASE d \in blocked
  <2>1. record'[d] = Blocked
    BY <1>3, <1>5 DEF Recorded
  <2>2. Unsuccessful(d)'
    BY <2>1, BlockedIsRecord, GraphAssumption DEF Unsuccessful, Succeeded
  <2> QED
    BY <1>1, <2>2 DEF Explained
<1> QED
  BY <1>2, <1>4, <1>5

LEMMA GateExplains ==
    ASSUME Inv, [GraphNext]_graphVars, NEW blocked \in SUBSET Pending, Round(blocked),
           NEW yes \in SUBSET Pending, Gate(blocked, yes),
           NEW n \in Nodes, record'[n] # NoRecord, record[n] # NoRecord => Explained(n)
    PROVE  Explained(n)'
<1> DEFINE ready == Ready(Pending \ blocked)
           held == {m \in ready : ~Released(m, yes)}
<1>1. /\ yes \subseteq ready
      /\ record' = Recorded(blocked \cup held, Blocked)
      /\ confirmed' = (confirmed \ ready) \cup yes
      /\ plan' = plan
  BY DEF Gate, Round
<1>2. CASE record[n] # NoRecord
  <2>1. n \notin ready
    BY <1>2 DEF Ready, Pending
  <2> QED
    BY <1>1, <1>2, <2>1, StillExplained
<1>3. CASE n \in blocked
  BY <1>1, <1>3, MarkedIsExplained
<1>4. CASE n \in held
  <2>1. n \in confirmed' => n \in yes
    BY <1>1, <1>4
  <2>2. ~Released(n, confirmed)'
    BY <1>1, <1>4, <2>1 DEF Released
  <2> QED
    BY <2>2 DEF Explained
<1>5. record[n] # NoRecord \/ n \in blocked \cup held
  BY <1>1 DEF Recorded
<1> QED
  BY <1>2, <1>3, <1>4, <1>5

LEMMA ExplainsStep ==
    ASSUME Inv, Explains, [GraphNext]_graphVars
    PROVE  Explains'
<1>1. ASSUME ~turnCancelled', NEW n \in Nodes \ dispatched', record'[n] # NoRecord
      PROVE  Explained(n)'
  <2>1. ~turnCancelled
    <3>1. ASSUME NEW m \in Nodes, Node(m) PROVE turnCancelled' = turnCancelled
      BY <3>1 DEF Node, Abandon, Dispatch, Return, Raise
    <3> QED
      BY <1>1, <3>1 DEF GraphNext, Scheduler, SeeCancelled, Complete, AllBlocked, NoProgress, Hold,
         Schedule, Join, Round, CancelTurn, graphVars
  <2>2. n \notin dispatched /\ (record[n] # NoRecord => Explained(n))
    BY <1>1, <2>1, Forms DEF Inv, Explains
  <2>3. CASE AllBlocked
    <3>1. PICK blocked \in SUBSET Pending :
            /\ Round(blocked)
            /\ record' = Recorded(blocked, Blocked) /\ UNCHANGED confirmed
      BY <2>3 DEF AllBlocked
    <3>2. record[n] # NoRecord \/ n \in blocked
      BY <1>1, <3>1 DEF Recorded
    <3> QED
      BY <2>2, <3>1, <3>2, StillExplained, MarkedIsExplained
  <2>4. CASE Hold \/ Schedule
    <3>1. PICK blocked \in SUBSET Pending, yes \in SUBSET Pending :
            Round(blocked) /\ Gate(blocked, yes)
      BY <2>4 DEF Hold, Schedule
    <3> QED
      BY <1>1, <2>2, <3>1, GateExplains
  <2>5. CASE \E m \in Nodes : Return(m) \/ Raise(m)
    <3>1. PICK m \in Nodes : Return(m) \/ Raise(m)
      BY <2>5
    <3>2. m \in dispatched /\ confirmed' = confirmed
      BY <3>1 DEF Return, Raise, Inv, UnderWay
    <3>3. PICK what \in Records : record' = [record EXCEPT ![m] = what]
      BY <3>1, Ends DEF Inv
    <3>4. record'[n] = record[n]
      BY <2>2, <3>2, <3>3 DEF Inv, GraphTypeOK
    <3> QED
      BY <1>1, <2>2, <3>2, <3>4, StillExplained
  <2>6. CASE record' = record /\ confirmed' = confirmed
    BY <1>1, <2>2, <2>6, StillExplained
  <2>7. \/ AllBlocked \/ Hold \/ Schedule \/ \E m \in Nodes : Return(m) \/ Raise(m)
        \/ record' = record /\ confirmed' = confirmed
    <3>1. ASSUME NEW m \in Nodes, Node(m)
          PROVE  Return(m) \/ Raise(m) \/ (record' = record /\ confirmed' = confirmed)
      BY <2>1, <3>1 DEF Node, Abandon, Dispatch
    <3> QED
      BY <2>1, <3>1 DEF GraphNext, Scheduler, SeeCancelled, Complete, NoProgress, Join, CancelTurn,
         graphVars
  <2> QED
    BY <2>3, <2>4, <2>5, <2>6, <2>7
<1>2. ASSUME round' = "done" PROVE Pending' = {}
  <2>1. \A n \in Nodes : record[n] # NoRecord => record'[n] # NoRecord
    BY RecordsPersist DEF Inv
  <2>2. CASE round = "done"
    BY <2>1, <2>2 DEF Explains, Pending
  <2>3. CASE Complete
    BY <2>1, <2>3 DEF Complete, Pending
  <2>4. CASE SeeCancelled
    BY <2>4, BlockedIsRecord, GraphAssumption DEF SeeCancelled, Recorded, Pending
  <2>5. CASE AllBlocked
    BY <2>5, BlockedIsRecord, GraphAssumption DEF AllBlocked, Recorded, Pending
  <2>6. round = "done" \/ Complete \/ SeeCancelled \/ AllBlocked
    <3>1. ASSUME NEW m \in Nodes, Node(m) PROVE round' = round
      BY <3>1 DEF Node, Abandon, Dispatch, Return, Raise
    <3> QED
      BY <1>2, <3>1 DEF GraphNext, Scheduler, NoProgress, Hold, Schedule, Join, CancelTurn, graphVars
  <2> QED
    BY <2>2, <2>3, <2>4, <2>5, <2>6
<1> QED
  BY <1>1, <1>2 DEF Explains

\* A failure reaches no further than it must: unless the turn was cancelled, at
\* the end every action that was not started was not released, or depends on
\* one that did not succeed.
THEOREM SkippedForCause == GraphSpec => []OnlyUnsafeSkipped
<1>1. GraphInit => Explains
  BY DEF GraphInit, Explains
<1>2. Inv /\ Explains /\ [GraphNext]_graphVars => Explains'
  BY ExplainsStep
<1>3. Inv /\ Explains => OnlyUnsafeSkipped
  BY DEF Explains, OnlyUnsafeSkipped, Explained, Unsuccessful, Pending
<1> QED
  BY <1>1, <1>2, <1>3, Invariant, PTL DEF GraphSpec

=============================================================================

------------------------------ MODULE WarmRuntime ------------------------------
(* The cache of loaded models (rex/runtime/warm.py): speech recognition,      *)
(* speech and language model are loaded on demand within a budget, leased to  *)
(* the thread that uses them and evicted when idle or when another needs the  *)
(* room.  Three locks nest: the use lock of a component, its lifecycle lock,  *)
(* and the manager's, which every step below holds by itself.                 *)
(* No component of the program has an unloader or a fallback.                 *)
EXTENDS Naturals, FiniteSets

CONSTANTS
    Models,         \* registered components
    Cost,           \* estimated_cost_mb, by component
    Budgets,        \* values of max_cost_mb
    Tasks,          \* threads
    Unheld

ASSUME WarmAssumption ==
    /\ IsFiniteSet(Models)
    /\ Cost \in [Models -> Nat] /\ Budgets \subseteq Nat /\ Budgets # {}
    /\ Unheld \notin Tasks \cup Models

VARIABLES
    cached,     \* per component: state ("out" for cold, evicted and error, told apart
                \* in the status report only), ref_count, is its idle time over
    budget,     \* max_cost_mb
    useLock,    \* holder of each use_lock
    lifeLock,   \* holder of each lifecycle_lock
    task        \* what each thread is doing
warmVars == <<cached, budget, useLock, lifeLock, task>>

\* A thread in _evict of `victim` goes on at `back`; `victims` are what
\* evict_idle has still to evict.
AtRest == [pc |-> "idle", op |-> "none", model |-> Unheld, retained |-> FALSE,
           victim |-> Unheld, back |-> "idle", victims |-> {}, wish |-> 0]
TaskAt(t, pc) == task[t].pc = pc
Moves(t, pc) == task' = [task EXCEPT ![t].pc = pc]

WarmInit ==
    /\ cached = [m \in Models |-> [state |-> "out", refs |-> 0, idle |-> FALSE]]
    /\ budget \in Budgets
    /\ useLock = [m \in Models |-> Unheld] /\ lifeLock = [m \in Models |-> Unheld]
    /\ task = [t \in Tasks |-> AtRest]

Resident(m) == cached[m].state = "warm"
Evictable(m) == Resident(m) /\ cached[m].refs = 0

\* The sum of the costs: how many megabytes the components of S have, each a
\* pair of its component and its number there.
Megabytes(S) == UNION {{m} \X (1..Cost[m]) : m \in S}
Total(S) == Cardinality(Megabytes(S))

\* Mutant of Accounted: what is being loaded is not counted yet.
AccountedResident == Total({m \in Models : Resident(m)})

\* _accounted_cost
Accounted == Total({m \in Models : Resident(m) \/ cached[m].state = "loading"})

\* Mutant of Victims: any component that nobody leases, the one to be loaded
\* included.
VictimsUnleased(m) == {n \in Models : cached[n].refs = 0}

\* _lru_evictable_locked; which of them was used least recently is left open.
Victims(m) == {n \in Models \ {m} : Evictable(n)}

-----------------------------------------------------------------------------
(* _evict, as a part of the other operations.                               *)

Evicts(t, v, back) ==
    task' = [task EXCEPT ![t].pc = "evict", ![t].victim = v, ![t].back = back]
EvictDone(t) ==
    task' = [task EXCEPT ![t].pc = task[t].back, ![t].victim = Unheld, ![t].back = "idle"]

\* The count is read before the locks are taken, use lock first,
EvictLeased(t) ==
    /\ TaskAt(t, "evict")
    /\ IF cached[task[t].victim].refs > 0 THEN EvictDone(t) ELSE Moves(t, "evictUse")
    /\ UNCHANGED <<cached, budget, useLock, lifeLock>>

\* Mutant of EvictUse: eviction takes the lifecycle lock only.
EvictWithoutUse(t) ==
    /\ TaskAt(t, "evictUse") /\ Moves(t, "evictLife")
    /\ UNCHANGED <<cached, budget, useLock, lifeLock>>

EvictUse(t) ==
    /\ TaskAt(t, "evictUse") /\ useLock[task[t].victim] = Unheld
    /\ useLock' = [useLock EXCEPT ![task[t].victim] = t] /\ Moves(t, "evictLife")
    /\ UNCHANGED <<cached, budget, lifeLock>>

EvictLife(t) ==
    /\ TaskAt(t, "evictLife") /\ lifeLock[task[t].victim] = Unheld
    /\ lifeLock' = [lifeLock EXCEPT ![task[t].victim] = t] /\ Moves(t, "evictCheck")
    /\ UNCHANGED <<cached, budget, useLock>>

\* and everything is read again under them,
LetGo(locks, m, t) == [locks EXCEPT ![m] = IF @ = t THEN Unheld ELSE @]
StillIdle(t) == task[t].back = "evictIdle" => cached[task[t].victim].idle

EvictCheck(t) ==
    /\ TaskAt(t, "evictCheck")
    /\ LET v == task[t].victim IN
         IF Evictable(v) /\ StillIdle(t) THEN Moves(t, "evictDrop") /\ UNCHANGED <<useLock, lifeLock>>
         ELSE /\ EvictDone(t)
              /\ useLock' = LetGo(useLock, v, t) /\ lifeLock' = LetGo(lifeLock, v, t)
    /\ UNCHANGED <<cached, budget>>

\* before the value is dropped.
EvictDrop(t) ==
    /\ TaskAt(t, "evictDrop")
    /\ LET v == task[t].victim IN
         /\ cached' = [cached EXCEPT ![v].state = "out", ![v].idle = FALSE]
         /\ useLock' = LetGo(useLock, v, t) /\ lifeLock' = LetGo(lifeLock, v, t)
    /\ EvictDone(t)
    /\ UNCHANGED budget

Evict(t) == EvictLeased(t) \/ EvictUse(t) \/ EvictLife(t) \/ EvictCheck(t) \/ EvictDrop(t)

-----------------------------------------------------------------------------
(* acquire and warm (get is not used).                                      *)

\* evict_idle first; its candidates are listed under the lock.
Ask(t, op, m) ==
    /\ TaskAt(t, "idle")
    /\ task' = [task EXCEPT ![t] = [AtRest EXCEPT !.pc = "evictIdle", !.op = op, !.model = m,
                  !.victims = {n \in Models : Evictable(n) /\ cached[n].idle}]]
    /\ UNCHANGED <<cached, budget, useLock, lifeLock>>

EvictIdle(t) ==
    /\ TaskAt(t, "evictIdle")
    /\ IF task[t].victims = {} THEN Moves(t, IF task[t].op = "acquire" THEN "use" ELSE "life")
       ELSE \E v \in task[t].victims :
              task' = [task EXCEPT ![t].pc = "evict", ![t].victim = v, ![t].back = "evictIdle",
                                   ![t].victims = @ \ {v}]
    /\ UNCHANGED <<cached, budget, useLock, lifeLock>>

TakeUse(t) ==
    /\ TaskAt(t, "use") /\ useLock[task[t].model] = Unheld
    /\ useLock' = [useLock EXCEPT ![task[t].model] = t] /\ Moves(t, "life")
    /\ UNCHANGED <<cached, budget, lifeLock>>

TakeLife(t) ==
    /\ TaskAt(t, "life") /\ lifeLock[task[t].model] = Unheld
    /\ lifeLock' = [lifeLock EXCEPT ![task[t].model] = t] /\ Moves(t, "look")
    /\ UNCHANGED <<cached, budget, useLock>>

\* The value is at hand: acquire goes on to its lease, warm returns.
Served(t, own) ==
    /\ task' = [task EXCEPT ![t] = IF @.op = "acquire" THEN [@ EXCEPT !.pc = IF own THEN "leased" ELSE "retain"]
                                   ELSE AtRest]
    /\ lifeLock' = LetGo(lifeLock, task[t].model, t)
\* No room: warm gives up, acquire loads a value of its own.
NoRoom(t) ==
    IF task[t].op = "warm"
    THEN task' = [task EXCEPT ![t] = AtRest] /\ lifeLock' = LetGo(lifeLock, task[t].model, t)
    ELSE Moves(t, "loadOwn") /\ UNCHANGED lifeLock

Look(t) ==
    /\ TaskAt(t, "look")
    /\ LET m == task[t].model IN
         IF Resident(m) THEN Served(t, FALSE) /\ cached' = [cached EXCEPT ![m].idle = FALSE]
         ELSE /\ UNCHANGED cached
              /\ IF Cost[m] > budget THEN NoRoom(t) ELSE Moves(t, "reserve") /\ UNCHANGED lifeLock
    /\ UNCHANGED <<budget, useLock>>

\* _reserve_load: the budget is taken before the load, or a victim is evicted
\* and everything looked at anew.
Reserve(t) ==
    /\ TaskAt(t, "reserve")
    /\ LET m == task[t].model IN
         IF Accounted + Cost[m] <= budget
         THEN /\ cached' = [cached EXCEPT ![m].state = "loading"]
              /\ Moves(t, "load") /\ UNCHANGED lifeLock
         ELSE /\ UNCHANGED cached
              /\ IF Victims(m) = {} THEN NoRoom(t)
                 ELSE \E v \in Victims(m) : Evicts(t, v, "reserve") /\ UNCHANGED lifeLock
    /\ UNCHANGED <<budget, useLock>>

\* The loader returns or raises; a value of one's own is not cached.
Load(t) ==
    /\ task[t].pc \in {"load", "loadOwn"}
    /\ LET m == task[t].model
           own == TaskAt(t, "loadOwn")
       IN  \/ /\ Served(t, own)
              /\ cached' = [cached EXCEPT ![m].state = IF own THEN "out" ELSE "warm", ![m].idle = FALSE]
              /\ UNCHANGED useLock
           \/ /\ cached' = [cached EXCEPT ![m].state = "out"]
              /\ task' = [task EXCEPT ![t] = AtRest]
              /\ lifeLock' = LetGo(lifeLock, m, t) /\ useLock' = LetGo(useLock, m, t)
    /\ UNCHANGED budget

\* The lease of the cached value is counted.
Retain(t) ==
    /\ TaskAt(t, "retain")
    /\ LET m == task[t].model IN
         /\ cached' = IF Resident(m) THEN [cached EXCEPT ![m].refs = @ + 1] ELSE cached
         /\ task' = [task EXCEPT ![t].pc = "leased", ![t].retained = Resident(m)]
    /\ UNCHANGED <<budget, useLock, lifeLock>>

Release(t) ==
    /\ TaskAt(t, "leased")
    /\ LET m == task[t].model IN
         /\ cached' = IF task[t].retained THEN [cached EXCEPT ![m].refs = @ - 1, ![m].idle = FALSE]
                      ELSE cached
         /\ useLock' = LetGo(useLock, m, t)
    /\ task' = [task EXCEPT ![t] = AtRest]
    /\ UNCHANGED <<budget, lifeLock>>

-----------------------------------------------------------------------------
(* set_budget, and time.                                                    *)

Configure(t, b) ==
    /\ TaskAt(t, "idle")
    /\ task' = [task EXCEPT ![t] = [AtRest EXCEPT !.pc = "shrink", !.wish = b]]
    /\ UNCHANGED <<cached, budget, useLock, lifeLock>>

\* The budget is set once everything fits; with nothing to evict it is not.
Shrink(t) ==
    /\ TaskAt(t, "shrink")
    /\ IF Accounted <= task[t].wish \/ Victims(Unheld) = {}
       THEN /\ budget' = IF Accounted <= task[t].wish THEN task[t].wish ELSE budget
            /\ task' = [task EXCEPT ![t] = AtRest]
       ELSE (\E v \in Victims(Unheld) : Evicts(t, v, "shrink")) /\ UNCHANGED budget
    /\ UNCHANGED <<cached, useLock, lifeLock>>

GrowsIdle(m) ==
    /\ Evictable(m) /\ ~cached[m].idle
    /\ cached' = [cached EXCEPT ![m].idle = TRUE]
    /\ UNCHANGED <<budget, useLock, lifeLock, task>>

TaskStep(t) ==
    \/ Evict(t) \/ EvictIdle(t) \/ TakeUse(t) \/ TakeLife(t) \/ Look(t) \/ Reserve(t)
    \/ Load(t) \/ Retain(t) \/ Release(t) \/ Shrink(t)

WarmNext ==
    \/ \E t \in Tasks : TaskStep(t)
    \/ \E t \in Tasks, m \in Models, op \in {"acquire", "warm"} : Ask(t, op, m)
    \/ \E t \in Tasks, b \in Budgets : Configure(t, b)
    \/ \E m \in Models : GrowsIdle(m)

WarmSpec == WarmInit /\ [][WarmNext]_warmVars

-----------------------------------------------------------------------------
\* What is cached and what is being loaded for the cache fits into the budget,
\* over concurrent loads and while the budget is changed.
BudgetHolds == Accounted <= budget

\* A value is not dropped while a thread that leases it from the cache holds
\* it, whatever other threads evict.
LeaseStays ==
    \A t \in Tasks : TaskAt(t, "leased") /\ task[t].retained => Resident(task[t].model)

\* The thread that t waits for.
WaitsFor(t) ==
    CASE TaskAt(t, "use")       -> useLock[task[t].model]
      [] TaskAt(t, "life")      -> lifeLock[task[t].model]
      [] TaskAt(t, "evictUse")  -> useLock[task[t].victim]
      [] TaskAt(t, "evictLife") -> lifeLock[task[t].victim]
      [] OTHER                  -> Unheld

\* Threads never wait for each other in a circle, although one that loads
\* holds the locks of its model while it evicts another.
NoCircularWait == \A S \in SUBSET Tasks : S # {} => \E t \in S : WaitsFor(t) \notin S
=============================================================================

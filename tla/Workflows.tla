------------------------------ MODULE Workflows ------------------------------
(* A workflow (rex/workflow.py, rex/workflow_runner.py), its approvals and  *)
(* the commands that run and resume it (rex/commands/workflows.py).  Each   *)
(* command is a process of its own that loads a copy of the workflow, saves *)
(* it over data/workflows/<id>.json as it goes and may end at any moment.   *)
EXTENDS Naturals, FiniteSets

CONSTANTS
    StepDefs,           \* the steps: [key, policy, conditional], 1..Len
    Length,
    Runners,        \* commands that may run at the same time
    Approvals,      \* approval ids
    MaxCommands,    \* bound on the commands given
    Nothing

ASSUME WorkflowsAssumption ==
    /\ Length \in Nat \ {0} /\ MaxCommands \in Nat
    /\ \A s \in 1..Length : StepDefs[s].policy \in {"allow", "ask", "deny"}

Steps == 1..Length
Results == {"ok", "failed", "skipped"}

\* What is saved of a workflow.
WorkflowRow ==
    [status : {"queued", "running", "blocked", "completed", "failed"}, at : Nat \ {0},
     result : [Steps -> Results \cup {Nothing}],
     approvals : [Steps -> Approvals \cup {Nothing}], blocking : Approvals \cup {Nothing}]

ASSUME NothingAssumption == Nothing \notin WorkflowRow \cup Approvals \cup Results
                             /\ Nothing \notin [step : Steps, status : {"pending", "approved", "denied"}]

KeysUsed == {StepDefs[s].key : s \in Steps} \ {Nothing}

VARIABLES
    wfFile,         \* data/workflows/<id>.json, or Nothing before the first save
    approval,       \* data/approvals: [step, status] or Nothing
    runner,         \* per command: what it does, and its copy of the workflow
    commands,       \* how many commands were given
    done,           \* ghost: successful calls per step
    granted,        \* ghost: approvals that were approved at some time
    passed,         \* ghost: steps whose precondition let them be skipped
    torn,           \* ghost: a command ended in the middle, or could not save
    overlapped,     \* ghost: two commands ran at once
    rerun           \* ghost: the original file was run again

wfVars == <<wfFile, approval, runner, commands, done, granted, passed,
            torn, overlapped, rerun>>
history == <<granted, overlapped, rerun>>

Original ==
    [status |-> "queued", at |-> 1, result |-> [s \in Steps |-> Nothing],
     approvals |-> [s \in Steps |-> Nothing], blocking |-> Nothing]
Resting == [pc |-> "none", wf |-> Nothing]

WfInit ==
    /\ wfFile = Nothing
    /\ approval = [a \in Approvals |-> Nothing]
    /\ runner = [p \in Runners |-> Resting]
    /\ commands = 0
    /\ done = [s \in Steps |-> 0]
    /\ granted = {} /\ passed = {}
    /\ torn = FALSE /\ overlapped = FALSE /\ rerun = FALSE

MarkRunning(wf) == [wf EXCEPT !.status = "running", !.blocking = Nothing]
MarkFailed(wf) == [wf EXCEPT !.status = "failed"]
HasEnded(wf) == wf.status \in {"completed", "failed"}

\* advance(), and the status that goes with the last step.
Advance(wf) == [wf EXCEPT !.at = @ + 1, !.status = IF wf.at = Length THEN "completed" ELSE @]

\* The command goes on with wf, saved or not; it ends when the loop does.
Continue(p, wf) ==
    runner' = [runner EXCEPT ![p] = IF HasEnded(wf) \/ wf.status = "blocked" THEN Resting
                                    ELSE [pc |-> "step", wf |-> wf]]
\* _save_workflow: a failure is only logged.
Save(p, wf) ==
    /\ Continue(p, wf)
    /\ \/ wfFile' = wf /\ UNCHANGED torn
       \/ UNCHANGED wfFile /\ torn' = TRUE

-----------------------------------------------------------------------------
(* The commands.                                                            *)

GivesCommand(p) ==
    /\ runner[p].pc = "none" /\ commands < MaxCommands /\ commands' = commands + 1
    /\ overlapped' = (overlapped \/ \E q \in Runners \ {p} : runner[q].pc # "none")

\* rex run-workflow FILE, with the original or with the saved one: a blocked
\* workflow stays so, any other is marked as running.
RunFile(p) ==
    /\ GivesCommand(p)
    /\ \E wf \in {Original, wfFile} \ {Nothing} :
         /\ IF wf.status = "blocked" THEN UNCHANGED <<wfFile, runner, torn>> ELSE Save(p, MarkRunning(wf))
         /\ rerun' = (rerun \/ (wf = Original /\ wfFile # Nothing))
    /\ UNCHANGED <<approval, done, granted, passed>>

\* --resume, of the saved workflow.  A pending approval changes nothing, one
\* that was denied fails the workflow, one that was approved goes to its step.
Resume(p) ==
    /\ GivesCommand(p)
    /\ wfFile # Nothing /\ wfFile.status = "blocked"
    /\ LET a == wfFile.blocking
           s == wfFile.at
       IN  \/ approval[a].status = "pending" /\ UNCHANGED <<wfFile, runner, torn>>
           \/ approval[a].status = "denied" /\ Save(p, MarkFailed(wfFile))
           \/ /\ approval[a].status = "approved"
              /\ Save(p, MarkRunning(IF s \in Steps /\ approval[a].step = s
                                     THEN [wfFile EXCEPT !.approvals[s] = a] ELSE wfFile))
    /\ UNCHANGED <<approval, done, granted, passed, rerun>>

\* rex approvals: neither asks what the approval is.
Decide(a) ==
    /\ approval[a] # Nothing
    /\ \E d \in {"approved", "denied"} :
         /\ approval' = [approval EXCEPT ![a].status = d]
         /\ granted' = IF d = "approved" THEN granted \cup {a} ELSE granted
    /\ UNCHANGED <<wfFile, runner, commands, done, passed, torn, overlapped, rerun>>

-----------------------------------------------------------------------------
(* run(): one step.                                                         *)

AtStep(p, pc) == runner[p].pc = pc
Wf(p) == runner[p].wf
StepOf(p) == Wf(p).at
Kind(p) == StepDefs[StepOf(p)]

\* Mutant of Executed: the key is looked for on the step itself.
ExecutedHere(wf, key) == StepDefs[wf.at].key = key /\ wf.result[wf.at] = "ok"

\* A step of this workflow with the same key has succeeded.
Executed(wf, key) == \E s \in Steps : StepDefs[s].key = key /\ wf.result[s] \in {"ok", "skipped"}

\* Mutant of MayGo: an approval that was asked for is enough.
MayGoOnceAsked(p) == Wf(p).approvals[StepOf(p)] # Nothing

ByKey(p) == Kind(p).key # Nothing /\ Executed(Wf(p), Kind(p).key)
MayGo(p) == LET a == Wf(p).approvals[StepOf(p)] IN a # Nothing /\ approval[a].status = "approved"

\* Nothing is left: a saved workflow that was finished is run again.
NoStep(p) ==
    /\ AtStep(p, "step") /\ StepOf(p) \notin Steps
    /\ Save(p, [Wf(p) EXCEPT !.status = "completed"])
    /\ UNCHANGED <<approval, commands, done, passed, history>>

\* The step is skipped for its key or its precondition.
SkipStep(p) ==
    /\ AtStep(p, "step") /\ StepOf(p) \in Steps
    /\ ByKey(p) \/ Kind(p).conditional
    /\ Save(p, Advance([Wf(p) EXCEPT !.result[StepOf(p)] = "skipped"]))
    /\ passed' = IF ByKey(p) THEN passed ELSE passed \cup {StepOf(p)}
    /\ UNCHANGED <<approval, commands, done, history>>

DenyStep(p) ==
    /\ AtStep(p, "step") /\ StepOf(p) \in Steps /\ ~ByKey(p) /\ Kind(p).policy = "deny"
    /\ Save(p, MarkFailed([Wf(p) EXCEPT !.result[StepOf(p)] = "failed"]))
    /\ UNCHANGED <<approval, commands, done, passed, history>>

\* A new approval is saved, then the blocked workflow.
BlockStep(p) ==
    /\ AtStep(p, "step") /\ StepOf(p) \in Steps /\ ~ByKey(p)
    /\ Kind(p).policy = "ask" /\ ~MayGo(p)
    /\ \E a \in Approvals :
         /\ approval[a] = Nothing
         /\ approval' = [approval EXCEPT ![a] = [step |-> StepOf(p), status |-> "pending"]]
         /\ Save(p, [Wf(p) EXCEPT !.approvals[StepOf(p)] = a, !.status = "blocked", !.blocking = a])
    /\ UNCHANGED <<commands, done, passed, history>>

\* The tool is called: it succeeds, its postcondition included, or it does not.
CallTool(p) ==
    /\ AtStep(p, "step") /\ StepOf(p) \in Steps /\ ~ByKey(p)
    /\ Kind(p).policy = "allow" \/ (Kind(p).policy = "ask" /\ MayGo(p))
    /\ \E r \in {"ok", "failed"} :
         /\ runner' = [runner EXCEPT ![p].pc = "called", ![p].wf.result[StepOf(p)] = r]
         /\ done' = IF r = "ok" THEN [done EXCEPT ![StepOf(p)] = @ + 1] ELSE done
    /\ UNCHANGED <<wfFile, approval, commands, passed, torn, history>>

\* Mutant of AfterCall: the workflow goes on after a failed step.
AfterAnyCall(p) ==
    /\ AtStep(p, "called")
    /\ Save(p, Advance(Wf(p)))
    /\ UNCHANGED <<approval, commands, done, passed, history>>

\* The result decides.
AfterCall(p) ==
    /\ AtStep(p, "called")
    /\ IF Wf(p).result[StepOf(p)] = "ok" THEN Save(p, Advance(Wf(p)))
       ELSE Save(p, MarkFailed(Wf(p)))
    /\ UNCHANGED <<approval, commands, done, passed, history>>

Crash(p) ==
    /\ runner[p].pc # "none"
    /\ runner' = [runner EXCEPT ![p] = Resting]
    /\ torn' = TRUE
    /\ UNCHANGED <<wfFile, approval, commands, done, granted, passed, overlapped, rerun>>

WfNext ==
    \/ \E p \in Runners :
         \/ RunFile(p) \/ Resume(p)
         \/ NoStep(p) \/ SkipStep(p) \/ DenyStep(p) \/ BlockStep(p) \/ CallTool(p) \/ AfterCall(p)
         \/ Crash(p)
    \/ \E a \in Approvals : Decide(a)

WfSpec == WfInit /\ [][WfNext]_wfVars

-----------------------------------------------------------------------------
CallsOf(key) == {s \in Steps : StepDefs[s].key = key /\ done[s] > 0}
CalledOnce(key) == Cardinality(CallsOf(key)) <= 1 /\ \A s \in Steps : StepDefs[s].key = key => done[s] <= 1

\* A key is executed once, whatever is resumed, retried and decided, unless a
\* command ends in the middle of a step or cannot save, two run at once, or
\* the original file is run again.
KeysOnce == ~torn /\ ~overlapped /\ ~rerun => \A key \in KeysUsed : CalledOnce(key)

\* docs/workflow-engine.md:273: a step whose key was executed successfully is
\* skipped on re-run.
KeysOnceOnRerun == ~torn /\ ~overlapped => \A key \in KeysUsed : CalledOnce(key)

\* A step that asks for approval is called only once an approval that was
\* created for it has been approved, whichever copies the commands run.
CalledWithApproval ==
    [][\A s \in Steps : StepDefs[s].policy = "ask" /\ done'[s] > done[s]
          => \E a \in granted : approval[a].step = s]_wfVars

\* A workflow that is saved as completed has executed every step, or its key,
\* or passed it over by its precondition, over crashes and concurrent runs.
CompletedIsHonest ==
    wfFile # Nothing /\ wfFile.status = "completed" =>
        \A s \in Steps : \/ s \in passed
                         \/ \E u \in Steps : /\ done[u] > 0
                                             /\ u = s \/ (StepDefs[u].key # Nothing /\ StepDefs[u].key = StepDefs[s].key)
                         \/ \E u \in passed : StepDefs[u].key # Nothing /\ StepDefs[u].key = StepDefs[s].key
=============================================================================

--------------------------- MODULE Requests_proofs ----------------------------
(***************************************************************************)
(* Proofs about what a request meets on its way: Workflows, WarmRuntime and*)
(* MediaOutput, which share no state.                                      *)
(*                                                                         *)
(* Workflows: for any steps, keys, approvals and number of commands.  A copy*)
(* of the workflow, on disk or in a runner, says nothing of a step that is *)
(* not true, however old it is; so what skips a step by its copy is right, *)
(* and the keys that are done only grow.                                   *)
(*                                                                         *)
(* WarmRuntime: for any components, costs, budgets and threads.  Who drops a*)
(* value holds the use lock of its component, and so does who leases it; and*)
(* a value is only written over by a thread that found it absent and has kept*)
(* the lifecycle lock since.  On this rest the order in which threads wait *)
(* for each other and the room that loads reserve.                         *)
(*                                                                         *)
(* MediaOutput: for any speakers and deliveries, one at a time on a speaker.*)
(* A delivery that has changed the volume has the owner's in hand, until the*)
(* restoring fails.                                                        *)
(***************************************************************************)
EXTENDS Workflows, WarmRuntime, MediaOutput, FiniteSetTheorems, Integers, TLAPS

-----------------------------------------------------------------------------
(* Workflows.                                                               *)

ApprovalRow == [step : Steps, status : {"pending", "approved", "denied"}]

WfTypeOK ==
    /\ wfFile \in WorkflowRow \cup {Nothing}
    /\ approval \in [Approvals -> ApprovalRow \cup {Nothing}]
    /\ runner \in [Runners -> [pc : {"none", "step", "called"}, wf : WorkflowRow \cup {Nothing}]]
    /\ done \in [Steps -> Nat]
    /\ granted \subseteq Approvals /\ passed \subseteq Steps
    /\ torn \in BOOLEAN /\ overlapped \in BOOLEAN /\ rerun \in BOOLEAN

SameKey(s, u) == StepDefs[u].key # Nothing /\ StepDefs[u].key = StepDefs[s].key

\* The step, or its key, has been executed (d) or passed over (o).
Covered(s, d, o) ==
    \E u \in Steps : (u = s \/ SameKey(s, u)) /\ (d[u] > 0 \/ u \in o)

\* What a copy of the workflow says is true, however old it is: of the calls d,
\* the steps passed over o and the approvals a.
Honest(wf, d, o, a) ==
    /\ \A s \in Steps : s < wf.at \/ wf.result[s] \in {"ok", "skipped"} \/ wf.status = "completed"
                        => Covered(s, d, o)
    /\ \A s \in Steps : wf.approvals[s] # Nothing =>
         a[wf.approvals[s]] # Nothing /\ a[wf.approvals[s]].step = s
    /\ wf.status = "blocked" => wf.blocking # Nothing /\ a[wf.blocking] # Nothing

CopiesAreHonest ==
    /\ wfFile # Nothing => Honest(wfFile, done, passed, approval)
    /\ \A p \in Runners : runner[p].pc # "none" =>
         /\ runner[p].wf # Nothing /\ Honest(runner[p].wf, done, passed, approval)
         /\ runner[p].wf.status = "running"
         /\ runner[p].pc = "called" => runner[p].wf.at \in Steps

ApprovedIsGranted ==
    \A a \in Approvals : approval[a] # Nothing /\ approval[a].status = "approved" => a \in granted

Calm == ~torn /\ ~overlapped /\ ~rerun

\* Nothing is lost or doubled while a single command runs and saves: the file is
\* the copy of the one that runs, but for the call it may have made; a step that
\* was called lies behind, and no other has its key.
CalmIsKept ==
    Calm =>
      /\ \A p, q \in Runners : runner[p].pc # "none" /\ runner[q].pc # "none" => p = q
      /\ wfFile = Nothing =>
           /\ \A p \in Runners : runner[p].pc = "none"
           /\ \A s \in Steps : done[s] = 0
      /\ \A p \in Runners : runner[p].pc = "step" => runner[p].wf = wfFile
      /\ \A p \in Runners : runner[p].pc = "called" =>
           /\ \A s \in Steps \ {wfFile.at} : runner[p].wf.result[s] = wfFile.result[s]
           /\ runner[p].wf.at = wfFile.at
      /\ \A s \in Steps : done[s] > 0 =>
           \/ s < wfFile.at /\ wfFile.result[s] = "ok"
           \/ \E p \in Runners : /\ runner[p].pc = "called" /\ runner[p].wf.at = s
                                 /\ runner[p].wf.result[s] = "ok"
      /\ \A s, u \in Steps : SameKey(s, u) /\ done[s] > 0 /\ done[u] > 0 => s = u
      /\ \A s \in Steps : StepDefs[s].key # Nothing => done[s] <= 1

\* The inductive invariant.
WfInv == WfTypeOK /\ CopiesAreHonest /\ ApprovedIsGranted /\ CalmIsKept

-----------------------------------------------------------------------------
(* What is true of a copy stays true.                                       *)

\* Calls, steps passed over and approvals are not taken back.
Grows ==
    /\ \A s \in Steps : done[s] > 0 => done'[s] > 0
    /\ passed \subseteq passed'
    /\ \A a \in Approvals : approval[a] # Nothing =>
         approval'[a] # Nothing /\ approval'[a].step = approval[a].step

LEMMA HonestLasts ==
    ASSUME Grows, NEW wf \in WorkflowRow, Honest(wf, done, passed, approval)
    PROVE  Honest(wf, done', passed', approval')
<1>1. ASSUME NEW s \in Steps, Covered(s, done, passed) PROVE Covered(s, done', passed')
  BY <1>1 DEF Covered, Grows
<1>2. ASSUME NEW s \in Steps, wf.approvals[s] # Nothing
      PROVE  approval'[wf.approvals[s]] # Nothing /\ approval'[wf.approvals[s]].step = s
  BY <1>2 DEF Honest, Grows, WorkflowRow
<1>3. wf.status = "blocked" => wf.blocking # Nothing /\ approval'[wf.blocking] # Nothing
  BY DEF Honest, Grows, WorkflowRow
<1> QED
  BY <1>1, <1>2, <1>3 DEF Honest

\* A copy that is saved, or not, takes the place of the command's own.
LEMMA SavingKeepsCopies ==
    ASSUME WfTypeOK, CopiesAreHonest, Grows, NEW p \in Runners, NEW wf \in WorkflowRow,
           Save(p, wf), Honest(wf, done', passed', approval'), wf.status # "queued"
    PROVE  /\ wfFile' \in WorkflowRow \cup {Nothing} /\ torn' \in BOOLEAN
           /\ runner' \in [Runners -> [pc : {"none", "step", "called"}, wf : WorkflowRow \cup {Nothing}]]
           /\ CopiesAreHonest'
<1> DEFINE r == IF HasEnded(wf) \/ wf.status = "blocked" THEN Resting ELSE [pc |-> "step", wf |-> wf]
<1>1. runner' = [runner EXCEPT ![p] = r]
  BY DEF Save, Continue
<1>2. r \in [pc : {"none", "step", "called"}, wf : WorkflowRow \cup {Nothing}]
  BY DEF Resting
<1>3. r.pc # "none" => r.pc = "step" /\ r.wf = wf /\ wf.status = "running"
  BY DEF Resting, HasEnded, WorkflowRow
<1> HIDE DEF r
<1>4. runner' \in [Runners -> [pc : {"none", "step", "called"}, wf : WorkflowRow \cup {Nothing}]]
  BY <1>1, <1>2 DEF WfTypeOK
<1>5. wfFile' \in WorkflowRow \cup {Nothing} /\ torn' \in BOOLEAN
  BY DEF Save, WfTypeOK
<1>6. wfFile' # Nothing => Honest(wfFile', done', passed', approval')
  <2>1. CASE wfFile' = wf
    BY <2>1
  <2>2. CASE UNCHANGED wfFile
    BY <2>2, HonestLasts DEF WfTypeOK, CopiesAreHonest
  <2> QED
    BY <2>1, <2>2 DEF Save
<1>7. ASSUME NEW q \in Runners, runner'[q].pc # "none"
      PROVE  /\ runner'[q].wf # Nothing /\ Honest(runner'[q].wf, done', passed', approval')
             /\ runner'[q].wf.status = "running"
             /\ runner'[q].pc = "called" => runner'[q].wf.at \in Steps
  <2>1. CASE q = p
    BY <1>1, <1>3, <1>7, <2>1, NothingAssumption DEF WfTypeOK
  <2>2. CASE q # p
    <3>1. runner'[q] = runner[q]
      BY <1>1, <2>2 DEF WfTypeOK
    <3>2. runner[q].wf \in WorkflowRow
      BY <1>7, <3>1 DEF WfTypeOK, CopiesAreHonest
    <3> QED
      BY <1>7, <3>1, <3>2, HonestLasts DEF CopiesAreHonest
  <2> QED
    BY <2>1, <2>2
<1> QED
  BY <1>4, <1>5, <1>6, <1>7 DEF CopiesAreHonest

\* A copy that is saved while nobody else runs, and that has what was called
\* behind it, keeps the calm.
LEMMA SavingKeepsCalm ==
    ASSUME WfTypeOK, CalmIsKept, NEW p \in Runners, NEW wf \in WorkflowRow,
           Save(p, wf), UNCHANGED done, Calm' => Calm,
           Calm' => \A q \in Runners \ {p} : runner[q].pc = "none",
           Calm' => \A s \in Steps : done[s] > 0 => s < wf.at /\ wf.result[s] = "ok"
    PROVE  CalmIsKept'
<1> SUFFICES ASSUME Calm' PROVE CalmIsKept'
  BY DEF CalmIsKept
<1>1. wfFile' = wf /\ wf # Nothing
  BY NothingAssumption DEF Save, Calm
<1> DEFINE r == IF HasEnded(wf) \/ wf.status = "blocked" THEN Resting ELSE [pc |-> "step", wf |-> wf]
<1>2. runner' = [runner EXCEPT ![p] = r]
  BY DEF Save, Continue
<1>3. r.pc \in {"none", "step"} /\ (r.pc = "step" => r.wf = wf)
  BY DEF Resting
<1> HIDE DEF r
<1>4. \A q \in Runners : runner'[q] = IF q = p THEN r ELSE runner[q]
  BY <1>2 DEF WfTypeOK
<1>5. \A q \in Runners : q # p => runner'[q].pc = "none"
  BY <1>4
<1>6. \A q \in Runners : runner'[q].pc # "called" /\ (runner'[q].pc = "step" => runner'[q].wf = wfFile')
  BY <1>1, <1>3, <1>4, <1>5
<1> QED
  BY <1>1, <1>5, <1>6 DEF CalmIsKept

-----------------------------------------------------------------------------
(* Copies.                                                                  *)

LEMMA MarkedRunning ==
    ASSUME NEW wf \in WorkflowRow
    PROVE  /\ MarkRunning(wf) \in WorkflowRow /\ MarkRunning(wf).status = "running"
           /\ MarkRunning(wf).at = wf.at /\ MarkRunning(wf).result = wf.result
           /\ MarkRunning(wf).approvals = wf.approvals
  BY DEF MarkRunning, WorkflowRow

LEMMA MarkedFailed ==
    ASSUME NEW wf \in WorkflowRow
    PROVE  /\ MarkFailed(wf) \in WorkflowRow /\ MarkFailed(wf).status = "failed"
           /\ MarkFailed(wf).at = wf.at /\ MarkFailed(wf).result = wf.result
           /\ MarkFailed(wf).approvals = wf.approvals
  BY DEF MarkFailed, WorkflowRow

LEMMA Advanced ==
    ASSUME NEW wf \in WorkflowRow
    PROVE  /\ Advance(wf) \in WorkflowRow /\ Advance(wf).at = wf.at + 1
           /\ Advance(wf).result = wf.result /\ Advance(wf).approvals = wf.approvals
           /\ Advance(wf).blocking = wf.blocking
           /\ Advance(wf).status = IF wf.at = Length THEN "completed" ELSE wf.status
<1> DEFINE n == wf.at + 1
           t == IF wf.at = Length THEN "completed" ELSE wf.status
<1>1. n \in Nat \ {0} /\ t \in {"queued", "running", "blocked", "completed", "failed"}
  BY DEF WorkflowRow
<1>2. Advance(wf) = [wf EXCEPT !.at = n, !.status = t]
  BY DEF Advance, WorkflowRow
<1> HIDE DEF n, t
<1>3. /\ Advance(wf) \in WorkflowRow /\ Advance(wf).at = n /\ Advance(wf).status = t
      /\ Advance(wf).result = wf.result /\ Advance(wf).approvals = wf.approvals
      /\ Advance(wf).blocking = wf.blocking
  BY <1>1, <1>2 DEF WorkflowRow
<1> QED
  BY <1>3 DEF n, t

LEMMA OriginalIsHonest ==
    ASSUME NEW d, NEW o, NEW a
    PROVE  Original \in WorkflowRow /\ Honest(Original, d, o, a)
<1>1. Original \in WorkflowRow
  BY DEF Original, WorkflowRow
<1>2. ~(Original.status \in {"completed", "blocked"}) /\ Original.at = 1
      /\ \A s \in Steps : Original.result[s] = Nothing /\ Original.approvals[s] = Nothing
  BY DEF Original
<1>3. \A s \in Steps : ~(s < 1) /\ ~(Nothing \in {"ok", "skipped"})
  BY NothingAssumption DEF Steps, Results
<1> QED
  BY <1>1, <1>2, <1>3 DEF Honest

\* A copy that is marked says no more than it did before.
LEMMA MarkedIsHonest ==
    ASSUME NEW wf \in WorkflowRow, NEW d, NEW o, NEW a, Honest(wf, d, o, a)
    PROVE  Honest(MarkRunning(wf), d, o, a) /\ Honest(MarkFailed(wf), d, o, a)
  BY MarkedRunning, MarkedFailed DEF Honest

\* One that advances says in addition that its step was covered.
LEMMA AdvancedIsHonest ==
    ASSUME NEW wf \in WorkflowRow, NEW d, NEW o, NEW a, Honest(wf, d, o, a),
           wf.at \in Steps, Covered(wf.at, d, o), wf.status = "running"
    PROVE  Honest(Advance(wf), d, o, a)
<1>1. ASSUME NEW s \in Steps, s < wf.at + 1 \/ wf.at = Length PROVE Covered(s, d, o)
  <2>1. s \in Int /\ wf.at \in Int /\ (s < wf.at \/ s = wf.at \/ s > wf.at) /\ s <= Length
    BY WorkflowsAssumption DEF Steps
  <2>2. s < wf.at \/ s = wf.at
    BY <1>1, <2>1
  <2> QED
    BY <2>2 DEF Honest
<1> QED
  BY <1>1, Advanced DEF Honest

\* Two steps with one key cover each other.
LEMMA KeyCovers ==
    ASSUME NEW s \in Steps, NEW u \in Steps, NEW d, NEW o, SameKey(s, u), Covered(u, d, o)
    PROVE  Covered(s, d, o)
  BY DEF SameKey, Covered

-----------------------------------------------------------------------------
(* The commands.                                                            *)

LEMMA RunFileKeeps ==
    ASSUME WfInv, NEW p \in Runners, RunFile(p) PROVE WfInv'
<1>1. /\ WfTypeOK /\ CopiesAreHonest /\ ApprovedIsGranted /\ CalmIsKept
      /\ UNCHANGED <<approval, done, granted, passed>>
  BY DEF WfInv, RunFile
<1>2. Grows
  BY <1>1 DEF Grows
<1>3. PICK w \in {Original, wfFile} \ {Nothing} :
        /\ IF w.status = "blocked" THEN UNCHANGED <<wfFile, runner, torn>> ELSE Save(p, MarkRunning(w))
        /\ rerun' = (rerun \/ (w = Original /\ wfFile # Nothing))
  BY DEF RunFile
<1>4. /\ runner[p].pc = "none"
      /\ overlapped' = (overlapped \/ \E q \in Runners \ {p} : runner[q].pc # "none")
  BY DEF RunFile, GivesCommand
<1>5. w \in WorkflowRow /\ Honest(w, done, passed, approval)
  BY <1>1, <1>3, OriginalIsHonest DEF WfTypeOK, CopiesAreHonest
<1>6. overlapped' \in BOOLEAN /\ rerun' \in BOOLEAN
  BY <1>1, <1>3, <1>4 DEF WfTypeOK
<1>7. CASE UNCHANGED <<wfFile, runner, torn>>
  <2>1. WfTypeOK' /\ CopiesAreHonest' /\ ApprovedIsGranted'
    BY <1>1, <1>6, <1>7 DEF WfTypeOK, CopiesAreHonest, ApprovedIsGranted
  <2>2. Calm' => Calm
    BY <1>1, <1>3, <1>4, <1>7 DEF Calm, WfTypeOK
  <2>3. CalmIsKept'
    BY <1>1, <1>7, <2>2 DEF CalmIsKept
  <2> QED
    BY <2>1, <2>3 DEF WfInv
<1>8. CASE Save(p, MarkRunning(w))
  <2>1. Honest(MarkRunning(w), done', passed', approval') /\ MarkRunning(w) \in WorkflowRow
        /\ MarkRunning(w).status # "queued"
    BY <1>1, <1>5, MarkedIsHonest, MarkedRunning
  <2>2. WfTypeOK' /\ CopiesAreHonest'
    BY <1>1, <1>2, <1>6, <1>8, <2>1, SavingKeepsCopies DEF WfTypeOK
  <2>3. ApprovedIsGranted'
    BY <1>1 DEF ApprovedIsGranted
  <2>4. Calm' => Calm /\ (w = Original => wfFile = Nothing) /\ \A q \in Runners \ {p} : runner[q].pc = "none"
    BY <1>1, <1>3, <1>4, <1>8 DEF Calm, WfTypeOK, Save
  <2>5. ASSUME Calm', NEW s \in Steps, done[s] > 0
        PROVE  s < MarkRunning(w).at /\ MarkRunning(w).result[s] = "ok"
    <3>1. Calm /\ \A q \in Runners : runner[q].pc = "none"
      BY <1>4, <2>4, <2>5
    <3>2. wfFile # Nothing
      BY <1>1, <2>5, <3>1 DEF CalmIsKept, WfTypeOK
    <3>3. w = wfFile
      BY <2>4, <2>5, <1>3, <3>2
    <3> QED
      BY <1>1, <1>5, <2>5, <3>1, <3>3, MarkedRunning DEF CalmIsKept
  <2>6. CalmIsKept'
    BY <1>1, <1>8, <2>1, <2>4, <2>5, SavingKeepsCalm
  <2> QED
    BY <2>2, <2>3, <2>6 DEF WfInv
<1> QED
  BY <1>3, <1>7, <1>8

LEMMA ResumeKeeps ==
    ASSUME WfInv, NEW p \in Runners, Resume(p) PROVE WfInv'
<1>1. /\ WfTypeOK /\ CopiesAreHonest /\ ApprovedIsGranted /\ CalmIsKept
      /\ UNCHANGED <<approval, done, granted, passed, rerun>>
  BY DEF WfInv, Resume
<1>2. Grows
  BY <1>1 DEF Grows
<1>3. /\ runner[p].pc = "none"
      /\ overlapped' = (overlapped \/ \E q \in Runners \ {p} : runner[q].pc # "none")
      /\ overlapped' \in BOOLEAN
  BY <1>1 DEF Resume, GivesCommand, WfTypeOK
<1>4. wfFile \in WorkflowRow /\ Honest(wfFile, done, passed, approval) /\ wfFile # Nothing
      /\ wfFile.blocking # Nothing /\ wfFile.blocking \in Approvals /\ approval[wfFile.blocking] # Nothing
  BY <1>1 DEF Resume, WfTypeOK, CopiesAreHonest, Honest, WorkflowRow
<1>5. CASE UNCHANGED <<wfFile, runner, torn>>
  <2>1. WfTypeOK' /\ CopiesAreHonest' /\ ApprovedIsGranted'
    BY <1>1, <1>3, <1>5 DEF WfTypeOK, CopiesAreHonest, ApprovedIsGranted
  <2>2. Calm' => Calm
    BY <1>1, <1>3, <1>5 DEF Calm, WfTypeOK
  <2>3. CalmIsKept'
    BY <1>1, <1>5, <2>2 DEF CalmIsKept
  <2> QED
    BY <2>1, <2>3 DEF WfInv
<1>6. ASSUME NEW wf \in WorkflowRow, Save(p, wf), Honest(wf, done, passed, approval),
             wf.status # "queued", wf.at = wfFile.at, wf.result = wfFile.result
      PROVE  WfInv'
  <2>1. WfTypeOK' /\ CopiesAreHonest'
    BY <1>1, <1>2, <1>3, <1>6, SavingKeepsCopies DEF WfTypeOK
  <2>2. ApprovedIsGranted'
    BY <1>1 DEF ApprovedIsGranted
  <2>3. Calm' => Calm /\ \A q \in Runners \ {p} : runner[q].pc = "none"
    BY <1>1, <1>3, <1>6 DEF Calm, WfTypeOK, Save
  <2>4. ASSUME Calm', NEW s \in Steps, done[s] > 0 PROVE s < wf.at /\ wf.result[s] = "ok"
    BY <1>1, <1>3, <1>6, <2>3, <2>4 DEF CalmIsKept
  <2>5. CalmIsKept'
    BY <1>1, <1>6, <2>3, <2>4, SavingKeepsCalm
  <2> QED
    BY <2>1, <2>2, <2>5 DEF WfInv
<1>7. CASE Save(p, MarkFailed(wfFile))
  BY <1>4, <1>6, <1>7, MarkedIsHonest, MarkedFailed
<1>8. CASE /\ approval[wfFile.blocking].status = "approved"
           /\ Save(p, MarkRunning(IF wfFile.at \in Steps /\ approval[wfFile.blocking].step = wfFile.at
                                  THEN [wfFile EXCEPT !.approvals[wfFile.at] = wfFile.blocking] ELSE wfFile))
  <2> DEFINE w == IF wfFile.at \in Steps /\ approval[wfFile.blocking].step = wfFile.at
                  THEN [wfFile EXCEPT !.approvals[wfFile.at] = wfFile.blocking] ELSE wfFile
  <2>1. w \in WorkflowRow /\ w.at = wfFile.at /\ w.result = wfFile.result /\ w.status = wfFile.status
        /\ w.blocking = wfFile.blocking
    BY <1>4 DEF WorkflowRow
  <2>2. \A s \in Steps : w.approvals[s] = IF s = wfFile.at /\ approval[wfFile.blocking].step = wfFile.at
                                          THEN wfFile.blocking ELSE wfFile.approvals[s]
    BY <1>4 DEF WorkflowRow
  <2> HIDE DEF w
  <2>3. Honest(w, done, passed, approval)
    BY <1>4, <2>1, <2>2 DEF Honest
  <2> QED
    BY <1>6, <1>8, <2>1, <2>3, MarkedIsHonest, MarkedRunning DEF w
<1> QED
  BY <1>5, <1>7, <1>8 DEF Resume

LEMMA DecideKeeps ==
    ASSUME WfInv, NEW a \in Approvals, Decide(a) PROVE WfInv'
<1>1. /\ WfTypeOK /\ CopiesAreHonest /\ ApprovedIsGranted /\ CalmIsKept
      /\ UNCHANGED <<wfFile, runner, commands, done, passed, torn, overlapped, rerun>>
  BY DEF WfInv, Decide
<1>2. PICK d \in {"approved", "denied"} :
        /\ approval' = [approval EXCEPT ![a].status = d]
        /\ granted' = IF d = "approved" THEN granted \cup {a} ELSE granted
  BY DEF Decide
<1>3. approval[a] \in ApprovalRow
  BY <1>1 DEF Decide, WfTypeOK
<1> DEFINE r == [approval[a] EXCEPT !.status = d]
<1>4. approval' = [approval EXCEPT ![a] = r]
  BY <1>1, <1>2 DEF WfTypeOK
<1>5. r \in ApprovalRow /\ r.step = approval[a].step /\ r.status = d /\ r # Nothing
  BY <1>3, NothingAssumption DEF ApprovalRow
<1> HIDE DEF r
<1>6. Grows
  BY <1>1, <1>4, <1>5 DEF Grows, WfTypeOK
<1>7. WfTypeOK'
  BY <1>1, <1>2, <1>4, <1>5 DEF WfTypeOK
<1>8. CopiesAreHonest'
  <2>1. wfFile # Nothing => Honest(wfFile, done', passed', approval')
    BY <1>1, <1>6, HonestLasts DEF WfTypeOK, CopiesAreHonest
  <2>2. ASSUME NEW p \in Runners, runner[p].pc # "none"
        PROVE  Honest(runner[p].wf, done', passed', approval')
    BY <1>1, <1>6, <2>2, HonestLasts DEF WfTypeOK, CopiesAreHonest
  <2> QED
    BY <1>1, <2>1, <2>2 DEF CopiesAreHonest
<1>9. ApprovedIsGranted'
  BY <1>1, <1>2, <1>4, <1>5 DEF ApprovedIsGranted, WfTypeOK
<1>10. CalmIsKept'
  BY <1>1 DEF CalmIsKept, Calm
<1> QED
  BY <1>7, <1>8, <1>9, <1>10 DEF WfInv

-----------------------------------------------------------------------------
(* One step of the workflow.                                                *)

\* What a command at its step, or after its call, has in hand.
LEMMA InHand ==
    ASSUME WfInv, NEW p \in Runners, runner[p].pc # "none"
    PROVE  /\ Wf(p) \in WorkflowRow /\ Wf(p) # Nothing /\ Wf(p).status = "running"
           /\ Honest(Wf(p), done, passed, approval)
  BY DEF WfInv, WfTypeOK, CopiesAreHonest, Wf

\* While it is calm it is alone, and what was called lies behind its step.
LEMMA Alone ==
    ASSUME WfInv, NEW p \in Runners, runner[p].pc = "step", Calm
    PROVE  /\ \A q \in Runners \ {p} : runner[q].pc = "none"
           /\ Wf(p) = wfFile /\ wfFile # Nothing
           /\ \A s \in Steps : done[s] > 0 => s < Wf(p).at /\ Wf(p).result[s] = "ok"
  BY DEF WfInv, CalmIsKept, Wf

\* A step that saves a copy with the steps and calls of the one before.
LEMMA SavingStep ==
    ASSUME WfInv, NEW p \in Runners, runner[p].pc # "none", NEW wf \in WorkflowRow, Save(p, wf),
           UNCHANGED <<done, overlapped, rerun>>, Grows, WfTypeOK',
           Honest(wf, done', passed', approval'), wf.status # "queued", ApprovedIsGranted',
           Calm => /\ \A q \in Runners \ {p} : runner[q].pc = "none"
                   /\ \A s \in Steps : done[s] > 0 => s < wf.at /\ wf.result[s] = "ok"
    PROVE  WfInv'
<1>1. WfTypeOK /\ CopiesAreHonest /\ CalmIsKept
  BY DEF WfInv
<1>2. Calm' => Calm
  BY <1>1 DEF Calm, Save, WfTypeOK
<1>3. CopiesAreHonest'
  BY <1>1, SavingKeepsCopies
<1>4. CalmIsKept'
  BY <1>1, <1>2, SavingKeepsCalm
<1> QED
  BY <1>3, <1>4 DEF WfInv

LEMMA SaveTypes ==
    ASSUME WfTypeOK, NEW p \in Runners, NEW wf \in WorkflowRow, Save(p, wf)
    PROVE  /\ wfFile' \in WorkflowRow \cup {Nothing} /\ torn' \in BOOLEAN
           /\ runner' \in [Runners -> [pc : {"none", "step", "called"}, wf : WorkflowRow \cup {Nothing}]]
<1> DEFINE r == IF HasEnded(wf) \/ wf.status = "blocked" THEN Resting ELSE [pc |-> "step", wf |-> wf]
<1>1. runner' = [runner EXCEPT ![p] = r]
  BY DEF Save, Continue
<1>2. r \in [pc : {"none", "step", "called"}, wf : WorkflowRow \cup {Nothing}]
  BY DEF Resting
<1> HIDE DEF r
<1> QED
  BY <1>1, <1>2 DEF Save, WfTypeOK

LEMMA NoStepKeeps ==
    ASSUME WfInv, NEW p \in Runners, NoStep(p) PROVE WfInv'
<1>1. /\ WfTypeOK /\ ApprovedIsGranted /\ runner[p].pc = "step" /\ Wf(p).at \notin Steps
      /\ UNCHANGED <<approval, done, passed, granted, overlapped, rerun>>
  BY DEF WfInv, NoStep, AtStep, StepOf, history
<1> DEFINE wf == [Wf(p) EXCEPT !.status = "completed"]
<1>2. Wf(p) \in WorkflowRow /\ Honest(Wf(p), done, passed, approval)
  BY <1>1, InHand
<1>3. wf \in WorkflowRow /\ wf.status = "completed" /\ wf.at = Wf(p).at /\ wf.result = Wf(p).result
      /\ wf.approvals = Wf(p).approvals
  BY <1>2 DEF WorkflowRow
<1>4. Save(p, wf)
  BY DEF NoStep
<1> HIDE DEF wf
<1>5. \A s \in Steps : s < Wf(p).at
  BY <1>1, <1>2, WorkflowsAssumption DEF Steps, WorkflowRow
<1>6. Honest(wf, done, passed, approval)
  BY <1>2, <1>3, <1>5 DEF Honest
<1>7. WfTypeOK'
  BY <1>1, <1>3, <1>4, SaveTypes DEF WfTypeOK
<1>8. Grows /\ ApprovedIsGranted'
  BY <1>1 DEF Grows, ApprovedIsGranted
<1> QED
  BY <1>1, <1>3, <1>4, <1>6, <1>7, <1>8, Alone, SavingStep

LEMMA SkipStepKeeps ==
    ASSUME WfInv, NEW p \in Runners, SkipStep(p) PROVE WfInv'
<1>1. /\ WfTypeOK /\ ApprovedIsGranted /\ runner[p].pc = "step" /\ Wf(p).at \in Steps
      /\ UNCHANGED <<approval, done, granted, overlapped, rerun>>
  BY DEF WfInv, SkipStep, AtStep, StepOf, history
<1> DEFINE w == [Wf(p) EXCEPT !.result[Wf(p).at] = "skipped"]
<1>2. Wf(p) \in WorkflowRow /\ Honest(Wf(p), done, passed, approval) /\ Wf(p).status = "running"
  BY <1>1, InHand
<1>3. w \in WorkflowRow /\ w.status = "running" /\ w.at = Wf(p).at /\ w.approvals = Wf(p).approvals
      /\ \A s \in Steps : w.result[s] = IF s = Wf(p).at THEN "skipped" ELSE Wf(p).result[s]
  BY <1>1, <1>2 DEF WorkflowRow, Results
<1>4. Save(p, Advance(w)) /\ (passed' = IF ByKey(p) THEN passed ELSE passed \cup {Wf(p).at})
  BY DEF SkipStep, StepOf
<1> HIDE DEF w
<1>5. Grows /\ ApprovedIsGranted'
  BY <1>1, <1>4 DEF Grows, ApprovedIsGranted
<1>6. Honest(Wf(p), done', passed', approval')
  BY <1>2, <1>5, HonestLasts
<1>7. Covered(Wf(p).at, done', passed')
  <2>1. CASE ByKey(p)
    <3>1. PICK u \in Steps : SameKey(Wf(p).at, u) /\ Wf(p).result[u] \in {"ok", "skipped"}
      BY <2>1 DEF ByKey, Executed, Kind, StepOf, SameKey
    <3> QED
      BY <1>1, <1>6, <3>1, KeyCovers DEF Honest
  <2>2. CASE ~ByKey(p)
    BY <1>1, <1>4, <2>2 DEF Covered
  <2> QED
    BY <2>1, <2>2
<1>8. Honest(w, done', passed', approval')
  BY <1>3, <1>6, <1>7 DEF Honest
<1>9. Advance(w) \in WorkflowRow /\ Honest(Advance(w), done', passed', approval')
      /\ Advance(w).status # "queued"
  BY <1>1, <1>3, <1>7, <1>8, AdvancedIsHonest, Advanced
<1>10. WfTypeOK'
  BY <1>1, <1>4, <1>9, SaveTypes DEF WfTypeOK
<1>11. ASSUME Calm, NEW s \in Steps, done[s] > 0
       PROVE  s < Advance(w).at /\ Advance(w).result[s] = "ok"
  <2>1. s < Wf(p).at /\ Wf(p).result[s] = "ok" /\ s \in Int /\ Wf(p).at \in Int
    BY <1>1, <1>2, <1>11, Alone DEF Steps, WorkflowRow
  <2>2. w.result[s] = "ok" /\ s < Wf(p).at + 1
    BY <1>3, <2>1
  <2> QED
    BY <1>3, <2>2, Advanced
<1> QED
  BY <1>1, <1>4, <1>5, <1>9, <1>10, <1>11, Alone, SavingStep

LEMMA DenyStepKeeps ==
    ASSUME WfInv, NEW p \in Runners, DenyStep(p) PROVE WfInv'
<1>1. /\ WfTypeOK /\ ApprovedIsGranted /\ runner[p].pc = "step" /\ Wf(p).at \in Steps
      /\ UNCHANGED <<approval, done, passed, granted, overlapped, rerun>>
  BY DEF WfInv, DenyStep, AtStep, StepOf, history
<1> DEFINE w == [Wf(p) EXCEPT !.result[Wf(p).at] = "failed"]
<1>2. Wf(p) \in WorkflowRow /\ Honest(Wf(p), done, passed, approval) /\ Wf(p).status = "running"
  BY <1>1, InHand
<1>3. w \in WorkflowRow /\ w.status = "running" /\ w.at = Wf(p).at /\ w.approvals = Wf(p).approvals
      /\ \A s \in Steps : w.result[s] = IF s = Wf(p).at THEN "failed" ELSE Wf(p).result[s]
  BY <1>1, <1>2 DEF WorkflowRow, Results
<1>4. Save(p, MarkFailed(w))
  BY DEF DenyStep, StepOf
<1> HIDE DEF w
<1>5. Grows /\ ApprovedIsGranted'
  BY <1>1 DEF Grows, ApprovedIsGranted
<1>6. Honest(w, done, passed, approval)
  BY <1>2, <1>3 DEF Honest
<1>7. MarkFailed(w) \in WorkflowRow /\ Honest(MarkFailed(w), done', passed', approval')
      /\ MarkFailed(w).status # "queued"
  BY <1>1, <1>3, <1>6, MarkedIsHonest, MarkedFailed
<1>8. WfTypeOK'
  BY <1>1, <1>4, <1>7, SaveTypes DEF WfTypeOK
<1>9. ASSUME Calm, NEW s \in Steps, done[s] > 0
      PROVE  s < MarkFailed(w).at /\ MarkFailed(w).result[s] = "ok"
  <2>1. s < Wf(p).at /\ Wf(p).result[s] = "ok" /\ s \in Int /\ Wf(p).at \in Int
    BY <1>1, <1>2, <1>9, Alone DEF Steps, WorkflowRow
  <2> QED
    BY <1>3, <2>1, MarkedFailed
<1> QED
  BY <1>1, <1>4, <1>5, <1>7, <1>8, <1>9, Alone, SavingStep

LEMMA BlockStepKeeps ==
    ASSUME WfInv, NEW p \in Runners, BlockStep(p) PROVE WfInv'
<1>1. /\ WfTypeOK /\ ApprovedIsGranted /\ runner[p].pc = "step" /\ Wf(p).at \in Steps
      /\ UNCHANGED <<done, passed, granted, overlapped, rerun>>
  BY DEF WfInv, BlockStep, AtStep, StepOf, history
<1>2. Wf(p) \in WorkflowRow /\ Honest(Wf(p), done, passed, approval) /\ Wf(p).status = "running"
  BY <1>1, InHand
<1>3. PICK a \in Approvals :
        /\ approval[a] = Nothing
        /\ approval' = [approval EXCEPT ![a] = [step |-> Wf(p).at, status |-> "pending"]]
        /\ Save(p, [Wf(p) EXCEPT !.approvals[Wf(p).at] = a, !.status = "blocked", !.blocking = a])
  BY DEF BlockStep, StepOf
<1> DEFINE w == [Wf(p) EXCEPT !.approvals[Wf(p).at] = a, !.status = "blocked", !.blocking = a]
           r == [step |-> Wf(p).at, status |-> "pending"]
<1>4. w \in WorkflowRow /\ w.status = "blocked" /\ w.at = Wf(p).at /\ w.result = Wf(p).result
      /\ w.blocking = a
      /\ \A s \in Steps : w.approvals[s] = IF s = Wf(p).at THEN a ELSE Wf(p).approvals[s]
  BY <1>1, <1>2 DEF WorkflowRow
<1>5. r \in ApprovalRow /\ r # Nothing /\ r.step = Wf(p).at /\ r.status = "pending"
  BY <1>1, NothingAssumption DEF ApprovalRow
<1>6. Save(p, w) /\ approval' = [approval EXCEPT ![a] = r]
  BY <1>3
<1> HIDE DEF w, r
<1>7. Grows /\ ApprovedIsGranted' /\ approval'[a] = r
  BY <1>1, <1>3, <1>5, <1>6 DEF Grows, ApprovedIsGranted, WfTypeOK
<1>8. Honest(Wf(p), done', passed', approval')
  BY <1>2, <1>7, HonestLasts
<1>9. Honest(w, done', passed', approval')
  BY <1>2, <1>4, <1>5, <1>7, <1>8, NothingAssumption DEF Honest
<1>10. WfTypeOK'
  BY <1>1, <1>4, <1>5, <1>6, SaveTypes DEF WfTypeOK
<1>11. Calm => /\ \A q \in Runners \ {p} : runner[q].pc = "none"
               /\ \A s \in Steps : done[s] > 0 => s < w.at /\ w.result[s] = "ok"
  BY <1>1, <1>4, Alone
<1> QED
  BY <1>1, <1>4, <1>6, <1>7, <1>9, <1>10, <1>11, SavingStep

LEMMA AfterCallKeeps ==
    ASSUME WfInv, NEW p \in Runners, AfterCall(p) PROVE WfInv'
<1>1. /\ WfTypeOK /\ ApprovedIsGranted /\ CalmIsKept /\ runner[p].pc = "called" /\ Wf(p).at \in Steps
      /\ UNCHANGED <<approval, done, passed, granted, overlapped, rerun>>
  BY DEF WfInv, AfterCall, AtStep, Wf, history, CopiesAreHonest
<1>2. Wf(p) \in WorkflowRow /\ Honest(Wf(p), done, passed, approval) /\ Wf(p).status = "running"
  BY <1>1, InHand
<1>3. Grows /\ ApprovedIsGranted'
  BY <1>1 DEF Grows, ApprovedIsGranted
<1>4. Calm => \A q \in Runners \ {p} : runner[q].pc = "none"
  BY <1>1 DEF CalmIsKept
<1>5. ASSUME Calm, NEW s \in Steps, done[s] > 0
      PROVE  Wf(p).result[s] = "ok" /\ (s < Wf(p).at \/ s = Wf(p).at)
  <2>1. Wf(p).at = wfFile.at /\ \A u \in Steps \ {wfFile.at} : Wf(p).result[u] = wfFile.result[u]
    BY <1>1, <1>5 DEF CalmIsKept, Wf
  <2>2. CASE s < wfFile.at /\ wfFile.result[s] = "ok"
    BY <1>1, <2>1, <2>2 DEF Steps
  <2>3. CASE \E q \in Runners : runner[q].pc = "called" /\ runner[q].wf.at = s /\ runner[q].wf.result[s] = "ok"
    BY <1>4, <1>5, <2>3 DEF Wf
  <2> QED
    BY <1>1, <1>5, <2>2, <2>3 DEF CalmIsKept
<1>6. ASSUME NEW wf \in WorkflowRow, Save(p, wf), Honest(wf, done, passed, approval), wf.status # "queued",
             Calm => \A s \in Steps : done[s] > 0 => s < wf.at /\ wf.result[s] = "ok"
      PROVE  WfInv'
  <2>1. WfTypeOK'
    BY <1>1, <1>6, SaveTypes DEF WfTypeOK
  <2> QED
    BY <1>1, <1>3, <1>4, <1>6, <2>1, SavingStep
<1>7. CASE Wf(p).result[Wf(p).at] = "ok"
  <2>1. Save(p, Advance(Wf(p)))
    BY <1>7 DEF AfterCall, StepOf
  <2>2. Covered(Wf(p).at, done, passed)
    BY <1>1, <1>2, <1>7 DEF Honest
  <2>3. Honest(Advance(Wf(p)), done, passed, approval)
    BY <1>1, <1>2, <2>2, AdvancedIsHonest
  <2>4. ASSUME Calm, NEW s \in Steps, done[s] > 0
        PROVE  s < Advance(Wf(p)).at /\ Advance(Wf(p)).result[s] = "ok"
    <3>1. s \in Int /\ Wf(p).at \in Int
      BY <1>1 DEF Steps
    <3>2. s < Wf(p).at + 1
      BY <1>5, <2>4, <3>1
    <3> QED
      BY <1>2, <1>5, <2>4, <3>2, Advanced
  <2> QED
    BY <1>2, <1>6, <2>1, <2>3, <2>4, Advanced
<1>8. CASE Wf(p).result[Wf(p).at] # "ok"
  <2>1. Save(p, MarkFailed(Wf(p)))
    BY <1>8 DEF AfterCall, StepOf
  <2>2. ASSUME Calm, NEW s \in Steps, done[s] > 0
        PROVE  s < MarkFailed(Wf(p)).at /\ MarkFailed(Wf(p)).result[s] = "ok"
    BY <1>2, <1>5, <1>8, <2>2, MarkedFailed
  <2> QED
    BY <1>2, <1>6, <2>1, <2>2, MarkedIsHonest, MarkedFailed
<1> QED
  BY <1>7, <1>8

LEMMA CallToolKeeps ==
    ASSUME WfInv, NEW p \in Runners, CallTool(p) PROVE WfInv'
<1>1. /\ WfTypeOK /\ CopiesAreHonest /\ ApprovedIsGranted /\ CalmIsKept
      /\ runner[p].pc = "step" /\ Wf(p).at \in Steps /\ ~ByKey(p)
      /\ UNCHANGED <<wfFile, approval, passed, torn, granted, overlapped, rerun>>
  BY DEF WfInv, CallTool, AtStep, StepOf, history
<1>2. Wf(p) \in WorkflowRow /\ Honest(Wf(p), done, passed, approval) /\ Wf(p).status = "running"
  BY <1>1, InHand
<1>3. PICK r \in {"ok", "failed"} :
        /\ runner' = [runner EXCEPT ![p].pc = "called", ![p].wf.result[Wf(p).at] = r]
        /\ done' = IF r = "ok" THEN [done EXCEPT ![Wf(p).at] = @ + 1] ELSE done
  BY DEF CallTool, StepOf
<1> DEFINE w == [Wf(p) EXCEPT !.result[Wf(p).at] = r]
           n == done[Wf(p).at] + 1
<1>4. w \in WorkflowRow /\ w.status = "running" /\ w.at = Wf(p).at /\ w.approvals = Wf(p).approvals
      /\ w.blocking = Wf(p).blocking
      /\ \A s \in Steps : w.result[s] = IF s = Wf(p).at THEN r ELSE Wf(p).result[s]
  BY <1>1, <1>2 DEF WorkflowRow, Results
<1>5. runner' = [runner EXCEPT ![p] = [pc |-> "called", wf |-> w]]
  <2> DEFINE x == [runner[p] EXCEPT !.pc = "called", !.wf.result[Wf(p).at] = r]
  <2>1. runner' = [runner EXCEPT ![p] = x]
    BY <1>1, <1>3 DEF WfTypeOK
  <2>2. x = [pc |-> "called", wf |-> w]
    <3>1. DOMAIN runner[p] = {"pc", "wf"}
      BY <1>1 DEF WfTypeOK
    <3>2. x = [[runner[p] EXCEPT !.pc = "called"] EXCEPT !.wf = w]
      BY DEF Wf
    <3> HIDE DEF w, x
    <3> QED
      BY <3>1, <3>2
  <2> QED
    BY <2>1, <2>2
<1>6. n \in Nat /\ n > 0 /\ (r = "ok" => done' = [done EXCEPT ![Wf(p).at] = n])
  BY <1>1, <1>3 DEF WfTypeOK
<1> HIDE DEF w, n
<1>7. \A q \in Runners : runner'[q] = IF q = p THEN [pc |-> "called", wf |-> w] ELSE runner[q]
  BY <1>1, <1>5 DEF WfTypeOK
<1>8. \A s \in Steps : done'[s] = IF r = "ok" /\ s = Wf(p).at THEN n ELSE done[s]
  BY <1>1, <1>3, <1>6 DEF WfTypeOK
<1>9. WfTypeOK'
  <2>1. done' \in [Steps -> Nat]
    BY <1>1, <1>3, <1>6 DEF WfTypeOK
  <2>2. runner' \in [Runners -> [pc : {"none", "step", "called"}, wf : WorkflowRow \cup {Nothing}]]
    BY <1>1, <1>4, <1>5 DEF WfTypeOK
  <2> QED
    BY <1>1, <2>1, <2>2 DEF WfTypeOK
<1>10. Grows /\ ApprovedIsGranted'
  BY <1>1, <1>6, <1>8 DEF Grows, ApprovedIsGranted
<1>11. Honest(w, done', passed', approval')
  <2>1. Honest(Wf(p), done', passed', approval')
    BY <1>2, <1>10, HonestLasts
  <2>2. r = "ok" => Covered(Wf(p).at, done', passed')
    BY <1>1, <1>6, <1>8 DEF Covered
  <2> QED
    BY <1>2, <1>4, <2>1, <2>2 DEF Honest
<1>12. CopiesAreHonest'
  <2>1. wfFile' # Nothing => Honest(wfFile', done', passed', approval')
    BY <1>1, <1>10, HonestLasts DEF WfTypeOK, CopiesAreHonest
  <2>2. ASSUME NEW q \in Runners, runner'[q].pc # "none"
        PROVE  /\ runner'[q].wf # Nothing /\ Honest(runner'[q].wf, done', passed', approval')
               /\ runner'[q].wf.status = "running"
               /\ runner'[q].pc = "called" => runner'[q].wf.at \in Steps
    <3>1. CASE q = p
      BY <1>1, <1>4, <1>7, <1>11, <3>1, NothingAssumption
    <3>2. CASE q # p
      <4>1. runner'[q] = runner[q] /\ runner[q].wf \in WorkflowRow
        BY <1>1, <1>7, <2>2, <3>2 DEF WfTypeOK, CopiesAreHonest
      <4> QED
        BY <1>1, <1>10, <2>2, <4>1, HonestLasts DEF CopiesAreHonest
    <3> QED
      BY <3>1, <3>2
  <2> QED
    BY <2>1, <2>2 DEF CopiesAreHonest
<1>13. CalmIsKept'
  <2> SUFFICES ASSUME Calm' PROVE CalmIsKept'
    BY DEF CalmIsKept
  <2>1. Calm
    BY <1>1, Zenon DEF Calm
  <2>2. /\ \A q \in Runners \ {p} : runner[q].pc = "none"
        /\ Wf(p) = wfFile /\ wfFile # Nothing
        /\ \A s \in Steps : done[s] > 0 => s < Wf(p).at /\ Wf(p).result[s] = "ok"
    BY <1>1, <2>1, Alone
  <2>3. \A q \in Runners : runner'[q].pc # "none" => q = p
    BY <1>7, <2>2
  <2>4. runner'[p].pc = "called" /\ runner'[p].wf = w
    BY <1>7
  <2>5. done[Wf(p).at] = 0
    BY <1>1, <2>2 DEF WfTypeOK, Steps
  <2>6. \A s \in Steps : done'[s] > 0 =>
           \/ s < wfFile.at /\ wfFile.result[s] = "ok"
           \/ r = "ok" /\ s = Wf(p).at
    BY <1>8, <2>2
  <2>7. \A s \in Steps : done[s] > 0 => ~SameKey(s, Wf(p).at) /\ ~SameKey(Wf(p).at, s)
    BY <1>1, <2>2 DEF ByKey, Executed, Kind, StepOf, SameKey
  <2>8. \A s, u \in Steps : SameKey(s, u) /\ done'[s] > 0 /\ done'[u] > 0 => s = u
    BY <1>1, <1>8, <2>1, <2>7 DEF CalmIsKept
  <2>9. \A s \in Steps : StepDefs[s].key # Nothing => done'[s] <= 1
    <3>1. n = 1
      BY <2>5 DEF n
    <3> QED
      BY <1>1, <1>8, <2>1, <3>1 DEF CalmIsKept
  <2>10. w.at = wfFile'.at /\ wfFile' = wfFile /\ (r = "ok" => w.result[Wf(p).at] = "ok")
         /\ \A s \in Steps \ {wfFile'.at} : w.result[s] = wfFile'.result[s]
    BY <1>1, <1>4, <2>2
  <2>11. \A s \in Steps : done'[s] > 0 =>
           \/ s < wfFile'.at /\ wfFile'.result[s] = "ok"
           \/ \E q \in Runners : /\ runner'[q].pc = "called" /\ runner'[q].wf.at = s
                                 /\ runner'[q].wf.result[s] = "ok"
    BY <1>4, <2>4, <2>6, <2>10
  <2> QED
    BY <2>2, <2>3, <2>4, <2>8, <2>9, <2>10, <2>11 DEF CalmIsKept
<1> QED
  BY <1>9, <1>10, <1>12, <1>13 DEF WfInv

LEMMA CrashKeeps ==
    ASSUME WfInv, NEW p \in Runners, Crash(p) PROVE WfInv'
<1>1. /\ WfTypeOK /\ CopiesAreHonest /\ ApprovedIsGranted
      /\ UNCHANGED <<wfFile, approval, done, granted, passed, overlapped, rerun>>
      /\ runner' = [runner EXCEPT ![p] = Resting] /\ torn' = TRUE
  BY DEF WfInv, Crash
<1>2. Resting \in [pc : {"none", "step", "called"}, wf : WorkflowRow \cup {Nothing}]
      /\ Resting.pc = "none"
  BY DEF Resting
<1>3. WfTypeOK' /\ \A q \in Runners : runner'[q].pc # "none" => runner'[q] = runner[q]
  BY <1>1, <1>2 DEF WfTypeOK
<1>4. CopiesAreHonest' /\ ApprovedIsGranted'
  BY <1>1, <1>3 DEF CopiesAreHonest, ApprovedIsGranted
<1>5. CalmIsKept'
  BY <1>1 DEF CalmIsKept, Calm
<1> QED
  BY <1>3, <1>4, <1>5 DEF WfInv

-----------------------------------------------------------------------------
(* Theorems.                                                                *)

LEMMA WfInitially == WfInit => WfInv
<1> SUFFICES ASSUME WfInit PROVE WfInv
  OBVIOUS
<1>1. Resting \in [pc : {"none", "step", "called"}, wf : WorkflowRow \cup {Nothing}]
      /\ Resting.pc = "none"
  BY DEF Resting
<1>2. WfTypeOK
  BY <1>1 DEF WfInit, WfTypeOK
<1>3. CopiesAreHonest /\ ApprovedIsGranted
  BY <1>1 DEF WfInit, CopiesAreHonest, ApprovedIsGranted
<1>4. CalmIsKept
  BY <1>1 DEF WfInit, CalmIsKept
<1> QED
  BY <1>2, <1>3, <1>4 DEF WfInv

LEMMA WfInductive == WfInv /\ [WfNext]_wfVars => WfInv'
<1> SUFFICES ASSUME WfInv, [WfNext]_wfVars PROVE WfInv'
  OBVIOUS
<1>1. CASE UNCHANGED wfVars
  BY <1>1 DEF wfVars, WfInv, WfTypeOK, CopiesAreHonest, ApprovedIsGranted, CalmIsKept, Calm
<1> QED
  BY <1>1, RunFileKeeps, ResumeKeeps, NoStepKeeps, SkipStepKeeps, DenyStepKeeps, BlockStepKeeps,
     CallToolKeeps, AfterCallKeeps, CrashKeeps, DecideKeeps DEF WfNext

LEMMA WorkflowInvariance == WfSpec => []WfInv
  BY WfInitially, WfInductive, PTL DEF WfSpec

\* A step whose key was executed is skipped, however often a workflow is resumed
\* and decided, for any steps, commands and approvals (workflow_runner.py: the
\* keys of the steps that succeeded are looked for before every step), unless a
\* command ends or cannot save, two run at once, or the original is run again.
THEOREM KeysRunOnce == WfSpec => []KeysOnce
<1>1. WfInv => KeysOnce
  <2> SUFFICES ASSUME WfInv, Calm, NEW key \in KeysUsed PROVE CalledOnce(key)
    BY DEF KeysOnce, Calm
  <2>1. /\ \A s, u \in Steps : SameKey(s, u) /\ done[s] > 0 /\ done[u] > 0 => s = u
        /\ \A s \in Steps : StepDefs[s].key # Nothing => done[s] <= 1
    BY DEF WfInv, CalmIsKept
  <2>2. key # Nothing
    BY DEF KeysUsed
  <2>3. \A s, u \in CallsOf(key) : s = u
    BY <2>1, <2>2 DEF CallsOf, SameKey
  <2>4. Cardinality(CallsOf(key)) <= 1
    <3>1. CASE CallsOf(key) = {}
      BY <3>1, FS_EmptySet
    <3>2. CASE CallsOf(key) # {}
      <4>1. PICK s \in CallsOf(key) : CallsOf(key) = {s}
        BY <2>3, <3>2
      <4>2. Cardinality(CallsOf(key)) = 1
        <5>1. Cardinality(CallsOf(key)) = Cardinality({s}) /\ Cardinality({s}) = 1
          BY <4>1, FS_Singleton, Zenon
        <5> QED
          BY <5>1
      <4> QED
        BY <4>2
    <3> QED
      BY <3>1, <3>2
  <2> QED
    BY <2>1, <2>2, <2>4 DEF CalledOnce
<1> QED
  BY <1>1, WorkflowInvariance, PTL

\* A workflow that is saved as completed has executed every step, or its key, or
\* passed it over, over any crashes, failed saves and commands at once.
THEOREM CompletionIsHonest == WfSpec => []CompletedIsHonest
<1>1. WfInv => CompletedIsHonest
  <2> SUFFICES ASSUME WfInv, wfFile # Nothing, wfFile.status = "completed", NEW s \in Steps
               PROVE  \/ s \in passed
                      \/ \E u \in Steps : /\ done[u] > 0
                                          /\ u = s \/ (StepDefs[u].key # Nothing /\ StepDefs[u].key = StepDefs[s].key)
                      \/ \E u \in passed : StepDefs[u].key # Nothing /\ StepDefs[u].key = StepDefs[s].key
    BY DEF CompletedIsHonest
  <2>1. Covered(s, done, passed)
    BY DEF WfInv, CopiesAreHonest, Honest
  <2> QED
    BY <2>1 DEF Covered, SameKey
<1> QED
  BY <1>1, WorkflowInvariance, PTL

\* A step that asks is called with an approval of its own that was granted,
\* whichever of any number of copies the command runs.
THEOREM AskedIsApproved == WfSpec => CalledWithApproval
<1>1. WfInv /\ [WfNext]_wfVars =>
        [\A s \in Steps : StepDefs[s].policy = "ask" /\ done'[s] > done[s]
            => \E a \in granted : approval[a].step = s]_wfVars
  <2> SUFFICES ASSUME WfInv, WfNext, NEW s \in Steps, StepDefs[s].policy = "ask", done'[s] > done[s]
               PROVE  \E a \in granted : approval[a].step = s
    OBVIOUS
  <2>1. done \in [Steps -> Nat]
    BY DEF WfInv, WfTypeOK
  <2>2. UNCHANGED done => FALSE
    BY <2>1
  <2>3. PICK p \in Runners : CallTool(p)
    BY <2>2 DEF WfNext, RunFile, Resume, NoStep, SkipStep, DenyStep, BlockStep, AfterCall, Crash, Decide
  <2>4. s = Wf(p).at /\ runner[p].pc = "step" /\ MayGo(p)
    BY <2>1, <2>3 DEF CallTool, StepOf, AtStep, Kind
  <2>5. Wf(p) \in WorkflowRow /\ Honest(Wf(p), done, passed, approval)
    BY <2>4, InHand
  <2> DEFINE a == Wf(p).approvals[s]
  <2>6. a # Nothing /\ approval[a].status = "approved"
    BY <2>4 DEF MayGo, StepOf
  <2>7. a \in Approvals /\ approval[a] # Nothing /\ approval[a].step = s
    BY <2>5, <2>6 DEF Honest, WorkflowRow
  <2> HIDE DEF a
  <2>8. a \in granted
    BY <2>6, <2>7 DEF WfInv, ApprovedIsGranted
  <2> QED
    BY <2>7, <2>8
<1> QED
  BY <1>1, WorkflowInvariance, PTL DEF WfSpec, CalledWithApproval

-----------------------------------------------------------------------------
(* WarmRuntime: leases.                                                     *)

Pcs == {"idle", "evictIdle", "use", "life", "look", "reserve", "load", "loadOwn", "retain",
        "leased", "shrink", "evict", "evictUse", "evictLife", "evictCheck", "evictDrop"}

TaskRecords ==
    [pc : Pcs, op : {"none", "acquire", "warm"}, model : Models \cup {Unheld},
     retained : BOOLEAN, victim : Models \cup {Unheld},
     back : {"idle", "evictIdle", "reserve", "shrink"},
     victims : SUBSET Models, wish : Budgets \cup {0}]

WarmTypeOK ==
    /\ cached \in [Models -> [state : {"out", "loading", "warm"}, refs : Int, idle : BOOLEAN]]
    /\ useLock \in [Models -> Tasks \cup {Unheld}]
    /\ lifeLock \in [Models -> Tasks \cup {Unheld}]
    /\ task \in [Tasks -> TaskRecords]

Evicting(t) == task[t].pc \in {"evict", "evictUse", "evictLife", "evictCheck", "evictDrop"}

\* t found its component absent and is loading it, or making room for it.
Loading(t) ==
    \/ task[t].pc \in {"reserve", "load", "loadOwn"}
    \/ Evicting(t) /\ task[t].back = "reserve"

HasLife(t) == TaskAt(t, "look") \/ Loading(t)
HasUse(t) == task[t].op = "acquire" /\ (task[t].pc \in {"life", "retain", "leased"} \/ HasLife(t))

\* Threads that serve a request have one, evictions have a victim, and the
\* victim of a load is another component.
WellFormed(t) ==
    /\ task[t].pc \in {"evictIdle", "use", "life", "retain", "leased"} \/ HasLife(t)
         \/ (Evicting(t) /\ task[t].back = "evictIdle")
         => task[t].model \in Models
    /\ task[t].pc \in {"use", "retain", "leased"} => task[t].op = "acquire"
    /\ task[t].retained => TaskAt(t, "leased")
    /\ Evicting(t) => task[t].victim \in Models /\ task[t].back # "idle"
    /\ Evicting(t) /\ task[t].back = "reserve" => task[t].victim # task[t].model

Locked(t) ==
    /\ HasUse(t) => useLock[task[t].model] = t
    /\ HasLife(t) => lifeLock[task[t].model] = t
    /\ task[t].pc \in {"evictLife", "evictCheck", "evictDrop"} => useLock[task[t].victim] = t
    /\ task[t].pc \in {"evictCheck", "evictDrop"} => lifeLock[task[t].victim] = t

Truthful(t) ==
    /\ Loading(t) => ~Resident(task[t].model)
    /\ TaskAt(t, "leased") /\ task[t].retained => Resident(task[t].model)

Sound(t) == WellFormed(t) /\ Locked(t) /\ Truthful(t)

\* The inductive invariant.
WarmInv == WarmTypeOK /\ \A t \in Tasks : Sound(t)

-----------------------------------------------------------------------------
(* A step of one thread does not disturb the others: it takes locks that    *)
(* are free, lets go of its own, writes over what it found absent and drops *)
(* what nobody can lease meanwhile.                                         *)

OwnTask(t) == \A u \in Tasks : u # t => task'[u] = task[u]

OwnLocks(t) ==
    \A m \in Models : /\ useLock[m] \in Tasks \ {t} => useLock'[m] = useLock[m]
                      /\ lifeLock[m] \in Tasks \ {t} => lifeLock'[m] = lifeLock[m]

OwnValues(t) ==
    \A m \in Models : /\ Resident(m)' => Resident(m) \/ lifeLock[m] = t
                      /\ Resident(m) => Resident(m)' \/ useLock[m] = t

OnlyOwn(t) == OwnTask(t) /\ OwnLocks(t) /\ OwnValues(t)

LEMMA OthersStaySound ==
    ASSUME WarmInv, NEW t \in Tasks, NEW u \in Tasks, u # t, OnlyOwn(t)
    PROVE  Sound(u)'
<1>1. Sound(u) /\ task'[u] = task[u]
  BY DEF WarmInv, OnlyOwn, OwnTask
<1>2. WellFormed(u)'
  BY <1>1 DEF Sound, WellFormed, HasLife, Loading, Evicting, TaskAt
<1>3. \A m \in Models : /\ useLock[m] = u => useLock'[m] = u
                        /\ lifeLock[m] = u => lifeLock'[m] = u
  BY DEF OnlyOwn, OwnLocks
<1>4. Locked(u)'
  BY <1>1, <1>3 DEF Sound, WellFormed, Locked, HasUse, HasLife, Loading, Evicting, TaskAt
<1>5. Loading(u)' => ~Resident(task[u].model)'
  <2> SUFFICES ASSUME Loading(u)' PROVE ~Resident(task[u].model)'
    OBVIOUS
  <2>1. Loading(u)
    BY <1>1 DEF Loading, Evicting
  <2>2. task[u].model \in Models /\ lifeLock[task[u].model] = u /\ ~Resident(task[u].model)
    BY <2>1, <1>1 DEF Sound, WellFormed, Locked, Truthful, HasLife
  <2> QED
    BY <1>1, <2>2 DEF OnlyOwn, OwnValues, Resident
<1>6. TaskAt(u, "leased")' /\ task'[u].retained => Resident(task[u].model)'
  <2> SUFFICES ASSUME TaskAt(u, "leased")', task'[u].retained PROVE Resident(task[u].model)'
    OBVIOUS
  <2>1. TaskAt(u, "leased") /\ task[u].retained
    BY <1>1 DEF TaskAt
  <2>2. task[u].model \in Models /\ useLock[task[u].model] = u /\ Resident(task[u].model)
    BY <2>1, <1>1 DEF Sound, WellFormed, Locked, Truthful, HasUse, TaskAt
  <2> QED
    BY <1>1, <2>2 DEF OnlyOwn, OwnValues, Resident
<1> QED
  BY <1>1, <1>2, <1>4, <1>5, <1>6 DEF Sound, Truthful, Loading, Evicting, TaskAt, Resident

LEMMA OneThreadsStep ==
    ASSUME WarmInv, NEW t \in Tasks, WarmTypeOK', OnlyOwn(t), Sound(t)'
    PROVE  WarmInv'
BY OthersStaySound DEF WarmInv

-----------------------------------------------------------------------------
(* What the parts of a step make of the thread's record.                    *)

GoodTask(t) == task' \in [Tasks -> TaskRecords] /\ OwnTask(t)

SameRequest(t) ==
    /\ task'[t].op = task[t].op /\ task'[t].model = task[t].model
    /\ task'[t].retained = task[t].retained

SameEviction(t) == task'[t].victim = task[t].victim /\ task'[t].back = task[t].back

LEMMA Moving ==
    ASSUME WarmTypeOK, NEW t \in Tasks, NEW pc \in Pcs, Moves(t, pc)
    PROVE  /\ GoodTask(t) /\ SameRequest(t)
           /\ task'[t].pc = pc /\ SameEviction(t)
<1> DEFINE r == [task[t] EXCEPT !.pc = pc]
<1>1. task[t] \in TaskRecords /\ task' = [task EXCEPT ![t] = r]
  BY DEF WarmTypeOK, Moves
<1>2. /\ r \in TaskRecords /\ r.pc = pc /\ r.op = task[t].op /\ r.model = task[t].model
      /\ r.retained = task[t].retained /\ r.victim = task[t].victim /\ r.back = task[t].back
  BY <1>1 DEF TaskRecords
<1> HIDE DEF r
<1> QED
  BY <1>1, <1>2 DEF WarmTypeOK, OwnTask, GoodTask, SameRequest, SameEviction

LEMMA Evicted ==
    ASSUME WarmTypeOK, NEW t \in Tasks, EvictDone(t)
    PROVE  /\ GoodTask(t) /\ SameRequest(t)
           /\ task'[t].pc = task[t].back
<1>1. task[t] \in TaskRecords /\ task[t].back \in Pcs
  BY DEF WarmTypeOK, TaskRecords, Pcs
<1> DEFINE r == [task[t] EXCEPT !.pc = task[t].back, !.victim = Unheld, !.back = "idle"]
<1>2. task' = [task EXCEPT ![t] = r]
  BY DEF WarmTypeOK, EvictDone
<1>3. /\ r \in TaskRecords /\ r.pc = task[t].back /\ r.op = task[t].op
      /\ r.model = task[t].model /\ r.retained = task[t].retained
  BY <1>1 DEF TaskRecords
<1> HIDE DEF r
<1> QED
  BY <1>2, <1>3 DEF WarmTypeOK, OwnTask, GoodTask, SameRequest, SameEviction

LEMMA Chosen ==
    ASSUME WarmTypeOK, NEW t \in Tasks, NEW v \in Models,
           NEW back \in {"evictIdle", "reserve", "shrink"}, Evicts(t, v, back)
    PROVE  /\ GoodTask(t) /\ SameRequest(t)
           /\ task'[t].pc = "evict" /\ task'[t].victim = v /\ task'[t].back = back
<1> DEFINE r == [task[t] EXCEPT !.pc = "evict", !.victim = v, !.back = back]
<1>1. "evict" \in Pcs /\ task[t] \in TaskRecords
  BY DEF Pcs, WarmTypeOK
<1>2. task' = [task EXCEPT ![t] = r]
  BY DEF WarmTypeOK, Evicts
<1>3. /\ r \in TaskRecords /\ r.pc = "evict" /\ r.op = task[t].op /\ r.model = task[t].model
      /\ r.retained = task[t].retained /\ r.victim = v /\ r.back = back
  BY <1>1 DEF TaskRecords
<1> HIDE DEF r
<1> QED
  BY <1>2, <1>3 DEF WarmTypeOK, OwnTask, GoodTask, SameRequest, SameEviction

LEMMA RestingTask ==
    ASSUME WarmTypeOK, NEW t \in Tasks, task' = [task EXCEPT ![t] = AtRest]
    PROVE  GoodTask(t) /\ task'[t].pc = "idle" /\ ~task'[t].retained
<1>1. AtRest \in TaskRecords
  BY DEF TaskRecords, AtRest, Pcs
<1> QED
  BY <1>1 DEF WarmTypeOK, OwnTask, GoodTask, AtRest

\* A thread at rest, or waiting with nothing in its hands, is sound.
LEMMA FreeIsSound ==
    ASSUME NEW t \in Tasks, task'[t].pc \in {"idle", "shrink"}, ~task'[t].retained
    PROVE  Sound(t)'
BY DEF Sound, WellFormed, Locked, Truthful, HasUse, HasLife, Loading, Evicting, TaskAt

Serves(t, pc) ==
    task' = [task EXCEPT ![t] = IF @.op = "acquire" THEN [@ EXCEPT !.pc = pc] ELSE AtRest]

LEMMA Serving ==
    ASSUME WarmTypeOK, NEW t \in Tasks, NEW pc \in {"leased", "retain"},
           Serves(t, pc)
    PROVE  /\ GoodTask(t)
           /\ \/ task'[t].pc = "idle" /\ ~task'[t].retained /\ task[t].op # "acquire"
              \/ SameRequest(t) /\ task[t].op = "acquire" /\ task'[t].pc = pc
<1>1. CASE task[t].op = "acquire"
  <2>1. pc \in Pcs /\ Moves(t, pc)
    BY <1>1 DEF Moves, Pcs, Serves
  <2> QED
    BY <1>1, <2>1, Moving
<1>2. CASE task[t].op # "acquire"
  <2>1. task' = [task EXCEPT ![t] = AtRest]
    BY <1>2 DEF Serves
  <2> QED
    BY <1>2, <2>1, RestingTask
<1> QED
  BY <1>1, <1>2

LEMMA LeasingIsSound ==
    ASSUME NEW t \in Tasks, SameRequest(t), task'[t].pc \in {"retain", "leased"}, ~task[t].retained,
           task[t].op = "acquire", task[t].model \in Models, useLock'[task[t].model] = t
    PROVE  Sound(t)'
BY DEF Sound, WellFormed, Locked, Truthful, HasUse, HasLife, Loading, Evicting, TaskAt,
   SameRequest

LEMMA NoRoomIsSound ==
    ASSUME WarmTypeOK, NEW t \in Tasks, Sound(t), HasLife(t), ~Resident(task[t].model),
           NoRoom(t), UNCHANGED <<cached, useLock>>
    PROVE  GoodTask(t) /\ Sound(t)'
<1>1. CASE task' = [task EXCEPT ![t] = AtRest]
  BY <1>1, RestingTask, FreeIsSound
<1>2. CASE Moves(t, "loadOwn") /\ UNCHANGED lifeLock
  <2>1. GoodTask(t) /\ SameRequest(t) /\ task'[t].pc = "loadOwn"
    BY <1>2, Moving DEF Pcs
  <2> QED
    BY <1>2, <2>1 DEF Sound, WellFormed, Locked, Truthful, HasUse, HasLife, Loading, Evicting,
       TaskAt, SameRequest, SameEviction, Resident
<1> QED
  BY <1>1, <1>2 DEF NoRoom

-----------------------------------------------------------------------------
(* The steps.                                                               *)

LEMMA EvictLeasedKeeps ==
    ASSUME WarmInv, NEW t \in Tasks, EvictLeased(t)
    PROVE  WarmInv'
<1>1. WarmTypeOK /\ Sound(t)
  BY DEF WarmInv
<1>2. GoodTask(t) /\ Sound(t)'
  <2>1. CASE EvictDone(t)
    BY <1>1, <2>1, Evicted DEF EvictLeased, Sound, WellFormed, Locked, Truthful, HasUse,
       HasLife, Loading, Evicting, TaskAt, SameRequest, SameEviction, Resident, WarmTypeOK, TaskRecords
  <2>2. CASE Moves(t, "evictUse")
    <3>1. GoodTask(t) /\ SameRequest(t) /\ task'[t].pc = "evictUse" /\ SameEviction(t)
      BY <1>1, <2>2, Moving DEF Pcs
    <3> QED
      BY <1>1, <3>1 DEF EvictLeased, Sound, WellFormed, Locked, Truthful, HasUse, HasLife,
         Loading, Evicting, TaskAt, SameRequest, SameEviction, Resident
  <2> QED
    BY <2>1, <2>2 DEF EvictLeased
<1>3. /\ cached' \in [Models -> [state : {"out", "loading", "warm"}, refs : Int, idle : BOOLEAN]]
      /\ OwnValues(t)
  BY <1>1, WarmAssumption DEF EvictLeased, WarmTypeOK, OwnValues, Sound, WellFormed, Locked,
     Truthful, HasUse, HasLife, Loading, Evicting, TaskAt, Resident
<1>4. /\ useLock' \in [Models -> Tasks \cup {Unheld}]
      /\ lifeLock' \in [Models -> Tasks \cup {Unheld}]
      /\ OwnLocks(t)
  BY <1>1, WarmAssumption DEF EvictLeased, WarmTypeOK, OwnLocks, Sound, WellFormed, Locked,
     Truthful, HasUse, HasLife, Loading, Evicting, TaskAt, Resident
<1>5. WarmTypeOK'
  BY <1>2, <1>3, <1>4 DEF WarmTypeOK, GoodTask
<1> QED
  BY <1>2, <1>3, <1>4, <1>5, OneThreadsStep DEF OnlyOwn, GoodTask

LEMMA EvictUseKeeps ==
    ASSUME WarmInv, NEW t \in Tasks, EvictUse(t)
    PROVE  WarmInv'
<1>1. WarmTypeOK /\ Sound(t)
  BY DEF WarmInv
<1>2. GoodTask(t) /\ Sound(t)'
  <2>1. Moves(t, "evictLife") /\ "evictLife" \in Pcs
    BY DEF EvictUse, Pcs
  <2>2. GoodTask(t) /\ SameRequest(t) /\ task'[t].pc = "evictLife" /\ SameEviction(t)
    BY <1>1, <2>1, Moving
  <2> QED
    BY <1>1, <2>2 DEF EvictUse, Sound, WellFormed, Locked, Truthful, HasUse, HasLife, Loading,
       Evicting, TaskAt, SameRequest, SameEviction, Resident, WarmTypeOK
<1>3. /\ cached' \in [Models -> [state : {"out", "loading", "warm"}, refs : Int, idle : BOOLEAN]]
      /\ OwnValues(t)
  BY <1>1, WarmAssumption DEF EvictUse, WarmTypeOK, OwnValues, Sound, WellFormed, Locked,
     Truthful, HasUse, HasLife, Loading, Evicting, TaskAt, Resident
<1>4. /\ useLock' \in [Models -> Tasks \cup {Unheld}]
      /\ lifeLock' \in [Models -> Tasks \cup {Unheld}]
      /\ OwnLocks(t)
  BY <1>1, WarmAssumption DEF EvictUse, WarmTypeOK, OwnLocks, Sound, WellFormed, Locked,
     Truthful, HasUse, HasLife, Loading, Evicting, TaskAt, Resident
<1>5. WarmTypeOK'
  BY <1>2, <1>3, <1>4 DEF WarmTypeOK, GoodTask
<1> QED
  BY <1>2, <1>3, <1>4, <1>5, OneThreadsStep DEF OnlyOwn, GoodTask

LEMMA EvictLifeKeeps ==
    ASSUME WarmInv, NEW t \in Tasks, EvictLife(t)
    PROVE  WarmInv'
<1>1. WarmTypeOK /\ Sound(t)
  BY DEF WarmInv
<1>2. GoodTask(t) /\ Sound(t)'
  <2>1. Moves(t, "evictCheck") /\ "evictCheck" \in Pcs
    BY DEF EvictLife, Pcs
  <2>2. GoodTask(t) /\ SameRequest(t) /\ task'[t].pc = "evictCheck" /\ SameEviction(t)
    BY <1>1, <2>1, Moving
  <2> QED
    BY <1>1, <2>2 DEF EvictLife, Sound, WellFormed, Locked, Truthful, HasUse, HasLife, Loading,
       Evicting, TaskAt, SameRequest, SameEviction, Resident, WarmTypeOK
<1>3. /\ cached' \in [Models -> [state : {"out", "loading", "warm"}, refs : Int, idle : BOOLEAN]]
      /\ OwnValues(t)
  BY <1>1, WarmAssumption DEF EvictLife, WarmTypeOK, OwnValues, Sound, WellFormed, Locked,
     Truthful, HasUse, HasLife, Loading, Evicting, TaskAt, Resident
<1>4. /\ useLock' \in [Models -> Tasks \cup {Unheld}]
      /\ lifeLock' \in [Models -> Tasks \cup {Unheld}]
      /\ OwnLocks(t)
  BY <1>1, WarmAssumption DEF EvictLife, WarmTypeOK, OwnLocks, Sound, WellFormed, Locked,
     Truthful, HasUse, HasLife, Loading, Evicting, TaskAt, Resident
<1>5. WarmTypeOK'
  BY <1>2, <1>3, <1>4 DEF WarmTypeOK, GoodTask
<1> QED
  BY <1>2, <1>3, <1>4, <1>5, OneThreadsStep DEF OnlyOwn, GoodTask

LEMMA EvictCheckKeeps ==
    ASSUME WarmInv, NEW t \in Tasks, EvictCheck(t)
    PROVE  WarmInv'
<1>1. WarmTypeOK /\ Sound(t)
  BY DEF WarmInv
<1>2. GoodTask(t) /\ Sound(t)'
  <2>1. CASE Moves(t, "evictDrop") /\ UNCHANGED <<cached, useLock, lifeLock>>
    <3>1. GoodTask(t) /\ SameRequest(t) /\ task'[t].pc = "evictDrop" /\ SameEviction(t)
      BY <1>1, <2>1, Moving DEF Pcs
    <3> QED
      BY <1>1, <2>1, <3>1 DEF EvictCheck, Sound, WellFormed, Locked, Truthful, HasUse, HasLife,
         Loading, Evicting, TaskAt, SameRequest, SameEviction, Resident
  <2>2. CASE /\ EvictDone(t) /\ UNCHANGED cached
             /\ useLock' = LetGo(useLock, task[t].victim, t)
             /\ lifeLock' = LetGo(lifeLock, task[t].victim, t)
    <3>1. GoodTask(t) /\ SameRequest(t) /\ task'[t].pc = task[t].back
      BY <1>1, <2>2, Evicted
    <3> QED
      BY <1>1, <2>2, <3>1 DEF EvictCheck, LetGo, Sound, WellFormed, Locked, Truthful, HasUse,
         HasLife, Loading, Evicting, TaskAt, SameRequest, SameEviction, Resident, WarmTypeOK, TaskRecords
  <2> QED
    BY <2>1, <2>2 DEF EvictCheck
<1>3. /\ cached' \in [Models -> [state : {"out", "loading", "warm"}, refs : Int, idle : BOOLEAN]]
      /\ OwnValues(t)
  BY <1>1, WarmAssumption DEF EvictCheck, WarmTypeOK, OwnValues, Sound, WellFormed, Locked,
     Truthful, HasUse, HasLife, Loading, Evicting, TaskAt, Resident
<1>4. /\ useLock' \in [Models -> Tasks \cup {Unheld}]
      /\ lifeLock' \in [Models -> Tasks \cup {Unheld}]
      /\ OwnLocks(t)
  BY <1>1, WarmAssumption DEF EvictCheck, LetGo, WarmTypeOK, OwnLocks, Sound, WellFormed,
     Locked, Truthful, HasUse, HasLife, Loading, Evicting, TaskAt, Resident
<1>5. WarmTypeOK'
  BY <1>2, <1>3, <1>4 DEF WarmTypeOK, GoodTask
<1> QED
  BY <1>2, <1>3, <1>4, <1>5, OneThreadsStep DEF OnlyOwn, GoodTask

LEMMA EvictDropKeeps ==
    ASSUME WarmInv, NEW t \in Tasks, EvictDrop(t)
    PROVE  WarmInv'
<1>1. WarmTypeOK /\ Sound(t)
  BY DEF WarmInv
<1>2. GoodTask(t) /\ Sound(t)'
  <2>1. GoodTask(t) /\ SameRequest(t) /\ task'[t].pc = task[t].back
    BY <1>1, Evicted DEF EvictDrop
  <2> QED
    BY <1>1, <2>1 DEF EvictDrop, LetGo, Sound, WellFormed, Locked, Truthful, HasUse, HasLife,
       Loading, Evicting, TaskAt, SameRequest, SameEviction, Resident, WarmTypeOK, TaskRecords
<1>3. /\ cached' \in [Models -> [state : {"out", "loading", "warm"}, refs : Int, idle : BOOLEAN]]
      /\ OwnValues(t)
  BY <1>1, WarmAssumption DEF EvictDrop, WarmTypeOK, OwnValues, Sound, WellFormed, Locked,
     Truthful, HasUse, HasLife, Loading, Evicting, TaskAt, Resident
<1>4. /\ useLock' \in [Models -> Tasks \cup {Unheld}]
      /\ lifeLock' \in [Models -> Tasks \cup {Unheld}]
      /\ OwnLocks(t)
  BY <1>1, WarmAssumption DEF EvictDrop, LetGo, WarmTypeOK, OwnLocks, Sound, WellFormed, Locked,
     Truthful, HasUse, HasLife, Loading, Evicting, TaskAt, Resident
<1>5. WarmTypeOK'
  BY <1>2, <1>3, <1>4 DEF WarmTypeOK, GoodTask
<1> QED
  BY <1>2, <1>3, <1>4, <1>5, OneThreadsStep DEF OnlyOwn, GoodTask

LEMMA EvictIdleKeeps ==
    ASSUME WarmInv, NEW t \in Tasks, EvictIdle(t)
    PROVE  WarmInv'
<1>1. WarmTypeOK /\ Sound(t)
  BY DEF WarmInv
<1>2. GoodTask(t) /\ Sound(t)'
  <2>1. CASE task[t].victims = {}
    <3>1. PICK pc \in {"use", "life"} : Moves(t, pc) /\ (pc = "use" <=> task[t].op = "acquire")
      BY <2>1 DEF EvictIdle
    <3>2. GoodTask(t) /\ SameRequest(t) /\ task'[t].pc = pc
      BY <1>1, <3>1, Moving DEF Pcs
    <3> QED
      BY <1>1, <3>1, <3>2 DEF EvictIdle, Sound, WellFormed, Locked, Truthful, HasUse, HasLife,
         Loading, Evicting, TaskAt, SameRequest, SameEviction, Resident
  <2>2. CASE task[t].victims # {}
    <3>1. PICK v \in task[t].victims :
             task' = [task EXCEPT ![t].pc = "evict", ![t].victim = v, ![t].back = "evictIdle",
                                  ![t].victims = @ \ {v}]
      BY <2>2 DEF EvictIdle
    <3> DEFINE r == [task[t] EXCEPT !.pc = "evict", !.victim = v, !.back = "evictIdle", !.victims = @ \ {v}]
    <3>2. task[t] \in TaskRecords /\ "evict" \in Pcs /\ v \in Models
      BY <1>1, <3>1 DEF WarmTypeOK, TaskRecords, Pcs
    <3>3. task' = [task EXCEPT ![t] = r]
      BY <1>1, <3>1 DEF WarmTypeOK
    <3>4. r \in TaskRecords /\ r.pc = "evict" /\ r.op = task[t].op /\ r.model = task[t].model
            /\ r.victim = v /\ r.back = "evictIdle" /\ r.retained = task[t].retained
      BY <3>2 DEF TaskRecords
    <3> HIDE DEF r
    <3>5. GoodTask(t) /\ task'[t] = r
      BY <1>1, <3>3, <3>4 DEF WarmTypeOK, OwnTask, GoodTask
    <3> QED
      BY <1>1, <3>2, <3>4, <3>5 DEF EvictIdle, Sound, WellFormed, Locked, Truthful, HasUse,
         HasLife, Loading, Evicting, TaskAt, SameRequest, SameEviction, Resident
  <2> QED
    BY <2>1, <2>2
<1>3. /\ cached' \in [Models -> [state : {"out", "loading", "warm"}, refs : Int, idle : BOOLEAN]]
      /\ OwnValues(t)
  BY <1>1, WarmAssumption DEF EvictIdle, WarmTypeOK, OwnValues, Sound, WellFormed, Locked,
     Truthful, HasUse, HasLife, Loading, Evicting, TaskAt, Resident
<1>4. /\ useLock' \in [Models -> Tasks \cup {Unheld}]
      /\ lifeLock' \in [Models -> Tasks \cup {Unheld}]
      /\ OwnLocks(t)
  BY <1>1, WarmAssumption DEF EvictIdle, WarmTypeOK, OwnLocks, Sound, WellFormed, Locked,
     Truthful, HasUse, HasLife, Loading, Evicting, TaskAt, Resident
<1>5. WarmTypeOK'
  BY <1>2, <1>3, <1>4 DEF WarmTypeOK, GoodTask
<1> QED
  BY <1>2, <1>3, <1>4, <1>5, OneThreadsStep DEF OnlyOwn, GoodTask

LEMMA TakeUseKeeps ==
    ASSUME WarmInv, NEW t \in Tasks, TakeUse(t)
    PROVE  WarmInv'
<1>1. WarmTypeOK /\ Sound(t)
  BY DEF WarmInv
<1>2. GoodTask(t) /\ Sound(t)'
  <2>1. Moves(t, "life") /\ "life" \in Pcs
    BY DEF TakeUse, Pcs
  <2>2. GoodTask(t) /\ SameRequest(t) /\ task'[t].pc = "life" /\ SameEviction(t)
    BY <1>1, <2>1, Moving
  <2> QED
    BY <1>1, <2>2 DEF TakeUse, Sound, WellFormed, Locked, Truthful, HasUse, HasLife, Loading,
       Evicting, TaskAt, SameRequest, SameEviction, Resident, WarmTypeOK
<1>3. /\ cached' \in [Models -> [state : {"out", "loading", "warm"}, refs : Int, idle : BOOLEAN]]
      /\ OwnValues(t)
  BY <1>1, WarmAssumption DEF TakeUse, WarmTypeOK, OwnValues, Sound, WellFormed, Locked,
     Truthful, HasUse, HasLife, Loading, Evicting, TaskAt, Resident
<1>4. /\ useLock' \in [Models -> Tasks \cup {Unheld}]
      /\ lifeLock' \in [Models -> Tasks \cup {Unheld}]
      /\ OwnLocks(t)
  BY <1>1, WarmAssumption DEF TakeUse, WarmTypeOK, OwnLocks, Sound, WellFormed, Locked,
     Truthful, HasUse, HasLife, Loading, Evicting, TaskAt, Resident
<1>5. WarmTypeOK'
  BY <1>2, <1>3, <1>4 DEF WarmTypeOK, GoodTask
<1> QED
  BY <1>2, <1>3, <1>4, <1>5, OneThreadsStep DEF OnlyOwn, GoodTask

LEMMA TakeLifeKeeps ==
    ASSUME WarmInv, NEW t \in Tasks, TakeLife(t)
    PROVE  WarmInv'
<1>1. WarmTypeOK /\ Sound(t)
  BY DEF WarmInv
<1>2. GoodTask(t) /\ Sound(t)'
  <2>1. Moves(t, "look") /\ "look" \in Pcs
    BY DEF TakeLife, Pcs
  <2>2. GoodTask(t) /\ SameRequest(t) /\ task'[t].pc = "look" /\ SameEviction(t)
    BY <1>1, <2>1, Moving
  <2> QED
    BY <1>1, <2>2 DEF TakeLife, Sound, WellFormed, Locked, Truthful, HasUse, HasLife, Loading,
       Evicting, TaskAt, SameRequest, SameEviction, Resident, WarmTypeOK
<1>3. /\ cached' \in [Models -> [state : {"out", "loading", "warm"}, refs : Int, idle : BOOLEAN]]
      /\ OwnValues(t)
  BY <1>1, WarmAssumption DEF TakeLife, WarmTypeOK, OwnValues, Sound, WellFormed, Locked,
     Truthful, HasUse, HasLife, Loading, Evicting, TaskAt, Resident
<1>4. /\ useLock' \in [Models -> Tasks \cup {Unheld}]
      /\ lifeLock' \in [Models -> Tasks \cup {Unheld}]
      /\ OwnLocks(t)
  BY <1>1, WarmAssumption DEF TakeLife, WarmTypeOK, OwnLocks, Sound, WellFormed, Locked,
     Truthful, HasUse, HasLife, Loading, Evicting, TaskAt, Resident
<1>5. WarmTypeOK'
  BY <1>2, <1>3, <1>4 DEF WarmTypeOK, GoodTask
<1> QED
  BY <1>2, <1>3, <1>4, <1>5, OneThreadsStep DEF OnlyOwn, GoodTask

LEMMA LookKeeps ==
    ASSUME WarmInv, NEW t \in Tasks, Look(t)
    PROVE  WarmInv'
<1>1. WarmTypeOK /\ Sound(t)
  BY DEF WarmInv
<1>2. GoodTask(t) /\ Sound(t)'
  <2>1. CASE Served(t, FALSE)
    <3>1. /\ GoodTask(t)
          /\ \/ task'[t].pc = "idle" /\ ~task'[t].retained
             \/ SameRequest(t) /\ task'[t].pc = "retain" /\ task[t].op = "acquire"
      <4>1. Serves(t, "retain")
        BY <2>1 DEF Served, Serves
      <4> QED
        BY <1>1, <4>1, Serving
    <3>2. TaskAt(t, "look") /\ UNCHANGED useLock /\ task[t].model \in Models /\ ~task[t].retained
      BY <1>1 DEF Look, Sound, WellFormed, Locked, Truthful, HasUse, HasLife, Loading, Evicting,
         TaskAt, SameRequest, SameEviction, Resident
    <3>3. CASE task'[t].pc = "idle"
      BY <3>1, <3>3, FreeIsSound
    <3>4. CASE task'[t].pc # "idle"
      <4>1. useLock'[task[t].model] = t
        BY <1>1, <3>1, <3>2, <3>4 DEF Sound, Locked, HasUse, HasLife, TaskAt
      <4> QED
        BY <3>1, <3>2, <3>4, <4>1, LeasingIsSound
    <3> QED
      BY <3>1, <3>3, <3>4
  <2>2. CASE NoRoom(t) /\ UNCHANGED cached /\ ~Resident(task[t].model)
    BY <1>1, <2>2, NoRoomIsSound DEF Look, HasLife, TaskAt
  <2>3. CASE Moves(t, "reserve") /\ UNCHANGED <<cached, lifeLock>> /\ ~Resident(task[t].model)
    <3>1. GoodTask(t) /\ SameRequest(t) /\ task'[t].pc = "reserve"
      BY <1>1, <2>3, Moving DEF Pcs
    <3> QED
      BY <1>1, <2>3, <3>1 DEF Look, Sound, WellFormed, Locked, Truthful, HasUse, HasLife,
         Loading, Evicting, TaskAt, SameRequest, SameEviction, Resident
  <2> QED
    BY <2>1, <2>2, <2>3 DEF Look
<1>3. /\ cached' \in [Models -> [state : {"out", "loading", "warm"}, refs : Int, idle : BOOLEAN]]
      /\ OwnValues(t)
  <2>1. task[t].model \in Models
    BY <1>1 DEF Look, Sound, WellFormed, Locked, Truthful, HasUse, HasLife, Loading, Evicting,
       TaskAt, Resident
  <2>3. CASE UNCHANGED cached
    BY <1>1, <2>1, <2>3 DEF WarmTypeOK, OwnValues, Resident
  <2>4. CASE cached' = [cached EXCEPT ![task[t].model].idle = FALSE]
    BY <1>1, <2>1, <2>4 DEF WarmTypeOK, OwnValues, Resident
  <2> QED
    BY <2>3, <2>4 DEF Look
<1>4. /\ useLock' \in [Models -> Tasks \cup {Unheld}]
      /\ lifeLock' \in [Models -> Tasks \cup {Unheld}]
      /\ OwnLocks(t)
  BY <1>1, WarmAssumption DEF Look, Served, NoRoom, LetGo, WarmTypeOK, OwnLocks, Sound,
     WellFormed, Locked, Truthful, HasUse, HasLife, Loading, Evicting, TaskAt, Resident
<1>5. WarmTypeOK'
  BY <1>2, <1>3, <1>4 DEF WarmTypeOK, GoodTask
<1> QED
  BY <1>2, <1>3, <1>4, <1>5, OneThreadsStep DEF OnlyOwn, GoodTask

LEMMA ReserveKeeps ==
    ASSUME WarmInv, NEW t \in Tasks, Reserve(t)
    PROVE  WarmInv'
<1>1. WarmTypeOK /\ Sound(t)
  BY DEF WarmInv
<1>2. GoodTask(t) /\ Sound(t)'
  <2>1. CASE Moves(t, "load") /\ cached' = [cached EXCEPT ![task[t].model].state = "loading"] /\ UNCHANGED lifeLock
    <3>1. GoodTask(t) /\ SameRequest(t) /\ task'[t].pc = "load"
      BY <1>1, <2>1, Moving DEF Pcs
    <3> QED
      BY <1>1, <2>1, <3>1 DEF Reserve, Sound, WellFormed, Locked, Truthful, HasUse, HasLife,
         Loading, Evicting, TaskAt, SameRequest, SameEviction, Resident, WarmTypeOK
  <2>2. CASE NoRoom(t) /\ UNCHANGED cached
    BY <1>1, <2>2, NoRoomIsSound DEF Reserve, HasLife, Loading, Sound, Truthful, TaskAt
  <2>3. ASSUME NEW v \in Victims(task[t].model), Evicts(t, v, "reserve"), UNCHANGED <<cached, lifeLock>>
        PROVE  GoodTask(t) /\ Sound(t)'
    <3>1. v \in Models /\ v # task[t].model
      BY DEF Victims
    <3>2. GoodTask(t) /\ SameRequest(t) /\ task'[t].pc = "evict" /\ task'[t].victim = v /\ task'[t].back = "reserve"
      BY <1>1, <2>3, <3>1, Chosen
    <3> QED
      BY <1>1, <2>3, <3>1, <3>2 DEF Reserve, Sound, WellFormed, Locked, Truthful, HasUse,
         HasLife, Loading, Evicting, TaskAt, SameRequest, SameEviction, Resident
  <2> QED
    BY <2>1, <2>2, <2>3 DEF Reserve
<1>3. /\ cached' \in [Models -> [state : {"out", "loading", "warm"}, refs : Int, idle : BOOLEAN]]
      /\ OwnValues(t)
  <2>1. task[t].model \in Models
    BY <1>1 DEF Reserve, Sound, WellFormed, Locked, Truthful, HasUse, HasLife, Loading,
       Evicting, TaskAt, Resident
  <2>2. ~Resident(task[t].model) /\ lifeLock[task[t].model] = t
    BY <1>1 DEF Reserve, Sound, WellFormed, Locked, Truthful, HasUse, HasLife, Loading,
       Evicting, TaskAt, Resident
  <2>3. CASE UNCHANGED cached
    BY <1>1, <2>1, <2>2, <2>3 DEF WarmTypeOK, OwnValues, Resident
  <2>4. CASE cached' = [cached EXCEPT ![task[t].model].state = "loading"]
    BY <1>1, <2>1, <2>2, <2>4 DEF WarmTypeOK, OwnValues, Resident
  <2> QED
    BY <2>3, <2>4 DEF Reserve
<1>4. /\ useLock' \in [Models -> Tasks \cup {Unheld}]
      /\ lifeLock' \in [Models -> Tasks \cup {Unheld}]
      /\ OwnLocks(t)
  BY <1>1, WarmAssumption DEF Reserve, NoRoom, LetGo, WarmTypeOK, OwnLocks, Sound, WellFormed,
     Locked, Truthful, HasUse, HasLife, Loading, Evicting, TaskAt, Resident
<1>5. WarmTypeOK'
  BY <1>2, <1>3, <1>4 DEF WarmTypeOK, GoodTask
<1> QED
  BY <1>2, <1>3, <1>4, <1>5, OneThreadsStep DEF OnlyOwn, GoodTask

LEMMA LoadKeeps ==
    ASSUME WarmInv, NEW t \in Tasks, Load(t)
    PROVE  WarmInv'
<1>1. WarmTypeOK /\ Sound(t)
  BY DEF WarmInv
<1>2. GoodTask(t) /\ Sound(t)'
  <2>1. CASE /\ Served(t, TaskAt(t, "loadOwn")) /\ UNCHANGED useLock
             /\ cached' = [cached EXCEPT ![task[t].model].state = IF TaskAt(t, "loadOwn") THEN "out" ELSE "warm",
                                       ![task[t].model].idle = FALSE]
    <3>1. /\ GoodTask(t)
          /\ \/ task'[t].pc = "idle" /\ ~task'[t].retained
             \/ SameRequest(t) /\ task'[t].pc = "retain" /\ task[t].op = "acquire"
             \/ SameRequest(t) /\ task'[t].pc = "leased" /\ task[t].op = "acquire" /\ TaskAt(t, "loadOwn")
      <4>1. CASE TaskAt(t, "loadOwn")
        <5>1. Serves(t, "leased")
          BY <2>1, <4>1 DEF Served, Serves
        <5> QED
          BY <1>1, <4>1, <5>1, Serving
      <4>2. CASE ~TaskAt(t, "loadOwn")
        <5>1. Serves(t, "retain")
          BY <2>1, <4>2 DEF Served, Serves
        <5> QED
          BY <1>1, <5>1, Serving
      <4> QED
        BY <4>1, <4>2
    <3>2. task[t].pc \in {"load", "loadOwn"} /\ task[t].model \in Models /\ ~task[t].retained
      BY <1>1 DEF Load, Sound, WellFormed, Locked, Truthful, HasUse, HasLife, Loading, Evicting,
         TaskAt, SameRequest, SameEviction, Resident
    <3>3. CASE task'[t].pc = "idle"
      BY <3>1, <3>3, FreeIsSound
    <3>4. CASE task'[t].pc # "idle"
      <4>1. useLock'[task[t].model] = t
        BY <1>1, <2>1, <3>1, <3>2, <3>4 DEF Sound, Locked, HasUse, HasLife, Loading, TaskAt
      <4> QED
        BY <3>1, <3>2, <3>4, <4>1, LeasingIsSound
    <3> QED
      BY <3>1, <3>3, <3>4
  <2>2. CASE task' = [task EXCEPT ![t] = AtRest]
    BY <1>1, <2>2, RestingTask, FreeIsSound
  <2> QED
    BY <2>1, <2>2 DEF Load
<1>3. /\ cached' \in [Models -> [state : {"out", "loading", "warm"}, refs : Int, idle : BOOLEAN]]
      /\ OwnValues(t)
  <2>1. task[t].model \in Models
    BY <1>1 DEF Load, Sound, WellFormed, Locked, Truthful, HasUse, HasLife, Loading, Evicting,
       TaskAt, Resident
  <2>2. ~Resident(task[t].model) /\ lifeLock[task[t].model] = t
    BY <1>1 DEF Load, Sound, WellFormed, Locked, Truthful, HasUse, HasLife, Loading, Evicting,
       TaskAt, Resident
  <2>3. CASE cached' = [cached EXCEPT ![task[t].model].state = IF TaskAt(t, "loadOwn") THEN "out" ELSE "warm", ![task[t].model].idle = FALSE]
    BY <1>1, <2>1, <2>2, <2>3 DEF WarmTypeOK, OwnValues, Resident
  <2>4. CASE cached' = [cached EXCEPT ![task[t].model].state = "out"]
    BY <1>1, <2>1, <2>2, <2>4 DEF WarmTypeOK, OwnValues, Resident
  <2> QED
    BY <2>3, <2>4 DEF Load
<1>4. /\ useLock' \in [Models -> Tasks \cup {Unheld}]
      /\ lifeLock' \in [Models -> Tasks \cup {Unheld}]
      /\ OwnLocks(t)
  BY <1>1, WarmAssumption DEF Load, Served, LetGo, WarmTypeOK, OwnLocks, Sound, WellFormed,
     Locked, Truthful, HasUse, HasLife, Loading, Evicting, TaskAt, Resident
<1>5. WarmTypeOK'
  BY <1>2, <1>3, <1>4 DEF WarmTypeOK, GoodTask
<1> QED
  BY <1>2, <1>3, <1>4, <1>5, OneThreadsStep DEF OnlyOwn, GoodTask

LEMMA RetainKeeps ==
    ASSUME WarmInv, NEW t \in Tasks, Retain(t)
    PROVE  WarmInv'
<1>1. WarmTypeOK /\ Sound(t)
  BY DEF WarmInv
<1>2. GoodTask(t) /\ Sound(t)'
  <2>1. task' = [task EXCEPT ![t].pc = "leased", ![t].retained = Resident(task[t].model)]
    BY DEF Retain
  <2> DEFINE r == [task[t] EXCEPT !.pc = "leased", !.retained = Resident(task[t].model)]
  <2>2. task[t] \in TaskRecords /\ "leased" \in Pcs /\ Resident(task[t].model) \in BOOLEAN
    BY <1>1 DEF WarmTypeOK, Pcs, Resident
  <2>3. task' = [task EXCEPT ![t] = r]
    BY <1>1, <2>1 DEF WarmTypeOK
  <2>4. r \in TaskRecords /\ r.pc = "leased" /\ r.op = task[t].op /\ r.model = task[t].model
          /\ r.retained = Resident(task[t].model)
    BY <2>2 DEF TaskRecords
  <2> HIDE DEF r
  <2>5. GoodTask(t) /\ task'[t] = r
    BY <1>1, <2>3, <2>4 DEF WarmTypeOK, OwnTask, GoodTask
  <2>6. TaskAt(t, "retain") /\ UNCHANGED <<useLock, lifeLock>> /\ task[t].model \in Models
    BY <1>1 DEF Retain, Sound, WellFormed, Locked, Truthful, HasUse, HasLife, Loading, Evicting,
       TaskAt, SameRequest, SameEviction, Resident
  <2>7. Resident(task[t].model) => cached'[task[t].model].state = "warm"
    BY <1>1, <2>6 DEF Retain, Resident, WarmTypeOK
  <2> QED
    BY <1>1, <2>4, <2>5, <2>6, <2>7 DEF Sound, WellFormed, Locked, Truthful, HasUse, HasLife,
       Loading, Evicting, TaskAt, SameRequest, SameEviction, Resident
<1>3. /\ cached' \in [Models -> [state : {"out", "loading", "warm"}, refs : Int, idle : BOOLEAN]]
      /\ OwnValues(t)
  BY <1>1, WarmAssumption DEF Retain, WarmTypeOK, OwnValues, Sound, WellFormed, Locked,
     Truthful, HasUse, HasLife, Loading, Evicting, TaskAt, Resident
<1>4. /\ useLock' \in [Models -> Tasks \cup {Unheld}]
      /\ lifeLock' \in [Models -> Tasks \cup {Unheld}]
      /\ OwnLocks(t)
  BY <1>1, WarmAssumption DEF Retain, WarmTypeOK, OwnLocks, Sound, WellFormed, Locked, Truthful,
     HasUse, HasLife, Loading, Evicting, TaskAt, Resident
<1>5. WarmTypeOK'
  BY <1>2, <1>3, <1>4 DEF WarmTypeOK, GoodTask
<1> QED
  BY <1>2, <1>3, <1>4, <1>5, OneThreadsStep DEF OnlyOwn, GoodTask

LEMMA ReleaseKeeps ==
    ASSUME WarmInv, NEW t \in Tasks, Release(t)
    PROVE  WarmInv'
<1>1. WarmTypeOK /\ Sound(t)
  BY DEF WarmInv
<1>2. GoodTask(t) /\ Sound(t)'
  <2> QED
    BY <1>1, RestingTask, FreeIsSound DEF Release
<1>3. /\ cached' \in [Models -> [state : {"out", "loading", "warm"}, refs : Int, idle : BOOLEAN]]
      /\ OwnValues(t)
  BY <1>1, WarmAssumption DEF Release, WarmTypeOK, OwnValues, Sound, WellFormed, Locked,
     Truthful, HasUse, HasLife, Loading, Evicting, TaskAt, Resident
<1>4. /\ useLock' \in [Models -> Tasks \cup {Unheld}]
      /\ lifeLock' \in [Models -> Tasks \cup {Unheld}]
      /\ OwnLocks(t)
  BY <1>1, WarmAssumption DEF Release, LetGo, WarmTypeOK, OwnLocks, Sound, WellFormed, Locked,
     Truthful, HasUse, HasLife, Loading, Evicting, TaskAt, Resident
<1>5. WarmTypeOK'
  BY <1>2, <1>3, <1>4 DEF WarmTypeOK, GoodTask
<1> QED
  BY <1>2, <1>3, <1>4, <1>5, OneThreadsStep DEF OnlyOwn, GoodTask

LEMMA ShrinkKeeps ==
    ASSUME WarmInv, NEW t \in Tasks, Shrink(t)
    PROVE  WarmInv'
<1>1. WarmTypeOK /\ Sound(t)
  BY DEF WarmInv
<1>2. GoodTask(t) /\ Sound(t)'
  <2>1. CASE task' = [task EXCEPT ![t] = AtRest]
    BY <1>1, <2>1, RestingTask, FreeIsSound
  <2>2. ASSUME NEW v \in Victims(Unheld), Evicts(t, v, "shrink")
        PROVE  GoodTask(t) /\ Sound(t)'
    <3>1. v \in Models
      BY DEF Victims
    <3>2. GoodTask(t) /\ SameRequest(t) /\ task'[t].pc = "evict" /\ task'[t].victim = v /\ task'[t].back = "shrink"
      BY <1>1, <2>2, <3>1, Chosen
    <3> QED
      BY <1>1, <3>1, <3>2 DEF Shrink, Sound, WellFormed, Locked, Truthful, HasUse, HasLife,
         Loading, Evicting, TaskAt, SameRequest, SameEviction, Resident
  <2> QED
    BY <2>1, <2>2 DEF Shrink
<1>3. /\ cached' \in [Models -> [state : {"out", "loading", "warm"}, refs : Int, idle : BOOLEAN]]
      /\ OwnValues(t)
  BY <1>1, WarmAssumption DEF Shrink, WarmTypeOK, OwnValues, Sound, WellFormed, Locked,
     Truthful, HasUse, HasLife, Loading, Evicting, TaskAt, Resident
<1>4. /\ useLock' \in [Models -> Tasks \cup {Unheld}]
      /\ lifeLock' \in [Models -> Tasks \cup {Unheld}]
      /\ OwnLocks(t)
  BY <1>1, WarmAssumption DEF Shrink, WarmTypeOK, OwnLocks, Sound, WellFormed, Locked, Truthful,
     HasUse, HasLife, Loading, Evicting, TaskAt, Resident
<1>5. WarmTypeOK'
  BY <1>2, <1>3, <1>4 DEF WarmTypeOK, GoodTask
<1> QED
  BY <1>2, <1>3, <1>4, <1>5, OneThreadsStep DEF OnlyOwn, GoodTask

LEMMA AskKeeps ==
    ASSUME WarmInv, NEW t \in Tasks, NEW m \in Models, NEW op \in {"acquire", "warm"}, Ask(t, op, m)
    PROVE  WarmInv'
<1> DEFINE r == [AtRest EXCEPT !.pc = "evictIdle", !.op = op, !.model = m,
                               !.victims = {n \in Models : Evictable(n) /\ cached[n].idle}]
<1>1. WarmTypeOK /\ task' = [task EXCEPT ![t] = r] /\ UNCHANGED <<cached, useLock, lifeLock>>
  BY DEF WarmInv, Ask
<1>2. r \in TaskRecords /\ r.pc = "evictIdle" /\ r.model = m /\ ~r.retained
  BY DEF AtRest, TaskRecords, Pcs
<1> HIDE DEF r
<1>3. GoodTask(t) /\ task'[t] = r
  BY <1>1, <1>2 DEF WarmTypeOK, OwnTask, GoodTask
<1>4. Sound(t)'
  BY <1>2, <1>3 DEF Sound, WellFormed, Locked, Truthful, HasUse, HasLife, Loading, Evicting,
     TaskAt
<1>5. OwnLocks(t) /\ OwnValues(t) /\ WarmTypeOK'
  BY <1>1, <1>3 DEF OwnLocks, OwnValues, Resident, WarmTypeOK, GoodTask
<1> QED
  BY <1>3, <1>4, <1>5, OneThreadsStep DEF OnlyOwn, GoodTask

LEMMA ConfigureKeeps ==
    ASSUME WarmInv, NEW t \in Tasks, NEW b \in Budgets, Configure(t, b)
    PROVE  WarmInv'
<1> DEFINE r == [AtRest EXCEPT !.pc = "shrink", !.wish = b]
<1>1. WarmTypeOK /\ task' = [task EXCEPT ![t] = r] /\ UNCHANGED <<cached, useLock, lifeLock>>
  BY DEF WarmInv, Configure
<1>2. r \in TaskRecords /\ r.pc = "shrink" /\ ~r.retained
  BY DEF AtRest, TaskRecords, Pcs
<1> HIDE DEF r
<1>3. GoodTask(t) /\ task'[t] = r
  BY <1>1, <1>2 DEF WarmTypeOK, OwnTask, GoodTask
<1>4. Sound(t)'
  BY <1>2, <1>3, FreeIsSound
<1>5. OwnLocks(t) /\ OwnValues(t) /\ WarmTypeOK'
  BY <1>1, <1>3 DEF OwnLocks, OwnValues, Resident, WarmTypeOK, GoodTask
<1> QED
  BY <1>3, <1>4, <1>5, OneThreadsStep DEF OnlyOwn, GoodTask

\* The passing of time changes neither threads nor locks nor what is resident.
LEMMA SameThreadsSound ==
    ASSUME WarmInv, WarmTypeOK', UNCHANGED <<useLock, lifeLock, task>>,
           \A m \in Models : Resident(m)' <=> Resident(m)
    PROVE  WarmInv'
<1>1. ASSUME NEW t \in Tasks PROVE Sound(t)'
  <2>1. WellFormed(t) /\ Locked(t) /\ Truthful(t)
    BY DEF WarmInv, Sound
  <2>2. WellFormed(t)' /\ Locked(t)'
    BY <2>1 DEF WellFormed, Locked, HasUse, HasLife, Loading, Evicting, TaskAt
  <2>3. (Loading(t)' <=> Loading(t)) /\ (TaskAt(t, "leased")' <=> TaskAt(t, "leased"))
    BY DEF Loading, Evicting, TaskAt
  <2>4. Loading(t) \/ task[t].retained => task[t].model \in Models
    BY <2>1 DEF WellFormed, HasLife, TaskAt
  <2>5. Truthful(t)'
    BY <2>1, <2>3, <2>4 DEF Truthful, Resident
  <2> QED
    BY <2>2, <2>5 DEF Sound
<1> QED
  BY <1>1 DEF WarmInv

LEMMA GrowsIdleKeeps ==
    ASSUME WarmInv, NEW m \in Models, GrowsIdle(m)
    PROVE  WarmInv'
<1>1. WarmTypeOK' /\ \A n \in Models : Resident(n)' <=> Resident(n)
  BY DEF WarmInv, WarmTypeOK, GrowsIdle, Resident
<1> QED
  BY <1>1, SameThreadsSound DEF GrowsIdle

-----------------------------------------------------------------------------
(* The invariant holds.                                                     *)

LEMMA WarmInitial ==
    ASSUME WarmInit PROVE WarmInv
<1>1. AtRest \in TaskRecords /\ AtRest.pc = "idle" /\ ~AtRest.retained
  BY DEF AtRest, TaskRecords, Pcs
<1>2. \A t \in Tasks : task[t] = AtRest
  BY DEF WarmInit
<1>3. WarmTypeOK
  BY <1>1 DEF WarmInit, WarmTypeOK
<1>4. ASSUME NEW t \in Tasks PROVE Sound(t)
  BY <1>1, <1>2 DEF Sound, WellFormed, Locked, Truthful, HasUse, HasLife, Loading, Evicting, TaskAt
<1> QED
  BY <1>3, <1>4 DEF WarmInv

LEMMA WarmInductive ==
    ASSUME WarmInv, [WarmNext]_warmVars PROVE WarmInv'
<1>1. ASSUME NEW t \in Tasks, TaskStep(t) PROVE WarmInv'
  BY <1>1, EvictLeasedKeeps, EvictUseKeeps, EvictLifeKeeps, EvictCheckKeeps, EvictDropKeeps,
     EvictIdleKeeps, TakeUseKeeps, TakeLifeKeeps, LookKeeps, ReserveKeeps, LoadKeeps,
     RetainKeeps, ReleaseKeeps, ShrinkKeeps
     DEF TaskStep, Evict
<1>2. CASE UNCHANGED warmVars
  <2>1. WarmTypeOK' /\ \A n \in Models : Resident(n)' <=> Resident(n)
    BY <1>2 DEF warmVars, WarmInv, WarmTypeOK, Resident
  <2> QED
    BY <1>2, <2>1, SameThreadsSound DEF warmVars
<1> QED
  BY <1>1, <1>2, AskKeeps, ConfigureKeeps, GrowsIdleKeeps DEF WarmNext

\* A component that a thread leases from the cache stays loaded while the thread
\* holds it, for any components, budgets and threads (warm.py: eviction takes
\* the use lock and looks at everything again under it).
THEOREM LeasesAreKept == WarmSpec => []LeaseStays
<1>1. WarmInit => WarmInv
  BY WarmInitial
<1>2. WarmInv /\ [WarmNext]_warmVars => WarmInv'
  BY WarmInductive
<1>3. WarmInv => LeaseStays
  BY DEF WarmInv, Sound, Truthful, LeaseStays
<1> QED
  BY <1>1, <1>2, <1>3, PTL DEF WarmSpec

-----------------------------------------------------------------------------
(* Threads wait in no circle.  Who holds a lock is at a place of the code   *)
(* that has taken it.  A thread that loads and evicts another component for *)
(* room is behind the thread that loads that component; a thread that takes *)
(* its place in such a line is its last (it chose a victim that is warm, so *)
(* nobody loads it) or waits for nobody yet, so the line never closes.      *)

HoldsUse(t, m) ==
    \/ HasUse(t) /\ task[t].model = m
    \/ task[t].pc \in {"evictLife", "evictCheck", "evictDrop"} /\ task[t].victim = m
HoldsLife(t, m) ==
    \/ HasLife(t) /\ task[t].model = m
    \/ task[t].pc \in {"evictCheck", "evictDrop"} /\ task[t].victim = m

\* The converse of Locked.
Holding(t) ==
    \A m \in Models : /\ useLock[m] = t => HoldsUse(t, m)
                      /\ lifeLock[m] = t => HoldsLife(t, m)

MakingRoom(t) == Evicting(t) /\ task[t].back = "reserve"

Behind(t, u) == MakingRoom(t) /\ Loading(u) /\ task[u].model = task[t].victim

NoRing == \A S \in SUBSET Tasks : S # {} => \E t \in S : \A u \in S : ~Behind(t, u)

OrderInv == NoRing /\ \A t \in Tasks : Holding(t)

\* What a step of t may do to the line: it waits for nobody, or for whom it
\* waited before and with nobody new behind it.
KeepsLine(t) ==
    \/ ~MakingRoom(t)'
    \/ /\ MakingRoom(t)' /\ MakingRoom(t) /\ task'[t].victim = task[t].victim
       /\ task'[t].model = task[t].model
    \/ MakingRoom(t)' /\ task'[t].victim \in Models /\ Resident(task[t].victim)'

TakesOnlyFor(t) ==
    \A m \in Models : /\ useLock'[m] \in {useLock[m], t, Unheld}
                      /\ lifeLock'[m] \in {lifeLock[m], t, Unheld}

LEMMA LineStays ==
    ASSUME WarmInv, WarmInv', NoRing, NEW t \in Tasks, OwnTask(t), KeepsLine(t)
    PROVE  NoRing'
<1>1. \A u \in Tasks : Sound(u)'
  BY DEF WarmInv
<1>2. \A a, b \in Tasks \ {t} : Behind(a, b)' => Behind(a, b)
  BY DEF OwnTask, Behind, MakingRoom, Evicting, Loading
<1>3. CASE \A u \in Tasks : ~Behind(t, u)'
  <2> SUFFICES ASSUME NEW S \in SUBSET Tasks, S # {} PROVE \E a \in S : \A b \in S : ~Behind(a, b)'
    BY DEF NoRing
  <2>1. CASE t \in S
    BY <1>3, <2>1
  <2>2. CASE t \notin S
    <3>1. PICK a \in S : \A b \in S : ~Behind(a, b)
      BY DEF NoRing
    <3> QED
      BY <1>2, <2>2, <3>1
  <2> QED
    BY <2>1, <2>2
<1>4. CASE /\ MakingRoom(t)' /\ MakingRoom(t) /\ task'[t].victim = task[t].victim
           /\ task'[t].model = task[t].model
  <2>1. \A a, b \in Tasks : Behind(a, b)' => Behind(a, b)
    <3> SUFFICES ASSUME NEW a \in Tasks, NEW b \in Tasks, Behind(a, b)' PROVE Behind(a, b)
      OBVIOUS
    <3>1. Loading(t)
      BY <1>4 DEF MakingRoom, Loading
    <3>2. MakingRoom(a) /\ task'[a].victim = task[a].victim
      BY <1>4 DEF OwnTask, Behind, MakingRoom, Evicting
    <3>3. Loading(b) /\ task'[b].model = task[b].model
      BY <1>4, <3>1 DEF OwnTask, Behind, MakingRoom, Evicting, Loading
    <3> QED
      BY <3>2, <3>3 DEF Behind
  <2> QED
    BY <2>1 DEF NoRing
<1>5. CASE MakingRoom(t)' /\ task'[t].victim \in Models /\ Resident(task[t].victim)'
  <2>1. ASSUME NEW u \in Tasks, Behind(t, u)' PROVE FALSE
    <3>1. Loading(u)' /\ task'[u].model = task'[t].victim
      BY <2>1 DEF Behind
    <3>2. ~Resident(task[u].model)'
      BY <1>1, <3>1 DEF Sound, Truthful
    <3> QED
      BY <1>5, <3>1, <3>2 DEF Resident
  <2> QED
    BY <1>3, <2>1
<1>6. CASE ~MakingRoom(t)'
  BY <1>3, <1>6 DEF Behind
<1> QED
  BY <1>4, <1>5, <1>6 DEF KeepsLine

LEMMA OneThreadsOrder ==
    ASSUME WarmInv, WarmInv', OrderInv, NEW t \in Tasks, OwnTask(t), KeepsLine(t), TakesOnlyFor(t),
           Holding(t)'
    PROVE  OrderInv'
<1>1. NoRing'
  BY LineStays DEF OrderInv
<1>2. ASSUME NEW u \in Tasks, u # t PROVE Holding(u)'
  <2>1. Holding(u) /\ task'[u] = task[u] /\ u # Unheld
    BY <1>2, WarmAssumption DEF OrderInv, OwnTask
  <2>2. \A m \in Models : /\ useLock'[m] = u => useLock[m] = u
                          /\ lifeLock'[m] = u => lifeLock[m] = u
    BY <1>2, <2>1 DEF TakesOnlyFor
  <2> QED
    BY <2>1, <2>2 DEF Holding, HoldsUse, HoldsLife, HasUse, HasLife, Loading, Evicting, TaskAt
<1> QED
  BY <1>1, <1>2 DEF OrderInv

LEMMA EvictLeasedOrders ==
    ASSUME WarmInv, WarmInv', OrderInv, NEW t \in Tasks, EvictLeased(t)
    PROVE  OrderInv'
<1>1. WarmTypeOK /\ Sound(t) /\ Holding(t) /\ t # Unheld
  BY WarmAssumption DEF WarmInv, OrderInv
<1>2. OwnTask(t) /\ KeepsLine(t) /\ Holding(t)'
  <2>1. CASE EvictDone(t)
    BY <1>1, <2>1, Evicted DEF EvictLeased, GoodTask, WarmTypeOK, TaskRecords, Sound, WellFormed, Holding, HoldsUse, HoldsLife,
     HasUse, HasLife, Loading, Evicting, TaskAt, SameRequest, SameEviction, MakingRoom, KeepsLine
  <2>2. CASE Moves(t, "evictUse")
    <3>1. GoodTask(t) /\ SameRequest(t) /\ task'[t].pc = "evictUse" /\ SameEviction(t)
      BY <1>1, <2>2, Moving DEF Pcs
    <3> QED
      BY <1>1, <3>1 DEF EvictLeased, GoodTask, Sound, WellFormed, Holding, HoldsUse, HoldsLife,
     HasUse, HasLife, Loading, Evicting, TaskAt, SameRequest, SameEviction, MakingRoom, KeepsLine
  <2> QED
    BY <2>1, <2>2 DEF EvictLeased
<1>3. TakesOnlyFor(t)
  BY <1>1 DEF EvictLeased, Served, NoRoom, LetGo, TakesOnlyFor, WarmTypeOK
<1> QED
  BY <1>2, <1>3, OneThreadsOrder

LEMMA EvictUseOrders ==
    ASSUME WarmInv, WarmInv', OrderInv, NEW t \in Tasks, EvictUse(t)
    PROVE  OrderInv'
<1>1. WarmTypeOK /\ Sound(t) /\ Holding(t) /\ t # Unheld
  BY WarmAssumption DEF WarmInv, OrderInv
<1>2. OwnTask(t) /\ KeepsLine(t) /\ Holding(t)'
  <2>1. Moves(t, "evictLife") /\ "evictLife" \in Pcs
    BY DEF EvictUse, Pcs
  <2>2. GoodTask(t) /\ SameRequest(t) /\ task'[t].pc = "evictLife" /\ SameEviction(t)
    BY <1>1, <2>1, Moving
  <2> QED
    BY <1>1, <2>2 DEF EvictUse, GoodTask, WarmTypeOK, Sound, WellFormed, Holding, HoldsUse, HoldsLife,
     HasUse, HasLife, Loading, Evicting, TaskAt, SameRequest, SameEviction, MakingRoom, KeepsLine
<1>3. TakesOnlyFor(t)
  BY <1>1 DEF EvictUse, Served, NoRoom, LetGo, TakesOnlyFor, WarmTypeOK
<1> QED
  BY <1>2, <1>3, OneThreadsOrder

LEMMA EvictLifeOrders ==
    ASSUME WarmInv, WarmInv', OrderInv, NEW t \in Tasks, EvictLife(t)
    PROVE  OrderInv'
<1>1. WarmTypeOK /\ Sound(t) /\ Holding(t) /\ t # Unheld
  BY WarmAssumption DEF WarmInv, OrderInv
<1>2. OwnTask(t) /\ KeepsLine(t) /\ Holding(t)'
  <2>1. Moves(t, "evictCheck") /\ "evictCheck" \in Pcs
    BY DEF EvictLife, Pcs
  <2>2. GoodTask(t) /\ SameRequest(t) /\ task'[t].pc = "evictCheck" /\ SameEviction(t)
    BY <1>1, <2>1, Moving
  <2> QED
    BY <1>1, <2>2 DEF EvictLife, GoodTask, WarmTypeOK, Sound, WellFormed, Holding, HoldsUse, HoldsLife,
     HasUse, HasLife, Loading, Evicting, TaskAt, SameRequest, SameEviction, MakingRoom, KeepsLine
<1>3. TakesOnlyFor(t)
  BY <1>1 DEF EvictLife, Served, NoRoom, LetGo, TakesOnlyFor, WarmTypeOK
<1> QED
  BY <1>2, <1>3, OneThreadsOrder

LEMMA EvictCheckOrders ==
    ASSUME WarmInv, WarmInv', OrderInv, NEW t \in Tasks, EvictCheck(t)
    PROVE  OrderInv'
<1>1. WarmTypeOK /\ Sound(t) /\ Holding(t) /\ t # Unheld
  BY WarmAssumption DEF WarmInv, OrderInv
<1>2. OwnTask(t) /\ KeepsLine(t) /\ Holding(t)'
  <2>1. CASE Moves(t, "evictDrop") /\ UNCHANGED <<useLock, lifeLock>>
    <3>1. GoodTask(t) /\ SameRequest(t) /\ task'[t].pc = "evictDrop" /\ SameEviction(t)
      BY <1>1, <2>1, Moving DEF Pcs
    <3> QED
      BY <1>1, <2>1, <3>1 DEF EvictCheck, GoodTask, Sound, WellFormed, Holding, HoldsUse, HoldsLife,
     HasUse, HasLife, Loading, Evicting, TaskAt, SameRequest, SameEviction, MakingRoom, KeepsLine
  <2>2. CASE /\ EvictDone(t)
             /\ useLock' = LetGo(useLock, task[t].victim, t)
             /\ lifeLock' = LetGo(lifeLock, task[t].victim, t)
    <3>1. GoodTask(t) /\ SameRequest(t) /\ task'[t].pc = task[t].back
      BY <1>1, <2>2, Evicted
    <3> QED
      BY <1>1, <2>2, <3>1 DEF EvictCheck, LetGo, GoodTask, WarmTypeOK, TaskRecords, Sound, WellFormed, Holding, HoldsUse, HoldsLife,
     HasUse, HasLife, Loading, Evicting, TaskAt, SameRequest, SameEviction, MakingRoom, KeepsLine
  <2> QED
    BY <2>1, <2>2 DEF EvictCheck
<1>3. TakesOnlyFor(t)
  BY <1>1 DEF EvictCheck, Served, NoRoom, LetGo, TakesOnlyFor, WarmTypeOK
<1> QED
  BY <1>2, <1>3, OneThreadsOrder

LEMMA EvictDropOrders ==
    ASSUME WarmInv, WarmInv', OrderInv, NEW t \in Tasks, EvictDrop(t)
    PROVE  OrderInv'
<1>1. WarmTypeOK /\ Sound(t) /\ Holding(t) /\ t # Unheld
  BY WarmAssumption DEF WarmInv, OrderInv
<1>2. OwnTask(t) /\ KeepsLine(t) /\ Holding(t)'
  <2>1. GoodTask(t) /\ SameRequest(t) /\ task'[t].pc = task[t].back
    BY <1>1, Evicted DEF EvictDrop
  <2> QED
    BY <1>1, <2>1 DEF EvictDrop, LetGo, GoodTask, WarmTypeOK, TaskRecords, Sound, WellFormed, Holding, HoldsUse, HoldsLife,
     HasUse, HasLife, Loading, Evicting, TaskAt, SameRequest, SameEviction, MakingRoom, KeepsLine
<1>3. TakesOnlyFor(t)
  BY <1>1 DEF EvictDrop, Served, NoRoom, LetGo, TakesOnlyFor, WarmTypeOK
<1> QED
  BY <1>2, <1>3, OneThreadsOrder

LEMMA EvictIdleOrders ==
    ASSUME WarmInv, WarmInv', OrderInv, NEW t \in Tasks, EvictIdle(t)
    PROVE  OrderInv'
<1>1. WarmTypeOK /\ Sound(t) /\ Holding(t) /\ t # Unheld
  BY WarmAssumption DEF WarmInv, OrderInv
<1>2. OwnTask(t) /\ KeepsLine(t) /\ Holding(t)'
  <2>1. CASE task[t].victims = {}
    <3>1. PICK pc \in {"use", "life"} : Moves(t, pc) /\ (pc = "use" <=> task[t].op = "acquire")
      BY <2>1 DEF EvictIdle
    <3>2. GoodTask(t) /\ SameRequest(t) /\ task'[t].pc = pc
      BY <1>1, <3>1, Moving DEF Pcs
    <3> QED
      BY <1>1, <3>1, <3>2 DEF EvictIdle, GoodTask, Sound, WellFormed, Holding, HoldsUse, HoldsLife,
     HasUse, HasLife, Loading, Evicting, TaskAt, SameRequest, SameEviction, MakingRoom, KeepsLine
  <2>2. CASE task[t].victims # {}
    <3>1. PICK v \in task[t].victims :
             task' = [task EXCEPT ![t].pc = "evict", ![t].victim = v, ![t].back = "evictIdle",
                                  ![t].victims = @ \ {v}]
      BY <2>2 DEF EvictIdle
    <3>2. /\ OwnTask(t) /\ task'[t].pc = "evict" /\ task'[t].back = "evictIdle"
          /\ task'[t].model = task[t].model
      BY <1>1, <3>1 DEF WarmTypeOK, TaskRecords, OwnTask
    <3> QED
      BY <1>1, <3>2 DEF EvictIdle, Sound, WellFormed, Holding, HoldsUse, HoldsLife,
     HasUse, HasLife, Loading, Evicting, TaskAt, SameRequest, SameEviction, MakingRoom, KeepsLine
  <2> QED
    BY <2>1, <2>2
<1>3. TakesOnlyFor(t)
  BY <1>1 DEF EvictIdle, Served, NoRoom, LetGo, TakesOnlyFor, WarmTypeOK
<1> QED
  BY <1>2, <1>3, OneThreadsOrder

LEMMA TakeUseOrders ==
    ASSUME WarmInv, WarmInv', OrderInv, NEW t \in Tasks, TakeUse(t)
    PROVE  OrderInv'
<1>1. WarmTypeOK /\ Sound(t) /\ Holding(t) /\ t # Unheld
  BY WarmAssumption DEF WarmInv, OrderInv
<1>2. OwnTask(t) /\ KeepsLine(t) /\ Holding(t)'
  <2>1. Moves(t, "life") /\ "life" \in Pcs
    BY DEF TakeUse, Pcs
  <2>2. GoodTask(t) /\ SameRequest(t) /\ task'[t].pc = "life" /\ SameEviction(t)
    BY <1>1, <2>1, Moving
  <2> QED
    BY <1>1, <2>2 DEF TakeUse, GoodTask, WarmTypeOK, Sound, WellFormed, Holding, HoldsUse, HoldsLife,
     HasUse, HasLife, Loading, Evicting, TaskAt, SameRequest, SameEviction, MakingRoom, KeepsLine
<1>3. TakesOnlyFor(t)
  BY <1>1 DEF TakeUse, Served, NoRoom, LetGo, TakesOnlyFor, WarmTypeOK
<1> QED
  BY <1>2, <1>3, OneThreadsOrder

LEMMA TakeLifeOrders ==
    ASSUME WarmInv, WarmInv', OrderInv, NEW t \in Tasks, TakeLife(t)
    PROVE  OrderInv'
<1>1. WarmTypeOK /\ Sound(t) /\ Holding(t) /\ t # Unheld
  BY WarmAssumption DEF WarmInv, OrderInv
<1>2. OwnTask(t) /\ KeepsLine(t) /\ Holding(t)'
  <2>1. Moves(t, "look") /\ "look" \in Pcs
    BY DEF TakeLife, Pcs
  <2>2. GoodTask(t) /\ SameRequest(t) /\ task'[t].pc = "look" /\ SameEviction(t)
    BY <1>1, <2>1, Moving
  <2> QED
    BY <1>1, <2>2 DEF TakeLife, GoodTask, WarmTypeOK, Sound, WellFormed, Holding, HoldsUse, HoldsLife,
     HasUse, HasLife, Loading, Evicting, TaskAt, SameRequest, SameEviction, MakingRoom, KeepsLine
<1>3. TakesOnlyFor(t)
  BY <1>1 DEF TakeLife, Served, NoRoom, LetGo, TakesOnlyFor, WarmTypeOK
<1> QED
  BY <1>2, <1>3, OneThreadsOrder

LEMMA NoRoomOrders ==
    ASSUME WarmTypeOK, NEW t \in Tasks, t # Unheld, Sound(t), Holding(t), task[t].pc \in {"look", "reserve"},
           NoRoom(t), UNCHANGED useLock
    PROVE  OwnTask(t) /\ KeepsLine(t) /\ Holding(t)'
<1>1. CASE /\ task[t].op = "warm" /\ task' = [task EXCEPT ![t] = AtRest]
           /\ lifeLock' = LetGo(lifeLock, task[t].model, t)
  BY <1>1, RestingTask DEF LetGo, GoodTask, WarmTypeOK, Sound, WellFormed, Holding, HoldsUse, HoldsLife,
     HasUse, HasLife, Loading, Evicting, TaskAt, SameRequest, SameEviction, MakingRoom, KeepsLine
<1>2. CASE Moves(t, "loadOwn") /\ UNCHANGED lifeLock
  <2>1. GoodTask(t) /\ SameRequest(t) /\ task'[t].pc = "loadOwn"
    BY <1>2, Moving DEF Pcs
  <2> QED
    BY <1>2, <2>1 DEF GoodTask, Sound, WellFormed, Holding, HoldsUse, HoldsLife,
     HasUse, HasLife, Loading, Evicting, TaskAt, SameRequest, SameEviction, MakingRoom, KeepsLine
<1> QED
  BY <1>1, <1>2 DEF NoRoom

LEMMA LookOrders ==
    ASSUME WarmInv, WarmInv', OrderInv, NEW t \in Tasks, Look(t)
    PROVE  OrderInv'
<1>1. WarmTypeOK /\ Sound(t) /\ Holding(t) /\ t # Unheld
  BY WarmAssumption DEF WarmInv, OrderInv
<1>2. OwnTask(t) /\ KeepsLine(t) /\ Holding(t)'
  <2>1. CASE Served(t, FALSE) /\ UNCHANGED useLock
    <3>1. Serves(t, "retain") /\ lifeLock' = LetGo(lifeLock, task[t].model, t)
      BY <2>1 DEF Served, Serves
    <3> QED
      BY <1>1, <2>1, <3>1, Serving DEF Look, LetGo, GoodTask, WarmTypeOK, Sound, WellFormed, Holding, HoldsUse, HoldsLife,
     HasUse, HasLife, Loading, Evicting, TaskAt, SameRequest, SameEviction, MakingRoom, KeepsLine
  <2>2. CASE NoRoom(t) /\ UNCHANGED useLock
    BY <1>1, <2>2, NoRoomOrders DEF Look, TaskAt
  <2>3. CASE Moves(t, "reserve") /\ UNCHANGED <<useLock, lifeLock>>
    <3>1. GoodTask(t) /\ SameRequest(t) /\ task'[t].pc = "reserve"
      BY <1>1, <2>3, Moving DEF Pcs
    <3> QED
      BY <1>1, <2>3, <3>1 DEF Look, GoodTask, Sound, WellFormed, Holding, HoldsUse, HoldsLife,
     HasUse, HasLife, Loading, Evicting, TaskAt, SameRequest, SameEviction, MakingRoom, KeepsLine
  <2> QED
    BY <2>1, <2>2, <2>3 DEF Look
<1>3. TakesOnlyFor(t)
  BY <1>1 DEF Look, Served, NoRoom, LetGo, TakesOnlyFor, WarmTypeOK
<1> QED
  BY <1>2, <1>3, OneThreadsOrder

LEMMA ReserveOrders ==
    ASSUME WarmInv, WarmInv', OrderInv, NEW t \in Tasks, Reserve(t)
    PROVE  OrderInv'
<1>1. WarmTypeOK /\ Sound(t) /\ Holding(t) /\ t # Unheld
  BY WarmAssumption DEF WarmInv, OrderInv
<1>2. OwnTask(t) /\ KeepsLine(t) /\ Holding(t)'
  <2>1. CASE Moves(t, "load") /\ UNCHANGED <<useLock, lifeLock>>
    <3>1. GoodTask(t) /\ SameRequest(t) /\ task'[t].pc = "load"
      BY <1>1, <2>1, Moving DEF Pcs
    <3> QED
      BY <1>1, <2>1, <3>1 DEF Reserve, GoodTask, Sound, WellFormed, Holding, HoldsUse, HoldsLife,
     HasUse, HasLife, Loading, Evicting, TaskAt, SameRequest, SameEviction, MakingRoom, KeepsLine
  <2>2. CASE NoRoom(t) /\ UNCHANGED useLock
    BY <1>1, <2>2, NoRoomOrders DEF Reserve, TaskAt
  <2>3. ASSUME NEW v \in Victims(task[t].model), Evicts(t, v, "reserve"),
               UNCHANGED <<cached, useLock, lifeLock>>
        PROVE  OwnTask(t) /\ KeepsLine(t) /\ Holding(t)'
    <3>1. v \in Models /\ Resident(v)
      BY DEF Victims, Evictable
    <3>2. GoodTask(t) /\ SameRequest(t) /\ task'[t].pc = "evict" /\ task'[t].victim = v /\ task'[t].back = "reserve"
      BY <1>1, <2>3, <3>1, Chosen
    <3>3. KeepsLine(t)
      BY <2>3, <3>1, <3>2 DEF KeepsLine, MakingRoom, Evicting, Resident
    <3> QED
      BY <1>1, <2>3, <3>1, <3>2, <3>3 DEF Reserve, GoodTask, Sound, WellFormed, Holding, HoldsUse, HoldsLife,
         HasUse, HasLife, Loading, Evicting, TaskAt, SameRequest, SameEviction
  <2> QED
    BY <2>1, <2>2, <2>3 DEF Reserve
<1>3. TakesOnlyFor(t)
  BY <1>1 DEF Reserve, Served, NoRoom, LetGo, TakesOnlyFor, WarmTypeOK
<1> QED
  BY <1>2, <1>3, OneThreadsOrder

LEMMA LoadOrders ==
    ASSUME WarmInv, WarmInv', OrderInv, NEW t \in Tasks, Load(t)
    PROVE  OrderInv'
<1>1. WarmTypeOK /\ Sound(t) /\ Holding(t) /\ t # Unheld
  BY WarmAssumption DEF WarmInv, OrderInv
<1>2. OwnTask(t) /\ KeepsLine(t) /\ Holding(t)'
  <2>1. CASE Served(t, TaskAt(t, "loadOwn")) /\ UNCHANGED useLock
    <3>1. PICK pc \in {"leased", "retain"} :
            Serves(t, pc) /\ lifeLock' = LetGo(lifeLock, task[t].model, t)
      BY <2>1 DEF Served, Serves
    <3> QED
      BY <1>1, <2>1, <3>1, Serving DEF Load, LetGo, GoodTask, WarmTypeOK, Sound, WellFormed, Holding, HoldsUse, HoldsLife,
     HasUse, HasLife, Loading, Evicting, TaskAt, SameRequest, SameEviction, MakingRoom, KeepsLine
  <2>2. CASE /\ task' = [task EXCEPT ![t] = AtRest]
             /\ lifeLock' = LetGo(lifeLock, task[t].model, t)
             /\ useLock' = LetGo(useLock, task[t].model, t)
    BY <1>1, <2>2, RestingTask DEF Load, LetGo, GoodTask, WarmTypeOK, Sound, WellFormed, Holding, HoldsUse, HoldsLife,
     HasUse, HasLife, Loading, Evicting, TaskAt, SameRequest, SameEviction, MakingRoom, KeepsLine
  <2> QED
    BY <2>1, <2>2 DEF Load
<1>3. TakesOnlyFor(t)
  BY <1>1 DEF Load, Served, NoRoom, LetGo, TakesOnlyFor, WarmTypeOK
<1> QED
  BY <1>2, <1>3, OneThreadsOrder

LEMMA RetainOrders ==
    ASSUME WarmInv, WarmInv', OrderInv, NEW t \in Tasks, Retain(t)
    PROVE  OrderInv'
<1>1. WarmTypeOK /\ Sound(t) /\ Holding(t) /\ t # Unheld
  BY WarmAssumption DEF WarmInv, OrderInv
<1>2. OwnTask(t) /\ KeepsLine(t) /\ Holding(t)'
  <2>1. /\ OwnTask(t) /\ task'[t].pc = "leased" /\ task'[t].model = task[t].model
        /\ task'[t].op = task[t].op
    BY <1>1 DEF Retain, WarmTypeOK, TaskRecords, OwnTask
  <2> QED
    BY <1>1, <2>1 DEF Retain, Sound, WellFormed, Holding, HoldsUse, HoldsLife,
     HasUse, HasLife, Loading, Evicting, TaskAt, SameRequest, SameEviction, MakingRoom, KeepsLine
<1>3. TakesOnlyFor(t)
  BY <1>1 DEF Retain, Served, NoRoom, LetGo, TakesOnlyFor, WarmTypeOK
<1> QED
  BY <1>2, <1>3, OneThreadsOrder

LEMMA ReleaseOrders ==
    ASSUME WarmInv, WarmInv', OrderInv, NEW t \in Tasks, Release(t)
    PROVE  OrderInv'
<1>1. WarmTypeOK /\ Sound(t) /\ Holding(t) /\ t # Unheld
  BY WarmAssumption DEF WarmInv, OrderInv
<1>2. OwnTask(t) /\ KeepsLine(t) /\ Holding(t)'
  <2>1. GoodTask(t) /\ task'[t].pc = "idle"
    BY <1>1, RestingTask DEF Release
  <2> QED
    BY <1>1, <2>1 DEF Release, LetGo, GoodTask, WarmTypeOK, Sound, WellFormed, Holding, HoldsUse, HoldsLife,
     HasUse, HasLife, Loading, Evicting, TaskAt, SameRequest, SameEviction, MakingRoom, KeepsLine
<1>3. TakesOnlyFor(t)
  BY <1>1 DEF Release, Served, NoRoom, LetGo, TakesOnlyFor, WarmTypeOK
<1> QED
  BY <1>2, <1>3, OneThreadsOrder

LEMMA ShrinkOrders ==
    ASSUME WarmInv, WarmInv', OrderInv, NEW t \in Tasks, Shrink(t)
    PROVE  OrderInv'
<1>1. WarmTypeOK /\ Sound(t) /\ Holding(t) /\ t # Unheld
  BY WarmAssumption DEF WarmInv, OrderInv
<1>2. OwnTask(t) /\ KeepsLine(t) /\ Holding(t)'
  <2>1. CASE task' = [task EXCEPT ![t] = AtRest]
    BY <1>1, <2>1, RestingTask DEF Shrink, GoodTask, Sound, WellFormed, Holding, HoldsUse, HoldsLife,
     HasUse, HasLife, Loading, Evicting, TaskAt, SameRequest, SameEviction, MakingRoom, KeepsLine
  <2>2. ASSUME NEW v \in Victims(Unheld), Evicts(t, v, "shrink")
        PROVE  OwnTask(t) /\ KeepsLine(t) /\ Holding(t)'
    <3>1. v \in Models
      BY DEF Victims
    <3>2. GoodTask(t) /\ SameRequest(t) /\ task'[t].pc = "evict" /\ task'[t].victim = v /\ task'[t].back = "shrink"
      BY <1>1, <2>2, <3>1, Chosen
    <3> QED
      BY <1>1, <3>1, <3>2 DEF Shrink, GoodTask, Sound, WellFormed, Holding, HoldsUse, HoldsLife,
     HasUse, HasLife, Loading, Evicting, TaskAt, SameRequest, SameEviction, MakingRoom, KeepsLine
  <2> QED
    BY <2>1, <2>2 DEF Shrink
<1>3. TakesOnlyFor(t)
  BY <1>1 DEF Shrink, Served, NoRoom, LetGo, TakesOnlyFor, WarmTypeOK
<1> QED
  BY <1>2, <1>3, OneThreadsOrder

LEMMA AskOrders ==
    ASSUME WarmInv, WarmInv', OrderInv, NEW t \in Tasks, NEW m \in Models,
           NEW op \in {"acquire", "warm"}, Ask(t, op, m)
    PROVE  OrderInv'
<1>1. WarmTypeOK /\ Sound(t) /\ Holding(t) /\ t # Unheld
  BY WarmAssumption DEF WarmInv, OrderInv
<1>2. OwnTask(t) /\ KeepsLine(t) /\ Holding(t)'
  <2>1. OwnTask(t) /\ task'[t].pc = "evictIdle"
    BY <1>1 DEF Ask, AtRest, WarmTypeOK, OwnTask
  <2> QED
    BY <1>1, <2>1 DEF Ask, Sound, WellFormed, Holding, HoldsUse, HoldsLife,
     HasUse, HasLife, Loading, Evicting, TaskAt, SameRequest, SameEviction, MakingRoom, KeepsLine
<1>3. TakesOnlyFor(t)
  BY <1>1 DEF Ask, Served, NoRoom, LetGo, TakesOnlyFor, WarmTypeOK
<1> QED
  BY <1>2, <1>3, OneThreadsOrder

LEMMA ConfigureOrders ==
    ASSUME WarmInv, WarmInv', OrderInv, NEW t \in Tasks, NEW b \in Budgets, Configure(t, b)
    PROVE  OrderInv'
<1>1. WarmTypeOK /\ Sound(t) /\ Holding(t) /\ t # Unheld
  BY WarmAssumption DEF WarmInv, OrderInv
<1>2. OwnTask(t) /\ KeepsLine(t) /\ Holding(t)'
  <2>1. OwnTask(t) /\ task'[t].pc = "shrink"
    BY <1>1 DEF Configure, AtRest, WarmTypeOK, OwnTask
  <2> QED
    BY <1>1, <2>1 DEF Configure, Sound, WellFormed, Holding, HoldsUse, HoldsLife,
     HasUse, HasLife, Loading, Evicting, TaskAt, SameRequest, SameEviction, MakingRoom, KeepsLine
<1>3. TakesOnlyFor(t)
  BY <1>1 DEF Configure, Served, NoRoom, LetGo, TakesOnlyFor, WarmTypeOK
<1> QED
  BY <1>2, <1>3, OneThreadsOrder

-----------------------------------------------------------------------------
(* The theorem.                                                             *)

LEMMA OrderInductive ==
    ASSUME WarmInv, WarmInv', OrderInv, [WarmNext]_warmVars
    PROVE  OrderInv'
<1>1. ASSUME NEW t \in Tasks, TaskStep(t) PROVE OrderInv'
  BY <1>1, EvictLeasedOrders, EvictUseOrders, EvictLifeOrders, EvictCheckOrders, EvictDropOrders,
     EvictIdleOrders, TakeUseOrders, TakeLifeOrders, LookOrders, ReserveOrders, LoadOrders,
     RetainOrders, ReleaseOrders, ShrinkOrders
     DEF TaskStep, Evict
<1>2. ASSUME UNCHANGED <<useLock, lifeLock, task>> PROVE OrderInv'
  BY <1>2 DEF OrderInv, NoRing, Behind, MakingRoom, Holding, HoldsUse, HoldsLife, HasUse, HasLife,
     Loading, Evicting, TaskAt
<1> QED
  BY <1>1, <1>2, AskOrders, ConfigureOrders DEF WarmNext, GrowsIdle, warmVars

LEMMA OrderInitial ==
    ASSUME WarmInit PROVE OrderInv
<1>1. \A t \in Tasks : task[t].pc = "idle" /\ t # Unheld
  BY WarmAssumption DEF WarmInit, AtRest
<1> QED
  BY <1>1 DEF WarmInit, OrderInv, NoRing, Behind, MakingRoom, Evicting, Holding

\* What a waiting thread waits for is a component.
LEMMA WellPlaced ==
    ASSUME NEW t \in Tasks, WellFormed(t)
    PROVE  /\ task[t].pc \in {"use", "life"} => task[t].model \in Models
           /\ task[t].pc \in {"evictUse", "evictLife"} => task[t].victim \in Models
  BY DEF WellFormed, Evicting

\* In a circle of waiting threads everyone waits, in the end, for one that
\* makes room while it loads what the other waits for.
LEMMA OrderBreaksCircles ==
    ASSUME WarmInv, OrderInv
    PROVE  NoCircularWait
<1> SUFFICES ASSUME NEW S \in SUBSET Tasks, S # {}, \A t \in S : WaitsFor(t) \in S
             PROVE  FALSE
  BY DEF NoCircularWait
<1>1. \A t \in S : /\ t \in Tasks /\ t # Unheld /\ Sound(t) /\ Holding(t)
                   /\ task[t].pc \in {"use", "life", "evictUse", "evictLife"}
  BY WarmAssumption DEF WarmInv, OrderInv, WaitsFor, TaskAt
<1> DEFINE R == {t \in S : MakingRoom(t)}
<1>2. ASSUME NEW u \in S, NEW m \in Models, lifeLock[m] = u
      PROVE  u \in R /\ Loading(u) /\ task[u].model = m
  <2>1. HoldsLife(u, m)
    BY <1>1, <1>2 DEF Holding
  <2> QED
    BY <1>1, <2>1 DEF HoldsLife, HasLife, Loading, MakingRoom, Evicting, TaskAt
<1>3. ASSUME NEW u \in S, NEW m \in Models, useLock[m] = u
      PROVE  \E w \in R : Loading(w) /\ task[w].model = m
  <2>1. HoldsUse(u, m)
    BY <1>1, <1>3 DEF Holding
  <2>2. CASE Loading(u) /\ task[u].model = m
    BY <1>1, <2>2 DEF Loading, MakingRoom
  <2>3. CASE \/ TaskAt(u, "life") /\ task[u].model = m
             \/ TaskAt(u, "evictLife") /\ task[u].victim = m
    <3>1. lifeLock[m] = WaitsFor(u)
      BY <2>3 DEF WaitsFor, TaskAt
    <3> QED
      BY <1>2, <3>1
  <2> QED
    BY <1>1, <2>1, <2>2, <2>3 DEF HoldsUse, HasUse, HasLife, TaskAt
<1>4. ASSUME NEW t \in S, NEW m \in Models, WaitsFor(t) \in {useLock[m], lifeLock[m]}
      PROVE  \E w \in R : Loading(w) /\ task[w].model = m
  BY <1>2, <1>3, <1>4
<1>5. \A t \in S : /\ TaskAt(t, "use") \/ TaskAt(t, "life") => task[t].model \in Models
                   /\ TaskAt(t, "evictUse") \/ TaskAt(t, "evictLife") => task[t].victim \in Models
  BY <1>1, WellPlaced DEF Sound, TaskAt
<1>6. R # {}
  <2>1. PICK t \in S : TRUE
    OBVIOUS
  <2>2. CASE TaskAt(t, "use") \/ TaskAt(t, "life")
    BY <1>4, <1>5, <2>2 DEF WaitsFor, TaskAt
  <2>3. CASE TaskAt(t, "evictUse") \/ TaskAt(t, "evictLife")
    BY <1>4, <1>5, <2>3 DEF WaitsFor, TaskAt
  <2> QED
    BY <1>1, <2>2, <2>3 DEF TaskAt
<1>7. ASSUME NEW t \in R PROVE \E u \in R : Behind(t, u)
  <2>1. TaskAt(t, "evictUse") \/ TaskAt(t, "evictLife")
    BY <1>1 DEF MakingRoom, Evicting, TaskAt
  <2>2. PICK w \in R : Loading(w) /\ task[w].model = task[t].victim
    BY <1>4, <1>5, <2>1 DEF WaitsFor, TaskAt
  <2> QED
    BY <2>2 DEF Behind
<1>8. \E t \in R : \A u \in R : ~Behind(t, u)
  BY <1>6 DEF OrderInv, NoRing
<1> QED
  BY <1>7, <1>8

\* Threads never wait for each other in a circle, for any number of them,
\* components and budgets, although one that loads a component keeps its locks
\* while it takes those of a victim (warm.py: _get_or_load, _reserve_load, _evict).
THEOREM NobodyWaitsInACircle == WarmSpec => []NoCircularWait
<1>1. WarmInit => WarmInv /\ OrderInv
  BY WarmInitial, OrderInitial
<1>2. WarmInv /\ OrderInv /\ [WarmNext]_warmVars => (WarmInv /\ OrderInv)'
  BY WarmInductive, OrderInductive
<1>3. WarmInv /\ OrderInv => NoCircularWait
  BY OrderBreaksCircles
<1> QED
  BY <1>1, <1>2, <1>3, PTL DEF WarmSpec

-----------------------------------------------------------------------------
(* The budget.                                                               *)

\* What the components of S take up together is a number of megabytes,
LEMMA MegabytesAre ==
    ASSUME NEW S \in SUBSET Models
    PROVE  IsFiniteSet(Megabytes(S)) /\ Total(S) \in Nat
<1>1. IsFiniteSet(S)
  BY WarmAssumption, FS_Subset
<1> DEFINE f == [m \in S |-> {m} \X (1..Cost[m])]
           T == {{m} \X (1..Cost[m]) : m \in S}
<1>2. f \in Surjection(S, T)
  BY DEF Surjection
<1>3. IsFiniteSet(T)
  BY <1>1, <1>2, FS_Surjection
<1>4. ASSUME NEW B \in T PROVE IsFiniteSet(B)
  <2>1. PICK m \in S : B = {m} \X (1..Cost[m])
    OBVIOUS
  <2>2. Cost[m] \in Nat
    BY WarmAssumption
  <2>3. IsFiniteSet({m})
    BY FS_Singleton
  <2>4. IsFiniteSet(1..Cost[m])
    BY <2>2, FS_Interval
  <2> QED
    BY <2>1, <2>3, <2>4, FS_Product
<1>5. IsFiniteSet(UNION T)
  BY <1>3, <1>4, FS_UNION
<1> QED
  BY <1>5, FS_CardinalityType DEF Megabytes, Total

\* more components take up more,
LEMMA MoreTakesMore ==
    ASSUME NEW S \in SUBSET Models, NEW T \in SUBSET S
    PROVE  Total(T) <= Total(S)
<1>1. Megabytes(T) \in SUBSET Megabytes(S)
  BY DEF Megabytes
<1> QED
  BY <1>1, MegabytesAre, FS_Subset DEF Total

\* and one more component takes up no more than its cost on top.
LEMMA OneMoreTakesItsCost ==
    ASSUME NEW S \in SUBSET Models, NEW m \in Models
    PROVE  Total(S \cup {m}) <= Total(S) + Cost[m]
<1> DEFINE own == {m} \X (1..Cost[m])
<1>1. Cost[m] \in Nat
  BY WarmAssumption
<1>2. IsFiniteSet(own) /\ Cardinality(own) = Cost[m]
  <2>1. IsFiniteSet({m}) /\ Cardinality({m}) = 1
    BY FS_Singleton
  <2>2. IsFiniteSet(1..Cost[m]) /\ Cardinality(1..Cost[m]) = Cost[m]
    BY <1>1, FS_Interval
  <2>3. IsFiniteSet(own) /\ Cardinality(own) = Cardinality({m}) * Cardinality(1..Cost[m])
    BY <2>1, <2>2, FS_Product
  <2> QED
    BY <1>1, <2>1, <2>2, <2>3
<1>3. Megabytes(S \cup {m}) = Megabytes(S) \cup own
  BY DEF Megabytes
<1> HIDE DEF own
<1>4. IsFiniteSet(Megabytes(S)) /\ Cardinality(Megabytes(S)) \in Nat
  BY MegabytesAre DEF Total
<1>5. Cardinality(Megabytes(S) \cup own)
        = Cardinality(Megabytes(S)) + Cardinality(own) - Cardinality(Megabytes(S) \cap own)
  BY <1>2, <1>4, FS_Union
<1>6. IsFiniteSet(Megabytes(S) \cap own)
  BY <1>4, FS_Subset
<1>7. Cardinality(Megabytes(S) \cap own) \in Nat
  BY <1>6, FS_CardinalityType
<1>8. Total(S \cup {m}) = Cardinality(Megabytes(S)) + Cost[m] - Cardinality(Megabytes(S) \cap own)
  BY <1>2, <1>3, <1>5 DEF Total
<1>9. Total(S) = Cardinality(Megabytes(S))
  BY DEF Total
<1> QED
  BY <1>1, <1>4, <1>7, <1>8, <1>9

Counting == {m \in Models : Resident(m) \/ cached[m].state = "loading"}

LEMMA AccountedIs == Accounted = Total(Counting) /\ Counting \subseteq Models /\ Accounted \in Nat
  BY MegabytesAre DEF Accounted, Counting

\* A thread that loads for the cache has reserved the room.
Reserved(t) == TaskAt(t, "load") => cached[task[t].model].state = "loading"

BudgetInv == WarmInv /\ budget \in Nat /\ BudgetHolds /\ \A t \in Tasks : Reserved(t)

\* Only the holder of its lifecycle lock makes a component another state.
OwnStates(t) == \A m \in Models : cached'[m].state # cached[m].state => lifeLock[m] = t

LEMMA OthersStayReserved ==
    ASSUME BudgetInv, NEW t \in Tasks, OwnTask(t), OwnStates(t), Reserved(t)'
    PROVE  \A u \in Tasks : Reserved(u)'
<1> SUFFICES ASSUME NEW u \in Tasks, u # t, TaskAt(u, "load")' PROVE cached'[task'[u].model].state = "loading"
  BY DEF Reserved
<1>1. task'[u] = task[u] /\ TaskAt(u, "load")
  BY DEF OwnTask, TaskAt
<1>2. Sound(u) /\ Reserved(u)
  BY DEF BudgetInv, WarmInv
<1>3. task[u].model \in Models /\ lifeLock[task[u].model] = u
  BY <1>1, <1>2 DEF Sound, WellFormed, Locked, HasLife, Loading, TaskAt
<1>4. cached[task[u].model].state = "loading"
  BY <1>1, <1>2 DEF Reserved
<1> QED
  BY <1>1, <1>3, <1>4 DEF OwnStates

\* Nothing is loaded or dropped, and the budget stays.
SameStates == budget' = budget /\ \A m \in Models : cached'[m].state = cached[m].state

LEMMA SameStatesKeepBudget ==
    ASSUME BudgetInv, WarmInv', SameStates, NEW t \in Tasks, OwnTask(t), task'[t].pc # "load"
    PROVE  BudgetInv'
<1>1. Counting' = Counting
  BY DEF Counting, Resident, SameStates
<1>2. Accounted' = Accounted
  BY <1>1 DEF Accounted, Total, Megabytes, Counting
<1>3. OwnStates(t) /\ Reserved(t)'
  BY DEF OwnStates, SameStates, Reserved, TaskAt
<1> QED
  BY <1>2, <1>3, OthersStayReserved DEF BudgetInv, BudgetHolds, SameStates

\* Something is dropped.
LEMMA FewerKeepBudget ==
    ASSUME BudgetInv, WarmInv', budget' = budget, NEW t \in Tasks, OwnTask(t), OwnStates(t),
           Reserved(t)', Counting' \subseteq Counting
    PROVE  BudgetInv'
<1>1. Accounted \in Nat /\ Accounted' \in Nat /\ Accounted' = Total(Counting') /\ Accounted = Total(Counting)
  <2>1. Counting \subseteq Models /\ Counting' \subseteq Models
    BY DEF Counting
  <2> QED
    BY <2>1, MegabytesAre DEF Accounted, Counting, Total, Megabytes
<1>2. Total(Counting') <= Total(Counting)
  BY MoreTakesMore DEF Counting
<1> QED
  BY <1>1, <1>2, OthersStayReserved DEF BudgetInv, BudgetHolds

-----------------------------------------------------------------------------
(* The steps.                                                               *)

LEMMA EvictingInBudget ==
    ASSUME BudgetInv, WarmInv', NEW t \in Tasks, Evict(t)
    PROVE  BudgetInv'
<1>1. WarmTypeOK /\ Sound(t) /\ task[t] \in TaskRecords
  BY DEF BudgetInv, WarmInv, WarmTypeOK
<1>2. task[t].back # "load"
  BY <1>1 DEF TaskRecords
<1>3. OwnTask(t) /\ task'[t].pc # "load"
  <2>1. CASE EvictDone(t)
    BY <1>1, <1>2, <2>1, Evicted DEF GoodTask
  <2>2. ASSUME NEW pc \in {"evictUse", "evictLife", "evictCheck", "evictDrop"}, Moves(t, pc)
        PROVE  OwnTask(t) /\ task'[t].pc # "load"
    <3>1. pc \in Pcs
      BY DEF Pcs
    <3> QED
      BY <1>1, <2>2, <3>1, Moving DEF GoodTask
  <2> QED
    BY <2>1, <2>2 DEF Evict, EvictLeased, EvictUse, EvictLife, EvictCheck, EvictDrop
<1>4. Reserved(t)'
  BY <1>3 DEF Reserved, TaskAt
<1>5. CASE EvictLeased(t) \/ EvictUse(t) \/ EvictLife(t) \/ EvictCheck(t)
  <2>1. SameStates
    BY <1>5 DEF EvictLeased, EvictUse, EvictLife, EvictCheck, SameStates
  <2> QED
    BY <1>3, <2>1, SameStatesKeepBudget
<1>6. CASE EvictDrop(t)
  <2>1. task[t].victim \in Models /\ lifeLock[task[t].victim] = t
    BY <1>1, <1>6 DEF EvictDrop, Sound, WellFormed, Locked, Evicting, TaskAt
  <2>2. /\ budget' = budget
        /\ cached' = [cached EXCEPT ![task[t].victim].state = "out", ![task[t].victim].idle = FALSE]
    BY <1>6 DEF EvictDrop
  <2>3. /\ cached'[task[t].victim].state = "out"
        /\ \A m \in Models : m # task[t].victim => cached'[m] = cached[m]
    BY <1>1, <2>1, <2>2 DEF WarmTypeOK
  <2>4. OwnStates(t)
    BY <2>1, <2>3 DEF OwnStates
  <2>5. Counting' \subseteq Counting
    BY <2>3 DEF Counting, Resident
  <2> QED
    BY <1>3, <1>4, <2>2, <2>4, <2>5, FewerKeepBudget
<1> QED
  BY <1>5, <1>6 DEF Evict

LEMMA WaitingInBudget ==
    ASSUME BudgetInv, WarmInv', NEW t \in Tasks, EvictIdle(t) \/ TakeUse(t) \/ TakeLife(t)
    PROVE  BudgetInv'
<1>1. OwnTask(t) /\ task'[t].pc # "load"
  <2>1. WarmTypeOK
    BY DEF BudgetInv, WarmInv
  <2>2. ASSUME NEW pc \in {"use", "life", "look"}, Moves(t, pc)
        PROVE  OwnTask(t) /\ task'[t].pc # "load"
    <3>1. pc \in Pcs
      BY DEF Pcs
    <3> QED
      BY <2>1, <2>2, <3>1, Moving DEF GoodTask
  <2>3. ASSUME NEW v, task' = [task EXCEPT ![t].pc = "evict", ![t].victim = v, ![t].back = "evictIdle",
                                           ![t].victims = @ \ {v}]
        PROVE  OwnTask(t) /\ task'[t].pc # "load"
    BY <2>1, <2>3 DEF OwnTask, WarmTypeOK, TaskRecords
  <2> QED
    BY <2>2, <2>3 DEF EvictIdle, TakeUse, TakeLife
<1>2. SameStates
  BY DEF EvictIdle, TakeUse, TakeLife, SameStates
<1> QED
  BY <1>1, <1>2, SameStatesKeepBudget

LEMMA NoRoomIs ==
    ASSUME WarmTypeOK, NEW t \in Tasks, NoRoom(t)
    PROVE  OwnTask(t) /\ task'[t].pc # "load"
<1>1. "loadOwn" \in Pcs
  BY DEF Pcs
<1> QED
  BY <1>1, Moving, RestingTask DEF NoRoom, GoodTask

LEMMA ServedIs ==
    ASSUME WarmTypeOK, NEW t \in Tasks, NEW own \in BOOLEAN, Served(t, own)
    PROVE  OwnTask(t) /\ task'[t].pc # "load"
<1> DEFINE r == IF task[t].op = "acquire" THEN [task[t] EXCEPT !.pc = IF own THEN "leased" ELSE "retain"] ELSE AtRest
<1>1. task' = [task EXCEPT ![t] = r] /\ task[t] \in TaskRecords
  BY DEF Served, WarmTypeOK
<1>2. r.pc # "load"
  BY <1>1 DEF TaskRecords, AtRest
<1> HIDE DEF r
<1> QED
  BY <1>1, <1>2 DEF OwnTask, WarmTypeOK

LEMMA LookingInBudget ==
    ASSUME BudgetInv, WarmInv', NEW t \in Tasks, Look(t)
    PROVE  BudgetInv'
<1>1. WarmTypeOK
  BY DEF BudgetInv, WarmInv
<1>2. OwnTask(t) /\ task'[t].pc # "load"
  <2>1. CASE Served(t, FALSE)
    BY <1>1, <2>1, ServedIs
  <2>2. CASE NoRoom(t)
    BY <1>1, <2>2, NoRoomIs
  <2>3. CASE Moves(t, "reserve")
    BY <1>1, <2>3 DEF Moves, OwnTask, WarmTypeOK
  <2> QED
    BY <2>1, <2>2, <2>3 DEF Look
<1>3. SameStates
  <2>1. CASE UNCHANGED cached
    BY <2>1 DEF Look, SameStates
  <2>2. CASE cached' = [cached EXCEPT ![task[t].model].idle = FALSE]
    BY <1>1, <2>2 DEF Look, SameStates, WarmTypeOK
  <2> QED
    BY <2>1, <2>2 DEF Look
<1> QED
  BY <1>2, <1>3, SameStatesKeepBudget

LEMMA ReservingInBudget ==
    ASSUME BudgetInv, WarmInv', NEW t \in Tasks, Reserve(t)
    PROVE  BudgetInv'
<1> DEFINE m == task[t].model
<1>1. WarmTypeOK /\ Sound(t) /\ TaskAt(t, "reserve") /\ budget' = budget
  BY DEF BudgetInv, WarmInv, Reserve
<1>2. m \in Models /\ lifeLock[m] = t /\ Cost[m] \in Nat
  BY <1>1, WarmAssumption DEF Sound, WellFormed, Locked, HasLife, Loading, TaskAt
<1>3. CASE /\ Accounted + Cost[m] <= budget /\ Moves(t, "load")
           /\ cached' = [cached EXCEPT ![m].state = "loading"]
  <2>1. OwnTask(t) /\ task'[t].model = m
    BY <1>1, <1>3 DEF Moves, OwnTask, WarmTypeOK, TaskRecords
  <2> HIDE DEF m
  <2>2. /\ cached'[m].state = "loading"
        /\ \A n \in Models : n # m => cached'[n] = cached[n]
    BY <1>1, <1>2, <1>3 DEF WarmTypeOK
  <2>3. OwnStates(t) /\ Reserved(t)'
    BY <1>2, <2>1, <2>2 DEF OwnStates, Reserved
  <2>4. Counting' = Counting \cup {m} /\ Counting \subseteq Models
    BY <1>2, <2>2 DEF Counting, Resident
  <2>5. Total(Counting') <= Total(Counting) + Cost[m]
    BY <1>2, <2>4, OneMoreTakesItsCost
  <2>6. Accounted = Total(Counting) /\ Accounted' = Total(Counting') /\ Total(Counting) \in Nat
    BY <2>4, MegabytesAre DEF Accounted, Counting, Total, Megabytes
  <2>7. Total(Counting') \in Nat
    BY <1>2, <2>4, MegabytesAre
  <2>8. BudgetHolds'
    BY <1>1, <1>2, <1>3, <2>5, <2>6, <2>7 DEF BudgetHolds, BudgetInv
  <2> QED
    BY <1>1, <2>1, <2>3, <2>8, OthersStayReserved DEF BudgetInv
<1>4. CASE UNCHANGED cached /\ (NoRoom(t) \/ \E v \in Victims(m) : Evicts(t, v, "reserve"))
  <2>1. OwnTask(t) /\ task'[t].pc # "load"
    <3>1. CASE NoRoom(t)
      BY <1>1, <3>1, NoRoomIs
    <3>2. CASE \E v \in Victims(m) : Evicts(t, v, "reserve")
      BY <1>1, <3>2 DEF Evicts, OwnTask, WarmTypeOK
    <3> QED
      BY <1>4, <3>1, <3>2
  <2>2. SameStates
    BY <1>1, <1>4 DEF SameStates
  <2> QED
    BY <2>1, <2>2, SameStatesKeepBudget
<1> QED
  BY <1>3, <1>4 DEF Reserve

LEMMA LoadingInBudget ==
    ASSUME BudgetInv, WarmInv', NEW t \in Tasks, Load(t)
    PROVE  BudgetInv'
<1> DEFINE m == task[t].model
           own == TaskAt(t, "loadOwn")
<1>1. /\ WarmTypeOK /\ Sound(t) /\ Reserved(t) /\ task[t].pc \in {"load", "loadOwn"}
      /\ budget' = budget
  BY DEF BudgetInv, WarmInv, Load
<1>2. m \in Models /\ lifeLock[m] = t
  BY <1>1 DEF Sound, WellFormed, Locked, HasLife, Loading, TaskAt
<1>3. own \in BOOLEAN /\ (~own => cached[m].state = "loading")
  BY <1>1 DEF Reserved, TaskAt
<1>4. OwnTask(t) /\ task'[t].pc # "load"
  <2>1. CASE Served(t, own)
    BY <1>1, <1>3, <2>1, ServedIs
  <2>2. CASE task' = [task EXCEPT ![t] = AtRest]
    BY <1>1, <2>2 DEF AtRest, OwnTask, WarmTypeOK
  <2> QED
    BY <2>1, <2>2 DEF Load
<1>5. \/ cached' = [cached EXCEPT ![m].state = IF own THEN "out" ELSE "warm", ![m].idle = FALSE]
      \/ cached' = [cached EXCEPT ![m].state = "out"]
  BY DEF Load
<1> HIDE DEF m, own
<1>6. /\ cached'[m].state \in {"out", "warm"} /\ (own => cached'[m].state = "out")
      /\ \A n \in Models : n # m => cached'[n] = cached[n]
  BY <1>1, <1>2, <1>5 DEF WarmTypeOK
<1>7. OwnStates(t) /\ Reserved(t)'
  BY <1>2, <1>4, <1>6 DEF OwnStates, Reserved, TaskAt
<1>8. Counting' \subseteq Counting
  BY <1>3, <1>6 DEF Counting, Resident
<1> QED
  BY <1>1, <1>4, <1>7, <1>8, FewerKeepBudget

LEMMA LeasingInBudget ==
    ASSUME BudgetInv, WarmInv', NEW t \in Tasks, Retain(t) \/ Release(t)
    PROVE  BudgetInv'
<1>1. WarmTypeOK
  BY DEF BudgetInv, WarmInv
<1>2. OwnTask(t) /\ task'[t].pc # "load"
  <2>1. CASE Retain(t)
    BY <1>1, <2>1 DEF Retain, OwnTask, WarmTypeOK, TaskRecords
  <2>2. CASE Release(t)
    BY <1>1, <2>2, RestingTask DEF Release, GoodTask
  <2> QED
    BY <2>1, <2>2
<1>3. SameStates
  <2>1. CASE Retain(t)
    <3>1. budget' = budget /\ (cached' = cached \/ cached' = [cached EXCEPT ![task[t].model].refs = @ + 1])
      BY <2>1 DEF Retain
    <3> QED
      BY <1>1, <3>1 DEF SameStates, WarmTypeOK
  <2>2. CASE Release(t)
    <3>1. /\ budget' = budget
          /\ \/ cached' = cached
             \/ cached' = [cached EXCEPT ![task[t].model].refs = @ - 1, ![task[t].model].idle = FALSE]
      BY <2>2 DEF Release
    <3> QED
      BY <1>1, <3>1 DEF SameStates, WarmTypeOK
  <2> QED
    BY <2>1, <2>2
<1> QED
  BY <1>2, <1>3, SameStatesKeepBudget

LEMMA ShrinkingInBudget ==
    ASSUME BudgetInv, WarmInv', NEW t \in Tasks, Shrink(t)
    PROVE  BudgetInv'
<1>1. WarmTypeOK /\ task[t] \in TaskRecords /\ UNCHANGED cached
  BY DEF BudgetInv, WarmInv, WarmTypeOK, Shrink
<1>2. OwnTask(t) /\ task'[t].pc # "load"
  <2>1. CASE task' = [task EXCEPT ![t] = AtRest]
    BY <1>1, <2>1 DEF AtRest, OwnTask, WarmTypeOK
  <2>2. CASE \E v \in Victims(Unheld) : Evicts(t, v, "shrink")
    BY <1>1, <2>2 DEF Evicts, OwnTask, WarmTypeOK
  <2> QED
    BY <2>1, <2>2 DEF Shrink
<1>3. CASE budget' = budget
  <2>1. SameStates
    BY <1>1, <1>3 DEF SameStates
  <2> QED
    BY <1>2, <2>1, SameStatesKeepBudget
<1>4. CASE Accounted <= task[t].wish /\ budget' = task[t].wish
  <2>1. budget' \in Nat
    <3>1. task[t].wish \in Budgets \cup {0}
      BY <1>1 DEF TaskRecords
    <3>2. Budgets \cup {0} \subseteq Nat
      BY WarmAssumption
    <3> QED
      BY <1>4, <3>1, <3>2
  <2>2. Accounted' = Accounted
    BY <1>1 DEF Accounted, Total, Megabytes, Resident
  <2>3. OwnStates(t) /\ Reserved(t)'
    BY <1>1, <1>2 DEF OwnStates, Reserved, TaskAt
  <2> QED
    BY <1>2, <1>4, <2>1, <2>2, <2>3, OthersStayReserved DEF BudgetInv, BudgetHolds
<1> QED
  BY <1>3, <1>4 DEF Shrink

LEMMA AskingInBudget ==
    ASSUME BudgetInv, WarmInv', NEW t \in Tasks, NEW m \in Models, NEW op \in {"acquire", "warm"}, Ask(t, op, m)
    PROVE  BudgetInv'
<1>1. OwnTask(t) /\ task'[t].pc # "load"
  BY DEF BudgetInv, WarmInv, WarmTypeOK, Ask, AtRest, OwnTask
<1>2. SameStates
  BY DEF Ask, SameStates
<1> QED
  BY <1>1, <1>2, SameStatesKeepBudget

LEMMA ConfiguringInBudget ==
    ASSUME BudgetInv, WarmInv', NEW t \in Tasks, NEW b \in Budgets, Configure(t, b)
    PROVE  BudgetInv'
<1>1. OwnTask(t) /\ task'[t].pc # "load"
  BY DEF BudgetInv, WarmInv, WarmTypeOK, Configure, AtRest, OwnTask
<1>2. SameStates
  BY DEF Configure, SameStates
<1> QED
  BY <1>1, <1>2, SameStatesKeepBudget

\* Time passes, or nothing happens.
LEMMA RestingInBudget ==
    ASSUME BudgetInv, WarmInv', SameStates, UNCHANGED task
    PROVE  BudgetInv'
<1>1. Counting' = Counting
  BY DEF Counting, Resident, SameStates
<1>2. Accounted' = Accounted
  BY <1>1 DEF Accounted, Total, Megabytes, Counting
<1>3. ASSUME NEW t \in Tasks PROVE Reserved(t)'
  <2>1. Sound(t) /\ Reserved(t)
    BY DEF BudgetInv, WarmInv
  <2>2. TaskAt(t, "load") => task[t].model \in Models
    BY <2>1 DEF Sound, WellFormed, HasLife, Loading, TaskAt
  <2> QED
    BY <2>1, <2>2 DEF Reserved, TaskAt, SameStates
<1> QED
  BY <1>2, <1>3 DEF BudgetInv, BudgetHolds, SameStates

LEMMA BudgetInitial ==
    ASSUME WarmInit PROVE BudgetInv
<1>1. WarmInv /\ budget \in Nat
  BY WarmInitial, WarmAssumption DEF WarmInit
<1>2. Counting = {}
  BY DEF Counting, Resident, WarmInit
<1>3. Accounted = 0
  BY <1>2, FS_EmptySet DEF Accounted, Counting, Total, Megabytes
<1>4. \A t \in Tasks : Reserved(t)
  BY DEF WarmInit, AtRest, Reserved, TaskAt
<1> QED
  BY <1>1, <1>3, <1>4 DEF BudgetInv, BudgetHolds

LEMMA BudgetInductive ==
    ASSUME BudgetInv, [WarmNext]_warmVars PROVE BudgetInv'
<1>1. WarmInv'
  BY WarmInductive DEF BudgetInv
<1>2. ASSUME NEW t \in Tasks, TaskStep(t) PROVE BudgetInv'
  BY <1>1, <1>2, EvictingInBudget, WaitingInBudget, LookingInBudget, ReservingInBudget,
     LoadingInBudget, LeasingInBudget, ShrinkingInBudget DEF TaskStep
<1>3. ASSUME NEW t \in Tasks, NEW m \in Models, NEW op \in {"acquire", "warm"}, Ask(t, op, m)
      PROVE  BudgetInv'
  BY <1>1, <1>3, AskingInBudget
<1>4. ASSUME NEW t \in Tasks, NEW b \in Budgets, Configure(t, b) PROVE BudgetInv'
  BY <1>1, <1>4, ConfiguringInBudget
<1>5. ASSUME NEW m \in Models, GrowsIdle(m) PROVE BudgetInv'
  <2>1. SameStates /\ UNCHANGED task
    BY <1>5 DEF GrowsIdle, SameStates, BudgetInv, WarmInv, WarmTypeOK
  <2> QED
    BY <1>1, <2>1, RestingInBudget
<1>6. CASE UNCHANGED warmVars
  <2>1. SameStates /\ UNCHANGED task
    BY <1>6 DEF SameStates, warmVars
  <2> QED
    BY <1>1, <2>1, RestingInBudget
<1> QED
  BY <1>2, <1>3, <1>4, <1>5, <1>6 DEF WarmNext

\* What is cached and what is being loaded for the cache fits into the budget
\* together, for any components, costs, budgets and threads (warm.py:
\* _reserve_load counts what is being loaded, and set_budget takes effect only
\* once everything fits).
THEOREM TheBudgetHolds == WarmSpec => []BudgetHolds
<1>1. WarmInit => BudgetInv
  BY BudgetInitial
<1>2. BudgetInv /\ [WarmNext]_warmVars => BudgetInv'
  BY BudgetInductive
<1>3. BudgetInv => BudgetHolds
  BY DEF BudgetInv
<1> QED
  BY <1>1, <1>2, <1>3, PTL DEF WarmSpec

-----------------------------------------------------------------------------
(* MediaOutput.                                                             *)

\* One delivery at a time on a speaker where none have overlapped.
OneAtATime ==
    \A d, e \in Deliveries :
        delivery[d] # NoVolume /\ delivery[e] # NoVolume /\ Speaker(d) = Speaker(e)
            => d = e \/ Speaker(d) \in mixed

\* The volume v, if it became the volume of speaker s, would leave it as its owner wants it.
Owners(s, v) == v = normal[s] \/ s \in excused \/ s \in mixed

\* A delivery has the owner's volume in hand, or has left it in its place.
KeepsVolume(d) ==
    delivery[d] # NoVolume =>
        /\ delivery[d].purpose = "volume" => delivery[d].route \in Levels /\ ~Changed(d)
        /\ delivery[d].step \in {"set", "check", "restore", "confirm"} => Changed(d)
        /\ delivery[d].step = "read" => ~Changed(d) /\ delivery[d].purpose # "volume"
        /\ delivery[d].step \in {"read", "set"} => delivery[d].route \in Levels
        /\ Changed(d) => Owners(Speaker(d), delivery[d].original)
        /\ ~Changed(d) => Owners(Speaker(d), level[Speaker(d)])

\* The inductive invariant.
MediaInv ==
    /\ MediaTypeOK /\ OneAtATime
    /\ \A s \in Speakers : Idle(s) => Owners(s, level[s])
    /\ \A d \in Deliveries : KeepsVolume(d)

-----------------------------------------------------------------------------
(* One thread's step: it changes its own delivery and its own speaker.      *)

\* A step that leaves every other speaker as it is.
OnlyAt(s) ==
    /\ level' \in [Speakers -> Levels] /\ normal' \in [Speakers -> Levels]
    /\ excused' \subseteq Speakers /\ mishaps' \in 0..MaxMishaps
    /\ mixed' \in {mixed, mixed \cup {s}}
    /\ \A t \in Speakers \ {s} :
         level'[t] = level[t] /\ normal'[t] = normal[t] /\ (t \in excused' <=> t \in excused)

\* What a step of thread d, whose delivery is on speaker s, does to the rest.
OwnStep(d, s, x) ==
    /\ delivery' = [delivery EXCEPT ![d] = x]
    /\ x \in DeliveryRow \cup {NoVolume} /\ (x # NoVolume => x.speaker = s)
    /\ OnlyAt(s)

LEMMA OneDeliverysStep ==
    ASSUME MediaInv, NEW d \in Deliveries, NEW s \in Speakers, NEW x, OwnStep(d, s, x),
           \A e \in Deliveries \ {d} : delivery[e] # NoVolume => Speaker(e) # s \/ s \in mixed',
           KeepsVolume(d)', x = NoVolume => Owners(s, level[s])',
           delivery[d] # NoVolume => Speaker(d) = s
    PROVE  MediaInv'
<1>1. /\ MediaTypeOK /\ OneAtATime
      /\ \A t \in Speakers : Idle(t) => Owners(t, level[t])
      /\ \A e \in Deliveries : KeepsVolume(e)
  BY DEF MediaInv
<1>2. \A e \in Deliveries : delivery'[e] = IF e = d THEN x ELSE delivery[e]
  BY <1>1 DEF OwnStep, MediaTypeOK
<1>3. MediaTypeOK'
  BY <1>1 DEF OwnStep, OnlyAt, MediaTypeOK
<1>4. OneAtATime'
  BY <1>1, <1>2 DEF OwnStep, OnlyAt, OneAtATime, Speaker
<1>5. ASSUME NEW t \in Speakers, Idle(t)' PROVE Owners(t, level[t])'
  <2>1. CASE t = s
    <3>1. x = NoVolume
      BY <1>2, <1>5, <2>1 DEF Idle, OwnStep
    <3> QED
      BY <2>1, <3>1
  <2>2. CASE t # s
    <3>1. Idle(t)
      BY <1>2, <1>5, <2>2 DEF Idle, Speaker
    <3> QED
      BY <1>1, <2>2, <3>1 DEF Owners, OwnStep, OnlyAt
  <2> QED
    BY <2>1, <2>2
<1>6. ASSUME NEW e \in Deliveries PROVE KeepsVolume(e)'
  <2>1. CASE e = d
    BY <2>1
  <2>2. CASE e # d
    <3>1. delivery'[e] = delivery[e]
      BY <1>2, <2>2
    <3>2. delivery[e] # NoVolume => Speaker(e) \in Speakers \ {s} \/ Speaker(e) \in mixed'
      BY <1>1, <2>2 DEF MediaTypeOK, DeliveryRow, Speaker
    <3> QED
      BY <1>1, <3>1, <3>2 DEF KeepsVolume, Changed, Owners, Speaker, OwnStep, OnlyAt
  <2> QED
    BY <2>1, <2>2
<1> QED
  BY <1>3, <1>4, <1>5, <1>6 DEF MediaInv

\* What thread d has under way, and who else is on its speaker.
LEMMA UnderWay ==
    ASSUME MediaInv, NEW d \in Deliveries, delivery[d] # NoVolume
    PROVE  /\ MediaTypeOK /\ delivery[d] \in DeliveryRow /\ Speaker(d) \in Speakers
           /\ delivery[d].speaker = Speaker(d) /\ KeepsVolume(d)
           /\ \A e \in Deliveries \ {d} : delivery[e] # NoVolume => Speaker(e) # Speaker(d) \/ Speaker(d) \in mixed
  BY DEF MediaInv, MediaTypeOK, DeliveryRow, Speaker, OneAtATime

LEMMA CostsType ==
    ASSUME mishaps \in 0..MaxMishaps, NEW fine \in BOOLEAN, Costs(fine)
    PROVE  mishaps' \in 0..MaxMishaps
  BY MediaAssumption DEF Costs

\* The thread goes on to another step of the same delivery.
LEMMA GoingOn ==
    ASSUME MediaInv, NEW d \in Deliveries, delivery[d] # NoVolume, NEW s, s = Speaker(d),
           NEW p \in Stages, NEW g \in BOOLEAN, Goes(d, p, g), OnlyAt(s),
           p \in {"check", "restore", "confirm"} => Changed(d),
           p \notin {"read", "set"},
           Changed(d) => normal'[s] = normal[s] /\ (s \in excused => s \in excused'),
           ~Changed(d) => Owners(s, level[s])'
    PROVE  MediaInv'
<1> DEFINE x == [delivery[d] EXCEPT !.step = p, !.good = g]
<1>1. /\ MediaTypeOK /\ delivery[d] \in DeliveryRow /\ s \in Speakers /\ delivery[d].speaker = s
      /\ KeepsVolume(d)
      /\ \A e \in Deliveries \ {d} : delivery[e] # NoVolume => Speaker(e) # s \/ s \in mixed
  BY UnderWay
<1>2. delivery' = [delivery EXCEPT ![d] = x]
  BY <1>1 DEF Goes, MediaTypeOK
<1>3. /\ x \in DeliveryRow /\ x.speaker = s /\ x.purpose = delivery[d].purpose /\ x.step = p
      /\ x.route = delivery[d].route /\ x.original = delivery[d].original
  BY <1>1 DEF DeliveryRow
<1>4. x # NoVolume
  BY <1>3, MediaAssumption
<1> HIDE DEF x
<1>5. delivery'[d] = x
  BY <1>1, <1>2 DEF MediaTypeOK
<1>6. OwnStep(d, s, x)
  BY <1>1, <1>2, <1>3 DEF OwnStep, MediaTypeOK
<1>7. KeepsVolume(d)'
  BY <1>1, <1>3, <1>5 DEF KeepsVolume, Changed, Speaker, Owners, OnlyAt
<1>8. s \in mixed => s \in mixed'
  BY DEF OnlyAt
<1> QED
  BY <1>1, <1>4, <1>6, <1>7, <1>8, OneDeliverysStep DEF Speaker

\* The thread is done: the speaker is as its owner wants it, excused or mixed.
LEMMA Answering ==
    ASSUME MediaInv, NEW d \in Deliveries, delivery[d] # NoVolume, NEW s, s = Speaker(d),
           delivery' = [delivery EXCEPT ![d] = NoVolume], OnlyAt(s),
           Owners(s, level[s])'
    PROVE  MediaInv'
<1>1. /\ MediaTypeOK /\ s \in Speakers
      /\ \A e \in Deliveries \ {d} : delivery[e] # NoVolume => Speaker(e) # s \/ s \in mixed
  BY UnderWay
<1>2. OwnStep(d, s, NoVolume)
  BY <1>1 DEF OwnStep
<1>3. delivery'[d] = NoVolume
  BY <1>1 DEF MediaTypeOK
<1>4. KeepsVolume(d)'
  BY <1>3 DEF KeepsVolume
<1>5. s \in mixed => s \in mixed'
  BY DEF OnlyAt
<1> QED
  BY <1>1, <1>2, <1>4, <1>5, OneDeliverysStep DEF Speaker

-----------------------------------------------------------------------------
(* The actions.                                                             *)

\* What setting a volume does: the volume, or nothing.
LEMMA SetsSpeaker ==
    ASSUME MediaTypeOK, NEW s \in Speakers, NEW v \in Levels, NEW accepted \in BOOLEAN,
           Sets(s, v, accepted)
    PROVE  /\ level' \in [Speakers -> Levels] /\ level'[s] \in {v, level[s]}
           /\ accepted /\ level'[s] # v => level'[s] = level[s]
           /\ \A t \in Speakers \ {s} : level'[t] = level[t]
           /\ mishaps' \in 0..MaxMishaps
<1>1. PICK ok \in BOOLEAN :
        /\ Costs(ok /\ accepted)
        /\ level' = IF ok THEN [level EXCEPT ![s] = v] ELSE level
  BY DEF Sets
<1>2. mishaps' \in 0..MaxMishaps
  BY <1>1, CostsType DEF MediaTypeOK
<1> QED
  BY <1>1, <1>2 DEF MediaTypeOK

\* A step that touches no volume.
LEMMA Untouched ==
    ASSUME MediaTypeOK, NEW s \in Speakers, UNCHANGED <<level, normal, mixed>>,
           mishaps' \in 0..MaxMishaps,
           excused' \in {excused, excused \cup {s}, excused \ {s}}
    PROVE  OnlyAt(s)
  BY DEF OnlyAt, MediaTypeOK

LEMMA WindsUpOK ==
    ASSUME MediaInv, NEW d \in Deliveries, delivery[d] # NoVolume, NEW good \in BOOLEAN,
           WindsUp(d, good), UNCHANGED <<level, normal, mixed>>, mishaps' \in 0..MaxMishaps
    PROVE  MediaInv'
<1> DEFINE s == Speaker(d)
<1>1. PICK t : t = s
  OBVIOUS
<1>2. MediaTypeOK /\ t \in Speakers /\ KeepsVolume(d)
  BY <1>1, UnderWay
<1>3. CASE Changed(d)
  <2>1. Goes(d, "restore", good) /\ UNCHANGED excused
    BY <1>3 DEF WindsUp
  <2>2. OnlyAt(t)
    BY <1>2, <2>1, Untouched
  <2> QED
    BY <1>1, <1>3, <2>1, <2>2, GoingOn DEF Stages
<1>4. CASE ~Changed(d)
  <2>1. delivery' = [delivery EXCEPT ![d] = NoVolume] /\ UNCHANGED excused
    BY <1>4 DEF WindsUp, Answers
  <2>2. OnlyAt(t)
    BY <1>2, <2>1, Untouched
  <2>3. Owners(t, level[t])'
    BY <1>1, <1>2, <1>4, <2>1 DEF KeepsVolume, Owners
  <2> QED
    BY <1>1, <2>1, <2>2, <2>3, Answering
<1> QED
  BY <1>3, <1>4

LEMMA BeginOK ==
    ASSUME MediaInv, NEW d \in Deliveries, NEW p \in Purposes, NEW s \in Speakers,
           NEW v \in Levels \cup {NoVolume}, Begin(d, p, s, v)
    PROVE  MediaInv'
<1> DEFINE x == [purpose |-> p, speaker |-> s, route |-> v, original |-> NoVolume, good |-> TRUE,
                 step |-> IF p = "volume" \/ v = NoVolume THEN "act" ELSE "read"]
<1>1. /\ MediaTypeOK /\ (Idle(s) => Owners(s, level[s])) /\ mixed' = (IF Idle(s) THEN mixed ELSE mixed \cup {s})
      /\ delivery[d] = NoVolume /\ delivery' = [delivery EXCEPT ![d] = x]
      /\ p = "volume" => v # NoVolume
  BY DEF MediaInv, Begin
<1>10. x \in DeliveryRow
  BY DEF DeliveryRow, Stages, Purposes
<1>2. x \in DeliveryRow /\ x # NoVolume
  BY <1>10, MediaAssumption
<1>3. /\ x.purpose = p /\ x.speaker = s /\ x.route = v /\ x.original = NoVolume
      /\ x.step \in {"act", "read"} /\ (x.step = "read" => v # NoVolume /\ p # "volume")
  OBVIOUS
<1> HIDE DEF x
<1>4. UNCHANGED <<level, normal, excused, mishaps>>
  BY DEF Begin
<1>5. OnlyAt(s)
  BY <1>1, <1>4 DEF MediaTypeOK, OnlyAt
<1>6. OwnStep(d, s, x)
  BY <1>1, <1>2, <1>3, <1>5 DEF OwnStep
<1>7. \A e \in Deliveries \ {d} : delivery[e] # NoVolume => Speaker(e) # s \/ s \in mixed'
  BY <1>1 DEF Idle, Speaker
<1>8. delivery'[d] = x
  BY <1>1 DEF MediaTypeOK
<1>9. KeepsVolume(d)'
  BY <1>1, <1>3, <1>4, <1>8 DEF KeepsVolume, Changed, Speaker, Owners
<1> QED
  BY <1>1, <1>2, <1>6, <1>7, <1>9, OneDeliverysStep

LEMMA ReadOK ==
    ASSUME MediaInv, NEW d \in Deliveries, Read(d)
    PROVE  MediaInv'
<1>1. PICK s : s = Speaker(d)
  OBVIOUS
<1>2. /\ delivery[d] # NoVolume /\ delivery[d].step = "read" /\ UNCHANGED <<level, normal, mixed>>
  BY DEF Read, Doing
<1>3. /\ MediaTypeOK /\ delivery[d] \in DeliveryRow /\ s \in Speakers /\ delivery[d].speaker = s
      /\ \A e \in Deliveries \ {d} : delivery[e] # NoVolume => Speaker(e) # s \/ s \in mixed
      /\ KeepsVolume(d)
  BY <1>1, <1>2, UnderWay
<1>4. ~Changed(d) /\ Owners(s, level[s]) /\ delivery[d].route \in Levels
  BY <1>1, <1>2, <1>3 DEF KeepsVolume, Owners
<1>5. ASSUME Goes(d, "act", TRUE), UNCHANGED excused, mishaps' \in 0..MaxMishaps
      PROVE  MediaInv'
  BY <1>1, <1>2, <1>3, <1>4, <1>5, Untouched, GoingOn DEF Stages, Owners
<1>6. CASE level[Speaker(d)] = delivery[d].route
           /\ Goes(d, "act", TRUE) /\ UNCHANGED <<excused, mishaps>>
  BY <1>3, <1>5, <1>6 DEF MediaTypeOK
<1>7. CASE /\ delivery' = [delivery EXCEPT ![d].original = level[Speaker(d)], ![d].step = "set"]
           /\ UNCHANGED <<excused, mishaps>>
  <2> DEFINE x == [delivery[d] EXCEPT !.original = level[s], !.step = "set"]
  <2>1. delivery' = [delivery EXCEPT ![d] = x]
    BY <1>1, <1>3, <1>7 DEF MediaTypeOK
  <2>2. level[s] \in Levels
    BY <1>3 DEF MediaTypeOK
  <2>3. x \in DeliveryRow
    BY <1>3, <2>2 DEF DeliveryRow, Stages
  <2>4. /\ x.speaker = s /\ x.purpose = delivery[d].purpose /\ x.step = "set"
        /\ x.route = delivery[d].route /\ x.original = level[s]
    BY <1>3 DEF DeliveryRow
  <2>5. x # NoVolume
    BY <2>3, MediaAssumption
  <2> HIDE DEF x
  <2>6. OnlyAt(s)
    BY <1>2, <1>3, <1>7, Untouched DEF MediaTypeOK
  <2>7. OwnStep(d, s, x)
    BY <2>1, <2>3, <2>4, <2>6 DEF OwnStep
  <2>8. delivery'[d] = x
    BY <1>3, <2>1 DEF MediaTypeOK
  <2>9. delivery[d].purpose # "volume"
    BY <1>2, <1>3 DEF KeepsVolume
  <2>10. KeepsVolume(d)'
    BY <1>2, <1>4, <1>7, <2>2, <2>4, <2>8, <2>9, MediaAssumption DEF KeepsVolume, Changed, Speaker, Owners
  <2> QED
    BY <1>1, <1>2, <1>3, <2>5, <2>7, <2>10, OneDeliverysStep DEF Speaker
<1>8. CASE /\ Costs(FALSE)
           /\ IF delivery[d].purpose = "media" THEN Answers(d, FALSE, TRUE)
              ELSE Goes(d, "act", TRUE) /\ UNCHANGED excused
  <2>1. mishaps' \in 0..MaxMishaps
    BY <1>3, <1>8, CostsType DEF MediaTypeOK
  <2>2. CASE delivery[d].purpose = "media"
    <3>1. delivery' = [delivery EXCEPT ![d] = NoVolume] /\ UNCHANGED excused
      BY <1>8, <2>2 DEF Answers
    <3> QED
      BY <1>1, <1>2, <1>3, <1>4, <2>1, <3>1, Untouched, Answering DEF Owners
  <2>3. CASE delivery[d].purpose # "media"
    BY <1>5, <1>8, <2>1, <2>3
  <2> QED
    BY <2>2, <2>3
<1> QED
  BY <1>6, <1>7, <1>8 DEF Read

LEMMA SetRouteVolumeOK ==
    ASSUME MediaInv, NEW d \in Deliveries, SetRouteVolume(d)
    PROVE  MediaInv'
<1>1. PICK s : s = Speaker(d)
  OBVIOUS
<1>2. delivery[d] # NoVolume /\ delivery[d].step = "set" /\ UNCHANGED <<normal, excused, mixed>>
  BY DEF SetRouteVolume, Doing
<1>3. /\ MediaTypeOK /\ s \in Speakers /\ Changed(d) /\ delivery[d].route \in Levels
  BY <1>1, <1>2, UnderWay DEF KeepsVolume
<1>4. PICK accepted \in BOOLEAN :
        /\ Sets(s, delivery[d].route, accepted)
        /\ Goes(d, IF accepted THEN "check" ELSE "restore", accepted)
  BY <1>1 DEF SetRouteVolume
<1>5. OnlyAt(s)
  BY <1>2, <1>3, <1>4, SetsSpeaker DEF OnlyAt, MediaTypeOK
<1>6. (IF accepted THEN "check" ELSE "restore") \in {"check", "restore"}
  OBVIOUS
<1> QED
  BY <1>1, <1>2, <1>3, <1>4, <1>5, <1>6, GoingOn DEF Stages

LEMMA CheckRouteVolumeOK ==
    ASSUME MediaInv, NEW d \in Deliveries, CheckRouteVolume(d)
    PROVE  MediaInv'
<1>1. PICK s : s = Speaker(d)
  OBVIOUS
<1>2. delivery[d] # NoVolume /\ delivery[d].step = "check" /\ UNCHANGED <<level, normal, excused, mixed>>
  BY DEF CheckRouteVolume, Doing
<1>3. MediaTypeOK /\ s \in Speakers /\ Changed(d)
  BY <1>1, <1>2, UnderWay DEF KeepsVolume
<1>4. PICK matches \in BOOLEAN :
        /\ Reads(s, delivery[d].route, matches)
        /\ Goes(d, IF matches THEN "act" ELSE "restore", matches)
  BY <1>1 DEF CheckRouteVolume
<1>5. mishaps' \in 0..MaxMishaps
  BY <1>3, <1>4, CostsType DEF Reads, MediaTypeOK
<1>6. OnlyAt(s)
  BY <1>2, <1>3, <1>5, Untouched
<1>7. (IF matches THEN "act" ELSE "restore") \in {"act", "restore"}
  OBVIOUS
<1> QED
  BY <1>1, <1>2, <1>3, <1>4, <1>6, <1>7, GoingOn DEF Stages

LEMMA ActOK ==
    ASSUME MediaInv, NEW d \in Deliveries, Act(d)
    PROVE  MediaInv'
<1>1. PICK s : s = Speaker(d)
  OBVIOUS
<1>2. delivery[d] # NoVolume /\ UNCHANGED <<level, normal, mixed>>
  BY DEF Act, Doing
<1>3. MediaTypeOK /\ s \in Speakers /\ KeepsVolume(d)
  BY <1>1, <1>2, UnderWay
<1>4. PICK accepted \in BOOLEAN :
        /\ Costs(accepted)
        /\ IF accepted /\ delivery[d].purpose = "media"
           THEN Goes(d, "observe", TRUE) /\ UNCHANGED excused
           ELSE WindsUp(d, accepted)
  BY DEF Act
<1>5. mishaps' \in 0..MaxMishaps
  BY <1>3, <1>4, CostsType DEF MediaTypeOK
<1>6. CASE accepted /\ delivery[d].purpose = "media"
  <2>1. Goes(d, "observe", TRUE) /\ UNCHANGED excused
    BY <1>4, <1>6
  <2>2. OnlyAt(s)
    BY <1>2, <1>3, <1>5, <2>1, Untouched
  <2>3. ~Changed(d) => Owners(s, level[s])'
    BY <1>1, <1>2, <1>3, <2>1 DEF KeepsVolume, Owners
  <2> QED
    BY <1>1, <1>2, <2>1, <2>2, <2>3, GoingOn DEF Stages
<1>7. CASE ~(accepted /\ delivery[d].purpose = "media")
  BY <1>2, <1>4, <1>5, <1>7, WindsUpOK
<1> QED
  BY <1>6, <1>7

LEMMA ObserveOK ==
    ASSUME MediaInv, NEW d \in Deliveries, Observe(d)
    PROVE  MediaInv'
<1>1. PICK verified \in BOOLEAN : WindsUp(d, verified)
  BY DEF Observe
<1>2. delivery[d] # NoVolume /\ UNCHANGED <<level, normal, mixed, mishaps>>
  BY DEF Observe, Doing
<1> QED
  BY <1>1, <1>2, WindsUpOK DEF MediaInv, MediaTypeOK

\* The volume asked for becomes the normal one as soon as the speaker has it.
LEMMA ActOnVolumeOK ==
    ASSUME MediaInv, NEW d \in Deliveries, ActOnVolume(d)
    PROVE  MediaInv'
<1>1. PICK s : s = Speaker(d)
  OBVIOUS
<1>2. delivery[d] # NoVolume /\ delivery[d].purpose = "volume" /\ UNCHANGED mixed
  BY DEF ActOnVolume, Doing
<1>3. /\ MediaTypeOK /\ s \in Speakers /\ ~Changed(d) /\ delivery[d].route \in Levels
      /\ Owners(s, level[s])
  BY <1>1, <1>2, UnderWay DEF KeepsVolume
<1>4. PICK accepted \in BOOLEAN :
        /\ Sets(s, delivery[d].route, accepted)
        /\ IF accepted THEN Goes(d, "observe", TRUE)
           ELSE delivery' = [delivery EXCEPT ![d] = NoVolume]
  BY <1>1 DEF ActOnVolume
<1>5. /\ level' \in [Speakers -> Levels] /\ level'[s] \in {delivery[d].route, level[s]}
      /\ \A t \in Speakers \ {s} : level'[t] = level[t]
      /\ mishaps' \in 0..MaxMishaps
  BY <1>3, <1>4, SetsSpeaker
<1>6. IF level'[s] = delivery[d].route
      THEN normal' = [normal EXCEPT ![s] = delivery[d].route] /\ excused' = excused \ {s}
      ELSE UNCHANGED <<normal, excused>>
  BY <1>1 DEF ActOnVolume
<1>7. OnlyAt(s)
  BY <1>2, <1>3, <1>5, <1>6 DEF OnlyAt, MediaTypeOK
<1>8. Owners(s, level[s])'
  BY <1>2, <1>3, <1>5, <1>6 DEF Owners, MediaTypeOK
<1> QED
  BY <1>1, <1>2, <1>3, <1>4, <1>7, <1>8, GoingOn, Answering DEF Stages

\* The owner's volume is back, or the answer says it may not be.
LEMMA RestoreOK ==
    ASSUME MediaInv, NEW d \in Deliveries, Restore(d)
    PROVE  MediaInv'
<1>1. PICK s : s = Speaker(d)
  OBVIOUS
<1>2. delivery[d] # NoVolume /\ delivery[d].step = "restore" /\ UNCHANGED <<normal, mixed>>
  BY DEF Restore, Doing
<1>3. /\ MediaTypeOK /\ s \in Speakers /\ delivery[d] \in DeliveryRow /\ Changed(d)
  BY <1>1, <1>2, UnderWay DEF KeepsVolume
<1>4. delivery[d].original \in Levels /\ delivery[d].good \in BOOLEAN
  BY <1>3 DEF DeliveryRow, Changed
<1>5. PICK accepted \in BOOLEAN :
        /\ Sets(s, delivery[d].original, accepted)
        /\ IF accepted THEN Goes(d, "confirm", delivery[d].good) /\ UNCHANGED excused
           ELSE Answers(d, delivery[d].good, FALSE)
  BY <1>1 DEF Restore
<1>6. /\ level' \in [Speakers -> Levels]
      /\ \A t \in Speakers \ {s} : level'[t] = level[t]
      /\ mishaps' \in 0..MaxMishaps
  BY <1>3, <1>4, <1>5, SetsSpeaker
<1>7. CASE accepted
  <2>1. OnlyAt(s)
    BY <1>2, <1>3, <1>5, <1>6, <1>7 DEF OnlyAt, MediaTypeOK
  <2> QED
    BY <1>1, <1>2, <1>3, <1>4, <1>5, <1>7, <2>1, GoingOn DEF Stages
<1>8. CASE ~accepted
  <2>1. delivery' = [delivery EXCEPT ![d] = NoVolume] /\ excused' = excused \cup {s}
    BY <1>1, <1>5, <1>8 DEF Answers, Result
  <2>2. OnlyAt(s)
    BY <1>2, <1>3, <1>6, <2>1 DEF OnlyAt, MediaTypeOK
  <2> QED
    BY <1>1, <1>2, <2>1, <2>2, Answering DEF Owners
<1> QED
  BY <1>7, <1>8

LEMMA ConfirmRestoredOK ==
    ASSUME MediaInv, NEW d \in Deliveries, ConfirmRestored(d)
    PROVE  MediaInv'
<1>1. PICK s : s = Speaker(d)
  OBVIOUS
<1>2. delivery[d] # NoVolume /\ delivery[d].step = "confirm" /\ UNCHANGED <<level, normal, mixed>>
  BY DEF ConfirmRestored, Doing
<1>3. /\ MediaTypeOK /\ s \in Speakers /\ Owners(s, delivery[d].original)
  BY <1>1, <1>2, UnderWay DEF KeepsVolume
<1>4. PICK matches \in BOOLEAN :
        /\ Reads(s, delivery[d].original, matches)
        /\ Answers(d, delivery[d].good, matches)
  BY <1>1 DEF ConfirmRestored
<1>5. mishaps' \in 0..MaxMishaps
  BY <1>3, <1>4, CostsType DEF Reads, MediaTypeOK
<1>6. /\ delivery' = [delivery EXCEPT ![d] = NoVolume]
      /\ excused' = IF matches THEN excused ELSE excused \cup {s}
  BY <1>1, <1>4 DEF Answers, Result
<1>7. OnlyAt(s)
  BY <1>2, <1>3, <1>5, <1>6, Untouched
<1>8. Owners(s, level[s])'
  BY <1>2, <1>3, <1>4, <1>6 DEF Reads, Owners
<1> QED
  BY <1>1, <1>2, <1>6, <1>7, <1>8, Answering

LEMMA EndsOK ==
    ASSUME MediaInv, NEW d \in Deliveries, Ends(d)
    PROVE  MediaInv'
<1>1. PICK s : s = Speaker(d)
  OBVIOUS
<1>2. delivery[d] # NoVolume /\ UNCHANGED <<level, normal, mixed>>
  BY DEF Ends
<1>3. MediaTypeOK /\ s \in Speakers /\ KeepsVolume(d)
  BY <1>1, <1>2, UnderWay
<1>4. mishaps' \in 0..MaxMishaps
  BY <1>3, CostsType DEF Ends, MediaTypeOK
<1>5. /\ delivery' = [delivery EXCEPT ![d] = NoVolume]
      /\ excused' = IF Changed(d) THEN excused \cup {s} ELSE excused
  BY <1>1 DEF Ends, Answers, Result
<1>6. OnlyAt(s)
  BY <1>2, <1>3, <1>4, <1>5, Untouched
<1>7. Owners(s, level[s])'
  BY <1>1, <1>2, <1>3, <1>5 DEF KeepsVolume, Owners
<1> QED
  BY <1>1, <1>2, <1>5, <1>6, <1>7, Answering

\* The knob is turned where nothing is under way, so no delivery has a say in it.
LEMMA TurnOK ==
    ASSUME MediaInv, NEW s \in Speakers, NEW v \in Levels, Turn(s, v)
    PROVE  MediaInv'
<1>1. /\ MediaTypeOK /\ OneAtATime
      /\ \A t \in Speakers : Idle(t) => Owners(t, level[t])
      /\ \A e \in Deliveries : KeepsVolume(e)
  BY DEF MediaInv
<1>2. /\ Idle(s) /\ UNCHANGED <<delivery, mishaps>>
      /\ level' = [level EXCEPT ![s] = v] /\ normal' = [normal EXCEPT ![s] = v]
      /\ excused' = excused \ {s} /\ mixed' = mixed \ {s}
  BY DEF Turn
<1>3. MediaTypeOK' /\ OneAtATime'
  BY <1>1, <1>2 DEF MediaTypeOK, OneAtATime, Speaker, Idle
<1>4. ASSUME NEW t \in Speakers, Idle(t)' PROVE Owners(t, level[t])'
  <2>1. Idle(t)
    BY <1>2, <1>4 DEF Idle
  <2> QED
    BY <1>1, <1>2, <2>1 DEF MediaTypeOK, Owners
<1>5. ASSUME NEW e \in Deliveries PROVE KeepsVolume(e)'
  <2>1. delivery[e] # NoVolume => Speaker(e) \in Speakers \ {s}
    BY <1>1, <1>2 DEF MediaTypeOK, DeliveryRow, Speaker, Idle
  <2> QED
    BY <1>1, <1>2, <2>1 DEF KeepsVolume, MediaTypeOK, Changed, Owners, Speaker
<1> QED
  BY <1>3, <1>4, <1>5 DEF MediaInv

-----------------------------------------------------------------------------
(* The invariant, and the theorem.                                          *)

LEMMA MediaInitial == MediaInit => MediaInv
<1> SUFFICES ASSUME MediaInit PROVE MediaInv
  OBVIOUS
<1>1. MediaTypeOK
  BY MediaAssumption DEF MediaInit, MediaTypeOK
<1>2. \A d \in Deliveries : delivery[d] = NoVolume
  BY DEF MediaInit
<1> QED
  BY <1>1, <1>2 DEF MediaInit, MediaInv, OneAtATime, KeepsVolume, Owners

LEMMA MediaInductive ==
    ASSUME MediaInv, [MediaNext]_mediaVars
    PROVE  MediaInv'
<1>1. CASE UNCHANGED mediaVars
  BY <1>1 DEF mediaVars, MediaInv, MediaTypeOK, OneAtATime, KeepsVolume, Owners, Idle, Speaker, Changed
<1>2. CASE MediaNext
  BY <1>2, BeginOK, ReadOK, SetRouteVolumeOK, CheckRouteVolumeOK, ActOK, ActOnVolumeOK, ObserveOK,
     RestoreOK, ConfirmRestoredOK, EndsOK, TurnOK
     DEF MediaNext
<1> QED
  BY <1>1, <1>2

LEMMA MediaInvariant == MediaSpec => []MediaInv
<1>1. MediaInv /\ [MediaNext]_mediaVars => MediaInv'
  BY MediaInductive
<1> QED
  BY <1>1, MediaInitial, PTL DEF MediaSpec

\* Where deliveries have followed one another on a speaker, the volume one of
\* them sets is temporary: an idle speaker has its owner's volume, whatever
\* failed and whichever program died, unless the restoring itself failed and
\* the result says so (MediaService.execute, deliver_spoken_response).  Nothing
\* keeps deliveries from overlapping; a speaker where two have is let off until
\* its owner turns the knob.
THEOREM VolumesComeBack == MediaSpec => []VolumeComesBack
<1>1. MediaInv => VolumeComesBack
  BY DEF MediaInv, VolumeComesBack, Owners
<1> QED
  BY <1>1, MediaInvariant, PTL
=============================================================================

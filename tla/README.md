# AskRex Assistant: a TLA+ model of its concurrent core

AskRex is a personal assistant: a Python runtime (`rex/`) reached by voice, by a
desktop application (`gui/`, through the one-shot programs in `bridge/`) and by
phones (`rex/mobile_api/`). This directory models the parts of it where several
threads, processes, clients and failures meet: TLA+ modules translated from the
source, TLC configurations that check them on small instances, and proofs that
TLAPS checks for all values of the constants. Paths below are relative to the
root of the repository.

Contents: 1 the system; 2 the modules; 3 what is checked; 4 fairness; 5 what is
proved; 6 where the code and its documentation disagree; 7 what else was
noticed; 8 what is not modelled; 9 what could come next.

## 1. The system

### 1.1 Components

| Component | State it keeps | Operations | What is hard about it |
|---|---|---|---|
| **Mobile session and pairing store** (`mobile_api/sessions.py`, `pairing.py`, `authorization.py`) | SQLite tables: users, sessions, refresh tokens, two kinds of challenges, pairing requests, devices, versioned grants | login, refresh, logout, revoke; challenge and activation of a device session; pairing challenge, proof, approval, denial, revocation of a device | long legal sequences (rotation, re-approval, revocation in any order), replay of old tokens, expiry at the boundary |
| **Request authentication and strong auth** (`auth.py`, `strong_auth.py`, `action_context.py`, `routes/home.py`) | strong-auth challenges and one-time approvals; request threads | load or revalidate a principal, issue, verify, consume, act | one load is three transactions; two requests race for one approval |
| **Chat idempotency and transports** (`idempotency.py`, `routes/chat.py`, `websocket.py`) | one row per (user, message) | reserve, complete, fail, prune, over HTTP, SSE and WebSocket | retries on another transport, disconnects at every yield, crashes, revocation during an answer, the retention window |
| **Background supervisor** (`background/supervisor.py`, `lock.py`, `cli.py`, with `core_server.py` and `voice_agent.py` as the supervisor sees them) | two child processes, restart windows and backoffs, endpoint, health and stop files | start, tick, stop | children crash, hang, refuse to stop; stale files; failed launches; death of the supervisor |
| **Tool execution** (`tools/execution.py`) | table of results of mutations, a handler thread per attempt | one `execute()`: checks, attempt, polling, retry, verification, record | a handler outlives its call; cancellation and time-out race its end; unknown outcomes; repeated requests |
| **Action graph scheduler** (`actions/graph_executor.py`, `graph.py`) | records, confirmations, the running batch | rounds: block, confirm, choose a batch, run it in a pool | parallel reads, cancellation between any two steps, order of blocking |
| **Timers and alarms** (`timekeeping/service.py`, `runtime.py`) | records in memory and in one file; a generation counter; a worker thread | create, pause, resume, restart, edit, cancel, snooze, dismiss, claim what is due | lost wake-ups, crash between claim and announcement, failed saves, several processes over one file |
| **Scheduler, reminders, service supervisor** (`scheduler.py`, `reminder_service.py`, `service_supervisor.py`, set up in `app.py`) | job table and its file, loop threads, reminders, the service's status | start and stop of the loop, due and manual runs, changes of jobs and reminders, health checks, restarts | a job runs outside the lock; the restarted loop overlaps the old one; callbacks do not survive a restart |
| **Follow-ups and cues** (`cue_store.py`, `followup_engine.py`, `calendar_service.py`) | cues in one file, a copy in each process, what a session asked | start a session, collect, dismiss, prune, cue of a reminder | two copies of one file, expiry against the calendar's window |
| **Workflows and approvals** (`workflow.py`, `workflow_runner.py`, `commands/workflows.py`) | the workflow's file, a copy in each command, approval files | run, resume, approve, deny; one step | crash between a call and the save, re-runs, decisions at any time |
| **Warm model runtime** (`runtime/warm.py`) | loaded models, a budget, two locks per model | acquire, warm, release, evict, set the budget | three nested locks, victims chosen before they are locked |
| **OpenClaw connection** (`openclaw/reconnect.py`, `capability_sync.py`) | state and generation of the connection, remote cards, the reconnect worker | dispatch, refresh, disconnect, reconnect, close | overlapping outages, refreshes and recoveries; the worker lets its lock go between its checks |
| **Media sessions and output routing** (`media/service.py`, `output_routing/spoken.py`) | none of their own while they deliver: the volume to restore is a local variable | a media command or a spoken reply with a temporary volume | each call of a speaker fails in its own way; two deliveries on one speaker; an end in between |

Not modelled, with the reasons in section 8: the other mobile routes, the Core's
turn protocol, the action dispatcher, the turn engine, automations and event
triggers, autonomy, tool implementations, capabilities, Home Assistant, notifications, credentials, memory, provider
reliability, the assistant itself, voice, integrations, command line, desktop
application and bridges.

### 1.2 How they interact

- A mobile request is a thread of the gateway. It loads its principal (session,
  user and grant), then runs transactions of the store, then perhaps the
  Assistant or Home Assistant. All it shares with other threads is the database.
- A chat message, over any transport, is reserved in one table before the
  Assistant runs and settled after it; the principal is revalidated in between.
- A plan of actions is executed by the graph scheduler, which hands each node to
  the action dispatcher, which calls the tool executor. The turn's cancellation
  flag (`TurnCancellation`) is shared by all three and by the client.
- The supervisor and its children share files only: the Core publishes an
  endpoint, the Voice Agent reads it once and publishes its health, and the
  supervisor reads both.
- Every process that constructs an Assistant has a timekeeping service over the
  same
  file: the Core, the voice bridge, the mobile gateway, and the chat bridge
  that the desktop application spawns for each message. The same processes, and
  the command line, have a copy each of the cues and of a workflow they run.
- The service supervisor starts and stops the scheduler, whose loop calls the
  reminder service, which in turn adds and loads the scheduler's job, and leaves a
  cue for the assistant's next session.
- Remote tools of the gateway are called under the reconnect controller's lock;
  the controller calls the synchroniser, under a lock of its own, and the
  synchroniser asks the controller whether its answer is still wanted.
- The language model, speech recognition and speech lease their models from one
  warm runtime per process.
- Media commands run in the threads of several programs, spoken replies in the
  Voice Agent; all they share is the speakers.

### 1.3 What makes each component correct

- **Store.** Revocation reaches the whole family and one user's sessions only; a
  family has one usable token; neither a newer approval nor a revocation leaves
  an older session usable; a password session is exchanged once; every grant
  version goes back to one approval; nothing ended lives again.
- **Gateway.** Three reads on three connections authorize as one; one approval
  makes the house act at most once, and on what was signed.
- **Chat.** At most one execution of a message in the retention window; one
  answer per message; no result crosses payloads; what is produced after a
  logout is withheld; every reservation settles.
- **Supervisor.** One child per role and none lost from sight; READY never
  speaks of a Core that is gone; restarts are bounded and giving up is final;
  the runtime settles.
- **Tools.** A request is written again only by calls that overlap or after a plain
  error of its handler, and its verdict is revised only by calls that overlap; no
  success is made up, and no failure but by the handler itself; every call is
  answered.
- **Action graph.** No conflicting overlap; nothing starts after a failed
  ancestor, a refused confirmation or a cancellation; nothing safe is skipped;
  every plan ends.
- **Timekeeping.** Nothing is announced twice or comes back and no saved record is
  lost, but by a process that writes over what it has not seen; no wake-up is lost;
  what is due fires.
- **Scheduler and reminders.** A reminder is notified once, across jobs that are
  edited, run by hand or run by overlapping loops, as long as its callback itself
  does not overlap; a due one fires; a service that was stopped stays down.
- **Follow-ups.** The user is not asked again about what he was asked or has
  dismissed, but for the prompt fetched at the start of a session.
- **Workflows.** A key is executed once; a step that asks is called with an
  approval of its own; a workflow said to be completed has done every step.
- **Warm runtime.** The budget holds; what is leased stays; no circular wait.
- **OpenClaw.** Ready means freshly synchronised; an outage ends in ready; closed
  means closed.
- **Speakers.** The volume a delivery borrows comes back, or its result says that it
  may not have, unless another delivery came in between.

## 2. The modules

| Module | Models | Extended or used by |
|---|---|---|
| `MobileStore` | the transactions of the store | `MobileGateway`, `MobileStore_proofs` |
| `MobileGateway` | request threads over `MobileStore` | `MobileGatewayMC`, `MobileGateway_proofs` |
| `OneAnswer` | what the chat promises its clients (abstract) | `MobileChat`, as `Promise`, by a refinement mapping |
| `MobileChat` | table and handlers of chat messages | `ConversationMC`, `MobileChatMC`, `MobileChat_proofs` |
| `Supervisor` | supervisor, children, files | `BackgroundMC`, `Recovery_proofs` |
| `ToolExecution` | `execute()` and its handlers | `ToolExecutionMC`, `BackgroundMC`, `Jobs_proofs` |
| `ActionGraph` | one execution of a plan | `ActionGraphMC`, `ConversationMC`, `ActionGraph_proofs` |
| `Timekeeping` | service, file and worker of each process | `ConversationMC`, `Timekeeping_proofs` |
| `Scheduler` | jobs, their file, loops and manual runs | `Reminders` |
| `Reminders` | reminders and the callback of their job, over `Scheduler` | `ServiceSupervisor` |
| `ServiceSupervisor` | start, health check, restart and stop of the scheduler, over `Reminders` | `BackgroundMC`, `Jobs_proofs` |
| `FollowUps` | cues, sessions and two processes over one file | `ConversationMC`, `Jobs_proofs` |
| `Workflows` | a workflow, its commands and approvals | `WorkflowsMC`, `RequestsMC`, `Requests_proofs` |
| `WarmRuntime` | loads, leases and evictions under the three locks | `RequestsMC`, `Requests_proofs` |
| `OpenClaw` | reconnect controller and synchroniser | `ConversationMC`, `Recovery_proofs` |
| `MediaOutput` | volumes of the speakers during deliveries | `RequestsMC`, `Requests_proofs` |
| `RequestsMC` | instance: store, gateway, workflow, warm runtime, speakers | - |
| `ConversationMC` | instance: chat, action graph, timekeeping, follow-ups, OpenClaw | - |
| `BackgroundMC` | instance: supervisor, services, tool execution | - |

`*MC` modules give TLC its instances, `*_proofs` hold the theorems: one module
for each component whose proofs are long, and three that hold several
(`Requests_proofs`: workflows, warm runtime, speakers; `Recovery_proofs`: OpenClaw,
supervisor; `Jobs_proofs`: tools, services, follow-ups), a section for each component. In the
component modules, a definition marked "Mutant" is a plausible bug: a form of the
definition after it that breaks the property it is meant for. They are used by
no specification.

**MobileStore.** One action per transaction: each method of the source opens one
connection, runs `BEGIN IMMEDIATE ... COMMIT` and rolls back on any exception, so
it is atomic, and a refusal is no step. The exception is a refusal that commits:
a replayed refresh token revokes its family (`sessions.py:705`). A phone is its
key; the grants of a device are a sequence indexed by version; a pairing
challenge and its request are one row; the family of a token is its session.
Scopes, device names, timestamps nothing reads back and audit rows are left out;
proofs of possession are assumed sound. The clock is bounded by `MaxTime`.

**MobileGateway.** A request is a program of operations: `load` takes three
steps on three connections (session; user and grant; the revocation when the
grant is not active), the others one each. Between any two of them any
transaction of the store may run. `POST /mobile/home/command` is load, consume,
load, execute, load; a privileged tool in a chat is load, load, consume,
execute, load. `executed` counts what the house did on each approval.

**MobileChat.** A delivery is one arrival of a message, with a thread that goes
through the phases of its transport: reserve (and prune), ack, run, produce,
check, send, store or fail, tell. Each database transaction and each send is a
step. The Assistant is a choice: it produces a chunk, ends or fails. The
environment is a clock, a logout, the loss of a client and a crash. Revalidation
is one atomic check here; `LoadsAreAtomic` of `MobileGateway` is what justifies
that. `LongRuns = FALSE` says that executions end within the retention window
(48 hours by default).

**OneAnswer.** A message is opened by one delivery and settles once; every
delivery that is told a result is told the one it settled to. It knows no
transports, no table and no time.

**Supervisor.** A tick of the source is several actions, split where the
children, the files or the operating system can change things (`pc` is `core`,
`ready`, `waiting`, `stopping`). The packaged Windows build is modelled, where a
job object kills the children with the supervisor. Timers are relative and
saturate, so time is unbounded and the state space finite. Every failure of the
environment spends one of `Faults`.

**ToolExecution.** A call goes from its checks through attempts and polling to
verification and its record; its handler is a process of its own that writes,
ends or runs for ever, whatever its caller does. What a check looks at is reduced
to its outcome. Calls of one request may overlap, as nothing is held between the
look into the table and its entry, and a handler that raises may have written
before; `company` (history) keeps which calls of its request were under way when a
call was admitted.

**ActionGraph.** The scheduler's rounds over one plan: `look` blocks the
descendants of failures, asks for confirmations and chooses a batch, `run` waits
for it. Nodes are numbered in the order of `graph.nodes`, which matters. The
dispatcher may answer anything, or raise.

**Timekeeping.** A method of the service runs under its lock and is one step,
which either saves or fails to save what it changed in memory. The worker's loop
is split where it lets go of a lock: claim, deliver, plan, park, wait. A process
reads the file once, when it starts. `dirty` marks the processes whose last
change was not saved; `behind` and `overrun` (history) keep which records another
process has written since a process read the file, and which of those it has
changed or written over. Owners, names, targets and time zones are left out; an
occurrence of a recurring alarm is the next multiple of `Day`.

**Scheduler.** `run_due_jobs` takes a snapshot of the table and then considers
one job after another; `run_job` enters under the lock, calls the job without it,
and counts under it again (`Enter`, `Call`, `FinishJob`). A save takes its payload
under the lock and writes it outside (`WriteFile`), so an older payload may be
written last. Two loops may be alive, because stopping waits five seconds only.
Times are distances to now and saturate.

**Reminders** extends it with the reminder table and the callback of the job
`reminder_check`, which has no lock: it lists what is due, notifies and marks each
in turn. Callbacks are not in the file: after a restart the job is there and
its callback is not.

**ServiceSupervisor** extends it with the thread of the health check, which
restarts a service in two steps (stop, start), and with the program's own start
and stop. Health restarts and restarts of the program share the bound `MaxUpsets`.

**FollowUps.** A source (an event or a reminder) has at most one cue. Each process
has a copy of the file; a save writes the whole copy. The other process stands
for the reminder job and the command line. Hours pass for all copies at once. The
start of a session fetches a prompt (`get_followup_prompt`), whose cue stays pending,
and `AskPrefetched` puts it into a turn later (`assistant.py:701`), whether or not
`collect_followups` has handed out the same cue in between. At this commit that
second path is not reached: `_prepare_model_input` is called by `_prepare_prompt`
only, which nothing calls. The model has it all the same.

**Workflows.** A command is a process with a copy of the workflow: it is between
two steps (`step`) or has called the tool and not yet saved (`called`). Any save may
fail, as the code only logs it, and any command may die. A step has a key, the
verdict of its policy, and whether its precondition may let it pass.

**WarmRuntime.** Every acquisition of one of the three locks is a step. Idle time
and the order of use are left open: any unleased resident model may become
idle, any may be the least recently used.

**OpenClaw.** A generation is compared with the current one only, so a thread
remembers whether its generation is current. A dispatch is one step, as it runs
under the controller's lock. A refresh keeps the synchroniser's lock until its
snapshot is applied or its disconnect projected.

**MediaOutput.** A delivery is a thread that goes through `read`, `set`, `check`, `act`,
`observe`, `restore` and `confirm`, one call of the speaker each; a command that sets
the volume itself goes straight to `act`. A call may be refused, be ignored, or
take effect without an answer, and a program may end at any point; each spends one
of `MaxMishaps`. The first step of a delivery takes its route and volume from any
there are. The owner turns the knob only while nothing is under way on the speaker. `normal` is the
volume he last gave it, by the knob or by a command. A spoken reply to a
speaker that can be restored meets no real suspension between setting and
restoring (its sender does not await anything), so a cancellation cannot fall between
the two; the end of the process can. `Result` is what a delivery answers: a command
succeeds only with its speaker restored, while a spoken reply is delivered all the
same, with the reason `delivered_volume_restore_unverified` (`spoken.py:200`), which
`voice_loop.py:243` does not look at. Deliveries may overlap on a speaker; `mixed`
(history) names the speakers on which they have.

**The instances.** Components that share no state are checked together in one
run: the instance module extends them, a variable `moving` says which of them
moves in this behaviour and never changes, and the others rest in their initial
states. (The two that start in one of several states, the plan and the connection of
`ConversationMC`, rest in one of which their liveness properties say nothing.) The
states of such a run are the sum, not the product, of those of the
components, and every property is checked in every one of them.

## 3. What is checked

Deadlock is checked except where the system may really stop: a chat whose
deliveries are all answered, a tool call or a plan that has ended, a household
whose processes have exited. Symmetry is used in the runs that check safety and
refinement only, never with liveness. All runs finish within the bounds named.

| Run | Instance | Shows |
|---|---|---|
| `requests` | *store*: 1 user, 1 phone, 3 sessions and tokens or 2 and a second pairing request, 1 device-session challenge; refresh lifetime 2, others 1, clock 0..2; *gateway*: a paired phone to begin with, 2 request threads of any kind, 1 approval, 2 actions, 2 sessions and tokens, clock 0..1, every transaction of the store between them; *workflow*: 3 steps of which two share a key and one asks, 2 runners, 4 commands, 2 approvals; *models*: 2 threads, 2 models of cost 1 and 2, budgets 1 and 2; *speakers*: 1 speaker, 2 volumes, 2 threads, 2 mishaps | `IInv`, `EndedSessionsStayEnded`; `ApprovalSpentOnce`, `ExecutesWhatWasSigned`, `LoadsAreAtomic`; `KeysOnce`, `CompletedIsHonest`, `CalledWithApproval`; `BudgetHolds`, `LeaseStays`, `NoCircularWait`; `VolumeComesBack` |
| `conversation` | *chat*: 2 payloads, 3 transports, 2 chunks, 1 crash, 1 logout, retention 1; a message and its resends, 3 deliveries in all, in no time; or 3 requests of 2 messages, the first, the second and the first again, with a clock 0..2; *plan*: 26 plans of 4 actions, at most 2 reads at a time; *timers*: 1 process, 1 timer, 1 alarm, day and spans of 1, 2 rounds of the alarm, 2 in all of ticks, restarts and failed saves or refused edits; or 2 processes with 1 timer, and no time passing; *cues*: 1 event, 1 reminder, 1 question per session, window and expiry of 1 hour, 2 sessions, a second process; *OpenClaw*: 2 threads, 2 threads for the worker, 2 outages | `ReplaysMatch`, `RevokedIsWithheld`, `NeverAgainSoon`, `KeepsPromise` (the refinement of `OneAnswer`), `EveryMessageSettles`; `NoConflictingOverlap`, `SafeToStart`, `OnlyUnsafeSkipped`, `EveryNodeSettles`; `AnnouncedOnce`, `SleepsUntilNext`, `SavedIsKept`, `DueFires`; `NeverAskedAgain`; `ReadyMeansFresh`, `Recovers` |
| `background` | *runtime*: 4 process ids, 1 restart in a window of 2, all other timers 1, 3 failures, 2 starts; *services*: 1 reminder, its job and no other, 2 loop threads, 1 manual caller, 2 changes of reminder or job, 1 restart by the health check or of the program; *tools*: 2 calls: a request and its resend, with the same or with other arguments, to a verified tool; a request to a tool without verifier beside a read | `NoStrays`, `ReadyMeansBound`, `CoreRestartsBounded`, `Settles`; `NotifiedOnce`, `DownStaysDown`, `DueReminderFires`; `RewritesHaveCause`, `FailureIsTheHandlers`, `VerifiedIsTrue`, `RevisedInCompany`, `Answered` |
| `chat_ack` | the chat, 1 message, 2 deliveries, without fairness | violates `InProgressMeansExecuting` (section 6) |
| `openclaw_closed` | the OpenClaw connection of `conversation` | violates `ClosedForGood` (section 6) |
| `graph_order` | a chain of 3 listed from its end | violates `ValidatedGraphProgresses` (section 6) |
| `timers_shared` | 2 processes, no failure | violates `NothingSavedIsLost` (section 6) |
| `tool_duplicates` | the tools of `background` | violates `AtMostOneWrite` (section 6) |
| `tool_failure` | the same | violates `FailureIsHonest` (section 6) |
| `reminders_restart` | the services with one restart of the program, with fairness | violates `DueFiresAfterRestart` (section 6) |
| `workflow_rerun` | the workflow of `requests` | violates `KeysOnceOnRerun` (section 6) |
| `volume_overlap` | the speakers with 3 volumes, no mishap | violates `NormalVolumeKept` (section 6) |

The identifiers of the store are numbers, and `Bounded` of `RequestsMC`, which every
state must satisfy, has them given out in order (`IdsInOrder`), as nothing but their
identity counts. It also gives the gateway the smaller tables named above, and the
store alone no third token together with a second pairing request. `Bounded` of
`ConversationMC` keeps the two parts of the chat and of the timers apart.

**Why the bounds are enough.** They are the least for which the cases at issue
happen, and the safety properties are also proved without them (section 5).

- Store: a password session, the session it is exchanged for and one more (a
  second login or exchange); or two approvals, which make a superseded grant
  version. The lifetimes under a clock that ticks twice put everything on both
  sides of its expiry, and let a rotation extend a session. Conflicts between two users,
  phones, transports or activation challenges are left to the proofs, which hold
  for any number of each.
- Gateway: two threads race for one approval; two actions tell apart what was
  signed from what is executed. Starting from a paired phone saves the nine
  steps that every history begins with; the store's part explores those. That threads
  change the tables only as the store's transactions do (`StoreStepsOnly`) is proved
  and not checked by a run.
- Chat: in the first part the second and third delivery are retries, over any
  transports and with crashes and logouts; no row expires there. In the second
  part time passes: rows are pruned only when another is reserved and the clock
  stands still during an execution, so it takes a request of another message
  after the first one's window to prune its row, and a third request to reserve it
  again. That part has plain requests without disconnects or logouts, so pruning
  is not checked together with those; the proofs are.
- Supervisor: a child, its replacement and a child of the other role, with one
  id more, so that ids of dead processes are still named by stale files. Three
  failures reach: a Core that misses its deadline, cannot be stopped, and the
  supervisor's death; two starts show what the second finds.
- Tools: two calls overlap or follow one another, and the second may reuse the
  request identifier with other arguments.
- Graph: four nodes make a diamond; two reads at a time make a batch and a
  remainder.
- Timers: two rounds of an alarm tell a second ringing from a repetition; one
  failed save and one restart are the least for what was not saved to matter. Two
  processes are the least that can be behind each other.
- Services: one upset is the least for two loops to overlap or for a table to be
  loaded without its callbacks. A second health restart needs no new case: it
  replaces a loop as the first did.
- Workflow: the steps around the one that asks share a key; two approvals let a
  failed step be blocked a second time; four commands are run, resume, and one
  more of each.
- Models: the two do not fit together, and one does not fit into the smaller
  budget at all. Two threads with the eviction inside a load are the least for a
  circle of waits.
- Speakers: the volume found and the temporary one; `volume_overlap` has a third,
  to tell apart two deliveries. Two mishaps are the one that makes a delivery fail
  and one in its restoring. Speakers share nothing, so one will do.
- OpenClaw: the second outage meets the recovery from the first; two worker
  threads are a worker and its successor.
- Cues: an event, a reminder, a second process, and hours up to beyond both the
  window and the expiry.

Type invariants are proved (`GatewayTypeOK`, `ChatTypeOK`, `ToolTypeOK`,
`GraphTypeOK`, `TimekeepingTypeOK`, `WarmTypeOK`, `OcTypeOK`, `SupervisorTypeOK`,
`MediaTypeOK`, `WfTypeOK`, `SchedTypes`, `RemTypes`, `FollowTypes`) and not among the
properties of a run, except that of `MobileStore`, which is a part of `IInv`.

## 4. Fairness, and why the code justifies it

Safety properties are checked without fairness or do not depend on it. The
liveness properties assume weak fairness, and of one step strong fairness. Most of
them say that something is so again and again (`[]<>`), which is no less than that
it comes about whenever it is missing:

- `EveryMessageSettles` (`conversation`): of each delivery's thread. Threads are scheduled,
  and the Assistant returns or raises. Nothing of clients, logouts or the clock.
  A message of the process that crashed is exempt: its row is left in processing
  on purpose until it is pruned; and so is one whose acknowledgement was lost
  (section 6).
- `Settles` (`background`): of the supervisor's next step (it polls), of time, and of
  the progress of a child that is not slow. Failures are bounded by `Faults`.
  `Settles` exempts a Voice Agent that is slow, because the code has no time-out
  for it (section 7).
- `Recovers` (`conversation`): of each thread's steps, and of the gateway's return.
  Strong fairness of one step, the worker's taking of the synchroniser's lock:
  users may refresh any number of times, and a lock does reach a thread that
  waits while others only come and go.
- `Answered` (`background`): of the caller's own steps and of the verifier's return. None of
  handlers: a call is answered when its handler never ends, because the caller
  polls with a deadline.
- `DueReminderFires` (`background`), `DueFiresAfterRestart`: of the threads of the scheduler
  and of the health check, and of time. Callbacks return.
- `EveryNodeSettles` (`conversation`): of the scheduler and of each dispatch. That a dispatch
  returns is `Answered`. Only for plans in dependency order (section 6).
- `DueFires` (`conversation`): of the worker's steps. Nobody needs to start a process, and the
  clock may stop.

## 5. What is proved

Every theorem holds for all values of the constants, under the assumptions named
in the modules (`TimeAssumption`, `NoneAssumption` and so on: an absent value is
not a value of anything else, bounds and lifetimes are naturals) and the
conditions stated here.

**MobileStore_proofs.** `IInv`, the conjunction of the store's state invariants, is
inductive (`Invariance`). None of its parts is so alone. That a live session
holds the newest grant (`NoStaleSession`) needs that a device's grants are
revoked with it (`IdentityNeverChanges`), since activation looks at the grant and
revocation at the device; that every grant version has one approval
(`GrantsAreApproved`) needs that an approved request names an existing version
(`ApprovedNamesGrant`), or a new version could take the number of one already
named; that a family has one usable token (`OneRefreshToken`) needs that a token
is revoked exactly with its session (`FamiliesRevokedTogether`), else a logout
would leave a head behind. From it: `NoRevival`, that what is revoked or expired
is never usable again, and `OnlyOneUserIsRevoked`, both action properties, and
`ExchangedAtMostOnce`.

**MobileGateway_proofs.** Every step of a request thread is a transaction of the
store or leaves it alone (`GatewayKeepsToTransactions`), so the gateway's
specification implies the store's (`GatewayImplementsStore`) and all of the above
holds of the running gateway. `OneProofOneAction` and `SignedIsExecuted` rest on
an invariant about the threads between spending an approval and acting on it:
what such a thread holds was verified for its session and action, nobody has
acted on it, and nobody else holds it; and what was acted on had been spent. `LoadsTakeEffectAtOnce` rests on
what a session that was live when it was read can have become since: revoked or
expired, never bound to another user, phone or version.

**MobileChat_proofs.** `RevokedRepliesStay` and `ReplaysAreTrue` hold
unconditionally; for the second, a delivery that others are answered from has its
answer already and settles nothing any more (`SettlersAreDone`).
`NoTwoExecutions`, `NoSecondExecution` and `ChatImplementsOneAnswer` hold if
executions end within the retention window (`~LongRuns`); section 7 says what
happens otherwise. The invariant is that whoever works on a message owns its
open row, that an open row younger than the window is not pruned, and that
there is one row for each message, so that a second delivery is always told
about the first.

**ActionGraph_proofs.** For plans of any size: types, `ReadsOverlapSafely`,
`StartedSafely`, and `OrderedPlansProgress`, that a plan listed in dependency order
never meets the error "no scheduling progress". Its argument takes the first
node without a record: everything before it has one, so it is blocked or ready.
`SkippedForCause` (`OnlyUnsafeSkipped`) needs that an explanation lasts: a record is
written once, and the confirmation of a recorded action is not asked for again.

**Timekeeping_proofs.** `NoLostWakeup` holds for any number of processes: a
worker past its look at the deadlines either knows the nearest one or has
been notified (`Alert`). `SavedForGood` (`SavedIsKept`) and `NothingAnnouncedTwice`
(`AnnouncedOnce`) hold for any number of processes too, and name what the run
`timers_shared` shows: only a process that is behind in a record can make it
disappear, bring it back or ring it again. The invariant says of every record in
which a process is not behind, or which nobody behind has touched, that its copy is
never behind the file in the order of a record's life (`Fresh`), and that what was
handed over is on disk as rung (`Recorded`).

**Requests_proofs, warm runtime.** `LeasesAreKept`: for any number of models and threads, no
step drops or replaces a value that is leased (`LeaseStays`). Reference counts are
not enough for the argument: between the count's reading and the drop the counts
may change. It is the locks: whoever leases a value and whoever drops it holds the
model's use lock (`Locked`), and whoever stores one kept the lifecycle lock since
it found the model absent (`Truthful`).

`NobodyWaitsInACircle` (`NoCircularWait`) rests on the converse, that who has a
lock is at a place of the code that has taken it (`Holding`). In a
circle of waiting threads, whoever has a lifecycle lock is loading that component
and makes room for it; whoever has a use lock either is such a loader or itself
waits for the lifecycle lock of that component, which such a loader has. So
everyone in the circle waits, in the end, for one that makes room while it loads
what the other is after; say that it is *behind* that loader. A victim is chosen
while it is warm, so nobody loads it then, and whoever comes to load it later is
not behind anybody when it begins, so no step closes a ring and `NoRing` is kept:
any set of threads has one that is behind none of them.

`TheBudgetHolds` (`BudgetHolds`) needs that a thread about to load has its
component counted (`Reserved`), which lasts because only the holder of the
lifecycle lock changes a component's state (`OwnStates`). The sum of the costs is
the number of megabytes of the components (`Megabytes`), of which there are
finitely many; that more components have more of them, and one more component
at most its cost on top, follows from the library's theorems on cardinalities.

**Requests_proofs, workflows.** A copy of the workflow may be old, and several
commands may hold different ones, but none says what is not so (`Honest`): every
step before its position, with a result, or of a completed workflow has been
called, or its key has, or it was passed over; and its approvals were made for its
steps. As calls, steps passed over and approvals are never taken back (`Grows`),
`HonestLasts`. From it follow `CompletionIsHonest` and `AskedIsApproved` under no condition.
`KeysRunOnce` needs in addition what holds as long as no command ends between a
call and its save, none overlap and the original is not run again (`CalmIsKept`): the file is
the running command's copy but for the call it just made, and no two called
steps share a key.

**Requests_proofs, speakers.** `VolumesComeBack`, for any speakers and threads, with
deliveries that may overlap: on a speaker that is not `mixed`, a delivery finds the
owner's volume until it sets its own, and afterwards has the owner's in hand
(`KeepsVolume`); either may fail only together with a mark that excuses the
speaker, which nothing but the owner removes. A spoken reply excuses it by the
reason in its result only.

**Recovery_proofs, supervisor.** For any number of processes, restarts, failures and
starts. `StaffInv` says of every place between two steps of a tick what the
records, the live children and the files they leave have to do with each other,
and gives `NoChildIsLost` (`NoStrays`) and `ReadyVoicesAreBound` (`ReadyMeansBound`). The
first needs that the two records never name one process and that a component
that was given up has none; the second that a Voice Agent only calls itself READY once it was
built (`Built`, `Told`), that the endpoint a supervisor with a live Core trusts is that
Core's (`Placed`), and that what was built against another Core is replaced before
its report is read (`BoundTo`, `Judged`, `Known`). `GivenUpForGood` follows step by step. `PolicyInv`
counts launches: in any window every launch but the first is matched by a
restart that `_schedule_restart` recorded and that is no older (`Covers`), so that the launch
leaves the window before its restart does; once a restart is due, the first is
matched as well (`Paid`). `CoreRestartsAreBounded` follows. That both lists grow older together
rests on their order (`Mono`): what leaves is always a beginning of the list, and
`Aged` is written that way.

**Recovery_proofs, OpenClaw.** `ReadyIsFresh`: for any threads and any number of outages, ready
means that the remote capabilities are enabled and were fetched after the last
disconnect. Comparing generations is not enough if two workers run; that there is
one (`OneReconnects`) needs that a reserved worker waits for exactly one thread
(`OneWorker`). Then an attempt that is current met no disconnect
(`AttemptsAreCurrent`), and what it fetched is in force when it is verified
(`VerifiedIsFresh`).

**Jobs_proofs, tools.** `SuccessIsTrue` and `ToolTypesHold` hold
without any condition, and so do the others, as the two things that can go wrong are
in their statements. `SecondWritesHaveCause` (`RewritesHaveCause`): a request is
written twice only by calls that were under way together, or after one raised a
plain error; `FailuresAreTheHandlers`; and `VerdictsStand` (`RevisedInCompany`). The first
is not inductive alone: a call about to launch must know that every handler of its
request that it has not met, abandoned ones included, has left a verdict behind,
with which it would not have been admitted, unless it raised.

**Jobs_proofs, services.** `RemindersNotifyOnce` (`NotifiedOnce`), for any jobs, loops and
reminders: while no two threads are in the callback at once, a reminder that is
pending, and that no thread is just about to mark, has been notified once per crash at most, and any other
once more (`Told`). That one thread has a reminder in hand only while it is in the callback
(`Looks`) ties this to the scheduler, whose own invariant (`SchedInv`) knows what a
thread between entry and save holds. `StoppedServicesStayDown` needs that nothing of the
supervisor holds its lock or runs unless it is up (`SupInv`).

**Jobs_proofs, follow-ups.** `NobodyIsAskedAgain`: as long as no save has erased another
process's, the file knows of every source the user was asked about or has dismissed: by a
cue that is not pending, or because what it is about is past the window in which a cue is made of it
(`Remembered`). The second needs that no cue is older than what it is about (`Grounded`).
The one question that may be repeated is the prompt fetched at the start of a
session, which is asked once and is never about what was dismissed.

**Assumptions on constants.** Besides bounds and lifetimes that are naturals, the
proofs assume what the modules name: an absent value (`None`, `Nil`, `NoVerdict`, `Absent`,
`Nothing`, `NoCue`, `NoVolume`, `Unheld`, `Nobody`) is none of the values it stands beside (`SupervisorAssumption`,
`AbsentAssumption`, `RemindersAssumption`, `NothingAssumption`, `NoCueAssumption`, `MediaAssumption`, ...),
and the registered models are finitely many (`WarmAssumption`). TLC evaluates each of them in a run.

**Only model-checked**: liveness, which is outside the reach of the prover
(`EveryMessageSettles`, `Settles`, `Recovers`, `EveryNodeSettles`, `DueFires`, `Answered`, `DueReminderFires`). Every
safety invariant and action property of a passing run is a theorem. The proofs
use no recursive definitions.

## 6. Where the code and its documentation disagree

- **A lost acknowledgement leaves a message in progress for ever** (run `chat_ack`).
  `websocket.py:341` acknowledges a new reservation outside the block that records
  failures (line 381). If the client is gone, the row stays `processing` until it
  is pruned, and every resend is refused, although
  `docs/mobile/MOBILE_API_SETUP_WINDOWS.md:263` says "The same message is still
  executing".
- **A plan may fail on the order of its list** (run `graph_order`).
  `graph_executor.py:139` blocks descendants in one pass over the list. With a
  chain listed from its end, the failure of its first action leaves its last
  pending; nothing is ready, and `execute()` raises, losing all records.
  `graph.py` accepts any order.
- **Processes overwrite each other's timers** (run `timers_shared`). `service.py:41` reads
  the file once, `service.py:54` writes the whole copy. A record saved by one
  process is erased by the next save of another, against
  `docs/superpowers/specs/2026-08-15-timers-alarms-media-routing.md:64` and `:68`.
- **Reminders stop after the first restart** (run `reminders_restart`).
  `reminder_service.py:539` takes a job that is in the table for one whose callback
  is registered. The table is loaded from its file, the callback is not.
- **A workflow that is run again repeats its steps** (run `workflow_rerun`).
  `commands/workflows.py:39` runs the file it is given; what was executed is known
  only to the saved copy, against `docs/workflow-engine.md:273`.
- **A closed coordinator can become ready** (run `openclaw_closed`). `reconnect.py:243`
  overwrites the state without looking at it again after the check at line 236;
  `close()` promises "Stop reconnect work and permanently close this coordinator."
  (line 279).
- **A temporary volume becomes the normal one** (run `volume_overlap`).
  `media/service.py:216` and `output_routing/spoken.py:197` set the volume that was
  found, whatever the speaker's is by then, and nothing keeps two deliveries off
  one speaker. The second takes the first's temporary volume for the normal one
  and restores it last; a volume command that succeeded in between is undone.
  `docs/superpowers/plans/2026-08-16-us122-output-routing-policy.md:61`: "do not
  mutate a device's permanent normal volume unless policy explicitly says to persist
  it." `VolumeComesBack` of the run `requests` says what holds on speakers on which no
  two deliveries overlapped.
- **A duplicate that overlaps is executed too** (run `tool_duplicates`). The table of
  results is read at `execution.py:286` and written at line 458, after the handler,
  with nothing reserved in between, although `docs/tool-execution-contract.md:26`
  says "Duplicate mutation request IDs are deduplicated per user and tool".
- **A mutation that wrote is reported as failed** (run `tool_failure`). Any error of a
  handler that is not flagged `outcome_unknown` becomes `failed` and is not
  recorded (`execution.py:421`), so that a resend also writes again, against line 24 of
  `docs/superpowers/specs/2026-08-08-rex2-production-readiness-integration-design.md`:
  "After cancellation or transport loss following a mutation, unknown real-world
  outcome is `attempted/unverified`, never fabricated as failure or success." A
  timer whose save fails is such a mutation: it is set in memory, and rings.

## 7. What else was noticed

Met while reading and modelling; no run counts on them.

- With `LongRuns = TRUE`, TLC finds two executions of one message: pruning looks at
  the age of a row only, although `idempotency.py:251` says "Active rows are never
  touched".
- A handler that outlives its time-out runs beside the next mutation of its plan,
  against "Mutations always serialize" (`docs/ARCHITECTURE.md:185`).
- The `request_id` of a dispatch is the action's id; two plans of a user that share
  one share its recorded result (`graph_executor.py:235`).
- The WebSocket sends the internal code that a stream was interrupted
  (`websocket.py:359`), which the HTTP routes translate.
- Since Python 3.11, `concurrent.futures.TimeoutError` is the built-in
  `TimeoutError`, so a handler that raises one is polled until its deadline
  (`execution.py:332`).
- A handler that asks for a confirmation is recorded, so the confirmed resend
  hears the question again.
- With the defaults (deadline 30 s, backoff 1 s, 3 restarts in 60 s) a Core that
  never publishes its endpoint is restarted for ever: at most two restarts fall
  into any window (`supervisor.py:351`). On POSIX nothing
  contains the children of a supervisor that was killed. A Voice Agent that stops
  beating is shown as STARTING without end (`supervisor.py:492`).
- A failed save while events are claimed ends the timekeeping worker while
  `_running` stays set (`runtime.py:164`). `edit_alarm` refuses a blank name after
  it has changed the alarm in memory (`service.py:443`). Two processes use one
  temporary file name.
- `consume_approval` does not look at the session's row (`strong_auth.py:717`); the
  revalidation after it does. `submit_proof` rolls back the mark "expired" it
  writes. A phone that lost the answer of a refresh and repeats it ends its own
  session.
- The health check of the scheduler service reads `Scheduler.is_running`, which does
  not exist (`app.py:148`), so the service is restarted at every check. A restart
  that fails is not tried again, because `_start_service` swallows the exception
  (`service_supervisor.py:255`).
- A reminder that its owner completes or cancels while it is notified ends as
  "fired" (`reminder_service.py:470`), and one deleted after the list was taken is
  notified. A manual run of a job before it is due moves its next run. A job's
  payload is taken under the lock and written outside it (`scheduler.py:311`).
- A save of cues writes the whole copy of a process, so a cue that another process
  dismissed can come back (`cue_store.py:223`). `NeverAskedAgain` excludes it; so it
  does an `expire_hours` below `lookback_hours`, with which a pruned cue is created
  again from its event.
- An approval can be decided any number of times, and the last decision counts until
  the step runs; a step that failed keeps its approval. Two `--resume` at once call
  a tool twice; a save that fails is only logged (`workflow_runner.py:772`).
- A closed coordinator's resync still publishes its inventory.
- A program that ends between setting and restoring a volume leaves it changed, as
  nothing about it is stored; `VolumeComesBack` excuses it (`excused`).
- A media session is evicted under the lock of its store, its entry in the active
  context after it (`media/sessions.py:142`).

## 8. What is not modelled, and why

Every part has an entry in `PROJECT.json`. In short:

- *Not reached*: the policy of output routing, the store of media sessions, the
  Core's turn protocol, provider reliability, notifications. Each is a set of records under one lock, or a
  sequence of calls in one thread.
- *Turn engine*: one thread that calls the rest; its cancellation flag is in
  `ToolExecution` and `ActionGraph`, its record for the phone in `MobileChat`.
- *Pure or external*: other mobile routes, capabilities, tool implementations,
  Home Assistant, integrations, telephony, credentials, the assistant's prompts,
  wake word and audio, command line, dashboard, desktop renderer. They keep no
  shared state of their own or only perform I/O; where they matter to a module
  (a reply, a handler's outcome, a failed save) they are its environment.
- *Adapter*: the action dispatcher maps statuses; `ActionGraph` quantifies over
  what it returns.
- Inside modelled components: SQLite errors in `complete` and `fail`, the WebSocket
  handshake and rate limiter, the supervisor's aggregate health file, `stop()` of
  the timekeeping worker (which only tests call), scopes and permissions,
  `max_runs` and workflow jobs of the scheduler (no job uses them), a service whose
  start fails, steps of a workflow without a tool, validation and dry runs, the
  OpenClaw snapshot file, unloaders and fallbacks of models (none is registered).

## 9. What could come next

Done, in this order: store, gateway, chat with its abstract promise, supervisor,
tools, action graph, timekeeping; then scheduler, reminders and service
supervisor, workflows, warm runtime, OpenClaw, follow-ups and the speakers; and
proofs of every safety property of all of them.

What remains worth doing: abstract specifications, like `OneAnswer`, of the components that
others build on, with their refinements proved (what a service promises of one
reminder, a lease of one model); the composition of `ActionGraph` with `ToolExecution`
(the environment of the first implemented by the second); and the store of media
sessions with its follow-up targets.

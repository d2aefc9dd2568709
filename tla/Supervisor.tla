----------------------------- MODULE Supervisor -----------------------------
(***************************************************************************)
(* The supervisor of the background runtime: one process that owns a Core  *)
(* and a Voice Agent child (rex/background/supervisor.py), the endpoint    *)
(* file the Core publishes (core_server.py) and the health file the Voice  *)
(* Agent publishes (voice_agent.py).  The children run, serve, beat, crash *)
(* and slow down between the steps of the supervisor's tick.               *)
(*                                                                         *)
(* The packaged runtime is modelled: on Windows the children live in a job *)
(* object that kills them when the supervisor's handle closes, so none     *)
(* outlives it.  Timers are relative and saturate, so time is unbounded.   *)
(* A failure of the environment (a crash, a child that cannot be stopped,  *)
(* a file that cannot be unlinked or read, a spawn that fails, a child     *)
(* slower than its timers) spends one of Faults.                           *)
(***************************************************************************)
EXTENDS Naturals, Sequences, FiniteSets

CONSTANTS
    Pids,           \* process ids; one is reused only when nothing names it
    None,           \* no process, no file, no timer
    MaxRestarts,    \* ComponentSpec.max_restarts
    Window,         \* ComponentSpec.restart_window_seconds
    Backoff,        \* restart_backoff_seconds
    StartTimeout,   \* core_start_timeout_seconds
    MaxAge,         \* _VOICE_HEALTH_MAX_AGE_SECONDS
    Faults,         \* bound: failures of the environment
    Starts          \* bound: starts of the supervisor

Roles == {"core", "voice"}
HealthStates == {"STARTING", "READY", "DEGRADED", "UNAVAILABLE", "STOPPED", "FAILED"}
Details == {"none", "core_unavailable", "restart_limit_exceeded", "stop_failed"}

VARIABLES
    pc,         \* where the supervisor is: off, idle between ticks, or in a tick
    rec,        \* _core and _voice: what the supervisor holds of each child
    started,    \* time since _core_started_at
    proc,       \* the live child processes
    endpoint,   \* core_endpoint_file: the pid it names
    file,       \* voice_agent_health_file
    stopFile,   \* stop_file exists
    faults,     \* failures spent
    starts,     \* starts made
    launched    \* history: ages of the Core launches of this run, up to Window

disk == <<endpoint, file, stopFile>>
vars == <<pc, rec, started, proc, disk, faults, starts, launched>>

Components == [process: Pids \cup {None}, state: HealthStates, detail: Details,
               stamps: Seq(0..Window), wait: 0..Backoff \cup {None}]
Processes == [role: Roles, phase: {"new", "up", "done"}, bound: Pids \cup {None},
              slow: BOOLEAN]
Reports == [pid: Pids, state: HealthStates, detail: Details, age: 0..(MaxAge + 1)]

ASSUME SupervisorAssumption ==
    /\ {MaxRestarts, Window, MaxAge, Faults, Starts} \subseteq Nat
    /\ {Backoff, StartTimeout} \subseteq Nat \ {0}
    /\ Pids \subseteq Nat
    /\ None \notin Nat \cup Processes \cup Reports

(* Every variable has its type.                                            *)
SupervisorTypeOK ==
    /\ pc \in {"off", "idle", "core", "ready", "waiting", "stopping"}
    /\ rec \in [Roles -> Components]
    /\ started \in 0..StartTimeout
    /\ proc \in [Pids -> Processes \cup {None}]
    /\ endpoint \in Pids \cup {None}
    /\ file \in Reports \cup {None}
    /\ stopFile \in BOOLEAN
    /\ faults \in 0..Faults
    /\ starts \in 0..Starts
    /\ launched \in Seq(0..Window)

-----------------------------------------------------------------------------
(* What the steps are made of.                                             *)

Live(p) == p # None /\ proc[p] # None
Alive(r) == Live(rec[r].process)
LivePids == {p \in Pids : Live(p)}

NewComponent == [process |-> None, state |-> "STOPPED", detail |-> "none",
                 stamps |-> <<>>, wait |-> None]

Health(c, state, detail) == [c EXCEPT !.state = state, !.detail = detail]
LetGo(c) == [c EXCEPT !.process = None]

(* Mutants: one restart too many; a restart that is never due.              *)
ScheduleOneMore(c) ==
    IF Len(c.stamps) > MaxRestarts
    THEN [Health(c, "FAILED", "restart_limit_exceeded") EXCEPT !.wait = None]
    ELSE [c EXCEPT !.stamps = Append(@, 0), !.wait = Backoff]
ScheduleUndated(c) ==
    IF Len(c.stamps) >= MaxRestarts
    THEN [Health(c, "FAILED", "restart_limit_exceeded") EXCEPT !.wait = None]
    ELSE [c EXCEPT !.stamps = Append(@, 0)]

(* A Voice Agent that has given up stays failed when the Core goes.        *)
Degraded(v) == IF v.state = "FAILED" THEN v ELSE Health(v, "DEGRADED", "core_unavailable")

(* _schedule_restart: stamps older than Window were dropped by Clock.      *)
Schedule(c) ==
    IF Len(c.stamps) >= MaxRestarts
    THEN [Health(c, "FAILED", "restart_limit_exceeded") EXCEPT !.wait = None]
    ELSE [c EXCEPT !.stamps = Append(@, 0), !.wait = Backoff]

(* _launch                                                                 *)
Launched(c, p) == [Health(c, "STARTING", "none") EXCEPT !.process = p, !.wait = None]
NewProcess(r) == [role |-> r, phase |-> "new", bound |-> None, slow |-> FALSE]

(* The pid the operating system hands out: nothing names it any more.  The *)
(* least one stands for all, since pids are only compared.                 *)
Named == {rec["core"].process, rec["voice"].process, endpoint}
         \cup (IF file = None THEN {} ELSE {file.pid})
         \cup {proc[p].bound : p \in LivePids}
FreePids == {p \in Pids \ Named : ~Live(p)}
Fresh(p) == p \in FreePids /\ \A q \in FreePids : p <= q

(* The environment lets some of the attempts fail, at one fault each.      *)
Spend(ok) == LET lost == {k \in DOMAIN ok : ~ok[k]}
             IN /\ faults + Cardinality(lost) <= Faults
                /\ faults' = faults + Cardinality(lost)
Outcomes(attempts) == [attempts -> BOOLEAN]

(* _stop_component: terminate, kill, and keep the child when both fail.    *)
CanBeLost(ok) == "stop" \in DOMAIN ok /\ ~ok["stop"]
Stopped(r, ok) == IF CanBeLost(ok) THEN rec[r] ELSE LetGo(rec[r])
Killed(r, ok) == IF CanBeLost(ok) \/ ~Alive(r) THEN proc
                 ELSE [proc EXCEPT ![rec[r].process] = None]

(* _remove_endpoint_for_pid and _discard_voice_health_file, best effort.   *)
EndpointWithout(p, ok) == IF endpoint = p /\ ok["unlink"] THEN None ELSE endpoint
FileAfter(ok) == IF ok["discard"] THEN None ELSE file

-----------------------------------------------------------------------------
(* start() and stop().                                                     *)

Init ==
    /\ pc = "off"
    /\ rec = [r \in Roles |-> NewComponent]
    /\ started = 0
    /\ proc = [p \in Pids |-> None]
    /\ endpoint = None
    /\ file = None
    /\ stopFile = FALSE
    /\ faults = 0
    /\ starts = 0
    /\ launched = <<>>

(* A new supervisor clears the stop request, the health file and an        *)
(* endpoint no live process owns, then launches the Core; when the launch  *)
(* fails everything is taken down again.                                   *)
Start ==
    /\ pc = "off"
    /\ starts < Starts
    /\ starts' = starts + 1
    /\ stopFile' = FALSE
    /\ file' = None
    /\ endpoint' = IF Live(endpoint) THEN endpoint ELSE None
    /\ \E ok \in Outcomes({"spawn"}), p \in Pids :
        /\ Fresh(p)
        /\ Spend(ok)
        /\ pc' = IF ok["spawn"] THEN "idle" ELSE "off"
        /\ rec' = IF ok["spawn"]
                  THEN [core |-> Launched(NewComponent, p),
                        voice |-> Health(NewComponent, "STARTING", "none")]
                  ELSE [r \in Roles |-> NewComponent]
        /\ proc' = IF ok["spawn"] THEN [proc EXCEPT ![p] = NewProcess("core")] ELSE proc
        /\ launched' = IF ok["spawn"] THEN <<0>> ELSE <<>>
    /\ started' = 0

(* stop(), the Voice Agent: it is left to see the stop file, then stopped. *)
StopVoice ==
    /\ pc = "idle"
    /\ stopFile
    /\ pc' = "stopping"
    /\ \E ok \in Outcomes({"stop"}) :
        /\ ok["stop"] \/ Alive("voice")
        /\ Spend(ok)
        /\ proc' = Killed("voice", ok)
        /\ rec' = [rec EXCEPT !["voice"] =
                     Health(Stopped("voice", ok),
                            IF ok["stop"] THEN "STOPPED" ELSE "FAILED",
                            IF ok["stop"] THEN "none" ELSE "stop_failed")]
    /\ UNCHANGED <<started, disk, starts, launched>>

(* stop(), the Core and the rest: every step is attempted, and closing the *)
(* containment kills what could not be stopped.                            *)
StopCore ==
    /\ pc = "stopping"
    /\ pc' = "off"
    /\ \E ok \in Outcomes({"stop", "stopfile", "discard", "unlink"}) :
        /\ ok["stop"] \/ Alive("core")
        /\ Spend(ok)
        /\ rec' = [rec EXCEPT !["core"] =
                     Health(Stopped("core", ok),
                            IF ok["stop"] THEN "STOPPED" ELSE "FAILED",
                            IF ok["stop"] THEN "none" ELSE "stop_failed")]
        /\ stopFile' = ~ok["stopfile"]
        /\ file' = FileAfter(ok)
        /\ endpoint' = EndpointWithout(rec["core"].process, ok)
    /\ proc' = [p \in Pids |-> None]
    /\ UNCHANGED <<started, starts, launched>>

(* The supervisor is killed: its job handle closes with it.                *)
Dies ==
    /\ pc # "off"
    /\ Spend([die |-> FALSE])
    /\ pc' = "off"
    /\ proc' = [p \in Pids |-> None]
    /\ UNCHANGED <<rec, started, disk, starts, launched>>

(* "stop" on the command line, SIGTERM and SIGINT create the stop file.    *)
RequestStop ==
    /\ ~stopFile
    /\ stopFile' = TRUE
    /\ UNCHANGED <<pc, rec, started, proc, endpoint, file, faults, starts, launched>>

-----------------------------------------------------------------------------
(* tick(), first part: _handle_core_exit.                                  *)

TickBegins == pc = "idle" /\ ~stopFile

CoreRuns ==
    /\ TickBegins
    /\ Alive("core")
    /\ pc' = "core"
    /\ UNCHANGED <<rec, started, proc, disk, faults, starts, launched>>

(* The Core is gone: its endpoint is removed, the Voice Agent bound to it  *)
(* is stopped if it can be, and a restart is scheduled or given up.        *)
CoreGone ==
    /\ TickBegins
    /\ rec["core"].process # None
    /\ ~Alive("core")
    /\ pc' = "core"
    /\ \E ok \in Outcomes({"stop", "discard", "unlink"}) :
        /\ ok["stop"] \/ Alive("voice")
        /\ Spend(ok)
        /\ proc' = Killed("voice", ok)
        /\ endpoint' = EndpointWithout(rec["core"].process, ok)
        /\ file' = FileAfter(ok)
        /\ rec' = [core |-> Schedule(Health(LetGo(rec["core"]), "STARTING", "none")),
                   voice |-> Degraded(Stopped("voice", ok))]
    /\ UNCHANGED <<started, stopFile, starts, launched>>

(* _maybe_restart_core                                                     *)
CoreDue == rec["core"].wait = 0 /\ rec["core"].state # "FAILED"

CoreNotDue ==
    /\ TickBegins
    /\ rec["core"].process = None
    /\ ~CoreDue
    /\ pc' = "core"
    /\ UNCHANGED <<rec, started, proc, disk, faults, starts, launched>>

(* _relaunch_within_policy of the Core: a failed launch costs a restart.   *)
CoreRelaunch ==
    /\ TickBegins
    /\ rec["core"].process = None
    /\ CoreDue
    /\ pc' = "core"
    /\ \E ok \in Outcomes({"spawn"}) :
        /\ Spend(ok)
        /\ \/ /\ ok["spawn"]
              /\ \E p \in Pids :
                    /\ Fresh(p)
                    /\ rec' = [rec EXCEPT !["core"] = Launched(@, p)]
                    /\ proc' = [proc EXCEPT ![p] = NewProcess("core")]
              /\ started' = 0
              /\ launched' = Append(launched, 0)
           \/ /\ ~ok["spawn"]
              /\ rec' = [rec EXCEPT !["core"] = Schedule(Health(@, "STARTING", "none"))]
              /\ UNCHANGED <<proc, started, launched>>
    /\ UNCHANGED <<disk, starts>>

-----------------------------------------------------------------------------
(* tick(), second part: is the endpoint the live Core's own?               *)

CoreMatches == Alive("core") /\ endpoint = rec["core"].process

CoreReady ==
    /\ pc = "core"
    /\ CoreMatches
    /\ pc' = "ready"
    /\ rec' = [rec EXCEPT !["core"] = Health(@, "READY", "none")]
    /\ UNCHANGED <<started, proc, disk, faults, starts, launched>>

(* The endpoint is missing, another's, or could not be read.               *)
NotReady(ok) == ok["read"] <=> ~CoreMatches

(* _mark_core_waiting_for_endpoint: a Core that was READY starts over.     *)
CoreLost ==
    /\ pc = "core"
    /\ \E ok \in Outcomes({"read"}) : NotReady(ok) /\ Spend(ok)
    /\ Alive("core")
    /\ rec["core"].state = "READY"
    /\ pc' = "waiting"
    /\ started' = 0
    /\ rec' = [rec EXCEPT !["core"] = Health(@, "STARTING", "none")]
    /\ UNCHANGED <<proc, disk, starts, launched>>

CoreOverdue == Alive("core") /\ rec["core"].state = "STARTING" /\ started >= StartTimeout

CoreWaits ==
    /\ pc = "core"
    /\ \E ok \in Outcomes({"read"}) : NotReady(ok) /\ Spend(ok)
    /\ ~(Alive("core") /\ rec["core"].state = "READY")
    /\ ~CoreOverdue
    /\ pc' = "waiting"
    /\ UNCHANGED <<rec, started, proc, disk, starts, launched>>

(* _handle_core_startup_timeout: a Core that cannot be stopped is kept and *)
(* reported, and nothing is launched in its place.                         *)
ForgottenCore == Schedule(Health(LetGo(rec["core"]), "STARTING", "none"))  \* mutant
AbandonedCore == Health(rec["core"], "FAILED", "stop_failed")

CoreTimesOut ==
    /\ pc = "core"
    /\ CoreOverdue
    /\ pc' = "waiting"
    /\ \E ok \in Outcomes({"read", "stop", "unlink"}) :
        /\ NotReady(ok)
        /\ Spend(ok)
        /\ proc' = Killed("core", ok)
        /\ rec' = [core |-> IF ok["stop"]
                            THEN Schedule(Health(LetGo(rec["core"]), "STARTING", "none"))
                            ELSE AbandonedCore,
                   voice |-> Degraded(rec["voice"])]
        /\ endpoint' = IF ok["stop"] THEN EndpointWithout(rec["core"].process, ok)
                       ELSE endpoint
    /\ UNCHANGED <<started, file, stopFile, starts, launched>>

-----------------------------------------------------------------------------
(* tick(), third part: _handle_voice.                                      *)

(* _handle_voice_without_core                                              *)
VoiceWithoutCore ==
    /\ pc = "waiting"
    /\ pc' = "idle"
    /\ \/ /\ rec["voice"].process = None
          /\ rec' = [rec EXCEPT !["voice"] = Degraded(@)]
          /\ UNCHANGED <<proc, file, faults>>
       \/ /\ rec["voice"].process # None
          /\ \E ok \in Outcomes({"stop", "discard"}) :
                /\ ok["stop"] \/ Alive("voice")
                /\ Spend(ok)
                /\ proc' = Killed("voice", ok)
                /\ file' = FileAfter(ok)
                /\ rec' = [rec EXCEPT !["voice"] =
                             IF ok["stop"] THEN Degraded(LetGo(@))
                             ELSE Health(@, "DEGRADED", "core_unavailable")]
    /\ UNCHANGED <<started, endpoint, stopFile, starts, launched>>

(* _relaunch_within_policy of the Voice Agent, from component v and the    *)
(* processes others: its launch also fails when the old health file cannot *)
(* be removed, and any failure costs a restart.                            *)
VoiceRelaunch(v, others, ok) ==
    \/ /\ ok["spawn"]
       /\ \E p \in Pids :
            /\ Fresh(p)
            /\ rec' = [rec EXCEPT !["voice"] = Launched(v, p)]
            /\ proc' = [others EXCEPT ![p] = NewProcess("voice")]
       /\ file' = None
    \/ /\ ~ok["spawn"]
       /\ rec' = [rec EXCEPT !["voice"] = Schedule(Health(v, "STARTING", "none"))]
       /\ proc' = others
       /\ file' = FileAfter(ok)

(* _handle_missing_voice_process                                           *)
VoiceDue == rec["voice"].state # "FAILED" /\ rec["voice"].wait \in {None, 0}

VoiceMissing ==
    /\ pc = "ready"
    /\ rec["voice"].process = None
    /\ pc' = "idle"
    /\ \/ /\ ~VoiceDue
          /\ UNCHANGED <<rec, proc, file, faults>>
       \/ /\ VoiceDue
          /\ \E ok \in Outcomes({"spawn", "discard"}) :
                Spend(ok) /\ VoiceRelaunch(rec["voice"], proc, ok)
    /\ UNCHANGED <<started, endpoint, stopFile, starts, launched>>

(* _voice_requires_core_rebind                                             *)
NeverRebinds == FALSE  \* mutant
NeedsRebind == rec["voice"].detail = "core_unavailable"

(* _replace_voice_after_core_restart: a Voice Agent built against the Core *)
(* that went must be replaced before its health counts again.              *)
VoiceRebind ==
    /\ pc = "ready"
    /\ rec["voice"].process # None
    /\ NeedsRebind
    /\ pc' = "idle"
    /\ \E ok \in Outcomes({"stop", "spawn", "discard"}) :
        /\ ok["stop"] \/ Alive("voice")
        /\ Spend(ok)
        /\ \/ /\ ok["stop"]
              /\ VoiceRelaunch(LetGo(rec["voice"]), Killed("voice", ok), ok)
           \/ /\ ~ok["stop"]
              /\ UNCHANGED <<rec, proc, file>>
    /\ UNCHANGED <<started, endpoint, stopFile, starts, launched>>

(* _read_voice_child_health: the report of this child, and a fresh one.    *)
HasReport == /\ file # None
             /\ file.pid = rec["voice"].process
             /\ file.age <= MaxAge

(* _refresh_running_voice_health                                           *)
VoiceRuns ==
    /\ pc = "ready"
    /\ Alive("voice")
    /\ ~NeedsRebind
    /\ pc' = "idle"
    /\ rec' = [rec EXCEPT !["voice"] =
                 IF HasReport THEN Health(@, file.state, file.detail)
                 ELSE IF @.state = "STARTING" THEN @ ELSE Health(@, "STARTING", "none")]
    /\ UNCHANGED <<started, proc, disk, faults, starts, launched>>

(* _handle_exited_voice: the child's last word is kept while it waits.     *)
LastWord(v) ==
    IF HasReport /\ file.state \in {"DEGRADED", "UNAVAILABLE", "FAILED"}
    THEN Health(v, file.state, file.detail)
    ELSE Health(v, "STARTING", "none")

VoiceExited ==
    /\ pc = "ready"
    /\ rec["voice"].process # None
    /\ ~Alive("voice")
    /\ ~NeedsRebind
    /\ pc' = "idle"
    /\ \E ok \in Outcomes({"discard"}) :
        /\ Spend(ok)
        /\ file' = FileAfter(ok)
    /\ rec' = [rec EXCEPT !["voice"] = Schedule(LastWord(LetGo(@)))]
    /\ UNCHANGED <<started, proc, endpoint, stopFile, starts, launched>>

-----------------------------------------------------------------------------
(* The children.                                                           *)

Report(p, state, detail) == [pid |-> p, state |-> state, detail |-> detail, age |-> 0]
Is(p, role, phase) == Live(p) /\ proc[p].role = role /\ proc[p].phase = phase
Becomes(p, phase) == proc' = [proc EXCEPT ![p].phase = phase]
supervisor == <<pc, rec, started, starts, launched>>

(* CoreServer.start: the assistant is built, the endpoint is published.    *)
CoreServe(p) ==
    /\ Is(p, "core", "new")
    /\ Becomes(p, "up")
    /\ endpoint' = p
    /\ UNCHANGED <<supervisor, file, stopFile, faults>>

(* build_voice_agent reads the endpoint once and keeps it for its life.    *)
VoiceBuild(p) ==
    /\ Is(p, "voice", "new")
    /\ endpoint # None
    /\ proc' = [proc EXCEPT ![p].phase = "up", ![p].bound = endpoint]
    /\ file' = Report(p, "READY", "none")
    /\ UNCHANGED <<supervisor, endpoint, stopFile, faults>>

(* Without an endpoint, or without its audio devices, it reports and ends. *)
VoiceBuildFails(p) ==
    /\ Is(p, "voice", "new")
    /\ Becomes(p, "done")
    /\ \/ /\ endpoint = None
          /\ file' = Report(p, "DEGRADED", "core_unavailable")
          /\ UNCHANGED faults
       \/ /\ endpoint # None
          /\ file' = Report(p, "UNAVAILABLE", "none")
          /\ Spend([audio |-> FALSE])
    /\ UNCHANGED <<supervisor, endpoint, stopFile>>

(* _ready_health_heartbeat                                                 *)
VoiceBeat(p) ==
    /\ Is(p, "voice", "up")
    /\ file' = Report(p, "READY", "none")
    /\ UNCHANGED <<supervisor, proc, endpoint, stopFile, faults>>

(* The loop ends at a stop request, and the child says so.                 *)
VoiceEnds(p) ==
    /\ Is(p, "voice", "up")
    /\ stopFile
    /\ Becomes(p, "done")
    /\ file' = Report(p, "STOPPED", "none")
    /\ UNCHANGED <<supervisor, endpoint, stopFile, faults>>

Leaves(p) ==
    /\ Live(p)
    /\ proc[p].phase = "done"
    /\ proc' = [proc EXCEPT ![p] = None]
    /\ UNCHANGED <<supervisor, disk, faults>>

Crashes(p) ==
    /\ Live(p)
    /\ proc[p].phase # "done"
    /\ Spend([crash |-> FALSE])
    /\ proc' = [proc EXCEPT ![p] = None]
    /\ UNCHANGED <<supervisor, disk>>

(* From here on the child may be slower than the timers that watch it.     *)
Slows(p) ==
    /\ Live(p)
    /\ ~proc[p].slow
    /\ Spend([slow |-> FALSE])
    /\ proc' = [proc EXCEPT ![p].slow = TRUE]
    /\ UNCHANGED <<supervisor, disk>>

-----------------------------------------------------------------------------
(* Time.  A Core that is not slow serves before its time is up (30 s), and *)
(* a Voice Agent that is not slow beats before its report is stale (a beat *)
(* every second, stale after 5).                                           *)

Prompt ==
    /\ \A p \in LivePids : Is(p, "core", "new") /\ ~proc[p].slow => started + 1 < StartTimeout
    /\ \A p \in LivePids : Is(p, "voice", "up") /\ ~proc[p].slow /\ file # None =>
                              (file.pid = p => file.age < MaxAge)

(* The oldest come first, so what is past the window is a beginning.       *)
Aged(ages) ==
    LET past == Cardinality({i \in DOMAIN ages : ages[i] >= Window})
    IN  [i \in 1..(Len(ages) - past) |-> ages[i + past] + 1]
Later(c) == [c EXCEPT !.stamps = Aged(@),
                      !.wait = IF @ \in {None, 0} THEN @ ELSE @ - 1]

Clock ==
    /\ Prompt
    /\ rec' = [r \in Roles |-> Later(rec[r])]
    /\ started' = IF started < StartTimeout THEN started + 1 ELSE started
    /\ file' = IF file = None THEN file
               ELSE [file EXCEPT !.age = IF @ <= MaxAge THEN @ + 1 ELSE @]
    /\ launched' = Aged(launched)
    /\ UNCHANGED <<pc, proc, endpoint, stopFile, faults, starts>>

-----------------------------------------------------------------------------
Tick ==
    \/ CoreRuns \/ CoreGone \/ CoreNotDue \/ CoreRelaunch
    \/ CoreReady \/ CoreLost \/ CoreWaits \/ CoreTimesOut
    \/ VoiceWithoutCore \/ VoiceMissing \/ VoiceRebind \/ VoiceRuns \/ VoiceExited
    \/ StopVoice \/ StopCore

Child(p) ==
    \/ CoreServe(p)
    \/ VoiceBuild(p) \/ VoiceBuildFails(p) \/ VoiceBeat(p) \/ VoiceEnds(p)
    \/ Leaves(p) \/ Crashes(p) \/ Slows(p)

Next ==
    \/ Start \/ RequestStop \/ Dies
    \/ Tick
    \/ \E p \in Pids : Child(p)
    \/ Clock

(* The supervisor polls for ever, time passes, and a child that is neither *)
(* slow nor ended makes progress; nothing is said of the failures, of the  *)
(* stop requests or of new starts.                                         *)
Progress(p) ==
    /\ Live(p)
    /\ proc[p].phase = "done" \/ ~proc[p].slow
    /\ \/ CoreServe(p) \/ Leaves(p)
       \/ VoiceBuild(p) \/ (endpoint = None /\ VoiceBuildFails(p))
       \/ VoiceBeat(p)

Spec == Init /\ [][Next]_vars
FairSpec ==
    /\ Spec
    /\ WF_vars(Tick)
    /\ WF_vars(Clock)
    /\ \A p \in Pids : WF_vars(Progress(p))

-----------------------------------------------------------------------------
(* No child is lost from sight: while the supervisor runs, every live      *)
(* child is the one its record of that role holds, so there is never a     *)
(* second Core or Voice Agent; when it does not run, there is none.        *)
NoStrays ==
    \A p \in LivePids : pc # "off" /\ rec[proc[p].role].process = p

(* The aggregate health never calls the Voice Agent READY against a        *)
(* restarted Core it is not bound to (supervisor.py:483): at the end of    *)
(* every tick, when both are READY, the live Voice Agent was built against *)
(* the Core the supervisor holds.                                          *)
ReadyMeansBound ==
    (pc = "idle" /\ rec["core"].state = "READY" /\ rec["voice"].state = "READY") =>
        /\ rec["voice"].process # None
        /\ Alive("voice") => proc[rec["voice"].process].bound = rec["core"].process

(* The restart policy holds whatever makes the Core go - exits, time-outs, *)
(* failed launches: within any window at most MaxRestarts launches follow  *)
(* the first one.                                                          *)
CoreRestartsBounded == Len(launched) <= MaxRestarts + 1

(* A child whose restarts are used up is given up for good: until the      *)
(* supervisor stops, no Core restart or tick makes it look alive again.    *)
GivenUp(r) == rec[r].detail = "restart_limit_exceeded"
GivesUpForGood ==
    [][\A r \in Roles : (GivenUp(r) /\ pc \notin {"off", "stopping"}
                         /\ pc' \notin {"off", "stopping"})
                        => GivenUp(r)' /\ rec'[r].process = None]_vars

(* When the failures cease the runtime settles: again and again it is      *)
(* stopped, or a child is reported FAILED, or both children are READY -    *)
(* or the Voice Agent is slow, for which the supervisor has no time-out.   *)
Settled ==
    \/ pc = "off"
    \/ \E r \in Roles : rec[r].state = "FAILED"
    \/ \A r \in Roles : rec[r].state = "READY"
    \/ \E p \in LivePids : proc[p].role = "voice" /\ proc[p].slow
Settles == []<>Settled

=============================================================================

-------------------------- MODULE ServiceSupervisor --------------------------
(* The supervisor of the program's services (rex/service_supervisor.py) as  *)
(* rex/app.py sets it up, composed with the one service that has threads of *)
(* its own: the scheduler and, in its callback, the reminders.  The health  *)
(* check of that service reads Scheduler.is_running, which does not exist,  *)
(* so it raises every time (app.py:148) and the service is restarted.       *)
EXTENDS Reminders

CONSTANTS MaxUpsets    \* bound on restarts, by the health check or of the program

VARIABLES
    keeper,     \* "new", "up" or "down" (is_running)
    service,        \* ManagedService.is_running and last_error
    health,         \* the health-check thread; it holds _lock outside "sleep"/"wait"
    restarts        \* restart_count

supVars == <<keeper, service, health, restarts>>
svcVars == <<schedVars, remVars, supVars>>

SupInit ==
    keeper = "new" /\ service = "stopped" /\ health = "none" /\ restarts = 0

LockFree == health \in {"none", "sleep", "wait", "ended"}
schedRest == <<jobs, jobsFile, callbacks, edits, crashes>>

\* start(): the services first, then the health thread.
SupStart ==
    /\ keeper = "new" /\ LockFree
    /\ keeper' = "up" /\ service' = "running" /\ health' = "sleep"
    /\ StartLoop
    /\ UNCHANGED <<schedRest, remVars, restarts>>

\* The loop of the health thread tests is_running without the lock,
HealthWakes ==
    /\ health = "sleep"
    /\ health' = IF keeper = "up" THEN "wait" ELSE "ended"
    /\ UNCHANGED <<schedVars, remVars, keeper, service, restarts>>

\* then takes it.  What is_running says is down is not looked at.
HealthChecks ==
    /\ health = "wait"
    /\ restarts + crashes < MaxUpsets
    /\ health' = IF service = "running" THEN "backoff" ELSE "sleep"
    /\ UNCHANGED <<schedVars, remVars, keeper, service, restarts>>

\* _stop_service: Scheduler.stop clears the flag and joins for 5 seconds.
StopService ==
    /\ health = "backoff"
    /\ running' = FALSE
    /\ health' = "join"
    /\ UNCHANGED <<schedRest, loop, remVars, keeper, service, restarts>>

\* The join ends with the thread, or after 5 seconds in its callback (its
\* other steps are quick).  _start_service follows.
StartService ==
    /\ health = "join" /\ \A t \in LiveLoops : loop[t].pc \in {"call", "fire"}
    /\ StartLoop
    /\ service' = "running" /\ restarts' = restarts + 1
    /\ health' = "sleep"
    /\ UNCHANGED <<schedRest, remVars, keeper>>

\* Mutant of SupStop: the service is not marked as stopped.
SupStopUnmarked ==
    /\ keeper = "up" /\ LockFree
    /\ keeper' = "down" /\ UNCHANGED service
    /\ running' = FALSE
    /\ UNCHANGED <<schedRest, loop, remVars, health, restarts>>

\* stop(), from the signal handler: it waits for the lock.
SupStop ==
    /\ keeper = "up" /\ LockFree
    /\ keeper' = "down" /\ service' = "stopped"
    /\ running' = FALSE
    /\ UNCHANGED <<schedRest, loop, remVars, health, restarts>>

-----------------------------------------------------------------------------
SvcTick ==
    /\ SchedTick /\ RemTick
    /\ UNCHANGED <<callbacks, running, edits, crashes, supVars>>

SvcRestart ==
    /\ restarts + crashes < MaxUpsets
    /\ SchedRestart /\ RemRestart
    /\ keeper' = "new" /\ service' = "stopped" /\ health' = "none"
    /\ UNCHANGED restarts

SvcInit == SchedInit /\ RemInit /\ SupInit

\* The callback of another job, or none.
CallOther(t) == ~HasCallback(t) /\ Call(t)

ThreadStep(t) ==
    \/ (SchedStep(t) \/ CallOther(t)) /\ UNCHANGED <<remVars, supVars>>
    \/ RemStep(t) /\ UNCHANGED supVars

HealthStep == HealthWakes \/ HealthChecks \/ StopService \/ StartService

SvcNext ==
    \/ \E t \in Threads : ThreadStep(t)
    \/ ChangeJob /\ UNCHANGED <<remVars, supVars>>
    \/ RemEdit /\ UNCHANGED supVars
    \/ SupStart \/ HealthStep \/ SupStop
    \/ SvcTick \/ SvcRestart

SvcSpec == SvcInit /\ [][SvcNext]_svcVars

\* The threads are scheduled and time passes.
SvcFairness ==
    /\ \A t \in Threads : WF_svcVars(ThreadStep(t))
    /\ WF_svcVars(HealthStep) /\ WF_svcVars(SvcTick)

SvcFairSpec == SvcSpec /\ SvcFairness

-----------------------------------------------------------------------------
\* Once stop() has returned, the health thread starts nothing again.
DownStaysDown == [][keeper = "down" /\ keeper' = "down" => running' = FALSE]_svcVars
=============================================================================

------------------------------ MODULE Scheduler ------------------------------
(* The job scheduler (rex/scheduler.py): the job table in memory and its    *)
(* file, the background loop, and callers that edit jobs or run them by     *)
(* hand.  A thread is cut where it leaves the table's lock: a run checks    *)
(* its guards under the lock, calls the callback outside it, counts the     *)
(* run under it again, and saves in two more steps (_save_jobs takes the    *)
(* payload under the lock and writes the file without it).                  *)
(*                                                                          *)
(* Times are relative: a job holds the time left until its next_run, which  *)
(* Tick lowers everywhere.  last_scheduled_run is left out: a run moves     *)
(* next_run past its slot, so the guard on it never refuses anything.       *)
(* max_runs is left out: no job of the program has one.                     *)
EXTENDS Integers, FiniteSets

CONSTANTS
    Jobs,           \* job ids; a job's callback has its name
    SetupJobs,      \* those that every start of the program registers
    Loops,          \* threads that may be the background loop
    Callers,        \* threads of the program that use the scheduler
    Interval,       \* the interval of a schedule
    MaxEdits,       \* bound on what the callers do
    MaxCrashes,     \* bound on restarts of the program
    Absent

Threads == Loops \cup Callers

ASSUME SchedulerAssumption ==
    /\ SetupJobs \subseteq Jobs
    /\ Loops \cap Callers = {} /\ Interval \in Nat \ {0}
    /\ MaxEdits \in Nat /\ MaxCrashes \in Nat

JobRow == [on: BOOLEAN, wait: Nat]
JobTables == [Jobs -> JobRow \cup {Absent}]

ASSUME AbsentAssumption == Absent \notin Jobs \cup JobRow \cup JobTables

VARIABLES
    jobs,       \* _jobs: a record or Absent
    jobsFile,   \* data/scheduler/jobs.json
    callbacks,  \* _callbacks, by name
    running,    \* _running
    loop,       \* what each thread is doing
    edits, crashes

schedVars == <<jobs, jobsFile, callbacks, running, loop, edits, crashes>>

NewJob == [on |-> TRUE, wait |-> Interval]
Idle == [pc |-> "idle", left |-> {}, job |-> Absent, live |-> FALSE, slot |-> 0,
         forced |-> FALSE, payload |-> Absent]
Dead == [Idle EXCEPT !.pc = "dead"]

LiveLoops == {t \in Loops : loop[t].pc # "dead"}
At(t, pc) == loop[t].pc = pc
Goto(t, pc) == loop' = [loop EXCEPT ![t].pc = pc]

\* A start of the program: the file is loaded, its set-up registers some
\* callbacks and puts their jobs in the table anew.
Loaded == [j \in Jobs |-> IF j \in SetupJobs THEN NewJob ELSE jobsFile[j]]

SchedInit ==
    /\ jobsFile = [j \in Jobs |-> Absent]
    /\ jobs = [j \in Jobs |-> IF j \in SetupJobs THEN NewJob ELSE Absent]
    /\ callbacks = SetupJobs
    /\ running = FALSE
    /\ loop = [t \in Threads |-> IF t \in Loops THEN Dead ELSE Idle]
    /\ edits = 0 /\ crashes = 0

-----------------------------------------------------------------------------
(* The background loop: start, stop, run_due_jobs.                          *)

\* start(): nothing if it runs already.  Which thread it is does not matter.
StartLoop ==
    IF running THEN UNCHANGED <<running, loop>>
    ELSE /\ Loops # LiveLoops
         /\ running' = TRUE
         /\ loop' = [loop EXCEPT ![CHOOSE t \in Loops \ LiveLoops : TRUE] = Idle]

\* The loop sees that it was stopped, and ends.
EndLoop(t) ==
    /\ t \in Loops /\ At(t, "idle") /\ ~running
    /\ loop' = [loop EXCEPT ![t] = Dead]
    /\ UNCHANGED <<jobs, jobsFile, callbacks, running, edits, crashes>>

\* run_due_jobs takes a snapshot of the job objects,
Snapshot(t) ==
    /\ t \in Loops /\ At(t, "idle") /\ running
    /\ \E j \in Jobs : jobs[j] # Absent
    /\ loop' = [loop EXCEPT ![t] = [Idle EXCEPT !.pc = "scan",
                                                !.left = {j \in Jobs : jobs[j] # Absent}]]
    /\ UNCHANGED <<jobs, jobsFile, callbacks, running, edits, crashes>>

Due(j) == jobs[j] # Absent /\ jobs[j].on /\ jobs[j].wait = 0

\* Where a thread goes on after a job, with `left` still to be looked at.
Back(t, left) == IF t \in Loops /\ left # {} THEN "scan" ELSE "idle"

\* and looks at each of them without the lock.
Consider(t, j) ==
    /\ At(t, "scan") /\ j \in loop[t].left
    /\ loop' = [loop EXCEPT ![t].left = @ \ {j},
                            ![t].job = IF Due(j) THEN j ELSE Absent,
                            ![t].pc = IF Due(j) THEN "enter" ELSE Back(t, loop[t].left \ {j})]
    /\ UNCHANGED <<jobs, jobsFile, callbacks, running, edits, crashes>>

-----------------------------------------------------------------------------
(* run_job.                                                                 *)

\* What keeps a job from being run other than by hand.
Refused(t, j) == jobs[j] = Absent \/ (~loop[t].forced /\ ~jobs[j].on)

\* Under the lock: the guards, and the slot this run is for.
Enter(t) ==
    /\ At(t, "enter")
    /\ LET j == loop[t].job IN
         loop' = IF Refused(t, j) THEN [loop EXCEPT ![t].pc = Back(t, loop[t].left), ![t].job = Absent]
                 ELSE [loop EXCEPT ![t].pc = "call", ![t].slot = jobs[j].wait, ![t].live = TRUE]
    /\ UNCHANGED <<jobs, jobsFile, callbacks, running, edits, crashes>>

\* Outside the lock: the callback; without one a warning.  It may raise.
Call(t) ==
    /\ At(t, "call")
    /\ Goto(t, "finish")
    /\ UNCHANGED <<jobs, jobsFile, callbacks, running, edits, crashes>>

\* The next run counts from the slot, or from now if that is past.
Following(slot) == IF slot > 0 THEN slot + Interval ELSE Interval

\* Under the lock again: the job object moves on, in the table or not.
Counted(t, j) ==
    IF ~loop[t].live THEN jobs
    ELSE [jobs EXCEPT ![j].wait = Following(loop[t].slot)]

\* A change of the table under the lock, and the payload of the _save_jobs
\* that follows it, taken before any other thread has the lock.
Change(t, threads, table) ==
    /\ jobs' = table
    /\ loop' = [threads EXCEPT ![t] = [Idle EXCEPT !.pc = "write", !.left = loop[t].left,
                                                  !.payload = table]]

FinishJob(t) ==
    /\ At(t, "finish")
    /\ Change(t, loop, Counted(t, loop[t].job))
    /\ UNCHANGED <<jobsFile, callbacks, running, edits, crashes>>

\* The rest of _save_jobs: the payload is written without the lock.
WriteFile(t) ==
    /\ At(t, "write")
    /\ jobsFile' = loop[t].payload
    /\ loop' = [loop EXCEPT ![t].pc = Back(t, loop[t].left), ![t].payload = Absent]
    /\ UNCHANGED <<jobs, callbacks, running, edits, crashes>>

-----------------------------------------------------------------------------
(* What callers do.                                                         *)

Calling(c) == c \in Callers /\ At(c, "idle") /\ edits < MaxEdits /\ edits' = edits + 1

\* The objects of j that threads hold are no longer those of the table.
Detached(j) ==
    [t \in Threads |-> IF loop[t].job = j THEN [loop[t] EXCEPT !.live = FALSE] ELSE loop[t]]

\* Mutant of AddJob: the callback is left to the next start.
AddJobOnly(c, j) ==
    /\ UNCHANGED callbacks
    /\ Change(c, Detached(j), [jobs EXCEPT ![j] = NewJob])

\* register_callback and add_job, which puts a new object under the id;
\* the part of an action of whoever needs the job.
AddJob(c, j) ==
    /\ callbacks' = callbacks \cup {j}
    /\ Change(c, Detached(j), [jobs EXCEPT ![j] = NewJob])

RemoveJob(c, j) ==
    /\ Calling(c) /\ jobs[j] # Absent
    /\ Change(c, Detached(j), [jobs EXCEPT ![j] = Absent])
    /\ UNCHANGED <<jobsFile, callbacks, running, crashes>>

\* update_job: enables, disables, or gives another schedule or next_run.
Updates(job) ==
    {[job EXCEPT !.on = on] : on \in BOOLEAN} \cup {[job EXCEPT !.wait = w] : w \in {0, Interval}}

UpdateJob(c, j) ==
    /\ Calling(c) /\ jobs[j] # Absent
    /\ \E new \in Updates(jobs[j]) : Change(c, loop, [jobs EXCEPT ![j] = new])
    /\ UNCHANGED <<jobsFile, callbacks, running, crashes>>

\* run_job(force=True)
RunByHand(c, j) ==
    /\ Calling(c) /\ jobs[j] # Absent
    /\ loop' = [loop EXCEPT ![c] = [Idle EXCEPT !.pc = "enter", !.job = j, !.forced = TRUE]]
    /\ UNCHANGED <<jobs, jobsFile, callbacks, running, crashes>>

-----------------------------------------------------------------------------
(* Time and crashes.                                                        *)

Lower(n) == IF n > 0 THEN n - 1 ELSE 0
Older(table) == [j \in Jobs |-> IF table[j] = Absent THEN Absent
                                ELSE [table[j] EXCEPT !.wait = Lower(@)]]

SchedTick ==
    /\ jobs' = Older(jobs)
    /\ jobsFile' = Older(jobsFile)
    /\ loop' = [t \in Threads |->
                 [loop[t] EXCEPT !.slot = Lower(@),
                                 !.payload = IF @ = Absent THEN Absent ELSE Older(@)]]

SchedRestart ==
    /\ crashes < MaxCrashes /\ crashes' = crashes + 1
    /\ jobs' = Loaded
    /\ jobsFile' = Loaded
    /\ callbacks' = SetupJobs
    /\ running' = FALSE
    /\ loop' = [t \in Threads |-> IF t \in Loops THEN Dead ELSE Idle]
    /\ UNCHANGED edits

\* The steps of one thread, the callback excepted.
SchedStep(t) ==
    \/ EndLoop(t) \/ Snapshot(t) \/ (\E j \in Jobs : Consider(t, j))
    \/ Enter(t) \/ FinishJob(t) \/ WriteFile(t)

ChangeJob == \E c \in Callers, j \in Jobs : RemoveJob(c, j) \/ UpdateJob(c, j) \/ RunByHand(c, j)
=============================================================================

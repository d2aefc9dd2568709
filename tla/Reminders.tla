------------------------------ MODULE Reminders ------------------------------
(* The reminder service (rex/reminder_service.py) in the process of the     *)
(* scheduler: its table and file, and the callback of its scheduler job,    *)
(* which fires what is due.  The service has no lock: the operations of a   *)
(* caller fall between the steps of the callback, and a crash may too.      *)
EXTENDS Scheduler

CONSTANTS
    ReminderIds,
    Check           \* the job and the callback "reminder_check"

ReminderRow ==
    [in: 0..1, status: {"pending", "fired", "done", "canceled"}, gone: BOOLEAN]

ASSUME RemindersAssumption ==
    /\ Check \in Jobs /\ Check \notin SetupJobs
    /\ Absent \notin ReminderIds \cup ReminderRow

VARIABLES
    reminder,       \* _reminders: a record, `gone` once deleted, or Absent
    ensured,        \* _scheduler_job_registered
    firing,         \* per thread in the callback: what it has still to look at
    notified,       \* ghost: the notifications sent of each reminder
    met             \* ghost: two threads were in the callback at once

remVars == <<reminder, ensured, firing, notified, met>>

NoFiring == [left |-> {}, on |-> Absent]

RemInit ==
    /\ reminder = [r \in ReminderIds |-> Absent]
    /\ ensured = FALSE
    /\ firing = [t \in Threads |-> NoFiring]
    /\ notified = [r \in ReminderIds |-> 0]
    /\ met = FALSE

Kept(r) == reminder[r] # Absent /\ ~reminder[r].gone

\* Mutant of RemDue: only the time is looked at.
RemDueByTime(r) == reminder[r].in = 0

\* is_due, of the object: it does not know whether it was deleted.
RemDue(r) == reminder[r].status = "pending" /\ reminder[r].in = 0

-----------------------------------------------------------------------------
(* The callers.                                                             *)

NewReminder(in) == [in |-> in, status |-> "pending", gone |-> FALSE]

\* create_reminder saves, then makes sure of the scheduler job: a job that
\* is in the table already, loaded from the file, is taken for complete.
CreateReminder(c, r) ==
    /\ Calling(c) /\ reminder[r] = Absent
    /\ \E in \in 0..1 : reminder' = [reminder EXCEPT ![r] = NewReminder(in)]
    /\ ensured' = TRUE
    /\ IF ensured \/ jobs[Check] # Absent
       THEN UNCHANGED <<jobs, callbacks, loop>>
       ELSE AddJob(c, Check)
    /\ UNCHANGED <<jobsFile, running, crashes, firing, notified, met>>

\* mark_done, cancel_reminder and delete_reminder ask for no status;
\* update_reminder moves the time and leaves the status.
ChangeReminder(c, r) ==
    /\ Calling(c) /\ Kept(r)
    /\ \/ \E s \in {"done", "canceled"} : reminder' = [reminder EXCEPT ![r].status = s]
       \/ reminder' = [reminder EXCEPT ![r].gone = TRUE]
       \/ reminder' = [reminder EXCEPT ![r].in = 1]
    /\ UNCHANGED <<jobs, jobsFile, callbacks, running, loop, crashes,
                   ensured, firing, notified, met>>

-----------------------------------------------------------------------------
(* The callback: fire_due_reminders, as a part of the thread's run_job.     *)

HasCallback(t) == loop[t].job = Check /\ Check \in callbacks
sched == <<jobs, jobsFile, callbacks, running, edits, crashes>>

\* The list of reminders is copied first.
FireBegin(t) ==
    /\ At(t, "call") /\ HasCallback(t)
    /\ firing' = [firing EXCEPT ![t].left = {r \in ReminderIds : Kept(r)}]
    /\ met' = (met \/ \E u \in Threads \ {t} : At(u, "fire"))
    /\ Goto(t, "fire")
    /\ UNCHANGED <<sched, reminder, ensured, notified>>

\* One that is due is notified (a failure is only logged, as is that of the
\* follow-up cue),
FireOne(t, r) ==
    /\ At(t, "fire") /\ firing[t].on = Absent /\ r \in firing[t].left
    /\ firing' = [firing EXCEPT ![t].left = @ \ {r}, ![t].on = IF RemDue(r) THEN r ELSE Absent]
    /\ notified' = IF RemDue(r) THEN [notified EXCEPT ![r] = @ + 1] ELSE notified
    /\ UNCHANGED <<sched, loop, reminder, ensured, met>>

\* and then marked, whatever became of it meanwhile.
FireMark(t) ==
    /\ At(t, "fire") /\ firing[t].on # Absent
    /\ reminder' = [reminder EXCEPT ![firing[t].on].status = "fired"]
    /\ firing' = [firing EXCEPT ![t].on = Absent]
    /\ UNCHANGED <<sched, loop, ensured, notified, met>>

FireEnd(t) ==
    /\ At(t, "fire") /\ firing[t] = NoFiring
    /\ Goto(t, "finish")
    /\ UNCHANGED <<sched, remVars>>

-----------------------------------------------------------------------------
Sooner(table) == [r \in ReminderIds |-> IF table[r] = Absent THEN Absent
                                        ELSE [table[r] EXCEPT !.in = Lower(@)]]

RemTick ==
    /\ reminder' = Sooner(reminder)
    /\ UNCHANGED <<ensured, firing, notified, met>>

\* A new service reads the file; nothing registers its callback again.
RemRestart ==
    /\ ensured' = FALSE
    /\ firing' = [t \in Threads |-> NoFiring]
    /\ UNCHANGED <<reminder, notified, met>>

RemStep(t) ==
    FireBegin(t) \/ (\E r \in ReminderIds : FireOne(t, r)) \/ FireMark(t) \/ FireEnd(t)

RemEdit == \E c \in Callers, r \in ReminderIds : CreateReminder(c, r) \/ ChangeReminder(c, r)

-----------------------------------------------------------------------------
\* The user is notified of a reminder once, and once more for each crash
\* between the notification and the save, unless two runs of the job
\* overlap; moving, completing or cancelling it never causes another.
NotifiedOnce == \A r \in ReminderIds : ~met => notified[r] <= 1 + crashes

\* The scheduler does not run, or its job was removed or disabled.
Suspended == ~running \/ jobs[Check] = Absent \/ ~jobs[Check].on

IsDue(r) == Kept(r) /\ RemDue(r)

\* A due reminder fires or is ended by its owner, over edits of the scheduler's
\* jobs and restarts of its loop, in a program that was not restarted.
DueReminderFires ==
    \A r \in ReminderIds : []<>(~IsDue(r) \/ Suspended \/ crashes > 0)

\* reminder_service.py:522 makes sure that the job that fires reminders is
\* registered: they fire after a restart too.
DueFiresAfterRestart ==
    \A r \in ReminderIds : []<>(~IsDue(r) \/ Suspended)
=============================================================================

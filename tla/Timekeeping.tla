---------------------------- MODULE Timekeeping ----------------------------
(***************************************************************************)
(* Timers and alarms (rex/timekeeping): the service that keeps the records *)
(* in memory and in one file of the household, and the worker thread that  *)
(* sleeps until the nearest deadline and announces what is due.            *)
(*                                                                         *)
(* Every process that constructs an Assistant has a service and a worker   *)
(* of its own over the same file, read once when the process starts.  A    *)
(* method of the service runs under its lock, which makes it one step.     *)
(***************************************************************************)
EXTENDS Naturals

CONSTANTS
    Procs,      \* processes that construct an Assistant
    Timers,     \* timer ids
    Alarms,     \* alarm ids
    Day,        \* the period of a recurring alarm
    Span,       \* bound on durations and on how far ahead an alarm is set
    Horizon,    \* bound on the time
    MaxRounds,  \* bound on how often an alarm is scheduled anew
    MaxFaults,  \* bound on failed saves and refused edits
    MaxStops,   \* bound on the exits of processes
    Nil

ASSUME TimekeepingAssumption ==
    /\ Timers \cap Alarms = {}
    /\ Day \in Nat \ {0} /\ Span \in Nat \ {0}
    /\ Horizon \in Nat /\ MaxRounds \in Nat \ {0} /\ MaxFaults \in Nat /\ MaxStops \in Nat

Ids == Timers \cup Alarms
Durations == 1..Span
Times == 0..(Horizon + Span)
Rounds == 1..MaxRounds

\* TimerRecord.  left is paused_remaining_seconds.
TimerRecords == [
    status : {"active", "paused", "fired", "canceled"},
    due : Times \cup {Nil},
    left : Times \cup {Nil}]

\* AlarmRecord.  at is the date and time of a one-shot alarm, round (history)
\* counts how often it was set to ring again.
AlarmRecords == [
    status : {"active", "ringing", "dismissed", "canceled"},
    due : Times \cup {Nil},
    enabled : BOOLEAN,
    every : BOOLEAN,
    at : Times \cup {Nil},
    round : Rounds]

RecordsOf(r) == IF r \in Timers THEN TimerRecords ELSE AlarmRecords

ASSUME NilAssumption == Nil \notin TimerRecords \cup AlarmRecords \cup Nat

VARIABLES
    clock,      \* the time
    disk,       \* timekeeping.json
    behind,     \* history: where the copy of a process misses what another
                \* one has written since
    overrun,    \* history: the records that a process which was behind wrote
                \* over, or changed
    mem,        \* _timers and _alarms of each process
    dirty,      \* history: the last change was not saved
    pc,         \* the worker: down, claim, deliver, plan, park, wait, notified or dead
    woken,      \* _generation has moved on since the worker looked at it
    target,     \* the deadline the worker saw
    todo,       \* events it has claimed and not handed over yet
    heard,      \* history: how often an event was handed to the handler
    faults, stops

timeVars == <<clock, disk, behind, overrun, mem, dirty, pc, woken, target, todo, heard, faults, stops>>

Events == Ids \X Rounds

Empty == [r \in Ids |-> Nil]

\* What is active has a deadline and nothing else has; what is paused has time
\* left; a one-shot alarm keeps its date.
WellFormed(r, record) ==
    /\ record \in RecordsOf(r)
    /\ record.status = "active" <=> record.due # Nil
    /\ r \in Timers => (record.status = "paused" <=> record.left # Nil)
    /\ r \in Alarms => (record.every <=> record.at = Nil)

Tables ==
    {table \in [Ids -> TimerRecords \cup AlarmRecords \cup {Nil}] :
        \A r \in Ids : table[r] = Nil \/ WellFormed(r, table[r])}

(* Every variable has its type, and every record is well formed.           *)
TimekeepingTypeOK ==
    /\ clock \in 0..Horizon
    /\ disk \in Tables
    /\ behind \subseteq Procs \X Ids
    /\ overrun \subseteq Ids
    /\ mem \in [Procs -> Tables]
    /\ dirty \in [Procs -> BOOLEAN]
    /\ pc \in [Procs -> {"down", "claim", "deliver", "plan", "park", "wait", "notified", "dead"}]
    /\ woken \in [Procs -> BOOLEAN]
    /\ target \in [Procs -> Times \cup {Nil}]
    /\ todo \in [Procs -> SUBSET Events]
    /\ heard \in [Events -> 0..2]
    /\ faults \in 0..MaxFaults /\ stops \in 0..MaxStops

TimeInit ==
    /\ clock = 0
    /\ disk = Empty
    /\ behind = {} /\ overrun = {}
    /\ mem = [p \in Procs |-> Empty]
    /\ dirty = [p \in Procs |-> FALSE]
    /\ pc = [p \in Procs |-> "down"]
    /\ woken = [p \in Procs |-> FALSE]
    /\ target = [p \in Procs |-> Nil]
    /\ todo = [p \in Procs |-> {}]
    /\ heard = [e \in Events |-> 0]
    /\ faults = 0 /\ stops = 0

-----------------------------------------------------------------------------
(* The service.                                                            *)

Less(a, b) == IF a > b THEN a - b ELSE 0
Latest(a, b) == IF a > b THEN a ELSE b

\* _next_recurring_occurrence
Occurrence(after) == ((after \div Day) + 1) * Day

Up(p) == pc[p] # "down"

\* What a process that reads or writes the file leaves of behind.
OthersBehind(p) == {b \in behind : b[1] # p}

\* The whole table replaces the file, also what p did not know of.
Writes(p, table) ==
    /\ disk' = table
    /\ behind' = OthersBehind(p) \cup
         {b \in Procs \X Ids : b[1] # p /\ Up(b[1]) /\ table[b[2]] # disk[b[2]]}
    /\ overrun' = overrun \cup
         {r \in Ids : <<p, r>> \in behind /\ (table[r] # disk[r] \/ table[r] # mem[p][r])}

\* Mutant of Save: what has ended is not written.
SaveLive(p, table) ==
    /\ mem' = [mem EXCEPT ![p] = table]
    /\ Writes(p, [r \in Ids |-> IF table[r] # Nil /\ table[r].due = Nil THEN Nil ELSE table[r]])
    /\ dirty' = [dirty EXCEPT ![p] = FALSE]
    /\ UNCHANGED faults

\* _save: the whole table replaces the file.
Save(p, table) ==
    /\ mem' = [mem EXCEPT ![p] = table]
    /\ Writes(p, table)
    /\ dirty' = [dirty EXCEPT ![p] = FALSE]
    /\ UNCHANGED faults

\* The file cannot be replaced: the change remains in memory.
SaveFails(p, table) ==
    /\ faults < MaxFaults
    /\ faults' = faults + 1
    /\ mem' = [mem EXCEPT ![p] = table]
    /\ dirty' = [dirty EXCEPT ![p] = TRUE]
    /\ UNCHANGED <<disk, behind, overrun>>

\* wake, the change callback: a worker that waits is notified, one that does
\* not will see that the generation has moved on.
Notify(p) ==
    /\ woken' = [woken EXCEPT ![p] = TRUE]
    /\ pc' = IF pc[p] = "wait" THEN [pc EXCEPT ![p] = "notified"] ELSE pc

Has(p, r, statuses) == Up(p) /\ mem[p][r] # Nil /\ mem[p][r].status \in statuses

\* A method that leaves new as the record of r.
Update(p, r, new) ==
    /\ new \in RecordsOf(r)
    /\ LET table == [mem[p] EXCEPT ![r] = new]
       IN  \/ Save(p, table) /\ Notify(p)
           \/ SaveFails(p, table) /\ UNCHANGED <<woken, pc>>
    /\ UNCHANGED <<clock, target, todo, heard, stops>>

\* The ids are unique.
Unused(r) == disk[r] = Nil /\ \A p \in Procs : mem[p][r] = Nil

CreateTimer(p, t) ==
    /\ Up(p) /\ Unused(t)
    /\ \E d \in Durations : Update(p, t, [status |-> "active", due |-> clock + d, left |-> Nil])

PauseTimer(p, t) ==
    /\ Has(p, t, {"active"})
    /\ Update(p, t, [status |-> "paused", due |-> Nil, left |-> Less(mem[p][t].due, clock)])

ResumeTimer(p, t) ==
    /\ Has(p, t, {"paused"})
    /\ Update(p, t, [status |-> "active", due |-> clock + mem[p][t].left, left |-> Nil])

AdjustActive(p, t) ==
    /\ Has(p, t, {"active"})
    /\ \E d \in Durations, more \in BOOLEAN :
         Update(p, t, [mem[p][t] EXCEPT
             !.due = Latest(clock, IF more THEN @ + d ELSE Less(@, d))])

AdjustPaused(p, t) ==
    /\ Has(p, t, {"paused"})
    /\ \E d \in Durations, more \in BOOLEAN :
         Update(p, t, [mem[p][t] EXCEPT !.left = IF more THEN @ + d ELSE Less(@, d)])

\* A new name is nothing that is modelled, but the table is saved.
RenameTimer(p, t) ==
    /\ Has(p, t, {"active", "paused", "fired", "canceled"})
    /\ Update(p, t, mem[p][t])

CancelTimer(p, t) ==
    /\ Has(p, t, {"active", "paused"})
    /\ Update(p, t, [status |-> "canceled", due |-> Nil, left |-> Nil])

Recurring(due) == [every |-> TRUE, at |-> Nil, due |-> due]
OneShot(when) == [every |-> FALSE, at |-> when, due |-> when]

\* When an alarm that is created or edited may ring.
Schedules == {Recurring(Occurrence(clock))} \cup {OneShot(clock + d) : d \in Durations}

CreateAlarm(p, a) ==
    /\ Up(p) /\ Unused(a)
    /\ \E s \in Schedules :
         Update(p, a, [status |-> "active", due |-> s.due, enabled |-> TRUE,
                       every |-> s.every, at |-> s.at, round |-> 1])

\* An alarm that has rung is set to ring again.
NextRound(alarm) == IF alarm.due = Nil THEN alarm.round + 1 ELSE alarm.round

DismissRecurring(p, a) ==
    /\ Has(p, a, {"ringing"}) /\ mem[p][a].every
    /\ Update(p, a, [mem[p][a] EXCEPT
           !.status = "active", !.due = Occurrence(clock), !.round = NextRound(mem[p][a])])

DismissOneShot(p, a) ==
    /\ Has(p, a, {"ringing"}) /\ ~mem[p][a].every
    /\ Update(p, a, [mem[p][a] EXCEPT !.status = "dismissed", !.enabled = FALSE, !.due = Nil])

SnoozeAlarm(p, a) ==
    /\ Has(p, a, {"ringing"})
    /\ \E d \in Durations :
         Update(p, a, [mem[p][a] EXCEPT
             !.status = "active", !.enabled = TRUE, !.due = clock + d,
             !.round = NextRound(mem[p][a])])

DisableAlarm(p, a) ==
    /\ Has(p, a, {"active", "ringing"})
    /\ Update(p, a, [mem[p][a] EXCEPT !.enabled = FALSE])

\* A deadline that has passed is replaced by the next occurrence, or by the
\* alarm's date if that is still to come; otherwise nothing is done.
EnableAlarm(p, a) ==
    /\ Has(p, a, {"active", "ringing"})
    /\ \E due \in {IF mem[p][a].due # Nil /\ mem[p][a].due > clock THEN mem[p][a].due
                   ELSE IF mem[p][a].every THEN Occurrence(clock) ELSE mem[p][a].at} :
         /\ due > clock
         /\ Update(p, a, [mem[p][a] EXCEPT
                !.status = "active", !.enabled = TRUE, !.due = due, !.round = NextRound(mem[p][a])])

Edited(alarm, s) ==
    [alarm EXCEPT !.status = "active", !.due = s.due, !.every = s.every, !.at = s.at,
                  !.round = NextRound(alarm)]

EditAlarm(p, a) ==
    /\ Has(p, a, {"active", "ringing"})
    /\ \E s \in Schedules : Update(p, a, Edited(mem[p][a], s))

\* A blank name is refused after the alarm was changed.
EditRefused(p, a) ==
    /\ Has(p, a, {"active", "ringing"})
    /\ \E s \in Schedules :
         /\ Edited(mem[p][a], s) \in RecordsOf(a)
         /\ SaveFails(p, [mem[p] EXCEPT ![a] = Edited(mem[p][a], s)])
    /\ UNCHANGED <<clock, pc, woken, target, todo, heard, stops>>

CancelAlarm(p, a) ==
    /\ Has(p, a, {"active", "ringing", "dismissed"})
    /\ Update(p, a, [mem[p][a] EXCEPT !.status = "canceled", !.enabled = FALSE, !.due = Nil])

-----------------------------------------------------------------------------
(* The worker.                                                             *)

Active(table, r) ==
    table[r] # Nil /\ table[r].status = "active" /\ (r \in Alarms => table[r].enabled)

Elapsed(p, r) == Active(mem[p], r) /\ mem[p][r].due <= clock

\* Mutant of NextDeadline: of the timers.
NextTimer(table) ==
    IF \E r \in Timers : Active(table, r)
    THEN CHOOSE due \in {table[r].due : r \in {t \in Timers : Active(table, t)}} :
             \A r \in Timers : Active(table, r) => due <= table[r].due
    ELSE Nil

NextDeadline(table) ==
    IF \E r \in Ids : Active(table, r)
    THEN CHOOSE due \in {table[r].due : r \in {i \in Ids : Active(table, i)}} :
             \A r \in Ids : Active(table, r) => due <= table[r].due
    ELSE Nil

\* The table after what is due was claimed, and the events of it.
Claimed(p) ==
    [r \in Ids |->
        IF ~Elapsed(p, r) THEN mem[p][r]
        ELSE [mem[p][r] EXCEPT !.status = IF r \in Timers THEN "fired" ELSE "ringing",
                               !.due = Nil]]

EventOf(p, r) == <<r, IF r \in Timers THEN 1 ELSE mem[p][r].round>>

NothingDue(p) ==
    /\ pc[p] = "claim"
    /\ \A r \in Ids : ~Elapsed(p, r)
    /\ pc' = [pc EXCEPT ![p] = "plan"]
    /\ UNCHANGED <<clock, disk, behind, overrun, mem, dirty, woken, target, todo, heard, faults, stops>>

\* Mutant of Claim: the file is left to the next change.
ClaimUnsaved(p) ==
    /\ pc[p] = "claim"
    /\ \E r \in Ids : Elapsed(p, r)
    /\ mem' = [mem EXCEPT ![p] = Claimed(p)]
    /\ todo' = [todo EXCEPT ![p] = {EventOf(p, r) : r \in {i \in Ids : Elapsed(p, i)}}]
    /\ pc' = [pc EXCEPT ![p] = "deliver"]
    /\ UNCHANGED <<clock, disk, behind, overrun, dirty, woken, target, heard, faults, stops>>

Claim(p) ==
    /\ pc[p] = "claim"
    /\ \E r \in Ids : Elapsed(p, r)
    /\ Save(p, Claimed(p))
    /\ woken' = [woken EXCEPT ![p] = TRUE]
    /\ todo' = [todo EXCEPT ![p] = {EventOf(p, r) : r \in {i \in Ids : Elapsed(p, i)}}]
    /\ pc' = [pc EXCEPT ![p] = "deliver"]
    /\ UNCHANGED <<clock, target, heard, stops>>

\* The exception ends the thread, or start(): _running stays set, so that no
\* other thread is ever started.
ClaimFails(p) ==
    /\ pc[p] = "claim"
    /\ \E r \in Ids : Elapsed(p, r)
    /\ SaveFails(p, Claimed(p))
    /\ pc' = [pc EXCEPT ![p] = "dead"]
    /\ UNCHANGED <<clock, woken, target, todo, heard, stops>>

\* The event is handed to the handler, whose exceptions are only logged.
Deliver(p, e) ==
    /\ pc[p] = "deliver"
    /\ e \in todo[p]
    /\ heard' = [heard EXCEPT ![e] = IF @ = 2 THEN 2 ELSE @ + 1]
    /\ todo' = [todo EXCEPT ![p] = @ \ {e}]
    /\ pc' = IF todo[p] = {e} THEN [pc EXCEPT ![p] = "plan"] ELSE pc
    /\ UNCHANGED <<clock, disk, behind, overrun, mem, dirty, woken, target, faults, stops>>

Plan(p) ==
    /\ pc[p] = "plan"
    /\ target' = [target EXCEPT ![p] = NextDeadline(mem[p])]
    /\ pc' = [pc EXCEPT ![p] = "park"]
    /\ UNCHANGED <<clock, disk, behind, overrun, mem, dirty, woken, todo, heard, faults, stops>>

Reached(p) == target[p] # Nil /\ target[p] <= clock

\* The top of the loop: the generation is read before the records are.
LoopAgain(p) ==
    /\ pc' = [pc EXCEPT ![p] = "claim"]
    /\ woken' = [woken EXCEPT ![p] = FALSE]
    /\ target' = [target EXCEPT ![p] = Nil]

\* Mutant of Park: a change between the look and the wait is not noticed.
ParkBlindly(p) ==
    /\ pc[p] = "park"
    /\ ~Reached(p)
    /\ pc' = [pc EXCEPT ![p] = "wait"]
    /\ UNCHANGED <<clock, disk, behind, overrun, mem, dirty, woken, target, todo, heard, faults, stops>>

NoWait(p) ==
    /\ pc[p] = "park"
    /\ Reached(p) \/ woken[p]
    /\ LoopAgain(p)
    /\ UNCHANGED <<clock, disk, behind, overrun, mem, dirty, todo, heard, faults, stops>>

Park(p) ==
    /\ pc[p] = "park"
    /\ ~Reached(p) /\ ~woken[p]
    /\ pc' = [pc EXCEPT ![p] = "wait"]
    /\ UNCHANGED <<clock, disk, behind, overrun, mem, dirty, woken, target, todo, heard, faults, stops>>

Wake(p) ==
    /\ pc[p] = "notified" \/ (pc[p] = "wait" /\ Reached(p))
    /\ LoopAgain(p)
    /\ UNCHANGED <<clock, disk, behind, overrun, mem, dirty, todo, heard, faults, stops>>

-----------------------------------------------------------------------------
(* The processes.                                                          *)

\* The first Assistant of a process loads the file and starts the worker,
\* which claims what is due at once and then begins its loop: it has not
\* looked at the generation yet.
Start(p) ==
    /\ pc[p] = "down"
    /\ mem' = [mem EXCEPT ![p] = disk]
    /\ behind' = OthersBehind(p)
    /\ dirty' = [dirty EXCEPT ![p] = FALSE]
    /\ pc' = [pc EXCEPT ![p] = "claim"]
    /\ woken' = [woken EXCEPT ![p] = TRUE]
    /\ UNCHANGED <<clock, disk, overrun, target, todo, heard, faults, stops>>

\* The process ends or is killed, and its daemon thread with it.
Exit(p) ==
    /\ Up(p) /\ stops < MaxStops
    /\ stops' = stops + 1
    /\ mem' = [mem EXCEPT ![p] = Empty]
    /\ behind' = OthersBehind(p)
    /\ dirty' = [dirty EXCEPT ![p] = FALSE]
    /\ pc' = [pc EXCEPT ![p] = "down"]
    /\ woken' = [woken EXCEPT ![p] = FALSE]
    /\ target' = [target EXCEPT ![p] = Nil]
    /\ todo' = [todo EXCEPT ![p] = {}]
    /\ UNCHANGED <<clock, disk, overrun, heard, faults>>

TimePasses ==
    /\ clock < Horizon
    /\ clock' = clock + 1
    /\ UNCHANGED <<disk, behind, overrun, mem, dirty, pc, woken, target, todo, heard, faults, stops>>

-----------------------------------------------------------------------------
OnTimer(p, t) ==
    \/ CreateTimer(p, t) \/ PauseTimer(p, t) \/ ResumeTimer(p, t)
    \/ AdjustActive(p, t) \/ AdjustPaused(p, t) \/ RenameTimer(p, t) \/ CancelTimer(p, t)

OnAlarm(p, a) ==
    \/ CreateAlarm(p, a) \/ DismissRecurring(p, a) \/ DismissOneShot(p, a) \/ SnoozeAlarm(p, a)
    \/ DisableAlarm(p, a) \/ EnableAlarm(p, a) \/ EditAlarm(p, a) \/ EditRefused(p, a)
    \/ CancelAlarm(p, a)

Worker(p) ==
    \/ NothingDue(p) \/ Claim(p) \/ ClaimFails(p) \/ (\E e \in Events : Deliver(p, e))
    \/ Plan(p) \/ NoWait(p) \/ Park(p) \/ Wake(p)

TimeNext ==
    \/ \E p \in Procs : \/ \E t \in Timers : OnTimer(p, t)
                        \/ \E a \in Alarms : OnAlarm(p, a)
                        \/ Worker(p) \/ Start(p) \/ Exit(p)
    \/ TimePasses

TimeSpec == TimeInit /\ [][TimeNext]_timeVars

\* The worker is scheduled and the handler returns; nobody needs to start a
\* process, and time may stand still.
TimeFairSpec == TimeSpec /\ \A p \in Procs : WF_timeVars(Worker(p))

-----------------------------------------------------------------------------
(* Properties.                                                             *)

\* However a process ends between the claim of an event and its announcement,
\* and whatever fails, what was set once is announced at most once, by any of
\* the processes, unless one that had not seen the others' writes of its record
\* has changed it or written over it.
AnnouncedOnce == \A e \in Events : heard[e] <= 1 \/ e[1] \in overrun

Ended(record) == record # Nil /\ record.status \in {"fired", "dismissed", "canceled"}

\* Whatever was not saved and whenever a process ends, a record that was saved
\* disappears, or comes back to life, only by the hand of a process that had
\* not seen what another one wrote of it.
SavedIsKept ==
    [][\A r \in Ids : disk[r] # Nil =>
          \/ r \in overrun'
          \/ disk'[r] # Nil /\ (Ended(disk[r]) => Ended(disk'[r]))]_timeVars

\* docs/superpowers/specs/2026-08-15-timers-alarms-media-routing.md:64: timers
\* and alarms persist across restarts; no record that was saved disappears.
\* Processes that write each other's records over break it.
NothingSavedIsLost == [][\A r \in Ids : disk[r] # Nil => disk'[r] # Nil]_timeVars

\* No wake-up is lost: a worker that was not notified waits for the nearest of
\* the deadlines there are now, unless the last change was not saved.
SleepsUntilNext ==
    \A p \in Procs :
        pc[p] = "wait" /\ ~dirty[p] => target[p] = NextDeadline(mem[p])

\* What is due does not stay due, unless its process or its worker has ended,
\* or the last change was not saved.
DueFires ==
    \A p \in Procs, r \in Ids :
        []<>(~Elapsed(p, r) \/ dirty[p] \/ pc[p] \in {"down", "dead"})
=============================================================================

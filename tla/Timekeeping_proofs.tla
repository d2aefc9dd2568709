------------------------ MODULE Timekeeping_proofs ------------------------
(***************************************************************************)
(* Proofs about Timekeeping, for any number of processes that share the    *)
(* file, through any failed saves, restarts and crashes: types, the        *)
(* absence of lost wake-ups, and that a record which was saved disappears, *)
(* comes back to life or is announced twice only by the hand of a process  *)
(* that had not seen what another one wrote of it.                         *)
(***************************************************************************)
EXTENDS Timekeeping, WellFoundedInduction, TLAPS

-----------------------------------------------------------------------------
(* The forms of a step.                                                    *)

\* How far an alarm has come: its round, and in it whether it has rung.
Rank(alarm) == 2 * alarm.round + (IF alarm.due = Nil THEN 1 ELSE 0)

\* rec may replace old as the record of r.
Advance(r, old, rec) ==
    /\ Ended(old) => Ended(rec)
    /\ r \in Alarms /\ old # Nil => Rank(rec) >= Rank(old)

LEMMA Lookup ==
    ASSUME TimekeepingTypeOK, NEW p \in Procs, NEW r \in Ids, mem[p][r] # Nil
    PROVE  WellFormed(r, mem[p][r])
BY DEF TimekeepingTypeOK, Tables

LEMMA TimerFields ==
    ASSUME NEW t \in Timers, NEW x, WellFormed(t, x)
    PROVE  /\ x \in TimerRecords /\ x # Nil
           /\ x.status \in {"active", "paused", "fired", "canceled"}
           /\ x.due \in Times \cup {Nil} /\ x.left \in Times \cup {Nil}
           /\ x.status = "active" <=> x.due # Nil
           /\ x.status = "paused" <=> x.left # Nil
BY NilAssumption DEF WellFormed, RecordsOf, TimerRecords

LEMMA AlarmFields ==
    ASSUME NEW a \in Alarms, NEW x, WellFormed(a, x)
    PROVE  /\ x \in AlarmRecords /\ x # Nil
           /\ x.status \in {"active", "ringing", "dismissed", "canceled"}
           /\ x.due \in Times \cup {Nil} /\ x.at \in Times \cup {Nil}
           /\ x.enabled \in BOOLEAN /\ x.every \in BOOLEAN /\ x.round \in Rounds
           /\ x.status = "active" <=> x.due # Nil
           /\ x.every <=> x.at = Nil
BY NilAssumption, TimekeepingAssumption DEF WellFormed, RecordsOf, AlarmRecords

LEMMA TimesAreNumbers ==
    /\ Times \subseteq Nat /\ Durations \subseteq Nat /\ Rounds \subseteq Nat
    /\ Nil \notin Nat
    /\ \A x, y \in Nat : x + y \in Nat /\ Less(x, y) \in Nat /\ Latest(x, y) \in Nat
BY TimekeepingAssumption, NilAssumption DEF Times, Durations, Rounds, Less, Latest

LEMMA OccurrenceIsNumber ==
    ASSUME NEW x \in Nat
    PROVE  Occurrence(x) # Nil
<1>1. Occurrence(x) \in Nat
  BY TimekeepingAssumption DEF Occurrence
<1> QED
  BY <1>1, NilAssumption

LEMMA TimerForm ==
    ASSUME TimekeepingTypeOK, NEW p \in Procs, NEW t \in Timers, OnTimer(p, t)
    PROVE  \E rec : /\ WellFormed(t, rec) /\ Advance(t, mem[p][t], rec)
                    /\ Up(p) /\ Update(p, t, rec)
<1>0. t \in Ids /\ t \notin Alarms /\ clock \in Nat
  BY TimekeepingAssumption DEF Ids, TimekeepingTypeOK
<1>1. ASSUME NEW rec, Update(p, t, rec),
             rec \in TimerRecords => /\ rec.status = "active" <=> rec.due # Nil
                                     /\ rec.status = "paused" <=> rec.left # Nil,
             Up(p), Ended(mem[p][t]) => Ended(rec)
      PROVE  /\ WellFormed(t, rec) /\ Advance(t, mem[p][t], rec)
             /\ Up(p) /\ Update(p, t, rec)
  <2>1. rec \in TimerRecords
    BY <1>1 DEF Update, RecordsOf
  <2> QED
    BY <1>0, <1>1, <2>1 DEF WellFormed, RecordsOf, Advance
<1>2. CASE CreateTimer(p, t)
  <2>1. PICK d \in Durations : Update(p, t, [status |-> "active", due |-> clock + d, left |-> Nil])
    BY <1>2 DEF CreateTimer
  <2>2. clock + d # Nil
    BY <1>0, TimesAreNumbers, Zenon
  <2>3. ~Ended(mem[p][t])
    BY <1>2 DEF CreateTimer, Unused, Ended
  <2> QED
    BY <1>1, <1>2, <2>1, <2>2, <2>3 DEF CreateTimer
<1>3. CASE ~CreateTimer(p, t)
  <2> DEFINE old == mem[p][t]
  <2>0. /\ Has(p, t, {"active", "paused", "fired", "canceled"})
        /\ old # Nil /\ Up(p)
    BY <1>3 DEF OnTimer, PauseTimer, ResumeTimer, AdjustActive, AdjustPaused, RenameTimer,
                CancelTimer, Has
  <2>1. /\ old \in TimerRecords
        /\ old.status \in {"active", "paused", "fired", "canceled"}
        /\ old.due \in Times \cup {Nil} /\ old.left \in Times \cup {Nil}
        /\ old.status = "active" <=> old.due # Nil
        /\ old.status = "paused" <=> old.left # Nil
    BY <1>0, <2>0, Lookup, TimerFields
  <2> HIDE DEF old
  <2>2. ASSUME NEW statuses, Has(p, t, statuses) PROVE old.status \in statuses
    BY <2>2 DEF Has, old
  <2>3. CASE PauseTimer(p, t)
    <3>1. Has(p, t, {"active"})
          /\ Update(p, t, [status |-> "paused", due |-> Nil, left |-> Less(old.due, clock)])
      BY <2>3 DEF PauseTimer, old
    <3>2. old.status = "active"
      BY <2>2, <3>1
    <3>3. Less(old.due, clock) # Nil
      BY <1>0, <2>1, <3>2, TimesAreNumbers
    <3>4. ~Ended(old)
      BY <3>2 DEF Ended
    <3> QED
      BY <1>1, <2>0, <3>1, <3>3, <3>4 DEF old
  <2>4. CASE ResumeTimer(p, t)
    <3>1. Has(p, t, {"paused"})
          /\ Update(p, t, [status |-> "active", due |-> clock + old.left, left |-> Nil])
      BY <2>4 DEF ResumeTimer, old
    <3>2. old.status = "paused"
      BY <2>2, <3>1
    <3>3. clock + old.left # Nil
      <4>1. old.left \in Nat
        BY <2>1, <3>2, TimesAreNumbers
      <4> QED
        BY <1>0, <4>1, TimesAreNumbers, Zenon
    <3>4. ~Ended(old)
      BY <3>2 DEF Ended
    <3> QED
      BY <1>1, <2>0, <3>1, <3>3, <3>4 DEF old
  <2>5. CASE AdjustActive(p, t)
    <3>1. PICK d \in Durations, more \in BOOLEAN :
            Update(p, t, [old EXCEPT !.due = Latest(clock, IF more THEN @ + d ELSE Less(@, d))])
      BY <2>5 DEF AdjustActive, old
    <3> DEFINE due == Latest(clock, IF more THEN old.due + d ELSE Less(old.due, d))
               rec == [old EXCEPT !.due = due]
    <3>2. old.status = "active"
      BY <2>2, <2>5 DEF AdjustActive
    <3>3. due # Nil
      <4>1. old.due \in Nat /\ d \in Nat
        BY <2>1, <3>2, TimesAreNumbers
      <4>2. old.due + d \in Nat /\ Less(old.due, d) \in Nat
        BY <4>1, TimesAreNumbers, Zenon
      <4>3. (IF more THEN old.due + d ELSE Less(old.due, d)) \in Nat
        BY <4>2
      <4> QED
        BY <1>0, <4>3, TimesAreNumbers, Zenon
    <3>4. Update(p, t, rec)
      BY <3>1
    <3> HIDE DEF due
    <3>5. rec.status = old.status /\ rec.due = due /\ rec.left = old.left
      BY <2>1 DEF TimerRecords
    <3>6. ~Ended(old)
      BY <3>2 DEF Ended
    <3> HIDE DEF rec
    <3> QED
      BY <1>1, <2>0, <2>1, <3>2, <3>3, <3>4, <3>5, <3>6 DEF old
  <2>6. CASE AdjustPaused(p, t)
    <3>1. PICK d \in Durations, more \in BOOLEAN :
            Update(p, t, [old EXCEPT !.left = IF more THEN @ + d ELSE Less(@, d)])
      BY <2>6 DEF AdjustPaused, old
    <3> DEFINE left == IF more THEN old.left + d ELSE Less(old.left, d)
               rec == [old EXCEPT !.left = left]
    <3>2. old.status = "paused"
      BY <2>2, <2>6 DEF AdjustPaused
    <3>3. left # Nil
      <4>1. old.left \in Nat /\ d \in Nat
        BY <2>1, <3>2, TimesAreNumbers
      <4>2. old.left + d \in Nat /\ Less(old.left, d) \in Nat
        BY <4>1, TimesAreNumbers, Zenon
      <4>3. left \in Nat
        BY <4>2
      <4> QED
        BY <4>3, TimesAreNumbers, Zenon
    <3>4. Update(p, t, rec)
      BY <3>1
    <3> HIDE DEF left
    <3>5. rec.status = old.status /\ rec.due = old.due /\ rec.left = left
      BY <2>1 DEF TimerRecords
    <3>6. ~Ended(old)
      BY <3>2 DEF Ended
    <3> HIDE DEF rec
    <3> QED
      BY <1>1, <2>0, <2>1, <3>2, <3>3, <3>4, <3>5, <3>6 DEF old
  <2>7. CASE RenameTimer(p, t)
    <3>1. Update(p, t, old)
      BY <2>7 DEF RenameTimer, old
    <3> QED
      BY <1>1, <2>0, <2>1, <3>1 DEF old
  <2>8. CASE CancelTimer(p, t)
    <3>1. Update(p, t, [status |-> "canceled", due |-> Nil, left |-> Nil])
      BY <2>8 DEF CancelTimer
    <3>2. Ended([status |-> "canceled", due |-> Nil, left |-> Nil])
      <4>1. [status |-> "canceled", due |-> Nil, left |-> Nil] \in TimerRecords
        BY DEF TimerRecords
      <4> QED
        BY <4>1, NilAssumption DEF Ended
    <3> QED
      BY <1>1, <2>0, <3>1, <3>2 DEF old
  <2> QED
    BY <1>3, <2>3, <2>4, <2>5, <2>6, <2>7, <2>8 DEF OnTimer
<1> QED
  BY <1>2, <1>3

\* What the operations leave of an alarm: its rank does not fall if it goes
\* to its next round, or loses its deadline, or keeps both.
LEMMA RankRises ==
    ASSUME NEW a \in Alarms, NEW old, WellFormed(a, old), NEW rec, rec \in AlarmRecords,
           \/ rec.round = NextRound(old)
           \/ rec.round = old.round /\ (old.due = Nil => rec.due = Nil)
    PROVE  Rank(rec) >= Rank(old)
<1>1. old.round \in Nat /\ rec.round \in Nat
  BY AlarmFields, TimesAreNumbers DEF AlarmRecords
<1>2. CASE old.due = Nil
  BY <1>1, <1>2 DEF Rank, NextRound
<1>3. CASE old.due # Nil
  BY <1>1, <1>3 DEF Rank, NextRound
<1> QED
  BY <1>2, <1>3

\* A schedule has a deadline, and a date unless it is recurring.
LEMMA ScheduleForm ==
    ASSUME TimekeepingTypeOK, NEW s \in Schedules
    PROVE  /\ s.due # Nil
           /\ s.every \in BOOLEAN
           /\ s.every <=> s.at = Nil
<1>0. clock \in Nat
  BY TimekeepingAssumption DEF TimekeepingTypeOK
<1>1. CASE s = Recurring(Occurrence(clock))
  BY <1>0, <1>1, OccurrenceIsNumber DEF Recurring
<1>2. CASE s \in {OneShot(clock + d) : d \in Durations}
  <2>1. PICK d \in Durations : s = OneShot(clock + d)
    BY <1>2
  <2>2. clock + d # Nil
    BY <1>0, TimesAreNumbers, Zenon
  <2> QED
    BY <2>1, <2>2 DEF OneShot
<1> QED
  BY <1>1, <1>2 DEF Schedules

\* An edited alarm.
LEMMA EditForm ==
    ASSUME TimekeepingTypeOK, NEW a \in Alarms, NEW old, WellFormed(a, old), ~Ended(old),
           NEW s \in Schedules, Edited(old, s) \in RecordsOf(a)
    PROVE  WellFormed(a, Edited(old, s)) /\ Advance(a, old, Edited(old, s))
<1> DEFINE rec == Edited(old, s)
<1>0. a \notin Timers /\ rec \in AlarmRecords /\ old \in AlarmRecords
  BY TimekeepingAssumption, AlarmFields DEF RecordsOf
<1>1. /\ rec.status = "active" /\ rec.due = s.due /\ rec.every = s.every /\ rec.at = s.at
      /\ rec.round = NextRound(old)
  BY <1>0 DEF Edited, AlarmRecords
<1> HIDE DEF rec
<1>2. Rank(rec) >= Rank(old)
  BY <1>0, <1>1, RankRises
<1> QED
  BY <1>0, <1>1, <1>2, ScheduleForm DEF WellFormed, RecordsOf, Advance, rec

LEMMA AlarmForm ==
    ASSUME TimekeepingTypeOK, NEW p \in Procs, NEW a \in Alarms,
           OnAlarm(p, a), ~EditRefused(p, a)
    PROVE  \E rec : /\ WellFormed(a, rec) /\ Advance(a, mem[p][a], rec)
                    /\ Up(p) /\ Update(p, a, rec)
<1>0. a \in Ids /\ a \notin Timers /\ clock \in Nat
  BY TimekeepingAssumption DEF Ids, TimekeepingTypeOK
<1>2. CASE CreateAlarm(p, a)
  <2>1. PICK s \in Schedules :
          Update(p, a, [status |-> "active", due |-> s.due, enabled |-> TRUE,
                        every |-> s.every, at |-> s.at, round |-> 1])
    BY <1>2 DEF CreateAlarm
  <2> DEFINE rec == [status |-> "active", due |-> s.due, enabled |-> TRUE,
                     every |-> s.every, at |-> s.at, round |-> 1]
  <2>2. mem[p][a] = Nil /\ Up(p)
    BY <1>2 DEF CreateAlarm, Unused
  <2>3. rec \in AlarmRecords
    BY <1>0, <2>1 DEF Update, RecordsOf
  <2>4. rec.status = "active" /\ rec.due = s.due /\ rec.every = s.every /\ rec.at = s.at
    OBVIOUS
  <2>5. Update(p, a, rec)
    BY <2>1
  <2> HIDE DEF rec
  <2> QED
    BY <1>0, <2>2, <2>3, <2>4, <2>5, ScheduleForm DEF WellFormed, RecordsOf, Advance, Ended
<1>3. CASE ~CreateAlarm(p, a)
  <2> DEFINE old == mem[p][a]
  <2>0. /\ old # Nil /\ Up(p)
        /\ Has(p, a, {"active", "ringing"}) \/ Has(p, a, {"active", "ringing", "dismissed"})
           \/ Has(p, a, {"ringing"})
    BY <1>3 DEF OnAlarm, DismissRecurring, DismissOneShot, SnoozeAlarm, DisableAlarm, EnableAlarm,
                EditAlarm, CancelAlarm, Has
  <2>1. WellFormed(a, old)
    BY <1>0, <2>0, Lookup
  <2>2. /\ old \in AlarmRecords
        /\ old.status \in {"active", "ringing", "dismissed", "canceled"}
        /\ old.due \in Times \cup {Nil} /\ old.at \in Times \cup {Nil}
        /\ old.status = "active" <=> old.due # Nil
        /\ old.every <=> old.at = Nil
    BY <2>1, AlarmFields
  <2> HIDE DEF old
  <2>3. ASSUME NEW statuses, Has(p, a, statuses) PROVE old.status \in statuses
    BY <2>3 DEF Has, old
  <2>4. ASSUME NEW rec, Update(p, a, rec),
               rec \in AlarmRecords =>
                 /\ rec.status = "active" <=> rec.due # Nil
                 /\ rec.every = old.every /\ rec.at = old.at
                 /\ \/ rec.round = NextRound(old)
                    \/ rec.round = old.round /\ (old.due = Nil => rec.due = Nil),
               Ended(old) => Ended(rec)
        PROVE  \E n : /\ WellFormed(a, n) /\ Advance(a, mem[p][a], n)
                      /\ Up(p) /\ Update(p, a, n)
    <3>1. rec \in AlarmRecords
      BY <1>0, <2>4 DEF Update, RecordsOf
    <3>2. Rank(rec) >= Rank(old)
      BY <2>1, <2>4, <3>1, RankRises
    <3>3. WellFormed(a, rec)
      BY <1>0, <2>2, <2>4, <3>1 DEF WellFormed, RecordsOf
    <3>4. Advance(a, mem[p][a], rec)
      BY <2>4, <3>2 DEF Advance, old
    <3> QED
      BY <2>0, <2>4, <3>3, <3>4
  <2>5. CASE DismissRecurring(p, a)
    <3> DEFINE rec == [old EXCEPT !.status = "active", !.due = Occurrence(clock),
                                  !.round = NextRound(old)]
    <3>1. Has(p, a, {"ringing"}) /\ Update(p, a, rec)
      BY <2>5 DEF DismissRecurring, old
    <3>2. /\ rec.status = "active" /\ rec.due = Occurrence(clock) /\ rec.round = NextRound(old)
          /\ rec.every = old.every /\ rec.at = old.at
      BY <2>2 DEF AlarmRecords
    <3>3. ~Ended(old)
      BY <2>3, <3>1 DEF Ended
    <3> HIDE DEF rec
    <3> QED
      BY <1>0, <2>4, <3>1, <3>2, <3>3, OccurrenceIsNumber
  <2>6. CASE DismissOneShot(p, a)
    <3> DEFINE rec == [old EXCEPT !.status = "dismissed", !.enabled = FALSE, !.due = Nil]
    <3>1. Has(p, a, {"ringing"}) /\ Update(p, a, rec)
      BY <2>6 DEF DismissOneShot, old
    <3>2. /\ rec.status = "dismissed" /\ rec.due = Nil /\ rec.round = old.round
          /\ rec.every = old.every /\ rec.at = old.at
      BY <2>2 DEF AlarmRecords
    <3>3. ~Ended(old)
      BY <2>3, <3>1 DEF Ended
    <3> HIDE DEF rec
    <3> QED
      BY <2>4, <3>1, <3>2, <3>3
  <2>7. CASE SnoozeAlarm(p, a)
    <3>1. PICK d \in Durations :
            Update(p, a, [old EXCEPT !.status = "active", !.enabled = TRUE, !.due = clock + d,
                                     !.round = NextRound(old)])
      BY <2>7 DEF SnoozeAlarm, old
    <3> DEFINE rec == [old EXCEPT !.status = "active", !.enabled = TRUE, !.due = clock + d,
                                  !.round = NextRound(old)]
    <3>2. /\ rec.status = "active" /\ rec.due = clock + d /\ rec.round = NextRound(old)
          /\ rec.every = old.every /\ rec.at = old.at
      BY <2>2 DEF AlarmRecords
    <3>3. clock + d # Nil
      BY <1>0, TimesAreNumbers, Zenon
    <3>4. ~Ended(old)
      BY <2>3, <2>7 DEF SnoozeAlarm, Ended
    <3>5. Update(p, a, rec)
      BY <3>1
    <3> HIDE DEF rec
    <3> QED
      BY <2>4, <3>2, <3>3, <3>4, <3>5
  <2>8. CASE DisableAlarm(p, a)
    <3> DEFINE rec == [old EXCEPT !.enabled = FALSE]
    <3>1. Has(p, a, {"active", "ringing"}) /\ Update(p, a, rec)
      BY <2>8 DEF DisableAlarm, old
    <3>2. /\ rec.status = old.status /\ rec.due = old.due /\ rec.round = old.round
          /\ rec.every = old.every /\ rec.at = old.at
      BY <2>2 DEF AlarmRecords
    <3>3. ~Ended(old)
      BY <2>3, <3>1 DEF Ended
    <3> HIDE DEF rec
    <3> QED
      BY <2>2, <2>4, <3>1, <3>2, <3>3
  <2>9. CASE EnableAlarm(p, a)
    <3> DEFINE due == IF old.due # Nil /\ old.due > clock THEN old.due
                      ELSE IF old.every THEN Occurrence(clock) ELSE old.at
               rec == [old EXCEPT !.status = "active", !.enabled = TRUE, !.due = due,
                                  !.round = NextRound(old)]
    <3>1. Has(p, a, {"active", "ringing"}) /\ Update(p, a, rec)
      BY <2>9 DEF EnableAlarm, old
    <3>2. due # Nil
      BY <1>0, <2>2, OccurrenceIsNumber
    <3> HIDE DEF due
    <3>3. /\ rec.status = "active" /\ rec.due = due /\ rec.round = NextRound(old)
          /\ rec.every = old.every /\ rec.at = old.at
      BY <2>2 DEF AlarmRecords
    <3>4. ~Ended(old)
      BY <2>3, <3>1 DEF Ended
    <3> HIDE DEF rec
    <3> QED
      BY <2>4, <3>1, <3>2, <3>3, <3>4
  <2>10. CASE EditAlarm(p, a)
    <3>1. PICK s \in Schedules : Update(p, a, Edited(old, s))
      BY <2>10 DEF EditAlarm, old
    <3>2. ~Ended(old)
      BY <2>3, <2>10 DEF EditAlarm, Ended
    <3>3. Edited(old, s) \in RecordsOf(a)
      BY <3>1 DEF Update
    <3>4. WellFormed(a, Edited(old, s)) /\ Advance(a, old, Edited(old, s))
      BY <2>1, <3>2, <3>3, EditForm
    <3> QED
      BY <2>0, <3>1, <3>4 DEF old
  <2>11. CASE CancelAlarm(p, a)
    <3> DEFINE rec == [old EXCEPT !.status = "canceled", !.enabled = FALSE, !.due = Nil]
    <3>1. Update(p, a, rec)
      BY <2>11 DEF CancelAlarm, old
    <3>2. /\ rec.status = "canceled" /\ rec.due = Nil /\ rec.round = old.round
          /\ rec.every = old.every /\ rec.at = old.at
      BY <2>2 DEF AlarmRecords
    <3> HIDE DEF rec
    <3>3. Ended(rec)
      <4>1. rec \in AlarmRecords
        BY <1>0, <3>1 DEF Update, RecordsOf
      <4> QED
        BY <3>2, <4>1, NilAssumption DEF Ended
    <3> QED
      BY <2>4, <3>1, <3>2, <3>3
  <2> QED
    BY <1>3, <2>5, <2>6, <2>7, <2>8, <2>9, <2>10, <2>11 DEF OnAlarm
<1> QED
  BY <1>2, <1>3

\* An operation of the service on the record r.
Operates(p, r, rec) ==
    /\ Up(p) /\ WellFormed(r, rec) /\ Advance(r, mem[p][r], rec)
    /\ \/ Save(p, [mem[p] EXCEPT ![r] = rec]) /\ Notify(p)
       \/ SaveFails(p, [mem[p] EXCEPT ![r] = rec]) /\ UNCHANGED <<woken, pc>>
    /\ UNCHANGED <<clock, target, todo, heard, stops>>

LEMMA RefusedForm ==
    ASSUME TimekeepingTypeOK, NEW p \in Procs, NEW a \in Alarms, EditRefused(p, a)
    PROVE  \E rec : Operates(p, a, rec)
<1>1. PICK s \in Schedules :
        /\ Edited(mem[p][a], s) \in RecordsOf(a)
        /\ SaveFails(p, [mem[p] EXCEPT ![a] = Edited(mem[p][a], s)])
  BY DEF EditRefused
<1>2. /\ Up(p) /\ mem[p][a] # Nil /\ ~Ended(mem[p][a])
      /\ UNCHANGED <<clock, pc, woken, target, todo, heard, stops>>
  BY DEF EditRefused, Has, Ended
<1>3. WellFormed(a, mem[p][a])
  BY <1>2, Lookup DEF Ids
<1>4. WellFormed(a, Edited(mem[p][a], s)) /\ Advance(a, mem[p][a], Edited(mem[p][a], s))
  BY <1>1, <1>2, <1>3, EditForm
<1>5. Operates(p, a, Edited(mem[p][a], s))
  BY <1>1, <1>2, <1>4 DEF Operates
<1> QED
  BY <1>5

LEMMA ChangeForm ==
    ASSUME NEW p, NEW r, NEW rec, Up(p), WellFormed(r, rec), Advance(r, mem[p][r], rec),
           Update(p, r, rec)
    PROVE  Operates(p, r, rec)
BY DEF Update, Operates

LEMMA Forms ==
    ASSUME TimekeepingTypeOK, TimeNext
    PROVE  \/ TimePasses
           \/ \E p \in Procs :
                \/ \E r \in Ids : \E rec : Operates(p, r, rec)
                \/ Worker(p) \/ Start(p) \/ Exit(p)
<1>1. ASSUME NEW p \in Procs, NEW t \in Timers, OnTimer(p, t)
      PROVE  \E r \in Ids : \E rec : Operates(p, r, rec)
  BY <1>1, TimerForm, ChangeForm DEF Ids
<1>2. ASSUME NEW p \in Procs, NEW a \in Alarms, OnAlarm(p, a)
      PROVE  \E r \in Ids : \E rec : Operates(p, r, rec)
  <2>1. CASE EditRefused(p, a)
    BY <2>1, RefusedForm DEF Ids
  <2>2. CASE ~EditRefused(p, a)
    BY <1>2, <2>2, AlarmForm, ChangeForm DEF Ids
  <2> QED
    BY <2>1, <2>2
<1> QED
  BY <1>1, <1>2 DEF TimeNext

-----------------------------------------------------------------------------
(* Tables and deadlines.                                                   *)

LEMMA TableChange ==
    ASSUME NEW table \in Tables, NEW r \in Ids, NEW rec, WellFormed(r, rec)
    PROVE  /\ [table EXCEPT ![r] = rec] \in Tables
           /\ [table EXCEPT ![r] = rec][r] = rec
           /\ \A i \in Ids : i # r => [table EXCEPT ![r] = rec][i] = table[i]
<1>1. rec \in TimerRecords \cup AlarmRecords
  BY DEF WellFormed, RecordsOf
<1> QED
  BY <1>1 DEF Tables

\* A nonempty set of numbers has a least element.
LEMMA LeastNumber ==
    ASSUME NEW S, S \subseteq Nat, S # {}
    PROVE  \E x \in S : \A y \in S : x <= y
<1> DEFINE R == OpToRel(<, Nat)
<1>1. IsWellFoundedOn(R, Nat)
  BY NatLessThanWellFounded
<1> HIDE DEF R
<1>2. PICK x \in S : \A y \in S : ~ (<<y, x>> \in R)
  BY <1>1, WFMin
<1>3. \A y \in S : ~ (y < x)
  BY <1>2 DEF R, OpToRel
<1> QED
  BY <1>2, <1>3

LEMMA ActiveDeadline ==
    ASSUME NEW table \in Tables, NEW r \in Ids, Active(table, r)
    PROVE  table[r].due \in Times
<1>1. WellFormed(r, table[r]) /\ table[r].status = "active"
  BY DEF Tables, Active
<1>2. r \in Timers \/ r \in Alarms
  BY DEF Ids
<1> QED
  BY <1>1, <1>2, TimerFields, AlarmFields

\* The nearest deadline is one.
LEMMA DeadlineType ==
    ASSUME NEW table \in Tables
    PROVE  NextDeadline(table) \in Times \cup {Nil}
<1> DEFINE S == {table[r].due : r \in {i \in Ids : Active(table, i)}}
<1>1. S \subseteq Times
  BY ActiveDeadline
<1>2. CASE ~ \E r \in Ids : Active(table, r)
  BY <1>2 DEF NextDeadline
<1>3. CASE \E r \in Ids : Active(table, r)
  <2>1. S # {} /\ S \subseteq Nat
    BY <1>1, <1>3, TimesAreNumbers
  <2> HIDE DEF S
  <2>2. PICK x \in S : \A y \in S : x <= y
    BY <2>1, LeastNumber
  <2>3. \A r \in Ids : Active(table, r) => x <= table[r].due
    BY <2>2 DEF S
  <2>4. NextDeadline(table) = CHOOSE due \in S : \A r \in Ids : Active(table, r) => due <= table[r].due
    BY <1>3 DEF NextDeadline, S
  <2>5. NextDeadline(table) \in S
    BY <2>2, <2>3, <2>4
  <2> QED
    BY <1>1, <2>5
<1> QED
  BY <1>2, <1>3

\* What was a record of r is still one, and has not come back.
KeptAt(r, old, rec) == old # Nil => rec # Nil /\ Advance(r, old, rec)

Kept(table, later) == \A r \in Ids : KeptAt(r, table[r], later[r])

LEMMA RankIsNumber ==
    ASSUME NEW table \in Tables, NEW a \in Alarms, table[a] # Nil
    PROVE  Rank(table[a]) \in Nat
<1>1. WellFormed(a, table[a])
  BY DEF Tables, Ids
<1>2. table[a].round \in Nat
  BY <1>1, AlarmFields, TimesAreNumbers
<1> QED
  BY <1>2 DEF Rank

LEMMA KeptItself ==
    ASSUME NEW table \in Tables
    PROVE  Kept(table, table)
<1>1. \A a \in Alarms : table[a] # Nil => Rank(table[a]) >= Rank(table[a])
  BY RankIsNumber
<1> QED
  BY <1>1 DEF Kept, KeptAt, Advance

LEMMA KeptAtFurther ==
    ASSUME NEW x \in Tables, NEW y \in Tables, NEW z \in Tables, NEW r \in Ids,
           KeptAt(r, x[r], y[r]), KeptAt(r, y[r], z[r])
    PROVE  KeptAt(r, x[r], z[r])
<1> SUFFICES ASSUME x[r] # Nil
             PROVE  z[r] # Nil /\ Advance(r, x[r], z[r])
  BY DEF KeptAt
<1>1. y[r] # Nil /\ z[r] # Nil /\ Advance(r, x[r], y[r]) /\ Advance(r, y[r], z[r])
  BY DEF KeptAt
<1>2. r \in Alarms => Rank(x[r]) \in Nat /\ Rank(y[r]) \in Nat /\ Rank(z[r]) \in Nat
  BY <1>1, RankIsNumber
<1> QED
  BY <1>1, <1>2 DEF Advance

LEMMA ChangeKeeps ==
    ASSUME NEW table \in Tables, NEW r \in Ids, NEW rec, WellFormed(r, rec),
           Advance(r, table[r], rec)
    PROVE  Kept(table, [table EXCEPT ![r] = rec])
<1>1. rec # Nil
  BY TimerFields, AlarmFields DEF Ids
<1>2. Kept(table, table)
  BY KeptItself
<1> QED
  BY <1>1, <1>2, TableChange DEF Kept, KeptAt

-----------------------------------------------------------------------------
(* Claims.                                                                 *)

LEMMA ClaimedFields ==
    ASSUME TimekeepingTypeOK, NEW p \in Procs, NEW r \in Ids, Elapsed(p, r)
    PROVE  /\ mem[p][r] # Nil /\ WellFormed(r, mem[p][r]) /\ mem[p][r].status = "active"
           /\ WellFormed(r, Claimed(p)[r])
           /\ Claimed(p)[r].due = Nil
           /\ r \in Timers => Claimed(p)[r].status = "fired"
           /\ r \in Alarms => Claimed(p)[r].round = mem[p][r].round
<1> DEFINE old == mem[p][r]
           rec == [old EXCEPT !.status = IF r \in Timers THEN "fired" ELSE "ringing", !.due = Nil]
<1>1. old # Nil /\ old.status = "active" /\ WellFormed(r, old)
  BY Lookup DEF Elapsed, Active
<1>2. Claimed(p)[r] = rec
  BY DEF Claimed
<1> HIDE DEF old
<1>3. CASE r \in Timers
  <2>1. old \in TimerRecords /\ old.left \in Times \cup {Nil}
        /\ (old.status = "paused" <=> old.left # Nil)
    BY <1>1, <1>3, TimerFields
  <2>2. rec.status = "fired" /\ rec.due = Nil /\ rec.left = old.left /\ rec \in TimerRecords
    BY <1>3, <2>1 DEF TimerRecords
  <2> HIDE DEF rec
  <2> QED
    BY <1>1, <1>2, <1>3, <2>1, <2>2, TimekeepingAssumption DEF WellFormed, RecordsOf, old
<1>4. CASE r \in Alarms
  <2>0. r \notin Timers
    BY <1>4, TimekeepingAssumption
  <2>1. old \in AlarmRecords /\ (old.every <=> old.at = Nil)
    BY <1>1, <1>4, AlarmFields
  <2>2. /\ rec.status = "ringing" /\ rec.due = Nil /\ rec.round = old.round
        /\ rec.every = old.every /\ rec.at = old.at /\ rec \in AlarmRecords
    BY <2>0, <2>1 DEF AlarmRecords
  <2> HIDE DEF rec
  <2> QED
    BY <1>1, <1>2, <1>4, <2>0, <2>1, <2>2 DEF WellFormed, RecordsOf, old
<1> QED
  BY <1>3, <1>4 DEF Ids

LEMMA ClaimedTable ==
    ASSUME TimekeepingTypeOK, NEW p \in Procs
    PROVE  Claimed(p) \in Tables /\ Kept(mem[p], Claimed(p))
<1>0. mem[p] \in Tables
  BY DEF TimekeepingTypeOK
<1>1. \A r \in Ids : Claimed(p)[r] = Nil \/ WellFormed(r, Claimed(p)[r])
  <2> SUFFICES ASSUME NEW r \in Ids PROVE Claimed(p)[r] = Nil \/ WellFormed(r, Claimed(p)[r])
    OBVIOUS
  <2>1. CASE Elapsed(p, r)
    BY <2>1, ClaimedFields
  <2>2. CASE ~Elapsed(p, r)
    <3>1. Claimed(p)[r] = mem[p][r]
      BY <2>2 DEF Claimed
    <3> QED
      BY <1>0, <3>1 DEF Tables
  <2> QED
    BY <2>1, <2>2
<1>2. \A r \in Ids : Claimed(p)[r] \in TimerRecords \cup AlarmRecords \cup {Nil}
  BY <1>1 DEF WellFormed, RecordsOf
<1>3. Claimed(p) = [r \in Ids |-> Claimed(p)[r]]
  BY DEF Claimed
<1> HIDE DEF Claimed
<1>4. Claimed(p) \in [Ids -> TimerRecords \cup AlarmRecords \cup {Nil}]
  BY <1>2, <1>3
<1>5. Claimed(p) \in Tables
  BY <1>1, <1>4 DEF Tables
<1>6. ASSUME NEW r \in Ids, mem[p][r] # Nil
      PROVE  Claimed(p)[r] # Nil /\ Advance(r, mem[p][r], Claimed(p)[r])
  <2>1. CASE ~Elapsed(p, r)
    <3>1. Claimed(p)[r] = mem[p][r]
      BY <2>1 DEF Claimed
    <3>2. Advance(r, mem[p][r], mem[p][r])
      BY <1>0, <1>6, KeptItself DEF Kept, KeptAt
    <3> QED
      BY <1>6, <3>1, <3>2
  <2>2. CASE Elapsed(p, r)
    <3>1. Claimed(p)[r] # Nil
      BY <2>2, ClaimedFields, TimerFields, AlarmFields DEF Ids
    <3>2. ~Ended(mem[p][r])
      BY <2>2, ClaimedFields DEF Ended
    <3>3. r \in Alarms => Rank(Claimed(p)[r]) >= Rank(mem[p][r])
      <4> HAVE r \in Alarms
      <4>1. Claimed(p)[r] \in AlarmRecords
        BY <2>2, ClaimedFields, AlarmFields
      <4> QED
        BY <2>2, <4>1, ClaimedFields, RankRises
    <3> QED
      BY <3>1, <3>2, <3>3 DEF Advance
  <2> QED
    BY <2>1, <2>2
<1> QED
  BY <1>5, <1>6 DEF Kept, KeptAt

LEMMA EventType ==
    ASSUME TimekeepingTypeOK, NEW p \in Procs, NEW r \in Ids, Elapsed(p, r)
    PROVE  EventOf(p, r) \in Events
<1>1. 1 \in Rounds
  BY TimekeepingAssumption DEF Rounds
<1>2. r \notin Timers => mem[p][r].round \in Rounds
  BY ClaimedFields, AlarmFields DEF Ids
<1> QED
  BY <1>1, <1>2 DEF EventOf, Events

-----------------------------------------------------------------------------
(* Types.                                                                  *)

LEMMA SaveHistory ==
    ASSUME TimekeepingTypeOK, NEW p \in Procs, NEW table, Save(p, table) \/ SaveFails(p, table)
    PROVE  behind' \subseteq Procs \X Ids /\ overrun' \subseteq Ids
BY DEF Save, SaveFails, Writes, OthersBehind, TimekeepingTypeOK

LEMMA OperationTypes ==
    ASSUME TimekeepingTypeOK, NEW p \in Procs, NEW r \in Ids, NEW rec, Operates(p, r, rec)
    PROVE  TimekeepingTypeOK'
<1> DEFINE table == [mem[p] EXCEPT ![r] = rec]
<1>1. table \in Tables
  BY TableChange DEF Operates, TimekeepingTypeOK
<1> HIDE DEF table
<1>0. behind' \subseteq Procs \X Ids /\ overrun' \subseteq Ids
  BY SaveHistory DEF Operates
<1>2. /\ mem' = [mem EXCEPT ![p] = table]
      /\ disk' \in {disk, table}
      /\ dirty' \in {[dirty EXCEPT ![p] = FALSE], [dirty EXCEPT ![p] = TRUE]}
      /\ faults' \in 0..MaxFaults
      /\ woken' \in {woken, [woken EXCEPT ![p] = TRUE]}
      /\ pc' \in {pc, [pc EXCEPT ![p] = "notified"]}
      /\ UNCHANGED <<clock, target, todo, heard, stops>>
  BY TimekeepingAssumption
  DEF Operates, Save, SaveFails, Writes, Notify, TimekeepingTypeOK, table
<1> QED
  BY <1>0, <1>1, <1>2 DEF TimekeepingTypeOK

LEMMA WorkerTypes ==
    ASSUME TimekeepingTypeOK, NEW p \in Procs, Worker(p)
    PROVE  TimekeepingTypeOK'
<1> DEFINE events == {EventOf(p, r) : r \in {i \in Ids : Elapsed(p, i)}}
<1>1. events \subseteq Events
  BY EventType
<1>2. Claimed(p) \in Tables
  BY ClaimedTable
<1>3. NextDeadline(mem[p]) \in Times \cup {Nil}
  BY DeadlineType DEF TimekeepingTypeOK
<1>4. CASE NothingDue(p)
  BY <1>4 DEF NothingDue, TimekeepingTypeOK
<1>5. CASE Claim(p)
  <2>1. /\ mem' = [mem EXCEPT ![p] = Claimed(p)] /\ disk' = Claimed(p)
        /\ dirty' = [dirty EXCEPT ![p] = FALSE] /\ woken' = [woken EXCEPT ![p] = TRUE]
        /\ todo' = [todo EXCEPT ![p] = events] /\ pc' = [pc EXCEPT ![p] = "deliver"]
        /\ UNCHANGED <<clock, target, heard, faults, stops>>
    BY <1>5 DEF Claim, Save, Writes
  <2>2. behind' \subseteq Procs \X Ids /\ overrun' \subseteq Ids
    BY <1>5, SaveHistory DEF Claim
  <2> HIDE DEF events
  <2> QED
    BY <1>1, <1>2, <2>1, <2>2 DEF TimekeepingTypeOK
<1>6. CASE ClaimFails(p)
  <2>1. /\ mem' = [mem EXCEPT ![p] = Claimed(p)] /\ disk' = disk
        /\ dirty' = [dirty EXCEPT ![p] = TRUE] /\ faults' \in 0..MaxFaults
        /\ pc' = [pc EXCEPT ![p] = "dead"]
        /\ UNCHANGED <<clock, woken, target, todo, heard, stops>>
    BY <1>6, TimekeepingAssumption DEF ClaimFails, SaveFails, TimekeepingTypeOK
  <2>2. behind' \subseteq Procs \X Ids /\ overrun' \subseteq Ids
    BY <1>6, SaveHistory DEF ClaimFails
  <2> QED
    BY <1>2, <2>1, <2>2 DEF TimekeepingTypeOK
<1>7. ASSUME NEW e \in Events, Deliver(p, e) PROVE TimekeepingTypeOK'
  <2>1. heard' \in [Events -> 0..2]
    BY <1>7 DEF Deliver, TimekeepingTypeOK
  <2>2. todo' \in [Procs -> SUBSET Events]
    BY <1>7 DEF Deliver, TimekeepingTypeOK
  <2> QED
    BY <1>7, <2>1, <2>2 DEF Deliver, TimekeepingTypeOK
<1>8. CASE Plan(p)
  BY <1>3, <1>8 DEF Plan, TimekeepingTypeOK
<1>9. CASE NoWait(p) \/ Park(p) \/ Wake(p)
  BY <1>9 DEF NoWait, Park, Wake, LoopAgain, TimekeepingTypeOK
<1> QED
  BY <1>4, <1>5, <1>6, <1>7, <1>8, <1>9 DEF Worker

LEMMA EmptyTable == Empty \in Tables
BY DEF Empty, Tables

LEMMA TypeStep ==
    ASSUME TimekeepingTypeOK, [TimeNext]_timeVars
    PROVE  TimekeepingTypeOK'
<1>1. CASE TimePasses
  BY <1>1, TimekeepingAssumption DEF TimePasses, TimekeepingTypeOK
<1>2. ASSUME NEW p \in Procs, Start(p) PROVE TimekeepingTypeOK'
  BY <1>2 DEF Start, OthersBehind, TimekeepingTypeOK
<1>3. ASSUME NEW p \in Procs, Exit(p) PROVE TimekeepingTypeOK'
  <2>1. stops' \in 0..MaxStops
    BY <1>3, TimekeepingAssumption DEF Exit, TimekeepingTypeOK
  <2> QED
    BY <1>3, <2>1, EmptyTable DEF Exit, OthersBehind, TimekeepingTypeOK
<1>4. CASE UNCHANGED timeVars
  BY <1>4 DEF timeVars, TimekeepingTypeOK
<1> QED
  BY <1>1, <1>2, <1>3, <1>4, Forms, OperationTypes, WorkerTypes

LEMMA TypeInit ==
    ASSUME TimeInit
    PROVE  TimekeepingTypeOK
BY EmptyTable, TimekeepingAssumption DEF TimeInit, TimekeepingTypeOK

(* Types and well-formed records, for any processes, timers and alarms: in *)
(* particular what is active has a deadline and nothing else has one.      *)
THEOREM TimekeepingTypesHold == TimeSpec => []TimekeepingTypeOK
<1>1. TimekeepingTypeOK /\ [TimeNext]_timeVars => TimekeepingTypeOK'
  BY TypeStep
<1> QED
  BY <1>1, TypeInit, PTL DEF TimeSpec

-----------------------------------------------------------------------------
(* No wake-up is lost.                                                     *)

\* A worker that has looked at the deadlines, and was not woken since, has
\* seen the nearest one; and it does not wait after it was woken.
Alert ==
    \A p \in Procs :
        /\ pc[p] \in {"park", "wait"} /\ ~woken[p] /\ ~dirty[p] => target[p] = NextDeadline(mem[p])
        /\ pc[p] = "wait" => ~woken[p]

LEMMA AlertAlone ==
    ASSUME Alert, NEW p \in Procs,
           \A q \in Procs : q # p => /\ pc'[q] = pc[q] /\ woken'[q] = woken[q]
                                     /\ dirty'[q] = dirty[q] /\ target'[q] = target[q]
                                     /\ mem'[q] = mem[q],
           \/ pc'[p] \notin {"park", "wait"}
           \/ pc'[p] # "wait" /\ (woken'[p] \/ dirty'[p])
           \/ pc'[p] = "wait" /\ ~woken'[p] /\ dirty'[p]
           \/ pc'[p] # "wait" /\ target'[p] = NextDeadline(mem'[p])
           \/ ~woken'[p] /\ target'[p] = NextDeadline(mem'[p])
    PROVE  Alert'
<1>1. \A q \in Procs : q # p =>
        /\ pc'[q] \in {"park", "wait"} /\ ~woken'[q] /\ ~dirty'[q] => target'[q] = NextDeadline(mem'[q])
        /\ pc'[q] = "wait" => ~woken'[q]
  BY DEF Alert
<1> QED
  BY <1>1 DEF Alert

LEMMA AlertStep ==
    ASSUME TimekeepingTypeOK, Alert, [TimeNext]_timeVars
    PROVE  Alert'
<1>0. /\ pc \in [Procs -> {"down", "claim", "deliver", "plan", "park", "wait", "notified", "dead"}]
      /\ woken \in [Procs -> BOOLEAN] /\ dirty \in [Procs -> BOOLEAN]
      /\ target \in [Procs -> Times \cup {Nil}] /\ mem \in [Procs -> Tables]
  BY DEF TimekeepingTypeOK
<1>1. ASSUME NEW p \in Procs, NEW r \in Ids, NEW rec, Operates(p, r, rec)
      PROVE  Alert'
  <2> DEFINE table == [mem[p] EXCEPT ![r] = rec]
  <2> HIDE DEF table
  <2>1. CASE Save(p, table) /\ Notify(p) /\ UNCHANGED target
    <3>1. /\ mem' = [mem EXCEPT ![p] = table] /\ dirty' = [dirty EXCEPT ![p] = FALSE]
          /\ woken' = [woken EXCEPT ![p] = TRUE]
          /\ pc' = IF pc[p] = "wait" THEN [pc EXCEPT ![p] = "notified"] ELSE pc
      BY <2>1 DEF Save, Notify
    <3>2. woken'[p] /\ pc'[p] # "wait"
      BY <1>0, <3>1
    <3>3. \A q \in Procs : q # p => /\ pc'[q] = pc[q] /\ woken'[q] = woken[q]
                                    /\ dirty'[q] = dirty[q] /\ target'[q] = target[q]
                                    /\ mem'[q] = mem[q]
      BY <1>0, <2>1, <3>1
    <3> QED
      BY <3>2, <3>3, AlertAlone
  <2>2. CASE SaveFails(p, table) /\ UNCHANGED <<woken, pc, target>>
    <3>1. mem' = [mem EXCEPT ![p] = table] /\ dirty' = [dirty EXCEPT ![p] = TRUE]
      BY <2>2 DEF SaveFails
    <3>2. dirty'[p] /\ (pc'[p] = "wait" => ~woken'[p])
      BY <1>0, <2>2, <3>1 DEF Alert
    <3>3. \A q \in Procs : q # p => /\ pc'[q] = pc[q] /\ woken'[q] = woken[q]
                                    /\ dirty'[q] = dirty[q] /\ target'[q] = target[q]
                                    /\ mem'[q] = mem[q]
      BY <1>0, <2>2, <3>1
    <3> QED
      BY <3>2, <3>3, AlertAlone
  <2> QED
    BY <1>1, <2>1, <2>2 DEF Operates, table
<1>2. ASSUME NEW p \in Procs, Worker(p)
      PROVE  Alert'
  <2>1. CASE NothingDue(p) \/ Claim(p) \/ ClaimFails(p) \/ (\E e \in Events : Deliver(p, e))
    <3>1. pc'[p] \notin {"park", "wait"}
      BY <1>0, <2>1 DEF NothingDue, Claim, ClaimFails, Deliver
    <3>2. \A q \in Procs : q # p => /\ pc'[q] = pc[q] /\ woken'[q] = woken[q]
                                    /\ dirty'[q] = dirty[q] /\ target'[q] = target[q]
                                    /\ mem'[q] = mem[q]
      BY <1>0, <2>1 DEF NothingDue, Claim, ClaimFails, Deliver, Save, SaveFails
    <3> QED
      BY <3>1, <3>2, AlertAlone
  <2>2. CASE Plan(p)
    <3>1. pc'[p] # "wait" /\ target'[p] = NextDeadline(mem'[p])
      BY <1>0, <2>2 DEF Plan
    <3>2. \A q \in Procs : q # p => /\ pc'[q] = pc[q] /\ woken'[q] = woken[q]
                                    /\ dirty'[q] = dirty[q] /\ target'[q] = target[q]
                                    /\ mem'[q] = mem[q]
      BY <1>0, <2>2 DEF Plan
    <3> QED
      BY <3>1, <3>2, AlertAlone
  <2>3. CASE Park(p)
    <3>1. /\ ~woken'[p] /\ (dirty'[p] \/ target'[p] = NextDeadline(mem'[p]))
          /\ pc'[p] = "wait"
      BY <1>0, <2>3 DEF Park, Alert
    <3>2. \A q \in Procs : q # p => /\ pc'[q] = pc[q] /\ woken'[q] = woken[q]
                                    /\ dirty'[q] = dirty[q] /\ target'[q] = target[q]
                                    /\ mem'[q] = mem[q]
      BY <1>0, <2>3 DEF Park
    <3> QED
      BY <3>1, <3>2, AlertAlone
  <2>4. CASE NoWait(p) \/ Wake(p)
    <3>1. pc'[p] \notin {"park", "wait"}
      BY <1>0, <2>4 DEF NoWait, Wake, LoopAgain
    <3>2. \A q \in Procs : q # p => /\ pc'[q] = pc[q] /\ woken'[q] = woken[q]
                                    /\ dirty'[q] = dirty[q] /\ target'[q] = target[q]
                                    /\ mem'[q] = mem[q]
      BY <1>0, <2>4 DEF NoWait, Wake, LoopAgain
    <3> QED
      BY <3>1, <3>2, AlertAlone
  <2> QED
    BY <1>2, <2>1, <2>2, <2>3, <2>4 DEF Worker
<1>3. ASSUME NEW p \in Procs, Start(p) \/ Exit(p)
      PROVE  Alert'
  <2>1. pc'[p] \notin {"park", "wait"}
    BY <1>0, <1>3 DEF Start, Exit
  <2>2. \A q \in Procs : q # p => /\ pc'[q] = pc[q] /\ woken'[q] = woken[q]
                                  /\ dirty'[q] = dirty[q] /\ target'[q] = target[q]
                                  /\ mem'[q] = mem[q]
    BY <1>0, <1>3 DEF Start, Exit
  <2> QED
    BY <2>1, <2>2, AlertAlone
<1>4. CASE TimePasses \/ UNCHANGED timeVars
  BY <1>4 DEF TimePasses, timeVars, Alert
<1> QED
  BY <1>1, <1>2, <1>3, <1>4, Forms

(* No wake-up of a deadline worker is lost, for any number of processes,   *)
(* operations, failed saves and restarts.                                  *)
THEOREM NoLostWakeup == TimeSpec => []SleepsUntilNext
<1>1. TimeInit => Alert
  BY DEF TimeInit, Alert
<1>2. TimekeepingTypeOK /\ Alert /\ [TimeNext]_timeVars => Alert'
  BY AlertStep
<1>3. Alert => SleepsUntilNext
  BY DEF Alert, SleepsUntilNext
<1> QED
  BY <1>1, <1>2, <1>3, TimekeepingTypesHold, PTL DEF TimeSpec

-----------------------------------------------------------------------------
(* Several processes over one file.                                        *)

\* Where a process is not behind, what it knows is no older than the file.
Fresh ==
    \A p \in Procs, r \in Ids :
        Up(p) /\ <<p, r>> \notin behind => KeptAt(r, disk[r], mem[p][r])

\* What the file says is kept but for what a process overran.
FileKept == \A r \in Ids : r \in overrun' \/ KeptAt(r, disk[r], disk'[r])

\* How a step may change the file and the memory of a process.
Saves(p, table) == mem' = [mem EXCEPT ![p] = table] /\ Writes(p, table)
Differs(p, table) == mem' = [mem EXCEPT ![p] = table] /\ UNCHANGED <<disk, behind, overrun>>

Grows(p) ==
    /\ Up(p) /\ \A q \in Procs : Up(q)' => Up(q)
    /\ \E table \in Tables : Kept(mem[p], table) /\ (Saves(p, table) \/ Differs(p, table))

Still ==
    /\ UNCHANGED <<disk, behind, overrun, mem>>
    /\ \A p \in Procs : Up(p)' => Up(p)

\* A step of a process that is up, and neither starts nor ends one.
LEMMA NobodyStarts ==
    ASSUME TimekeepingTypeOK, NEW p \in Procs, Up(p), \A q \in Procs : q # p => pc'[q] = pc[q]
    PROVE  \A q \in Procs : Up(q)' => Up(q)
BY DEF Up

LEMMA OperationGrows ==
    ASSUME TimekeepingTypeOK, NEW p \in Procs, NEW r \in Ids, NEW rec, Operates(p, r, rec)
    PROVE  Grows(p)
<1> DEFINE table == [mem[p] EXCEPT ![r] = rec]
<1>0. mem[p] \in Tables
      /\ pc \in [Procs -> {"down", "claim", "deliver", "plan", "park", "wait", "notified", "dead"}]
  BY DEF TimekeepingTypeOK
<1>1. table \in Tables /\ Kept(mem[p], table)
  BY <1>0, TableChange, ChangeKeeps DEF Operates
<1>2. Saves(p, table) \/ Differs(p, table)
  BY DEF Operates, Save, SaveFails, Saves, Differs
<1>3. Up(p) /\ \A q \in Procs : q # p => pc'[q] = pc[q]
  BY <1>0 DEF Operates, Notify
<1>4. \A q \in Procs : Up(q)' => Up(q)
  BY <1>3, NobodyStarts
<1> HIDE DEF table
<1> QED
  BY <1>1, <1>2, <1>3, <1>4 DEF Grows

LEMMA WorkerGrows ==
    ASSUME TimekeepingTypeOK, NEW p \in Procs, Worker(p)
    PROVE  Grows(p) \/ Still
<1>0. pc \in [Procs -> {"down", "claim", "deliver", "plan", "park", "wait", "notified", "dead"}]
  BY DEF TimekeepingTypeOK
<1>1. Up(p) /\ \A q \in Procs : q # p => pc'[q] = pc[q]
  BY <1>0 DEF Worker, NothingDue, Claim, ClaimFails, Deliver, Plan, NoWait, Park, Wake, LoopAgain, Up
<1>2. \A q \in Procs : Up(q)' => Up(q)
  BY <1>1, NobodyStarts
<1>3. CASE Claim(p) \/ ClaimFails(p)
  <2>1. Saves(p, Claimed(p)) \/ Differs(p, Claimed(p))
    BY <1>3 DEF Claim, ClaimFails, Save, SaveFails, Saves, Differs
  <2> QED
    BY <1>1, <1>2, <2>1, ClaimedTable DEF Grows
<1>4. CASE \/ NothingDue(p) \/ (\E e \in Events : Deliver(p, e))
           \/ Plan(p) \/ NoWait(p) \/ Park(p) \/ Wake(p)
  BY <1>2, <1>4 DEF NothingDue, Deliver, Plan, NoWait, Park, Wake, Still
<1> QED
  BY <1>3, <1>4 DEF Worker

LEMMA StoreForms ==
    ASSUME TimekeepingTypeOK, [TimeNext]_timeVars
    PROVE  \/ Still
           \/ \E p \in Procs : Grows(p) \/ Start(p) \/ Exit(p)
<1>1. CASE TimePasses \/ UNCHANGED timeVars
  BY <1>1 DEF TimePasses, timeVars, Still, Up
<1> QED
  BY <1>1, Forms, OperationGrows, WorkerGrows

\* A process writes its table: it overruns what it was behind of.
LEMMA SaveKeeps ==
    ASSUME TimekeepingTypeOK, Fresh, NEW p \in Procs, Up(p), \A q \in Procs : Up(q)' => Up(q),
           NEW table \in Tables, Kept(mem[p], table), Saves(p, table)
    PROVE  Fresh' /\ FileKept
<1>0. disk \in Tables /\ mem \in [Procs -> Tables] /\ behind \subseteq Procs \X Ids
  BY DEF TimekeepingTypeOK
<1>1. disk' = table /\ mem' = [mem EXCEPT ![p] = table]
  BY DEF Saves, Writes
<1>2. Fresh'
  <2> SUFFICES ASSUME NEW q \in Procs, NEW r \in Ids, Up(q)', <<q, r>> \notin behind'
               PROVE  KeptAt(r, disk'[r], mem'[q][r])
    BY DEF Fresh, Up
  <2>1. CASE q = p
    <3>1. mem'[q][r] = table[r]
      BY <1>0, <1>1, <2>1
    <3> QED
      BY <1>1, <3>1, KeptItself DEF Kept
  <2>2. CASE q # p
    <3>1. <<q, r>> \notin behind /\ table[r] = disk[r] /\ Up(q)
      BY <2>2 DEF Saves, Writes, OthersBehind
    <3>2. mem'[q][r] = mem[q][r]
      BY <1>0, <1>1, <2>2
    <3> QED
      BY <1>1, <3>1, <3>2 DEF Fresh
  <2> QED
    BY <2>1, <2>2
<1>3. FileKept
  <2> SUFFICES ASSUME NEW r \in Ids, r \notin overrun'
               PROVE  KeptAt(r, disk[r], table[r])
    BY <1>1 DEF FileKept
  <2>1. CASE <<p, r>> \in behind
    <3>1. table[r] = disk[r]
      BY <2>1 DEF Saves, Writes
    <3> QED
      BY <1>0, <3>1, KeptItself DEF Kept
  <2>2. CASE <<p, r>> \notin behind
    <3>1. KeptAt(r, disk[r], mem[p][r]) /\ KeptAt(r, mem[p][r], table[r])
      BY <2>2 DEF Fresh, Kept
    <3> QED
      BY <1>0, <3>1, KeptAtFurther
  <2> QED
    BY <2>1, <2>2
<1> QED
  BY <1>2, <1>3

LEMMA FreshStep ==
    ASSUME TimekeepingTypeOK, Fresh, [TimeNext]_timeVars
    PROVE  Fresh' /\ FileKept
<1>0. /\ disk \in Tables /\ mem \in [Procs -> Tables] /\ behind \subseteq Procs \X Ids
      /\ pc \in [Procs -> {"down", "claim", "deliver", "plan", "park", "wait", "notified", "dead"}]
  BY DEF TimekeepingTypeOK
<1>1. disk' = disk => FileKept
  <2>1. \A r \in Ids : KeptAt(r, disk[r], disk[r])
    BY <1>0, KeptItself DEF Kept
  <2> QED
    BY <2>1 DEF FileKept
<1>2. CASE Still
  BY <1>1, <1>2 DEF Still, Fresh
<1>3. ASSUME NEW p \in Procs, Grows(p) PROVE Fresh' /\ FileKept
  <2>1. PICK table \in Tables : Kept(mem[p], table) /\ (Saves(p, table) \/ Differs(p, table))
    BY <1>3 DEF Grows
  <2>2. Up(p) /\ \A q \in Procs : Up(q)' => Up(q)
    BY <1>3 DEF Grows
  <2>3. CASE Saves(p, table)
    BY <2>1, <2>2, <2>3, SaveKeeps
  <2>4. CASE Differs(p, table)
    <3> SUFFICES ASSUME NEW q \in Procs, NEW r \in Ids, Up(q)', <<q, r>> \notin behind
                 PROVE  KeptAt(r, disk[r], mem'[q][r])
      BY <1>1, <2>4 DEF Differs, Fresh
    <3>1. Up(q) /\ KeptAt(r, disk[r], mem[q][r])
      BY <2>2 DEF Fresh
    <3>2. CASE q # p
      BY <1>0, <2>4, <3>1, <3>2 DEF Differs
    <3>3. CASE q = p
      <4>1. mem'[q][r] = table[r] /\ KeptAt(r, mem[q][r], table[r])
        BY <1>0, <2>1, <2>4, <3>3 DEF Differs, Kept
      <4> QED
        BY <1>0, <3>1, <4>1, KeptAtFurther
    <3> QED
      BY <3>2, <3>3
  <2> QED
    BY <2>1, <2>3, <2>4
<1>4. ASSUME NEW p \in Procs, Start(p) \/ Exit(p) PROVE Fresh' /\ FileKept
  <2>1. /\ disk' = disk /\ behind' = OthersBehind(p)
        /\ mem'[p] = disk \/ ~Up(p)'
        /\ \A q \in Procs : q # p => mem'[q] = mem[q] /\ pc'[q] = pc[q]
    BY <1>0, <1>4 DEF Start, Exit, Up
  <2> SUFFICES ASSUME NEW q \in Procs, NEW r \in Ids, Up(q)', <<q, r>> \notin behind'
               PROVE  KeptAt(r, disk[r], mem'[q][r])
    BY <1>1, <2>1 DEF Fresh
  <2>2. CASE q = p
    <3>1. mem'[q] = disk
      BY <2>1, <2>2
    <3> QED
      BY <1>0, <3>1, KeptItself DEF Kept
  <2>3. CASE q # p
    <3>1. <<q, r>> \notin behind /\ Up(q) /\ mem'[q] = mem[q]
      BY <2>1, <2>3 DEF OthersBehind, Up
    <3> QED
      BY <3>1 DEF Fresh
  <2> QED
    BY <2>2, <2>3
<1> QED
  BY <1>2, <1>3, <1>4, StoreForms

LEMMA FreshInit ==
    ASSUME TimeInit
    PROVE  Fresh
BY DEF TimeInit, Fresh, Up

(* Any number of processes: a record that was saved disappears from the    *)
(* file, or comes back to life, only if a process that had not seen what   *)
(* another one wrote of it has changed it or written over it; whatever     *)
(* fails and whenever a process ends.                                      *)
THEOREM SavedForGood == TimeSpec => SavedIsKept
<1>1. TimekeepingTypeOK /\ Fresh /\ [TimeNext]_timeVars => Fresh'
  BY FreshStep
<1>2. TimekeepingTypeOK /\ Fresh /\ [TimeNext]_timeVars
        => [\A r \in Ids : disk[r] # Nil =>
              \/ r \in overrun'
              \/ disk'[r] # Nil /\ (Ended(disk[r]) => Ended(disk'[r]))]_timeVars
  BY FreshStep DEF FileKept, KeptAt, Advance
<1> QED
  BY <1>1, <1>2, FreshInit, TimekeepingTypesHold, PTL DEF TimeSpec, SavedIsKept

-----------------------------------------------------------------------------
(* Announcements.                                                          *)

\* The table knows that r has rung for the k-th time.
Rung(r, k, table) ==
    /\ table[r] # Nil
    /\ IF r \in Timers THEN Ended(table[r]) ELSE Rank(table[r]) >= 2 * k + 1

\* What was handed over, or is about to be, is on disk as rung, and only one
\* process is about to.
RecordedAt(r, k) ==
    /\ heard[<<r, k>>] <= 1
    /\ heard[<<r, k>>] > 0 => Rung(r, k, disk)
    /\ \A p \in Procs : <<r, k>> \in todo[p] => heard[<<r, k>>] = 0 /\ Rung(r, k, disk)
    /\ \A p, q \in Procs : <<r, k>> \in todo[p] /\ <<r, k>> \in todo[q] => p = q

Recorded == \A r \in Ids, k \in Rounds : r \in overrun \/ RecordedAt(r, k)

LEMMA RungKept ==
    ASSUME NEW x \in Tables, NEW y \in Tables, NEW r \in Ids, KeptAt(r, x[r], y[r]),
           NEW k \in Rounds, Rung(r, k, x)
    PROVE  Rung(r, k, y)
<1>1. x[r] # Nil /\ y[r] # Nil /\ Advance(r, x[r], y[r])
  BY DEF Rung, KeptAt
<1>2. CASE r \in Timers
  BY <1>1, <1>2 DEF Rung, Advance
<1>3. CASE r \notin Timers
  <2>1. r \in Alarms /\ k \in Nat
    BY <1>3, TimesAreNumbers DEF Ids
  <2>2. Rank(x[r]) \in Nat /\ Rank(y[r]) \in Nat
    BY <1>1, <2>1, RankIsNumber
  <2> QED
    BY <1>1, <1>3, <2>1, <2>2 DEF Rung, Advance
<1> QED
  BY <1>2, <1>3

\* What is due has not rung, and has once it is claimed.
LEMMA DueHasNotRung ==
    ASSUME TimekeepingTypeOK, NEW p \in Procs, NEW r \in Ids, NEW k \in Rounds, Elapsed(p, r),
           EventOf(p, r) = <<r, k>>
    PROVE  ~Rung(r, k, mem[p]) /\ Rung(r, k, Claimed(p))
<1>0. k \in Nat
  BY TimesAreNumbers
<1>1. CASE r \in Timers
  <2>1. ~Ended(mem[p][r]) /\ Claimed(p)[r] # Nil /\ Claimed(p)[r].status = "fired"
    BY <1>1, ClaimedFields, TimerFields DEF Ended
  <2> QED
    BY <1>1, <2>1 DEF Rung, Ended
<1>2. CASE r \in Alarms
  <2>0. r \notin Timers
    BY <1>2, TimekeepingAssumption
  <2>1. /\ mem[p][r].round = k /\ mem[p][r].due # Nil
        /\ Claimed(p)[r] # Nil /\ Claimed(p)[r].round = k /\ Claimed(p)[r].due = Nil
    BY <1>2, <2>0, ClaimedFields, AlarmFields DEF EventOf
  <2>2. Rank(mem[p][r]) = 2 * k /\ Rank(Claimed(p)[r]) = 2 * k + 1
    BY <1>0, <2>1 DEF Rank
  <2> QED
    BY <1>0, <2>0, <2>1, <2>2 DEF Rung
<1> QED
  BY <1>1, <1>2 DEF Ids

\* What was overrun stays so.
LEMMA OverrunStays ==
    ASSUME TimekeepingTypeOK, [TimeNext]_timeVars
    PROVE  overrun \subseteq overrun'
<1>1. CASE Still
  BY <1>1 DEF Still
<1>2. ASSUME NEW p \in Procs, Grows(p) \/ Start(p) \/ Exit(p) PROVE overrun \subseteq overrun'
  BY <1>2 DEF Grows, Saves, Differs, Writes, Start, Exit
<1> QED
  BY <1>1, <1>2, StoreForms

LEMMA RecordedQuietly ==
    ASSUME TimekeepingTypeOK, TimekeepingTypeOK', Recorded, FileKept, overrun \subseteq overrun',
           heard' = heard, \A p \in Procs : todo'[p] \subseteq todo[p]
    PROVE  Recorded'
<1> SUFFICES ASSUME NEW r \in Ids, NEW k \in Rounds, r \notin overrun'
             PROVE  RecordedAt(r, k)'
  BY DEF Recorded
<1>1. disk \in Tables /\ disk' \in Tables
  BY DEF TimekeepingTypeOK
<1>2. Rung(r, k, disk) => Rung(r, k, disk')
  BY <1>1, RungKept DEF FileKept
<1>3. RecordedAt(r, k)
  BY DEF Recorded
<1>4. Rung(r, k, disk)' <=> Rung(r, k, disk')
  BY DEF Rung
<1> QED
  BY <1>2, <1>3, <1>4 DEF RecordedAt

\* A process claims what is due: nobody has claimed or announced it, or the
\* process was behind, and overruns it.
LEMMA ClaimIsNew ==
    ASSUME TimekeepingTypeOK, Fresh, Recorded, NEW p \in Procs, Claim(p),
           NEW r \in Ids, NEW k \in Rounds, r \notin overrun', r \notin overrun,
           Elapsed(p, r), EventOf(p, r) = <<r, k>>
    PROVE  /\ Rung(r, k, Claimed(p)) /\ ~Rung(r, k, disk)
<1>0. disk \in Tables /\ mem[p] \in Tables
  BY DEF TimekeepingTypeOK
<1>1. ~Rung(r, k, mem[p]) /\ Rung(r, k, Claimed(p))
  BY DueHasNotRung
<1>2. Claimed(p)[r] # mem[p][r]
  BY <1>1 DEF Rung
<1>3. <<p, r>> \notin behind
  BY <1>2 DEF Claim, Save, Writes
<1>4. KeptAt(r, disk[r], mem[p][r])
  BY <1>3 DEF Fresh, Claim, Up
<1> QED
  BY <1>0, <1>1, <1>4, RungKept

LEMMA RecordedStep ==
    ASSUME TimekeepingTypeOK, TimekeepingTypeOK', Fresh, Recorded, [TimeNext]_timeVars
    PROVE  Recorded'
<1>0. /\ disk \in Tables /\ disk' \in Tables /\ mem \in [Procs -> Tables]
      /\ todo \in [Procs -> SUBSET Events] /\ heard \in [Events -> 0..2]
  BY DEF TimekeepingTypeOK
<1>1. FileKept /\ overrun \subseteq overrun'
  BY FreshStep, OverrunStays
<1>2. CASE heard' = heard /\ \A p \in Procs : todo'[p] \subseteq todo[p]
  BY <1>1, <1>2, RecordedQuietly
<1>3. ASSUME NEW p \in Procs, Claim(p) PROVE Recorded'
  <2>1. /\ disk' = Claimed(p) /\ heard' = heard
        /\ todo' = [todo EXCEPT ![p] = {EventOf(p, r) : r \in {i \in Ids : Elapsed(p, i)}}]
    BY <1>3 DEF Claim, Save, Writes
  <2> SUFFICES ASSUME NEW r \in Ids, NEW k \in Rounds, r \notin overrun'
               PROVE  RecordedAt(r, k)'
    BY DEF Recorded
  <2>2. r \notin overrun /\ RecordedAt(r, k)
    BY <1>1 DEF Recorded
  <2>3. Rung(r, k, disk) => Rung(r, k, disk')
    BY <1>0, <1>1, RungKept DEF FileKept
  <2>4. heard[<<r, k>>] \in 0..2
    BY <1>0 DEF Events
  <2>5. ASSUME <<r, k>> \in todo'[p]
        PROVE  Rung(r, k, disk') /\ ~Rung(r, k, disk)
    <3>1. PICK i \in Ids : Elapsed(p, i) /\ <<r, k>> = EventOf(p, i)
      BY <1>0, <2>1, <2>5
    <3>2. i = r
      BY <3>1 DEF EventOf
    <3> QED
      BY <1>3, <2>1, <2>2, <3>1, <3>2, ClaimIsNew
  <2>6. \A q \in Procs : q # p => todo'[q] = todo[q]
    BY <1>0, <2>1
  <2>7. \A q \in Procs : <<r, k>> \in todo'[q] => heard[<<r, k>>] = 0 /\ Rung(r, k, disk')
    BY <2>2, <2>3, <2>4, <2>5, <2>6 DEF RecordedAt
  <2>8. \A q, s \in Procs : <<r, k>> \in todo'[q] /\ <<r, k>> \in todo'[s] => q = s
    BY <2>2, <2>5, <2>6 DEF RecordedAt
  <2>9. Rung(r, k, disk)' <=> Rung(r, k, disk')
    BY DEF Rung
  <2> QED
    BY <2>1, <2>2, <2>3, <2>7, <2>8, <2>9 DEF RecordedAt
<1>4. ASSUME NEW p \in Procs, NEW e \in Events, Deliver(p, e) PROVE Recorded'
  <2>1. /\ disk' = disk /\ overrun' = overrun /\ e \in todo[p]
        /\ heard' = [heard EXCEPT ![e] = IF @ = 2 THEN 2 ELSE @ + 1]
        /\ todo' = [todo EXCEPT ![p] = @ \ {e}]
    BY <1>4 DEF Deliver
  <2> SUFFICES ASSUME NEW r \in Ids, NEW k \in Rounds, r \notin overrun
               PROVE  RecordedAt(r, k)'
    BY <2>1 DEF Recorded
  <2>2. RecordedAt(r, k)
    BY DEF Recorded
  <2>3. <<r, k>> \in Events
    BY DEF Events
  <2>4. Rung(r, k, disk)' <=> Rung(r, k, disk)
    BY <2>1 DEF Rung
  <2>5. \A q \in Procs : todo'[q] \subseteq todo[q]
    BY <1>0, <2>1
  <2>6. CASE e = <<r, k>>
    <3>1. heard[<<r, k>>] = 0 /\ Rung(r, k, disk)
      BY <2>1, <2>2, <2>6 DEF RecordedAt
    <3>2. heard'[<<r, k>>] = 1
      BY <1>0, <2>1, <2>3, <2>6, <3>1
    <3>3. \A q \in Procs : e \notin todo'[q]
      <4>1. \A q \in Procs : e \in todo[q] => q = p
        BY <2>1, <2>2, <2>6 DEF RecordedAt
      <4> QED
        BY <1>0, <2>1, <2>5, <4>1
    <3> QED
      BY <2>4, <2>6, <3>1, <3>2, <3>3 DEF RecordedAt
  <2>7. CASE e # <<r, k>>
    <3>1. heard'[<<r, k>>] = heard[<<r, k>>]
      BY <1>0, <2>1, <2>3, <2>7
    <3> QED
      BY <2>2, <2>4, <2>5, <3>1 DEF RecordedAt
  <2> QED
    BY <2>6, <2>7
<1>5. ASSUME NEW p \in Procs, NEW r \in Ids, NEW rec, Operates(p, r, rec)
      PROVE  heard' = heard /\ \A q \in Procs : todo'[q] \subseteq todo[q]
  BY <1>5 DEF Operates
<1>6. ASSUME NEW p \in Procs, Start(p) \/ Exit(p)
      PROVE  heard' = heard /\ \A q \in Procs : todo'[q] \subseteq todo[q]
  BY <1>0, <1>6 DEF Start, Exit
<1>7. ASSUME NEW p \in Procs,
             NothingDue(p) \/ ClaimFails(p) \/ Plan(p) \/ NoWait(p) \/ Park(p) \/ Wake(p)
      PROVE  heard' = heard /\ \A q \in Procs : todo'[q] \subseteq todo[q]
  BY <1>7 DEF NothingDue, ClaimFails, Plan, NoWait, Park, Wake
<1>8. CASE TimePasses \/ UNCHANGED timeVars
  BY <1>2, <1>8 DEF TimePasses, timeVars
<1>9. ASSUME NEW p \in Procs, Worker(p) PROVE Recorded'
  BY <1>2, <1>3, <1>4, <1>7, <1>9 DEF Worker
<1> QED
  BY <1>2, <1>5, <1>6, <1>8, <1>9, Forms

(* Any number of processes: an event is announced at most once, by all of  *)
(* them, whenever one ends between the claim of the event and its          *)
(* announcement and whatever could not be saved, unless a process that had *)
(* not seen what another wrote of the record has changed it or written     *)
(* over it.                                                                *)
THEOREM NothingAnnouncedTwice == TimeSpec => []AnnouncedOnce
<1>1. TimeInit => Recorded
  BY DEF TimeInit, Recorded, RecordedAt, Events
<1>2. TimekeepingTypeOK /\ Fresh /\ [TimeNext]_timeVars => Fresh'
  BY FreshStep
<1>3. TimekeepingTypeOK /\ TimekeepingTypeOK' /\ Fresh /\ Recorded /\ [TimeNext]_timeVars
        => Recorded'
  BY RecordedStep
<1>4. Recorded => AnnouncedOnce
  BY DEF Recorded, RecordedAt, AnnouncedOnce, Events
<1> QED
  BY <1>1, <1>2, <1>3, <1>4, FreshInit, TimekeepingTypesHold, PTL DEF TimeSpec

=============================================================================

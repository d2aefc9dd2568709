------------------------------ MODULE FollowUps ------------------------------
(* Follow-up cues of one user (rex/cue_store.py, rex/followup_engine.py and *)
(* generate_followup_cues of rex/calendar_service.py): the assistant turns  *)
(* ended calendar events into cues when a session starts, and puts a few    *)
(* into its prompts.  Another process (the reminder job, the command line)  *)
(* adds, dismisses and prunes cues.  Every process works on the copy of     *)
(* cues.json that it loaded, and every save writes its whole copy.          *)
EXTENDS Integers, FiniteSets

CONSTANTS
    CalendarEvents, \* calendar events
    Reported,       \* reminders with a follow-up
    MaxPerSession,  \* max_per_session
    Lookback,       \* lookback_hours
    Expire,         \* expire_hours
    MaxSessions,    \* bound on starts of the assistant
    NoCue

ASSUME FollowUpsAssumption ==
    /\ CalendarEvents \cap Reported = {} /\ MaxPerSession \in 1..5
    /\ Lookback \in Nat \ {0} /\ Expire \in Nat \ {0} /\ MaxSessions \in Nat

Sources == CalendarEvents \cup Reported

\* Ages are counted up to the first that is past everything.
Oldest == (IF Lookback > Expire THEN Lookback ELSE Expire) + 1
CueRow == [status: {"pending", "asked", "dismissed"}, age: 0..Oldest]
CueTables == [Sources -> CueRow \cup {NoCue}]

ASSUME NoCueAssumption == NoCue \notin (0..Oldest) \cup CueRow \cup CueTables \cup Sources

VARIABLES
    ended,      \* hours since an event ended, or NoCue
    reported,   \* the reminders that have fired
    cues,       \* the assistant's copy: per source its cue or NoCue
    cueFile,    \* data/followups/cues.json
    other,      \* the other process's copy, or NoCue while there is none
    askedSoFar, \* asked in this session, or NoCue before it starts
    prefetched, \* the cue of _pending_followups, or NoCue
    sessions,   \* how many have started
    told,       \* ghost: how often the user was asked about a source
    waved,      \* ghost: what the user has dismissed
    lost        \* ghost: a save has erased what another process saved

followVars == <<ended, reported, cues, cueFile, other, askedSoFar, prefetched, sessions, told, waved, lost>>

NewCue == [status |-> "pending", age |-> 0]
PastExpiry(c) == c.age > Expire
Askable(table) ==
    {s \in Sources : table[s] # NoCue /\ table[s].status = "pending"
                        /\ table[s].age <= Lookback /\ ~PastExpiry(table[s])}

FollowInit ==
    /\ ended = [e \in CalendarEvents |-> NoCue] /\ reported = {}
    /\ cues = [s \in Sources |-> NoCue]
    /\ cueFile = cues /\ other = NoCue
    /\ askedSoFar = NoCue /\ prefetched = NoCue /\ sessions = 0
    /\ told = [s \in Sources |-> 0]
    /\ waved = {} /\ lost = FALSE

\* _save of a process whose copy was `copy`.
SaveCues(copy, new) == cueFile' = new /\ lost' = (lost \/ copy # cueFile)

-----------------------------------------------------------------------------
(* The assistant.                                                           *)

\* Mutant of Unasked: the check of add_cue, which knows pending cues only.
UnaskedPending(table) ==
    {e \in CalendarEvents : ended[e] # NoCue /\ ended[e] <= Lookback
                      /\ (table[e] = NoCue \/ table[e].status # "pending")}

\* generate_followup_cues: ended events of the window without any cue.
Unasked(table) == {e \in CalendarEvents : ended[e] # NoCue /\ ended[e] <= Lookback /\ table[e] = NoCue}

\* The first request of the user in this process loads the cues, starts the
\* session and fetches a prompt for it, whose cue stays pending.
StartSession ==
    /\ askedSoFar = NoCue /\ sessions < MaxSessions
    /\ cues' = [s \in Sources |-> IF s \in Unasked(cueFile) THEN NewCue ELSE cueFile[s]]
    /\ cueFile' = cues'
    /\ prefetched' \in Askable(cues') \/ (Askable(cues') = {} /\ prefetched' = NoCue)
    /\ askedSoFar' = 0 /\ sessions' = sessions + 1
    /\ UNCHANGED <<ended, reported, other, told, waved, lost>>

\* What a session may still ask.
Remaining == MaxPerSession - askedSoFar

\* collect_followups, which each turn calls for the messages, the prompt and
\* the response: the oldest askable cues are marked and handed out.
CollectFollowups ==
    /\ askedSoFar # NoCue /\ Remaining > 0
    /\ \E S \in SUBSET Askable(cues) :
         /\ S # {}
         /\ Cardinality(S) = Remaining \/ (Cardinality(S) < Remaining /\ S = Askable(cues))
         /\ cues' = [s \in Sources |-> IF s \in S THEN [cues[s] EXCEPT !.status = "asked"]
                                       ELSE cues[s]]
         /\ told' = [s \in Sources |-> IF s \in S THEN told[s] + 1 ELSE told[s]]
         /\ askedSoFar' = askedSoFar + Cardinality(S)
    /\ SaveCues(cues, cues')
    /\ UNCHANGED <<ended, reported, other, prefetched, sessions, waved>>

\* The prompt fetched at the start is put into the messages of a turn, after
\* collect_followups, and mark_current_cue_asked marks its cue: nothing asks
\* whether it is pending still or how many were asked.  (Nothing at this
\* commit calls the method of the Assistant that does this.)
AskPrefetched ==
    /\ prefetched # NoCue /\ prefetched' = NoCue
    /\ cues' = [cues EXCEPT ![prefetched].status = "asked"]
    /\ told' = [told EXCEPT ![prefetched] = @ + 1]
    /\ askedSoFar' = askedSoFar + 1
    /\ SaveCues(cues, cues')
    /\ UNCHANGED <<ended, reported, other, sessions, waved>>

EndSession ==
    /\ askedSoFar # NoCue
    /\ askedSoFar' = NoCue /\ prefetched' = NoCue
    /\ cues' = [s \in Sources |-> NoCue]
    /\ UNCHANGED <<ended, reported, cueFile, other, sessions, told, waved, lost>>

-----------------------------------------------------------------------------
(* Another process.                                                         *)

OtherOpens ==
    /\ other = NoCue /\ other' = cueFile
    /\ UNCHANGED <<ended, reported, cues, cueFile, askedSoFar, prefetched, sessions, told, waved, lost>>

OtherEnds ==
    /\ other # NoCue /\ other' = NoCue
    /\ UNCHANGED <<ended, reported, cues, cueFile, askedSoFar, prefetched, sessions, told, waved, lost>>

OtherSaves(new) ==
    /\ other # NoCue /\ other' = new
    /\ SaveCues(other, new)
    /\ UNCHANGED <<ended, cues, askedSoFar, prefetched, sessions, told>>

\* add_cue for a reminder that fired; it fires once.
ReminderCue(r) ==
    /\ r \notin reported /\ reported' = reported \cup {r}
    /\ OtherSaves([other EXCEPT ![r] = NewCue])
    /\ UNCHANGED waved

\* dismiss asks for no status.
Dismiss(s) ==
    /\ other # NoCue /\ other[s] # NoCue
    /\ OtherSaves([other EXCEPT ![s].status = "dismissed"])
    /\ waved' = waved \cup {s} /\ UNCHANGED reported

PruneExpired ==
    /\ other # NoCue
    /\ \E s \in Sources : other[s] # NoCue /\ PastExpiry(other[s])
    /\ OtherSaves([s \in Sources |-> IF other[s] # NoCue /\ PastExpiry(other[s]) THEN NoCue
                                     ELSE other[s]])
    /\ UNCHANGED <<waved, reported>>

-----------------------------------------------------------------------------
EventEnds(e) ==
    /\ ended[e] = NoCue /\ ended' = [ended EXCEPT ![e] = 0]
    /\ UNCHANGED <<reported, cues, cueFile, other, askedSoFar, prefetched, sessions, told, waved, lost>>

Aged(table) == [s \in Sources |-> IF table[s] = NoCue THEN NoCue
                  ELSE [table[s] EXCEPT !.age = IF @ < Oldest THEN @ + 1 ELSE @]]

AnHourPasses ==
    /\ ended' = [e \in CalendarEvents |-> IF ended[e] = NoCue THEN NoCue
                   ELSE IF ended[e] < Oldest THEN ended[e] + 1 ELSE ended[e]]
    /\ cues' = Aged(cues) /\ cueFile' = Aged(cueFile)
    /\ other' = IF other = NoCue THEN NoCue ELSE Aged(other)
    /\ UNCHANGED <<reported, askedSoFar, prefetched, sessions, told, waved, lost>>

FollowNext ==
    \/ StartSession \/ CollectFollowups \/ AskPrefetched \/ EndSession
    \/ OtherOpens \/ OtherEnds \/ PruneExpired
    \/ \E r \in Reported : ReminderCue(r)
    \/ \E s \in Sources : Dismiss(s)
    \/ \E e \in CalendarEvents : EventEnds(e)
    \/ AnHourPasses

FollowSpec == FollowInit /\ [][FollowNext]_followVars

-----------------------------------------------------------------------------
\* The user is not asked again about what he was asked or has dismissed, over
\* sessions, restarts and pruning, unless one process erased what another had
\* saved; cues must not expire before their events leave the window.  Only the
\* prompt fetched at the start of a session may repeat what collect_followups
\* has handed out in the same session, once, and never what was dismissed.
NeverAskedAgain ==
    [][\A s \in Sources : told'[s] # told[s] /\ ~lost' /\ Lookback <= Expire
          => /\ s \notin waved
             /\ told[s] = 0 \/ (told[s] = 1 /\ s = prefetched /\ prefetched' = NoCue)]_followVars
=============================================================================

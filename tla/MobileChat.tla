----------------------------- MODULE MobileChat -----------------------------
(****************************************************************************)
(* Chat messages of the mobile gateway.  Three transports share the table   *)
(* mobile_message_requests, so that a message which a phone resends, over   *)
(* whatever transport, after losing the answer is not executed again:       *)
(*                                                                          *)
(*   rex/mobile_api/idempotency.py   reserve, complete, fail, prune_expired *)
(*   rex/mobile_api/routes/chat.py   POST /mobile/chat ("http") and         *)
(*                                   /mobile/chat/stream ("sse")            *)
(*   rex/mobile_api/websocket.py     chat frames ("ws")                     *)
(*                                                                          *)
(* A delivery is one arrival of a message at the server, served by its own  *)
(* thread; the transactions of the table and the sends to the client are    *)
(* the steps between which other threads, the clock, a logout, the loss of  *)
(* the client and a crash of the server come.                               *)
(*                                                                          *)
(* Abstractions.  A message is its key (user_id, message_id); request_hash  *)
(* is the payload.  revalidate_principal is one atomic check, which         *)
(* LoadsAreAtomic of MobileGateway justifies, against one session that all  *)
(* deliveries use.  A reply is named by the delivery that executed it.      *)
(* Error codes are told apart as far as the table treats them apart.        *)
(****************************************************************************)
EXTENDS Naturals

CONSTANTS
    Messages, Payloads, Deliveries,
    Transports,     \* the transports in use
    None,
    Retention,      \* idempotency_retention_hours
    MaxTime,        \* bound on the clock
    MaxChunks,      \* bound on the chunks of a streamed reply
    MaxCrashes,     \* bound on the crashes of the server
    LongRuns        \* FALSE: executions end within the retention window

Codes == {"error", "revoked", "disconnected"}
MessageStates == {"open", "completed", "failed", "refused", "lost"}
Phases == {"reserve", "prune", "ack", "run", "produce", "check", "send",
           "store", "fail", "tell"}

Row == [payload: Payloads, status: {"processing", "completed", "failed"},
        created: Nat, by: Deliveries, code: Codes \cup {None}]
Thread == [transport: {"http", "sse", "ws"}, message: Messages, payload: Payloads,
           phase: Phases, chunks: Nat, code: Codes \cup {None}, gone: BOOLEAN]
Answer == [by: Deliveries \cup {None}, state: {"completed", "failed", "refused", "lost"},
           code: Codes \cup {"conflict", "in_progress", None}]

ASSUME ChatAssumption ==
    /\ Transports \subseteq {"http", "sse", "ws"}
    /\ Retention \in Nat \ {0} /\ MaxTime \in Nat /\ MaxChunks \in Nat
    /\ MaxCrashes \in Nat /\ LongRuns \in BOOLEAN
    /\ None \notin Nat \cup Deliveries \cup Row \cup Thread \cup Answer
                   \cup [by: Deliveries \cup {None}, state: MessageStates]

VARIABLES
    row,        \* mobile_message_requests, by key
    thread,     \* the thread that serves a delivery
    answer,     \* what a delivery is answered; sent when its thread has ended
    now, authorized, crashes,   \* the environment
    started,    \* when each message was last reserved (ghost)
    timely      \* whether each delivery's last output was produced before
                \* the logout (ghost)

vars == <<row, thread, answer, now, authorized, crashes, started, timely>>

ChatTypeOK ==
    /\ row \in [Messages -> Row \cup {None}]
    /\ thread \in [Deliveries -> Thread \cup {None}]
    /\ answer \in [Deliveries -> Answer \cup {None}]
    /\ now \in 0..MaxTime /\ authorized \in BOOLEAN /\ crashes \in 0..MaxCrashes
    /\ started \in [Messages -> Nat \cup {None}]
    /\ timely \in [Deliveries -> BOOLEAN]

Init ==
    /\ row = [m \in Messages |-> None]
    /\ thread = [d \in Deliveries |-> None]
    /\ answer = [d \in Deliveries |-> None]
    /\ now = 0 /\ authorized = TRUE /\ crashes = 0
    /\ started = [m \in Messages |-> None]
    /\ timely = [d \in Deliveries |-> TRUE]

-----------------------------------------------------------------------------
At(d, phase) == thread[d] # None /\ thread[d].phase = phase

\* The delivery won the reservation and is not done with its row.
Executing(d) ==
    thread[d] # None /\ thread[d].phase \notin {"reserve", "tell"}

Goto(d, phase) == thread' = [thread EXCEPT ![d].phase = phase]

\* The handler is about to record a failure.
Failing(d, code) ==
    thread' = [thread EXCEPT ![d].phase = "fail", ![d].code = code]

Refusal(code) == [by |-> None, state |-> "refused", code |-> code]
Lost == [by |-> None, state |-> "lost", code |-> None]

\* The thread ends without having answered.
Vanish(d) ==
    /\ thread' = [thread EXCEPT ![d] = None]
    /\ answer' = [answer EXCEPT ![d] = Lost]

env == <<now, authorized, crashes>>
ghosts == <<started, timely>>

-----------------------------------------------------------------------------
(* The table.                                                               *)

\* A delivery of message m with payload p reaches its handler, which
\* authenticates it first.
Arrive(d, transport, m, p) ==
    /\ thread[d] = None /\ answer[d] = None /\ authorized
    /\ thread' = [thread EXCEPT ![d] =
            [transport |-> transport, message |-> m, payload |-> p,
             phase |-> "reserve", chunks |-> 0, code |-> None, gone |-> FALSE]]
    /\ UNCHANGED <<row, answer, env, ghosts>>

\* Mutant: the payload of a resent message is not compared.
VerdictUnchecked(d) ==
    LET r == row[thread[d].message] IN
    IF r.status = "completed" THEN [by |-> r.by, state |-> "completed", code |-> None]
    ELSE IF r.status = "failed" THEN
        [by |-> r.by, state |-> "failed",
         code |-> IF thread[d].transport = "ws" \/ r.code # "disconnected"
                  THEN r.code ELSE "error"]
    ELSE Refusal("in_progress")

\* How a delivery whose message has a row is answered.  The HTTP routes
\* translate CLIENT_DISCONNECTED (_failed_replay_error); the socket does not.
Verdict(d) ==
    LET r == row[thread[d].message] IN
    IF r.payload # thread[d].payload THEN Refusal("conflict")
    ELSE IF r.status = "completed" THEN [by |-> r.by, state |-> "completed", code |-> None]
    ELSE IF r.status = "failed" THEN
        [by |-> r.by, state |-> "failed",
         code |-> IF thread[d].transport = "ws" \/ r.code # "disconnected"
                  THEN r.code ELSE "error"]
    ELSE Refusal("in_progress")

NewRow(d) == [payload |-> thread[d].payload, status |-> "processing",
              created |-> now, by |-> d, code |-> None]

\* reserve: exactly one delivery inserts the row.
Reserve(d) ==
    /\ At(d, "reserve") /\ row[thread[d].message] = None
    /\ row' = [row EXCEPT ![thread[d].message] = NewRow(d)]
    /\ started' = [started EXCEPT ![thread[d].message] = now]
    /\ Goto(d, "prune")
    /\ UNCHANGED <<answer, env, timely>>

Duplicate(d) ==
    /\ At(d, "reserve") /\ row[thread[d].message] # None
    /\ answer' = [answer EXCEPT ![d] = Verdict(d)]
    /\ Goto(d, "tell")
    /\ UNCHANGED <<row, env, ghosts>>

\* Mutant of Expired: a row whose retention ends now is deleted.
ExpiredNow(m) == row[m] # None /\ row[m].created + Retention <= now

\* DELETE ... WHERE created_at < now - retention, whatever the status
Expired(m) == row[m] # None /\ row[m].created + Retention < now

\* _prune_expired_safely, after a reservation; an error of it is swallowed.
Prune(d) ==
    /\ At(d, "prune")
    /\ \/ row' = [m \in Messages |-> IF Expired(m) THEN None ELSE row[m]]
       \/ UNCHANGED row
    /\ Goto(d, IF thread[d].transport = "ws" THEN "ack"
               ELSE IF thread[d].transport = "sse" THEN "run" ELSE "produce")
    /\ UNCHANGED <<answer, env, ghosts>>

\* _finish: UPDATE ... WHERE the row is still processing
Finish(d, status, code) ==
    LET m == thread[d].message IN
    row' = IF row[m] # None /\ row[m].status = "processing"
           THEN [row EXCEPT ![m].status = status, ![m].code = code, ![m].by = d]
           ELSE row

-----------------------------------------------------------------------------
(* The handlers.                                                            *)

\* The acknowledgement of a new reservation on the socket.  When the client
\* is gone the send raises, outside the block that records a failure.
Ack(d) ==
    /\ At(d, "ack")
    /\ \/ Goto(d, "run") /\ UNCHANGED answer
       \/ thread[d].gone /\ Vanish(d)
    /\ UNCHANGED <<row, env, ghosts>>

\* revalidate_principal before the next chunk of a stream
Revalidate(d) ==
    /\ At(d, "run")
    /\ IF authorized THEN Goto(d, "produce") ELSE Failing(d, "revoked")
    /\ UNCHANGED <<row, answer, env, ghosts>>

\* The Assistant yields a chunk, ends the reply, or fails.
Produce(d) ==
    /\ At(d, "produce")
    /\ \/ /\ thread[d].transport # "http" /\ thread[d].chunks < MaxChunks
          /\ thread' = [thread EXCEPT ![d].phase = "check", ![d].chunks = @ + 1]
       \/ Goto(d, IF thread[d].transport = "http" THEN "check" ELSE "store")
       \/ Failing(d, "error")
    /\ timely' = [timely EXCEPT ![d] = authorized]
    /\ UNCHANGED <<row, answer, env, started>>

\* Mutant: what was produced after a logout is sent.
CheckNothing(d) ==
    /\ At(d, "check")
    /\ Goto(d, IF thread[d].transport = "http" THEN "store" ELSE "send")
    /\ UNCHANGED <<row, answer, env, ghosts>>

\* revalidate_principal after a chunk of a stream or a complete reply
Check(d) ==
    /\ At(d, "check")
    /\ IF ~authorized THEN Failing(d, "revoked")
       ELSE Goto(d, IF thread[d].transport = "http" THEN "store" ELSE "send")
    /\ UNCHANGED <<row, answer, env, ghosts>>

\* Mutant: a stream that lost its client ends without a record of it.
SendForgets(d) ==
    /\ At(d, "send")
    /\ \/ Goto(d, "run") /\ UNCHANGED answer
       \/ thread[d].gone /\ Vanish(d)
    /\ UNCHANGED <<row, env, ghosts>>

\* A token event; the send may notice that the client is gone.
Send(d) ==
    /\ At(d, "send")
    /\ \/ Goto(d, "run")
       \/ thread[d].gone /\ Failing(d, "disconnected")
    /\ UNCHANGED <<row, answer, env, ghosts>>

\* Status events flushed around a chunk, before the end of the reply and
\* before an error is recorded notice it too.
Flush(d) ==
    /\ \E phase \in {"check", "store", "fail"} : At(d, phase)
    /\ thread[d].transport = "sse" /\ thread[d].gone
    /\ Failing(d, "disconnected")
    /\ UNCHANGED <<row, answer, env, ghosts>>

\* store.fail, and who is told: nobody whose connection is gone or closed.
Fail(d) ==
    /\ At(d, "fail")
    /\ Finish(d, "failed", thread[d].code)
    /\ IF \/ thread[d].code = "disconnected"
          \/ thread[d].code = "revoked" /\ thread[d].transport = "ws"
       THEN Vanish(d)
       ELSE /\ answer' = [answer EXCEPT ![d] =
                    [by |-> d, state |-> "failed", code |-> thread[d].code]]
            /\ Goto(d, "tell")
    /\ UNCHANGED <<env, ghosts>>

\* Mutant: message_done is announced before the result is stored.
StoreLater(d) ==
    /\ At(d, "store")
    /\ UNCHANGED row
    /\ answer' = [answer EXCEPT ![d] = [by |-> d, state |-> "completed", code |-> None]]
    /\ Goto(d, "tell")
    /\ UNCHANGED <<env, ghosts>>

\* store.complete, before the answer is announced
Store(d) ==
    /\ At(d, "store")
    /\ Finish(d, "completed", None)
    /\ answer' = [answer EXCEPT ![d] = [by |-> d, state |-> "completed", code |-> None]]
    /\ Goto(d, "tell")
    /\ UNCHANGED <<env, ghosts>>

\* The response, or the last event of the stream.
Tell(d) ==
    /\ At(d, "tell")
    /\ IF thread[d].gone THEN Vanish(d)
       ELSE thread' = [thread EXCEPT ![d] = None] /\ UNCHANGED answer
    /\ UNCHANGED <<row, env, ghosts>>

-----------------------------------------------------------------------------
(* The environment.                                                         *)

Disconnect(d) ==
    /\ thread[d] # None /\ ~thread[d].gone
    /\ thread' = [thread EXCEPT ![d].gone = TRUE]
    /\ UNCHANGED <<row, answer, env, ghosts>>

Logout ==
    /\ authorized /\ authorized' = FALSE
    /\ UNCHANGED <<row, thread, answer, now, crashes, ghosts>>

\* Unless LongRuns, no execution outlives the retention of its row.
Tick ==
    /\ now < MaxTime
    /\ LongRuns \/ \A d \in Deliveries :
         Executing(d) => now < started[thread[d].message] + Retention
    /\ now' = now + 1
    /\ UNCHANGED <<row, thread, answer, authorized, crashes, ghosts>>

\* The server dies; only the table survives.
Crash ==
    /\ crashes < MaxCrashes /\ crashes' = crashes + 1
    /\ answer' = [d \in Deliveries |-> IF thread[d] # None THEN Lost ELSE answer[d]]
    /\ thread' = [d \in Deliveries |-> None]
    /\ UNCHANGED <<row, now, authorized, ghosts>>

Step(d) ==
    \/ Reserve(d) \/ Duplicate(d) \/ Prune(d) \/ Ack(d) \/ Revalidate(d)
    \/ Produce(d) \/ Check(d) \/ Send(d) \/ Flush(d) \/ Fail(d) \/ Store(d)
    \/ Tell(d)

Arrival == \E d \in Deliveries, t \in Transports, m \in Messages, p \in Payloads :
               Arrive(d, t, m, p)

Next ==
    \/ Arrival
    \/ \E d \in Deliveries : Step(d) \/ Disconnect(d)
    \/ Logout \/ Tick \/ Crash

Spec == Init /\ [][Next]_vars

\* Threads are scheduled, the Assistant answers or fails.
FairSpec == Spec /\ \A d \in Deliveries : WF_vars(Step(d))

-----------------------------------------------------------------------------
\* A message is never executed by two deliveries at once, whichever of them
\* is a retry and whichever transport it came over.
OneExecution ==
    \A d, e \in Deliveries :
        Executing(d) /\ Executing(e) /\ thread[d].message = thread[e].message => d = e

\* And never a second time within the retention window: a resent message is
\* executed again only when its row is older than that.
NeverAgainSoon ==
    [][\A m \in Messages :
         started'[m] # started[m] /\ started[m] # None
         => now > started[m] + Retention]_vars

\* A result is only ever replayed to a request with the same payload, for
\* the message it was produced for, while its row lives.
ReplaysMatch ==
    \A d \in Deliveries : At(d, "tell") /\ answer[d].by \notin {None, d} =>
        LET r == row[thread[d].message] IN
        r # None /\ r.by = answer[d].by =>
            r.payload = thread[d].payload /\ r.status = answer[d].state

\* What the Assistant produces after a logout, be it a chunk of a stream or a
\* whole reply, is neither sent nor stored: the reply of a revoked session is
\* withheld however long the Assistant took for it.
RevokedIsWithheld ==
    \A d \in Deliveries :
        \/ At(d, "send")
        \/ At(d, "store") /\ thread[d].transport = "http"
        => timely[d]

-----------------------------------------------------------------------------
\* What OneAnswer sees of a row and of an answer.
EntryOf(r) ==
    IF r = None THEN None
    ELSE [by |-> r.by, state |-> IF r.status = "processing" THEN "open" ELSE r.status]
AnswerOf(a) == IF a = None THEN None ELSE [by |-> a.by, state |-> a.state]

Promise == INSTANCE OneAnswer WITH
    entry <- [m \in Messages |-> EntryOf(row[m])],
    answer <- [d \in Deliveries |-> AnswerOf(answer[d])]

\* The table and the handlers keep the promise of OneAnswer: one delivery
\* opens a message, it settles once, and who is told a result is told that.
KeepsPromise == Promise!Spec

Processing(m) == row[m] # None /\ row[m].status = "processing" /\ crashes = 0

\* A request or a stream executes it.
Unsettled(m) ==
    /\ Processing(m)
    /\ \E d \in Deliveries :
         Executing(d) /\ thread[d].message = m /\ thread[d].transport # "ws"

\* A message whose execution a request or a stream has begun settles, or is
\* forgotten, unless the server dies: whatever the client, its connection and
\* the retries over the other transports do.  The execution does not end
\* without that, nor does it go on for ever.
EveryMessageSettles ==
    /\ [][\A m \in Messages : Unsettled(m) /\ Processing(m)' => Unsettled(m)']_vars
    /\ \A m \in Messages : []<>~Unsettled(m)

\* docs/mobile/MOBILE_API_SETUP_WINDOWS.md:263: a client told that its
\* message is in progress may wait for the result, for it is being executed.
InProgressMeansExecuting ==
    [][\A d \in Deliveries :
         answer'[d] # answer[d] /\ answer'[d] = Refusal("in_progress")
         => \E e \in Deliveries :
              Executing(e) /\ thread[e].message = thread[d].message]_vars
=============================================================================

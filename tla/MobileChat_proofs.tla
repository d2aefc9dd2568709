-------------------------- MODULE MobileChat_proofs --------------------------
(****************************************************************************)
(* Proofs about MobileChat: no message is executed by two deliveries at     *)
(* once, nor again before its row has expired, and the table with its       *)
(* handlers implements OneAnswer.                                           *)
(****************************************************************************)
EXTENDS MobileChat, TLAPS

\* Who is executing owns the row of the message, which is unsettled.
ExecutorOwnsRow ==
    \A d \in Deliveries : Executing(d) =>
        LET r == row[thread[d].message] IN
        r # None /\ r.status = "processing" /\ r.by = d

\* A row bears the time of the last reservation of its message, and once it
\* is gone that time is past retention.
RowsAreDated ==
    \A m \in Messages :
        /\ row[m] # None => started[m] = row[m].created
        /\ row[m] = None /\ started[m] # None => now > started[m] + Retention

\* No execution has outlived the retention window.
InTime ==
    \A d \in Deliveries : Executing(d) =>
        /\ started[thread[d].message] # None
        /\ now <= started[thread[d].message] + Retention

\* A delivery has an answer when its handler is done, and not before.
AnsweredLast ==
    \A d \in Deliveries : thread[d] # None =>
        (answer[d] = None <=> thread[d].phase # "tell")

\* The executor of an unsettled row is at work, or it is gone.
OpenRowsAreWorkedOn ==
    \A m \in Messages : row[m] # None /\ row[m].status = "processing" =>
        \/ Executing(row[m].by) /\ thread[row[m].by].message = m
        \/ answer[row[m].by] = Lost

ChatInv ==
    /\ ExecutorOwnsRow
    /\ RowsAreDated
    /\ InTime
    /\ AnsweredLast
    /\ OpenRowsAreWorkedOn

-----------------------------------------------------------------------------
(* A handler in a new phase is still a handler.                             *)
LEMMA ThreadTypes ==
    ASSUME ChatTypeOK, NEW d \in Deliveries, thread[d] # None
    PROVE  /\ thread[d] \in Thread
           /\ thread[d].message \in Messages
           /\ \A phase \in Phases :
                [thread EXCEPT ![d].phase = phase] \in [Deliveries -> Thread \cup {None}]
           /\ \A code \in Codes :
                [thread EXCEPT ![d].phase = "fail", ![d].code = code]
                    \in [Deliveries -> Thread \cup {None}]
           /\ [thread EXCEPT ![d] = None] \in [Deliveries -> Thread \cup {None}]
<1>1. thread[d] \in Thread
  BY DEF ChatTypeOK
<1>2. \A t \in Thread : [thread EXCEPT ![d] = t] \in [Deliveries -> Thread \cup {None}]
  BY DEF ChatTypeOK
<1>3. \A phase \in Phases : [thread[d] EXCEPT !.phase = phase] \in Thread
  BY <1>1 DEF Thread
<1>4. \A code \in Codes : [thread[d] EXCEPT !.phase = "fail", !.code = code] \in Thread
  BY <1>1 DEF Thread, Phases
<1>5. \A phase \in Phases : [thread EXCEPT ![d].phase = phase]
                              = [thread EXCEPT ![d] = [thread[d] EXCEPT !.phase = phase]]
  BY DEF ChatTypeOK
<1>6. \A code \in Codes : [thread EXCEPT ![d].phase = "fail", ![d].code = code]
                 = [thread EXCEPT ![d] = [thread[d] EXCEPT !.phase = "fail", !.code = code]]
  BY DEF ChatTypeOK
<1> QED
  BY <1>1, <1>2, <1>3, <1>4, <1>5, <1>6 DEF Thread, ChatTypeOK

(* What a duplicate is told is an answer.                                   *)
LEMMA VerdictTypes ==
    ASSUME ChatTypeOK, NEW d \in Deliveries, thread[d] # None,
           row[thread[d].message] # None
    PROVE  Verdict(d) \in Answer
<1> DEFINE r == row[thread[d].message]
<1>1. r \in Row
  BY ThreadTypes DEF ChatTypeOK
<1> QED
  BY <1>1 DEF Row, Verdict, Refusal, Answer, Codes

(* Settling a row leaves it a row.                                          *)
LEMMA FinishTypes ==
    ASSUME ChatTypeOK, NEW d \in Deliveries, thread[d] # None,
           NEW status \in {"completed", "failed"}, NEW code \in Codes \cup {None},
           Finish(d, status, code)
    PROVE  row' \in [Messages -> Row \cup {None}]
<1> DEFINE m == thread[d].message
<1>1. m \in Messages /\ row \in [Messages -> Row \cup {None}]
  BY ThreadTypes DEF ChatTypeOK
<1>2. CASE row[m] # None /\ row[m].status = "processing"
  <2>1. row[m] \in Row
    BY <1>1, <1>2
  <2>2. [row[m] EXCEPT !.status = status, !.code = code, !.by = d] \in Row
    BY <2>1 DEF Row
  <2>3. row' = [row EXCEPT ![m] = [row[m] EXCEPT !.status = status, !.code = code, !.by = d]]
    BY <1>1, <1>2 DEF Finish
  <2> QED
    BY <1>1, <2>2, <2>3
<1>3. CASE ~(row[m] # None /\ row[m].status = "processing")
  BY <1>1, <1>3 DEF Finish
<1> QED
  BY <1>2, <1>3

(* A handler's step keeps the types.                                        *)
LEMMA StepTypes ==
    ASSUME ChatTypeOK, NEW d \in Deliveries, Step(d)
    PROVE  ChatTypeOK'
<1>0. thread[d] # None
  BY DEF Step, Reserve, Duplicate, Prune, Ack, Revalidate, Produce, Check, Send, Flush,
         Fail, Store, Tell, At
<1> USE <1>0
<1>t. /\ thread[d] \in Thread /\ thread[d].message \in Messages
      /\ \A phase \in Phases : Goto(d, phase) => thread' \in [Deliveries -> Thread \cup {None}]
      /\ \A code \in Codes : Failing(d, code) => thread' \in [Deliveries -> Thread \cup {None}]
      /\ Vanish(d) => /\ thread' \in [Deliveries -> Thread \cup {None}]
                      /\ answer' \in [Deliveries -> Answer \cup {None}]
  <2>1. Lost \in Answer
    BY DEF Lost, Answer
  <2>2. Vanish(d) => /\ thread' \in [Deliveries -> Thread \cup {None}]
                     /\ answer' \in [Deliveries -> Answer \cup {None}]
    BY <2>1, ThreadTypes DEF ChatTypeOK, Vanish
  <2>3. /\ \A phase \in Phases : Goto(d, phase) => thread' \in [Deliveries -> Thread \cup {None}]
        /\ \A code \in Codes : Failing(d, code) => thread' \in [Deliveries -> Thread \cup {None}]
    <3>1. ASSUME NEW phase \in Phases, Goto(d, phase)
          PROVE  thread' \in [Deliveries -> Thread \cup {None}]
      BY <3>1, ThreadTypes, Zenon DEF Goto
    <3>2. ASSUME NEW code \in Codes, Failing(d, code)
          PROVE  thread' \in [Deliveries -> Thread \cup {None}]
      BY <3>2, ThreadTypes, Zenon DEF Failing
    <3> QED
      BY <3>1, <3>2
  <2> QED
    BY <2>2, <2>3, ThreadTypes
<1>a. \A a \in Answer : [answer EXCEPT ![d] = a] \in [Deliveries -> Answer \cup {None}]
  BY DEF ChatTypeOK
<1>b. \A s \in {"completed", "failed"}, c \in Codes \cup {None} :
        [by |-> d, state |-> s, code |-> c] \in Answer
  BY DEF Answer
<1>1. CASE Reserve(d)
  <2>1. NewRow(d) \in Row
    BY <1>t DEF NewRow, Row, Thread, ChatTypeOK
  <2>2. thread' \in [Deliveries -> Thread \cup {None}]
    BY <1>1, <1>t DEF Reserve, Phases
  <2>3. row' \in [Messages -> Row \cup {None}] /\ started' \in [Messages -> Nat \cup {None}]
    BY <1>1, <1>t, <2>1 DEF Reserve, ChatTypeOK
  <2> QED
    BY <1>1, <2>2, <2>3 DEF Reserve, ChatTypeOK, env
<1>2. CASE Duplicate(d)
  <2>1. Verdict(d) \in Answer
    BY <1>2, VerdictTypes DEF Duplicate
  <2>2. thread' \in [Deliveries -> Thread \cup {None}]
    BY <1>2, <1>t DEF Duplicate, Phases
  <2> QED
    BY <1>2, <1>a, <2>1, <2>2 DEF Duplicate, ChatTypeOK, env, ghosts
<1>3. CASE Prune(d)
  <2>1. thread' \in [Deliveries -> Thread \cup {None}]
    BY <1>3, <1>t DEF Prune, Phases
  <2>2. row' \in [Messages -> Row \cup {None}]
    BY <1>3 DEF Prune, ChatTypeOK
  <2> QED
    BY <1>3, <2>1, <2>2 DEF Prune, ChatTypeOK, env, ghosts
<1>4. CASE Ack(d)
  BY <1>4, <1>t DEF Ack, Phases, ChatTypeOK, env, ghosts
<1>5. CASE Revalidate(d)
  BY <1>5, <1>t DEF Revalidate, Phases, Codes, ChatTypeOK, env, ghosts
<1>6. CASE Produce(d)
  <2>1. thread' \in [Deliveries -> Thread \cup {None}]
    <3>1. ASSUME thread' = [thread EXCEPT ![d].phase = "check", ![d].chunks = @ + 1]
          PROVE  thread' \in [Deliveries -> Thread \cup {None}]
      <4>1. [thread[d] EXCEPT !.phase = "check", !.chunks = @ + 1] \in Thread
        <5>1. thread[d].chunks + 1 \in Nat
          BY <1>t DEF Thread
        <5>2. [thread[d] EXCEPT !.phase = "check", !.chunks = @ + 1]
                = [thread[d] EXCEPT !.phase = "check", !.chunks = thread[d].chunks + 1]
          BY <1>t DEF Thread
        <5> QED
          BY <1>t, <5>1, <5>2 DEF Thread, Phases
      <4>2. thread' = [thread EXCEPT ![d] = [thread[d] EXCEPT !.phase = "check", !.chunks = @ + 1]]
        BY <3>1 DEF ChatTypeOK
      <4> QED
        BY <4>1, <4>2 DEF ChatTypeOK
    <3> QED
      BY <1>6, <1>t, <3>1 DEF Produce, Phases, Codes
  <2>2. timely' \in [Deliveries -> BOOLEAN]
    BY <1>6 DEF Produce, ChatTypeOK
  <2> QED
    BY <1>6, <2>1, <2>2 DEF Produce, ChatTypeOK, env
<1>7. CASE Check(d)
  BY <1>7, <1>t DEF Check, Phases, Codes, ChatTypeOK, env, ghosts
<1>8. CASE Send(d)
  BY <1>8, <1>t DEF Send, Phases, Codes, ChatTypeOK, env, ghosts
<1>9. CASE Flush(d)
  BY <1>9, <1>t DEF Flush, Phases, Codes, ChatTypeOK, env, ghosts
<1>10. CASE Fail(d)
  <2>1. thread[d].code \in Codes \cup {None}
    BY <1>t DEF Thread
  <2>2. row' \in [Messages -> Row \cup {None}]
    BY <1>10, <2>1, FinishTypes DEF Fail
  <2>3. /\ thread' \in [Deliveries -> Thread \cup {None}]
        /\ answer' \in [Deliveries -> Answer \cup {None}]
    <3>1. CASE Vanish(d)
      BY <1>t, <3>1
    <3>2. CASE /\ answer' = [answer EXCEPT ![d] =
                        [by |-> d, state |-> "failed", code |-> thread[d].code]]
               /\ Goto(d, "tell")
      BY <1>t, <1>a, <1>b, <2>1, <3>2 DEF Phases
    <3> QED
      BY <1>10, <3>1, <3>2 DEF Fail
  <2> QED
    BY <1>10, <2>2, <2>3 DEF Fail, ChatTypeOK, env, ghosts
<1>11. CASE Store(d)
  <2>1. row' \in [Messages -> Row \cup {None}]
    BY <1>11, FinishTypes DEF Store
  <2>2. /\ thread' \in [Deliveries -> Thread \cup {None}]
        /\ answer' \in [Deliveries -> Answer \cup {None}]
    BY <1>11, <1>t, <1>a, <1>b DEF Store, Phases
  <2> QED
    BY <1>11, <2>1, <2>2 DEF Store, ChatTypeOK, env, ghosts
<1>12. CASE Tell(d)
  <2>1. thread' \in [Deliveries -> Thread \cup {None}]
        /\ answer' \in [Deliveries -> Answer \cup {None}]
    BY <1>12, <1>t, ThreadTypes DEF Tell, ChatTypeOK
  <2> QED
    BY <1>12, <2>1 DEF Tell, ChatTypeOK, env, ghosts
<1> QED
  BY <1>1, <1>2, <1>3, <1>4, <1>5, <1>6, <1>7, <1>8, <1>9, <1>10, <1>11, <1>12 DEF Step

(* So does the environment's.                                               *)
LEMMA EnvironmentTypes ==
    ASSUME ChatTypeOK,
           Arrival \/ (\E d \in Deliveries : Disconnect(d)) \/ Logout \/ Tick \/ Crash
    PROVE  ChatTypeOK'
<1>1. CASE Arrival
  <2>1. PICK d \in Deliveries, t \in Transports, m \in Messages, p \in Payloads :
          Arrive(d, t, m, p)
    BY <1>1 DEF Arrival
  <2>2. [transport |-> t, message |-> m, payload |-> p, phase |-> "reserve",
         chunks |-> 0, code |-> None, gone |-> FALSE] \in Thread
    BY ChatAssumption DEF Thread, Phases
  <2> QED
    BY <2>1, <2>2 DEF Arrive, ChatTypeOK, env, ghosts
<1>2. ASSUME NEW d \in Deliveries, Disconnect(d) PROVE ChatTypeOK'
  <2>1. thread[d] \in Thread
    BY <1>2 DEF Disconnect, ChatTypeOK
  <2>2. [thread[d] EXCEPT !.gone = TRUE] \in Thread
    BY <2>1 DEF Thread
  <2>3. thread' = [thread EXCEPT ![d] = [thread[d] EXCEPT !.gone = TRUE]]
    BY <1>2 DEF Disconnect, ChatTypeOK
  <2> QED
    BY <1>2, <2>2, <2>3 DEF Disconnect, ChatTypeOK, env, ghosts
<1>3. CASE Logout
  BY <1>3 DEF Logout, ChatTypeOK, ghosts
<1>4. CASE Tick
  BY <1>4, ChatAssumption DEF Tick, ChatTypeOK, ghosts
<1>5. CASE Crash
  <2>1. Lost \in Answer
    BY DEF Lost, Answer
  <2> QED
    BY <1>5, <2>1, ChatAssumption DEF Crash, ChatTypeOK, ghosts
<1> QED
  BY <1>1, <1>2, <1>3, <1>4, <1>5

(* In every state of the chat the tables, threads and answers are what the  *)
(* declarations say.                                                        *)
THEOREM ChatTypeInvariance == Spec => []ChatTypeOK
<1>1. Init => ChatTypeOK
  BY ChatAssumption DEF Init, ChatTypeOK
<1>2. ChatTypeOK /\ [Next]_vars => ChatTypeOK'
  <2>1. ChatTypeOK /\ UNCHANGED vars => ChatTypeOK'
    BY DEF ChatTypeOK, vars
  <2> QED
    BY <2>1, StepTypes, EnvironmentTypes DEF Next
<1> QED
  BY <1>1, <1>2, PTL DEF Spec

-----------------------------------------------------------------------------
\* A step of a handler that goes on executing.
Works(d) ==
    /\ Executing(d) /\ Executing(d)' /\ thread'[d].message = thread[d].message
    /\ \A e \in Deliveries \ {d} : thread'[e] = thread[e]
    /\ UNCHANGED <<answer, started, now>>

(* Most steps of a handler are of that kind.                                *)
LEMMA WorkingSteps ==
    ASSUME ChatTypeOK, NEW d \in Deliveries,
           \/ Prune(d) \/ Revalidate(d) \/ Produce(d) \/ Check(d) \/ Send(d) \/ Flush(d)
           \/ Ack(d) /\ Goto(d, "run") /\ UNCHANGED answer
    PROVE  Works(d)
<1>1. thread[d] # None /\ Executing(d)
  BY DEF Prune, Ack, Revalidate, Produce, Check, Send, Flush, At, Executing
<1>2. thread[d] \in Thread /\ thread \in [Deliveries -> Thread \cup {None}]
  BY <1>1 DEF ChatTypeOK
<1>3. \/ \E phase \in {"run", "ack", "produce", "check", "send", "store"} : Goto(d, phase)
      \/ \E code \in Codes : Failing(d, code)
      \/ thread' = [thread EXCEPT ![d].phase = "check", ![d].chunks = @ + 1]
  BY DEF Prune, Ack, Revalidate, Produce, Check, Send, Flush, Codes
<1>4. /\ thread'[d].phase \in {"run", "ack", "produce", "check", "send", "store", "fail"}
      /\ thread'[d].message = thread[d].message
      /\ thread'[d] # None
  <2>1. CASE \E phase \in {"run", "ack", "produce", "check", "send", "store"} : Goto(d, phase)
    <3>1. PICK phase \in {"run", "ack", "produce", "check", "send", "store"} :
            thread'[d] = [thread[d] EXCEPT !.phase = phase]
      BY <1>2, <2>1 DEF Goto
    <3>2. [thread[d] EXCEPT !.phase = phase] \in Thread
      BY <1>2 DEF Thread, Phases
    <3> QED
      BY <1>2, <3>1, <3>2, ChatAssumption DEF Thread
  <2>2. CASE \E code \in Codes : Failing(d, code)
    <3>1. PICK code \in Codes :
            thread'[d] = [thread[d] EXCEPT !.phase = "fail", !.code = code]
      BY <1>2, <2>2 DEF Failing
    <3>2. [thread[d] EXCEPT !.phase = "fail", !.code = code] \in Thread
      BY <1>2 DEF Thread, Phases
    <3> QED
      BY <1>2, <3>1, <3>2, ChatAssumption DEF Thread
  <2>3. CASE thread' = [thread EXCEPT ![d].phase = "check", ![d].chunks = @ + 1]
    <3>1. thread[d].chunks + 1 \in Nat
      BY <1>2 DEF Thread
    <3>2. thread'[d] = [thread[d] EXCEPT !.phase = "check", !.chunks = thread[d].chunks + 1]
      BY <1>2, <2>3 DEF Thread
    <3>3. [thread[d] EXCEPT !.phase = "check", !.chunks = thread[d].chunks + 1] \in Thread
      BY <1>2, <3>1 DEF Thread, Phases
    <3> QED
      BY <1>2, <3>2, <3>3, ChatAssumption DEF Thread
  <2> QED
    BY <1>3, <2>1, <2>2, <2>3
<1>5. \A e \in Deliveries \ {d} : thread'[e] = thread[e]
  BY <1>2, <1>3 DEF Goto, Failing
<1>6. UNCHANGED <<answer, started, now>>
  BY DEF Prune, Ack, Revalidate, Produce, Check, Send, Flush, env, ghosts
<1>7. Executing(d)'
  BY <1>4 DEF Executing
<1> QED
  BY <1>1, <1>4, <1>5, <1>6, <1>7 DEF Works

(* A row whose delivery is at work is the one of that delivery's message.   *)
LEMMA OneRowEach ==
    ASSUME ChatTypeOK, ChatInv
    PROVE  OneExecution
BY DEF ChatInv, ExecutorOwnsRow, OneExecution

(* Work on a reply, with or without pruning, keeps the invariant: what is   *)
(* pruned is older than any execution.                                      *)
LEMMA WorkKeepsInv ==
    ASSUME ChatTypeOK, ChatInv, NEW d \in Deliveries, Works(d),
           \/ UNCHANGED row
           \/ row' = [m \in Messages |-> IF Expired(m) THEN None ELSE row[m]]
    PROVE  ChatInv'
<1>1. \A e \in Deliveries : /\ Executing(e)' <=> Executing(e)
                            /\ Executing(e) => /\ thread'[e].message = thread[e].message
                                               /\ thread[e].message \in Messages
  BY ThreadTypes DEF Works, Executing
<1>2. UNCHANGED <<answer, started, now>>
  BY DEF Works
<1>3. \A m \in Messages : \/ row'[m] = row[m]
                          \/ Expired(m) /\ row'[m] = None
  OBVIOUS
<1>4. \A m \in Messages : row[m] # None =>
         row[m].created \in Nat /\ started[m] = row[m].created
  BY DEF ChatTypeOK, Row, ChatInv, RowsAreDated
<1>5. \A e \in Deliveries : Executing(e) => ~Expired(thread[e].message)
  BY <1>1, <1>4, ChatAssumption DEF ChatInv, ExecutorOwnsRow, InTime, Expired, ChatTypeOK
<1>6. ExecutorOwnsRow'
  BY <1>1, <1>3, <1>5 DEF ChatInv, ExecutorOwnsRow
<1>7. RowsAreDated'
  BY <1>2, <1>3, <1>4, ChatAssumption DEF ChatInv, RowsAreDated, Expired, ChatTypeOK
<1>8. InTime'
  BY <1>1, <1>2 DEF ChatInv, InTime
<1>9. AnsweredLast'
  <2>1. ASSUME NEW e \in Deliveries, thread'[e] # None
        PROVE  answer'[e] = None <=> thread'[e].phase # "tell"
    <3>1. CASE e = d
      BY <1>2, <3>1 DEF Works, Executing, ChatInv, AnsweredLast
    <3>2. CASE e # d
      BY <1>2, <2>1, <3>2 DEF Works, ChatInv, AnsweredLast
    <3> QED
      BY <3>1, <3>2
  <2> QED
    BY <2>1 DEF AnsweredLast
<1>10. OpenRowsAreWorkedOn'
  <2>1. ASSUME NEW m \in Messages, row'[m] # None, row'[m].status = "processing"
        PROVE  \/ (Executing(row[m].by) /\ thread[row[m].by].message = m)'
               \/ (answer[row[m].by] = Lost)'
    <3>1. row'[m] = row[m] /\ row[m].by \in Deliveries
      BY <1>3, <2>1 DEF ChatTypeOK, Row
    <3> QED
      BY <1>1, <1>2, <2>1, <3>1 DEF ChatInv, OpenRowsAreWorkedOn
  <2> QED
    BY <2>1 DEF OpenRowsAreWorkedOn
<1> QED
  BY <1>6, <1>7, <1>8, <1>9, <1>10 DEF ChatInv

(* So does a reservation: the message had no row, hence no executor.        *)
LEMMA ReserveKeepsInv ==
    ASSUME ChatTypeOK, ChatInv, NEW d \in Deliveries, Reserve(d)
    PROVE  ChatInv'
<1> DEFINE m == thread[d].message
<1>1. /\ thread[d] # None /\ thread[d].phase = "reserve" /\ thread[d] \in Thread
      /\ m \in Messages /\ row[m] = None /\ now \in Nat
  <2>1. thread[d] # None /\ thread[d].phase = "reserve" /\ row[m] = None
    BY DEF Reserve, At
  <2>2. now \in Nat
    BY ChatAssumption DEF ChatTypeOK
  <2> QED
    BY <2>1, <2>2, ThreadTypes
<1>2. /\ row' = [row EXCEPT ![m] = NewRow(d)]
      /\ started' = [started EXCEPT ![m] = now]
      /\ UNCHANGED <<answer, now>>
  BY DEF Reserve, env
<1>3. NewRow(d) \in Row /\ NewRow(d) # None
  <2>1. NewRow(d) \in Row
    BY <1>1 DEF NewRow, Row, Thread
  <2> QED
    BY <2>1, ChatAssumption
<1>4. /\ thread'[d] # None /\ thread'[d].phase = "prune" /\ thread'[d].message = m
      /\ \A e \in Deliveries \ {d} : thread'[e] = thread[e]
  <2>1. thread'[d] = [thread[d] EXCEPT !.phase = "prune"]
    BY DEF Reserve, Goto, ChatTypeOK
  <2>2. [thread[d] EXCEPT !.phase = "prune"] \in Thread
    BY <1>1 DEF Thread, Phases
  <2>3. \A e \in Deliveries \ {d} : thread'[e] = thread[e]
    BY DEF Reserve, Goto, ChatTypeOK
  <2> QED
    BY <1>1, <2>1, <2>2, <2>3, ChatAssumption DEF Thread
<1>5. /\ ~Executing(d) /\ Executing(d)'
      /\ \A e \in Deliveries \ {d} :
           (Executing(e)' <=> Executing(e)) /\ (Executing(e) => thread[e].message # m)
  BY <1>1, <1>4 DEF Executing, ChatInv, ExecutorOwnsRow
<1>6. \A e \in Deliveries \ {d} : Executing(e) => thread[e].message \in Messages
  BY ThreadTypes DEF Executing
<1>7. ExecutorOwnsRow'
  BY <1>1, <1>2, <1>3, <1>4, <1>5, <1>6 DEF ChatInv, ExecutorOwnsRow, NewRow, ChatTypeOK
<1>8. RowsAreDated'
  BY <1>1, <1>2, <1>3 DEF ChatInv, RowsAreDated, NewRow, ChatTypeOK
<1>9. InTime'
  <2>1. now # None /\ now <= now + Retention
    BY <1>1, ChatAssumption DEF ChatTypeOK
  <2> QED
    BY <1>1, <1>2, <1>4, <1>5, <1>6, <2>1 DEF ChatInv, InTime, ChatTypeOK
<1>10. AnsweredLast'
  BY <1>1, <1>2, <1>4 DEF ChatInv, AnsweredLast
<1>11. OpenRowsAreWorkedOn'
  <2>1. ASSUME NEW n \in Messages, row'[n] # None, row'[n].status = "processing"
        PROVE  \/ (Executing(row[n].by) /\ thread[row[n].by].message = n)'
               \/ (answer[row[n].by] = Lost)'
    <3>1. CASE n = m
      BY <1>1, <1>2, <1>4, <1>5, <3>1 DEF NewRow, ChatTypeOK
    <3>2. CASE n # m
      <4>1. row'[n] = row[n] /\ row[n].by \in Deliveries
        BY <1>2, <2>1, <3>2 DEF ChatTypeOK, Row
      <4> QED
        BY <1>2, <1>4, <1>5, <2>1, <4>1 DEF ChatInv, OpenRowsAreWorkedOn
    <3> QED
      BY <3>1, <3>2
  <2> QED
    BY <2>1 DEF OpenRowsAreWorkedOn
<1> QED
  BY <1>7, <1>8, <1>9, <1>10, <1>11 DEF ChatInv

(* A handler that is not executing, before or after its step, keeps it.     *)
LEMMA IdleKeepsInv ==
    ASSUME ChatTypeOK, ChatInv, NEW d \in Deliveries,
           ~Executing(d), ~Executing(d)',
           \A e \in Deliveries \ {d} : thread'[e] = thread[e] /\ answer'[e] = answer[e],
           thread'[d] # None => (answer'[d] = None <=> thread'[d].phase # "tell"),
           answer[d] = Lost => answer'[d] = Lost,
           UNCHANGED <<row, started, now>>
    PROVE  ChatInv'
<1>1. \A e \in Deliveries : /\ Executing(e)' <=> Executing(e)
                            /\ Executing(e) => thread'[e].message = thread[e].message
  BY DEF Executing
<1>2. ExecutorOwnsRow'
  BY <1>1 DEF ChatInv, ExecutorOwnsRow
<1>3. RowsAreDated'
  BY DEF ChatInv, RowsAreDated
<1>4. InTime'
  BY <1>1 DEF ChatInv, InTime
<1>5. AnsweredLast'
  BY DEF ChatInv, AnsweredLast
<1>6. OpenRowsAreWorkedOn'
  <2>1. ASSUME NEW m \in Messages, row[m] # None, row[m].status = "processing"
        PROVE  \/ (Executing(row[m].by) /\ thread[row[m].by].message = m)'
               \/ (answer[row[m].by] = Lost)'
    <3>1. row[m].by \in Deliveries
      BY <2>1 DEF ChatTypeOK, Row
    <3> QED
      BY <1>1, <2>1, <3>1 DEF ChatInv, OpenRowsAreWorkedOn
  <2> QED
    BY <2>1 DEF OpenRowsAreWorkedOn
<1> QED
  BY <1>2, <1>3, <1>4, <1>5, <1>6 DEF ChatInv

(* A handler that stops executing has settled its row, or is lost.          *)
LEMMA EndKeepsInv ==
    ASSUME ChatTypeOK, ChatInv, NEW d \in Deliveries, NEW m \in Messages,
           Executing(d), ~Executing(d)', thread[d].message = m,
           \A e \in Deliveries \ {d} : thread'[e] = thread[e] /\ answer'[e] = answer[e],
           thread'[d] # None => (answer'[d] = None <=> thread'[d].phase # "tell"),
           UNCHANGED <<started, now>>,
           \A n \in Messages \ {m} : row'[n] = row[n],
           row'[m] # None, row'[m].created = row[m].created,
           \/ row'[m].status # "processing"
           \/ answer'[d] = Lost /\ row' = row
    PROVE  ChatInv'
<1>1. \A e \in Deliveries \ {d} :
        /\ Executing(e)' <=> Executing(e)
        /\ Executing(e) => /\ thread'[e].message = thread[e].message
                           /\ thread[e].message \in Messages \ {m}
  <2>1. \A e \in Deliveries \ {d} : Executing(e)' <=> Executing(e)
    BY DEF Executing
  <2>2. \A e \in Deliveries \ {d} : Executing(e) => thread[e].message \in Messages
    BY ThreadTypes DEF Executing
  <2>3. \A e \in Deliveries \ {d} : Executing(e) => thread[e].message # m
    BY OneRowEach DEF OneExecution
  <2> QED
    BY <2>1, <2>2, <2>3
<1>2. ExecutorOwnsRow'
  BY <1>1 DEF ChatInv, ExecutorOwnsRow
<1>3. RowsAreDated'
  BY DEF ChatInv, RowsAreDated, ExecutorOwnsRow
<1>4. InTime'
  BY <1>1 DEF ChatInv, InTime
<1>5. AnsweredLast'
  BY DEF ChatInv, AnsweredLast
<1>6. OpenRowsAreWorkedOn'
  <2>1. ASSUME NEW n \in Messages, row'[n] # None, row'[n].status = "processing"
        PROVE  \/ (Executing(row[n].by) /\ thread[row[n].by].message = n)'
               \/ (answer[row[n].by] = Lost)'
    <3>1. CASE n = m
      <4>1. row[m].by = d
        BY DEF ChatInv, ExecutorOwnsRow
      <4> QED
        BY <2>1, <3>1, <4>1
    <3>2. CASE n # m
      <4>1. row'[n] = row[n] /\ row[n].by \in Deliveries
        BY <2>1, <3>2 DEF ChatTypeOK, Row
      <4>2. CASE row[n].by = d
        <5>1. answer[d] = None
          BY DEF ChatInv, AnsweredLast, Executing
        <5>2. answer[d] # Lost
          BY <5>1, ChatAssumption DEF Lost, Answer
        <5> QED
          BY <2>1, <3>2, <4>1, <4>2, <5>2 DEF ChatInv, OpenRowsAreWorkedOn
      <4>3. CASE row[n].by # d
        BY <1>1, <2>1, <4>1, <4>3 DEF ChatInv, OpenRowsAreWorkedOn
      <4> QED
        BY <4>2, <4>3
    <3> QED
      BY <3>1, <3>2
  <2> QED
    BY <2>1 DEF OpenRowsAreWorkedOn
<1> QED
  BY <1>2, <1>3, <1>4, <1>5, <1>6 DEF ChatInv

(* Failing or storing settles the row of the delivery.                      *)
LEMMA FinishSettles ==
    ASSUME ChatTypeOK, ChatInv, NEW d \in Deliveries, Executing(d),
           NEW status \in {"completed", "failed"}, NEW code \in Codes \cup {None},
           Finish(d, status, code)
    PROVE  /\ thread[d].message \in Messages
           /\ row[thread[d].message] # None
           /\ row[thread[d].message].by = d
           /\ row[thread[d].message].status = "processing"
           /\ row'[thread[d].message] # None
           /\ row'[thread[d].message].status = status
           /\ row'[thread[d].message].by = d
           /\ row'[thread[d].message].created = row[thread[d].message].created
           /\ \A n \in Messages \ {thread[d].message} : row'[n] = row[n]
<1> DEFINE m == thread[d].message
           r == [row[m] EXCEPT !.status = status, !.code = code]
<1>1. /\ m \in Messages /\ row[m] # None /\ row[m].by = d /\ row[m].status = "processing"
  BY ThreadTypes DEF Executing, ChatInv, ExecutorOwnsRow
<1>2. row[m] \in Row
  BY <1>1 DEF ChatTypeOK
<1>3. r = [row[m] EXCEPT !.status = status, !.code = code, !.by = d]
  BY <1>1, <1>2 DEF Row
<1>4. row' = [row EXCEPT ![m] = r]
  BY <1>1, <1>3 DEF Finish, ChatTypeOK
<1>5. r.status = status /\ r.by = d /\ r.created = row[m].created /\ r.payload = row[m].payload
  BY <1>1, <1>2 DEF Row
<1>6. row'[m] = r /\ \A n \in Messages \ {m} : row'[n] = row[n]
  BY <1>1, <1>4 DEF ChatTypeOK
<1>7. row'[m] # None
  <2>1. r \in Row
    BY <1>1, <1>2 DEF Row
  <2> QED
    BY <1>6, <2>1, ChatAssumption
<1> QED
  BY <1>1, <1>4, <1>5, <1>6, <1>7

(* A handler's step keeps the invariant.                                    *)
LEMMA StepKeepsInv ==
    ASSUME ChatTypeOK, ChatInv, NEW d \in Deliveries, Step(d)
    PROVE  ChatInv'
<1> DEFINE m == thread[d].message
<1>0. /\ thread[d] # None /\ thread[d] \in Thread /\ m \in Messages
      /\ thread \in [Deliveries -> Thread \cup {None}]
      /\ answer \in [Deliveries -> Answer \cup {None}]
  <2>1. thread[d] # None
    BY DEF Step, Reserve, Duplicate, Prune, Ack, Revalidate, Produce, Check, Send, Flush,
           Fail, Store, Tell, At
  <2> QED
    BY <2>1, ThreadTypes DEF ChatTypeOK
<1>t. Goto(d, "tell") => /\ thread'[d] # None /\ thread'[d].phase = "tell" /\ ~Executing(d)'
                         /\ \A e \in Deliveries \ {d} : thread'[e] = thread[e]
  <2>1. [thread[d] EXCEPT !.phase = "tell"] \in Thread
    BY <1>0 DEF Thread, Phases
  <2> QED
    BY <1>0, <2>1, ChatAssumption DEF Goto, Executing, Thread
<1>v. Vanish(d) => /\ thread'[d] = None /\ ~Executing(d)' /\ answer'[d] = Lost
                   /\ \A e \in Deliveries \ {d} : thread'[e] = thread[e] /\ answer'[e] = answer[e]
  BY <1>0 DEF Vanish, Executing
<1>n. Lost # None /\ \A a \in Answer : a # None
  BY ChatAssumption DEF Lost, Answer
<1>1. CASE Reserve(d)
  BY <1>1, ReserveKeepsInv
<1>2. CASE Duplicate(d)
  <2>1. thread[d].phase = "reserve" /\ ~Executing(d) /\ row[m] # None
    BY <1>2 DEF Duplicate, At, Executing
  <2>2. answer' = [answer EXCEPT ![d] = Verdict(d)] /\ Goto(d, "tell")
    BY <1>2 DEF Duplicate
  <2>3. answer'[d] # None
    BY <1>0, <1>n, <2>1, <2>2, VerdictTypes
  <2>4. answer[d] = None
    BY <1>0, <2>1 DEF ChatInv, AnsweredLast
  <2>5. UNCHANGED <<row, started, now>>
    BY <1>2 DEF Duplicate, env, ghosts
  <2>6. \A e \in Deliveries \ {d} : thread'[e] = thread[e] /\ answer'[e] = answer[e]
    BY <1>0, <1>t, <2>2
  <2> QED
    BY <1>t, <1>n, <2>1, <2>2, <2>3, <2>4, <2>5, <2>6, IdleKeepsInv
<1>3. CASE Prune(d)
  <2>1. Works(d)
    BY <1>3, WorkingSteps
  <2> QED
    BY <1>3, <2>1, WorkKeepsInv DEF Prune
<1>4. CASE Ack(d)
  <2>1. UNCHANGED <<row, started, now>>
    BY <1>4 DEF Ack, env, ghosts
  <2>2. CASE Goto(d, "run") /\ UNCHANGED answer
    BY <1>4, <2>1, <2>2, WorkingSteps, WorkKeepsInv
  <2>3. CASE Vanish(d)
    <3>1. Executing(d) /\ row[m] # None
      BY <1>4 DEF Ack, At, Executing, ChatInv, ExecutorOwnsRow
    <3> QED
      BY <1>0, <1>v, <2>1, <2>3, <3>1, EndKeepsInv
  <2> QED
    BY <1>4, <2>2, <2>3 DEF Ack
<1>5. CASE Revalidate(d) \/ Produce(d) \/ Check(d) \/ Send(d) \/ Flush(d)
  <2>1. Works(d)
    BY <1>5, WorkingSteps
  <2>2. UNCHANGED row
    BY <1>5 DEF Revalidate, Produce, Check, Send, Flush
  <2> QED
    BY <2>1, <2>2, WorkKeepsInv
<1>6. CASE Fail(d)
  <2>1. Executing(d) /\ UNCHANGED <<started, now>>
    BY <1>6 DEF Fail, At, Executing, env, ghosts
  <2>2. thread[d].code \in Codes \cup {None}
    BY <1>0 DEF Thread
  <2>3. /\ row'[m] # None /\ row'[m].status = "failed"
        /\ row'[m].created = row[m].created
        /\ \A n \in Messages \ {m} : row'[n] = row[n]
    BY <1>6, <2>1, <2>2, FinishSettles DEF Fail
  <2>4. CASE Vanish(d)
    BY <1>0, <1>v, <2>1, <2>3, <2>4, EndKeepsInv
  <2>5. CASE /\ answer' = [answer EXCEPT ![d] =
                    [by |-> d, state |-> "failed", code |-> thread[d].code]]
             /\ Goto(d, "tell")
    <3>1. answer'[d] \in Answer /\ \A e \in Deliveries \ {d} : answer'[e] = answer[e]
      BY <1>0, <2>2, <2>5 DEF Answer
    <3> QED
      BY <1>0, <1>t, <1>n, <2>1, <2>3, <2>5, <3>1, EndKeepsInv
  <2> QED
    BY <1>6, <2>4, <2>5 DEF Fail
<1>7. CASE Store(d)
  <2>1. Executing(d) /\ UNCHANGED <<started, now>> /\ Goto(d, "tell")
    BY <1>7 DEF Store, At, Executing, env, ghosts
  <2>2. /\ row'[m] # None /\ row'[m].status = "completed"
        /\ row'[m].created = row[m].created
        /\ \A n \in Messages \ {m} : row'[n] = row[n]
    BY <1>7, <2>1, FinishSettles DEF Store
  <2>3. answer'[d] \in Answer /\ \A e \in Deliveries \ {d} : answer'[e] = answer[e]
    BY <1>0, <1>7 DEF Store, Answer
  <2> QED
    BY <1>0, <1>t, <1>n, <2>1, <2>2, <2>3, EndKeepsInv
<1>8. CASE Tell(d)
  <2>1. thread[d].phase = "tell" /\ ~Executing(d) /\ UNCHANGED <<row, started, now>>
    BY <1>8 DEF Tell, At, Executing, env, ghosts
  <2>2. CASE Vanish(d)
    BY <1>v, <1>n, <2>1, <2>2, IdleKeepsInv
  <2>3. CASE thread' = [thread EXCEPT ![d] = None] /\ UNCHANGED answer
    <3>1. thread'[d] = None /\ \A e \in Deliveries \ {d} : thread'[e] = thread[e]
      BY <1>0, <2>3
    <3>2. ~Executing(d)'
      BY <3>1 DEF Executing
    <3> QED
      BY <2>1, <2>3, <3>1, <3>2, IdleKeepsInv
  <2> QED
    BY <1>8, <2>2, <2>3 DEF Tell
<1> QED
  BY <1>1, <1>2, <1>3, <1>4, <1>5, <1>6, <1>7, <1>8 DEF Step

(* So does the environment's, as long as no execution outlives the          *)
(* retention window.                                                        *)
LEMMA EnvironmentKeepsInv ==
    ASSUME ~LongRuns, ChatTypeOK, ChatInv,
           Arrival \/ (\E d \in Deliveries : Disconnect(d)) \/ Logout \/ Tick \/ Crash
    PROVE  ChatInv'
<1>0. /\ thread \in [Deliveries -> Thread \cup {None}]
      /\ answer \in [Deliveries -> Answer \cup {None}]
      /\ Lost # None
  BY ChatAssumption DEF ChatTypeOK, Lost, Answer
<1>1. CASE Arrival
  <2>1. PICK d \in Deliveries, t \in Transports, n \in Messages, p \in Payloads :
          Arrive(d, t, n, p)
    BY <1>1 DEF Arrival
  <2>2. /\ thread[d] = None /\ answer[d] = None /\ thread'[d].phase = "reserve"
        /\ \A e \in Deliveries \ {d} : thread'[e] = thread[e]
    BY <1>0, <2>1 DEF Arrive
  <2>3. UNCHANGED <<row, started, now, answer>>
    BY <2>1 DEF Arrive, env, ghosts
  <2>4. ~Executing(d) /\ ~Executing(d)'
    BY <2>2 DEF Executing
  <2> QED
    BY <1>0, <2>2, <2>3, <2>4, IdleKeepsInv
<1>2. ASSUME NEW d \in Deliveries, Disconnect(d) PROVE ChatInv'
  <2>1. thread[d] # None /\ thread[d] \in Thread
    BY <1>0, <1>2 DEF Disconnect
  <2>2. /\ thread'[d] = [thread[d] EXCEPT !.gone = TRUE]
        /\ \A e \in Deliveries \ {d} : thread'[e] = thread[e]
    BY <1>0, <1>2 DEF Disconnect
  <2>3. /\ thread'[d] # None /\ thread'[d].phase = thread[d].phase
        /\ thread'[d].message = thread[d].message
    <3>1. [thread[d] EXCEPT !.gone = TRUE] \in Thread
      BY <2>1 DEF Thread
    <3> QED
      BY <2>1, <2>2, <3>1, ChatAssumption DEF Thread
  <2>4. UNCHANGED <<row, answer, started, now>>
    BY <1>2 DEF Disconnect, env, ghosts
  <2>5. CASE Executing(d)
    BY <2>2, <2>3, <2>4, <2>5, WorkKeepsInv DEF Works, Executing
  <2>6. CASE ~Executing(d)
    <3>1. ~Executing(d)'
      BY <2>1, <2>3, <2>6 DEF Executing
    <3>2. answer'[d] = None <=> thread'[d].phase # "tell"
      BY <2>1, <2>3, <2>4 DEF ChatInv, AnsweredLast
    <3> QED
      BY <2>2, <2>4, <2>6, <3>1, <3>2, IdleKeepsInv
  <2> QED
    BY <2>5, <2>6
<1>3. CASE Logout
  BY <1>3 DEF Logout, ghosts, ChatInv, ExecutorOwnsRow, RowsAreDated, InTime, AnsweredLast,
              OpenRowsAreWorkedOn, Executing
<1>4. CASE Tick
  <2>1. /\ UNCHANGED <<row, thread, answer, started>> /\ now' = now + 1 /\ now \in Nat
        /\ \A d \in Deliveries : Executing(d) => now < started[thread[d].message] + Retention
    BY <1>4, ChatAssumption DEF Tick, ghosts, ChatTypeOK
  <2>2. \A d \in Deliveries : Executing(d)' <=> Executing(d)
    BY <2>1 DEF Executing
  <2>3. ExecutorOwnsRow' /\ AnsweredLast' /\ OpenRowsAreWorkedOn'
    BY <2>1 DEF ChatInv, ExecutorOwnsRow, AnsweredLast, OpenRowsAreWorkedOn, Executing
  <2>4. RowsAreDated'
    BY <2>1, ChatAssumption DEF ChatInv, RowsAreDated, ChatTypeOK
  <2>5. InTime'
    <3>1. ASSUME NEW d \in Deliveries, Executing(d)
          PROVE  /\ started[thread[d].message] # None
                 /\ now + 1 <= started[thread[d].message] + Retention
      <4>1. started[thread[d].message] \in Nat
        BY <3>1, ThreadTypes DEF Executing, ChatInv, InTime, ChatTypeOK
      <4> QED
        BY <2>1, <3>1, <4>1, ChatAssumption
    <3> QED
      BY <2>1, <2>2, <3>1 DEF InTime
  <2> QED
    BY <2>3, <2>4, <2>5 DEF ChatInv
<1>5. CASE Crash
  <2>1. /\ UNCHANGED <<row, started, now>>
        /\ \A d \in Deliveries : /\ thread'[d] = None
                                 /\ thread[d] # None => answer'[d] = Lost
                                 /\ thread[d] = None => answer'[d] = answer[d]
    BY <1>5 DEF Crash, ghosts
  <2>2. ExecutorOwnsRow' /\ InTime' /\ AnsweredLast'
    BY <2>1 DEF ExecutorOwnsRow, InTime, AnsweredLast, Executing
  <2>3. RowsAreDated'
    BY <2>1 DEF ChatInv, RowsAreDated
  <2>4. OpenRowsAreWorkedOn'
    <3>1. ASSUME NEW n \in Messages, row[n] # None, row[n].status = "processing"
          PROVE  answer'[row[n].by] = Lost
      <4>1. row[n].by \in Deliveries
        BY <3>1 DEF ChatTypeOK, Row
      <4> QED
        BY <2>1, <3>1, <4>1 DEF ChatInv, OpenRowsAreWorkedOn, Executing
    <3> QED
      BY <2>1, <3>1 DEF OpenRowsAreWorkedOn
  <2> QED
    BY <2>2, <2>3, <2>4 DEF ChatInv
<1> QED
  BY <1>1, <1>2, <1>3, <1>4, <1>5

(* The invariant holds throughout.                                          *)
THEOREM ChatInvariance ==
    ASSUME ~LongRuns
    PROVE  Spec => []ChatInv
<1>1. Init => ChatInv
  BY DEF Init, ChatInv, ExecutorOwnsRow, RowsAreDated, InTime, AnsweredLast,
         OpenRowsAreWorkedOn, Executing
<1>2. ChatTypeOK /\ ChatInv /\ [Next]_vars => ChatInv'
  <2>1. ChatInv /\ UNCHANGED vars => ChatInv'
    BY DEF vars, ChatInv, ExecutorOwnsRow, RowsAreDated, InTime, AnsweredLast,
           OpenRowsAreWorkedOn, Executing
  <2> QED
    BY <2>1, StepKeepsInv, EnvironmentKeepsInv DEF Next
<1> QED
  BY <1>1, <1>2, ChatTypeInvariance, PTL DEF Spec

-----------------------------------------------------------------------------
(* Whatever the number of resends, transports and crashes, no two           *)
(* deliveries execute one message at the same time.                         *)
THEOREM NoTwoExecutions ==
    ASSUME ~LongRuns
    PROVE  Spec => []OneExecution
<1>1. ChatTypeOK /\ ChatInv => OneExecution
  BY OneRowEach
<1> QED
  BY <1>1, ChatTypeInvariance, ChatInvariance, PTL

(* A message is reserved anew only when the row of its last reservation is  *)
(* past retention.                                                          *)
THEOREM NoSecondExecution ==
    ASSUME ~LongRuns
    PROVE  Spec => NeverAgainSoon
<1>1. ChatTypeOK /\ ChatInv /\ [Next]_vars =>
        [\A m \in Messages : started'[m] # started[m] /\ started[m] # None
                             => now > started[m] + Retention]_vars
  <2>1. ASSUME ChatTypeOK, ChatInv, NEW d \in Deliveries, Reserve(d), NEW m \in Messages,
               started'[m] # started[m], started[m] # None
        PROVE  now > started[m] + Retention
    <3>1. m = thread[d].message /\ row[m] = None
      BY <2>1 DEF Reserve, ChatTypeOK
    <3> QED
      BY <2>1, <3>1 DEF ChatInv, RowsAreDated
  <2>2. ASSUME Next, started' # started
        PROVE  \E d \in Deliveries : Reserve(d)
    BY <2>2 DEF Next, Arrival, Arrive, Step, Duplicate, Prune, Ack, Revalidate, Produce,
                Check, Send, Flush, Fail, Store, Tell, Disconnect, Logout, Tick, Crash, ghosts
  <2> QED
    BY <2>1, <2>2
<1> QED
  BY <1>1, ChatTypeInvariance, ChatInvariance, PTL DEF Spec, NeverAgainSoon

-----------------------------------------------------------------------------
(* The reply of a revoked session is withheld: the session has not been     *)
(* revoked when the check before sending is passed, so it had not been when *)
(* the chunk was produced.                                                  *)
WithheldInv ==
    /\ RevokedIsWithheld
    /\ authorized => \A d \in Deliveries : timely[d]

(* One delivery's thread changes in a step.                                 *)
LEMMA OneThread ==
    ASSUME ChatTypeOK, NEW d \in Deliveries, Step(d) \/ Disconnect(d)
    PROVE  \A e \in Deliveries \ {d} : thread'[e] = thread[e]
BY DEF ChatTypeOK, Step, Reserve, Duplicate, Prune, Ack, Revalidate, Produce, Check, Send,
       Flush, Fail, Store, Tell, Disconnect, Goto, Failing, Vanish

(* Where a handler's thread stands after it has moved.                      *)
LEMMA Moves ==
    ASSUME ChatTypeOK, NEW d \in Deliveries, thread[d] # None
    PROVE  /\ \A phase \in Phases : Goto(d, phase) =>
                /\ thread'[d] # None /\ thread'[d].phase = phase
                /\ thread'[d].transport = thread[d].transport
           /\ \A code \in Codes : Failing(d, code) =>
                thread'[d] # None /\ thread'[d].phase = "fail"
           /\ Vanish(d) => thread'[d] = None
<1>0. thread[d] \in Thread /\ thread \in [Deliveries -> Thread \cup {None}]
  BY DEF ChatTypeOK
<1>1. ASSUME NEW phase \in Phases, Goto(d, phase)
      PROVE  /\ thread'[d] # None /\ thread'[d].phase = phase
             /\ thread'[d].transport = thread[d].transport
  <2>1. thread'[d] = [thread[d] EXCEPT !.phase = phase]
    BY <1>0, <1>1 DEF Goto
  <2>2. [thread[d] EXCEPT !.phase = phase] \in Thread
    BY <1>0 DEF Thread
  <2> QED
    BY <1>0, <2>1, <2>2, ChatAssumption DEF Thread
<1>2. ASSUME NEW code \in Codes, Failing(d, code)
      PROVE  thread'[d] # None /\ thread'[d].phase = "fail"
  <2>1. thread'[d] = [thread[d] EXCEPT !.phase = "fail", !.code = code]
    BY <1>0, <1>2 DEF Failing
  <2>2. [thread[d] EXCEPT !.phase = "fail", !.code = code] \in Thread
    BY <1>0 DEF Thread, Phases
  <2> QED
    BY <1>0, <2>1, <2>2, ChatAssumption DEF Thread
<1>3. Vanish(d) => thread'[d] = None
  BY <1>0 DEF Vanish
<1> QED
  BY <1>1, <1>2, <1>3

\* The states RevokedIsWithheld is about.
Leaving(d) == At(d, "send") \/ (At(d, "store") /\ thread[d].transport = "http")

(* A handler comes to send or store a reply by way of the check.            *)
LEMMA LeavingWasChecked ==
    ASSUME ChatTypeOK, NEW d \in Deliveries, Step(d), Leaving(d)'
    PROVE  \/ Check(d) /\ authorized
           \/ UNCHANGED thread /\ Leaving(d)
<1>0. thread[d] # None /\ thread[d] \in Thread
  <2>1. thread[d] # None
    BY DEF Step, Reserve, Duplicate, Prune, Ack, Revalidate, Produce, Check, Send, Flush,
           Fail, Store, Tell, At
  <2> QED
    BY <2>1 DEF ChatTypeOK
<1>1. thread'[d] # None /\ thread'[d].phase \in {"send", "store"}
      /\ (thread'[d].phase = "store" => thread'[d].transport = "http")
  BY DEF Leaving, At
<1>2. \A phase \in {"prune", "ack", "run", "produce", "check", "tell"} : ~Goto(d, phase)
  BY <1>0, <1>1, Moves DEF Phases
<1>3. ~Vanish(d) /\ \A code \in Codes : ~Failing(d, code)
  BY <1>0, <1>1, Moves
<1>4. ~Produce(d)
  <2>1. ASSUME Produce(d), thread[d].transport # "http" PROVE FALSE
    <3>1. CASE thread' = [thread EXCEPT ![d].phase = "check", ![d].chunks = @ + 1]
      <4>1. thread'[d] = [thread[d] EXCEPT !.phase = "check", !.chunks = thread[d].chunks + 1]
        BY <1>0, <3>1 DEF ChatTypeOK, Thread
      <4>2. thread'[d].phase = "check"
        BY <1>0, <4>1 DEF Thread
      <4> QED
        BY <1>1, <4>2
    <3>2. CASE Goto(d, "store")
      <4>1. thread'[d].phase = "store" /\ thread'[d].transport = thread[d].transport
        BY <1>0, <3>2, Moves DEF Phases
      <4> QED
        BY <1>1, <2>1, <4>1
    <3> QED
      BY <1>3, <2>1, <3>1, <3>2 DEF Produce, Codes
  <2>2. ASSUME Produce(d), thread[d].transport = "http" PROVE FALSE
    BY <1>2, <1>3, <2>2 DEF Produce, Codes
  <2> QED
    BY <2>1, <2>2
<1>5. ~Prune(d)
  BY <1>2 DEF Prune
<1>6. ~Revalidate(d) /\ ~Ack(d) /\ ~Duplicate(d) /\ ~Reserve(d) /\ ~Store(d) /\ ~Send(d) /\ ~Flush(d)
  BY <1>2, <1>3 DEF Revalidate, Ack, Duplicate, Reserve, Store, Send, Flush, Codes
<1>7. ~Fail(d)
  BY <1>2, <1>3 DEF Fail
<1>8. ~Tell(d)
  <2>1. thread' # [thread EXCEPT ![d] = None]
    BY <1>1 DEF ChatTypeOK
  <2> QED
    BY <1>3, <2>1 DEF Tell
<1>9. Check(d) => authorized
  BY <1>3 DEF Check, Codes
<1> QED
  BY <1>4, <1>5, <1>6, <1>7, <1>8, <1>9 DEF Step

(* No chunk and no reply leaves the server that the Assistant produced      *)
(* after the logout.                                                        *)
THEOREM RevokedRepliesStay == Spec => []RevokedIsWithheld
<1>1. Init => WithheldInv
  BY DEF Init, WithheldInv, RevokedIsWithheld, At
<1>2. ChatTypeOK /\ WithheldInv /\ [Next]_vars => WithheldInv'
  <2>0. SUFFICES ASSUME ChatTypeOK, WithheldInv, [Next]_vars PROVE WithheldInv'
    OBVIOUS
  <2>1. WithheldInv <=> /\ \A e \in Deliveries : Leaving(e) => timely[e]
                        /\ authorized => \A e \in Deliveries : timely[e]
    BY DEF WithheldInv, RevokedIsWithheld, Leaving
  <2>2. CASE UNCHANGED vars
    BY <2>0, <2>2 DEF vars, WithheldInv, RevokedIsWithheld, At
  <2>3. ASSUME NEW d \in Deliveries, Step(d) PROVE WithheldInv'
    <3>1. \A e \in Deliveries \ {d} : timely'[e] = timely[e] /\ (Leaving(e)' <=> Leaving(e))
      <4>1. \A e \in Deliveries \ {d} : thread'[e] = thread[e]
        BY <2>0, <2>3, OneThread
      <4>2. \A e \in Deliveries \ {d} : timely'[e] = timely[e]
        BY <2>0, <2>3 DEF ChatTypeOK, Step, Reserve, Duplicate, Prune, Ack, Revalidate, Produce,
               Check, Send, Flush, Fail, Store, Tell, ghosts
      <4> QED
        BY <4>1, <4>2 DEF Leaving, At
    <3>2. timely'[d] = timely[d] \/ timely'[d] = authorized
      BY <2>0, <2>3 DEF ChatTypeOK, Step, Reserve, Duplicate, Prune, Ack, Revalidate, Produce,
             Check, Send, Flush, Fail, Store, Tell, ghosts
    <3>3. authorized' = authorized
      BY <2>3 DEF Step, Reserve, Duplicate, Prune, Ack, Revalidate, Produce,
             Check, Send, Flush, Fail, Store, Tell, env
    <3>4. Leaving(d)' => timely'[d]
      <4>1. CASE Check(d) /\ authorized
        BY <2>0, <2>1, <3>2, <4>1
      <4>2. CASE UNCHANGED thread /\ Leaving(d)
        <5>1. ~Produce(d)
          BY <4>2 DEF Leaving, Produce, At
        <5>2. timely' = timely
          BY <2>3, <5>1 DEF Step, Reserve, Duplicate, Prune, Ack, Revalidate,
                 Check, Send, Flush, Fail, Store, Tell, ghosts
        <5> QED
          BY <2>0, <2>1, <4>2, <5>2
      <4> QED
        BY <2>0, <2>3, <4>1, <4>2, LeavingWasChecked
    <3> QED
      <4>1. \A e \in Deliveries : Leaving(e)' => timely'[e]
        BY <2>0, <2>1, <3>1, <3>4
      <4>2. authorized' => \A e \in Deliveries : timely'[e]
        BY <2>0, <2>1, <3>1, <3>2, <3>3
      <4> QED
        BY <4>1, <4>2 DEF WithheldInv, RevokedIsWithheld, Leaving
  <2>4. ASSUME NEW d \in Deliveries, NEW t \in Transports, NEW m \in Messages,
               NEW p \in Payloads, Arrive(d, t, m, p)
        PROVE  WithheldInv'
    <3>1. thread'[d].phase = "reserve" /\ \A e \in Deliveries \ {d} : thread'[e] = thread[e]
      BY <2>0, <2>4 DEF Arrive, ChatTypeOK
    <3>2. UNCHANGED <<timely, authorized>>
      BY <2>4 DEF Arrive, env, ghosts
    <3>3. \A e \in Deliveries : Leaving(e)' => Leaving(e)
      BY <3>1 DEF Leaving, At
    <3> QED
      BY <2>0, <2>1, <3>2, <3>3 DEF WithheldInv, RevokedIsWithheld, Leaving
  <2>5. ASSUME NEW d \in Deliveries, Disconnect(d) PROVE WithheldInv'
    <3>1. /\ thread[d] # None /\ thread[d] \in Thread
          /\ thread'[d] = [thread[d] EXCEPT !.gone = TRUE]
      BY <2>0, <2>5 DEF Disconnect, ChatTypeOK
    <3>2. thread'[d].phase = thread[d].phase /\ thread'[d].transport = thread[d].transport
      BY <3>1 DEF Thread
    <3>3. \A e \in Deliveries : Leaving(e)' => Leaving(e)
      BY <2>0, <2>5, <3>1, <3>2, OneThread DEF Leaving, At
    <3>4. UNCHANGED <<timely, authorized>>
      BY <2>5 DEF Disconnect, env, ghosts
    <3> QED
      BY <2>0, <2>1, <3>3, <3>4 DEF WithheldInv, RevokedIsWithheld, Leaving
  <2>6. CASE Logout \/ Tick \/ Crash
    <3>1. \A e \in Deliveries : Leaving(e)' => Leaving(e)
      BY <2>6 DEF Logout, Tick, Crash, Leaving, At
    <3>2. UNCHANGED timely /\ (authorized' => authorized)
      BY <2>6 DEF Logout, Tick, Crash, ghosts
    <3> QED
      BY <2>0, <2>1, <3>1, <3>2 DEF WithheldInv, RevokedIsWithheld, Leaving
  <2> QED
    BY <2>0, <2>2, <2>3, <2>4, <2>5, <2>6 DEF Next, Arrival
<1>3. WithheldInv => RevokedIsWithheld
  BY DEF WithheldInv
<1> QED
  BY <1>1, <1>2, <1>3, ChatTypeInvariance, PTL DEF Spec

-----------------------------------------------------------------------------
(* The invariant once more, as OneAnswer sees it.                           *)
LEMMA SeenFields ==
    ASSUME ChatTypeOK
    PROVE  /\ \A m \in Messages : row[m] # None =>
                /\ EntryOf(row[m]) # None /\ EntryOf(row[m]).by = row[m].by
                /\ row[m].by \in Deliveries
                /\ EntryOf(row[m]).state = IF row[m].status = "processing" THEN "open"
                                           ELSE row[m].status
           /\ \A a \in Answer : AnswerOf(a) # None /\ AnswerOf(a) = [by |-> a.by, state |-> a.state]
<1>1. ASSUME NEW m \in Messages, row[m] # None
      PROVE  /\ EntryOf(row[m]) # None /\ EntryOf(row[m]).by = row[m].by
             /\ row[m].by \in Deliveries
             /\ EntryOf(row[m]).state = IF row[m].status = "processing" THEN "open"
                                        ELSE row[m].status
  <2>1. row[m] \in Row
    BY <1>1 DEF ChatTypeOK
  <2>2. row[m].status \in {"processing", "completed", "failed"} /\ row[m].by \in Deliveries
    BY <2>1 DEF Row
  <2>3. EntryOf(row[m]) = [by |-> row[m].by,
                           state |-> IF row[m].status = "processing" THEN "open" ELSE row[m].status]
    BY <1>1 DEF EntryOf
  <2>4. EntryOf(row[m]) \in [by: Deliveries \cup {None}, state: MessageStates]
    BY <2>2, <2>3 DEF MessageStates
  <2> QED
    BY <2>2, <2>3, <2>4, ChatAssumption
<1>2. ASSUME NEW a \in Answer
      PROVE  AnswerOf(a) # None /\ AnswerOf(a) = [by |-> a.by, state |-> a.state]
  <2>1. a # None /\ a.by \in Deliveries \cup {None}
        /\ a.state \in {"completed", "failed", "refused", "lost"}
    BY ChatAssumption DEF Answer
  <2>2. AnswerOf(a) = [by |-> a.by, state |-> a.state]
    BY <2>1 DEF AnswerOf
  <2>3. AnswerOf(a) \in [by: Deliveries \cup {None}, state: MessageStates]
    BY <2>1, <2>2 DEF MessageStates
  <2> QED
    BY <2>2, <2>3, ChatAssumption
<1> QED
  BY <1>1, <1>2

(* A reservation opens its message.                                         *)
LEMMA ReserveOpens ==
    ASSUME ChatTypeOK, ChatInv, NEW d \in Deliveries, Reserve(d)
    PROVE  Promise!Open(d, thread[d].message)
<1> DEFINE m == thread[d].message
<1>1. thread[d] # None /\ m \in Messages /\ row[m] = None /\ answer[d] = None
  BY ThreadTypes DEF Reserve, At, ChatInv, AnsweredLast
<1>2. row' = [row EXCEPT ![m] = NewRow(d)] /\ UNCHANGED answer
  BY DEF Reserve
<1>3. EntryOf(NewRow(d)) = [by |-> d, state |-> "open"]
  <2>1. NewRow(d) \in Row
    <3>1. now \in Nat
      BY ChatAssumption DEF ChatTypeOK
    <3>2. thread[d].payload \in Payloads
      BY <1>1, ThreadTypes DEF Thread
    <3> QED
      BY <3>1, <3>2 DEF NewRow, Row
  <2> QED
    BY <2>1, ChatAssumption DEF EntryOf, NewRow
<1>4. [n \in Messages |-> EntryOf(row'[n])]
        = [[n \in Messages |-> EntryOf(row[n])] EXCEPT ![m] = [by |-> d, state |-> "open"]]
  BY <1>1, <1>2, <1>3 DEF ChatTypeOK
<1> QED
  BY <1>1, <1>2, <1>4 DEF Promise!Open, EntryOf, AnswerOf

(* A resend is told the outcome, or refused.                                *)
LEMMA DuplicateReplays ==
    ASSUME ChatTypeOK, ChatInv, NEW d \in Deliveries, Duplicate(d)
    PROVE  Promise!Replay(d, thread[d].message) \/ Promise!Refuse(d)
<1> DEFINE m == thread[d].message
           v == Verdict(d)
<1>1. thread[d] # None /\ m \in Messages /\ row[m] # None /\ answer[d] = None
  BY ThreadTypes DEF Duplicate, At, ChatInv, AnsweredLast
<1>2. answer' = [answer EXCEPT ![d] = v] /\ UNCHANGED row
  BY DEF Duplicate
<1>3. v \in Answer /\ row[m] \in Row
  BY <1>1, VerdictTypes DEF ChatTypeOK
<1>4. [e \in Deliveries |-> AnswerOf(answer'[e])]
        = [[e \in Deliveries |-> AnswerOf(answer[e])] EXCEPT ![d] = AnswerOf(v)]
  BY <1>1, <1>2 DEF ChatTypeOK
<1>5. CASE row[m].payload = thread[d].payload /\ row[m].status # "processing"
  <2>1. v.by = row[m].by /\ v.state = row[m].status
    BY <1>3, <1>5 DEF Verdict, Row
  <2>2. EntryOf(row[m]) = [by |-> row[m].by, state |-> row[m].status]
    BY <1>1, <1>5 DEF EntryOf
  <2>3. AnswerOf(v) = EntryOf(row[m])
    BY <1>3, <2>1, <2>2, SeenFields
  <2>4. EntryOf(row[m]) # None /\ EntryOf(row[m]).state \in {"completed", "failed"}
    BY <1>1, <1>3, <1>5, SeenFields DEF Row
  <2>5. Promise!Replay(d, m)
    BY <1>1, <1>2, <1>4, <2>3, <2>4 DEF Promise!Replay, Promise!Outcomes, AnswerOf
  <2> QED
    BY <2>5
<1>6. CASE ~(row[m].payload = thread[d].payload /\ row[m].status # "processing")
  <2>1. v.by = None /\ v.state = "refused"
    BY <1>3, <1>6 DEF Verdict, Refusal, Row
  <2>2. AnswerOf(v) = [by |-> None, state |-> "refused"]
    BY <1>3, <2>1, SeenFields
  <2>3. Promise!Refuse(d)
    BY <1>1, <1>2, <1>4, <2>2 DEF Promise!Refuse, Promise!Refused, AnswerOf
  <2> QED
    BY <2>3
<1> QED
  BY <1>5, <1>6

(* Pruning forgets messages nobody works on.                                *)
LEMMA PruneForgets ==
    ASSUME ChatTypeOK, ChatInv, UNCHANGED answer,
           row' = [m \in Messages |-> IF Expired(m) THEN None ELSE row[m]]
    PROVE  Promise!Forget({m \in Messages : Expired(m)})
<1>1. ASSUME NEW m \in Messages, Expired(m), row[m].status = "processing"
      PROVE  row[m] # None /\ answer[row[m].by] = Lost
  <2>1. row[m] # None /\ row[m] \in Row
    BY <1>1 DEF Expired, ChatTypeOK
  <2>2. row[m].created \in Nat /\ started[m] = row[m].created
    BY <2>1 DEF Row, ChatInv, RowsAreDated
  <2>3. ~(Executing(row[m].by) /\ thread[row[m].by].message = m)
    BY <1>1, <2>1, <2>2, ChatAssumption DEF Row, ChatInv, InTime, Expired, ChatTypeOK
  <2> QED
    BY <1>1, <2>1, <2>3 DEF ChatInv, OpenRowsAreWorkedOn
<1>2. ASSUME NEW m \in Messages, Expired(m), EntryOf(row[m]).state = "open"
      PROVE  AnswerOf(answer[EntryOf(row[m]).by]) = [by |-> None, state |-> "lost"]
  <2>1. row[m] # None /\ row[m] \in Row
    BY <1>2 DEF Expired, ChatTypeOK
  <2>2. row[m].status = "processing" /\ EntryOf(row[m]).by = row[m].by
    BY <1>2, <2>1, SeenFields DEF Row
  <2>3. Lost \in Answer
    BY DEF Lost, Answer
  <2> QED
    BY <1>1, <1>2, <2>2, <2>3, SeenFields DEF Lost
<1>3. \A m \in Messages : EntryOf(row'[m]) = IF Expired(m) THEN None ELSE EntryOf(row[m])
  BY DEF EntryOf
<1>4. [m \in Messages |-> EntryOf(row'[m])]
        = [m \in Messages |-> IF m \in {n \in Messages : Expired(n)} THEN None
                              ELSE EntryOf(row[m])]
  BY <1>3
<1>5. \A m \in Messages : Expired(m) => EntryOf(row[m]).by \in Deliveries
  BY SeenFields DEF Expired
<1> QED
  BY <1>2, <1>4, <1>5 DEF Promise!Forget, Promise!Lost

(* A delivery that has been told, or has gone, is lost to OneAnswer.        *)
LEMMA VanishLoses ==
    ASSUME ChatTypeOK, NEW d \in Deliveries, Vanish(d), UNCHANGED row
    PROVE  Promise!Lose({d})
<1>1. Lost \in Answer /\ AnswerOf(Lost) = [by |-> None, state |-> "lost"]
  <2>1. Lost \in Answer
    BY DEF Lost, Answer
  <2> QED
    BY <2>1, SeenFields DEF Lost
<1>2. \A e \in Deliveries : answer'[e] = IF e = d THEN Lost ELSE answer[e]
  BY DEF Vanish, ChatTypeOK
<1> QED
  BY <1>1, <1>2 DEF Promise!Lose, Promise!Lost

(* Failing and storing settle the message of the delivery.                  *)
LEMMA EndSettles ==
    ASSUME ChatTypeOK, ChatInv, NEW d \in Deliveries, Executing(d),
           NEW status \in {"completed", "failed"}, NEW code \in Codes \cup {None},
           Finish(d, status, code),
           NEW a \in Answer, answer' = [answer EXCEPT ![d] = a],
           a = Lost \/ (a.by = d /\ a.state = status)
    PROVE  Promise!Settle(thread[d].message, status)
<1> DEFINE m == thread[d].message
<1>1. /\ m \in Messages /\ row[m] # None /\ row[m].by = d /\ row[m].status = "processing"
      /\ row'[m] # None /\ row'[m].status = status /\ row'[m].by = d
      /\ \A n \in Messages \ {m} : row'[n] = row[n]
  BY FinishSettles
<1>2. answer[d] = None
  BY DEF Executing, ChatInv, AnsweredLast
<1>3. EntryOf(row[m]) # None /\ EntryOf(row[m]).state = "open" /\ EntryOf(row[m]).by = d
  BY <1>1, SeenFields
<1>4. /\ EntryOf(row[m]) = [by |-> d, state |-> "open"]
      /\ EntryOf(row'[m]) = [by |-> d, state |-> status]
  BY <1>1 DEF EntryOf
<1>5. [n \in Messages |-> EntryOf(row'[n])]
        = [[n \in Messages |-> EntryOf(row[n])] EXCEPT ![m].state = status]
  <2>1. [EntryOf(row[m]) EXCEPT !.state = status] = EntryOf(row'[m])
    BY <1>4
  <2> QED
    BY <1>1, <2>1
<1>6. AnswerOf(a) \in {[by |-> d, state |-> status], [by |-> None, state |-> "lost"]}
  BY SeenFields DEF Lost
<1>7. [e \in Deliveries |-> AnswerOf(answer'[e])]
        = [[e \in Deliveries |-> AnswerOf(answer[e])] EXCEPT ![d] = AnswerOf(a)]
  BY DEF ChatTypeOK
<1>8. AnswerOf(answer[d]) = None
  BY <1>2 DEF AnswerOf
<1> QED
  BY <1>1, <1>3, <1>5, <1>6, <1>7, <1>8 DEF Promise!Settle, Promise!Lost

(* Every step of the chat is one of OneAnswer, or none.                     *)
LEMMA StepRefines ==
    ASSUME ChatTypeOK, ChatInv, NEW d \in Deliveries, Step(d)
    PROVE  Promise!Next \/ UNCHANGED <<row, answer>>
<1>0. thread[d] # None /\ thread[d].message \in Messages /\ thread[d].code \in Codes \cup {None}
  <2>1. thread[d] # None
    BY DEF Step, Reserve, Duplicate, Prune, Ack, Revalidate, Produce, Check, Send, Flush,
           Fail, Store, Tell, At
  <2> QED
    BY <2>1, ThreadTypes DEF Thread
<1>l. Lost \in Answer
  BY DEF Lost, Answer
<1>1. CASE Reserve(d)
  BY <1>0, <1>1, ReserveOpens DEF Promise!Next
<1>2. CASE Duplicate(d)
  BY <1>0, <1>2, DuplicateReplays DEF Promise!Next
<1>3. CASE Prune(d)
  <2>1. {m \in Messages : Expired(m)} \in SUBSET Messages
    OBVIOUS
  <2> QED
    BY <1>3, <2>1, PruneForgets DEF Prune, Promise!Next
<1>4. CASE Ack(d)
  <2>1. {d} \in SUBSET Deliveries
    OBVIOUS
  <2> QED
    BY <1>4, <2>1, VanishLoses DEF Ack, Promise!Next
<1>5. CASE Revalidate(d) \/ Produce(d) \/ Check(d) \/ Send(d) \/ Flush(d)
  BY <1>5 DEF Revalidate, Produce, Check, Send, Flush
<1>6. CASE Fail(d)
  <2>1. Executing(d) /\ Finish(d, "failed", thread[d].code)
    BY <1>6 DEF Fail, At, Executing
  <2>2. CASE Vanish(d)
    BY <1>0, <1>l, <2>1, <2>2, EndSettles DEF Vanish, Promise!Next, Promise!Outcomes
  <2>3. CASE answer' = [answer EXCEPT ![d] =
                   [by |-> d, state |-> "failed", code |-> thread[d].code]]
    <3>1. [by |-> d, state |-> "failed", code |-> thread[d].code] \in Answer
      BY <1>0 DEF Answer
    <3>2. Promise!Settle(thread[d].message, "failed")
      BY <1>0, <2>1, <2>3, <3>1, EndSettles
    <3> QED
      BY <1>0, <3>2 DEF Promise!Next, Promise!Outcomes
  <2> QED
    BY <1>6, <2>2, <2>3 DEF Fail
<1>7. CASE Store(d)
  <2>1. Executing(d) /\ Finish(d, "completed", None)
    BY <1>7 DEF Store, At, Executing
  <2>2. [by |-> d, state |-> "completed", code |-> None] \in Answer
    BY DEF Answer
  <2>3. Promise!Settle(thread[d].message, "completed")
    BY <1>7, <2>1, <2>2, EndSettles DEF Store
  <2> QED
    BY <1>0, <2>3 DEF Promise!Next, Promise!Outcomes
<1>8. CASE Tell(d)
  <2>1. {d} \in SUBSET Deliveries
    OBVIOUS
  <2> QED
    BY <1>8, <2>1, VanishLoses DEF Tell, Promise!Next
<1> QED
  BY <1>1, <1>2, <1>3, <1>4, <1>5, <1>6, <1>7, <1>8 DEF Step

(* The handlers of three transports and their table, crashing and pruning,  *)
(* keep the promise of OneAnswer.                                           *)
THEOREM ChatImplementsOneAnswer ==
    ASSUME ~LongRuns
    PROVE  Spec => KeepsPromise
<1>1. Init => Promise!Init
  BY DEF Init, Promise!Init, EntryOf, AnswerOf
<1>2. ChatTypeOK /\ ChatInv /\ [Next]_vars
        => [Promise!Next]_<<[m \in Messages |-> EntryOf(row[m])],
                            [d \in Deliveries |-> AnswerOf(answer[d])]>>
  <2>1. ASSUME ChatTypeOK, Crash
        PROVE  Promise!Lose({d \in Deliveries : thread[d] # None})
    <3>1. Lost \in Answer /\ AnswerOf(Lost) = [by |-> None, state |-> "lost"]
      <4>1. Lost \in Answer
        BY DEF Lost, Answer
      <4> QED
        BY <2>1, <4>1, SeenFields DEF Lost
    <3>2. /\ UNCHANGED row
          /\ \A d \in Deliveries : answer'[d] = IF thread[d] # None THEN Lost ELSE answer[d]
      BY <2>1 DEF Crash
    <3>3. \A d \in Deliveries : AnswerOf(answer'[d]) =
            IF thread[d] # None THEN [by |-> None, state |-> "lost"] ELSE AnswerOf(answer[d])
      BY <3>1, <3>2
    <3> QED
      BY <3>2, <3>3 DEF Promise!Lose, Promise!Lost
  <2>2. ChatTypeOK /\ Crash => Promise!Next
    <3>1. {d \in Deliveries : thread[d] # None} \in SUBSET Deliveries
      OBVIOUS
    <3> QED
      BY <2>1, <3>1 DEF Promise!Next
  <2>3. Arrival \/ (\E d \in Deliveries : Disconnect(d)) \/ Logout \/ Tick \/ UNCHANGED vars
          => UNCHANGED <<row, answer>>
    BY DEF Arrival, Arrive, Disconnect, Logout, Tick, vars
  <2> QED
    BY <2>2, <2>3, StepRefines DEF Next
<1> QED
  BY <1>1, <1>2, ChatTypeInvariance, ChatInvariance, PTL DEF Spec, KeepsPromise, Promise!Spec

-----------------------------------------------------------------------------
(* What a replay says is what was settled.  Executions that outlive their   *)
(* row are no exception: whoever has been replayed is done and settles      *)
(* nothing any more.                                                        *)

\* Who settled a row has its answer, and so has whoever is replayed to others.
SettlersAreDone ==
    /\ \A m \in Messages : row[m] # None /\ row[m].status # "processing" => answer[row[m].by] # None
    /\ \A d \in Deliveries :
         answer[d] # None /\ answer[d].by \notin {None, d} => answer[answer[d].by] # None

ReplayInv == AnsweredLast /\ SettlersAreDone /\ ReplaysMatch

(* A step that replays nothing: rows are deleted, or written by a delivery  *)
(* without an answer; answers are a delivery's own.                         *)
LEMMA WithoutReplay ==
    ASSUME ChatTypeOK, ChatTypeOK', ReplayInv,
           \A m \in Messages :
             \/ row'[m] = row[m] \/ row'[m] = None
             \/ /\ row'[m] # None /\ answer[row'[m].by] = None
                /\ row'[m].status = "processing" \/ answer'[row'[m].by] # None,
           \A d \in Deliveries :
             answer'[d] = answer[d] \/ (answer'[d] # None /\ answer'[d].by \in {None, d}),
           \A d \in Deliveries : thread'[d] # None =>
             /\ answer'[d] = None <=> thread'[d].phase # "tell"
             /\ thread'[d].phase = "tell" =>
                  \/ answer'[d].by \in {None, d}
                  \/ /\ thread[d] # None /\ thread[d].phase = "tell"
                     /\ thread'[d].message = thread[d].message
                     /\ thread'[d].payload = thread[d].payload
    PROVE  ReplayInv'
<1>1. AnsweredLast'
  BY DEF AnsweredLast
<1>2. \A d \in Deliveries : answer[d] # None => answer'[d] # None
  OBVIOUS
<1>3. SettlersAreDone'
  <2>1. ASSUME NEW m \in Messages, row'[m] # None, row'[m].status # "processing"
        PROVE  answer'[row'[m].by] # None
    <3>1. row'[m].by \in Deliveries
      BY <2>1 DEF ChatTypeOK, Row
    <3> QED
      BY <1>2, <2>1, <3>1 DEF ReplayInv, SettlersAreDone
  <2>2. ASSUME NEW d \in Deliveries, answer'[d] # None, answer'[d].by \notin {None, d}
        PROVE  answer'[answer'[d].by] # None
    <3>1. answer'[d] = answer[d] /\ answer[d].by \in Deliveries
      BY <2>2 DEF ChatTypeOK, Answer
    <3> QED
      BY <1>2, <2>2, <3>1 DEF ReplayInv, SettlersAreDone
  <2> QED
    BY <2>1, <2>2 DEF SettlersAreDone
<1>4. ReplaysMatch'
  <2> SUFFICES ASSUME NEW d \in Deliveries, At(d, "tell")', answer'[d].by \notin {None, d},
                      row'[thread'[d].message] # None,
                      row'[thread'[d].message].by = answer'[d].by
               PROVE  /\ row'[thread'[d].message].payload = thread'[d].payload
                      /\ row'[thread'[d].message].status = answer'[d].state
    BY Zenon DEF ReplaysMatch
  <2>1. /\ thread'[d] # None /\ thread'[d].phase = "tell" /\ answer'[d] # None
        /\ answer'[d] = answer[d]
        /\ thread[d] # None /\ thread[d].phase = "tell"
        /\ thread'[d].message = thread[d].message /\ thread'[d].payload = thread[d].payload
    BY DEF At
  <2>2. thread[d].message \in Messages /\ answer[answer[d].by] # None
    BY <2>1 DEF ChatTypeOK, Thread, ReplayInv, SettlersAreDone
  <2>3. row'[thread[d].message] = row[thread[d].message]
    BY <2>1, <2>2
  <2> QED
    BY <2>1, <2>3 DEF ReplayInv, ReplaysMatch, At
<1> QED
  BY <1>1, <1>3, <1>4 DEF ReplayInv

(* The answer of a duplicate is read off the row it was refused by.         *)
LEMMA DuplicateMatches ==
    ASSUME ChatTypeOK, ChatTypeOK', ReplayInv, NEW d \in Deliveries, Duplicate(d)
    PROVE  ReplayInv'
<1> DEFINE r == row[thread[d].message]
<1>1. /\ thread[d] # None /\ thread[d] \in Thread /\ thread[d].message \in Messages
      /\ thread[d].phase = "reserve"
  BY ThreadTypes DEF Duplicate, At
<1>2. r # None /\ r \in Row /\ UNCHANGED row
  BY <1>1 DEF Duplicate, ChatTypeOK
<1>3. \A e \in Deliveries \ {d} : thread'[e] = thread[e] /\ answer'[e] = answer[e]
  BY DEF Duplicate, Goto, ChatTypeOK
<1>4. answer'[d] = Verdict(d) /\ answer[d] = None /\ Verdict(d) \in Answer /\ Verdict(d) # None
  <2>1. Verdict(d) \in Answer
    BY <1>1, <1>2, VerdictTypes
  <2> QED
    BY <1>1, <2>1, ChatAssumption DEF Duplicate, ChatTypeOK, ReplayInv, AnsweredLast
<1>5. thread'[d] = [thread[d] EXCEPT !.phase = "tell"] /\ thread'[d] \in Thread
  BY <1>1 DEF Duplicate, Goto, ChatTypeOK, Thread, Phases
<1>6. /\ thread'[d] # None /\ thread'[d].phase = "tell"
      /\ thread'[d].message = thread[d].message /\ thread'[d].payload = thread[d].payload
  BY <1>1, <1>5, ChatAssumption DEF Thread
<1>7. Verdict(d).by = None \/
        /\ r.payload = thread[d].payload /\ r.status # "processing"
        /\ Verdict(d).by = r.by /\ Verdict(d).state = r.status
  BY <1>2 DEF Verdict, Refusal, Row
<1>8. AnsweredLast'
  BY <1>3, <1>4, <1>6 DEF ReplayInv, AnsweredLast
<1>9. SettlersAreDone'
  <2>1. \A e \in Deliveries : answer[e] # None => answer'[e] # None
    BY <1>3, <1>4
  <2>2. ASSUME NEW m \in Messages, row'[m] # None, row'[m].status # "processing"
        PROVE  answer'[row'[m].by] # None
    <3>1. row'[m] = row[m] /\ row[m].by \in Deliveries
      BY <1>2, <2>2 DEF ChatTypeOK, Row
    <3> QED
      BY <2>1, <2>2, <3>1 DEF ReplayInv, SettlersAreDone
  <2>3. ASSUME NEW e \in Deliveries, answer'[e] # None, answer'[e].by \notin {None, e}
        PROVE  answer'[answer'[e].by] # None
    <3>1. CASE e = d
      BY <1>1, <1>2, <1>4, <1>7, <2>1, <2>3, <3>1 DEF ReplayInv, SettlersAreDone, Row
    <3>2. CASE e # d
      <4>1. answer'[e] = answer[e] /\ answer[e].by \in Deliveries
        BY <1>3, <2>3, <3>2 DEF ChatTypeOK, Answer
      <4> QED
        BY <2>1, <2>3, <4>1 DEF ReplayInv, SettlersAreDone
    <3> QED
      BY <3>1, <3>2
  <2> QED
    BY <2>2, <2>3 DEF SettlersAreDone
<1>10. ReplaysMatch'
  <2> SUFFICES ASSUME NEW e \in Deliveries, At(e, "tell")', answer'[e].by \notin {None, e},
                      row'[thread'[e].message] # None,
                      row'[thread'[e].message].by = answer'[e].by
               PROVE  /\ row'[thread'[e].message].payload = thread'[e].payload
                      /\ row'[thread'[e].message].status = answer'[e].state
    BY Zenon DEF ReplaysMatch
  <2>1. CASE e = d
    BY <1>2, <1>4, <1>6, <1>7, <2>1
  <2>2. CASE e # d
    BY <1>2, <1>3, <2>2 DEF ReplayInv, ReplaysMatch, At
  <2> QED
    BY <2>1, <2>2
<1> QED
  BY <1>8, <1>9, <1>10 DEF ReplayInv

(* Any other step of a handler is without replay.                           *)
LEMMA StepMatches ==
    ASSUME ChatTypeOK, ChatTypeOK', ReplayInv, NEW d \in Deliveries, Step(d)
    PROVE  ReplayInv'
<1>0. thread[d] # None /\ thread[d] \in Thread /\ thread[d].message \in Messages
  <2>1. thread[d] # None
    BY DEF Step, Reserve, Duplicate, Prune, Ack, Revalidate, Produce, Check, Send, Flush,
           Fail, Store, Tell, At
  <2> QED
    BY <2>1, ThreadTypes
<1>1. \A e \in Deliveries \ {d} : thread'[e] = thread[e] /\ answer'[e] = answer[e]
  <2>1. \A e \in Deliveries \ {d} : answer'[e] = answer[e]
    BY DEF ChatTypeOK, Step, Reserve, Duplicate, Prune, Ack, Revalidate, Produce, Check, Send,
           Flush, Fail, Store, Tell, Vanish
  <2> QED
    BY <2>1, OneThread
<1>2. Lost.by = None /\ Lost # None
  <2>1. Lost \in Answer
    BY DEF Lost, Answer
  <2> QED
    BY <2>1, ChatAssumption DEF Lost
<1>3. thread[d].phase # "tell" => answer[d] = None
  BY <1>0 DEF ReplayInv, AnsweredLast
<1>v. Vanish(d) => thread'[d] = None /\ answer'[d] = Lost
  BY DEF Vanish, ChatTypeOK
<1>4. CASE Reserve(d)
  <2>1. NewRow(d) \in Row /\ NewRow(d) # None
    BY <1>0, ChatAssumption DEF NewRow, Row, Thread, ChatTypeOK
  <2>2. \A m \in Messages : row'[m] = IF m = thread[d].message THEN NewRow(d) ELSE row[m]
    BY <1>0, <1>4 DEF Reserve, ChatTypeOK
  <2>3. NewRow(d).by = d /\ NewRow(d).status = "processing" /\ answer[d] = None
    BY <1>3, <1>4 DEF NewRow, Reserve, At
  <2>4. thread'[d] # None /\ thread'[d].phase = "prune" /\ answer' = answer
    BY <1>0, <1>4, Moves DEF Reserve, Phases
  <2>5. \A m \in Messages :
          \/ row'[m] = row[m] \/ row'[m] = None
          \/ /\ row'[m] # None /\ answer[row'[m].by] = None
             /\ row'[m].status = "processing" \/ answer'[row'[m].by] # None
    BY <2>1, <2>2, <2>3
  <2>6. \A e \in Deliveries : thread'[e] # None =>
          /\ answer'[e] = None <=> thread'[e].phase # "tell"
          /\ thread'[e].phase = "tell" => e # d /\ thread'[e] = thread[e]
    BY <1>1, <2>3, <2>4 DEF ReplayInv, AnsweredLast
  <2> QED
    BY <2>4, <2>5, <2>6, WithoutReplay
<1>5. CASE Duplicate(d)
  BY <1>5, DuplicateMatches
<1>6. CASE \/ Prune(d) \/ Revalidate(d) \/ Produce(d) \/ Check(d) \/ Send(d) \/ Flush(d)
           \/ Ack(d) /\ Goto(d, "run") /\ UNCHANGED answer
  <2>1. \A m \in Messages : row'[m] = row[m] \/ row'[m] = None
    BY <1>6 DEF Prune, Revalidate, Produce, Check, Send, Flush, Ack
  <2>2. answer' = answer /\ Executing(d) /\ Executing(d)'
    BY <1>6, WorkingSteps DEF Works
  <2>3. \A e \in Deliveries : thread'[e] # None =>
          /\ answer'[e] = None <=> thread'[e].phase # "tell"
          /\ thread'[e].phase = "tell" => e # d /\ thread'[e] = thread[e]
    BY <1>1, <1>3, <2>2 DEF ReplayInv, AnsweredLast, Executing
  <2> QED
    BY <2>1, <2>2, <2>3, WithoutReplay
<1>7. CASE Ack(d) /\ Vanish(d)
  <2>1. row' = row
    BY <1>7 DEF Ack
  <2>2. \A e \in Deliveries : thread'[e] # None =>
          /\ answer'[e] = None <=> thread'[e].phase # "tell"
          /\ thread'[e] = thread[e]
    BY <1>1, <1>7, <1>v DEF ReplayInv, AnsweredLast
  <2> QED
    BY <1>1, <1>2, <1>7, <1>v, <2>1, <2>2, WithoutReplay
<1>8. CASE Fail(d) \/ Store(d)
  <2>1. /\ answer[d] = None /\ answer'[d] # None /\ answer'[d].by \in {None, d}
        /\ thread'[d] # None => thread'[d].phase = "tell"
    <3>1. thread[d].phase # "tell"
      BY <1>8 DEF Fail, Store, At
    <3>2. CASE Vanish(d)
      BY <1>2, <1>3, <1>v, <3>1, <3>2
    <3>3. CASE /\ Goto(d, "tell")
               /\ \E a \in {"failed", "completed"}, c \in Codes \cup {None} :
                    answer' = [answer EXCEPT ![d] = [by |-> d, state |-> a, code |-> c]]
      <4>1. PICK a \in {"failed", "completed"}, c \in Codes \cup {None} :
              answer'[d] = [by |-> d, state |-> a, code |-> c]
        BY <3>3 DEF ChatTypeOK
      <4>2. [by |-> d, state |-> a, code |-> c] \in Answer
        BY DEF Answer
      <4>3. thread'[d].phase = "tell"
        BY <1>0, <3>3, Moves DEF Phases
      <4> QED
        BY <1>3, <3>1, <4>1, <4>2, <4>3, ChatAssumption
    <3>4. thread[d].code \in Codes \cup {None}
      BY <1>0 DEF Thread
    <3> QED
      BY <1>8, <3>2, <3>3, <3>4 DEF Fail, Store
  <2>2. \E status \in {"completed", "failed"}, code \in Codes \cup {None} : Finish(d, status, code)
    BY <1>0, <1>8 DEF Fail, Store, Thread
  <2>3. \A m \in Messages :
          row'[m] = row[m] \/ (row'[m].by = d /\ row[m] # None)
    <3>1. PICK status \in {"completed", "failed"}, code \in Codes \cup {None} : Finish(d, status, code)
      BY <2>2
    <3>2. CASE row' = row
      BY <3>2
    <3>3. CASE /\ row[thread[d].message] # None
               /\ row' = [row EXCEPT ![thread[d].message].status = status,
                                     ![thread[d].message].code = code,
                                     ![thread[d].message].by = d]
      <4>1. row[thread[d].message] \in Row
        BY <1>0, <3>3 DEF ChatTypeOK
      <4>2. row'[thread[d].message] =
              [row[thread[d].message] EXCEPT !.status = status, !.code = code, !.by = d]
        BY <1>0, <3>3 DEF ChatTypeOK
      <4>3. row'[thread[d].message].by = d
        BY <4>1, <4>2 DEF Row
      <4>4. \A m \in Messages \ {thread[d].message} : row'[m] = row[m]
        BY <1>0, <3>3 DEF ChatTypeOK
      <4> QED
        BY <3>3, <4>3, <4>4
    <3> QED
      BY <3>1, <3>2, <3>3 DEF Finish
  <2>4. \A e \in Deliveries : thread'[e] # None =>
          /\ answer'[e] = None <=> thread'[e].phase # "tell"
          /\ thread'[e].phase = "tell" => e = d \/ thread'[e] = thread[e]
    BY <1>1, <2>1 DEF ReplayInv, AnsweredLast
  <2> QED
    BY <1>1, <2>1, <2>3, <2>4, WithoutReplay
<1>9. CASE Tell(d)
  <2>1. row' = row /\ thread'[d] = None /\ (answer'[d] = Lost \/ answer'[d] = answer[d])
    BY <1>9, <1>v DEF Tell, ChatTypeOK
  <2>2. \A e \in Deliveries : thread'[e] # None =>
          /\ answer'[e] = None <=> thread'[e].phase # "tell"
          /\ thread'[e] = thread[e]
    BY <1>1, <2>1 DEF ReplayInv, AnsweredLast
  <2> QED
    BY <1>1, <1>2, <2>1, <2>2, WithoutReplay
<1>10. Ack(d) => (Goto(d, "run") /\ UNCHANGED answer) \/ Vanish(d)
  BY DEF Ack
<1> QED
  BY <1>4, <1>5, <1>6, <1>7, <1>8, <1>9, <1>10 DEF Step

LEMMA EnvironmentMatches ==
    ASSUME ChatTypeOK, ChatTypeOK', ReplayInv,
           \/ Arrival \/ (\E d \in Deliveries : Disconnect(d))
           \/ Logout \/ Tick \/ Crash \/ UNCHANGED vars
    PROVE  ReplayInv'
<1>1. row' = row
  BY DEF Arrival, Arrive, Disconnect, Logout, Tick, Crash, vars
<1>2. ASSUME NEW d \in Deliveries, NEW t \in Transports, NEW m \in Messages,
             NEW p \in Payloads, Arrive(d, t, m, p)
      PROVE  ReplayInv'
  <2>1. answer' = answer /\ answer[d] = None /\ thread'[d].phase = "reserve"
        /\ \A e \in Deliveries \ {d} : thread'[e] = thread[e]
    BY <1>2 DEF Arrive, ChatTypeOK
  <2>2. \A e \in Deliveries : thread'[e] # None =>
          /\ answer'[e] = None <=> thread'[e].phase # "tell"
          /\ thread'[e].phase = "tell" => e # d /\ thread'[e] = thread[e]
    BY <2>1 DEF ReplayInv, AnsweredLast
  <2> QED
    BY <1>1, <2>1, <2>2, WithoutReplay
<1>3. ASSUME NEW d \in Deliveries, Disconnect(d) PROVE ReplayInv'
  <2>1. /\ thread[d] # None /\ thread[d] \in Thread /\ answer' = answer
        /\ thread'[d] = [thread[d] EXCEPT !.gone = TRUE]
        /\ \A e \in Deliveries \ {d} : thread'[e] = thread[e]
    BY <1>3 DEF Disconnect, ChatTypeOK
  <2>2. /\ thread'[d].phase = thread[d].phase
        /\ thread'[d].message = thread[d].message /\ thread'[d].payload = thread[d].payload
    BY <2>1 DEF Thread
  <2>3. \A e \in Deliveries : thread'[e] # None =>
          /\ thread[e] # None
          /\ thread'[e].phase = thread[e].phase
          /\ thread'[e].message = thread[e].message /\ thread'[e].payload = thread[e].payload
    BY <2>1, <2>2
  <2>4. \A e \in Deliveries : thread'[e] # None => (answer'[e] = None <=> thread'[e].phase # "tell")
    BY <2>1, <2>3 DEF ReplayInv, AnsweredLast
  <2> QED
    BY <1>1, <2>1, <2>3, <2>4, WithoutReplay
<1>4. CASE Crash
  <2>1. Lost \in Answer
    BY DEF Lost, Answer
  <2>2. Lost.by = None /\ Lost # None
    BY <2>1, ChatAssumption DEF Lost
  <2>3. \A e \in Deliveries : thread'[e] = None /\ (answer'[e] = Lost \/ answer'[e] = answer[e])
    BY <1>4 DEF Crash
  <2> QED
    BY <1>1, <2>2, <2>3, WithoutReplay
<1>5. CASE Logout \/ Tick \/ UNCHANGED vars
  BY <1>5 DEF Logout, Tick, vars, ReplayInv, AnsweredLast, SettlersAreDone, ReplaysMatch, At
<1> QED
  BY <1>2, <1>3, <1>4, <1>5 DEF Arrival

(* A result is replayed only to requests with its payload, and as the       *)
(* result it was, however long executions take.                             *)
THEOREM ReplaysAreTrue == Spec => []ReplaysMatch
<1>1. Init => ReplayInv
  BY DEF Init, ReplayInv, AnsweredLast, SettlersAreDone, ReplaysMatch, At
<1>2. ChatTypeOK /\ ChatTypeOK' /\ ReplayInv /\ [Next]_vars => ReplayInv'
  BY StepMatches, EnvironmentMatches DEF Next
<1>3. ReplayInv => ReplaysMatch
  BY DEF ReplayInv
<1> QED
  BY <1>1, <1>2, <1>3, ChatTypeInvariance, PTL DEF Spec

=============================================================================

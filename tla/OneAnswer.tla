------------------------------ MODULE OneAnswer ------------------------------
(* What the mobile chat promises the clients of one user, whichever         *)
(* transport they use and however often they resend a message: a message is *)
(* opened by one delivery, settles once, and every delivery of it that is   *)
(* answered with a result gets the result it settled to.                    *)
CONSTANTS Messages, Deliveries, None

VARIABLES
    entry,      \* per message: None, or who opened it and how it stands
    answer      \* per delivery: None, or what it was told

Outcomes == {"completed", "failed"}
Entry == [by: Deliveries, state: Outcomes \cup {"open"}]

\* A refusal tells nothing about the result; a lost answer reached nobody.
Refused == [by |-> None, state |-> "refused"]
Lost == [by |-> None, state |-> "lost"]

Init == /\ entry = [m \in Messages |-> None]
        /\ answer = [d \in Deliveries |-> None]

Open(d, m) ==
    /\ entry[m] = None /\ answer[d] = None
    /\ entry' = [entry EXCEPT ![m] = [by |-> d, state |-> "open"]]
    /\ UNCHANGED answer

\* The delivery that opened the message settles it, and is told or is gone.
Settle(m, outcome) ==
    /\ entry[m] # None /\ entry[m].state = "open"
    /\ LET d == entry[m].by IN
         /\ answer[d] = None
         /\ entry' = [entry EXCEPT ![m].state = outcome]
         /\ \E a \in {[by |-> d, state |-> outcome], Lost} :
              answer' = [answer EXCEPT ![d] = a]

Replay(d, m) ==
    /\ answer[d] = None
    /\ entry[m] # None /\ entry[m].state \in Outcomes
    /\ answer' = [answer EXCEPT ![d] = entry[m]]
    /\ UNCHANGED entry

Refuse(d) ==
    /\ answer[d] = None
    /\ answer' = [answer EXCEPT ![d] = Refused]
    /\ UNCHANGED entry

\* Answers on their way, and deliveries not answered yet, can be lost.
Lose(D) ==
    /\ answer' = [d \in Deliveries |-> IF d \in D THEN Lost ELSE answer[d]]
    /\ UNCHANGED entry

\* Settled messages, and those nobody works on, are forgotten in time.
Forget(M) ==
    /\ \A m \in M : entry[m] # None /\ entry[m].state = "open"
                    => answer[entry[m].by] = Lost
    /\ entry' = [m \in Messages |-> IF m \in M THEN None ELSE entry[m]]
    /\ UNCHANGED answer

Next ==
    \/ \E d \in Deliveries, m \in Messages : Open(d, m) \/ Replay(d, m)
    \/ \E m \in Messages, outcome \in Outcomes : Settle(m, outcome)
    \/ \E d \in Deliveries : Refuse(d)
    \/ \E D \in SUBSET Deliveries : Lose(D)
    \/ \E M \in SUBSET Messages : Forget(M)

Spec == Init /\ [][Next]_<<entry, answer>>
=============================================================================

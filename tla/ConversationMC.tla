---------------------------- MODULE ConversationMC ----------------------------
(* What a conversation sets going, checked in one run: a message of the       *)
(* mobile chat, the plan of actions of a turn, the timers and alarms, the     *)
(* follow-up cues, and the connection to the OpenClaw gateway.  They share no *)
(* state, so a behaviour is one of a single component, chosen at the start,   *)
(* while the others rest.                                                     *)
EXTENDS MobileChat, ActionGraphMC, Timekeeping, FollowUps, OpenClaw

CONSTANTS m1, m2, d1, d2, d3, original, changed, p1, p2

VARIABLE moving

conversationVars == <<moving, vars, graphVars, timeVars, followVars, clawVars>>

ConversationInit ==
    /\ Init /\ GraphInit /\ TimeInit /\ FollowInit /\ OcInit
    /\ moving \in {"retry", "window", "plan", "timer", "sharing", "cues", "claw"}
    \* a plan of which EveryNodeSettles says nothing
    /\ moving # "plan" => plan = CHOOSE p \in Plans : \E n \in Nodes : ~(p.deps[n] \subseteq 1..(n - 1))
    \* a link of which Recovers says nothing
    /\ moving # "claw" => link = "ready"

Came(d) == thread[d] # None \/ answer[d] # None

InOrder(p, q, r) == (Came(q) => Came(p)) /\ (Came(r) => Came(q))

\* A message and its resend, in no time.
RetryBounds ==
    /\ InOrder(d1, d2, d3) /\ ~Came(d3) /\ now = 0
    /\ thread[d1] # None => thread[d1].payload = original
    /\ \A d \in Deliveries : thread[d] # None => thread[d].message = m1

\* Three requests: a message, one whose reservation may prune its row, and the
\* first one again.
WindowBounds ==
    /\ InOrder(d1, d2, d3) /\ authorized
    /\ \A d \in Deliveries :
         thread[d] # None =>
            /\ thread[d].transport = "http" /\ ~thread[d].gone
            /\ thread[d].payload = original
            /\ thread[d].message = IF d = d2 THEN m2 ELSE m1

\* One process with a timer and an alarm.
TimerBounds == pc[p2] = "down" /\ faults + stops + clock <= 2

\* Two processes with the timer; time stands still, but it may be set to now.
SharingBounds ==
    /\ clock = 0 /\ faults = 0
    /\ pc[p2] # "down" => pc[p1] # "down" \/ stops > 0
    /\ \A p \in Procs :
         /\ \A a \in Alarms : mem[p][a] = Nil
         /\ \A t \in Timers : mem[p][t] # Nil =>
                mem[p][t].due \in {0, 1, Nil} /\ mem[p][t].left \in {0, 1, Nil}

Bounded ==
    /\ moving = "retry" => RetryBounds
    /\ moving = "window" => WindowBounds
    /\ moving = "timer" => TimerBounds
    /\ moving = "sharing" => SharingBounds

Chats == moving \in {"retry", "window"}
KeepsTime == moving \in {"timer", "sharing"}

ConversationNext ==
    /\ UNCHANGED moving
    /\ \/ Chats /\ Next /\ UNCHANGED <<graphVars, timeVars, followVars, clawVars>>
       \/ moving = "plan" /\ GraphNext /\ UNCHANGED <<vars, timeVars, followVars, clawVars>>
       \/ KeepsTime /\ TimeNext /\ UNCHANGED <<vars, graphVars, followVars, clawVars>>
       \/ moving = "cues" /\ FollowNext /\ UNCHANGED <<vars, graphVars, timeVars, clawVars>>
       \/ moving = "claw" /\ OcNext /\ UNCHANGED <<vars, graphVars, timeVars, followVars>>
    /\ Bounded'

\* The fairness of each, of the one that moves; the bounds stop no fair step.
ConversationFairness ==
    /\ \A d \in Deliveries : WF_vars(Chats /\ Step(d))
    /\ WF_graphVars(moving = "plan" /\ Scheduler)
    /\ \A n \in Nodes : WF_graphVars(moving = "plan" /\ Node(n))
    /\ \A p \in Procs : WF_timeVars(KeepsTime /\ Worker(p))
    /\ \A t \in OcThreads : WF_clawVars(moving = "claw" /\ Recovery(t))
    /\ SF_clawVars(moving = "claw" /\ \E w \in Workers : Sync(w))
    /\ WF_clawVars(moving = "claw" /\ ComesUp)

ConversationSpec == ConversationInit /\ [][ConversationNext]_conversationVars /\ ConversationFairness
=============================================================================

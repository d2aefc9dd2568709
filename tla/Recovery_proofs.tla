--------------------------- MODULE Recovery_proofs ----------------------------
(***************************************************************************)
(* Proofs about what restarts or reconnects by itself: OpenClaw and        *)
(* Supervisor, which share no state.                                       *)
(*                                                                         *)
(* OpenClaw: for any threads and any number of outages, the connection is  *)
(* only ready with capabilities that were fetched since the last disconnect.*)
(* The argument needs that one reconnect worker runs at a time: its successor*)
(* is reserved by whoever disconnects while there is none, and started by  *)
(* that thread only.                                                       *)
(*                                                                         *)
(* Supervisor: for any processes, restarts, failures and starts.  StaffInv *)
(* relates the supervisor's records to the live children and to the files  *)
(* they leave; PolicyInv counts the launches of a window against what the  *)
(* restart policy has recorded of it.                                      *)
(***************************************************************************)
EXTENDS Supervisor, OpenClaw, Integers, FiniteSetTheorems, SequenceTheorems, TLAPS

-----------------------------------------------------------------------------
(* OpenClaw.                                                                *)

\* Where a worker is between its start and its end, and where it believes that
\* its attempt is that of the current generation.
Running == {"begin", "probe", "health", "available", "down", "resync", "sync", "fetch", "commit",
            "mark", "verify", "settle", "backoff", "finally"}
Attempting == {"health", "available", "down", "resync", "sync", "fetch", "commit", "verify"}

AgentRecords ==
    [pc : Running \cup {"idle", "project", "reserved"}, current : BOOLEAN,
     reserved : Workers \cup {Nobody}]

OcTypeOK ==
    /\ link \in {"ready", "disconnected", "reconnecting", "resyncing", "closed"}
    /\ worker \in Workers \cup {Nobody}
    /\ remote \in {"on", "off"}
    /\ fresh \in BOOLEAN
    /\ agent \in [OcThreads -> AgentRecords]

\* The worker that runs, or is reserved, is the one in the slot; a reserved
\* worker waits for one thread, which projects the disconnect.
OneWorker ==
    /\ \A w \in Workers : agent[w].pc \in Running \cup {"reserved"} => worker = w
    /\ \A t \in OcThreads : agent[t].reserved # Nobody =>
         OcAt(t, "project") /\ OcAt(agent[t].reserved, "reserved")
    /\ \A t, u \in OcThreads :
         agent[t].reserved # Nobody /\ agent[u].reserved = agent[t].reserved => t = u

\* The other threads do nothing of what the worker does.
UsersOnlyRefresh == \A u \in Users : agent[u].pc \in {"idle", "fetch", "commit", "mark", "project"}

\* The generation of an attempt is current only if no disconnect followed it.
AttemptsAreCurrent ==
    \A w \in Workers : agent[w].pc \in Attempting /\ agent[w].current => link # "disconnected"

\* What a current attempt has fetched is still in force.
VerifiedIsFresh ==
    \A w \in Workers : OcAt(w, "verify") /\ agent[w].current => fresh /\ remote = "on"

\* The inductive invariant.
ClawInv ==
    /\ OcTypeOK /\ OneWorker /\ UsersOnlyRefresh
    /\ AttemptsAreCurrent /\ VerifiedIsFresh /\ ReadyMeansFresh

-----------------------------------------------------------------------------
(* The steps.  First, those that only move one thread on, without a word on *)
(* disconnects and reservations.                                            *)

LEMMA FetchKeeps ==
    ASSUME ClawInv, NEW t \in OcThreads, Fetch(t)
    PROVE  ClawInv'
<1>1. PICK r \in AgentRecords : agent' = [agent EXCEPT ![t] = r]
  BY DEF Fetch, OcGoto, OcAt, ClawInv, OcTypeOK, AgentRecords, Running
<1> QED
  BY <1>1, OpenClawAssumption DEF Fetch, OcGoto, OcAt, ClawInv, OcTypeOK, AgentRecords,
     OneWorker, UsersOnlyRefresh, AttemptsAreCurrent, VerifiedIsFresh, ReadyMeansFresh,
     OcThreads, Running, Attempting

LEMMA CommitKeeps ==
    ASSUME ClawInv, NEW t \in OcThreads, Commit(t)
    PROVE  ClawInv'
<1>1. PICK r \in AgentRecords : agent' = [agent EXCEPT ![t] = r]
  BY DEF Commit, OcGoto, Authorized, OcAt, ClawInv, OcTypeOK, AgentRecords, Running
<1> QED
  BY <1>1, OpenClawAssumption DEF Commit, OcGoto, Authorized, OcAt, ClawInv, OcTypeOK,
     AgentRecords, OneWorker, UsersOnlyRefresh, AttemptsAreCurrent, VerifiedIsFresh,
     ReadyMeansFresh, OcThreads, Running, Attempting

LEMMA RefreshKeeps ==
    ASSUME ClawInv, NEW u \in Users, Refresh(u)
    PROVE  ClawInv'
<1>1. CASE UNCHANGED <<agent, syncing>>
  BY <1>1 DEF Refresh, OcAt, ClawInv, OcTypeOK, AgentRecords, OneWorker, UsersOnlyRefresh,
     AttemptsAreCurrent, VerifiedIsFresh, ReadyMeansFresh
<1>2. CASE agent' = [agent EXCEPT ![u] = [Free EXCEPT !.pc = "fetch", !.current = TRUE]]
  BY <1>2, OpenClawAssumption DEF Refresh, Free, OcAt, ClawInv, OcTypeOK, AgentRecords,
     OneWorker, UsersOnlyRefresh, AttemptsAreCurrent, VerifiedIsFresh, ReadyMeansFresh,
     OcThreads, Running, Attempting
<1> QED
  BY <1>1, <1>2 DEF Refresh

LEMMA BeginKeeps ==
    ASSUME ClawInv, NEW w \in OcThreads, Begin(w)
    PROVE  ClawInv'
<1>1. PICK r \in AgentRecords : agent' = [agent EXCEPT ![w] = r]
  BY DEF Begin, WorkerReturns, OcGoto, Quiet, Free, OcAt, ClawInv, OcTypeOK, AgentRecords,
     Running
<1> QED
  BY <1>1, OpenClawAssumption DEF Begin, WorkerReturns, OcGoto, Quiet, Free, OcAt, ClawInv,
     OcTypeOK, AgentRecords, OneWorker, UsersOnlyRefresh, AttemptsAreCurrent, VerifiedIsFresh,
     ReadyMeansFresh, OcThreads, Running, Attempting

LEMMA ProbeKeeps ==
    ASSUME ClawInv, NEW w \in OcThreads, Probe(w)
    PROVE  ClawInv'
<1>1. CASE WorkerReturns(w) /\ UNCHANGED link
  BY <1>1, OpenClawAssumption DEF Probe, WorkerReturns, Quiet, Free, OcAt, ClawInv, OcTypeOK,
     AgentRecords, OneWorker, UsersOnlyRefresh, AttemptsAreCurrent, VerifiedIsFresh,
     ReadyMeansFresh, OcThreads, Running, Attempting
<1>2. CASE /\ link' = "reconnecting"
           /\ agent' = [agent EXCEPT ![w] = [Free EXCEPT !.pc = "health", !.current = TRUE]]
  <2>1. OcTypeOK' /\ UsersOnlyRefresh'
    BY <1>2, OpenClawAssumption DEF Probe, Quiet, Free, OcAt, ClawInv, OcTypeOK, AgentRecords,
       OneWorker, UsersOnlyRefresh, AttemptsAreCurrent, VerifiedIsFresh, ReadyMeansFresh,
       OcThreads, Running
  <2>2. OneWorker'
    BY <1>2, OpenClawAssumption DEF Probe, Quiet, Free, OcAt, ClawInv, OcTypeOK, AgentRecords,
       OneWorker, UsersOnlyRefresh, AttemptsAreCurrent, VerifiedIsFresh, ReadyMeansFresh,
       OcThreads, Running
  <2>3. AttemptsAreCurrent' /\ VerifiedIsFresh' /\ ReadyMeansFresh'
    BY <1>2, OpenClawAssumption DEF Probe, Quiet, Free, OcAt, ClawInv, OcTypeOK, AgentRecords,
       OneWorker, UsersOnlyRefresh, AttemptsAreCurrent, VerifiedIsFresh, ReadyMeansFresh,
       OcThreads
  <2> QED
    BY <2>1, <2>2, <2>3 DEF ClawInv
<1> QED
  BY <1>1, <1>2 DEF Probe

LEMMA HealthProbeKeeps ==
    ASSUME ClawInv, NEW w \in OcThreads, HealthProbe(w)
    PROVE  ClawInv'
<1>1. PICK r \in AgentRecords : agent' = [agent EXCEPT ![w] = r]
  BY DEF HealthProbe, OcGoto, Quiet, OcAt, ClawInv, OcTypeOK, AgentRecords, Running
<1> QED
  BY <1>1, OpenClawAssumption DEF HealthProbe, OcGoto, Quiet, OcAt, ClawInv, OcTypeOK,
     AgentRecords, OneWorker, UsersOnlyRefresh, AttemptsAreCurrent, VerifiedIsFresh,
     ReadyMeansFresh, OcThreads, Running, Attempting

LEMMA CheckedKeeps ==
    ASSUME ClawInv, NEW w \in OcThreads, Checked(w)
    PROVE  ClawInv'
<1>1. PICK r \in AgentRecords : agent' = [agent EXCEPT ![w] = r]
  BY DEF Checked, WorkerReturns, OcGoto, Quiet, Free, OcAt, ClawInv, OcTypeOK, AgentRecords,
     Running
<1> QED
  BY <1>1, OpenClawAssumption DEF Checked, WorkerReturns, OcGoto, Quiet, Free, OcAt, ClawInv,
     OcTypeOK, AgentRecords, OneWorker, UsersOnlyRefresh, AttemptsAreCurrent, VerifiedIsFresh,
     ReadyMeansFresh, OcThreads, Running, Attempting

LEMMA ResyncKeeps ==
    ASSUME ClawInv, NEW w \in OcThreads, Resync(w)
    PROVE  ClawInv'
<1>1. PICK r \in AgentRecords : agent' = [agent EXCEPT ![w] = r]
  BY DEF Resync, OcGoto, Quiet, OcAt, ClawInv, OcTypeOK, AgentRecords, Running
<1> QED
  BY <1>1, OpenClawAssumption DEF Resync, OcGoto, Quiet, OcAt, ClawInv, OcTypeOK, AgentRecords,
     OneWorker, UsersOnlyRefresh, AttemptsAreCurrent, VerifiedIsFresh, ReadyMeansFresh,
     OcThreads, Running, Attempting

LEMMA SyncKeeps ==
    ASSUME ClawInv, NEW w \in OcThreads, Sync(w)
    PROVE  ClawInv'
<1>1. PICK r \in AgentRecords : agent' = [agent EXCEPT ![w] = r]
  BY DEF Sync, OcGoto, OcAt, ClawInv, OcTypeOK, AgentRecords, Running
<1> QED
  BY <1>1, OpenClawAssumption DEF Sync, OcGoto, OcAt, ClawInv, OcTypeOK, AgentRecords,
     OneWorker, UsersOnlyRefresh, AttemptsAreCurrent, VerifiedIsFresh, ReadyMeansFresh,
     OcThreads, Running, Attempting

LEMMA VerifyReadyKeeps ==
    ASSUME ClawInv, NEW w \in OcThreads, VerifyReady(w)
    PROVE  ClawInv'
<1>1. PICK r \in AgentRecords : agent' = [agent EXCEPT ![w] = r]
  BY DEF VerifyReady, WorkerReturns, OcGoto, Quiet, Free, Restorable, OcAt, ClawInv, OcTypeOK,
     AgentRecords, Running
<1> QED
  BY <1>1, OpenClawAssumption DEF VerifyReady, WorkerReturns, OcGoto, Quiet, Free, Restorable,
     OcAt, ClawInv, OcTypeOK, AgentRecords, OneWorker, UsersOnlyRefresh, AttemptsAreCurrent,
     VerifiedIsFresh, ReadyMeansFresh, OcThreads, Running, Attempting

LEMMA SettleKeeps ==
    ASSUME ClawInv, NEW w \in OcThreads, Settle(w)
    PROVE  ClawInv'
<1>1. PICK r \in AgentRecords : agent' = [agent EXCEPT ![w] = r]
  BY DEF Settle, WorkerReturns, Quiet, Free, OcAt, ClawInv, OcTypeOK, AgentRecords, Running
<1> QED
  BY <1>1, OpenClawAssumption DEF Settle, WorkerReturns, Quiet, Free, OcAt, ClawInv, OcTypeOK,
     AgentRecords, OneWorker, UsersOnlyRefresh, AttemptsAreCurrent, VerifiedIsFresh,
     ReadyMeansFresh, OcThreads, Running, Attempting

LEMMA WaitedKeeps ==
    ASSUME ClawInv, NEW w \in OcThreads, Waited(w)
    PROVE  ClawInv'
<1>1. PICK r \in AgentRecords : agent' = [agent EXCEPT ![w] = r]
  BY DEF Waited, WorkerReturns, OcGoto, Quiet, Free, OcAt, ClawInv, OcTypeOK, AgentRecords,
     Running
<1> QED
  BY <1>1, OpenClawAssumption DEF Waited, WorkerReturns, OcGoto, Quiet, Free, OcAt, ClawInv,
     OcTypeOK, AgentRecords, OneWorker, UsersOnlyRefresh, AttemptsAreCurrent, VerifiedIsFresh,
     ReadyMeansFresh, OcThreads, Running, Attempting

LEMMA CloseKeeps ==
    ASSUME ClawInv, Close \/ CloseSync \/ GoesDown \/ ComesUp \/ UNCHANGED clawVars
    PROVE  ClawInv'
BY DEF Close, CloseSync, GoesDown, ComesUp, clawVars, OcAt, ClawInv, OcTypeOK, AgentRecords,
   OneWorker, UsersOnlyRefresh, AttemptsAreCurrent, VerifiedIsFresh, ReadyMeansFresh

-----------------------------------------------------------------------------
(* Projections and disconnects.                                             *)

LEMMA ProjectKeeps ==
    ASSUME ClawInv, NEW t \in OcThreads, Project(t)
    PROVE  ClawInv'
<1> DEFINE w == agent[t].reserved
<1>1. PICK q \in {"begin", "idle"} :
        agent' = [u \in OcThreads |-> IF u = t THEN Free ELSE IF u = w THEN [Free EXCEPT !.pc = q] ELSE agent[u]]
  BY DEF Project
<1>2. w # Nobody => w \in Workers /\ w # t /\ OcAt(w, "reserved") /\ worker = w
  BY OpenClawAssumption DEF Project, OcAt, OcThreads, ClawInv, OcTypeOK, AgentRecords,
     OneWorker, UsersOnlyRefresh, AttemptsAreCurrent, VerifiedIsFresh, ReadyMeansFresh
<1>3. worker' = worker \/ (worker' = Nobody /\ w # Nobody /\ q = "idle")
  BY <1>1, <1>2, OpenClawAssumption DEF Project, Free, OcThreads
<1>4. /\ agent'[t] = Free
      /\ w # Nobody => agent'[w].pc = q /\ ~agent'[w].current /\ agent'[w].reserved = Nobody
      /\ \A u \in OcThreads : u # t /\ u # w => agent'[u] = agent[u]
  BY <1>1, <1>2 DEF OcThreads, Free
<1>5. OcTypeOK' /\ UsersOnlyRefresh'
  <2>1. Free \in AgentRecords /\ [Free EXCEPT !.pc = q] \in AgentRecords
    BY DEF Free, AgentRecords, Running
  <2>2. agent' \in [OcThreads -> AgentRecords]
    BY <1>1, <2>1 DEF ClawInv, OcTypeOK, AgentRecords
  <2>3. OcTypeOK'
    BY <1>3, <2>2 DEF Project, ClawInv, OcTypeOK, AgentRecords
  <2>4. \A u \in Users : agent'[u].pc \in {"idle", agent[u].pc}
    <3>1. ASSUME NEW u \in Users PROVE u # w /\ u \in OcThreads
      BY <1>2, OpenClawAssumption DEF OcThreads
    <3> QED
      BY <1>4, <3>1 DEF Free
  <2> QED
    BY <2>3, <2>4 DEF ClawInv, UsersOnlyRefresh
<1>6. OneWorker'
  <2>1. \A v \in Workers : agent'[v].pc \in Running \cup {"reserved"} => worker' = v
    <3> SUFFICES ASSUME NEW v \in Workers, agent'[v].pc \in Running \cup {"reserved"} PROVE worker' = v
      OBVIOUS
    <3>1. v # t
      BY <1>4 DEF Free, Running
    <3>2. CASE v = w
      BY <1>2, <1>3, <1>4, <3>1, <3>2, OpenClawAssumption DEF Free, Running
    <3>3. CASE v # w
      <4>1. worker = v
        BY <1>4, <3>1, <3>3 DEF OcThreads, ClawInv, OneWorker
      <4> QED
        BY <1>2, <1>3, <3>3, <4>1
    <3> QED
      BY <3>2, <3>3
  <2>2. \A u \in OcThreads : agent'[u].reserved # Nobody => agent'[u] = agent[u] /\ u # t
    BY <1>2, <1>4, OpenClawAssumption DEF Free, OcThreads
  <2>3. ASSUME NEW u \in OcThreads, agent'[u].reserved # Nobody
        PROVE  OcAt(u, "project")' /\ OcAt(agent[u].reserved, "reserved")'
    <3>1. /\ agent'[u] = agent[u] /\ agent[u].pc = "project" /\ agent[u].reserved \in OcThreads
          /\ agent[agent[u].reserved].pc = "reserved" /\ agent[u].reserved # w
      BY <2>2, <2>3 DEF ClawInv, OcTypeOK, AgentRecords, OneWorker, OcAt, OcThreads
    <3>2. agent[u].reserved # t
      BY <3>1 DEF Project, OcAt
    <3> QED
      BY <1>4, <3>1, <3>2 DEF OcAt
  <2>4. \A u, v \in OcThreads :
          agent'[u].reserved # Nobody /\ agent'[v].reserved = agent'[u].reserved => u = v
    BY <2>2 DEF ClawInv, OneWorker
  <2> QED
    BY <2>1, <2>3, <2>4 DEF OneWorker
<1>7. AttemptsAreCurrent' /\ VerifiedIsFresh' /\ ReadyMeansFresh'
  <2>1. \A v \in Workers : agent'[v].pc \in Attempting => agent'[v] = agent[v]
    BY <1>2, <1>4, OpenClawAssumption DEF OcThreads, Free, Attempting
  <2> QED
    BY <2>1 DEF Project, OcAt, Attempting, ClawInv, AttemptsAreCurrent, VerifiedIsFresh,
       ReadyMeansFresh
<1> QED
  BY <1>5, <1>6, <1>7 DEF ClawInv

\* Whoever disconnects has no reservation, and reserves a worker if none is in
\* the slot, or if it leaves the slot itself.
Disconnects(t, to, slot) ==
    /\ BeginDisconnect(t, to, slot)
    /\ agent[t].pc \in {"idle", "mark", "finally"}
    /\ \/ t \in Users /\ to = "project" /\ slot = worker
       \/ t \in Workers /\ worker = t /\ to = "settle" /\ slot = t
       \/ t \in Workers /\ worker = t /\ to = "project" /\ slot = Nobody
          /\ agent[t].pc = "finally" /\ link # "closed"
    /\ UNCHANGED remote

LEMMA DisconnectKeeps ==
    ASSUME ClawInv, NEW t \in OcThreads, NEW STATE to, NEW STATE slot, Disconnects(t, to, slot)
    PROVE  ClawInv'
<1>1. agent[t].reserved = Nobody /\ worker \in Workers \cup {Nobody} /\ Nobody \notin Workers
  BY OpenClawAssumption DEF Disconnects, ClawInv, OcTypeOK, AgentRecords, OneWorker, OcAt
<1>2. CASE link = "closed"
  <2>1. /\ agent' = [agent EXCEPT ![t] = [pc |-> to, current |-> TRUE, reserved |-> Nobody]]
        /\ worker' = worker /\ UNCHANGED <<link, fresh, remote>>
    BY <1>2 DEF Disconnects, BeginDisconnect, Free
  <2>2. OcTypeOK' /\ UsersOnlyRefresh' /\ OneWorker'
    BY <1>1, <2>1, OpenClawAssumption DEF Disconnects, OcAt, OcThreads, Running, ClawInv,
       OcTypeOK, AgentRecords, OneWorker, UsersOnlyRefresh, AttemptsAreCurrent, VerifiedIsFresh,
       ReadyMeansFresh
  <2>3. AttemptsAreCurrent' /\ VerifiedIsFresh' /\ ReadyMeansFresh'
    BY <1>2, <2>1, OpenClawAssumption DEF Disconnects, OcAt, OcThreads, Attempting, ClawInv,
       OcTypeOK, AgentRecords, OneWorker, UsersOnlyRefresh, AttemptsAreCurrent, VerifiedIsFresh,
       ReadyMeansFresh
  <2> QED
    BY <2>2, <2>3 DEF ClawInv
<1>3. CASE link # "closed"
  <2>1. PICK w \in Workers \cup {Nobody} :
          /\ link' = "disconnected" /\ fresh' = FALSE
          /\ worker' = IF w = Nobody THEN slot ELSE w
          /\ w # Nobody => slot = Nobody /\ OcAt(w, "idle")
          /\ w = Nobody => slot # Nobody
          /\ agent' = [u \in OcThreads |->
                        IF u = t THEN [pc |-> to, current |-> TRUE, reserved |-> w]
                        ELSE [agent[u] EXCEPT !.current = FALSE,
                                              !.pc = IF u = w THEN "reserved" ELSE @]]
    <3> DEFINE x == IF slot = Nobody THEN CHOOSE v \in Reservable : TRUE ELSE Nobody
    <3>1. /\ slot = Nobody => Reservable # {}
          /\ link' = "disconnected" /\ fresh' = FALSE
          /\ worker' = IF x = Nobody THEN slot ELSE x
          /\ agent' = [u \in OcThreads |->
                        IF u = t THEN [pc |-> to, current |-> TRUE, reserved |-> x]
                        ELSE [agent[u] EXCEPT !.current = FALSE,
                                              !.pc = IF u = x THEN "reserved" ELSE @]]
      BY <1>3 DEF Disconnects, BeginDisconnect
    <3>2. IF slot = Nobody THEN x \in Reservable ELSE x = Nobody
      BY <3>1
    <3>3. x \in Workers \cup {Nobody} /\ (x # Nobody => slot = Nobody /\ OcAt(x, "idle"))
          /\ (x = Nobody => slot # Nobody)
      BY <1>1, <3>2 DEF Reservable
    <3> HIDE DEF x
    <3> QED
      BY <3>1, <3>3
  <2>2. /\ agent'[t].pc = to /\ agent'[t].current /\ agent'[t].reserved = w
        /\ \A u \in OcThreads : u # t =>
             /\ agent'[u].reserved = agent[u].reserved /\ ~agent'[u].current
             /\ agent'[u].pc = IF u = w THEN "reserved" ELSE agent[u].pc
    BY <2>1 DEF ClawInv, OcTypeOK, AgentRecords
  <2>3. w # Nobody => w \in Workers /\ w # t /\ worker \in {Nobody, t} /\ to = "project"
    BY <1>1, <2>1, OpenClawAssumption DEF Disconnects, OcAt
  <2>4. to \in {"project", "settle"}
    BY DEF Disconnects
  <2>5. OcTypeOK'
    <3>1. \A u \in OcThreads : agent'[u] \in AgentRecords
      <4>1. \A u \in OcThreads : agent[u] \in AgentRecords
        BY DEF ClawInv, OcTypeOK, AgentRecords
      <4> QED
        BY <2>1, <2>4, <4>1 DEF AgentRecords, Running
    <3>2. worker' \in Workers \cup {Nobody}
      BY <1>1, <2>1 DEF Disconnects
    <3> QED
      BY <2>1, <3>1, <3>2 DEF Disconnects, ClawInv, OcTypeOK, AgentRecords
  <2>6. UsersOnlyRefresh'
    <3>1. ASSUME NEW u \in Users PROVE agent'[u].pc \in {agent[u].pc, "project"}
      <4>1. u # w /\ u \in OcThreads
        BY <2>1, OpenClawAssumption DEF OcThreads
      <4>2. u = t => to = "project"
        BY <3>1, OpenClawAssumption DEF Disconnects
      <4> QED
        BY <2>2, <4>1, <4>2
    <3> QED
      BY <3>1 DEF ClawInv, UsersOnlyRefresh
  <2>7. \A v \in Workers : agent'[v].pc \in Running \cup {"reserved"} => worker' = v
    <3> SUFFICES ASSUME NEW v \in Workers, agent'[v].pc \in Running \cup {"reserved"} PROVE worker' = v
      OBVIOUS
    <3>1. CASE v = w
      BY <1>1, <2>1, <3>1
    <3>2. CASE v # w /\ v = t
      BY <1>1, <2>1, <2>2, <2>3, <3>2, OpenClawAssumption DEF Disconnects, Running
    <3>3. CASE v # w /\ v # t
      <4>1. worker = v
        BY <2>2, <3>3 DEF OcThreads, ClawInv, OneWorker
      <4> QED
        BY <1>1, <2>1, <2>3, <3>3, <4>1 DEF Disconnects
    <3> QED
      BY <3>1, <3>2, <3>3
  <2>8. w # Nobody => \A u \in OcThreads : agent[u].reserved = Nobody
    <3> SUFFICES ASSUME w # Nobody, NEW u \in OcThreads, agent[u].reserved # Nobody PROVE FALSE
      OBVIOUS
    <3>1. agent[u].reserved \in Workers /\ agent[agent[u].reserved].pc = "reserved"
      BY DEF ClawInv, OcTypeOK, AgentRecords, OneWorker, OcAt
    <3>2. worker = agent[u].reserved
      BY <3>1 DEF ClawInv, OneWorker
    <3> QED
      BY <1>1, <2>3, <3>1, <3>2 DEF Disconnects
  <2>9. OneWorker'
    <3>1. ASSUME NEW u \in OcThreads, agent'[u].reserved # Nobody
          PROVE  OcAt(u, "project")' /\ OcAt(agent[u].reserved, "reserved")'
      <4>1. CASE u = t
        BY <2>2, <2>3, <3>1, <4>1 DEF OcAt, OcThreads
      <4>2. CASE u # t
        <5>1. /\ agent[u].reserved # Nobody /\ agent[u].reserved \in OcThreads /\ w = Nobody
              /\ agent[u].pc = "project" /\ agent[agent[u].reserved].pc = "reserved"
          BY <2>2, <2>8, <3>1, <4>2 DEF ClawInv, OcTypeOK, AgentRecords, OneWorker, OcAt,
             OcThreads
        <5>2. agent[u].reserved # t /\ u # w /\ agent[u].reserved # w
          BY <5>1, OpenClawAssumption DEF Disconnects, OcThreads
        <5> QED
          BY <2>2, <4>2, <5>1, <5>2 DEF OcAt
      <4> QED
        BY <4>1, <4>2
    <3>2. ASSUME NEW u \in OcThreads, NEW v \in OcThreads,
                 agent'[u].reserved # Nobody, agent'[v].reserved = agent'[u].reserved
          PROVE  u = v
      BY <2>2, <2>8, <3>2 DEF ClawInv, OneWorker
    <3> QED
      BY <2>7, <3>1, <3>2 DEF OneWorker
  <2>10. AttemptsAreCurrent' /\ VerifiedIsFresh' /\ ReadyMeansFresh'
    <3>1. \A v \in Workers : agent'[v].pc \in Attempting => ~agent'[v].current
      BY <2>2, <2>4 DEF OcThreads, Attempting
    <3> QED
      BY <2>1, <3>1 DEF AttemptsAreCurrent, VerifiedIsFresh, ReadyMeansFresh, OcAt, Attempting
  <2> QED
    BY <2>5, <2>6, <2>9, <2>10 DEF ClawInv
<1> QED
  BY <1>2, <1>3

LEMMA DispatchKeeps ==
    ASSUME ClawInv, NEW u \in Users, DispatchRemote(u)
    PROVE  ClawInv'
<1>1. u \in OcThreads /\ Disconnects(u, "project", worker)
  BY DEF DispatchRemote, Disconnects, OcAt, OcThreads
<1> QED
  BY <1>1, DisconnectKeeps

LEMMA MarkKeeps ==
    ASSUME ClawInv, NEW t \in OcThreads, Mark(t)
    PROVE  ClawInv'
<1>1. CASE t \in Users
  <2>1. Disconnects(t, "project", worker)
    BY <1>1 DEF Mark, Disconnects, OcAt
  <2> QED
    BY <2>1, DisconnectKeeps
<1>2. CASE t \in Workers
  <2>1. t \notin Users /\ worker = t
    BY <1>2, OpenClawAssumption DEF Mark, OcAt, Running, ClawInv, OcTypeOK, AgentRecords,
       OneWorker, UsersOnlyRefresh, AttemptsAreCurrent, VerifiedIsFresh, ReadyMeansFresh
  <2>2. Disconnects(t, "settle", worker)
    BY <1>2, <2>1 DEF Mark, Disconnects, OcAt
  <2> QED
    BY <2>2, DisconnectKeeps
<1> QED
  BY <1>1, <1>2 DEF OcThreads

LEMMA FinallyKeeps ==
    ASSUME ClawInv, NEW w \in OcThreads, Finally(w)
    PROVE  ClawInv'
<1>1. w \in Workers /\ worker = w
  BY DEF Finally, OcAt, OcThreads, Running, ClawInv, OcTypeOK, AgentRecords, OneWorker,
     UsersOnlyRefresh, AttemptsAreCurrent, VerifiedIsFresh, ReadyMeansFresh
<1>2. CASE BeginDisconnect(w, "project", Nobody) /\ link = "disconnected"
  <2>1. Disconnects(w, "project", Nobody)
    BY <1>1, <1>2 DEF Finally, Disconnects, OcAt
  <2> QED
    BY <2>1, DisconnectKeeps
<1>3. CASE /\ agent' = [agent EXCEPT ![w] = Free] /\ worker' = Nobody
           /\ UNCHANGED <<link, fresh, remote>>
  <2>1. Free \in AgentRecords /\ Free.pc = "idle" /\ Free.reserved = Nobody
    BY DEF Free, AgentRecords
  <2>2. OcTypeOK' /\ UsersOnlyRefresh'
    BY <1>3, <2>1 DEF ClawInv, OcTypeOK, AgentRecords, UsersOnlyRefresh, OcThreads
  <2>3. \A v \in Workers : agent'[v].pc \notin Running \cup {"reserved"}
    BY <1>1, <1>3, <2>1 DEF ClawInv, OcTypeOK, AgentRecords, OneWorker, OcThreads, Running
  <2>4. \A u \in OcThreads : agent'[u].reserved = Nobody
    <3>1. agent[w].pc = "finally"
      BY DEF Finally, OcAt
    <3>2. \A u \in OcThreads : agent[u].reserved = Nobody
      BY <1>1, <3>1 DEF ClawInv, OcTypeOK, AgentRecords, OneWorker, OcAt
    <3> QED
      BY <1>3, <2>1, <3>2 DEF ClawInv, OcTypeOK, AgentRecords
  <2>5. OneWorker' /\ AttemptsAreCurrent' /\ VerifiedIsFresh' /\ ReadyMeansFresh'
    BY <1>3, <2>3, <2>4 DEF OneWorker, AttemptsAreCurrent, VerifiedIsFresh, ReadyMeansFresh,
       OcAt, Running, Attempting, ClawInv
  <2> QED
    BY <2>2, <2>5 DEF ClawInv
<1> QED
  BY <1>1, <1>2, <1>3 DEF Finally

LEMMA ClawInvariance == OcSpec => []ClawInv
<1>1. OcInit => ClawInv
  <2> SUFFICES ASSUME OcInit PROVE ClawInv
    OBVIOUS
  <2>1. CASE /\ agent = [t \in OcThreads |-> Free] /\ link = "ready" /\ worker = Nobody
             /\ fresh /\ remote = "on"
    BY <2>1, OpenClawAssumption DEF Free, OcAt, OcThreads, Running, Attempting, ClawInv,
       OcTypeOK, AgentRecords, OneWorker, UsersOnlyRefresh, AttemptsAreCurrent, VerifiedIsFresh,
       ReadyMeansFresh
  <2>2. ASSUME NEW u \in Users, NEW w \in Workers,
               link = "disconnected", worker = w, fresh = FALSE, remote = "off",
               agent = [t \in OcThreads |->
                          CASE t = u -> [pc |-> "project", current |-> TRUE, reserved |-> w]
                            [] t = w -> [Free EXCEPT !.pc = "reserved"]
                            [] OTHER -> Free]
        PROVE  ClawInv
    <3>1. u # w /\ u \in OcThreads /\ w \in OcThreads /\ Nobody # w
      BY OpenClawAssumption DEF OcThreads
    <3>2. /\ agent[u] = [pc |-> "project", current |-> TRUE, reserved |-> w]
          /\ agent[w] = [pc |-> "reserved", current |-> FALSE, reserved |-> Nobody]
          /\ \A t \in OcThreads \ {u, w} : agent[t] = Free
      BY <2>2, <3>1 DEF Free
    <3>3. OcTypeOK
      BY <2>2, <3>1, <3>2 DEF Free, OcTypeOK, AgentRecords, Running
    <3>4. \A t \in OcThreads : agent[t].pc # "idle" \/ agent[t].reserved # Nobody => t \in {u, w}
      BY <3>2 DEF Free
    <3>5. OneWorker
      <4>1. \A v \in Workers : agent[v].pc # "idle" => v = w
        BY <3>4, OpenClawAssumption DEF OcThreads
      <4>2. \A t \in OcThreads : agent[t].reserved # Nobody => t = u
        BY <3>2, <3>4
      <4> QED
        <5>1. \A v \in Workers : agent[v].pc \in Running \cup {"reserved"} => worker = v
          BY <2>2, <4>1 DEF Running
        <5>2. \A t \in OcThreads : agent[t].reserved # Nobody =>
                OcAt(t, "project") /\ OcAt(agent[t].reserved, "reserved")
          BY <3>2, <4>2 DEF OcAt
        <5>3. \A t, v \in OcThreads :
                agent[t].reserved # Nobody /\ agent[v].reserved = agent[t].reserved => t = v
          BY <4>2
        <5> QED
          BY <5>1, <5>2, <5>3 DEF OneWorker
    <3>6. UsersOnlyRefresh
      BY <3>1, <3>2, <3>4, OpenClawAssumption DEF UsersOnlyRefresh, OcThreads
    <3>7. \A v \in Workers : agent[v].pc \in {"idle", "reserved"}
      BY <3>2, <3>4, OpenClawAssumption DEF OcThreads
    <3>8. AttemptsAreCurrent /\ VerifiedIsFresh /\ ReadyMeansFresh
      BY <2>2, <3>7 DEF AttemptsAreCurrent, VerifiedIsFresh, ReadyMeansFresh, OcAt, Attempting
    <3> QED
      BY <3>3, <3>5, <3>6, <3>8 DEF ClawInv
  <2> QED
    BY <2>1, <2>2 DEF OcInit
<1>2. ClawInv /\ [OcNext]_clawVars => ClawInv'
  <2> SUFFICES ASSUME ClawInv, [OcNext]_clawVars PROVE ClawInv'
    OBVIOUS
  <2>1. ASSUME NEW t \in OcThreads, Recovery(t) PROVE ClawInv'
    BY <2>1, ProjectKeeps, FetchKeeps, CommitKeeps, MarkKeeps, BeginKeeps, ProbeKeeps,
       HealthProbeKeeps, CheckedKeeps, ResyncKeeps, SyncKeeps, VerifyReadyKeeps, SettleKeeps,
       WaitedKeeps, FinallyKeeps DEF Recovery
  <2> QED
    BY <2>1, DispatchKeeps, RefreshKeeps, CloseKeeps DEF OcNext
<1> QED
  BY <1>1, <1>2, PTL DEF OcSpec

-----------------------------------------------------------------------------
\* Whenever remote tools may be dispatched, the remote capabilities are enabled
\* and were fetched after the last disconnect, for any threads and any number of
\* outages (reconnect.py: connectivity alone never restores authority).
THEOREM ReadyIsFresh == OcSpec => []ReadyMeansFresh
<1>1. ClawInv => ReadyMeansFresh
  BY DEF ClawInv
<1> QED
  BY <1>1, ClawInvariance, PTL

\* At most one thread tries to reconnect at a time, although every disconnect
\* reserves a worker and a worker that ends may leave the slot to a successor.
THEOREM OneReconnects ==
    OcSpec => [](\A v, w \in Workers : agent[v].pc \in Running /\ agent[w].pc \in Running => v = w)
<1>1. ClawInv => \A v, w \in Workers : agent[v].pc \in Running /\ agent[w].pc \in Running => v = w
  BY DEF ClawInv, OneWorker
<1> QED
  BY <1>1, ClawInvariance, PTL

-----------------------------------------------------------------------------
(* The staff: what the supervisor's records, the live children and the      *)
(* files they leave have to do with each other.                             *)

Attending(k) == k \notin {"off", "stopping"}

\* Every live child is the one its record names (NoStrays), and the two differ.
Kept(k, c, v, P) ==
    \A p \in Pids : P[p] # None =>
        /\ k # "off"
        /\ P[p].role = "core" => c.process = p
        /\ P[p].role = "voice" => v.process = p
Apart(c, v) == c.process # None => c.process # v.process

\* A child that was given up is FAILED, and there is none.
Ended(c) == c.detail = "restart_limit_exceeded" => c.state = "FAILED" /\ c.process = None

\* What a Voice Agent reports of itself.
Told(f) ==
    f # None => /\ f.detail # "restart_limit_exceeded" /\ f.state # "FAILED"
                /\ f.state = "READY" => f.detail = "none"

\* A child is bound when it is built.
Built(P) ==
    \A p \in Pids : P[p] # None =>
        /\ P[p].role = "voice" /\ P[p].phase = "up" => P[p].bound # None
        /\ P[p].phase = "new" => P[p].bound = None

\* A Voice Agent whose Core went is marked until it is replaced.
Judged(k, c, v) ==
    Attending(k) =>
        /\ v.state = "FAILED" => v.process = None
        /\ v.state = "READY" => v.process # None /\ v.detail = "none"
        /\ c.process = None => v.process = None \/ v.detail = "core_unavailable"

Placed(k, c, e) == k = "ready" => c.process # None /\ e = c.process

\* One that is not marked is bound to the Core the supervisor holds, or will
\* find its endpoint.
BoundTo(k, c, v, P, e) ==
    Attending(k) /\ v.process # None /\ P[v.process] # None /\ v.detail # "core_unavailable" =>
        /\ P[v.process].bound \in {None, c.process}
        /\ P[v.process].phase = "new" => e = c.process

\* One that is READY, or says so, has been built.
Known(k, v, P, f) ==
    /\ Attending(k) /\ v.process # None /\ P[v.process] # None
    /\ v.state = "READY" \/ (f # None /\ f.pid = v.process /\ f.state = "READY")
    => P[v.process].bound # None

\* The inductive invariant.
StaffInv ==
    /\ SupervisorTypeOK
    /\ Kept(pc, rec["core"], rec["voice"], proc) /\ Apart(rec["core"], rec["voice"])
    /\ Ended(rec["core"]) /\ Ended(rec["voice"])
    /\ Told(file) /\ Built(proc)
    /\ Judged(pc, rec["core"], rec["voice"])
    /\ Placed(pc, rec["core"], endpoint)
    /\ BoundTo(pc, rec["core"], rec["voice"], proc, endpoint)
    /\ Known(pc, rec["voice"], proc, file)

\* What every step but the clock's does to the restarts of the Core: nothing,
\* one is scheduled or given up, one is made, or a supervisor starts anew.
Restarts ==
    \/ /\ rec'["core"].stamps = rec["core"].stamps /\ rec'["core"].wait = rec["core"].wait
       /\ launched' = launched
    \/ \E b \in Components : /\ b.stamps = rec["core"].stamps /\ b.wait = rec["core"].wait
                             /\ rec'["core"] = Schedule(b) /\ launched' = launched
    \/ /\ rec["core"].wait # None /\ rec'["core"].wait = None
       /\ rec'["core"].stamps = rec["core"].stamps /\ launched' = Append(launched, 0)
    \/ /\ rec'["core"].stamps = <<>> /\ rec'["core"].wait = None /\ launched' \in {<<>>, <<0>>}

\* What they do to the restarts of the Voice Agent.
Stamps ==
    rec'["voice"].stamps \in {rec["voice"].stamps, Append(rec["voice"].stamps, 0), <<>>}

GivesUp ==
    \A r \in Roles : (GivenUp(r) /\ Attending(pc) /\ Attending(pc')) => GivenUp(r)' /\ rec'[r].process = None

-----------------------------------------------------------------------------
(* What the steps make of a component, of the processes and of the faults.  *)

LEMMA HealthIs ==
    ASSUME NEW c \in Components, NEW s \in HealthStates, NEW d \in Details
    PROVE  /\ Health(c, s, d) \in Components
           /\ Health(c, s, d).process = c.process /\ Health(c, s, d).state = s
           /\ Health(c, s, d).detail = d /\ Health(c, s, d).stamps = c.stamps
           /\ Health(c, s, d).wait = c.wait
  BY DEF Health, Components

LEMMA LetGoIs ==
    ASSUME NEW c \in Components
    PROVE  /\ LetGo(c) \in Components
           /\ LetGo(c).process = None /\ LetGo(c).state = c.state /\ LetGo(c).detail = c.detail
           /\ LetGo(c).stamps = c.stamps /\ LetGo(c).wait = c.wait
  BY DEF LetGo, Components

LEMMA LaunchedIs ==
    ASSUME NEW c \in Components, NEW p \in Pids
    PROVE  /\ Launched(c, p) \in Components
           /\ Launched(c, p).process = p /\ Launched(c, p).state = "STARTING"
           /\ Launched(c, p).detail = "none" /\ Launched(c, p).stamps = c.stamps
           /\ Launched(c, p).wait = None
  BY DEF Launched, Health, Components, HealthStates, Details

LEMMA DegradedIs ==
    ASSUME NEW v \in Components
    PROVE  /\ Degraded(v) \in Components
           /\ Degraded(v).process = v.process /\ Degraded(v).stamps = v.stamps
           /\ Degraded(v).wait = v.wait
           /\ IF v.state = "FAILED" THEN Degraded(v) = v
              ELSE Degraded(v).state = "DEGRADED" /\ Degraded(v).detail = "core_unavailable"
  BY HealthIs DEF Degraded, HealthStates, Details

LEMMA ScheduleIs ==
    ASSUME NEW c \in Components
    PROVE  /\ Schedule(c) \in Components /\ Schedule(c).process = c.process
           /\ \/ /\ Len(c.stamps) >= MaxRestarts
                 /\ Schedule(c).state = "FAILED" /\ Schedule(c).detail = "restart_limit_exceeded"
                 /\ Schedule(c).stamps = c.stamps /\ Schedule(c).wait = None
              \/ /\ ~(Len(c.stamps) >= MaxRestarts)
                 /\ Schedule(c).state = c.state /\ Schedule(c).detail = c.detail
                 /\ Schedule(c).stamps = Append(c.stamps, 0) /\ Schedule(c).wait = Backoff
<1>1. CASE Len(c.stamps) >= MaxRestarts
  BY <1>1 DEF Schedule, Health, Components, HealthStates, Details
<1>2. CASE ~(Len(c.stamps) >= MaxRestarts)
  <2>1. Append(c.stamps, 0) \in Seq(0..Window) /\ Backoff \in 0..Backoff
    BY SupervisorAssumption DEF Components
  <2>2. Schedule(c) = [c EXCEPT !.stamps = Append(@, 0), !.wait = Backoff]
    BY <1>2 DEF Schedule
  <2> QED
    BY <1>2, <2>1, <2>2 DEF Components
<1> QED
  BY <1>1, <1>2

LEMMA NewComponentIs ==
    /\ NewComponent \in Components /\ NewComponent.process = None
    /\ NewComponent.state = "STOPPED" /\ NewComponent.detail = "none"
    /\ NewComponent.stamps = <<>> /\ NewComponent.wait = None
  BY DEF NewComponent, Components, HealthStates, Details

LEMMA NewProcessIs ==
    ASSUME NEW r \in Roles
    PROVE  /\ NewProcess(r) \in Processes /\ NewProcess(r) # None
           /\ NewProcess(r).role = r /\ NewProcess(r).phase = "new" /\ NewProcess(r).bound = None
<1>1. NewProcess(r) \in Processes
  BY DEF NewProcess, Processes
<1> QED
  BY <1>1, SupervisorAssumption DEF NewProcess

LEMMA BothRoles ==
    ASSUME NEW a \in Components, NEW b \in Components
    PROVE  /\ [core |-> a, voice |-> b] \in [Roles -> Components]
           /\ [core |-> a, voice |-> b]["core"] = a /\ [core |-> a, voice |-> b]["voice"] = b
  BY DEF Roles

Attempts == {"spawn", "stop", "stopfile", "discard", "unlink", "read",
             "die", "crash", "slow", "audio"}

LEMMA AttemptsFinite == IsFiniteSet(Attempts)
<1>1. IsFiniteSet({"spawn"}) /\ IsFiniteSet({"stop"}) /\ IsFiniteSet({"stopfile"})
      /\ IsFiniteSet({"discard"}) /\ IsFiniteSet({"unlink"}) /\ IsFiniteSet({"read"})
      /\ IsFiniteSet({"die"}) /\ IsFiniteSet({"crash"}) /\ IsFiniteSet({"slow"})
      /\ IsFiniteSet({"audio"})
  BY FS_Singleton
<1>2. IsFiniteSet({"spawn"} \cup {"stop"}) /\ IsFiniteSet({"stopfile"} \cup {"discard"})
      /\ IsFiniteSet({"unlink"} \cup {"read"}) /\ IsFiniteSet({"die"} \cup {"crash"})
      /\ IsFiniteSet({"slow"} \cup {"audio"})
  BY <1>1, FS_Union
<1>3. /\ IsFiniteSet(({"spawn"} \cup {"stop"}) \cup ({"stopfile"} \cup {"discard"}))
      /\ IsFiniteSet(({"unlink"} \cup {"read"}) \cup ({"die"} \cup {"crash"}))
  BY <1>2, FS_Union
<1>4. IsFiniteSet((({"spawn"} \cup {"stop"}) \cup ({"stopfile"} \cup {"discard"}))
                  \cup (({"unlink"} \cup {"read"}) \cup ({"die"} \cup {"crash"})))
  BY <1>3, FS_Union
<1>5. IsFiniteSet(((({"spawn"} \cup {"stop"}) \cup ({"stopfile"} \cup {"discard"}))
                   \cup (({"unlink"} \cup {"read"}) \cup ({"die"} \cup {"crash"})))
                  \cup ({"slow"} \cup {"audio"}))
  BY <1>2, <1>4, FS_Union
<1>6. Attempts = ((({"spawn"} \cup {"stop"}) \cup ({"stopfile"} \cup {"discard"}))
                   \cup (({"unlink"} \cup {"read"}) \cup ({"die"} \cup {"crash"})))
                  \cup ({"slow"} \cup {"audio"})
  BY DEF Attempts
<1> QED
  BY <1>5, <1>6

LEMMA Spending ==
    ASSUME SupervisorTypeOK, NEW ok, DOMAIN ok \subseteq Attempts, Spend(ok)
    PROVE  faults' \in 0..Faults
<1> DEFINE lost == {k \in DOMAIN ok : ~ok[k]}
<1>1. faults + Cardinality(lost) <= Faults /\ faults' = faults + Cardinality(lost)
  BY DEF Spend
<1>2. Cardinality(lost) \in Nat
  <2>1. lost \in SUBSET Attempts
    OBVIOUS
  <2>2. IsFiniteSet(lost)
    BY <2>1, AttemptsFinite, FS_Subset
  <2> QED
    BY <2>2, FS_CardinalityType
<1> HIDE DEF lost
<1> QED
  BY <1>1, <1>2, SupervisorAssumption DEF SupervisorTypeOK

\* Stopping a child kills it, unless it cannot be stopped.
LEMMA KilledIs ==
    ASSUME SupervisorTypeOK, NEW r \in Roles, NEW ok, "stop" \in DOMAIN ok
    PROVE  /\ Killed(r, ok) \in [Pids -> Processes \cup {None}]
           /\ \A q \in Pids : Killed(r, ok)[q] = IF ok["stop"] /\ q = rec[r].process THEN None ELSE proc[q]
           /\ Stopped(r, ok) = IF ok["stop"] THEN LetGo(rec[r]) ELSE rec[r]
<1>1. rec[r] \in Components /\ proc \in [Pids -> Processes \cup {None}] /\ None \notin Pids
  BY SupervisorAssumption DEF SupervisorTypeOK
<1>2. rec[r].process \in Pids \cup {None}
  BY <1>1 DEF Components
<1>3. Stopped(r, ok) = IF ok["stop"] THEN LetGo(rec[r]) ELSE rec[r]
  BY DEF Stopped, CanBeLost
<1>4. CASE ~ok["stop"] \/ ~Alive(r)
  <2>1. Killed(r, ok) = proc
    BY <1>4 DEF Killed, CanBeLost
  <2> QED
    BY <1>1, <1>2, <1>3, <1>4, <2>1 DEF Alive, Live
<1>5. CASE ok["stop"] /\ Alive(r)
  <2>1. Killed(r, ok) = [proc EXCEPT ![rec[r].process] = None]
    BY <1>5 DEF Killed, CanBeLost
  <2> QED
    BY <1>1, <1>2, <1>3, <1>5, <2>1 DEF Alive, Live
<1> QED
  BY <1>4, <1>5

\* What a file is after its removal was attempted.
LEMMA RemovedIs ==
    ASSUME SupervisorTypeOK, NEW ok, NEW p
    PROVE  /\ EndpointWithout(p, ok) \in {endpoint, None} /\ FileAfter(ok) \in {file, None}
           /\ EndpointWithout(p, ok) \in Pids \cup {None} /\ FileAfter(ok) \in Reports \cup {None}
  BY DEF SupervisorTypeOK, EndpointWithout, FileAfter

\* The records, and what is known of them.
LEMMA Staff ==
    ASSUME StaffInv
    PROVE  /\ SupervisorTypeOK /\ rec["core"] \in Components /\ rec["voice"] \in Components
           /\ Kept(pc, rec["core"], rec["voice"], proc) /\ Apart(rec["core"], rec["voice"])
           /\ Ended(rec["core"]) /\ Ended(rec["voice"])
           /\ Told(file) /\ Built(proc)
           /\ Judged(pc, rec["core"], rec["voice"])
           /\ Placed(pc, rec["core"], endpoint)
           /\ BoundTo(pc, rec["core"], rec["voice"], proc, endpoint)
           /\ Known(pc, rec["voice"], proc, file)
           /\ None \notin Pids
           /\ rec["core"].process \in Pids \cup {None} /\ rec["voice"].process \in Pids \cup {None}
<1>1. rec["core"] \in Components /\ rec["voice"] \in Components
  BY DEF StaffInv, SupervisorTypeOK, Roles
<1>2. rec["core"].process \in Pids \cup {None} /\ rec["voice"].process \in Pids \cup {None}
  BY <1>1 DEF Components
<1> QED
  BY <1>1, <1>2, SupervisorAssumption DEF StaffInv

-----------------------------------------------------------------------------
(* The steps.                                                               *)
LEMMA CoreRunsKeeps ==
    ASSUME StaffInv, CoreRuns
    PROVE  StaffInv' /\ GivesUp /\ Restarts /\ Stamps
<1> DEFINE c == rec["core"]  v == rec["voice"]  d == rec'["core"]  w == rec'["voice"]
<1>2. /\ pc' = "core" /\ pc \notin {"off", "stopping"}
      /\ rec' = rec /\ d = c /\ w = v
      /\ UNCHANGED <<proc, endpoint, file, launched>>
      /\ started' = started /\ stopFile' = stopFile /\ starts' = starts /\ faults' \in 0..Faults
  BY Staff DEF CoreRuns, TickBegins, disk, SupervisorTypeOK
<1>3. SupervisorTypeOK'
  BY Staff, <1>2 DEF SupervisorTypeOK
<1>4. Kept(pc', d, w, proc') /\ Apart(d, w)
  BY Staff, <1>2 DEF Kept, Apart, Placed
<1>5. Ended(d) /\ Ended(w) /\ Told(file') /\ Built(proc')
  BY Staff, <1>2 DEF Ended, Told, Built, Judged, Attending
<1>6. Judged(pc', d, w) /\ Placed(pc', d, endpoint')
  BY Staff, <1>2 DEF Judged, Placed, Attending, Kept, Told
<1>7. BoundTo(pc', d, w, proc', endpoint')
  BY Staff, <1>2 DEF BoundTo, Judged, Placed, Attending, Kept, Apart, Built
<1>8. Known(pc', w, proc', file')
  BY Staff, <1>2 DEF Known, Attending, Apart, Kept, Built, Judged
<1>9. GivesUp
  <2>1. Attending(pc) /\ Attending(pc') =>
          /\ c.detail = "restart_limit_exceeded" => d.detail = c.detail /\ d.process = None
          /\ v.detail = "restart_limit_exceeded" => w.detail = v.detail /\ w.process = None
    BY Staff, <1>2 DEF Ended, Attending
  <2> QED
    BY <2>1 DEF GivesUp, GivenUp, Roles
<1>10. Restarts
  BY Staff, <1>2 DEF Restarts
<1>11. Stamps
  BY Staff, <1>2 DEF Stamps
<1> QED
  BY <1>3, <1>4, <1>5, <1>6, <1>7, <1>8, <1>9, <1>10, <1>11 DEF StaffInv

LEMMA CoreNotDueKeeps ==
    ASSUME StaffInv, CoreNotDue
    PROVE  StaffInv' /\ GivesUp /\ Restarts /\ Stamps
<1> DEFINE c == rec["core"]  v == rec["voice"]  d == rec'["core"]  w == rec'["voice"]
<1>2. /\ pc' = "core" /\ pc \notin {"off", "stopping"}
      /\ rec' = rec /\ d = c /\ w = v
      /\ UNCHANGED <<proc, endpoint, file, launched>>
      /\ started' = started /\ stopFile' = stopFile /\ starts' = starts /\ faults' \in 0..Faults
  BY Staff DEF CoreNotDue, TickBegins, disk, SupervisorTypeOK
<1>3. SupervisorTypeOK'
  BY Staff, <1>2 DEF SupervisorTypeOK
<1>4. Kept(pc', d, w, proc') /\ Apart(d, w)
  BY Staff, <1>2 DEF Kept, Apart, Placed
<1>5. Ended(d) /\ Ended(w) /\ Told(file') /\ Built(proc')
  BY Staff, <1>2 DEF Ended, Told, Built, Judged, Attending
<1>6. Judged(pc', d, w) /\ Placed(pc', d, endpoint')
  BY Staff, <1>2 DEF Judged, Placed, Attending, Kept, Told
<1>7. BoundTo(pc', d, w, proc', endpoint')
  BY Staff, <1>2 DEF BoundTo, Judged, Placed, Attending, Kept, Apart, Built
<1>8. Known(pc', w, proc', file')
  BY Staff, <1>2 DEF Known, Attending, Apart, Kept, Built, Judged
<1>9. GivesUp
  <2>1. Attending(pc) /\ Attending(pc') =>
          /\ c.detail = "restart_limit_exceeded" => d.detail = c.detail /\ d.process = None
          /\ v.detail = "restart_limit_exceeded" => w.detail = v.detail /\ w.process = None
    BY Staff, <1>2 DEF Ended, Attending
  <2> QED
    BY <2>1 DEF GivesUp, GivenUp, Roles
<1>10. Restarts
  BY Staff, <1>2 DEF Restarts
<1>11. Stamps
  BY Staff, <1>2 DEF Stamps
<1> QED
  BY <1>3, <1>4, <1>5, <1>6, <1>7, <1>8, <1>9, <1>10, <1>11 DEF StaffInv

LEMMA CoreWaitsKeeps ==
    ASSUME StaffInv, CoreWaits
    PROVE  StaffInv' /\ GivesUp /\ Restarts /\ Stamps
<1> DEFINE c == rec["core"]  v == rec["voice"]  d == rec'["core"]  w == rec'["voice"]
<1>2. /\ pc' = "waiting" /\ pc \notin {"off", "stopping"}
      /\ rec' = rec /\ d = c /\ w = v
      /\ UNCHANGED <<proc, endpoint, file, launched>>
      /\ started' = started /\ stopFile' = stopFile /\ starts' = starts /\ faults' \in 0..Faults
  <2>1. PICK ok \in [{"read"} -> BOOLEAN] : Spend(ok)
    BY DEF CoreWaits, Outcomes
  <2>2. faults' \in 0..Faults
    BY Staff, <2>1, Spending DEF Attempts
  <2> QED
    BY Staff, <2>2 DEF CoreWaits, TickBegins, disk
<1>3. SupervisorTypeOK'
  BY Staff, <1>2 DEF SupervisorTypeOK
<1>4. Kept(pc', d, w, proc') /\ Apart(d, w)
  BY Staff, <1>2 DEF Kept, Apart, Placed
<1>5. Ended(d) /\ Ended(w) /\ Told(file') /\ Built(proc')
  BY Staff, <1>2 DEF Ended, Told, Built, Judged, Attending
<1>6. Judged(pc', d, w) /\ Placed(pc', d, endpoint')
  BY Staff, <1>2 DEF Judged, Placed, Attending, Kept, Told
<1>7. BoundTo(pc', d, w, proc', endpoint')
  BY Staff, <1>2 DEF BoundTo, Judged, Placed, Attending, Kept, Apart, Built
<1>8. Known(pc', w, proc', file')
  BY Staff, <1>2 DEF Known, Attending, Apart, Kept, Built, Judged
<1>9. GivesUp
  <2>1. Attending(pc) /\ Attending(pc') =>
          /\ c.detail = "restart_limit_exceeded" => d.detail = c.detail /\ d.process = None
          /\ v.detail = "restart_limit_exceeded" => w.detail = v.detail /\ w.process = None
    BY Staff, <1>2 DEF Ended, Attending
  <2> QED
    BY <2>1 DEF GivesUp, GivenUp, Roles
<1>10. Restarts
  BY Staff, <1>2 DEF Restarts
<1>11. Stamps
  BY Staff, <1>2 DEF Stamps
<1> QED
  BY <1>3, <1>4, <1>5, <1>6, <1>7, <1>8, <1>9, <1>10, <1>11 DEF StaffInv

LEMMA RequestStopKeeps ==
    ASSUME StaffInv, RequestStop
    PROVE  StaffInv' /\ GivesUp /\ Restarts /\ Stamps
<1> DEFINE c == rec["core"]  v == rec["voice"]  d == rec'["core"]  w == rec'["voice"]
<1>2. /\ pc' = pc
      /\ rec' = rec /\ d = c /\ w = v
      /\ UNCHANGED <<proc, endpoint, file, launched>>
      /\ started' = started /\ stopFile' = TRUE /\ faults' = faults /\ starts' = starts
  BY DEF RequestStop
<1>3. SupervisorTypeOK'
  BY Staff, <1>2 DEF SupervisorTypeOK
<1>4. Kept(pc', d, w, proc') /\ Apart(d, w)
  BY Staff, <1>2 DEF Kept, Apart, Placed
<1>5. Ended(d) /\ Ended(w) /\ Told(file') /\ Built(proc')
  BY Staff, <1>2 DEF Ended, Told, Built, Judged, Attending
<1>6. Judged(pc', d, w) /\ Placed(pc', d, endpoint')
  BY Staff, <1>2 DEF Judged, Placed, Attending, Kept, Told
<1>7. BoundTo(pc', d, w, proc', endpoint')
  BY Staff, <1>2 DEF BoundTo, Judged, Placed, Attending, Kept, Apart, Built
<1>8. Known(pc', w, proc', file')
  BY Staff, <1>2 DEF Known, Attending, Apart, Kept, Built, Judged
<1>9. GivesUp
  <2>1. Attending(pc) /\ Attending(pc') =>
          /\ c.detail = "restart_limit_exceeded" => d.detail = c.detail /\ d.process = None
          /\ v.detail = "restart_limit_exceeded" => w.detail = v.detail /\ w.process = None
    BY Staff, <1>2 DEF Ended, Attending
  <2> QED
    BY <2>1 DEF GivesUp, GivenUp, Roles
<1>10. Restarts
  BY Staff, <1>2 DEF Restarts
<1>11. Stamps
  BY Staff, <1>2 DEF Stamps
<1> QED
  BY <1>3, <1>4, <1>5, <1>6, <1>7, <1>8, <1>9, <1>10, <1>11 DEF StaffInv

LEMMA DiesKeeps ==
    ASSUME StaffInv, Dies
    PROVE  StaffInv' /\ GivesUp /\ Restarts /\ Stamps
<1> DEFINE c == rec["core"]  v == rec["voice"]  d == rec'["core"]  w == rec'["voice"]
<1>2. /\ pc' = "off" /\ rec' = rec /\ d = c /\ w = v
      /\ UNCHANGED <<endpoint, file, launched>> /\ proc' = [p \in Pids |-> None]
      /\ started' = started /\ stopFile' = stopFile /\ starts' = starts /\ faults' \in 0..Faults
  <2>1. DOMAIN [die |-> FALSE] = {"die"} /\ Spend([die |-> FALSE])
    BY DEF Dies
  <2>2. faults' \in 0..Faults
    BY Staff, <2>1, Spending DEF Attempts
  <2> QED
    BY <2>2 DEF Dies, disk
<1>3. SupervisorTypeOK'
  BY Staff, <1>2 DEF SupervisorTypeOK
<1>4. Kept(pc', d, w, proc') /\ Apart(d, w)
  BY Staff, <1>2 DEF Kept, Apart, Placed
<1>5. Ended(d) /\ Ended(w) /\ Told(file') /\ Built(proc')
  BY Staff, <1>2 DEF Ended, Told, Built, Judged, Attending
<1>6. Judged(pc', d, w) /\ Placed(pc', d, endpoint')
  BY Staff, <1>2 DEF Judged, Placed, Attending, Kept, Told
<1>7. BoundTo(pc', d, w, proc', endpoint')
  BY Staff, <1>2 DEF BoundTo, Judged, Placed, Attending, Kept, Apart, Built
<1>8. Known(pc', w, proc', file')
  BY Staff, <1>2 DEF Known, Attending, Apart, Kept, Built, Judged
<1>9. GivesUp
  <2>1. Attending(pc) /\ Attending(pc') =>
          /\ c.detail = "restart_limit_exceeded" => d.detail = c.detail /\ d.process = None
          /\ v.detail = "restart_limit_exceeded" => w.detail = v.detail /\ w.process = None
    BY Staff, <1>2 DEF Ended, Attending
  <2> QED
    BY <2>1 DEF GivesUp, GivenUp, Roles
<1>10. Restarts
  BY Staff, <1>2 DEF Restarts
<1>11. Stamps
  BY Staff, <1>2 DEF Stamps
<1> QED
  BY <1>3, <1>4, <1>5, <1>6, <1>7, <1>8, <1>9, <1>10, <1>11 DEF StaffInv

LEMMA StopVoiceKeeps ==
    ASSUME StaffInv, StopVoice
    PROVE  StaffInv' /\ GivesUp /\ Restarts /\ Stamps
<1> DEFINE c == rec["core"]  v == rec["voice"]  d == rec'["core"]  w == rec'["voice"]
<1>2. /\ pc' = "stopping" /\ pc = "idle" /\ rec' \in [Roles -> Components] /\ d = c
      /\ \E ok \in {TRUE, FALSE} :
         /\ w \in Components /\ w.state \in {"STOPPED", "FAILED"} /\ w.detail # "restart_limit_exceeded"
         /\ w.process = (IF ok THEN None ELSE v.process) /\ w.stamps = v.stamps
         /\ \A q \in Pids : proc'[q] = IF ok /\ q = v.process THEN None ELSE proc[q]
      /\ proc' \in [Pids -> Processes \cup {None}]
      /\ UNCHANGED <<endpoint, file, launched>>
      /\ started' \in 0..StartTimeout /\ stopFile' \in BOOLEAN /\ starts' = starts /\ faults' \in 0..Faults
  <2>1. PICK ok \in [{"stop"} -> BOOLEAN] :
          /\ Spend(ok) /\ proc' = Killed("voice", ok)
          /\ rec' = [rec EXCEPT !["voice"] =
                       Health(Stopped("voice", ok), IF ok["stop"] THEN "STOPPED" ELSE "FAILED",
                              IF ok["stop"] THEN "none" ELSE "stop_failed")]
    BY DEF StopVoice, Outcomes
  <2>2. faults' \in 0..Faults
    BY Staff, <2>1, Spending DEF Attempts
  <2>3. /\ Stopped("voice", ok) = IF ok["stop"] THEN LetGo(v) ELSE v
        /\ \A q \in Pids : proc'[q] = IF ok["stop"] /\ q = v.process THEN None ELSE proc[q]
        /\ proc' \in [Pids -> Processes \cup {None}]
    BY Staff, <2>1, KilledIs DEF Roles
  <2>4. Stopped("voice", ok) \in Components /\ Stopped("voice", ok).stamps = v.stamps
    BY Staff, <2>3, LetGoIs
  <2>5. /\ w \in Components /\ w.state \in {"STOPPED", "FAILED"} /\ w.detail # "restart_limit_exceeded"
        /\ w.process = Stopped("voice", ok).process /\ d = c /\ rec' \in [Roles -> Components]
        /\ w.stamps = v.stamps
    BY Staff, <2>1, <2>4, HealthIs DEF SupervisorTypeOK, Roles, HealthStates, Details
  <2>6. w.process = IF ok["stop"] THEN None ELSE v.process
    BY Staff, <2>3, <2>5, LetGoIs
  <2> QED
    BY Staff, <2>1, <2>2, <2>3, <2>5, <2>6 DEF StopVoice, disk, SupervisorTypeOK
<1>3. SupervisorTypeOK'
  BY Staff, <1>2 DEF SupervisorTypeOK
<1>4. Kept(pc', d, w, proc') /\ Apart(d, w)
  BY Staff, <1>2 DEF Kept, Apart, Placed
<1>5. Ended(d) /\ Ended(w) /\ Told(file') /\ Built(proc')
  BY Staff, <1>2 DEF Ended, Told, Built, Judged, Attending
<1>6. Judged(pc', d, w) /\ Placed(pc', d, endpoint')
  BY Staff, <1>2 DEF Judged, Placed, Attending, Kept, Told
<1>7. BoundTo(pc', d, w, proc', endpoint')
  BY Staff, <1>2 DEF BoundTo, Judged, Placed, Attending, Kept, Apart, Built
<1>8. Known(pc', w, proc', file')
  BY Staff, <1>2 DEF Known, Attending, Apart, Kept, Built, Judged
<1>9. GivesUp
  <2>1. Attending(pc) /\ Attending(pc') =>
          /\ c.detail = "restart_limit_exceeded" => d.detail = c.detail /\ d.process = None
          /\ v.detail = "restart_limit_exceeded" => w.detail = v.detail /\ w.process = None
    BY Staff, <1>2 DEF Ended, Attending
  <2> QED
    BY <2>1 DEF GivesUp, GivenUp, Roles
<1>10. Restarts
  BY Staff, <1>2 DEF Restarts
<1>11. Stamps
  BY Staff, <1>2 DEF Stamps
<1> QED
  BY <1>3, <1>4, <1>5, <1>6, <1>7, <1>8, <1>9, <1>10, <1>11 DEF StaffInv

LEMMA StopCoreKeeps ==
    ASSUME StaffInv, StopCore
    PROVE  StaffInv' /\ GivesUp /\ Restarts /\ Stamps
<1> DEFINE c == rec["core"]  v == rec["voice"]  d == rec'["core"]  w == rec'["voice"]
<1>2. /\ pc' = "off" /\ rec' \in [Roles -> Components] /\ w = v
      /\ d \in Components /\ d.detail # "restart_limit_exceeded" /\ (d.process = c.process \/ d.process = None)
      /\ d.stamps = c.stamps /\ d.wait = c.wait
      /\ proc' = [p \in Pids |-> None] /\ endpoint' \in Pids \cup {None} /\ file' \in {file, None}
      /\ UNCHANGED launched
      /\ started' \in 0..StartTimeout /\ stopFile' \in BOOLEAN /\ starts' = starts /\ faults' \in 0..Faults
  <2>1. PICK ok \in [{"stop", "stopfile", "discard", "unlink"} -> BOOLEAN] :
          /\ Spend(ok)
          /\ rec' = [rec EXCEPT !["core"] =
                       Health(Stopped("core", ok), IF ok["stop"] THEN "STOPPED" ELSE "FAILED",
                              IF ok["stop"] THEN "none" ELSE "stop_failed")]
          /\ stopFile' = ~ok["stopfile"] /\ file' = FileAfter(ok)
          /\ endpoint' = EndpointWithout(rec["core"].process, ok)
    BY DEF StopCore, Outcomes
  <2>2. faults' \in 0..Faults
    BY Staff, <2>1, Spending DEF Attempts
  <2>3. Stopped("core", ok) = IF ok["stop"] THEN LetGo(c) ELSE c
    BY Staff, <2>1, KilledIs DEF Roles
  <2>4. /\ Stopped("core", ok) \in Components
        /\ Stopped("core", ok).process = c.process \/ Stopped("core", ok).process = None
        /\ Stopped("core", ok).stamps = c.stamps /\ Stopped("core", ok).wait = c.wait
    BY Staff, <2>3, LetGoIs
  <2>5. /\ d \in Components /\ d.detail # "restart_limit_exceeded"
        /\ d.process = Stopped("core", ok).process /\ w = v /\ rec' \in [Roles -> Components]
        /\ d.stamps = c.stamps /\ d.wait = c.wait
    BY Staff, <2>1, <2>4, HealthIs DEF SupervisorTypeOK, Roles, HealthStates, Details
  <2>6. endpoint' \in Pids \cup {None} /\ file' \in {file, None} /\ stopFile' \in BOOLEAN
    BY Staff, <2>1, RemovedIs
  <2> QED
    BY Staff, <2>2, <2>4, <2>5, <2>6 DEF StopCore, SupervisorTypeOK
<1>3. SupervisorTypeOK'
  BY Staff, <1>2 DEF SupervisorTypeOK
<1>4. Kept(pc', d, w, proc') /\ Apart(d, w)
  BY Staff, <1>2 DEF Kept, Apart, Placed
<1>5. Ended(d) /\ Ended(w) /\ Told(file') /\ Built(proc')
  BY Staff, <1>2 DEF Ended, Told, Built, Judged, Attending
<1>6. Judged(pc', d, w) /\ Placed(pc', d, endpoint')
  BY Staff, <1>2 DEF Judged, Placed, Attending, Kept, Told
<1>7. BoundTo(pc', d, w, proc', endpoint')
  BY Staff, <1>2 DEF BoundTo, Judged, Placed, Attending, Kept, Apart, Built
<1>8. Known(pc', w, proc', file')
  BY Staff, <1>2 DEF Known, Attending, Apart, Kept, Built, Judged
<1>9. GivesUp
  <2>1. Attending(pc) /\ Attending(pc') =>
          /\ c.detail = "restart_limit_exceeded" => d.detail = c.detail /\ d.process = None
          /\ v.detail = "restart_limit_exceeded" => w.detail = v.detail /\ w.process = None
    BY Staff, <1>2 DEF Ended, Attending
  <2> QED
    BY <2>1 DEF GivesUp, GivenUp, Roles
<1>10. Restarts
  BY Staff, <1>2 DEF Restarts
<1>11. Stamps
  BY Staff, <1>2 DEF Stamps
<1> QED
  BY <1>3, <1>4, <1>5, <1>6, <1>7, <1>8, <1>9, <1>10, <1>11 DEF StaffInv

LEMMA CoreGoneKeeps ==
    ASSUME StaffInv, CoreGone
    PROVE  StaffInv' /\ GivesUp /\ Restarts /\ Stamps
<1> DEFINE c == rec["core"]  v == rec["voice"]  d == rec'["core"]  w == rec'["voice"]
<1>2. /\ pc' = "core" /\ pc = "idle" /\ rec' \in [Roles -> Components]
      /\ c.process # None /\ proc[c.process] = None
      /\ \E b \in Components : /\ b.process = None /\ b.stamps = c.stamps /\ b.wait = c.wait /\ b.detail = "none"
                            /\ d = Schedule(b)
      /\ d.process = None /\ (d.detail = "restart_limit_exceeded" => d.state = "FAILED")
      /\ \E ok \in {TRUE, FALSE}, b \in Components :
         /\ b = (IF ok THEN LetGo(v) ELSE v) /\ w = Degraded(b)
         /\ w.process = (IF ok THEN None ELSE v.process) /\ w.stamps = v.stamps
         /\ IF v.state = "FAILED" THEN w.state = "FAILED" /\ w.detail = v.detail
            ELSE w.state = "DEGRADED" /\ w.detail = "core_unavailable"
         /\ \A q \in Pids : proc'[q] = IF ok /\ q = v.process THEN None ELSE proc[q]
      /\ proc' \in [Pids -> Processes \cup {None}]
      /\ endpoint' \in Pids \cup {None} /\ file' \in {file, None} /\ launched' = launched
      /\ started' \in 0..StartTimeout /\ stopFile' \in BOOLEAN /\ starts' = starts /\ faults' \in 0..Faults
  <2>1. PICK ok \in [{"stop", "discard", "unlink"} -> BOOLEAN] :
          /\ Spend(ok)
          /\ proc' = Killed("voice", ok)
          /\ endpoint' = EndpointWithout(rec["core"].process, ok) /\ file' = FileAfter(ok)
          /\ rec' = [core |-> Schedule(Health(LetGo(rec["core"]), "STARTING", "none")),
                     voice |-> Degraded(Stopped("voice", ok))]
    BY DEF CoreGone, Outcomes
  <2>2. faults' \in 0..Faults
    BY Staff, <2>1, Spending DEF Attempts
  <2>3. /\ Stopped("voice", ok) = IF ok["stop"] THEN LetGo(v) ELSE v
        /\ \A q \in Pids : proc'[q] = IF ok["stop"] /\ q = v.process THEN None ELSE proc[q]
        /\ proc' \in [Pids -> Processes \cup {None}]
    BY Staff, <2>1, KilledIs DEF Roles
  <2>4. /\ Stopped("voice", ok) \in Components /\ Stopped("voice", ok).state = v.state
        /\ Stopped("voice", ok).detail = v.detail /\ Stopped("voice", ok).stamps = v.stamps
        /\ Stopped("voice", ok).process = IF ok["stop"] THEN None ELSE v.process
    BY Staff, <2>3, LetGoIs
  <2>5. PICK b \in Components : /\ b = Health(LetGo(c), "STARTING", "none") /\ b.detail = "none"
                                /\ b.process = None /\ b.stamps = c.stamps /\ b.wait = c.wait
    BY Staff, LetGoIs, HealthIs DEF HealthStates, Details
  <2>6. Schedule(b) \in Components /\ Degraded(Stopped("voice", ok)) \in Components
    BY <2>4, <2>5, ScheduleIs, DegradedIs
  <2>7. d = Schedule(b) /\ w = Degraded(Stopped("voice", ok)) /\ rec' \in [Roles -> Components]
    BY <2>1, <2>5, <2>6, BothRoles
  <2>8. d.process = None /\ (d.detail = "restart_limit_exceeded" => d.state = "FAILED")
    BY <2>5, <2>7, ScheduleIs
  <2>9. /\ w.process = (IF ok["stop"] THEN None ELSE v.process) /\ w.stamps = v.stamps
        /\ IF v.state = "FAILED" THEN w.state = "FAILED" /\ w.detail = v.detail
           ELSE w.state = "DEGRADED" /\ w.detail = "core_unavailable"
    BY <2>4, <2>7, DegradedIs
  <2>10. endpoint' \in Pids \cup {None} /\ file' \in {file, None}
    BY Staff, <2>1, RemovedIs
  <2>11. c.process # None /\ proc[c.process] = None
    BY DEF CoreGone, Alive, Live
  <2> QED
    BY Staff, <2>2, <2>3, <2>4, <2>5, <2>7, <2>8, <2>9, <2>10, <2>11
       DEF CoreGone, TickBegins, SupervisorTypeOK
<1>3. SupervisorTypeOK'
  BY Staff, <1>2 DEF SupervisorTypeOK
<1>4. Kept(pc', d, w, proc') /\ Apart(d, w)
  BY Staff, <1>2 DEF Kept, Apart, Placed
<1>5. Ended(d) /\ Ended(w) /\ Told(file') /\ Built(proc')
  BY Staff, <1>2 DEF Ended, Told, Built, Judged, Attending
<1>6. Judged(pc', d, w) /\ Placed(pc', d, endpoint')
  BY Staff, <1>2 DEF Judged, Placed, Attending, Kept, Told
<1>7. BoundTo(pc', d, w, proc', endpoint')
  BY Staff, <1>2 DEF BoundTo, Judged, Placed, Attending, Kept, Apart, Built
<1>8. Known(pc', w, proc', file')
  BY Staff, <1>2 DEF Known, Attending, Apart, Kept, Built, Judged
<1>9. GivesUp
  <2>1. Attending(pc) /\ Attending(pc') =>
          /\ c.detail = "restart_limit_exceeded" => d.detail = c.detail /\ d.process = None
          /\ v.detail = "restart_limit_exceeded" => w.detail = v.detail /\ w.process = None
    BY Staff, <1>2 DEF Ended, Attending
  <2> QED
    BY <2>1 DEF GivesUp, GivenUp, Roles
<1>10. Restarts
  BY Staff, <1>2 DEF Restarts
<1>11. Stamps
  BY Staff, <1>2 DEF Stamps
<1> QED
  BY <1>3, <1>4, <1>5, <1>6, <1>7, <1>8, <1>9, <1>10, <1>11 DEF StaffInv

LEMMA CoreRelaunchKeeps ==
    ASSUME StaffInv, CoreRelaunch
    PROVE  StaffInv' /\ GivesUp /\ Restarts /\ Stamps
<1> DEFINE c == rec["core"]  v == rec["voice"]  d == rec'["core"]  w == rec'["voice"]
<1>2. /\ pc' = "core" /\ pc = "idle" /\ rec' \in [Roles -> Components] /\ w = v
      /\ c.process = None
      /\ \/ \E p \in Pids : /\ p # v.process /\ (file # None => file.pid # p)
                         /\ d.process = p /\ d.state = "STARTING" /\ d.detail = "none"
                         /\ d.stamps = c.stamps /\ d.wait = None /\ c.wait # None
                         /\ launched' = Append(launched, 0) /\ started' = 0
                         /\ \A q \in Pids : proc'[q] = IF q = p THEN NewProcess("core") ELSE proc[q]
         \/ /\ \E b \in Components : /\ b.process = None /\ b.stamps = c.stamps /\ b.wait = c.wait
                                    /\ d = Schedule(b)
            /\ d.process = None /\ (d.detail = "restart_limit_exceeded" => d.state = "FAILED")
            /\ UNCHANGED <<proc, launched, started>>
      /\ c.detail # "restart_limit_exceeded"
      /\ proc' \in [Pids -> Processes \cup {None}] /\ launched' \in Seq(0..Window)
      /\ NewProcess("core") # None /\ NewProcess("core").role = "core"
      /\ NewProcess("core").phase = "new" /\ NewProcess("core").bound = None
      /\ endpoint' = endpoint /\ file' = file
      /\ started' \in 0..StartTimeout /\ stopFile' \in BOOLEAN /\ starts' = starts /\ faults' \in 0..Faults
  <2>1. PICK ok \in [{"spawn"} -> BOOLEAN] :
          /\ Spend(ok)
          /\ \/ /\ ok["spawn"]
                /\ \E p \in Pids :
                      /\ Fresh(p)
                      /\ rec' = [rec EXCEPT !["core"] = Launched(@, p)]
                      /\ proc' = [proc EXCEPT ![p] = NewProcess("core")]
                /\ started' = 0
                /\ launched' = Append(launched, 0)
             \/ /\ ~ok["spawn"]
                /\ rec' = [rec EXCEPT !["core"] = Schedule(Health(@, "STARTING", "none"))]
                /\ UNCHANGED <<proc, started, launched>>
    BY DEF CoreRelaunch, Outcomes
  <2>2. faults' \in 0..Faults
    BY Staff, <2>1, Spending DEF Attempts
  <2>3. /\ c.process = None /\ c.wait = 0 /\ c.state # "FAILED" /\ pc = "idle" /\ pc' = "core"
        /\ endpoint' = endpoint /\ file' = file /\ stopFile' = stopFile /\ starts' = starts
    BY DEF CoreRelaunch, CoreDue, TickBegins, disk
  <2>4. c.wait # None /\ c.detail # "restart_limit_exceeded"
    BY Staff, <2>3, SupervisorAssumption DEF Ended
  <2>5. CASE ok["spawn"]
    <3>1. PICK p \in Pids :
            /\ Fresh(p)
            /\ rec' = [rec EXCEPT !["core"] = Launched(@, p)]
            /\ proc' = [proc EXCEPT ![p] = NewProcess("core")]
      BY <2>1, <2>5
    <3>2. p # v.process /\ (file # None => file.pid # p)
      BY <3>1 DEF Fresh, FreePids, Named
    <3>3. d = Launched(c, p) /\ w = v /\ rec' \in [Roles -> Components]
      BY Staff, <3>1, LaunchedIs DEF SupervisorTypeOK, Roles
    <3>4. /\ d.process = p /\ d.state = "STARTING" /\ d.detail = "none"
          /\ d.stamps = c.stamps /\ d.wait = None
      BY Staff, <3>3, LaunchedIs
    <3>5. /\ launched' = Append(launched, 0) /\ started' = 0 /\ launched' \in Seq(0..Window)
      <4>1. 0 \in 0..Window
        BY SupervisorAssumption
      <4>2. launched \in Seq(0..Window)
        BY Staff DEF SupervisorTypeOK
      <4>3. Append(launched, 0) \in Seq(0..Window)
        BY <4>1, <4>2
      <4>4. launched' = Append(launched, 0) /\ started' = 0
        BY <2>1, <2>5
      <4> QED
        BY <4>3, <4>4
    <3>6. /\ proc' \in [Pids -> Processes \cup {None}]
          /\ \A q \in Pids : proc'[q] = IF q = p THEN NewProcess("core") ELSE proc[q]
      BY Staff, <3>1, NewProcessIs DEF SupervisorTypeOK, Roles
    <3>7. /\ NewProcess("core") # None /\ NewProcess("core").role = "core"
          /\ NewProcess("core").phase = "new" /\ NewProcess("core").bound = None
      BY NewProcessIs DEF Roles
    <3>8. started' \in 0..StartTimeout /\ stopFile' \in BOOLEAN
      BY Staff, <2>3, <3>5, SupervisorAssumption DEF SupervisorTypeOK
    <3> QED
      BY <2>2, <2>3, <2>4, <3>1, <3>2, <3>3, <3>4, <3>5, <3>6, <3>7, <3>8
  <2>6. CASE ~ok["spawn"]
    <3>1. PICK b \in Components : /\ b = Health(c, "STARTING", "none")
                                  /\ b.process = None /\ b.stamps = c.stamps /\ b.wait = c.wait
                                  /\ b.detail = "none"
      BY Staff, <2>3, HealthIs DEF HealthStates, Details
    <3>2. d = Schedule(b) /\ w = v /\ rec' \in [Roles -> Components]
      BY Staff, <2>1, <2>6, <3>1, ScheduleIs DEF SupervisorTypeOK, Roles
    <3>3. d.process = None /\ (d.detail = "restart_limit_exceeded" => d.state = "FAILED")
      BY <3>1, <3>2, ScheduleIs
    <3>4. /\ \E x \in Components : /\ x.process = None /\ x.stamps = c.stamps /\ x.wait = c.wait
                                   /\ d = Schedule(x)
          /\ UNCHANGED <<proc, launched, started>>
      BY <2>1, <2>6, <3>1, <3>2
    <3> QED
      BY Staff, <2>2, <2>3, <2>4, <3>2, <3>3, <3>4, NewProcessIs, SupervisorAssumption
         DEF SupervisorTypeOK, Roles
  <2> QED
    BY <2>1, <2>5, <2>6
<1>3. SupervisorTypeOK'
  BY Staff, <1>2 DEF SupervisorTypeOK
<1>4. Kept(pc', d, w, proc') /\ Apart(d, w)
  BY Staff, <1>2 DEF Kept, Apart, Placed
<1>5. Ended(d) /\ Ended(w) /\ Told(file') /\ Built(proc')
  BY Staff, <1>2 DEF Ended, Told, Built, Judged, Attending
<1>6. Judged(pc', d, w) /\ Placed(pc', d, endpoint')
  BY Staff, <1>2 DEF Judged, Placed, Attending, Kept, Told
<1>7. BoundTo(pc', d, w, proc', endpoint')
  BY Staff, <1>2 DEF BoundTo, Judged, Placed, Attending, Kept, Apart, Built
<1>8. Known(pc', w, proc', file')
  BY Staff, <1>2 DEF Known, Attending, Apart, Kept, Built, Judged
<1>9. GivesUp
  <2>1. Attending(pc) /\ Attending(pc') =>
          /\ c.detail = "restart_limit_exceeded" => d.detail = c.detail /\ d.process = None
          /\ v.detail = "restart_limit_exceeded" => w.detail = v.detail /\ w.process = None
    BY Staff, <1>2 DEF Ended, Attending
  <2> QED
    BY <2>1 DEF GivesUp, GivenUp, Roles
<1>10. Restarts
  BY Staff, <1>2 DEF Restarts
<1>11. Stamps
  BY Staff, <1>2 DEF Stamps
<1> QED
  BY <1>3, <1>4, <1>5, <1>6, <1>7, <1>8, <1>9, <1>10, <1>11 DEF StaffInv

LEMMA CoreReadyKeeps ==
    ASSUME StaffInv, CoreReady
    PROVE  StaffInv' /\ GivesUp /\ Restarts /\ Stamps
<1> DEFINE c == rec["core"]  v == rec["voice"]  d == rec'["core"]  w == rec'["voice"]
<1>2. /\ pc' = "ready" /\ pc = "core" /\ rec' \in [Roles -> Components] /\ w = v
      /\ c.process # None /\ proc[c.process] # None /\ endpoint = c.process
      /\ d.process = c.process /\ d.state = "READY" /\ d.detail = "none"
      /\ d.stamps = c.stamps /\ d.wait = c.wait
      /\ UNCHANGED <<proc, endpoint, file, launched, started, stopFile, faults, starts>>
  <2>1. d = Health(c, "READY", "none") /\ Health(c, "READY", "none") \in Components
    BY Staff, HealthIs DEF CoreReady, SupervisorTypeOK, Roles, HealthStates, Details
  <2>2. w = v /\ rec' \in [Roles -> Components]
    BY Staff, <2>1 DEF CoreReady, SupervisorTypeOK, Roles
  <2>3. /\ d.process = c.process /\ d.state = "READY" /\ d.detail = "none"
        /\ d.stamps = c.stamps /\ d.wait = c.wait
    BY Staff, <2>1, HealthIs DEF HealthStates, Details
  <2> QED
    BY <2>2, <2>3 DEF CoreReady, CoreMatches, Alive, Live, disk
<1>3. SupervisorTypeOK'
  BY Staff, <1>2 DEF SupervisorTypeOK
<1>4. Kept(pc', d, w, proc') /\ Apart(d, w)
  BY Staff, <1>2 DEF Kept, Apart, Placed
<1>5. Ended(d) /\ Ended(w) /\ Told(file') /\ Built(proc')
  BY Staff, <1>2 DEF Ended, Told, Built, Judged, Attending
<1>6. Judged(pc', d, w) /\ Placed(pc', d, endpoint')
  BY Staff, <1>2 DEF Judged, Placed, Attending, Kept, Told
<1>7. BoundTo(pc', d, w, proc', endpoint')
  BY Staff, <1>2 DEF BoundTo, Judged, Placed, Attending, Kept, Apart, Built
<1>8. Known(pc', w, proc', file')
  BY Staff, <1>2 DEF Known, Attending, Apart, Kept, Built, Judged
<1>9. GivesUp
  <2>1. Attending(pc) /\ Attending(pc') =>
          /\ c.detail = "restart_limit_exceeded" => d.detail = c.detail /\ d.process = None
          /\ v.detail = "restart_limit_exceeded" => w.detail = v.detail /\ w.process = None
    BY Staff, <1>2 DEF Ended, Attending
  <2> QED
    BY <2>1 DEF GivesUp, GivenUp, Roles
<1>10. Restarts
  BY Staff, <1>2 DEF Restarts
<1>11. Stamps
  BY Staff, <1>2 DEF Stamps
<1> QED
  BY <1>3, <1>4, <1>5, <1>6, <1>7, <1>8, <1>9, <1>10, <1>11 DEF StaffInv

LEMMA CoreLostKeeps ==
    ASSUME StaffInv, CoreLost
    PROVE  StaffInv' /\ GivesUp /\ Restarts /\ Stamps
<1> DEFINE c == rec["core"]  v == rec["voice"]  d == rec'["core"]  w == rec'["voice"]
<1>2. /\ pc' = "waiting" /\ pc = "core" /\ rec' \in [Roles -> Components] /\ w = v
      /\ c.process # None /\ proc[c.process] # None
      /\ d.process = c.process /\ d.state = "STARTING" /\ d.detail = "none"
      /\ d.stamps = c.stamps /\ d.wait = c.wait
      /\ UNCHANGED <<proc, endpoint, file, launched>>
      /\ started' \in 0..StartTimeout /\ stopFile' \in BOOLEAN /\ starts' = starts /\ faults' \in 0..Faults
  <2>1. PICK ok \in [{"read"} -> BOOLEAN] : Spend(ok)
    BY DEF CoreLost, Outcomes
  <2>2. faults' \in 0..Faults
    BY Staff, <2>1, Spending DEF Attempts
  <2>3. d = Health(c, "STARTING", "none") /\ Health(c, "STARTING", "none") \in Components
    BY Staff, HealthIs DEF CoreLost, SupervisorTypeOK, Roles, HealthStates, Details
  <2>4. w = v /\ rec' \in [Roles -> Components]
    BY Staff, <2>3 DEF CoreLost, SupervisorTypeOK, Roles
  <2>5. /\ d.process = c.process /\ d.state = "STARTING" /\ d.detail = "none"
        /\ d.stamps = c.stamps /\ d.wait = c.wait
    BY Staff, <2>3, HealthIs DEF HealthStates, Details
  <2> QED
    BY Staff, <2>2, <2>4, <2>5, SupervisorAssumption DEF CoreLost, Alive, Live, disk, SupervisorTypeOK
<1>3. SupervisorTypeOK'
  BY Staff, <1>2 DEF SupervisorTypeOK
<1>4. Kept(pc', d, w, proc') /\ Apart(d, w)
  BY Staff, <1>2 DEF Kept, Apart, Placed
<1>5. Ended(d) /\ Ended(w) /\ Told(file') /\ Built(proc')
  BY Staff, <1>2 DEF Ended, Told, Built, Judged, Attending
<1>6. Judged(pc', d, w) /\ Placed(pc', d, endpoint')
  BY Staff, <1>2 DEF Judged, Placed, Attending, Kept, Told
<1>7. BoundTo(pc', d, w, proc', endpoint')
  BY Staff, <1>2 DEF BoundTo, Judged, Placed, Attending, Kept, Apart, Built
<1>8. Known(pc', w, proc', file')
  BY Staff, <1>2 DEF Known, Attending, Apart, Kept, Built, Judged
<1>9. GivesUp
  <2>1. Attending(pc) /\ Attending(pc') =>
          /\ c.detail = "restart_limit_exceeded" => d.detail = c.detail /\ d.process = None
          /\ v.detail = "restart_limit_exceeded" => w.detail = v.detail /\ w.process = None
    BY Staff, <1>2 DEF Ended, Attending
  <2> QED
    BY <2>1 DEF GivesUp, GivenUp, Roles
<1>10. Restarts
  BY Staff, <1>2 DEF Restarts
<1>11. Stamps
  BY Staff, <1>2 DEF Stamps
<1> QED
  BY <1>3, <1>4, <1>5, <1>6, <1>7, <1>8, <1>9, <1>10, <1>11 DEF StaffInv

LEMMA CoreTimesOutKeeps ==
    ASSUME StaffInv, CoreTimesOut
    PROVE  StaffInv' /\ GivesUp /\ Restarts /\ Stamps
<1> DEFINE c == rec["core"]  v == rec["voice"]  d == rec'["core"]  w == rec'["voice"]
<1>2. /\ pc' = "waiting" /\ pc = "core" /\ rec' \in [Roles -> Components]
      /\ c.process # None
      /\ \E ok \in {TRUE, FALSE} :
         /\ IF ok THEN /\ \E b \in Components : /\ b.process = None /\ b.stamps = c.stamps /\ b.wait = c.wait
                                                /\ d = Schedule(b)
                       /\ d.process = None /\ (d.detail = "restart_limit_exceeded" => d.state = "FAILED")
            ELSE /\ d.process = c.process /\ d.detail = "stop_failed"
                 /\ d.stamps = c.stamps /\ d.wait = c.wait /\ endpoint' = endpoint
         /\ \A q \in Pids : proc'[q] = IF ok /\ q = c.process THEN None ELSE proc[q]
      /\ w.process = v.process /\ w.stamps = v.stamps
      /\ IF v.state = "FAILED" THEN w.state = "FAILED" /\ w.detail = v.detail
         ELSE w.state = "DEGRADED" /\ w.detail = "core_unavailable"
      /\ proc' \in [Pids -> Processes \cup {None}] /\ endpoint' \in Pids \cup {None}
      /\ UNCHANGED <<file, launched>>
      /\ started' \in 0..StartTimeout /\ stopFile' \in BOOLEAN /\ starts' = starts /\ faults' \in 0..Faults
  <2>1. PICK ok \in [{"read", "stop", "unlink"} -> BOOLEAN] :
          /\ Spend(ok)
          /\ proc' = Killed("core", ok)
          /\ rec' = [core |-> IF ok["stop"]
                              THEN Schedule(Health(LetGo(rec["core"]), "STARTING", "none"))
                              ELSE AbandonedCore,
                     voice |-> Degraded(rec["voice"])]
          /\ endpoint' = IF ok["stop"] THEN EndpointWithout(rec["core"].process, ok) ELSE endpoint
    BY DEF CoreTimesOut, Outcomes
  <2>2. faults' \in 0..Faults
    BY Staff, <2>1, Spending DEF Attempts
  <2>3. /\ \A q \in Pids : proc'[q] = IF ok["stop"] /\ q = c.process THEN None ELSE proc[q]
        /\ proc' \in [Pids -> Processes \cup {None}]
    BY Staff, <2>1, KilledIs DEF Roles
  <2>4. PICK b \in Components : /\ b = Health(LetGo(c), "STARTING", "none") /\ b.detail = "none"
                                /\ b.process = None /\ b.stamps = c.stamps /\ b.wait = c.wait
    BY Staff, LetGoIs, HealthIs DEF HealthStates, Details
  <2>5. /\ AbandonedCore \in Components /\ AbandonedCore.process = c.process
        /\ AbandonedCore.detail = "stop_failed"
        /\ AbandonedCore.stamps = c.stamps /\ AbandonedCore.wait = c.wait
    BY Staff, HealthIs DEF AbandonedCore, HealthStates, Details
  <2>6. Schedule(b) \in Components /\ Degraded(v) \in Components
    BY Staff, <2>4, ScheduleIs, DegradedIs
  <2>7. /\ d = IF ok["stop"] THEN Schedule(b) ELSE AbandonedCore
        /\ w = Degraded(v) /\ rec' \in [Roles -> Components]
    BY <2>1, <2>4, <2>5, <2>6, BothRoles
  <2>8. Schedule(b).process = None
        /\ (Schedule(b).detail = "restart_limit_exceeded" => Schedule(b).state = "FAILED")
    BY <2>4, ScheduleIs
  <2>9. /\ w.process = v.process /\ w.stamps = v.stamps
        /\ IF v.state = "FAILED" THEN w.state = "FAILED" /\ w.detail = v.detail
           ELSE w.state = "DEGRADED" /\ w.detail = "core_unavailable"
    BY Staff, <2>7, DegradedIs
  <2>10. endpoint' \in Pids \cup {None} /\ (~ok["stop"] => endpoint' = endpoint)
    BY Staff, <2>1, RemovedIs DEF SupervisorTypeOK
  <2>11. pc = "core" /\ pc' = "waiting" /\ c.process # None /\ UNCHANGED <<started, file, stopFile, starts, launched>>
    BY DEF CoreTimesOut, CoreOverdue, Alive, Live
  <2>12. ok["stop"] \in {TRUE, FALSE}
    BY <2>1
  <2> QED
    BY Staff, <2>2, <2>3, <2>4, <2>5, <2>7, <2>8, <2>9, <2>10, <2>11, <2>12 DEF SupervisorTypeOK
<1>3. SupervisorTypeOK'
  BY Staff, <1>2 DEF SupervisorTypeOK
<1>4. Kept(pc', d, w, proc') /\ Apart(d, w)
  BY Staff, <1>2 DEF Kept, Apart, Placed
<1>5. Ended(d) /\ Ended(w) /\ Told(file') /\ Built(proc')
  BY Staff, <1>2 DEF Ended, Told, Built, Judged, Attending
<1>6. Judged(pc', d, w) /\ Placed(pc', d, endpoint')
  BY Staff, <1>2 DEF Judged, Placed, Attending, Kept, Told
<1>7. BoundTo(pc', d, w, proc', endpoint')
  BY Staff, <1>2 DEF BoundTo, Judged, Placed, Attending, Kept, Apart, Built
<1>8. Known(pc', w, proc', file')
  BY Staff, <1>2 DEF Known, Attending, Apart, Kept, Built, Judged
<1>9. GivesUp
  <2>1. Attending(pc) /\ Attending(pc') =>
          /\ c.detail = "restart_limit_exceeded" => d.detail = c.detail /\ d.process = None
          /\ v.detail = "restart_limit_exceeded" => w.detail = v.detail /\ w.process = None
    BY Staff, <1>2 DEF Ended, Attending
  <2> QED
    BY <2>1 DEF GivesUp, GivenUp, Roles
<1>10. Restarts
  BY Staff, <1>2 DEF Restarts
<1>11. Stamps
  BY Staff, <1>2 DEF Stamps
<1> QED
  BY <1>3, <1>4, <1>5, <1>6, <1>7, <1>8, <1>9, <1>10, <1>11 DEF StaffInv

\* The Voice Agent is launched again, or that costs one of its restarts.
LEMMA VoiceRelaunchIs ==
    ASSUME StaffInv, NEW b \in Components, b.process = None,
           b.detail # "restart_limit_exceeded", b.state # "FAILED",
           NEW others \in [Pids -> Processes \cup {None}],
           NEW ok, DOMAIN ok \subseteq Attempts, ok["spawn"] \in BOOLEAN,
           VoiceRelaunch(b, others, ok)
    PROVE  /\ rec' \in [Roles -> Components] /\ rec'["core"] = rec["core"]
           /\ proc' \in [Pids -> Processes \cup {None}] /\ file' \in {file, None}
           /\ rec'["voice"].stamps \in {b.stamps, Append(b.stamps, 0)}
           /\ \/ \E p \in Pids :
                   /\ p # rec["core"].process /\ rec'["voice"].process = p
                   /\ rec'["voice"].state = "STARTING" /\ rec'["voice"].detail = "none"
                   /\ file' = None
                   /\ \A q \in Pids : proc'[q] = IF q = p THEN NewProcess("voice") ELSE others[q]
              \/ /\ rec'["voice"].process = None /\ rec'["voice"].state \in {"STARTING", "FAILED"}
                 /\ rec'["voice"].detail = "restart_limit_exceeded" => rec'["voice"].state = "FAILED"
                 /\ proc' = others
<1>1. CASE /\ ok["spawn"] /\ file' = None
           /\ \E p \in Pids : /\ Fresh(p) /\ rec' = [rec EXCEPT !["voice"] = Launched(b, p)]
                              /\ proc' = [others EXCEPT ![p] = NewProcess("voice")]
  <2>1. PICK p \in Pids : /\ Fresh(p) /\ rec' = [rec EXCEPT !["voice"] = Launched(b, p)]
                          /\ proc' = [others EXCEPT ![p] = NewProcess("voice")]
    BY <1>1
  <2>2. p # rec["core"].process
    BY <2>1 DEF Fresh, FreePids, Named
  <2>3. Launched(b, p) \in Components
    BY LaunchedIs
  <2>4. /\ rec' \in [Roles -> Components] /\ rec'["core"] = rec["core"]
        /\ rec'["voice"] = Launched(b, p)
    BY Staff, <2>1, <2>3 DEF SupervisorTypeOK, Roles
  <2>5. /\ proc' \in [Pids -> Processes \cup {None}]
        /\ \A q \in Pids : proc'[q] = IF q = p THEN NewProcess("voice") ELSE others[q]
    BY <2>1, NewProcessIs DEF Roles
  <2> QED
    BY <1>1, <2>2, <2>4, <2>5, LaunchedIs
<1>2. CASE /\ ~ok["spawn"] /\ proc' = others /\ file' = FileAfter(ok)
           /\ rec' = [rec EXCEPT !["voice"] = Schedule(Health(b, "STARTING", "none"))]
  <2>1. PICK h : h = Health(b, "STARTING", "none")
    OBVIOUS
  <2>2. /\ h \in Components /\ h.process = None /\ h.state = "STARTING" /\ h.detail = "none"
        /\ h.stamps = b.stamps
    BY <2>1, HealthIs DEF HealthStates, Details
  <2>3. /\ Schedule(h) \in Components /\ Schedule(h).process = None
        /\ Schedule(h).state \in {"STARTING", "FAILED"}
        /\ Schedule(h).stamps \in {b.stamps, Append(b.stamps, 0)}
        /\ Schedule(h).detail = "restart_limit_exceeded" => Schedule(h).state = "FAILED"
    BY <2>2, ScheduleIs
  <2>4. /\ rec' \in [Roles -> Components] /\ rec'["core"] = rec["core"] /\ rec'["voice"] = Schedule(h)
    BY Staff, <1>2, <2>1, <2>3 DEF SupervisorTypeOK, Roles
  <2>5. file' \in {file, None}
    BY Staff, <1>2, RemovedIs
  <2> QED
    BY <1>2, <2>3, <2>4, <2>5
<1> QED
  BY <1>1, <1>2 DEF VoiceRelaunch

LEMMA VoiceWithoutCoreKeeps ==
    ASSUME StaffInv, VoiceWithoutCore
    PROVE  StaffInv' /\ GivesUp /\ Restarts /\ Stamps
<1> DEFINE c == rec["core"]  v == rec["voice"]  d == rec'["core"]  w == rec'["voice"]
<1>2. /\ pc' = "idle" /\ pc = "waiting" /\ rec' \in [Roles -> Components] /\ d = c
      /\ \E ok \in {TRUE, FALSE} :
         /\ w.process = (IF ok THEN None ELSE v.process) /\ w.stamps = v.stamps
         /\ \/ v.state = "FAILED" /\ w.state = "FAILED" /\ w.detail = v.detail /\ w.process = None
            \/ v.state # "FAILED" /\ w.state = "DEGRADED" /\ w.detail = "core_unavailable"
         /\ \A q \in Pids : proc'[q] = IF ok /\ q = v.process THEN None ELSE proc[q]
      /\ proc' \in [Pids -> Processes \cup {None}] /\ file' \in {file, None}
      /\ UNCHANGED <<endpoint, launched>>
      /\ started' \in 0..StartTimeout /\ stopFile' \in BOOLEAN /\ starts' = starts /\ faults' \in 0..Faults
  <2>1. CASE /\ rec["voice"].process = None
             /\ rec' = [rec EXCEPT !["voice"] = Degraded(@)]
             /\ UNCHANGED <<proc, file, faults>>
    <3>1. w = Degraded(v) /\ d = c /\ rec' \in [Roles -> Components]
      BY Staff, <2>1, DegradedIs DEF SupervisorTypeOK, Roles
    <3> QED
      BY Staff, <2>1, <3>1, DegradedIs DEF VoiceWithoutCore, SupervisorTypeOK
  <2>2. CASE rec["voice"].process # None /\ \E ok \in [{"stop", "discard"} -> BOOLEAN] :
               /\ Spend(ok) /\ proc' = Killed("voice", ok) /\ file' = FileAfter(ok)
               /\ rec' = [rec EXCEPT !["voice"] = IF ok["stop"] THEN Degraded(LetGo(@))
                                                  ELSE Health(@, "DEGRADED", "core_unavailable")]
    <3>1. PICK ok \in [{"stop", "discard"} -> BOOLEAN] :
               /\ Spend(ok) /\ proc' = Killed("voice", ok) /\ file' = FileAfter(ok)
               /\ rec' = [rec EXCEPT !["voice"] = IF ok["stop"] THEN Degraded(LetGo(@))
                                                  ELSE Health(@, "DEGRADED", "core_unavailable")]
      BY <2>2
    <3>10. v.state # "FAILED"
      BY Staff, <2>2 DEF VoiceWithoutCore, Judged, Attending
    <3>2. faults' \in 0..Faults
      BY Staff, <3>1, Spending DEF Attempts
    <3>3. /\ \A q \in Pids : proc'[q] = IF ok["stop"] /\ q = v.process THEN None ELSE proc[q]
          /\ proc' \in [Pids -> Processes \cup {None}]
      BY Staff, <3>1, KilledIs DEF Roles
    <3>4. PICK b \in Components : /\ b = LetGo(v) /\ b.process = None /\ b.state = v.state
                                  /\ b.detail = v.detail /\ b.stamps = v.stamps
      BY Staff, LetGoIs
    <3>5. PICK h \in Components : /\ h = Health(v, "DEGRADED", "core_unavailable") /\ h.process = v.process
                                  /\ h.state = "DEGRADED" /\ h.detail = "core_unavailable"
                                  /\ h.stamps = v.stamps
      BY Staff, HealthIs DEF HealthStates, Details
    <3>6. Degraded(b) \in Components
      BY <3>4, DegradedIs
    <3>7. w = (IF ok["stop"] THEN Degraded(b) ELSE h) /\ d = c /\ rec' \in [Roles -> Components]
      BY Staff, <3>1, <3>4, <3>5, <3>6 DEF SupervisorTypeOK, Roles
    <3>8. /\ w.process = (IF ok["stop"] THEN None ELSE v.process) /\ w.stamps = v.stamps
          /\ \/ v.state = "FAILED" /\ w.state = "FAILED" /\ w.detail = v.detail /\ w.process = None
             \/ v.state # "FAILED" /\ w.state = "DEGRADED" /\ w.detail = "core_unavailable"
      BY <3>4, <3>5, <3>7, <3>10, DegradedIs
    <3>9. file' \in {file, None} /\ ok["stop"] \in {TRUE, FALSE}
      BY Staff, <3>1, RemovedIs
    <3> QED
      BY Staff, <3>2, <3>3, <3>7, <3>8, <3>9 DEF VoiceWithoutCore, SupervisorTypeOK
  <2> QED
    BY <2>1, <2>2 DEF VoiceWithoutCore, Outcomes
<1>3. SupervisorTypeOK'
  BY Staff, <1>2 DEF SupervisorTypeOK
<1>4. Kept(pc', d, w, proc') /\ Apart(d, w)
  BY Staff, <1>2 DEF Kept, Apart, Placed
<1>5. Ended(d) /\ Ended(w) /\ Told(file') /\ Built(proc')
  BY Staff, <1>2 DEF Ended, Told, Built, Judged, Attending
<1>6. Judged(pc', d, w) /\ Placed(pc', d, endpoint')
  BY Staff, <1>2 DEF Judged, Placed, Attending, Kept, Told
<1>7. BoundTo(pc', d, w, proc', endpoint')
  BY Staff, <1>2 DEF BoundTo, Judged, Placed, Attending, Kept, Apart, Built
<1>8. Known(pc', w, proc', file')
  BY Staff, <1>2 DEF Known, Attending, Apart, Kept, Built, Judged
<1>9. GivesUp
  <2>1. Attending(pc) /\ Attending(pc') =>
          /\ c.detail = "restart_limit_exceeded" => d.detail = c.detail /\ d.process = None
          /\ v.detail = "restart_limit_exceeded" => w.detail = v.detail /\ w.process = None
    BY Staff, <1>2 DEF Ended, Attending
  <2> QED
    BY <2>1 DEF GivesUp, GivenUp, Roles
<1>10. Restarts
  BY Staff, <1>2 DEF Restarts
<1>11. Stamps
  BY Staff, <1>2 DEF Stamps
<1> QED
  BY <1>3, <1>4, <1>5, <1>6, <1>7, <1>8, <1>9, <1>10, <1>11 DEF StaffInv

LEMMA VoiceMissingKeeps ==
    ASSUME StaffInv, VoiceMissing
    PROVE  StaffInv' /\ GivesUp /\ Restarts /\ Stamps
<1> DEFINE c == rec["core"]  v == rec["voice"]  d == rec'["core"]  w == rec'["voice"]
<1>2. /\ pc' = "idle" /\ pc = "ready" /\ rec' \in [Roles -> Components] /\ d = c
      /\ NewProcess("voice") # None /\ NewProcess("voice").role = "voice"
      /\ NewProcess("voice").phase = "new" /\ NewProcess("voice").bound = None
      /\ w.stamps \in {v.stamps, Append(v.stamps, 0)}
      /\ proc' \in [Pids -> Processes \cup {None}] /\ file' \in {file, None}
      /\ UNCHANGED <<endpoint, launched>>
      /\ started' \in 0..StartTimeout /\ stopFile' \in BOOLEAN /\ starts' = starts /\ faults' \in 0..Faults
      /\ v.process = None
      /\ \/ w = v /\ proc' = proc /\ file' = file
         \/ /\ v.detail # "restart_limit_exceeded"
            /\ \E p \in Pids : /\ p # c.process /\ w.process = p /\ file' = None
                               /\ w.state = "STARTING" /\ w.detail = "none"
                               /\ \A q \in Pids : proc'[q] = IF q = p THEN NewProcess("voice") ELSE proc[q]
         \/ /\ v.detail # "restart_limit_exceeded" /\ proc' = proc
            /\ w.process = None /\ w.state \in {"STARTING", "FAILED"}
            /\ w.detail = "restart_limit_exceeded" => w.state = "FAILED"
  <2>1. CASE UNCHANGED <<rec, proc, file, faults>>
    BY Staff, <2>1, NewProcessIs DEF VoiceMissing, SupervisorTypeOK, Roles
  <2>2. CASE VoiceDue /\ \E ok \in [{"spawn", "discard"} -> BOOLEAN] :
               Spend(ok) /\ VoiceRelaunch(rec["voice"], proc, ok)
    <3>1. PICK ok \in [{"spawn", "discard"} -> BOOLEAN] :
            Spend(ok) /\ VoiceRelaunch(rec["voice"], proc, ok)
      BY <2>2
    <3>2. faults' \in 0..Faults
      BY Staff, <3>1, Spending DEF Attempts
    <3>3. v.process = None /\ v.state # "FAILED" /\ v.detail # "restart_limit_exceeded"
      BY Staff, <2>2 DEF VoiceMissing, VoiceDue, Ended
    <3>4. /\ DOMAIN ok \subseteq Attempts /\ ok["spawn"] \in BOOLEAN
          /\ proc \in [Pids -> Processes \cup {None}]
      BY Staff, <3>1 DEF Attempts, SupervisorTypeOK
    <3> QED
      BY Staff, <3>1, <3>2, <3>3, <3>4, VoiceRelaunchIs, NewProcessIs DEF VoiceMissing, SupervisorTypeOK, Roles
  <2> QED
    BY <2>1, <2>2 DEF VoiceMissing, Outcomes
<1>3. SupervisorTypeOK'
  BY Staff, <1>2 DEF SupervisorTypeOK
<1>4. Kept(pc', d, w, proc') /\ Apart(d, w)
  BY Staff, <1>2 DEF Kept, Apart, Placed
<1>5. Ended(d) /\ Ended(w) /\ Told(file') /\ Built(proc')
  BY Staff, <1>2 DEF Ended, Told, Built, Judged, Attending
<1>6. Judged(pc', d, w) /\ Placed(pc', d, endpoint')
  BY Staff, <1>2 DEF Judged, Placed, Attending, Kept, Told
<1>7. BoundTo(pc', d, w, proc', endpoint')
  BY Staff, <1>2 DEF BoundTo, Judged, Placed, Attending, Kept, Apart, Built
<1>8. Known(pc', w, proc', file')
  BY Staff, <1>2 DEF Known, Attending, Apart, Kept, Built, Judged
<1>9. GivesUp
  <2>1. Attending(pc) /\ Attending(pc') =>
          /\ c.detail = "restart_limit_exceeded" => d.detail = c.detail /\ d.process = None
          /\ v.detail = "restart_limit_exceeded" => w.detail = v.detail /\ w.process = None
    BY Staff, <1>2 DEF Ended, Attending
  <2> QED
    BY <2>1 DEF GivesUp, GivenUp, Roles
<1>10. Restarts
  BY Staff, <1>2 DEF Restarts
<1>11. Stamps
  BY Staff, <1>2 DEF Stamps
<1> QED
  BY <1>3, <1>4, <1>5, <1>6, <1>7, <1>8, <1>9, <1>10, <1>11 DEF StaffInv

LEMMA VoiceRebindKeeps ==
    ASSUME StaffInv, VoiceRebind
    PROVE  StaffInv' /\ GivesUp /\ Restarts /\ Stamps
<1> DEFINE c == rec["core"]  v == rec["voice"]  d == rec'["core"]  w == rec'["voice"]
<1>2. /\ pc' = "idle" /\ pc = "ready" /\ rec' \in [Roles -> Components] /\ d = c
      /\ NewProcess("voice") # None /\ NewProcess("voice").role = "voice"
      /\ NewProcess("voice").phase = "new" /\ NewProcess("voice").bound = None
      /\ w.stamps \in {v.stamps, Append(v.stamps, 0)}
      /\ proc' \in [Pids -> Processes \cup {None}] /\ file' \in {file, None}
      /\ UNCHANGED <<endpoint, launched>>
      /\ started' \in 0..StartTimeout /\ stopFile' \in BOOLEAN /\ starts' = starts /\ faults' \in 0..Faults
      /\ v.process # None /\ v.detail = "core_unavailable"
      /\ \/ w = v /\ proc' = proc /\ file' = file
         \/ \E p \in Pids : /\ p # c.process /\ w.process = p /\ file' = None
                           /\ w.state = "STARTING" /\ w.detail = "none"
                           /\ \A q \in Pids : proc'[q] = IF q = p THEN NewProcess("voice")
                                               ELSE IF q = v.process THEN None ELSE proc[q]
         \/ /\ \A q \in Pids : proc'[q] = IF q = v.process THEN None ELSE proc[q]
            /\ w.process = None /\ w.state \in {"STARTING", "FAILED"}
            /\ w.detail = "restart_limit_exceeded" => w.state = "FAILED"
  <2>1. PICK ok \in [{"stop", "spawn", "discard"} -> BOOLEAN] :
          /\ Spend(ok)
          /\ \/ /\ ok["stop"]
                /\ VoiceRelaunch(LetGo(rec["voice"]), Killed("voice", ok), ok)
             \/ /\ ~ok["stop"]
                /\ UNCHANGED <<rec, proc, file>>
    BY DEF VoiceRebind, Outcomes
  <2>2. faults' \in 0..Faults
    BY Staff, <2>1, Spending DEF Attempts
  <2>3. CASE ~ok["stop"]
    BY Staff, <2>1, <2>2, <2>3, NewProcessIs DEF VoiceRebind, NeedsRebind, SupervisorTypeOK, Roles
  <2>4. CASE ok["stop"]
    <3>1. PICK b \in Components : /\ b = LetGo(v) /\ b.process = None /\ b.state = v.state
                                  /\ b.detail = v.detail /\ b.stamps = v.stamps
      BY Staff, LetGoIs
    <3>2. PICK others \in [Pids -> Processes \cup {None}] :
            /\ others = Killed("voice", ok)
            /\ \A q \in Pids : others[q] = IF q = v.process THEN None ELSE proc[q]
      BY Staff, <2>4, KilledIs DEF Roles
    <3>3. v.detail = "core_unavailable" /\ v.process # None /\ pc = "ready"
      BY DEF VoiceRebind, NeedsRebind
    <3>4. v.state # "FAILED"
      BY Staff, <3>3 DEF Judged, Attending
    <3>5. DOMAIN ok \subseteq Attempts /\ ok["spawn"] \in BOOLEAN /\ VoiceRelaunch(b, others, ok)
      BY <2>1, <2>4, <3>1, <3>2 DEF Attempts
    <3>6. /\ rec' \in [Roles -> Components] /\ d = c
          /\ proc' \in [Pids -> Processes \cup {None}] /\ file' \in {file, None}
          /\ w.stamps \in {b.stamps, Append(b.stamps, 0)}
          /\ \/ \E p \in Pids :
                  /\ p # c.process /\ w.process = p
                  /\ w.state = "STARTING" /\ w.detail = "none" /\ file' = None
                  /\ \A q \in Pids : proc'[q] = IF q = p THEN NewProcess("voice") ELSE others[q]
             \/ /\ w.process = None /\ w.state \in {"STARTING", "FAILED"}
                /\ w.detail = "restart_limit_exceeded" => w.state = "FAILED"
                /\ proc' = others
      BY <3>1, <3>2, <3>3, <3>4, <3>5, VoiceRelaunchIs
    <3> QED
      BY Staff, <2>2, <3>1, <3>2, <3>3, <3>6, NewProcessIs
         DEF VoiceRebind, SupervisorTypeOK, Roles
  <2> QED
    BY <2>3, <2>4
<1>3. SupervisorTypeOK'
  BY Staff, <1>2 DEF SupervisorTypeOK
<1>4. Kept(pc', d, w, proc') /\ Apart(d, w)
  BY Staff, <1>2 DEF Kept, Apart, Placed
<1>5. Ended(d) /\ Ended(w) /\ Told(file') /\ Built(proc')
  BY Staff, <1>2 DEF Ended, Told, Built, Judged, Attending
<1>6. Judged(pc', d, w) /\ Placed(pc', d, endpoint')
  BY Staff, <1>2 DEF Judged, Placed, Attending, Kept, Told
<1>7. BoundTo(pc', d, w, proc', endpoint')
  BY Staff, <1>2 DEF BoundTo, Judged, Placed, Attending, Kept, Apart, Built
<1>8. Known(pc', w, proc', file')
  BY Staff, <1>2 DEF Known, Attending, Apart, Kept, Built, Judged
<1>9. GivesUp
  <2>1. Attending(pc) /\ Attending(pc') =>
          /\ c.detail = "restart_limit_exceeded" => d.detail = c.detail /\ d.process = None
          /\ v.detail = "restart_limit_exceeded" => w.detail = v.detail /\ w.process = None
    BY Staff, <1>2 DEF Ended, Attending
  <2> QED
    BY <2>1 DEF GivesUp, GivenUp, Roles
<1>10. Restarts
  BY Staff, <1>2 DEF Restarts
<1>11. Stamps
  BY Staff, <1>2 DEF Stamps
<1> QED
  BY <1>3, <1>4, <1>5, <1>6, <1>7, <1>8, <1>9, <1>10, <1>11 DEF StaffInv

LEMMA VoiceRunsKeeps ==
    ASSUME StaffInv, VoiceRuns
    PROVE  StaffInv' /\ GivesUp /\ Restarts /\ Stamps
<1> DEFINE c == rec["core"]  v == rec["voice"]  d == rec'["core"]  w == rec'["voice"]
<1>2. /\ pc' = "idle" /\ pc = "ready" /\ rec' \in [Roles -> Components] /\ d = c
      /\ v.process # None /\ proc[v.process] # None
      /\ w.process = v.process /\ w.stamps = v.stamps
      /\ \/ /\ file # None /\ file.pid = v.process /\ w.state = file.state /\ w.detail = file.detail
         \/ w.state = "STARTING" /\ w.detail = v.detail
         \/ w.state = "STARTING" /\ w.detail = "none"
      /\ v.detail # "core_unavailable"
      /\ UNCHANGED <<proc, endpoint, file, launched, started, stopFile, faults, starts>>
  <2>1. CASE HasReport
    <3>1. PICK h : h = Health(v, file.state, file.detail)
      OBVIOUS
    <3>2. file.state \in HealthStates /\ file.detail \in Details
      BY Staff, <2>1 DEF HasReport, SupervisorTypeOK, Reports
    <3>3. /\ h \in Components /\ h.process = v.process /\ h.stamps = v.stamps
          /\ h.state = file.state /\ h.detail = file.detail
      BY Staff, <3>1, <3>2, HealthIs
    <3>4. w = h /\ d = c /\ rec' \in [Roles -> Components]
      BY Staff, <2>1, <3>1, <3>3 DEF VoiceRuns, SupervisorTypeOK, Roles
    <3> QED
      BY Staff, <2>1, <3>3, <3>4 DEF VoiceRuns, HasReport, NeedsRebind, Alive, Live, disk
  <2>2. CASE ~HasReport
    <3>1. PICK h : h = IF v.state = "STARTING" THEN v ELSE Health(v, "STARTING", "none")
      OBVIOUS
    <3>2. /\ h \in Components /\ h.process = v.process /\ h.state = "STARTING" /\ h.stamps = v.stamps
          /\ h.detail \in {v.detail, "none"}
      BY Staff, <3>1, HealthIs DEF HealthStates, Details
    <3>3. w = h /\ d = c /\ rec' \in [Roles -> Components]
      BY Staff, <2>2, <3>1, <3>2 DEF VoiceRuns, SupervisorTypeOK, Roles
    <3> QED
      BY Staff, <3>2, <3>3 DEF VoiceRuns, NeedsRebind, Alive, Live, disk
  <2> QED
    BY <2>1, <2>2
<1>3. SupervisorTypeOK'
  BY Staff, <1>2 DEF SupervisorTypeOK
<1>4. Kept(pc', d, w, proc') /\ Apart(d, w)
  BY Staff, <1>2 DEF Kept, Apart, Placed
<1>5. Ended(d) /\ Ended(w) /\ Told(file') /\ Built(proc')
  BY Staff, <1>2 DEF Ended, Told, Built, Judged, Attending
<1>6. Judged(pc', d, w) /\ Placed(pc', d, endpoint')
  BY Staff, <1>2 DEF Judged, Placed, Attending, Kept, Told
<1>7. BoundTo(pc', d, w, proc', endpoint')
  BY Staff, <1>2 DEF BoundTo, Judged, Placed, Attending, Kept, Apart, Built
<1>8. Known(pc', w, proc', file')
  BY Staff, <1>2 DEF Known, Attending, Apart, Kept, Built, Judged
<1>9. GivesUp
  <2>1. Attending(pc) /\ Attending(pc') =>
          /\ c.detail = "restart_limit_exceeded" => d.detail = c.detail /\ d.process = None
          /\ v.detail = "restart_limit_exceeded" => w.detail = v.detail /\ w.process = None
    BY Staff, <1>2 DEF Ended, Attending
  <2> QED
    BY <2>1 DEF GivesUp, GivenUp, Roles
<1>10. Restarts
  BY Staff, <1>2 DEF Restarts
<1>11. Stamps
  BY Staff, <1>2 DEF Stamps
<1> QED
  BY <1>3, <1>4, <1>5, <1>6, <1>7, <1>8, <1>9, <1>10, <1>11 DEF StaffInv

LEMMA VoiceExitedKeeps ==
    ASSUME StaffInv, VoiceExited
    PROVE  StaffInv' /\ GivesUp /\ Restarts /\ Stamps
<1> DEFINE c == rec["core"]  v == rec["voice"]  d == rec'["core"]  w == rec'["voice"]
<1>2. /\ pc' = "idle" /\ pc = "ready" /\ rec' \in [Roles -> Components] /\ d = c
      /\ v.process # None /\ w.process = None /\ proc[v.process] = None
      /\ w.stamps \in {v.stamps, Append(v.stamps, 0)}
      /\ w.detail = "restart_limit_exceeded" => w.state = "FAILED"
      /\ w.state # "READY"
      /\ proc' = proc /\ file' \in {file, None}
      /\ UNCHANGED <<endpoint, launched>>
      /\ started' \in 0..StartTimeout /\ stopFile' \in BOOLEAN /\ starts' = starts /\ faults' \in 0..Faults
  <2>1. PICK ok \in [{"discard"} -> BOOLEAN] : Spend(ok) /\ file' = FileAfter(ok)
    BY DEF VoiceExited, Outcomes
  <2>2. faults' \in 0..Faults
    BY Staff, <2>1, Spending DEF Attempts
  <2>3. PICK b \in Components : b = LetGo(v) /\ b.process = None /\ b.stamps = v.stamps
    BY Staff, LetGoIs
  <2>4. PICK h \in Components : /\ h = LastWord(b) /\ h.process = None /\ h.stamps = v.stamps
                                /\ h.state # "READY" /\ h.detail # "restart_limit_exceeded"
    <3>1. CASE HasReport /\ file.state \in {"DEGRADED", "UNAVAILABLE", "FAILED"}
      <4>1. /\ file.state \in HealthStates /\ file.detail \in Details
            /\ file.detail # "restart_limit_exceeded"
        BY Staff, <3>1 DEF HasReport, SupervisorTypeOK, Reports, Told
      <4> QED
        BY <2>3, <3>1, <4>1, HealthIs DEF LastWord
    <3>2. CASE ~(HasReport /\ file.state \in {"DEGRADED", "UNAVAILABLE", "FAILED"})
      BY <2>3, <3>2, HealthIs DEF LastWord, HealthStates, Details
    <3> QED
      BY <3>1, <3>2
  <2>5. /\ Schedule(h) \in Components /\ Schedule(h).process = None
        /\ Schedule(h).state # "READY" /\ Schedule(h).stamps \in {v.stamps, Append(v.stamps, 0)}
        /\ Schedule(h).detail = "restart_limit_exceeded" => Schedule(h).state = "FAILED"
    BY <2>4, ScheduleIs
  <2>6. w = Schedule(h) /\ d = c /\ rec' \in [Roles -> Components]
    BY Staff, <2>3, <2>4, <2>5 DEF VoiceExited, SupervisorTypeOK, Roles
  <2>7. file' \in {file, None}
    BY Staff, <2>1, RemovedIs
  <2> QED
    BY Staff, <2>2, <2>5, <2>6, <2>7 DEF VoiceExited, Alive, Live, SupervisorTypeOK
<1>3. SupervisorTypeOK'
  BY Staff, <1>2 DEF SupervisorTypeOK
<1>4. Kept(pc', d, w, proc') /\ Apart(d, w)
  BY Staff, <1>2 DEF Kept, Apart, Placed
<1>5. Ended(d) /\ Ended(w) /\ Told(file') /\ Built(proc')
  BY Staff, <1>2 DEF Ended, Told, Built, Judged, Attending
<1>6. Judged(pc', d, w) /\ Placed(pc', d, endpoint')
  BY Staff, <1>2 DEF Judged, Placed, Attending, Kept, Told
<1>7. BoundTo(pc', d, w, proc', endpoint')
  BY Staff, <1>2 DEF BoundTo, Judged, Placed, Attending, Kept, Apart, Built
<1>8. Known(pc', w, proc', file')
  BY Staff, <1>2 DEF Known, Attending, Apart, Kept, Built, Judged
<1>9. GivesUp
  <2>1. Attending(pc) /\ Attending(pc') =>
          /\ c.detail = "restart_limit_exceeded" => d.detail = c.detail /\ d.process = None
          /\ v.detail = "restart_limit_exceeded" => w.detail = v.detail /\ w.process = None
    BY Staff, <1>2 DEF Ended, Attending
  <2> QED
    BY <2>1 DEF GivesUp, GivenUp, Roles
<1>10. Restarts
  BY Staff, <1>2 DEF Restarts
<1>11. Stamps
  BY Staff, <1>2 DEF Stamps
<1> QED
  BY <1>3, <1>4, <1>5, <1>6, <1>7, <1>8, <1>9, <1>10, <1>11 DEF StaffInv

LEMMA StartKeeps ==
    ASSUME StaffInv, Start
    PROVE  StaffInv' /\ GivesUp /\ Restarts /\ Stamps
<1> DEFINE c == rec["core"]  v == rec["voice"]  d == rec'["core"]  w == rec'["voice"]
<1>2. /\ pc = "off" /\ rec' \in [Roles -> Components]
      /\ \A q \in Pids : proc[q] = None
      /\ \/ /\ pc' = "idle" /\ d.stamps = <<>> /\ d.wait = None /\ launched' = <<0>>
            /\ \E p \in Pids : d.process = p /\ \A q \in Pids : proc'[q] = IF q = p THEN NewProcess("core") ELSE None
            /\ d.detail = "none" /\ w.state = "STARTING"
         \/ /\ pc' = "off" /\ d = NewComponent /\ w = NewComponent
            /\ d.stamps = <<>> /\ d.wait = None /\ launched' = <<>> /\ proc' = proc
      /\ w.process = None /\ w.detail = "none" /\ w.stamps = <<>> /\ d.detail = "none"
      /\ NewProcess("core") # None /\ NewProcess("core").role = "core"
      /\ NewProcess("core").phase = "new" /\ NewProcess("core").bound = None
      /\ proc' \in [Pids -> Processes \cup {None}] /\ launched' \in Seq(0..Window)
      /\ file' = None /\ endpoint' \in Pids \cup {None} /\ starts' \in 0..Starts
      /\ started' \in 0..StartTimeout /\ stopFile' \in BOOLEAN /\ faults' \in 0..Faults
  <2>1. PICK ok \in [{"spawn"} -> BOOLEAN], p \in Pids :
          /\ Spend(ok)
          /\ pc' = IF ok["spawn"] THEN "idle" ELSE "off"
          /\ rec' = IF ok["spawn"]
                    THEN [core |-> Launched(NewComponent, p),
                          voice |-> Health(NewComponent, "STARTING", "none")]
                    ELSE [r \in Roles |-> NewComponent]
          /\ proc' = IF ok["spawn"] THEN [proc EXCEPT ![p] = NewProcess("core")] ELSE proc
          /\ launched' = IF ok["spawn"] THEN <<0>> ELSE <<>>
    BY DEF Start, Outcomes
  <2>2. faults' \in 0..Faults
    BY Staff, <2>1, Spending DEF Attempts
  <2>3. pc = "off" /\ \A q \in Pids : proc[q] = None
    BY Staff DEF Start, Kept
  <2>4. proc \in [Pids -> Processes \cup {None}] /\ endpoint \in Pids \cup {None}
    BY Staff DEF SupervisorTypeOK
  <2>5. /\ file' = None /\ endpoint' \in Pids \cup {None} /\ starts' \in 0..Starts
        /\ started' \in 0..StartTimeout /\ stopFile' \in BOOLEAN
    <3>1. starts \in 0..Starts
      BY Staff DEF SupervisorTypeOK
    <3>2. starts' \in 0..Starts
      <4>1. starts < Starts /\ starts' = starts + 1
        BY DEF Start
      <4> QED
        BY <3>1, <4>1, SupervisorAssumption
    <3>3. 0 \in 0..StartTimeout
      BY SupervisorAssumption
    <3>4. /\ file' = None /\ stopFile' = FALSE /\ started' = 0
          /\ endpoint' = IF Live(endpoint) THEN endpoint ELSE None
      BY DEF Start
    <3> QED
      BY <2>4, <3>2, <3>3, <3>4
  <2>6. NewProcess("core") \in Processes /\ NewProcess("core") # None /\ NewProcess("core").role = "core"
        /\ NewProcess("core").phase = "new" /\ NewProcess("core").bound = None
    BY NewProcessIs DEF Roles
  <2>7. /\ proc' \in [Pids -> Processes \cup {None}] /\ launched' \in Seq(0..Window)
        /\ \A q \in Pids : proc'[q] = IF ok["spawn"] /\ q = p THEN NewProcess("core") ELSE None
    <3>1. <<0>> \in Seq(0..Window) /\ <<>> \in Seq(0..Window)
      BY SupervisorAssumption
    <3> QED
      BY <2>1, <2>3, <2>4, <2>6, <3>1
  <2>8. CASE ok["spawn"]
    <3>1. /\ Health(NewComponent, "STARTING", "none") \in Components
          /\ Launched(NewComponent, p) \in Components
      BY NewComponentIs, HealthIs, LaunchedIs DEF HealthStates, Details
    <3>2. /\ d = Launched(NewComponent, p) /\ w = Health(NewComponent, "STARTING", "none")
          /\ rec' \in [Roles -> Components]
      BY <2>1, <2>8, <3>1, BothRoles
    <3>3. /\ d.process = p /\ d.detail = "none" /\ d.stamps = <<>> /\ d.wait = None
          /\ w.process = None /\ w.state = "STARTING" /\ w.detail = "none" /\ w.stamps = <<>>
      BY <3>2, NewComponentIs, HealthIs, LaunchedIs DEF HealthStates, Details
    <3> QED
      BY <2>1, <2>2, <2>3, <2>5, <2>6, <2>7, <2>8, <3>2, <3>3
  <2>9. CASE ~ok["spawn"]
    <3>1. d = NewComponent /\ w = NewComponent /\ rec' \in [Roles -> Components]
      BY <2>1, <2>9, NewComponentIs DEF Roles
    <3> QED
      BY <2>1, <2>2, <2>3, <2>5, <2>6, <2>7, <2>9, <3>1, NewComponentIs
  <2> QED
    BY <2>8, <2>9
<1>3. SupervisorTypeOK'
  BY Staff, <1>2 DEF SupervisorTypeOK
<1>4. Kept(pc', d, w, proc') /\ Apart(d, w)
  BY Staff, <1>2 DEF Kept, Apart, Placed
<1>5. Ended(d) /\ Ended(w) /\ Told(file') /\ Built(proc')
  BY Staff, <1>2 DEF Ended, Told, Built, Judged, Attending
<1>6. Judged(pc', d, w) /\ Placed(pc', d, endpoint')
  BY Staff, <1>2 DEF Judged, Placed, Attending, Kept, Told
<1>7. BoundTo(pc', d, w, proc', endpoint')
  BY Staff, <1>2 DEF BoundTo, Judged, Placed, Attending, Kept, Apart, Built
<1>8. Known(pc', w, proc', file')
  BY Staff, <1>2 DEF Known, Attending, Apart, Kept, Built, Judged
<1>9. GivesUp
  <2>1. Attending(pc) /\ Attending(pc') =>
          /\ c.detail = "restart_limit_exceeded" => d.detail = c.detail /\ d.process = None
          /\ v.detail = "restart_limit_exceeded" => w.detail = v.detail /\ w.process = None
    BY Staff, <1>2 DEF Ended, Attending
  <2> QED
    BY <2>1 DEF GivesUp, GivenUp, Roles
<1>10. Restarts
  BY Staff, <1>2 DEF Restarts
<1>11. Stamps
  BY Staff, <1>2 DEF Stamps
<1> QED
  BY <1>3, <1>4, <1>5, <1>6, <1>7, <1>8, <1>9, <1>10, <1>11 DEF StaffInv

-----------------------------------------------------------------------------
(* The children: what they change is their own process and the files.        *)

LEMMA ChildIs ==
    ASSUME StaffInv, NEW p \in Pids, Live(p)
    PROVE  /\ proc \in [Pids -> Processes \cup {None}] /\ proc[p] \in Processes /\ proc[p] # None
           /\ proc[p].phase \in {"new", "up", "done"} /\ proc[p].bound \in Pids \cup {None}
           /\ proc[p].role \in Roles
<1>1. proc \in [Pids -> Processes \cup {None}] /\ proc[p] \in Processes /\ proc[p] # None
  BY Staff DEF SupervisorTypeOK, Live
<1> QED
  BY <1>1 DEF Processes

LEMMA ReportIs ==
    ASSUME NEW p \in Pids, NEW s \in HealthStates, NEW d \in Details
    PROVE  /\ Report(p, s, d) \in Reports /\ Report(p, s, d) # None
           /\ Report(p, s, d).pid = p /\ Report(p, s, d).state = s /\ Report(p, s, d).detail = d
<1>1. Report(p, s, d) \in Reports
  BY SupervisorAssumption DEF Report, Reports
<1> QED
  BY <1>1, SupervisorAssumption DEF Report

LEMMA BecomesIs ==
    ASSUME StaffInv, NEW p \in Pids, Live(p), NEW h \in {"new", "up", "done"}, Becomes(p, h)
    PROVE  /\ proc' \in [Pids -> Processes \cup {None}] /\ proc'[p] # None
           /\ proc'[p].role = proc[p].role /\ proc'[p].phase = h /\ proc'[p].bound = proc[p].bound
           /\ \A q \in Pids : q # p => proc'[q] = proc[q]
<1>1. PICK x \in Processes : x = [proc[p] EXCEPT !.phase = h]
  BY ChildIs DEF Processes
<1>2. x.role = proc[p].role /\ x.phase = h /\ x.bound = proc[p].bound
  BY <1>1, ChildIs DEF Processes
<1>3. proc' = [proc EXCEPT ![p] = x]
  BY <1>1, ChildIs DEF Becomes
<1> QED
  BY <1>2, <1>3, ChildIs, SupervisorAssumption

LEMMA CoreServeKeeps ==
    ASSUME StaffInv, NEW p \in Pids, CoreServe(p)
    PROVE  StaffInv' /\ GivesUp /\ Restarts /\ Stamps
<1> DEFINE c == rec["core"]  v == rec["voice"]  d == rec'["core"]  w == rec'["voice"]
<1>2. /\ rec' = rec /\ d = c /\ w = v /\ pc' = pc /\ launched' = launched /\ starts' = starts
      /\ proc' \in [Pids -> Processes \cup {None}]
      /\ proc[p] # None
      /\ \A q \in Pids : q # p => proc'[q] = proc[q]
      /\ proc'[p] # None /\ proc'[p].role = proc[p].role
      /\ proc[p].role = "core" /\ proc[p].phase = "new" /\ proc'[p].phase = "up"
      /\ proc'[p].bound = proc[p].bound
      /\ endpoint' = p /\ file' = file
      /\ started' = started /\ stopFile' = stopFile /\ faults' \in 0..Faults
  BY Staff, ChildIs, BecomesIs DEF CoreServe, Is, supervisor, SupervisorTypeOK
<1>3. SupervisorTypeOK'
  BY Staff, <1>2 DEF SupervisorTypeOK
<1>4. Kept(pc', d, w, proc') /\ Apart(d, w)
  BY Staff, <1>2 DEF Kept, Apart, Placed
<1>5. Ended(d) /\ Ended(w) /\ Told(file') /\ Built(proc')
  BY Staff, <1>2 DEF Ended, Told, Built, Judged, Attending
<1>6. Judged(pc', d, w) /\ Placed(pc', d, endpoint')
  BY Staff, <1>2 DEF Judged, Placed, Attending, Kept, Told
<1>7. BoundTo(pc', d, w, proc', endpoint')
  BY Staff, <1>2 DEF BoundTo, Judged, Placed, Attending, Kept, Apart, Built
<1>8. Known(pc', w, proc', file')
  BY Staff, <1>2 DEF Known, Attending, Apart, Kept, Built, Judged
<1>9. GivesUp
  <2>1. Attending(pc) /\ Attending(pc') =>
          /\ c.detail = "restart_limit_exceeded" => d.detail = c.detail /\ d.process = None
          /\ v.detail = "restart_limit_exceeded" => w.detail = v.detail /\ w.process = None
    BY Staff, <1>2 DEF Ended, Attending
  <2> QED
    BY <2>1 DEF GivesUp, GivenUp, Roles
<1>10. Restarts
  BY Staff, <1>2 DEF Restarts
<1>11. Stamps
  BY Staff, <1>2 DEF Stamps
<1> QED
  BY <1>3, <1>4, <1>5, <1>6, <1>7, <1>8, <1>9, <1>10, <1>11 DEF StaffInv

LEMMA VoiceBuildKeeps ==
    ASSUME StaffInv, NEW p \in Pids, VoiceBuild(p)
    PROVE  StaffInv' /\ GivesUp /\ Restarts /\ Stamps
<1> DEFINE c == rec["core"]  v == rec["voice"]  d == rec'["core"]  w == rec'["voice"]
<1>2. /\ rec' = rec /\ d = c /\ w = v /\ pc' = pc /\ launched' = launched /\ starts' = starts
      /\ proc' \in [Pids -> Processes \cup {None}]
      /\ proc[p] # None
      /\ \A q \in Pids : q # p => proc'[q] = proc[q]
      /\ proc'[p] # None /\ proc'[p].role = proc[p].role
      /\ proc[p].role = "voice" /\ proc[p].phase = "new" /\ proc'[p].phase = "up"
      /\ proc'[p].bound = endpoint /\ endpoint # None /\ endpoint' = endpoint
      /\ file' \in Reports /\ file'.pid = p /\ file'.state = "READY" /\ file'.detail = "none"
      /\ started' = started /\ stopFile' = stopFile /\ faults' \in 0..Faults
  <2>1. Live(p) /\ proc[p].role = "voice" /\ proc[p].phase = "new" /\ endpoint # None
    BY DEF VoiceBuild, Is
  <2>2. endpoint \in Pids \cup {None} /\ None \notin Pids
    BY Staff DEF SupervisorTypeOK
  <2>3. PICK x \in Processes : x = [proc[p] EXCEPT !.phase = "up", !.bound = endpoint]
    BY <2>1, <2>2, ChildIs DEF Processes
  <2>4. x.role = proc[p].role /\ x.phase = "up" /\ x.bound = endpoint /\ x # None
    BY <2>1, <2>3, ChildIs, SupervisorAssumption DEF Processes
  <2>5. proc' = [proc EXCEPT ![p] = x]
    BY <2>1, <2>3, ChildIs DEF VoiceBuild
  <2>6. file' \in Reports /\ file'.pid = p /\ file'.state = "READY" /\ file'.detail = "none"
    BY ReportIs DEF VoiceBuild, HealthStates, Details
  <2>7. proc \in [Pids -> Processes \cup {None}]
    BY Staff DEF SupervisorTypeOK
  <2>8. proc' \in [Pids -> Processes \cup {None}] /\ proc'[p] = x /\ \A q \in Pids : q # p => proc'[q] = proc[q]
    BY <2>5, <2>7
  <2> QED
    BY Staff, <2>1, <2>4, <2>6, <2>8 DEF VoiceBuild, supervisor, Live, SupervisorTypeOK
<1>3. SupervisorTypeOK'
  BY Staff, <1>2 DEF SupervisorTypeOK
<1>4. Kept(pc', d, w, proc') /\ Apart(d, w)
  BY Staff, <1>2 DEF Kept, Apart, Placed
<1>5. Ended(d) /\ Ended(w) /\ Told(file') /\ Built(proc')
  BY Staff, <1>2 DEF Ended, Told, Built, Judged, Attending
<1>6. Judged(pc', d, w) /\ Placed(pc', d, endpoint')
  BY Staff, <1>2 DEF Judged, Placed, Attending, Kept, Told
<1>7. BoundTo(pc', d, w, proc', endpoint')
  BY Staff, <1>2 DEF BoundTo, Judged, Placed, Attending, Kept, Apart, Built
<1>8. Known(pc', w, proc', file')
  BY Staff, <1>2 DEF Known, Attending, Apart, Kept, Built, Judged
<1>9. GivesUp
  <2>1. Attending(pc) /\ Attending(pc') =>
          /\ c.detail = "restart_limit_exceeded" => d.detail = c.detail /\ d.process = None
          /\ v.detail = "restart_limit_exceeded" => w.detail = v.detail /\ w.process = None
    BY Staff, <1>2 DEF Ended, Attending
  <2> QED
    BY <2>1 DEF GivesUp, GivenUp, Roles
<1>10. Restarts
  BY Staff, <1>2 DEF Restarts
<1>11. Stamps
  BY Staff, <1>2 DEF Stamps
<1> QED
  BY <1>3, <1>4, <1>5, <1>6, <1>7, <1>8, <1>9, <1>10, <1>11 DEF StaffInv

LEMMA VoiceBuildFailsKeeps ==
    ASSUME StaffInv, NEW p \in Pids, VoiceBuildFails(p)
    PROVE  StaffInv' /\ GivesUp /\ Restarts /\ Stamps
<1> DEFINE c == rec["core"]  v == rec["voice"]  d == rec'["core"]  w == rec'["voice"]
<1>2. /\ rec' = rec /\ d = c /\ w = v /\ pc' = pc /\ launched' = launched /\ starts' = starts
      /\ proc' \in [Pids -> Processes \cup {None}]
      /\ proc[p] # None
      /\ \A q \in Pids : q # p => proc'[q] = proc[q]
      /\ proc'[p] # None /\ proc'[p].role = proc[p].role
      /\ proc[p].role = "voice" /\ proc[p].phase = "new" /\ proc'[p].phase = "done"
      /\ proc'[p].bound = proc[p].bound /\ endpoint' = endpoint
      /\ file' \in Reports /\ file'.pid = p /\ file'.state \in {"DEGRADED", "UNAVAILABLE"}
      /\ file'.detail # "restart_limit_exceeded"
      /\ started' = started /\ stopFile' = stopFile /\ faults' \in 0..Faults
  <2>1. Live(p) /\ proc[p].role = "voice" /\ proc[p].phase = "new" /\ Becomes(p, "done")
    BY DEF VoiceBuildFails, Is
  <2>2. /\ file' \in Reports /\ file'.pid = p /\ file'.state \in {"DEGRADED", "UNAVAILABLE"}
        /\ file'.detail # "restart_limit_exceeded"
    BY ReportIs DEF VoiceBuildFails, HealthStates, Details
  <2>3. faults' \in 0..Faults
    <3>1. DOMAIN [audio |-> FALSE] = {"audio"}
      OBVIOUS
    <3> QED
      BY Staff, <3>1, Spending DEF VoiceBuildFails, SupervisorTypeOK, Attempts
  <2> QED
    BY Staff, <2>1, <2>2, <2>3, ChildIs, BecomesIs DEF VoiceBuildFails, supervisor
<1>3. SupervisorTypeOK'
  BY Staff, <1>2 DEF SupervisorTypeOK
<1>4. Kept(pc', d, w, proc') /\ Apart(d, w)
  BY Staff, <1>2 DEF Kept, Apart, Placed
<1>5. Ended(d) /\ Ended(w) /\ Told(file') /\ Built(proc')
  BY Staff, <1>2 DEF Ended, Told, Built, Judged, Attending
<1>6. Judged(pc', d, w) /\ Placed(pc', d, endpoint')
  BY Staff, <1>2 DEF Judged, Placed, Attending, Kept, Told
<1>7. BoundTo(pc', d, w, proc', endpoint')
  BY Staff, <1>2 DEF BoundTo, Judged, Placed, Attending, Kept, Apart, Built
<1>8. Known(pc', w, proc', file')
  BY Staff, <1>2 DEF Known, Attending, Apart, Kept, Built, Judged
<1>9. GivesUp
  <2>1. Attending(pc) /\ Attending(pc') =>
          /\ c.detail = "restart_limit_exceeded" => d.detail = c.detail /\ d.process = None
          /\ v.detail = "restart_limit_exceeded" => w.detail = v.detail /\ w.process = None
    BY Staff, <1>2 DEF Ended, Attending
  <2> QED
    BY <2>1 DEF GivesUp, GivenUp, Roles
<1>10. Restarts
  BY Staff, <1>2 DEF Restarts
<1>11. Stamps
  BY Staff, <1>2 DEF Stamps
<1> QED
  BY <1>3, <1>4, <1>5, <1>6, <1>7, <1>8, <1>9, <1>10, <1>11 DEF StaffInv

LEMMA VoiceBeatKeeps ==
    ASSUME StaffInv, NEW p \in Pids, VoiceBeat(p)
    PROVE  StaffInv' /\ GivesUp /\ Restarts /\ Stamps
<1> DEFINE c == rec["core"]  v == rec["voice"]  d == rec'["core"]  w == rec'["voice"]
<1>2. /\ rec' = rec /\ d = c /\ w = v /\ pc' = pc /\ launched' = launched /\ starts' = starts
      /\ proc' \in [Pids -> Processes \cup {None}]
      /\ proc[p] # None
      /\ \A q \in Pids : q # p => proc'[q] = proc[q]
      /\ proc' = proc /\ proc[p].role = "voice" /\ proc[p].phase = "up"
      /\ endpoint' = endpoint
      /\ file' \in Reports /\ file'.pid = p /\ file'.state = "READY" /\ file'.detail = "none"
      /\ started' = started /\ stopFile' = stopFile /\ faults' \in 0..Faults
  <2>1. Live(p) /\ proc[p].role = "voice" /\ proc[p].phase = "up" /\ proc' = proc
    BY DEF VoiceBeat, Is
  <2>2. file' \in Reports /\ file'.pid = p /\ file'.state = "READY" /\ file'.detail = "none"
    BY ReportIs DEF VoiceBeat, HealthStates, Details
  <2> QED
    BY Staff, <2>1, <2>2, ChildIs DEF VoiceBeat, supervisor, SupervisorTypeOK
<1>3. SupervisorTypeOK'
  BY Staff, <1>2 DEF SupervisorTypeOK
<1>4. Kept(pc', d, w, proc') /\ Apart(d, w)
  BY Staff, <1>2 DEF Kept, Apart, Placed
<1>5. Ended(d) /\ Ended(w) /\ Told(file') /\ Built(proc')
  BY Staff, <1>2 DEF Ended, Told, Built, Judged, Attending
<1>6. Judged(pc', d, w) /\ Placed(pc', d, endpoint')
  BY Staff, <1>2 DEF Judged, Placed, Attending, Kept, Told
<1>7. BoundTo(pc', d, w, proc', endpoint')
  BY Staff, <1>2 DEF BoundTo, Judged, Placed, Attending, Kept, Apart, Built
<1>8. Known(pc', w, proc', file')
  BY Staff, <1>2 DEF Known, Attending, Apart, Kept, Built, Judged
<1>9. GivesUp
  <2>1. Attending(pc) /\ Attending(pc') =>
          /\ c.detail = "restart_limit_exceeded" => d.detail = c.detail /\ d.process = None
          /\ v.detail = "restart_limit_exceeded" => w.detail = v.detail /\ w.process = None
    BY Staff, <1>2 DEF Ended, Attending
  <2> QED
    BY <2>1 DEF GivesUp, GivenUp, Roles
<1>10. Restarts
  BY Staff, <1>2 DEF Restarts
<1>11. Stamps
  BY Staff, <1>2 DEF Stamps
<1> QED
  BY <1>3, <1>4, <1>5, <1>6, <1>7, <1>8, <1>9, <1>10, <1>11 DEF StaffInv

LEMMA VoiceEndsKeeps ==
    ASSUME StaffInv, NEW p \in Pids, VoiceEnds(p)
    PROVE  StaffInv' /\ GivesUp /\ Restarts /\ Stamps
<1> DEFINE c == rec["core"]  v == rec["voice"]  d == rec'["core"]  w == rec'["voice"]
<1>2. /\ rec' = rec /\ d = c /\ w = v /\ pc' = pc /\ launched' = launched /\ starts' = starts
      /\ proc' \in [Pids -> Processes \cup {None}]
      /\ proc[p] # None
      /\ \A q \in Pids : q # p => proc'[q] = proc[q]
      /\ proc'[p] # None /\ proc'[p].role = proc[p].role
      /\ proc[p].role = "voice" /\ proc[p].phase = "up" /\ proc'[p].phase = "done"
      /\ proc'[p].bound = proc[p].bound /\ endpoint' = endpoint
      /\ file' \in Reports /\ file'.pid = p /\ file'.state = "STOPPED" /\ file'.detail = "none"
      /\ started' = started /\ stopFile' = stopFile /\ faults' \in 0..Faults
  <2>1. Live(p) /\ proc[p].role = "voice" /\ proc[p].phase = "up" /\ Becomes(p, "done")
    BY DEF VoiceEnds, Is
  <2>2. file' \in Reports /\ file'.pid = p /\ file'.state = "STOPPED" /\ file'.detail = "none"
    BY ReportIs DEF VoiceEnds, HealthStates, Details
  <2> QED
    BY Staff, <2>1, <2>2, ChildIs, BecomesIs DEF VoiceEnds, supervisor, SupervisorTypeOK
<1>3. SupervisorTypeOK'
  BY Staff, <1>2 DEF SupervisorTypeOK
<1>4. Kept(pc', d, w, proc') /\ Apart(d, w)
  BY Staff, <1>2 DEF Kept, Apart, Placed
<1>5. Ended(d) /\ Ended(w) /\ Told(file') /\ Built(proc')
  BY Staff, <1>2 DEF Ended, Told, Built, Judged, Attending
<1>6. Judged(pc', d, w) /\ Placed(pc', d, endpoint')
  BY Staff, <1>2 DEF Judged, Placed, Attending, Kept, Told
<1>7. BoundTo(pc', d, w, proc', endpoint')
  BY Staff, <1>2 DEF BoundTo, Judged, Placed, Attending, Kept, Apart, Built
<1>8. Known(pc', w, proc', file')
  BY Staff, <1>2 DEF Known, Attending, Apart, Kept, Built, Judged
<1>9. GivesUp
  <2>1. Attending(pc) /\ Attending(pc') =>
          /\ c.detail = "restart_limit_exceeded" => d.detail = c.detail /\ d.process = None
          /\ v.detail = "restart_limit_exceeded" => w.detail = v.detail /\ w.process = None
    BY Staff, <1>2 DEF Ended, Attending
  <2> QED
    BY <2>1 DEF GivesUp, GivenUp, Roles
<1>10. Restarts
  BY Staff, <1>2 DEF Restarts
<1>11. Stamps
  BY Staff, <1>2 DEF Stamps
<1> QED
  BY <1>3, <1>4, <1>5, <1>6, <1>7, <1>8, <1>9, <1>10, <1>11 DEF StaffInv

LEMMA LeavesKeeps ==
    ASSUME StaffInv, NEW p \in Pids, Leaves(p)
    PROVE  StaffInv' /\ GivesUp /\ Restarts /\ Stamps
<1> DEFINE c == rec["core"]  v == rec["voice"]  d == rec'["core"]  w == rec'["voice"]
<1>2. /\ rec' = rec /\ d = c /\ w = v /\ pc' = pc /\ launched' = launched /\ starts' = starts
      /\ proc' \in [Pids -> Processes \cup {None}]
      /\ proc[p] # None
      /\ \A q \in Pids : q # p => proc'[q] = proc[q]
      /\ proc'[p] = None
      /\ endpoint' = endpoint /\ file' = file
      /\ started' = started /\ stopFile' = stopFile /\ faults' \in 0..Faults
  <2>1. proc \in [Pids -> Processes \cup {None}] /\ proc' = [proc EXCEPT ![p] = None] /\ Live(p)
    BY Staff DEF Leaves, SupervisorTypeOK
  <2> QED
    BY Staff, <2>1 DEF Leaves, Live, supervisor, disk, SupervisorTypeOK
<1>3. SupervisorTypeOK'
  BY Staff, <1>2 DEF SupervisorTypeOK
<1>4. Kept(pc', d, w, proc') /\ Apart(d, w)
  BY Staff, <1>2 DEF Kept, Apart, Placed
<1>5. Ended(d) /\ Ended(w) /\ Told(file') /\ Built(proc')
  BY Staff, <1>2 DEF Ended, Told, Built, Judged, Attending
<1>6. Judged(pc', d, w) /\ Placed(pc', d, endpoint')
  BY Staff, <1>2 DEF Judged, Placed, Attending, Kept, Told
<1>7. BoundTo(pc', d, w, proc', endpoint')
  BY Staff, <1>2 DEF BoundTo, Judged, Placed, Attending, Kept, Apart, Built
<1>8. Known(pc', w, proc', file')
  BY Staff, <1>2 DEF Known, Attending, Apart, Kept, Built, Judged
<1>9. GivesUp
  <2>1. Attending(pc) /\ Attending(pc') =>
          /\ c.detail = "restart_limit_exceeded" => d.detail = c.detail /\ d.process = None
          /\ v.detail = "restart_limit_exceeded" => w.detail = v.detail /\ w.process = None
    BY Staff, <1>2 DEF Ended, Attending
  <2> QED
    BY <2>1 DEF GivesUp, GivenUp, Roles
<1>10. Restarts
  BY Staff, <1>2 DEF Restarts
<1>11. Stamps
  BY Staff, <1>2 DEF Stamps
<1> QED
  BY <1>3, <1>4, <1>5, <1>6, <1>7, <1>8, <1>9, <1>10, <1>11 DEF StaffInv

LEMMA CrashesKeeps ==
    ASSUME StaffInv, NEW p \in Pids, Crashes(p)
    PROVE  StaffInv' /\ GivesUp /\ Restarts /\ Stamps
<1> DEFINE c == rec["core"]  v == rec["voice"]  d == rec'["core"]  w == rec'["voice"]
<1>2. /\ rec' = rec /\ d = c /\ w = v /\ pc' = pc /\ launched' = launched /\ starts' = starts
      /\ proc' \in [Pids -> Processes \cup {None}]
      /\ proc[p] # None
      /\ \A q \in Pids : q # p => proc'[q] = proc[q]
      /\ proc'[p] = None
      /\ endpoint' = endpoint /\ file' = file
      /\ started' = started /\ stopFile' = stopFile /\ faults' \in 0..Faults
  <2>1. proc \in [Pids -> Processes \cup {None}] /\ proc' = [proc EXCEPT ![p] = None] /\ Live(p)
    BY Staff DEF Crashes, SupervisorTypeOK
  <2>2. DOMAIN [crash |-> FALSE] = {"crash"} /\ Spend([crash |-> FALSE])
    BY DEF Crashes
  <2>3. faults' \in 0..Faults
    BY Staff, <2>2, Spending DEF Attempts
  <2> QED
    BY Staff, <2>1, <2>3 DEF Crashes, Live, supervisor, disk
<1>3. SupervisorTypeOK'
  BY Staff, <1>2 DEF SupervisorTypeOK
<1>4. Kept(pc', d, w, proc') /\ Apart(d, w)
  BY Staff, <1>2 DEF Kept, Apart, Placed
<1>5. Ended(d) /\ Ended(w) /\ Told(file') /\ Built(proc')
  BY Staff, <1>2 DEF Ended, Told, Built, Judged, Attending
<1>6. Judged(pc', d, w) /\ Placed(pc', d, endpoint')
  BY Staff, <1>2 DEF Judged, Placed, Attending, Kept, Told
<1>7. BoundTo(pc', d, w, proc', endpoint')
  BY Staff, <1>2 DEF BoundTo, Judged, Placed, Attending, Kept, Apart, Built
<1>8. Known(pc', w, proc', file')
  BY Staff, <1>2 DEF Known, Attending, Apart, Kept, Built, Judged
<1>9. GivesUp
  <2>1. Attending(pc) /\ Attending(pc') =>
          /\ c.detail = "restart_limit_exceeded" => d.detail = c.detail /\ d.process = None
          /\ v.detail = "restart_limit_exceeded" => w.detail = v.detail /\ w.process = None
    BY Staff, <1>2 DEF Ended, Attending
  <2> QED
    BY <2>1 DEF GivesUp, GivenUp, Roles
<1>10. Restarts
  BY Staff, <1>2 DEF Restarts
<1>11. Stamps
  BY Staff, <1>2 DEF Stamps
<1> QED
  BY <1>3, <1>4, <1>5, <1>6, <1>7, <1>8, <1>9, <1>10, <1>11 DEF StaffInv

LEMMA SlowsKeeps ==
    ASSUME StaffInv, NEW p \in Pids, Slows(p)
    PROVE  StaffInv' /\ GivesUp /\ Restarts /\ Stamps
<1> DEFINE c == rec["core"]  v == rec["voice"]  d == rec'["core"]  w == rec'["voice"]
<1>2. /\ rec' = rec /\ d = c /\ w = v /\ pc' = pc /\ launched' = launched /\ starts' = starts
      /\ proc' \in [Pids -> Processes \cup {None}]
      /\ proc[p] # None
      /\ \A q \in Pids : q # p => proc'[q] = proc[q]
      /\ proc'[p] # None /\ proc'[p].role = proc[p].role
      /\ proc'[p].phase = proc[p].phase /\ proc'[p].bound = proc[p].bound
      /\ endpoint' = endpoint /\ file' = file
      /\ started' = started /\ stopFile' = stopFile /\ faults' \in 0..Faults
  <2>1. Live(p) /\ proc' = [proc EXCEPT ![p].slow = TRUE]
    BY DEF Slows
  <2>2. PICK x \in Processes : x = [proc[p] EXCEPT !.slow = TRUE]
    BY <2>1, ChildIs DEF Processes
  <2>3. x.role = proc[p].role /\ x.phase = proc[p].phase /\ x.bound = proc[p].bound /\ x # None
    BY <2>1, <2>2, ChildIs, SupervisorAssumption DEF Processes
  <2>4. proc' = [proc EXCEPT ![p] = x]
    BY <2>1, <2>2, ChildIs
  <2>5. DOMAIN [slow |-> FALSE] = {"slow"} /\ Spend([slow |-> FALSE])
    BY DEF Slows
  <2>6. faults' \in 0..Faults
    BY Staff, <2>5, Spending DEF Attempts
  <2>7. proc \in [Pids -> Processes \cup {None}]
    BY Staff DEF SupervisorTypeOK
  <2>8. proc' \in [Pids -> Processes \cup {None}] /\ proc'[p] = x /\ \A q \in Pids : q # p => proc'[q] = proc[q]
    BY <2>4, <2>7
  <2> QED
    BY Staff, <2>1, <2>3, <2>6, <2>8 DEF Slows, Live, supervisor, disk
<1>3. SupervisorTypeOK'
  BY Staff, <1>2 DEF SupervisorTypeOK
<1>4. Kept(pc', d, w, proc') /\ Apart(d, w)
  BY Staff, <1>2 DEF Kept, Apart, Placed
<1>5. Ended(d) /\ Ended(w) /\ Told(file') /\ Built(proc')
  BY Staff, <1>2 DEF Ended, Told, Built, Judged, Attending
<1>6. Judged(pc', d, w) /\ Placed(pc', d, endpoint')
  BY Staff, <1>2 DEF Judged, Placed, Attending, Kept, Told
<1>7. BoundTo(pc', d, w, proc', endpoint')
  BY Staff, <1>2 DEF BoundTo, Judged, Placed, Attending, Kept, Apart, Built
<1>8. Known(pc', w, proc', file')
  BY Staff, <1>2 DEF Known, Attending, Apart, Kept, Built, Judged
<1>9. GivesUp
  <2>1. Attending(pc) /\ Attending(pc') =>
          /\ c.detail = "restart_limit_exceeded" => d.detail = c.detail /\ d.process = None
          /\ v.detail = "restart_limit_exceeded" => w.detail = v.detail /\ w.process = None
    BY Staff, <1>2 DEF Ended, Attending
  <2> QED
    BY <2>1 DEF GivesUp, GivenUp, Roles
<1>10. Restarts
  BY Staff, <1>2 DEF Restarts
<1>11. Stamps
  BY Staff, <1>2 DEF Stamps
<1> QED
  BY <1>3, <1>4, <1>5, <1>6, <1>7, <1>8, <1>9, <1>10, <1>11 DEF StaffInv

-----------------------------------------------------------------------------
(* Time.  The oldest launch and the oldest restart come first, so what is   *)
(* past the window is a beginning, and what is left stays in order.          *)

Mono(s) == \A i, j \in 1..Len(s) : i <= j => s[j] <= s[i]

\* Every launch but the first of the window is matched by a restart that is no
\* older, and so is the first once a restart is due.
Covers(s, l) ==
    /\ Len(l) <= Len(s)
    /\ \A i \in 1..Len(l) : s[i + Len(s) - Len(l)] <= l[i]
CoversButFirst(s, l) ==
    /\ Len(l) <= Len(s) + 1
    /\ \A i \in 2..Len(l) : s[i + Len(s) - Len(l)] <= l[i - 1]
Paid(b, l) ==
    IF b.wait # None THEN Covers(b.stamps, l) ELSE CoversButFirst(b.stamps, l)

PolicyInv ==
    /\ Mono(rec["core"].stamps) /\ Mono(rec["voice"].stamps) /\ Mono(launched)
    /\ Len(rec["core"].stamps) <= MaxRestarts
    /\ Paid(rec["core"], launched)

Past(s) == Cardinality({i \in DOMAIN s : s[i] >= Window})

LEMMA UpTo ==
    ASSUME NEW n \in Nat
    PROVE  IsFiniteSet(1..n) /\ Cardinality(1..n) = n
<1>1. 1 \in Int /\ n \in Int
  OBVIOUS
<1>2. IsFiniteSet(1..n) /\ Cardinality(1..n) = IF 1 > n THEN 0 ELSE n - 1 + 1
  BY ONLY <1>1, FS_Interval
<1> QED
  BY <1>2

LEMMA PastIs ==
    ASSUME NEW s \in Seq(0..Window), Mono(s)
    PROVE  /\ Past(s) \in 0..Len(s)
           /\ \A i \in 1..Len(s) : s[i] >= Window <=> i <= Past(s)
<1> DEFINE P == {i \in DOMAIN s : s[i] >= Window}
<1>1. /\ Len(s) \in Nat /\ DOMAIN s = 1..Len(s) /\ Window \in Nat
      /\ \A i \in 1..Len(s) : s[i] \in 0..Window
  BY SupervisorAssumption
<1>2. IsFiniteSet(1..Len(s)) /\ Cardinality(1..Len(s)) = Len(s)
  BY <1>1, UpTo
<1>3. P \subseteq 1..Len(s)
  BY <1>1
<1>4. IsFiniteSet(P) /\ Cardinality(P) \in Nat /\ Cardinality(P) <= Len(s)
  BY <1>2, <1>3, FS_Subset, FS_CardinalityType
<1>5. ASSUME NEW i \in P PROVE i <= Cardinality(P)
  <2>1. i \in 1..Len(s) /\ s[i] >= Window
    BY <1>3
  <2>2. 1..i \subseteq P
    BY <1>1, <2>1 DEF Mono
  <2>3. Cardinality(1..i) = i
    BY <1>1, <2>1, UpTo
  <2> QED
    BY <1>4, <2>2, <2>3, FS_Subset
<1>6. ASSUME NEW i \in 1..Len(s), i \notin P PROVE ~(i <= Cardinality(P))
  <2>1. \A j \in P : j < i
    <3>1. ASSUME NEW j \in P, ~(j < i) PROVE FALSE
      <4>1. j \in 1..Len(s) /\ s[j] >= Window /\ i <= j
        BY <1>3, <3>1
      <4>2. s[j] <= s[i] /\ s[i] \in 0..Window /\ s[j] \in 0..Window
        BY <1>1, <4>1 DEF Mono
      <4>3. s[i] >= Window
        BY <1>1, <4>1, <4>2
      <4> QED
        BY <1>1, <1>6, <4>3
    <3> QED
      BY <3>1
  <2>2. P \subseteq 1..(i - 1)
    BY <1>1, <1>3, <2>1
  <2>3. IsFiniteSet(1..(i - 1)) /\ Cardinality(1..(i - 1)) = i - 1
    <3>1. i - 1 \in Nat
      BY <1>1, <1>6
    <3> QED
      BY <3>1, UpTo
  <2>4. Cardinality(P) <= i - 1
    BY <2>2, <2>3, FS_Subset
  <2> QED
    BY <1>4, <2>4
<1>7. \A i \in 1..Len(s) : s[i] >= Window <=> i \in P
  BY <1>1
<1>8. Past(s) = Cardinality(P)
  BY DEF Past
<1> HIDE DEF P
<1> QED
  BY <1>4, <1>5, <1>6, <1>7, <1>8

LEMMA AgedIs ==
    ASSUME NEW s \in Seq(0..Window), Mono(s)
    PROVE  /\ Aged(s) \in Seq(0..Window) /\ Mono(Aged(s))
           /\ Len(Aged(s)) = Len(s) - Past(s)
           /\ \A i \in 1..Len(Aged(s)) : Aged(s)[i] = s[i + Past(s)] + 1
<1>1. PICK k \in 0..Len(s) : k = Past(s)
  BY PastIs
<1>2. Aged(s) = [i \in 1..(Len(s) - k) |-> s[i + k] + 1]
  BY <1>1 DEF Aged, Past
<1>3. Len(s) \in Nat /\ Window \in Nat /\ \A i \in 1..Len(s) : s[i] \in 0..Window
  BY SupervisorAssumption
<1>4. ASSUME NEW i \in 1..(Len(s) - k)
      PROVE  i + k \in 1..Len(s) /\ s[i + k] + 1 \in 0..Window
  <2>1. i + k \in 1..Len(s) /\ ~(i + k <= k)
    BY <1>3
  <2>2. ~(s[i + k] >= Window) /\ s[i + k] \in 0..Window
    BY <1>1, <1>3, <2>1, PastIs
  <2> QED
    BY <1>3, <2>1, <2>2
<1>5. Aged(s) \in Seq(0..Window) /\ Len(Aged(s)) = Len(s) - k
  <2>1. Len(s) - k \in Nat
    BY <1>3
  <2>2. Aged(s) \in [1..(Len(s) - k) -> 0..Window]
    BY <1>2, <1>4
  <2>3. Aged(s) \in Seq(0..Window)
    BY <2>1, <2>2, SeqDef
  <2>4. DOMAIN Aged(s) = 1..(Len(s) - k)
    BY <2>2
  <2> QED
    BY <2>1, <2>3, <2>4
<1>6. \A i \in 1..Len(Aged(s)) : Aged(s)[i] = s[i + k] + 1
  BY <1>2, <1>5
<1>7. Mono(Aged(s))
  <2>1. ASSUME NEW i \in 1..(Len(s) - k), NEW j \in 1..(Len(s) - k), i <= j
        PROVE  s[j + k] + 1 <= s[i + k] + 1
    <3>1. i + k \in 1..Len(s) /\ j + k \in 1..Len(s) /\ i + k <= j + k
      BY <1>3, <2>1
    <3>2. s[j + k] <= s[i + k] /\ s[j + k] \in 0..Window /\ s[i + k] \in 0..Window
      BY <1>3, <3>1 DEF Mono
    <3> QED
      BY <1>3, <3>2
  <2> QED
    BY <1>5, <1>6, <2>1 DEF Mono
<1> QED
  BY <1>1, <1>5, <1>6, <1>7

LEMMA AppendIs ==
    ASSUME NEW s \in Seq(0..Window), Mono(s)
    PROVE  /\ Append(s, 0) \in Seq(0..Window) /\ Mono(Append(s, 0)) /\ Len(Append(s, 0)) = Len(s) + 1
           /\ \A i \in 1..Len(s) : Append(s, 0)[i] = s[i]
           /\ Append(s, 0)[Len(s) + 1] = 0
<1>1. 0 \in 0..Window /\ Window \in Nat /\ Len(s) \in Nat /\ \A i \in 1..Len(s) : s[i] \in 0..Window
  BY SupervisorAssumption
<1>2. /\ Append(s, 0) \in Seq(0..Window) /\ Len(Append(s, 0)) = Len(s) + 1
      /\ \A i \in 1..Len(s) : Append(s, 0)[i] = s[i]
      /\ Append(s, 0)[Len(s) + 1] = 0
  BY <1>1
<1>3. ASSUME NEW i \in 1..(Len(s) + 1), NEW j \in 1..(Len(s) + 1), i <= j
      PROVE  Append(s, 0)[j] <= Append(s, 0)[i]
  <2>1. CASE j \in 1..Len(s)
    BY <1>1, <1>2, <1>3, <2>1 DEF Mono
  <2>2. CASE j = Len(s) + 1
    <3>1. Append(s, 0)[i] \in 0..Window
      BY <1>1, <1>2
    <3> QED
      BY <1>1, <1>2, <2>2, <3>1
  <2> QED
    BY <1>1, <2>1, <2>2
<1> QED
  BY <1>2, <1>3 DEF Mono

LEMMA PlusOne ==
    ASSUME NEW x \in Int, NEW y \in Int, x <= y PROVE x + 1 <= y + 1
  OBVIOUS

\* Restarts that match the launches still do when both grow older.
LEMMA CoversAged ==
    ASSUME NEW s \in Seq(0..Window), Mono(s), NEW l \in Seq(0..Window), Mono(l)
    PROVE  /\ Covers(s, l) => Covers(Aged(s), Aged(l))
           /\ CoversButFirst(s, l) => CoversButFirst(Aged(s), Aged(l))
<1> DEFINE m == Len(s)  n == Len(l)  a == Past(s)  b == Past(l)
<1>1. /\ m \in Nat /\ n \in Nat /\ a \in 0..m /\ b \in 0..n /\ Window \in Nat
      /\ \A i \in 1..m : s[i] \in 0..Window
      /\ \A i \in 1..n : l[i] \in 0..Window
  <2>1. a \in 0..m /\ b \in 0..n
    BY PastIs
  <2>2. m \in Nat /\ n \in Nat /\ Window \in Nat
    BY SupervisorAssumption
  <2>3. /\ \A i \in 1..m : s[i] \in 0..Window
        /\ \A i \in 1..n : l[i] \in 0..Window
    BY ElementOfSeq
  <2> QED
    BY <2>1, <2>2, <2>3
<1>2. /\ \A i \in 1..m : s[i] >= Window <=> i <= a
      /\ \A i \in 1..n : l[i] >= Window <=> i <= b
  BY PastIs
<1>3. /\ Len(Aged(s)) = m - a /\ \A i \in 1..(m - a) : Aged(s)[i] = s[i + a] + 1
      /\ Len(Aged(l)) = n - b /\ \A i \in 1..(n - b) : Aged(l)[i] = l[i + b] + 1
  BY AgedIs
<1> HIDE DEF m, n, a, b
<1>4. ASSUME Covers(s, l) PROVE Covers(Aged(s), Aged(l))
  <2>1. n <= m /\ \A i \in 1..n : s[i + m - n] <= l[i]
    BY <1>4 DEF Covers, m, n
  <2>2. n - b <= m - a
    <3>1. ASSUME a > m - n + b PROVE FALSE
      <4>1. a - (m - n) \in 1..n /\ a \in 1..m /\ a - (m - n) + m - n = a
        BY <1>1, <2>1, <3>1
      <4>2. s[a] <= l[a - (m - n)] /\ s[a] >= Window
        BY <1>1, <1>2, <2>1, <4>1
      <4>3. l[a - (m - n)] >= Window
        BY <1>1, <4>1, <4>2
      <4> QED
        BY <1>1, <1>2, <3>1, <4>1, <4>3
    <3> QED
      BY <1>1, <3>1
  <2>3. ASSUME NEW i \in 1..(n - b)
        PROVE  Aged(s)[i + (m - a) - (n - b)] <= Aged(l)[i]
    <3>1. i + b \in 1..n /\ i + b + m - n \in 1..m /\ i + (m - a) - (n - b) \in 1..(m - a)
      BY <1>1, <2>1, <2>2
    <3>2. i + (m - a) - (n - b) + a = i + b + m - n
      BY <1>1, <3>1
    <3>3. /\ Aged(s)[i + (m - a) - (n - b)] = s[i + b + m - n] + 1
          /\ Aged(l)[i] = l[i + b] + 1
      BY <1>3, <3>1, <3>2
    <3>4. s[i + b + m - n] <= l[i + b]
      BY <2>1, <3>1
    <3>5. s[i + b + m - n] \in Int /\ l[i + b] \in Int
      BY <1>1, <3>1
    <3> QED
      BY <3>3, <3>4, <3>5, PlusOne
  <2> QED
    BY <1>1, <1>3, <2>2, <2>3 DEF Covers
<1>5. ASSUME CoversButFirst(s, l) PROVE CoversButFirst(Aged(s), Aged(l))
  <2>1. n <= m + 1 /\ \A i \in 2..n : s[i + m - n] <= l[i - 1]
    BY <1>5 DEF CoversButFirst, m, n
  <2>2. n - b <= m - a + 1
    <3>1. ASSUME a > m - n + b + 1 PROVE FALSE
      <4>1. a - (m - n) \in 2..n /\ a \in 1..m /\ a - (m - n) + m - n = a
        BY <1>1, <2>1, <3>1
      <4>2. s[a - (m - n) + m - n] <= l[a - (m - n) - 1]
        BY <2>1, <4>1
      <4>5. s[a] <= l[a - (m - n) - 1] /\ s[a] >= Window
        BY <1>1, <1>2, <4>1, <4>2
      <4>3. a - (m - n) - 1 \in 1..n /\ ~(a - (m - n) - 1 <= b)
        BY <1>1, <3>1, <4>1
      <4>4. l[a - (m - n) - 1] >= Window
        BY <1>1, <4>1, <4>5, <4>3
      <4> QED
        BY <1>2, <4>3, <4>4
    <3> QED
      BY <1>1, <3>1
  <2>3. ASSUME NEW i \in 2..(n - b)
        PROVE  Aged(s)[i + (m - a) - (n - b)] <= Aged(l)[i - 1]
    <3>1. /\ i + b \in 2..n /\ i + b - 1 \in 1..n /\ i + b + m - n \in 1..m
          /\ i + (m - a) - (n - b) \in 1..(m - a) /\ i - 1 \in 1..(n - b)
      BY <1>1, <2>1, <2>2
    <3>2. i + (m - a) - (n - b) + a = i + b + m - n /\ i - 1 + b = i + b - 1
      BY <1>1, <3>1
    <3>3. /\ Aged(s)[i + (m - a) - (n - b)] = s[i + b + m - n] + 1
          /\ Aged(l)[i - 1] = l[i + b - 1] + 1
      BY <1>3, <3>1, <3>2
    <3>4. s[i + b + m - n] <= l[i + b - 1]
      <4>1. PICK j \in 2..n : j = i + b
        BY <3>1
      <4>2. s[j + m - n] <= l[j - 1]
        BY <2>1
      <4>3. j + m - n = i + b + m - n /\ j - 1 = i + b - 1
        BY <1>1, <4>1
      <4> QED
        BY <4>2, <4>3
    <3>5. s[i + b + m - n] \in Int /\ l[i + b - 1] \in Int
      BY <1>1, <3>1
    <3> QED
      BY <3>3, <3>4, <3>5, PlusOne
  <2> QED
    BY <1>1, <1>3, <2>2, <2>3 DEF CoversButFirst
<1> QED
  BY <1>4, <1>5

\* A restart that is scheduled pays for the launch it leads to.
LEMMA CoversMore ==
    ASSUME NEW s \in Seq(0..Window), Mono(s), NEW l \in Seq(0..Window), Mono(l)
    PROVE  /\ Covers(s, l) => CoversButFirst(s, l)
           /\ CoversButFirst(s, l) => Covers(Append(s, 0), l)
           /\ Covers(s, l) => CoversButFirst(s, Append(l, 0))
<1> DEFINE m == Len(s)  n == Len(l)
<1>1. /\ m \in Nat /\ n \in Nat
      /\ \A i \in 1..m : s[i] \in 0..Window
      /\ \A i \in 1..n : l[i] \in 0..Window
      /\ \A i, j \in 1..n : i <= j => l[j] <= l[i]
  BY SupervisorAssumption DEF Mono
<1>2. /\ Len(Append(s, 0)) = m + 1 /\ Append(s, 0)[m + 1] = 0
      /\ \A i \in 1..m : Append(s, 0)[i] = s[i]
      /\ Len(Append(l, 0)) = n + 1
      /\ \A i \in 1..n : Append(l, 0)[i] = l[i]
  BY AppendIs
<1> HIDE DEF m, n
<1>3. ASSUME Covers(s, l) PROVE CoversButFirst(s, l) /\ CoversButFirst(s, Append(l, 0))
  <2>1. n <= m /\ \A i \in 1..n : s[i + m - n] <= l[i]
    BY <1>3 DEF Covers, m, n
  <2>2. ASSUME NEW i \in 2..n PROVE s[i + m - n] <= l[i - 1]
    <3>1. i \in 1..n /\ i - 1 \in 1..n /\ i - 1 <= i /\ i + m - n \in 1..m
      BY <1>1, <2>1
    <3>2. s[i + m - n] <= l[i] /\ l[i] <= l[i - 1]
      BY <1>1, <2>1, <3>1
    <3> QED
      BY <1>1, <3>1, <3>2
  <2>3. ASSUME NEW i \in 2..(n + 1) PROVE s[i + m - (n + 1)] <= Append(l, 0)[i - 1]
    <3>1. i - 1 \in 1..n /\ i - 1 + m - n = i + m - (n + 1)
      BY <1>1
    <3> QED
      BY <1>2, <2>1, <3>1
  <2> QED
    BY <1>1, <1>2, <2>1, <2>2, <2>3 DEF CoversButFirst, m, n
<1>4. ASSUME CoversButFirst(s, l) PROVE Covers(Append(s, 0), l)
  <2>1. n <= m + 1 /\ \A i \in 2..n : s[i + m - n] <= l[i - 1]
    BY <1>4 DEF CoversButFirst, m, n
  <2>2. ASSUME NEW i \in 1..n PROVE Append(s, 0)[i + (m + 1) - n] <= l[i]
    <3>1. CASE i = n
      BY <1>1, <1>2, <3>1
    <3>2. CASE i # n
      <4>1. /\ i + 1 \in 2..n /\ i + 1 + m - n \in 1..m /\ i + 1 - 1 = i
            /\ i + 1 + m - n = i + (m + 1) - n
        BY <1>1, <2>1, <3>2
      <4>2. s[i + 1 + m - n] <= l[i]
        BY <2>1, <4>1
      <4> QED
        BY <1>2, <4>1, <4>2
    <3> QED
      BY <3>1, <3>2
  <2> QED
    BY <1>1, <1>2, <2>1, <2>2 DEF Covers, m, n
<1> QED
  BY <1>3, <1>4

LEMMA PolicyTypes ==
    ASSUME SupervisorTypeOK
    PROVE  /\ rec["core"].stamps \in Seq(0..Window) /\ rec["voice"].stamps \in Seq(0..Window)
           /\ launched \in Seq(0..Window)
           /\ Len(rec["core"].stamps) \in Nat /\ Backoff # None
<1>1. rec["core"] \in Components /\ rec["voice"] \in Components
  BY DEF SupervisorTypeOK, Roles
<1>2. rec["core"].stamps \in Seq(0..Window) /\ rec["voice"].stamps \in Seq(0..Window)
  BY <1>1 DEF Components
<1> QED
  BY <1>2, SupervisorAssumption DEF SupervisorTypeOK

\* Whatever makes the Core go, its launches stay paid for.
LEMMA PolicyKept ==
    ASSUME StaffInv, PolicyInv, Restarts, Stamps
    PROVE  PolicyInv'
<1> DEFINE s == rec["core"].stamps  l == launched  t == rec'["core"].stamps
           r == rec["core"].wait  x == rec'["core"].wait
           paid == /\ Mono(t) /\ Mono(launched') /\ Len(t) <= MaxRestarts
                   /\ IF x # None THEN Covers(t, launched') ELSE CoversButFirst(t, launched')
<1>1. /\ s \in Seq(0..Window) /\ l \in Seq(0..Window) /\ Len(s) \in Nat /\ Backoff # None
      /\ rec["voice"].stamps \in Seq(0..Window)
  BY Staff, PolicyTypes
<1>2. /\ Mono(s) /\ Mono(l) /\ Mono(rec["voice"].stamps) /\ Len(s) <= MaxRestarts
      /\ IF r # None THEN Covers(s, l) ELSE CoversButFirst(s, l)
  BY DEF PolicyInv, Paid
<1>3. /\ Append(s, 0) \in Seq(0..Window) /\ Mono(Append(s, 0)) /\ Len(Append(s, 0)) = Len(s) + 1
      /\ Mono(Append(l, 0)) /\ Mono(Append(rec["voice"].stamps, 0))
  BY <1>1, <1>2, AppendIs
<1>4. CoversButFirst(s, l) /\ Covers(Append(s, 0), l)
  BY <1>1, <1>2, CoversMore
<1>5. Mono(<<>>) /\ Mono(<<0>>) /\ CoversButFirst(<<>>, <<>>) /\ CoversButFirst(<<>>, <<0>>)
  BY DEF Mono, CoversButFirst
<1>6. Mono(rec'["voice"].stamps)
  BY <1>2, <1>3, <1>5 DEF Stamps
<1>7. paid
  <2>1. CASE t = s /\ x = r /\ launched' = launched
    BY <1>2, <2>1
  <2>2. ASSUME NEW b \in Components, b.stamps = s, b.wait = r,
               rec'["core"] = Schedule(b), launched' = launched
        PROVE  paid
    <3>1. CASE t = s /\ x = None
      BY <1>2, <1>4, <2>2, <3>1
    <3>2. CASE ~(Len(s) >= MaxRestarts) /\ t = Append(s, 0) /\ x = Backoff
      BY <1>1, <1>2, <1>3, <1>4, <2>2, <3>2, SupervisorAssumption
    <3> QED
      BY <2>2, <3>1, <3>2, ScheduleIs
  <2>3. CASE r # None /\ x = None /\ t = s /\ launched' = Append(launched, 0)
    <3>1. CoversButFirst(s, Append(l, 0))
      BY <1>1, <1>2, <2>3, CoversMore
    <3> QED
      BY <1>2, <1>3, <2>3, <3>1
  <2>4. CASE t = <<>> /\ x = None /\ launched' \in {<<>>, <<0>>}
    <3>1. Len(t) = 0
      BY <2>4
    <3> QED
      BY <1>5, <2>4, <3>1, SupervisorAssumption
  <2> QED
    BY <2>1, <2>2, <2>3, <2>4 DEF Restarts
<1> QED
  BY <1>6, <1>7 DEF PolicyInv, Paid

LEMMA LaterIs ==
    ASSUME NEW c \in Components, Mono(c.stamps)
    PROVE  /\ Later(c) \in Components
           /\ Later(c).process = c.process /\ Later(c).state = c.state /\ Later(c).detail = c.detail
           /\ Later(c).stamps = Aged(c.stamps) /\ (Later(c).wait = None <=> c.wait = None)
<1>1. c.stamps \in Seq(0..Window) /\ c.wait \in 0..Backoff \cup {None}
  BY DEF Components
<1>2. Aged(c.stamps) \in Seq(0..Window)
  BY <1>1, AgedIs
<1>5. /\ Backoff \in Nat /\ None \notin Nat
  BY SupervisorAssumption
<1>6. PICK x : x = IF c.wait \in {None, 0} THEN c.wait ELSE c.wait - 1
  OBVIOUS
<1>3. x \in 0..Backoff \cup {None} /\ (x = None <=> c.wait = None)
  <2>1. c.wait \in {None, 0} \/ c.wait \in 1..Backoff
    BY <1>1, <1>5
  <2>2. CASE c.wait \in {None, 0}
    BY <1>1, <1>5, <1>6, <2>2
  <2>3. CASE c.wait \in 1..Backoff
    <3>1. x = c.wait - 1 /\ x \in 0..Backoff
      BY <1>5, <1>6, <2>3
    <3> QED
      BY <1>5, <2>3, <3>1
  <2> QED
    BY <2>1, <2>2, <2>3
<1>4. Later(c) = [c EXCEPT !.stamps = Aged(c.stamps), !.wait = x]
  BY <1>6 DEF Later, Components
<1> QED
  BY <1>2, <1>3, <1>4 DEF Components

LEMMA ClockKeeps ==
    ASSUME StaffInv, PolicyInv, Clock
    PROVE  StaffInv' /\ GivesUp /\ PolicyInv'
<1> DEFINE c == rec["core"]  v == rec["voice"]  d == rec'["core"]  w == rec'["voice"]
<1>1. /\ Mono(c.stamps) /\ Mono(v.stamps) /\ Mono(launched)
      /\ c.stamps \in Seq(0..Window) /\ v.stamps \in Seq(0..Window) /\ launched \in Seq(0..Window)
  BY Staff, PolicyTypes DEF PolicyInv
<1>2. /\ rec' = [r \in Roles |-> Later(rec[r])] /\ d = Later(c) /\ w = Later(v)
      /\ launched' = Aged(launched)
      /\ UNCHANGED <<pc, proc, endpoint, stopFile, faults, starts>>
  BY DEF Clock, Roles
<1>3. /\ Later(c) \in Components /\ Later(v) \in Components
      /\ d.process = c.process /\ d.state = c.state /\ d.detail = c.detail
      /\ w.process = v.process /\ w.state = v.state /\ w.detail = v.detail
      /\ d.stamps = Aged(c.stamps) /\ w.stamps = Aged(v.stamps)
      /\ d.wait = None <=> c.wait = None
  BY Staff, <1>1, <1>2, LaterIs
<1>4. rec' \in [Roles -> Components]
  BY <1>2, <1>3 DEF Roles
<1>5. /\ file' = None <=> file = None
      /\ file' \in Reports \cup {None}
      /\ file # None => /\ file'.pid = file.pid /\ file'.state = file.state
                        /\ file'.detail = file.detail
  <2>1. CASE file = None
    BY Staff, <2>1 DEF Clock, SupervisorTypeOK
  <2>2. CASE file # None
    <3>1. file \in Reports /\ file.age \in 0..(MaxAge + 1) /\ MaxAge \in Nat
      BY Staff, <2>2, SupervisorAssumption DEF SupervisorTypeOK, Reports
    <3>2. PICK y \in 0..(MaxAge + 1) : y = IF file.age <= MaxAge THEN file.age + 1 ELSE file.age
      BY <3>1
    <3>3. file' = [file EXCEPT !.age = y]
      BY <2>2, <3>1, <3>2 DEF Clock, Reports
    <3>4. file' \in Reports /\ file'.pid = file.pid /\ file'.state = file.state /\ file'.detail = file.detail
      BY <3>1, <3>2, <3>3 DEF Reports
    <3> QED
      BY <2>2, <3>4, SupervisorAssumption
  <2> QED
    BY <2>1, <2>2
<1>6. /\ Aged(c.stamps) \in Seq(0..Window) /\ Aged(launched) \in Seq(0..Window)
      /\ Mono(Aged(c.stamps)) /\ Mono(Aged(v.stamps)) /\ Mono(Aged(launched))
      /\ Len(Aged(c.stamps)) = Len(c.stamps) - Past(c.stamps)
      /\ Past(c.stamps) \in 0..Len(c.stamps)
  BY <1>1, AgedIs, PastIs
<1>7. SupervisorTypeOK'
  <2>1. started' \in 0..StartTimeout
    BY Staff, SupervisorAssumption DEF Clock, SupervisorTypeOK
  <2>2. launched' \in Seq(0..Window)
    BY <1>2, <1>6
  <2> QED
    BY Staff, <1>2, <1>4, <1>5, <2>1, <2>2 DEF SupervisorTypeOK
<1>8. Kept(pc', d, w, proc') /\ Apart(d, w)
  BY Staff, <1>2, <1>3 DEF Kept, Apart
<1>9. Ended(d) /\ Ended(w) /\ Told(file') /\ Built(proc')
  BY Staff, <1>2, <1>3, <1>5 DEF Ended, Told, Built
<1>10. Judged(pc', d, w) /\ Placed(pc', d, endpoint')
  BY Staff, <1>2, <1>3 DEF Judged, Placed
<1>11. BoundTo(pc', d, w, proc', endpoint')
  BY Staff, <1>2, <1>3 DEF BoundTo
<1>12. Known(pc', w, proc', file')
  BY Staff, <1>2, <1>3, <1>5 DEF Known
<1>13. GivesUp
  <2>1. /\ c.detail = "restart_limit_exceeded" => d.detail = c.detail /\ d.process = None
        /\ v.detail = "restart_limit_exceeded" => w.detail = v.detail /\ w.process = None
    BY Staff, <1>3 DEF Ended
  <2> QED
    BY <2>1 DEF GivesUp, GivenUp, Roles
<1>14. PolicyInv'
  <2>1. Paid(d, launched')
    <3>1. CASE c.wait # None
      BY <1>1, <1>2, <1>3, <3>1, CoversAged DEF PolicyInv, Paid
    <3>2. CASE c.wait = None
      BY <1>1, <1>2, <1>3, <3>2, CoversAged DEF PolicyInv, Paid
    <3> QED
      BY <3>1, <3>2
  <2>2. Len(d.stamps) <= MaxRestarts
    <3>1. /\ Len(c.stamps) \in Nat /\ Len(c.stamps) <= MaxRestarts /\ MaxRestarts \in Nat
      BY <1>1, SupervisorAssumption DEF PolicyInv
    <3> QED
      BY <1>3, <1>6, <3>1
  <2> QED
    BY <1>2, <1>3, <1>6, <2>1, <2>2 DEF PolicyInv
<1> QED
  BY <1>7, <1>8, <1>9, <1>10, <1>11, <1>12, <1>13, <1>14 DEF StaffInv

-----------------------------------------------------------------------------
(* The invariant, and what follows from it.                                  *)

LEMMA SupervisorInitial == Init => StaffInv /\ PolicyInv
<1> SUFFICES ASSUME Init PROVE StaffInv /\ PolicyInv
  OBVIOUS
<1>1. /\ rec["core"] = NewComponent /\ rec["voice"] = NewComponent
      /\ rec \in [Roles -> Components]
  BY NewComponentIs DEF Init, Roles
<1>2. \A p \in Pids : proc[p] = None
  BY DEF Init
<1>3. SupervisorTypeOK
  <2>1. proc \in [Pids -> Processes \cup {None}] /\ launched \in Seq(0..Window)
    BY DEF Init
  <2>2. 0 \in 0..StartTimeout /\ 0 \in 0..Faults /\ 0 \in 0..Starts
    BY SupervisorAssumption
  <2> QED
    BY <1>1, <2>1, <2>2 DEF Init, SupervisorTypeOK
<1>4. StaffInv
  BY <1>1, <1>2, <1>3, NewComponentIs
     DEF Init, StaffInv, Kept, Apart, Ended, Told, Built, Judged, Placed, BoundTo, Known, Attending
<1>5. Len(<<>>) = 0 /\ MaxRestarts \in Nat
  BY SupervisorAssumption
<1>6. PolicyInv
  BY <1>1, <1>5, NewComponentIs DEF Init, PolicyInv, Paid, Mono, CoversButFirst
<1> QED
  BY <1>4, <1>6

LEMMA TickKeeps ==
    ASSUME StaffInv, Tick
    PROVE  StaffInv' /\ GivesUp /\ Restarts /\ Stamps
  BY CoreRunsKeeps, CoreGoneKeeps, CoreNotDueKeeps, CoreRelaunchKeeps, CoreReadyKeeps,
     CoreLostKeeps, CoreWaitsKeeps, CoreTimesOutKeeps, VoiceWithoutCoreKeeps,
     VoiceMissingKeeps, VoiceRebindKeeps, VoiceRunsKeeps, VoiceExitedKeeps,
     StopVoiceKeeps, StopCoreKeeps DEF Tick

LEMMA ChildKeeps ==
    ASSUME StaffInv, NEW p \in Pids, Child(p)
    PROVE  StaffInv' /\ GivesUp /\ Restarts /\ Stamps
  BY CoreServeKeeps, VoiceBuildKeeps, VoiceBuildFailsKeeps, VoiceBeatKeeps, VoiceEndsKeeps,
     LeavesKeeps, CrashesKeeps, SlowsKeeps DEF Child

LEMMA SupervisorInductive ==
    ASSUME StaffInv, PolicyInv, [Next]_vars
    PROVE  StaffInv' /\ PolicyInv' /\ [GivesUp]_vars
<1>1. CASE UNCHANGED vars
  <2>1. rec' = rec /\ UNCHANGED <<pc, started, proc, endpoint, file, stopFile, faults, starts, launched>>
    BY <1>1 DEF vars, disk
  <2>2. StaffInv'
    BY <2>1 DEF StaffInv, SupervisorTypeOK
  <2>3. PolicyInv'
    BY <2>1 DEF PolicyInv
  <2> QED
    BY <1>1, <2>2, <2>3
<1>2. ASSUME StaffInv' /\ GivesUp /\ Restarts /\ Stamps PROVE StaffInv' /\ PolicyInv' /\ GivesUp
  BY <1>2, PolicyKept
<1>3. CASE Start \/ RequestStop \/ Dies
  BY <1>2, <1>3, StartKeeps, RequestStopKeeps, DiesKeeps
<1>4. CASE Tick
  BY <1>2, <1>4, TickKeeps
<1>5. CASE \E p \in Pids : Child(p)
  BY <1>2, <1>5, ChildKeeps
<1>6. CASE Clock
  BY <1>6, ClockKeeps
<1> QED
  BY <1>1, <1>3, <1>4, <1>5, <1>6 DEF Next

LEMMA SupervisorInvariant == Spec => [](StaffInv /\ PolicyInv)
<1>1. Init => StaffInv /\ PolicyInv
  BY SupervisorInitial
<1>2. (StaffInv /\ PolicyInv) /\ [Next]_vars => (StaffInv /\ PolicyInv)'
  BY SupervisorInductive
<1> QED
  BY <1>1, <1>2, PTL DEF Spec

(* The supervisor's variables keep their types, whatever the numbers of     *)
(* processes, restarts, failures and starts.                                *)
THEOREM SupervisorTypes == Spec => []SupervisorTypeOK
<1>1. StaffInv => SupervisorTypeOK
  BY DEF StaffInv
<1> QED
  BY <1>1, SupervisorInvariant, PTL

(* No child is lost from sight: start, tick and stop between them always    *)
(* hold the one live Core and the one live Voice Agent, and leave none       *)
(* when the supervisor has stopped, whatever could not be stopped, spawned   *)
(* or unlinked.                                                              *)
THEOREM NoChildIsLost == Spec => []NoStrays
<1>1. StaffInv => NoStrays
  <2> SUFFICES ASSUME StaffInv, NEW p \in LivePids
               PROVE  pc # "off" /\ rec[proc[p].role].process = p
    BY DEF NoStrays
  <2>1. p \in Pids /\ Live(p)
    BY DEF LivePids
  <2>2. proc[p] # None /\ proc[p].role \in Roles
    BY <2>1, ChildIs
  <2> QED
    BY Staff, <2>1, <2>2 DEF Kept, Roles
<1> QED
  BY <1>1, SupervisorInvariant, PTL

(* The health the supervisor publishes never calls a Voice Agent READY that  *)
(* was built against another Core than the one it holds, however the two     *)
(* children and the files they leave interleave with its ticks.              *)
THEOREM ReadyVoicesAreBound == Spec => []ReadyMeansBound
<1>1. StaffInv => ReadyMeansBound
  <2> SUFFICES ASSUME StaffInv, pc = "idle", rec["core"].state = "READY", rec["voice"].state = "READY"
               PROVE  /\ rec["voice"].process # None
                      /\ Alive("voice") => proc[rec["voice"].process].bound = rec["core"].process
    BY DEF ReadyMeansBound
  <2>1. rec["voice"].process # None /\ rec["voice"].detail = "none"
    BY Staff DEF Judged, Attending
  <2>2. ASSUME Alive("voice") PROVE proc[rec["voice"].process].bound = rec["core"].process
    <3>1. proc[rec["voice"].process] # None
      BY <2>2 DEF Alive, Live
    <3>2. proc[rec["voice"].process].bound \in {None, rec["core"].process}
      BY Staff, <2>1, <3>1 DEF BoundTo, Attending
    <3>3. proc[rec["voice"].process].bound # None
      BY Staff, <2>1, <3>1 DEF Known, Attending
    <3> QED
      BY <3>2, <3>3
  <2> QED
    BY <2>1, <2>2
<1> QED
  BY <1>1, SupervisorInvariant, PTL

(* The restart policy holds whatever makes the Core go - exits, time-outs,   *)
(* launches that fail - and however long the supervisor runs: every launch   *)
(* after the first of a window has spent one of the restarts that            *)
(* _schedule_restart counts in it.                                           *)
THEOREM CoreRestartsAreBounded == Spec => []CoreRestartsBounded
<1>1. StaffInv /\ PolicyInv => CoreRestartsBounded
  <2> SUFFICES ASSUME StaffInv, PolicyInv PROVE Len(launched) <= MaxRestarts + 1
    BY DEF CoreRestartsBounded
  <2>1. /\ Len(rec["core"].stamps) \in Nat /\ Len(rec["core"].stamps) <= MaxRestarts
        /\ Len(launched) \in Nat /\ MaxRestarts \in Nat
    BY Staff, PolicyTypes, SupervisorAssumption DEF PolicyInv
  <2>2. Len(launched) <= Len(rec["core"].stamps) + 1
    BY <2>1 DEF PolicyInv, Paid, Covers, CoversButFirst
  <2> QED
    BY <2>1, <2>2
<1> QED
  BY <1>1, SupervisorInvariant, PTL

(* A child whose restarts are used up is given up for good: no step of a     *)
(* tick, of the other child or of the clock launches it or makes it look     *)
(* alive again before the supervisor stops.                                  *)
THEOREM GivenUpForGood == Spec => GivesUpForGood
<1>1. StaffInv /\ PolicyInv /\ [Next]_vars
      => [\A r \in Roles : (GivenUp(r) /\ pc \notin {"off", "stopping"}
                            /\ pc' \notin {"off", "stopping"})
                           => GivenUp(r)' /\ rec'[r].process = None]_vars
  BY SupervisorInductive DEF GivesUp, Attending
<1> QED
  BY <1>1, SupervisorInvariant, PTL DEF Spec, GivesUpForGood
=============================================================================

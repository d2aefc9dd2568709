------------------------------- MODULE OpenClaw -------------------------------
(* The connection to the OpenClaw gateway (rex/openclaw/reconnect.py, with   *)
(* refresh, mark_unavailable and the dispatch of rex/openclaw/               *)
(* capability_sync.py): its state, the remote capabilities in the registry,  *)
(* threads that dispatch remote tools or refresh the capabilities, and the   *)
(* worker that reconnects.  A step is what happens under the controller's    *)
(* lock, or one call of the gateway.  auto_reconnect is on.                  *)
(*                                                                           *)
(* A generation is only ever compared with the current one, so a thread      *)
(* holds whether its generation is still that: a disconnect makes those of   *)
(* all threads obsolete.                                                     *)
EXTENDS Naturals

CONSTANTS
    Users,          \* threads of the program
    Workers,        \* threads that may be the reconnect worker
    MaxOutages,     \* bound on the failures of the gateway
    Nobody

ASSUME OpenClawAssumption ==
    Users \cap Workers = {} /\ Nobody \notin Users \cup Workers /\ MaxOutages \in Nat

VARIABLES
    link,       \* _state
    stopped,    \* _stop
    worker,     \* _worker
    agent,      \* what each thread is doing
    remote,     \* the remote cards of the registry: "on" or "off"
    syncing,    \* holder of the synchroniser's _lock
    over,       \* the synchroniser's _closed
    up,         \* the gateway answers, and with a valid inventory
    outages,
    fresh       \* ghost: the cards come from an inventory fetched since the
                \* last disconnect
clawVars == <<link, stopped, worker, agent, remote, syncing, over, up, outages, fresh>>

OcThreads == Users \cup Workers
Free == [pc |-> "idle", current |-> FALSE, reserved |-> Nobody]
OcAt(t, pc) == agent[t].pc = pc
OcGoto(t, pc) == agent' = [agent EXCEPT ![t].pc = pc]

\* The first synchronisation of the program succeeded, or it did not and has
\* just disconnected.
OcInit ==
    /\ stopped = FALSE /\ outages = 0 /\ syncing = Nobody /\ over = FALSE
    /\ \/ /\ link = "ready" /\ worker = Nobody /\ up = TRUE /\ fresh = TRUE /\ remote = "on"
          /\ agent = [t \in OcThreads |-> Free]
       \/ \E u \in Users, w \in Workers :
            /\ link = "disconnected" /\ worker = w /\ up = FALSE /\ fresh = FALSE /\ remote = "off"
            /\ agent = [t \in OcThreads |->
                          CASE t = u -> [pc |-> "project", current |-> TRUE, reserved |-> w]
                            [] t = w -> [Free EXCEPT !.pc = "reserved"]
                            [] OTHER -> Free]

-----------------------------------------------------------------------------
(* Disconnecting.                                                           *)

Reservable == {w \in Workers : OcAt(w, "idle")}

\* _begin_disconnect_locked of t, which goes on at pc: a worker is reserved
\* if the slot is free; which thread it is does not matter.
BeginDisconnect(t, pc, slot) ==
    IF link = "closed"
    THEN /\ agent' = [agent EXCEPT ![t] = [Free EXCEPT !.pc = pc, !.current = TRUE]]
         /\ worker' = slot /\ UNCHANGED <<link, fresh>>
    ELSE LET w == IF slot = Nobody THEN CHOOSE v \in Reservable : TRUE ELSE Nobody
         IN  /\ slot = Nobody => Reservable # {}
             /\ link' = "disconnected" /\ fresh' = FALSE
             /\ worker' = IF w = Nobody THEN slot ELSE w
             /\ agent' = [u \in OcThreads |->
                           IF u = t THEN [pc |-> pc, current |-> TRUE, reserved |-> w]
                           ELSE [agent[u] EXCEPT !.current = FALSE,
                                                 !.pc = IF u = w THEN "reserved" ELSE @]]

\* _project_unavailable_and_start: nothing if the state has moved on, or if a
\* newer disconnect does it; the worker that was reserved is started, or given
\* up.
Obsolete(t) == ~agent[t].current /\ (agent[t].reserved = Nobody \/ worker # agent[t].reserved)

Project(t) ==
    /\ OcAt(t, "project")
    /\ LET w == agent[t].reserved
           mine == w # Nobody /\ worker = w
           starts == link = "disconnected" /\ ~Obsolete(t) /\ w # Nobody
       IN  /\ worker' = IF link # "disconnected" /\ mine THEN Nobody ELSE worker
           /\ remote' = IF link = "disconnected" /\ ~Obsolete(t) THEN "off" ELSE remote
           /\ agent' = [u \in OcThreads |->
                         IF u = t THEN Free
                         ELSE IF u = w THEN [Free EXCEPT !.pc = IF starts THEN "begin" ELSE "idle"]
                         ELSE agent[u]]
    /\ syncing' = IF syncing = t THEN Nobody ELSE syncing
    /\ UNCHANGED <<link, stopped, over, up, outages, fresh>>

-----------------------------------------------------------------------------
(* The threads of the program.                                              *)

\* dispatch_if_ready holds the lock during the dispatch; a failure of the
\* transport disconnects.
DispatchRemote(u) ==
    /\ u \in Users /\ OcAt(u, "idle") /\ link = "ready" /\ ~up
    /\ BeginDisconnect(u, "project", worker)
    /\ UNCHANGED <<stopped, remote, syncing, over, up, outages>>

\* refresh of the synchroniser, under its lock to the end: the generation,
\* then the inventory.
Refresh(u) ==
    /\ u \in Users /\ OcAt(u, "idle") /\ syncing = Nobody
    /\ IF over THEN UNCHANGED <<syncing, agent>>       \* refused
       ELSE /\ syncing' = u
            /\ agent' = [agent EXCEPT ![u] = [Free EXCEPT !.pc = "fetch", !.current = TRUE]]
    /\ UNCHANGED <<link, stopped, worker, remote, over, up, outages, fresh>>

Fetch(t) ==
    /\ OcAt(t, "fetch")
    /\ OcGoto(t, IF up THEN "commit" ELSE "mark")
    /\ UNCHANGED <<link, stopped, worker, remote, syncing, over, up, outages, fresh>>

\* apply_authority_update refuses an obsolete generation.
Authorized(t) == agent[t].current

\* The snapshot is applied, or discarded.
Commit(t) ==
    /\ OcAt(t, "commit")
    /\ remote' = IF Authorized(t) THEN "on" ELSE remote
    /\ fresh' = IF Authorized(t) THEN agent[t].current ELSE fresh
    /\ OcGoto(t, IF t \in Users THEN "idle" ELSE IF Authorized(t) THEN "verify" ELSE "settle")
    /\ syncing' = Nobody
    /\ UNCHANGED <<link, stopped, worker, over, up, outages>>

\* A refresh that failed disconnects.  In the worker the projection has no
\* effect: it is refused as obsolete, and so is the resync.
Mark(t) ==
    /\ OcAt(t, "mark")
    /\ BeginDisconnect(t, IF t \in Users THEN "project" ELSE "settle", worker)
    /\ syncing' = IF t \in Users THEN t ELSE Nobody
    /\ UNCHANGED <<stopped, remote, over, up, outages>>

\* A new configuration closes the coordinator, and then the synchroniser.
Close ==
    /\ link # "closed"
    /\ link' = "closed" /\ stopped' = TRUE
    /\ UNCHANGED <<worker, agent, remote, syncing, over, up, outages, fresh>>

CloseSync ==
    /\ stopped /\ ~over /\ syncing = Nobody
    /\ over' = TRUE
    /\ UNCHANGED <<link, stopped, worker, agent, remote, syncing, up, outages, fresh>>

-----------------------------------------------------------------------------
(* The worker: run_until_recovered.                                         *)

WorkerReturns(w) == agent' = [agent EXCEPT ![w] = [Free EXCEPT !.pc = "finally"]]
Quiet == UNCHANGED <<stopped, worker, remote, syncing, over, up, outages, fresh>>

Begin(w) ==
    /\ OcAt(w, "begin")
    /\ IF link = "ready" THEN WorkerReturns(w) ELSE OcGoto(w, "probe")
    /\ UNCHANGED link /\ Quiet

\* A new attempt, with the generation of now.
Probe(w) ==
    /\ OcAt(w, "probe")
    /\ IF link = "closed" THEN WorkerReturns(w) /\ UNCHANGED link
       ELSE /\ link' = "reconnecting"
            /\ agent' = [agent EXCEPT ![w] = [Free EXCEPT !.pc = "health", !.current = TRUE]]
    /\ Quiet

HealthProbe(w) ==
    /\ OcAt(w, "health")
    /\ OcGoto(w, IF up THEN "available" ELSE "down")
    /\ UNCHANGED link /\ Quiet

\* Closed or superseded during the probe: the attempt ends here.
Checked(w) ==
    /\ agent[w].pc \in {"available", "down"}
    /\ IF link = "closed" \/ ~agent[w].current THEN WorkerReturns(w)
       ELSE OcGoto(w, IF OcAt(w, "available") THEN "resync" ELSE "settle")
    /\ UNCHANGED link /\ Quiet

\* The lock was let go since the check, which is not repeated.
Resync(w) ==
    /\ OcAt(w, "resync")
    /\ link' = "resyncing" /\ OcGoto(w, "sync")
    /\ Quiet

\* The worker's refresh, which a closed synchroniser refuses.  Its generation
\* remains that of the attempt.
Sync(w) ==
    /\ OcAt(w, "sync") /\ syncing = Nobody
    /\ syncing' = IF over THEN Nobody ELSE w
    /\ OcGoto(w, IF over THEN "settle" ELSE "fetch")
    /\ UNCHANGED <<link, stopped, worker, remote, over, up, outages, fresh>>

\* Mutant of Restorable: the generation is not compared again.
RestorableAnyway(w) == TRUE

Restorable(w) == agent[w].current

\* Ready again, unless something came between the resync and now.
VerifyReady(w) ==
    /\ OcAt(w, "verify")
    /\ IF link = "closed" THEN WorkerReturns(w) /\ UNCHANGED link
       ELSE IF Restorable(w) THEN WorkerReturns(w) /\ link' = "ready"
       ELSE OcGoto(w, "settle") /\ UNCHANGED link
    /\ Quiet

\* The attempt failed: disconnected until the wait is over.
Settle(w) ==
    /\ OcAt(w, "settle")
    /\ IF link = "closed" THEN WorkerReturns(w) /\ UNCHANGED link
       ELSE link' = "disconnected" /\ agent' = [agent EXCEPT ![w] = [Free EXCEPT !.pc = "backoff"]]
    /\ Quiet

Waited(w) ==
    /\ OcAt(w, "backoff")
    /\ IF stopped THEN WorkerReturns(w) ELSE OcGoto(w, "probe")
    /\ UNCHANGED link /\ Quiet

\* Mutant of Finally: no successor.
FinallyLeaves(w) ==
    /\ OcAt(w, "finally")
    /\ agent' = [agent EXCEPT ![w] = Free]
    /\ worker' = IF worker = w THEN Nobody ELSE worker
    /\ UNCHANGED <<link, fresh, stopped, remote, syncing, over, up, outages>>

\* The worker ends; an outage it did not see gets a successor.
Finally(w) ==
    /\ OcAt(w, "finally")
    /\ IF worker = w /\ link = "disconnected" /\ ~stopped THEN BeginDisconnect(w, "project", Nobody)
       ELSE /\ agent' = [agent EXCEPT ![w] = Free]
            /\ worker' = IF worker = w THEN Nobody ELSE worker
            /\ UNCHANGED <<link, fresh>>
    /\ UNCHANGED <<stopped, remote, syncing, over, up, outages>>

-----------------------------------------------------------------------------
(* The gateway.                                                             *)

GoesDown ==
    /\ up /\ outages < MaxOutages /\ up' = FALSE /\ outages' = outages + 1
    /\ UNCHANGED <<link, stopped, worker, agent, remote, syncing, over, fresh>>

ComesUp ==
    /\ ~up /\ up' = TRUE
    /\ UNCHANGED <<link, stopped, worker, agent, remote, syncing, over, outages, fresh>>

Recovery(t) ==
    \/ Project(t) \/ Fetch(t) \/ Commit(t) \/ Mark(t)
    \/ Begin(t) \/ Probe(t) \/ HealthProbe(t) \/ Checked(t) \/ Resync(t) \/ Sync(t)
    \/ VerifyReady(t) \/ Settle(t) \/ Waited(t) \/ Finally(t)

OcNext ==
    \/ \E t \in OcThreads : Recovery(t)
    \/ \E u \in Users : DispatchRemote(u) \/ Refresh(u)
    \/ Close \/ CloseSync \/ GoesDown \/ ComesUp

OcSpec == OcInit /\ [][OcNext]_clawVars

\* Threads are scheduled, the lock of the synchroniser reaches the workers that
\* wait for it, one or the other, and the gateway comes back.
OcFairSpec ==
    /\ OcSpec
    /\ \A t \in OcThreads : WF_clawVars(Recovery(t))
    /\ SF_clawVars(\E w \in Workers : Sync(w))
    /\ WF_clawVars(ComesUp)

-----------------------------------------------------------------------------
\* Whenever tools may be dispatched, the remote capabilities are enabled and
\* were fetched after the last disconnect, whatever refreshes, outages and
\* recoveries overlap (reconnect.py: connectivity alone never restores
\* authority).
ReadyMeansFresh == link = "ready" => fresh /\ remote = "on"

\* As long as the coordinator is not closed, it does not stay disconnected: it
\* is ready again once the gateway stays up.
Recovers == []<>(link = "ready" \/ stopped)

\* reconnect.py:279: close() permanently closes the coordinator, so that one
\* that was closed is not ready again.
ClosedForGood == stopped => link # "ready"
=============================================================================

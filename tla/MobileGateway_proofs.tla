------------------------ MODULE MobileGateway_proofs ------------------------
(****************************************************************************)
(* Proofs about MobileGateway: its steps are steps of MobileStore, whose    *)
(* invariants therefore hold of it, an approval is acted on at most once,   *)
(* and loading a principal takes effect at one instant.                     *)
(****************************************************************************)
EXTENDS MobileGateway, MobileStore_proofs

-----------------------------------------------------------------------------
(* The two programs that execute commands, operation by operation.          *)
LEMMA Programs ==
    /\ Program.home = <<"load", "consume", "load", "execute", "load">>
    /\ Program.chat = <<"load", "load", "consume", "execute", "load">>
    /\ Program.challenge = <<"load", "issue">>
    /\ Program.verify = <<"load", "verify">>
BY DEF Program

(* Where each operation stands in the programs.                             *)
LEMMA Positions ==
    ASSUME GatewayTypeOK, NEW r \in Requests, request[r] # None
    PROVE  LET q == request[r]
               op == Program[q.kind][q.step]
           IN
           /\ q \in RequestRow
           /\ q.kind \in {"challenge", "verify"} => q.step \in 1..2
           /\ op = "consume" => \/ q.kind = "home" /\ q.step = 2
                                \/ q.kind = "chat" /\ q.step = 3
           /\ op = "execute" => q.kind \in {"home", "chat"} /\ q.step = 4
           /\ op = "issue" => q.kind = "challenge"
           /\ op = "load" => \/ q.step = 1
                             \/ q.kind = "home" /\ q.step \in {3, 5}
                             \/ q.kind = "chat" /\ q.step \in {2, 5}
           /\ Len(Program[q.kind]) = IF q.kind \in {"home", "chat"} THEN 5 ELSE 2
           /\ DOMAIN Program[q.kind] = 1..Len(Program[q.kind])
<1>1. PICK q : q = request[r]
  OBVIOUS
<1>2. q \in RequestRow /\ q.step \in DOMAIN Program[q.kind]
  BY <1>1 DEF GatewayTypeOK
<1>3. q.kind \in {"challenge", "verify", "home", "chat"}
  BY <1>2 DEF RequestRow, Kinds
<1>4. PICK op : op = Program[q.kind][q.step]
  OBVIOUS
<1>5. CASE q.kind = "challenge"
  <2>1. Program[q.kind] = <<"load", "issue">>
    BY <1>5, Programs
  <2>2. Len(Program[q.kind]) = 2 /\ DOMAIN Program[q.kind] = 1..2
    BY <2>1
  <2>3. \A i \in 1..2 : <<"load", "issue">>[i] # "consume" /\ <<"load", "issue">>[i] # "execute"
                        /\ (<<"load", "issue">>[i] = "load" => i = 1)
    OBVIOUS
  <2> QED
    BY <1>1, <1>2, <1>5, <2>1, <2>2, <2>3
<1>6. CASE q.kind = "verify"
  <2>1. Program[q.kind] = <<"load", "verify">>
    BY <1>6, Programs
  <2>2. Len(Program[q.kind]) = 2 /\ DOMAIN Program[q.kind] = 1..2
    BY <2>1
  <2>3. \A i \in 1..2 : <<"load", "verify">>[i] # "consume" /\ <<"load", "verify">>[i] # "execute"
                        /\ (<<"load", "verify">>[i] = "load" => i = 1)
                        /\ <<"load", "verify">>[i] # "issue"
    OBVIOUS
  <2> QED
    BY <1>1, <1>2, <1>6, <2>1, <2>2, <2>3
<1>7. CASE q.kind = "home"
  <2> DEFINE p == <<"load", "consume", "load", "execute", "load">>
  <2>1. Program[q.kind] = p
    BY <1>7, Programs
  <2>2. Len(p) = 5 /\ DOMAIN p = 1..5
    OBVIOUS
  <2>3. \A i \in 1..5 : /\ p[i] = "consume" => i = 2
                        /\ p[i] = "execute" => i = 4
                        /\ p[i] # "issue"
                        /\ p[i] = "load" => i \in {1, 3, 5}
    OBVIOUS
  <2> HIDE DEF p
  <2> QED
    BY <1>1, <1>2, <1>7, <2>1, <2>2, <2>3
<1>8. CASE q.kind = "chat"
  <2> DEFINE p == <<"load", "load", "consume", "execute", "load">>
  <2>1. Program[q.kind] = p
    BY <1>8, Programs
  <2>2. Len(p) = 5 /\ DOMAIN p = 1..5
    OBVIOUS
  <2>3. \A i \in 1..5 : /\ p[i] = "consume" => i = 3
                        /\ p[i] = "execute" => i = 4
                        /\ p[i] # "issue"
                        /\ p[i] = "load" => i \in {1, 2, 5}
    OBVIOUS
  <2> HIDE DEF p
  <2> QED
    BY <1>1, <1>2, <1>8, <2>1, <2>2, <2>3
<1> QED
  BY <1>3, <1>5, <1>6, <1>7, <1>8

-----------------------------------------------------------------------------
(* How an operation moves its thread: other threads are left alone, and the  *)
(* thread ends or goes on with the same principal and arguments.             *)
LEMMA AdvancedRows ==
    ASSUME GatewayTypeOK, NEW r \in Requests, request[r] # None, request' = Advanced(r)
    PROVE  /\ \A q \in Requests : q # r => request'[q] = request[q]
           /\ request' \in [Requests -> RequestRow \cup {None}]
           /\ request'[r] # None =>
                /\ request'[r].kind = request[r].kind
                /\ request'[r].session = request[r].session
                /\ request'[r].id = request[r].id
                /\ request'[r].command = request[r].command
                /\ request'[r].valid = request[r].valid
                /\ request'[r].step = request[r].step + 1
                /\ request'[r].phase = "start"
                /\ request'[r].step \in DOMAIN Program[request'[r].kind]
<1>1. /\ request[r] \in RequestRow
      /\ request[r].step \in 1..Len(Program[request[r].kind])
      /\ Len(Program[request[r].kind]) \in {2, 5}
      /\ DOMAIN Program[request[r].kind] = 1..Len(Program[request[r].kind])
  BY Positions DEF GatewayTypeOK
<1>2. CASE request[r].step = Len(Program[request[r].kind])
  BY <1>1, <1>2 DEF Advanced, Finished, GatewayTypeOK
<1>3. CASE request[r].step # Len(Program[request[r].kind])
  <2>0. PICK i \in Nat : i = request[r].step
    BY <1>1
  <2>1. /\ request[r].step + 1 \in 1..5
        /\ request[r].step + 1 \in 1..Len(Program[request[r].kind])
    <3>1. CASE Len(Program[request[r].kind]) = 2
      <4>1. i \in 1..2 /\ i # 2
        BY <1>1, <1>3, <2>0, <3>1
      <4>2. i + 1 \in 1..5 /\ i + 1 \in 1..2
        BY <4>1
      <4> QED
        BY <2>0, <3>1, <4>2
    <3>2. CASE Len(Program[request[r].kind]) = 5
      <4>1. i \in 1..5 /\ i # 5
        BY <1>1, <1>3, <2>0, <3>2
      <4>2. i + 1 \in 1..5
        BY <4>1
      <4> QED
        BY <2>0, <3>2, <4>2
    <3> QED
      BY <1>1, <3>1, <3>2
  <2>2. PICK n \in 1..5 : n = request[r].step + 1
    BY <2>1
  <2>3. request' = [request EXCEPT ![r] = [request[r] EXCEPT !.step = n, !.phase = "start"]]
    BY <1>3, <2>2 DEF Advanced
  <2>4. [request[r] EXCEPT !.step = n, !.phase = "start"] \in RequestRow
    BY <1>1, <2>2 DEF RequestRow
  <2>5. request'[r] = [request[r] EXCEPT !.step = n, !.phase = "start"]
        /\ \A q \in Requests : q # r => request'[q] = request[q]
    BY <2>3 DEF GatewayTypeOK
  <2>6. /\ request'[r].kind = request[r].kind
        /\ request'[r].session = request[r].session
        /\ request'[r].id = request[r].id
        /\ request'[r].command = request[r].command
        /\ request'[r].valid = request[r].valid
        /\ request'[r].step = n
        /\ request'[r].phase = "start"
    BY <1>1, <2>5 DEF RequestRow
  <2>7. request' \in [Requests -> RequestRow \cup {None}]
    BY <2>3, <2>4 DEF GatewayTypeOK
  <2> QED
    BY <1>1, <2>1, <2>2, <2>5, <2>6, <2>7
<1> QED
  BY <1>2, <1>3

(* A request that ended leaves the others alone.                             *)
LEMMA FinishedRows ==
    ASSUME GatewayTypeOK, NEW r \in Requests, request' = Finished(r)
    PROVE  /\ \A q \in Requests : q # r => request'[q] = request[q]
           /\ request' \in [Requests -> RequestRow \cup {None}]
           /\ request'[r] = None
BY DEF GatewayTypeOK, Finished

(* An operation of several parts moves its thread to the next part.          *)
LEMMA PhaseRows ==
    ASSUME GatewayTypeOK, NEW r \in Requests, request[r] # None,
           NEW phase \in {"read", "revoke", "reissue"}, NEW valid \in BOOLEAN,
           request' = InPhase(r, phase, valid)
    PROVE  /\ \A q \in Requests : q # r => request'[q] = request[q]
           /\ request' \in [Requests -> RequestRow \cup {None}]
           /\ request'[r] # None
           /\ request'[r].kind = request[r].kind
           /\ request'[r].session = request[r].session
           /\ request'[r].id = request[r].id
           /\ request'[r].command = request[r].command
           /\ request'[r].valid = valid
           /\ request'[r].step = request[r].step
           /\ request'[r].phase = phase
<1>1. request[r] \in RequestRow
  BY DEF GatewayTypeOK
<1>2. [request[r] EXCEPT !.phase = phase, !.valid = valid] \in RequestRow
  BY <1>1 DEF RequestRow
<1>3. [request[r] EXCEPT !.phase = phase, !.valid = valid] # None
  BY <1>2, StrongAssumption
<1>4. /\ request'[r] = [request[r] EXCEPT !.phase = phase, !.valid = valid]
      /\ \A q \in Requests : q # r => request'[q] = request[q]
  BY DEF GatewayTypeOK, InPhase
<1>5. request' \in [Requests -> RequestRow \cup {None}]
  BY <1>2 DEF GatewayTypeOK, InPhase
<1> QED
  BY <1>1, <1>3, <1>4, <1>5 DEF RequestRow

(* What a step of thread r does to the table of threads.                     *)
Moves(r) ==
    /\ request[r] # None
    /\ \A q \in Requests : q # r => request'[q] = request[q]
    /\ request' \in [Requests -> RequestRow \cup {None}]
    /\ request'[r] # None =>
         /\ request'[r].kind = request[r].kind
         /\ request'[r].session = request[r].session
         /\ request'[r].id = request[r].id
         /\ request'[r].command = request[r].command
         /\ \/ request'[r].step = request[r].step
            \/ /\ request'[r].step = request[r].step + 1
               /\ request'[r].step \in DOMAIN Program[request'[r].kind]

(* Every operation moves its own thread only, one operation ahead at most.   *)
LEMMA StepMoves ==
    ASSUME GatewayTypeOK, NEW r \in Requests, RequestStep(r)
    PROVE  Moves(r)
<1>1. request[r] # None /\ request[r] \in RequestRow
  BY DEF RequestStep, ReadSession, ReadGrant, RevokeInvalid, Issue, IssueRefused,
         Verify, Consume, Execute, At, GatewayTypeOK
<1>2. ASSUME request' = Finished(r) PROVE Moves(r)
  BY <1>1, <1>2, FinishedRows DEF Moves
<1>3. ASSUME request' = Advanced(r) PROVE Moves(r)
  BY <1>1, <1>3, AdvancedRows DEF Moves
<1>4. ASSUME NEW phase \in {"read", "revoke", "reissue"}, NEW valid \in BOOLEAN,
             request' = InPhase(r, phase, valid)
      PROVE  Moves(r)
  BY <1>1, <1>4, PhaseRows DEF Moves
<1>5. CASE ReadSession(r)
  <2>1. PICK v \in BOOLEAN : v = FullyAuthorized(request[r].session)
    BY DEF FullyAuthorized
  <2>2. request' = InPhase(r, "read", v) \/ request' = Finished(r)
    BY <1>5, <2>1 DEF ReadSession
  <2> QED
    BY <1>2, <1>4, <2>2
<1>6. CASE ReadGrant(r)
  <2>1. PICK v \in BOOLEAN : v = request[r].valid
    BY <1>1 DEF RequestRow
  <2>2. \/ request' = InPhase(r, "revoke", v) \/ request' = Finished(r)
        \/ request' = Advanced(r)
    BY <1>6, <2>1 DEF ReadGrant
  <2> QED
    BY <1>2, <1>3, <1>4, <2>2
<1>7. CASE Consume(r)
  <2>1. PICK v \in BOOLEAN : v = request[r].valid
    BY <1>1 DEF RequestRow
  <2>2. \/ request' = InPhase(r, "reissue", v) \/ request' = Finished(r)
        \/ request' = Advanced(r)
    BY <1>7, <2>1 DEF Consume
  <2> QED
    BY <1>2, <1>3, <1>4, <2>2
<1>8. CASE RevokeInvalid(r) \/ (\E c \in StrongIds : Issue(r, c)) \/ IssueRefused(r)
           \/ Verify(r)
  BY <1>2, <1>8 DEF RevokeInvalid, Issue, IssueRefused, Verify
<1>9. CASE Execute(r)
  BY <1>3, <1>9 DEF Execute
<1> QED
  BY <1>5, <1>6, <1>7, <1>8, <1>9 DEF RequestStep

-----------------------------------------------------------------------------
(* Gateway steps are steps of the tables.                                    *)

(* A thread serves a session that exists: what makes the revocation inside   *)
(* a load a transaction of MobileStore.                                      *)
RequestsHaveSessions ==
    \A r \in Requests : request[r] # None => session[request[r].session] # None

(* Which steps can change the tables at all.                                 *)
LEMMA StoreStep ==
    ASSUME GatewayTypeOK, RequestsHaveSessions, [GatewayNext]_allVars
    PROVE  [Next]_vars
<1>1. CASE UNCHANGED allVars
  BY <1>1 DEF allVars
<1>2. CASE OtherRoutes
  BY <1>2 DEF OtherRoutes
<1>3. CASE Arrival
  BY <1>3 DEF Arrival, Arrive
<1>4. ASSUME NEW r \in Requests, RequestStep(r) PROVE [Next]_vars
  <2>1. CASE RevokeInvalid(r)
    <3>1. request[r] # None /\ request[r] \in RequestRow
      BY <2>1 DEF RevokeInvalid, At, GatewayTypeOK
    <3>2. request[r].session \in SessionIds /\ session[request[r].session] # None
      BY <3>1 DEF RequestRow, RequestsHaveSessions
    <3>3. RevokeSession(request[r].session)
      BY <2>1, <3>2 DEF RevokeInvalid, RevokeSession
    <3> QED
      BY <3>2, <3>3 DEF Next, SessionStep
  <2>2. CASE ~RevokeInvalid(r)
    BY <1>4, <2>2 DEF RequestStep, ReadSession, ReadGrant, Issue, IssueRefused, Verify,
                      Consume, Execute
  <2> QED
    BY <2>1, <2>2
<1> QED
  BY <1>1, <1>2, <1>3, <1>4 DEF GatewayNext

(* What an arrival does to the table of threads.                             *)
LEMMA ArrivalRows ==
    ASSUME GatewayTypeOK, NEW r \in Requests, NEW kind \in Kinds, NEW s \in SessionIds,
           NEW c \in StrongIds \cup {None}, NEW a \in Commands \cup {None},
           Arrive(r, kind, s, c, a)
    PROVE  /\ request[r] = None /\ session[s] # None
           /\ \A q \in Requests : q # r => request'[q] = request[q]
           /\ request' \in [Requests -> RequestRow \cup {None}]
           /\ request'[r] # None
           /\ request'[r].kind = kind /\ request'[r].session = s
           /\ request'[r].command = None <=> request'[r].kind = "verify"
           /\ request'[r].step = 1 /\ request'[r].phase = "start"
<1>1. PICK n : n = [kind |-> kind, session |-> s, id |-> c, command |-> a,
                    step |-> 1, phase |-> "start", valid |-> FALSE]
  OBVIOUS
<1>2. n \in RequestRow
  BY <1>1 DEF RequestRow
<1>3. n # None
  BY <1>2, StrongAssumption
<1>4. /\ request' = [request EXCEPT ![r] = n] /\ request[r] = None /\ session[s] # None
      /\ kind = "verify" <=> a = None
  BY <1>1 DEF Arrive
<1>5. request'[r] = n /\ \A q \in Requests : q # r => request'[q] = request[q]
  BY <1>4 DEF GatewayTypeOK
<1>6. request' \in [Requests -> RequestRow \cup {None}]
  BY <1>2, <1>4 DEF GatewayTypeOK
<1> QED
  BY <1>1, <1>3, <1>4, <1>5, <1>6

(* No step takes a thread's session away.                                    *)
LEMMA SessionsStayStep ==
    ASSUME GatewayTypeOK, RequestsHaveSessions, [GatewayNext]_allVars
    PROVE  RequestsHaveSessions'
<1>1. \A s \in SessionIds : session[s] # None => session'[s] # None
  BY StoreStep, SessionsOnlyAge DEF GatewayTypeOK
<1>2. \A r \in Requests : request[r] # None => request[r].session \in SessionIds
  BY DEF GatewayTypeOK, RequestRow
<1>3. CASE request' = request
  BY <1>1, <1>2, <1>3 DEF RequestsHaveSessions
<1>4. CASE Arrival
  <2>1. PICK r \in Requests, kind \in Kinds, s \in SessionIds,
             c \in StrongIds \cup {None}, a \in Commands \cup {None} :
             Arrive(r, kind, s, c, a)
    BY <1>4 DEF Arrival
  <2>2. /\ \A q \in Requests : q # r => request'[q] = request[q]
        /\ request'[r].session = s /\ session[s] # None
    BY <2>1, ArrivalRows
  <2> QED
    BY <1>1, <1>2, <2>2 DEF RequestsHaveSessions
<1>5. ASSUME NEW r \in Requests, RequestStep(r) PROVE RequestsHaveSessions'
  <2>1. Moves(r)
    BY <1>5, StepMoves
  <2>2. \A q \in Requests : request'[q] # None =>
          request[q] # None /\ request'[q].session = request[q].session
    BY <2>1 DEF Moves
  <2> QED
    BY <1>1, <1>2, <2>2 DEF RequestsHaveSessions
<1> QED
  BY <1>3, <1>4, <1>5 DEF GatewayNext, OtherRoutes, gatewayVars, allVars

-----------------------------------------------------------------------------
(* The challenges and approvals.                                             *)

(* What a step may do to them when it neither spends one nor acts on one:     *)
(* rows that were verified and spent stay as they are, and no thread starts  *)
(* to hold one.                                                              *)
SpentRowsStay ==
    \A c \in StrongIds :
        strong[c] # None /\ strong[c].verified /\ strong[c].consumed =>
            /\ strong'[c] # None /\ strong'[c].verified /\ strong'[c].consumed
            /\ strong'[c].session = strong[c].session
            /\ strong'[c].command = strong[c].command

HoldersStay(R) ==
    \A q \in R : HoldsSpent(q)' =>
        /\ HoldsSpent(q)
        /\ request'[q].id = request[q].id
        /\ request'[q].session = request[q].session
        /\ request'[q].command = request[q].command

(* The row of one challenge, written.                                        *)
LEMMA IssueRows ==
    ASSUME GatewayTypeOK, TypeOK, NEW r \in Requests, NEW c \in StrongIds, Issue(r, c),
           request[r].command \in Commands
    PROVE  /\ strong' \in [StrongIds -> StrongRow \cup {None}]
           /\ strong[c] = None
           /\ \A d \in StrongIds : d # c => strong'[d] = strong[d]
<1>1. request[r] # None /\ request[r] \in RequestRow
  BY DEF Issue, At, GatewayTypeOK
<1>2. now + StrongTTL \in Nat
  BY StrongAssumption, TimeAssumption DEF TypeOK
<1>3. NewStrong(request[r].session, request[r].command) \in StrongRow
  BY <1>1, <1>2 DEF NewStrong, StrongRow, RequestRow
<1> QED
  BY <1>3 DEF Issue, GatewayTypeOK

(* A proof changes only a row that was not verified yet.                     *)
LEMMA VerifyRows ==
    ASSUME GatewayTypeOK, TypeOK, NEW r \in Requests, Verify(r)
    PROVE  /\ strong' \in [StrongIds -> StrongRow \cup {None}]
           /\ SpentRowsStay
<1>1. request[r] \in RequestRow
  BY DEF Verify, At, GatewayTypeOK
<1>2. CASE strong' = strong
  BY <1>2 DEF GatewayTypeOK, SpentRowsStay
<1>3. CASE strong' # strong
  <2>1. PICK c : c = request[r].id
    OBVIOUS
  <2>2. PICK n : n = now + ApprovalTTL
    OBVIOUS
  <2>3. n \in Nat
    BY <2>2, StrongAssumption, TimeAssumption DEF TypeOK
  <2>4. /\ strong[c] # None /\ ~strong[c].verified
        /\ strong' = [strong EXCEPT ![c].verified = TRUE, ![c].approvalExpires = n]
    BY <1>3, <2>1, <2>2 DEF Verify, Verifiable
  <2>5. CASE c \in StrongIds
    <3>1. PICK old \in StrongRow : old = strong[c]
      BY <2>4, <2>5 DEF GatewayTypeOK
    <3>2. strong' = [strong EXCEPT ![c] = [old EXCEPT !.verified = TRUE,
                                                      !.approvalExpires = n]]
      BY <2>4, <3>1
    <3>3. [old EXCEPT !.verified = TRUE, !.approvalExpires = n] \in StrongRow
      BY <2>3, <3>1 DEF StrongRow
    <3>4. strong' \in [StrongIds -> StrongRow \cup {None}]
      BY <3>2, <3>3 DEF GatewayTypeOK
    <3>5. \A d \in StrongIds : d # c => strong'[d] = strong[d]
      BY <3>2 DEF GatewayTypeOK
    <3> QED
      BY <2>4, <3>4, <3>5 DEF SpentRowsStay
  <2>6. CASE c \notin StrongIds
    BY <1>3, <2>4, <2>6 DEF GatewayTypeOK
  <2> QED
    BY <2>5, <2>6
<1> QED
  BY <1>2, <1>3

(* Spending marks one row and lets its thread go on.                         *)
LEMMA SpendRows ==
    ASSUME GatewayTypeOK, NEW r \in Requests, Consume(r),
           Consumable(request[r].id, request[r].session, request[r].command)
    PROVE  LET c == request[r].id IN
           /\ c \in StrongIds
           /\ strong[c].session = request[r].session
           /\ strong[c].command = request[r].command
           /\ ~strong[c].consumed
           /\ strong' \in [StrongIds -> StrongRow \cup {None}]
           /\ \A d \in StrongIds : d # c => strong'[d] = strong[d]
           /\ strong'[c] # None /\ strong'[c].verified /\ strong'[c].consumed
           /\ strong'[c].session = strong[c].session
           /\ strong'[c].command = strong[c].command
           /\ request' = Advanced(r)
<1>1. PICK c : c = request[r].id
  OBVIOUS
<1>2. c \in StrongIds
  BY <1>1 DEF Consume, At, Consumable, GatewayTypeOK, RequestRow
<1>3. /\ strong' = [strong EXCEPT ![c].consumed = TRUE]
      /\ request' = Advanced(r)
  BY <1>1 DEF Consume
<1>4. /\ strong[c] # None /\ strong[c].verified /\ ~strong[c].consumed
      /\ strong[c].session = request[r].session /\ strong[c].command = request[r].command
  BY <1>1 DEF Consumable
<1>5. PICK old \in StrongRow : old = strong[c]
  BY <1>2, <1>4 DEF GatewayTypeOK
<1>6. [old EXCEPT !.consumed = TRUE] \in StrongRow /\ [old EXCEPT !.consumed = TRUE] # None
  <2>1. [old EXCEPT !.consumed = TRUE] \in StrongRow
    BY <1>5 DEF StrongRow
  <2> QED
    BY <2>1, StrongAssumption
<1>7. strong' = [strong EXCEPT ![c] = [old EXCEPT !.consumed = TRUE]]
  BY <1>3, <1>5
<1>8. /\ strong' \in [StrongIds -> StrongRow \cup {None}]
      /\ \A d \in StrongIds : d # c => strong'[d] = strong[d]
      /\ strong'[c] = [old EXCEPT !.consumed = TRUE]
  BY <1>2, <1>6, <1>7 DEF GatewayTypeOK
<1>9. /\ strong'[c].verified = old.verified /\ strong'[c].consumed = TRUE
      /\ strong'[c].session = old.session /\ strong'[c].command = old.command
  BY <1>5, <1>8 DEF StrongRow
<1> QED
  BY <1>1, <1>2, <1>3, <1>4, <1>5, <1>6, <1>8, <1>9

(* Every step keeps the types.                                               *)
LEMMA GatewayTypeStep ==
    ASSUME GatewayTypeOK, RequestsHaveSessions, [GatewayNext]_allVars
    PROVE  GatewayTypeOK'
<1>1. TypeOK'
  BY StoreStep, TypeStep DEF GatewayTypeOK
<1>2. /\ request' \in [Requests -> RequestRow \cup {None}]
      /\ \A r \in Requests : request'[r] # None =>
           /\ request'[r].step \in DOMAIN Program[request'[r].kind]
           /\ request'[r].command = None <=> request'[r].kind = "verify"
  <2>1. CASE request' = request
    BY <2>1 DEF GatewayTypeOK
  <2>2. ASSUME NEW r \in Requests, RequestStep(r)
        PROVE  /\ request' \in [Requests -> RequestRow \cup {None}]
               /\ \A q \in Requests : request'[q] # None =>
                    /\ request'[q].step \in DOMAIN Program[request'[q].kind]
                    /\ request'[q].command = None <=> request'[q].kind = "verify"
    <3>1. Moves(r)
      BY <2>2, StepMoves
    <3> QED
      BY <3>1 DEF Moves, GatewayTypeOK
  <2>3. CASE Arrival
    <3>1. PICK r \in Requests, kind \in Kinds, s \in SessionIds,
               c \in StrongIds \cup {None}, a \in Commands \cup {None} :
               Arrive(r, kind, s, c, a)
      BY <2>3 DEF Arrival
    <3>2. /\ \A q \in Requests : q # r => request'[q] = request[q]
          /\ request' \in [Requests -> RequestRow \cup {None}]
          /\ request'[r].command = None <=> request'[r].kind = "verify"
          /\ request'[r].kind = kind /\ request'[r].step = 1
      BY <3>1, ArrivalRows
    <3>3. 1 \in DOMAIN Program[kind]
      <4>1. kind \in {"challenge", "verify", "home", "chat"}
        BY DEF Kinds
      <4>2. /\ 1 \in DOMAIN <<"load", "issue">>
            /\ 1 \in DOMAIN <<"load", "verify">>
            /\ 1 \in DOMAIN <<"load", "consume", "load", "execute", "load">>
            /\ 1 \in DOMAIN <<"load", "load", "consume", "execute", "load">>
        OBVIOUS
      <4> QED
        BY <4>1, <4>2, Programs
    <3>4. request'[r].step \in DOMAIN Program[request'[r].kind]
      BY <3>2, <3>3
    <3> QED
      BY <3>2, <3>4 DEF GatewayTypeOK
  <2> QED
    BY <2>1, <2>2, <2>3 DEF GatewayNext, OtherRoutes, gatewayVars, allVars
<1>3. strong' \in [StrongIds -> StrongRow \cup {None}]
  <2>1. CASE strong' = strong
    BY <2>1 DEF GatewayTypeOK
  <2>2. ASSUME NEW r \in Requests, NEW c \in StrongIds, Issue(r, c)
        PROVE  strong' \in [StrongIds -> StrongRow \cup {None}]
    <3>1. request[r] # None /\ request[r] \in RequestRow
      BY <2>2 DEF Issue, At, GatewayTypeOK
    <3>2. Program[request[r].kind][request[r].step] \in {"issue", "consume"}
      BY <2>2 DEF Issue, At
    <3>3. request[r].kind \in {"challenge", "home", "chat"}
      BY <3>1, <3>2, Positions
    <3>4. request[r].command \in Commands
      BY <3>1, <3>3 DEF GatewayTypeOK, RequestRow
    <3> QED
      BY <2>2, <3>4, IssueRows DEF GatewayTypeOK
  <2>3. ASSUME NEW r \in Requests, Verify(r)
        PROVE  strong' \in [StrongIds -> StrongRow \cup {None}]
    BY <2>3, VerifyRows DEF GatewayTypeOK
  <2>4. ASSUME NEW r \in Requests, Consume(r)
        PROVE  strong' \in [StrongIds -> StrongRow \cup {None}]
    <3>1. CASE Consumable(request[r].id, request[r].session, request[r].command)
      BY <2>4, <3>1, SpendRows
    <3>2. CASE ~Consumable(request[r].id, request[r].session, request[r].command)
      BY <2>1, <2>4, <3>2 DEF Consume
    <3> QED
      BY <3>1, <3>2
  <2> QED
    BY <2>1, <2>2, <2>3, <2>4 DEF GatewayNext, OtherRoutes, Arrival, Arrive, RequestStep,
       ReadSession, ReadGrant, RevokeInvalid, IssueRefused, Execute, gatewayVars, allVars
<1>4. executed' \in [StrongIds -> Nat]
  <2>1. CASE executed' = executed
    BY <2>1 DEF GatewayTypeOK
  <2>2. ASSUME NEW r \in Requests, Execute(r) PROVE executed' \in [StrongIds -> Nat]
    <3>1. PICK c : c = request[r].id
      OBVIOUS
    <3>2. executed' = [x \in StrongIds |-> IF x = c THEN executed[x] + 1 ELSE executed[x]]
      BY <2>2, <3>1 DEF Execute, GatewayTypeOK
    <3>3. \A x \in StrongIds : executed[x] \in Nat /\ executed[x] + 1 \in Nat
      BY DEF GatewayTypeOK
    <3> QED
      BY <3>2, <3>3
  <2> QED
    BY <2>1, <2>2 DEF GatewayNext, OtherRoutes, Arrival, Arrive, RequestStep,
       ReadSession, ReadGrant, RevokeInvalid, Issue, IssueRefused, Verify, Consume,
       gatewayVars, allVars
<1> QED
  BY <1>1, <1>2, <1>3, <1>4 DEF GatewayTypeOK

-----------------------------------------------------------------------------
(* An approval is acted on at most once.                                     *)

(* What was acted on had been proved and spent: with the two properties it    *)
(* makes the inductive invariant of the approvals.                           *)
ExecutedWasSpent ==
    \A c \in StrongIds : executed[c] > 0 =>
        strong[c] # None /\ strong[c].verified /\ strong[c].consumed

SpendInv == ExecutesWhatWasSigned /\ ExecutedWasSpent /\ ApprovalSpentOnce

(* A step that neither spends an approval nor acts on one keeps all three.   *)
LEMMA QuietStep ==
    ASSUME GatewayTypeOK, SpendInv, SpentRowsStay, HoldersStay(Requests),
           executed' = executed
    PROVE  SpendInv'
<1>1. \A r \in Requests : request[r] # None => request[r].id \in StrongIds \cup {None}
  BY DEF GatewayTypeOK, RequestRow
<1>2. \A r \in Requests : HoldsSpent(r) => request[r].id \in StrongIds
  BY <1>1 DEF HoldsSpent, SpendInv, ExecutesWhatWasSigned
<1>3. ExecutesWhatWasSigned'
  <2> SUFFICES ASSUME NEW r \in Requests, HoldsSpent(r)'
               PROVE  LET c == request'[r].id IN
                      /\ c # None /\ strong'[c] # None
                      /\ strong'[c].verified /\ strong'[c].consumed
                      /\ strong'[c].session = request'[r].session
                      /\ strong'[c].command = request'[r].command
                      /\ executed'[c] = 0
                      /\ \A q \in Requests : HoldsSpent(q)' /\ request'[q].id = c => q = r
    BY DEF ExecutesWhatWasSigned
  <2>1. /\ HoldsSpent(r) /\ request'[r].id = request[r].id
        /\ request'[r].session = request[r].session
        /\ request'[r].command = request[r].command
    BY DEF HoldersStay
  <2>2. PICK c \in StrongIds : c = request[r].id
    BY <1>2, <2>1
  <2>3. /\ c # None /\ strong[c] # None /\ strong[c].verified /\ strong[c].consumed
        /\ strong[c].session = request[r].session
        /\ strong[c].command = request[r].command
        /\ executed[c] = 0
        /\ \A q \in Requests : HoldsSpent(q) /\ request[q].id = c => q = r
    BY <2>1, <2>2 DEF SpendInv, ExecutesWhatWasSigned
  <2>4. /\ strong'[c] # None /\ strong'[c].verified /\ strong'[c].consumed
        /\ strong'[c].session = strong[c].session
        /\ strong'[c].command = strong[c].command
    BY <2>3 DEF SpentRowsStay
  <2>5. \A q \in Requests : HoldsSpent(q)' /\ request'[q].id = c => q = r
    BY <2>3 DEF HoldersStay
  <2> QED
    BY <2>1, <2>2, <2>3, <2>4, <2>5
<1>4. ExecutedWasSpent'
  BY DEF SpendInv, ExecutedWasSpent, SpentRowsStay
<1>5. ApprovalSpentOnce'
  BY DEF SpendInv, ApprovalSpentOnce
<1> QED
  BY <1>3, <1>4, <1>5 DEF SpendInv

(* No thread comes to hold an approval except by spending it.                *)
LEMMA NobodyHoldsMore ==
    ASSUME GatewayTypeOK, NEW r \in Requests, RequestStep(r), ~Consume(r), ~Execute(r)
    PROVE  HoldersStay(Requests)
<1>1. Moves(r)
  BY StepMoves
<1>2. \A q \in Requests \ {r} : request'[q] = request[q]
  BY <1>1 DEF Moves
<1>3. ASSUME HoldsSpent(r)' PROVE HoldsSpent(r)
  <2>1. /\ request[r] # None /\ request'[r] # None
        /\ request'[r].kind = request[r].kind
    BY <1>1, <1>3 DEF Moves, HoldsSpent
  <2>2. CASE request'[r].step = request[r].step
    BY <1>3, <2>1, <2>2 DEF HoldsSpent
  <2>3. CASE request'[r].step # request[r].step
    <3>1. ReadGrant(r)
      <4>1. ASSUME request' = Finished(r) PROVE FALSE
        BY <2>1, <4>1, FinishedRows
      <4>2. ASSUME NEW phase \in {"read", "revoke", "reissue"}, NEW valid \in BOOLEAN,
                   request' = InPhase(r, phase, valid)
            PROVE  FALSE
        BY <2>1, <2>3, <4>2, PhaseRows
      <4>3. ASSUME ReadSession(r) PROVE FALSE
        <5>1. PICK v \in BOOLEAN : v = FullyAuthorized(request[r].session)
          BY DEF FullyAuthorized
        <5> QED
          BY <4>1, <4>2, <4>3, <5>1 DEF ReadSession
      <4> QED
        BY <4>1, <4>3 DEF RequestStep, RevokeInvalid, Issue, IssueRefused, Verify
    <3>2. Program[request[r].kind][request[r].step] = "load"
      BY <3>1 DEF ReadGrant, At
    <3>3. PICK i \in 1..5 : i = request[r].step
      BY <2>1 DEF GatewayTypeOK, RequestRow
    <3>4. request'[r].step = i + 1
      BY <1>1, <2>1, <2>3, <3>3 DEF Moves
    <3>5. \/ i = 1
          \/ request[r].kind = "home" /\ i \in {3, 5}
          \/ request[r].kind = "chat" /\ i \in {2, 5}
      BY <2>1, <3>2, <3>3, Positions
    <3>6. \/ request[r].kind = "home" /\ i + 1 \in {3, 4}
          \/ request[r].kind = "chat" /\ i + 1 = 4
      BY <1>3, <2>1, <3>4 DEF HoldsSpent
    <3>7. request[r].kind = "home" /\ i = 3
      BY <3>3, <3>5, <3>6
    <3> QED
      BY <2>1, <3>3, <3>7 DEF HoldsSpent
  <2> QED
    BY <2>2, <2>3
<1> QED
  BY <1>1, <1>2, <1>3 DEF HoldersStay, HoldsSpent, Moves

(* Every step keeps them.                                                    *)
LEMMA SpendStep ==
    ASSUME GatewayTypeOK, SpendInv, [GatewayNext]_allVars
    PROVE  SpendInv'
<1>0. TypeOK
  BY DEF GatewayTypeOK
<1>1. ASSUME strong' = strong PROVE SpentRowsStay
  BY <1>1 DEF SpentRowsStay
<1>2. CASE UNCHANGED gatewayVars
  BY <1>1, <1>2, QuietStep DEF gatewayVars, HoldersStay, HoldsSpent
<1>3. CASE Arrival
  <2>1. PICK r \in Requests, kind \in Kinds, s \in SessionIds,
             c \in StrongIds \cup {None}, a \in Commands \cup {None} :
             Arrive(r, kind, s, c, a)
    BY <1>3 DEF Arrival
  <2>2. /\ request[r] = None /\ request'[r].step = 1
        /\ \A q \in Requests : q # r => request'[q] = request[q]
    BY <2>1, ArrivalRows
  <2>3. HoldersStay(Requests)
    BY <2>2 DEF HoldersStay, HoldsSpent
  <2> QED
    BY <1>1, <2>1, <2>3, QuietStep DEF Arrive
<1>4. ASSUME NEW r \in Requests, RequestStep(r), ~Consume(r), ~Execute(r)
      PROVE  SpendInv'
  <2>1. HoldersStay(Requests)
    BY <1>4, NobodyHoldsMore
  <2>2. executed' = executed
    BY <1>4 DEF RequestStep, ReadSession, ReadGrant, RevokeInvalid, Issue, IssueRefused, Verify
  <2>3. SpentRowsStay
    <3>1. ASSUME NEW c \in StrongIds, Issue(r, c) PROVE SpentRowsStay
      <4>1. strong[c] = None /\ \A d \in StrongIds : d # c => strong'[d] = strong[d]
        BY <3>1 DEF Issue, GatewayTypeOK
      <4> QED
        BY <4>1 DEF SpentRowsStay
    <3>2. ASSUME Verify(r) PROVE SpentRowsStay
      BY <1>0, <3>2, VerifyRows
    <3> QED
      BY <1>1, <1>4, <3>1, <3>2 DEF RequestStep, ReadSession, ReadGrant, RevokeInvalid,
                                    IssueRefused
  <2> QED
    BY <2>1, <2>2, <2>3, QuietStep
<1>5. ASSUME NEW r \in Requests, Consume(r) PROVE SpendInv'
  <2>1. executed' = executed
    BY <1>5 DEF Consume
  <2>2. CASE ~Consumable(request[r].id, request[r].session, request[r].command)
    <3>1. HoldersStay(Requests)
      <4>1. PICK v \in BOOLEAN : v = request[r].valid
        BY <1>5 DEF Consume, At, GatewayTypeOK, RequestRow
      <4>2. request' = Finished(r) \/ request' = InPhase(r, "reissue", v)
        BY <1>5, <2>2, <4>1 DEF Consume
      <4>3. request[r] # None
        BY <1>5 DEF Consume, At
      <4>4. CASE request' = Finished(r)
        BY <4>4, FinishedRows DEF HoldersStay, HoldsSpent
      <4>5. CASE request' = InPhase(r, "reissue", v)
        BY <4>3, <4>5, PhaseRows DEF HoldersStay, HoldsSpent
      <4> QED
        BY <4>2, <4>4, <4>5
    <3> QED
      BY <1>1, <1>5, <2>1, <2>2, <3>1, QuietStep DEF Consume
  <2>3. CASE Consumable(request[r].id, request[r].session, request[r].command)
    <3>0. request[r] # None
      BY <1>5 DEF Consume, At
    <3>1. PICK c \in StrongIds : c = request[r].id
      BY <1>5, <2>3, SpendRows
    <3>2. /\ strong[c].session = request[r].session
          /\ strong[c].command = request[r].command
          /\ ~strong[c].consumed
          /\ \A d \in StrongIds : d # c => strong'[d] = strong[d]
          /\ strong'[c] # None /\ strong'[c].verified /\ strong'[c].consumed
          /\ strong'[c].session = strong[c].session
          /\ strong'[c].command = strong[c].command
          /\ request' = Advanced(r)
      BY <1>5, <2>3, <3>1, SpendRows
    <3>3. executed[c] = 0
      <4>1. executed[c] \in Nat
        BY DEF GatewayTypeOK
      <4>2. ~(executed[c] > 0)
        BY <3>2 DEF SpendInv, ExecutedWasSpent
      <4> QED
        BY <4>1, <4>2
    <3>4. \A q \in Requests : HoldsSpent(q) => request[q].id # c
      BY <3>2 DEF SpendInv, ExecutesWhatWasSigned
    <3>5. /\ \A q \in Requests : q # r => request'[q] = request[q]
          /\ request'[r] # None => /\ request'[r].id = c
                                   /\ request'[r].session = request[r].session
                                   /\ request'[r].command = request[r].command
      BY <3>0, <3>1, <3>2, AdvancedRows
    <3>6. ExecutesWhatWasSigned'
      <4> SUFFICES ASSUME NEW q \in Requests, HoldsSpent(q)'
                   PROVE  LET d == request'[q].id IN
                          /\ d # None /\ strong'[d] # None
                          /\ strong'[d].verified /\ strong'[d].consumed
                          /\ strong'[d].session = request'[q].session
                          /\ strong'[d].command = request'[q].command
                          /\ executed'[d] = 0
                          /\ \A p \in Requests : HoldsSpent(p)' /\ request'[p].id = d => p = q
        BY DEF ExecutesWhatWasSigned
      <4>1. c # None
        BY StrongAssumption
      <4>2. CASE q = r
        <5>1. request'[r].id = c /\ request'[r] # None
          BY <3>5, <4>2 DEF HoldsSpent
        <5>2. \A p \in Requests : HoldsSpent(p)' /\ request'[p].id = c => p = r
          BY <3>4, <3>5 DEF HoldsSpent
        <5> QED
          BY <2>1, <3>2, <3>3, <3>5, <4>1, <4>2, <5>1, <5>2
      <4>3. CASE q # r
        <5>1. HoldsSpent(q) /\ request'[q] = request[q]
          BY <3>5, <4>3 DEF HoldsSpent
        <5>2. PICK d \in StrongIds : d = request[q].id
          BY <5>1 DEF HoldsSpent, GatewayTypeOK, RequestRow, SpendInv, ExecutesWhatWasSigned
        <5>3. /\ d # None /\ strong[d] # None /\ strong[d].verified /\ strong[d].consumed
              /\ strong[d].session = request[q].session
              /\ strong[d].command = request[q].command
              /\ executed[d] = 0
              /\ \A p \in Requests : HoldsSpent(p) /\ request[p].id = d => p = q
          BY <5>1, <5>2 DEF SpendInv, ExecutesWhatWasSigned
        <5>4. d # c /\ strong'[d] = strong[d]
          BY <3>2, <3>4, <5>1, <5>2
        <5>5. \A p \in Requests : HoldsSpent(p)' /\ request'[p].id = d => p = q
          BY <3>5, <5>3, <5>4 DEF HoldsSpent
        <5> QED
          BY <2>1, <5>1, <5>2, <5>3, <5>4, <5>5
      <4> QED
        BY <4>2, <4>3
    <3>7. ExecutedWasSpent'
      BY <2>1, <3>2 DEF SpendInv, ExecutedWasSpent
    <3>8. ApprovalSpentOnce'
      BY <2>1 DEF SpendInv, ApprovalSpentOnce
    <3> QED
      BY <3>6, <3>7, <3>8 DEF SpendInv
  <2> QED
    BY <2>2, <2>3
<1>6. ASSUME NEW r \in Requests, Execute(r) PROVE SpendInv'
  <2>0. request[r] # None /\ Program[request[r].kind][request[r].step] = "execute"
    BY <1>6 DEF Execute, At
  <2>1. request[r].kind \in {"home", "chat"} /\ request[r].step = 4
    BY <2>0, Positions
  <2>2. HoldsSpent(r)
    BY <2>0, <2>1 DEF HoldsSpent
  <2>3. PICK c \in StrongIds : c = request[r].id
    BY <2>0, <2>2 DEF GatewayTypeOK, RequestRow, SpendInv, ExecutesWhatWasSigned
  <2>4. /\ strong[c] # None /\ strong[c].verified /\ strong[c].consumed
        /\ executed[c] = 0
        /\ \A q \in Requests : HoldsSpent(q) /\ request[q].id = c => q = r
    BY <2>2, <2>3 DEF SpendInv, ExecutesWhatWasSigned
  <2>5. /\ strong' = strong /\ request' = Advanced(r)
        /\ executed'[c] = 1
        /\ \A d \in StrongIds : d # c => executed'[d] = executed[d]
    BY <1>6, <2>3, <2>4 DEF Execute, GatewayTypeOK
  <2>6. /\ \A q \in Requests : q # r => request'[q] = request[q]
        /\ request'[r] # None => request'[r].step = 5
    <3>1. request'[r] # None => request'[r].step = request[r].step + 1
      BY <2>0, <2>5, AdvancedRows
    <3> QED
      BY <2>0, <2>1, <2>5, <3>1, AdvancedRows
  <2>7. ExecutesWhatWasSigned'
    <3> SUFFICES ASSUME NEW q \in Requests, HoldsSpent(q)'
                 PROVE  LET d == request'[q].id IN
                        /\ d # None /\ strong'[d] # None
                        /\ strong'[d].verified /\ strong'[d].consumed
                        /\ strong'[d].session = request'[q].session
                        /\ strong'[d].command = request'[q].command
                        /\ executed'[d] = 0
                        /\ \A p \in Requests : HoldsSpent(p)' /\ request'[p].id = d => p = q
      BY DEF ExecutesWhatWasSigned
    <3>1. q # r /\ \A p \in Requests : HoldsSpent(p)' => p # r
      BY <2>6 DEF HoldsSpent
    <3>2. HoldsSpent(q) /\ request'[q] = request[q]
      BY <2>6, <3>1 DEF HoldsSpent
    <3>3. PICK d \in StrongIds : d = request[q].id
      BY <3>2 DEF HoldsSpent, GatewayTypeOK, RequestRow, SpendInv, ExecutesWhatWasSigned
    <3>4. /\ d # None /\ strong[d] # None /\ strong[d].verified /\ strong[d].consumed
          /\ strong[d].session = request[q].session
          /\ strong[d].command = request[q].command
          /\ executed[d] = 0
          /\ \A p \in Requests : HoldsSpent(p) /\ request[p].id = d => p = q
      BY <3>2, <3>3 DEF SpendInv, ExecutesWhatWasSigned
    <3>5. d # c
      BY <2>4, <3>1, <3>2, <3>3
    <3>6. \A p \in Requests : HoldsSpent(p)' /\ request'[p].id = d => p = q
      BY <2>6, <3>1, <3>4 DEF HoldsSpent
    <3> QED
      BY <2>5, <3>2, <3>3, <3>4, <3>5, <3>6
  <2>8. ExecutedWasSpent'
    BY <2>4, <2>5 DEF SpendInv, ExecutedWasSpent
  <2>9. ApprovalSpentOnce'
    BY <2>5 DEF SpendInv, ApprovalSpentOnce
  <2> QED
    BY <2>7, <2>8, <2>9 DEF SpendInv
<1> QED
  BY <1>2, <1>3, <1>4, <1>5, <1>6 DEF GatewayNext, OtherRoutes, allVars, gatewayVars

-----------------------------------------------------------------------------
(* The theorems.                                                             *)

(* The inductive invariant of the gateway.                                   *)
GatewayInv == GatewayTypeOK /\ IInv /\ RequestsHaveSessions /\ SpendInv

(* The empty gateway satisfies the invariant.                                *)
LEMMA GatewayInitInv == GatewayInit => GatewayInv
<1> SUFFICES ASSUME GatewayInit PROVE GatewayInv
  OBVIOUS
<1>1. IInv /\ TypeOK
  BY InitInv DEF GatewayInit, IInv
<1>2. \A r \in Requests : request[r] = None
  BY DEF GatewayInit
<1>3. GatewayTypeOK
  BY <1>1 DEF GatewayInit, GatewayTypeOK
<1>4. SpendInv
  BY <1>2 DEF GatewayInit, SpendInv, ExecutesWhatWasSigned, HoldsSpent, ExecutedWasSpent,
              ApprovalSpentOnce
<1> QED
  BY <1>1, <1>2, <1>3, <1>4 DEF GatewayInv, RequestsHaveSessions

(* Every step keeps it.                                                      *)
LEMMA GatewayStepInv == GatewayInv /\ [GatewayNext]_allVars => GatewayInv'
BY StoreStep, StepInv, GatewayTypeStep, SessionsStayStep, SpendStep DEF GatewayInv

(* Every reachable state of the gateway satisfies the whole invariant.       *)
THEOREM GatewayInvariance == GatewaySpec => []GatewayInv
BY GatewayInitInv, GatewayStepInv, PTL DEF GatewaySpec

(* The threads of the gateway, however they interleave, change the tables    *)
(* only as the transactions of MobileStore do.                               *)
THEOREM GatewayKeepsToTransactions == GatewaySpec => StoreStepsOnly
<1>1. GatewayInv /\ [GatewayNext]_allVars => [Next]_vars
  BY StoreStep DEF GatewayInv
<1> QED
  BY <1>1, GatewayInvariance, PTL DEF GatewaySpec, StoreStepsOnly

(* The gateway implements the tables' specification, so that every theorem   *)
(* of MobileStore_proofs holds of it.                                        *)
THEOREM GatewayImplementsStore == GatewaySpec => Spec
<1>1. GatewayInit => Init
  BY DEF GatewayInit
<1> QED
  BY <1>1, GatewayKeepsToTransactions, PTL DEF GatewaySpec, StoreStepsOnly, Spec

(* The house acts at most once on one proof of presence, for any number of   *)
(* concurrent requests that present it.                                      *)
THEOREM OneProofOneAction == GatewaySpec => []ApprovalSpentOnce
<1>1. GatewayInv => ApprovalSpentOnce
  BY DEF GatewayInv, SpendInv
<1> QED
  BY <1>1, GatewayInvariance, PTL

(* The action executed is the one the phone signed, in the session it signed *)
(* it in, and the approval is in no other thread's hands.                    *)
THEOREM SignedIsExecuted == GatewaySpec => []ExecutesWhatWasSigned
<1>1. GatewayInv => ExecutesWhatWasSigned
  BY DEF GatewayInv, SpendInv
<1> QED
  BY <1>1, GatewayInvariance, PTL

-----------------------------------------------------------------------------
(* Loading a principal takes effect at one instant.                          *)

(* A paired session names a version of its device's grant that exists.       *)
SessionsNameGrants ==
    \A s \in SessionIds : session[s] # None /\ ~IsBootstrap(s) =>
        session[s].version \in DOMAIN grant[session[s].key]

(* Grants are only ever added to.                                            *)
LEMMA GrantsGrow ==
    ASSUME TypeOK, [Next]_vars, NEW k \in Keys
    PROVE  DOMAIN grant[k] \subseteq DOMAIN grant'[k]
<1>1. CASE device' = device /\ grant' = grant
  BY <1>1
<1>2. ASSUME NEW p \in PairIds, NEW days \in 1..GrantTTL, Approve(p, days)
      PROVE  DOMAIN grant[k] \subseteq DOMAIN grant'[k]
  <2>1. CASE k = pairing[p].key
    <3>1. PICK n \in Nat : n = Len(grant[k])
      BY <1>2, <2>1, ApproveRows
    <3>2. DOMAIN grant[k] = 1..n /\ DOMAIN grant'[k] = 1..(n + 1)
      BY <1>2, <2>1, <3>1, ApproveRows
    <3> QED
      BY <3>2
  <2>2. CASE k # pairing[p].key
    BY <1>2, <2>2, ApproveRows
  <2> QED
    BY <2>1, <2>2
<1>3. ASSUME NEW x \in Keys, RevokeDevice(x)
      PROVE  DOMAIN grant[k] \subseteq DOMAIN grant'[k]
  BY <1>3, RevokeDeviceRows
<1> QED
  BY <1>1, <1>2, <1>3, PairShapes DEF PairShape

(* A new session is a password session, or one that an activation bound to   *)
(* an active grant.                                                          *)
LEMMA NamedGrantStep ==
    ASSUME TypeOK, SessionsNameGrants, [Next]_vars
    PROVE  SessionsNameGrants'
<1> SUFFICES ASSUME NEW x \in SessionIds, session'[x] # None, session'[x].key # None
             PROVE  session'[x].version \in DOMAIN grant'[session'[x].key]
  BY DEF SessionsNameGrants, IsBootstrap
<1> SUFFICES session'[x].key \in Keys
             /\ session'[x].version \in DOMAIN grant[session'[x].key]
  BY GrantsGrow
<1>1. CASE session[x] # None
  <2>1. session[x].key \in Keys \cup {None}
    BY <1>1 DEF TypeOK, SessionRow
  <2> QED
    BY <1>1, <2>1, SessionsOnlyAge DEF SessionsNameGrants, IsBootstrap
<1>2. CASE session[x] = None
  <2>1. ~(session' = session)
    BY <1>2
  <2>2. ASSUME NEW S \in SUBSET SessionIds, session' = SessionsRevoked(S) PROVE FALSE
    BY <1>2, <2>2, RevokedRows
  <2>3. ASSUME NEW u \in Users, NEW s \in SessionIds, NEW t \in TokenIds,
               CreateSession(u, s, t)
        PROVE  FALSE
    <3>1. NewSession(u, None, 0).key = None
      BY DEF NewSession
    <3> QED
      BY <1>2, <2>3, <3>1, CreateRows
  <2>4. ASSUME NEW t \in TokenIds, NEW new \in TokenIds, Rotate(t, new) PROVE FALSE
    BY <1>2, <2>4, RotateRows
  <2>5. ASSUME NEW c \in ChallengeIds, NEW b \in SessionIds, NEW s \in SessionIds,
               NEW t \in TokenIds, ActivateDeviceSession(c, b, s, t)
        PROVE  session'[x].key \in Keys
               /\ session'[x].version \in DOMAIN grant[session'[x].key]
    <3>1. x = s /\ session'[x] = Activated(c, b)
      BY <1>2, <2>5, ActivateRows
    <3>2. session'[x].key = challenge[c].key /\ session'[x].version = challenge[c].version
      BY <3>1 DEF Activated, NewSession
    <3>3. /\ GrantActive(session[b].user, challenge[c].key, challenge[c].version)
          /\ challenge[c] # None
      BY <2>5 DEF ActivateDeviceSession, Activatable
    <3>4. challenge[c].key \in Keys
      BY <3>3 DEF TypeOK, ChallengeRow
    <3> QED
      BY <3>2, <3>3, <3>4 DEF GrantActive
  <2> QED
    BY <2>1, <2>2, <2>3, <2>4, <2>5, AuthShapes DEF AuthShape
<1> QED
  BY <1>1, <1>2

(* A grant that does not authorize a session never will again: a session is  *)
(* bound to one version, and versions are superseded, revoked and expire.    *)
LEMMA GrantLossIsFinal ==
    ASSUME TypeOK, SessionsNameGrants, [Next]_vars,
           NEW s \in SessionIds, session[s] # None, SessionGrantValid(s)'
    PROVE  SessionGrantValid(s)
<1> SUFFICES ASSUME session[s].key # None
             PROVE  GrantActive(session[s].user, session[s].key, session[s].version)
  BY DEF SessionGrantValid, IsBootstrap
<1>1. PICK k \in Keys : k = session[s].key
  BY DEF TypeOK, SessionRow
<1>2. PICK v \in DOMAIN grant[k] : v = session[s].version
  BY <1>1 DEF SessionsNameGrants, IsBootstrap
<1>3. PICK u : u = session[s].user
  OBVIOUS
<1>4. session'[s].key = k /\ session'[s].version = v /\ session'[s].user = u
  BY <1>1, <1>2, <1>3, SessionsOnlyAge
<1>5. /\ device'[k] # None /\ v \in DOMAIN grant'[k]
      /\ ~device'[k].revoked /\ ~grant'[k][v].revoked
      /\ device'[k].user = u /\ grant'[k][v].user = u
      /\ v = Len(grant'[k]) /\ now' < grant'[k][v].expires
  BY <1>1, <1>4 DEF SessionGrantValid, IsBootstrap, GrantActive
<1>6. CASE device'[k] = device[k] /\ grant'[k] = grant[k]
  <2>1. grant[k][v].expires \in Nat
    <3>1. grant[k] \in Seq(GrantRow)
      BY DEF TypeOK
    <3>2. grant[k][v] \in GrantRow
      BY <3>1
    <3> QED
      BY <3>2 DEF GrantRow
  <2>2. now < grant[k][v].expires
    BY <1>5, <1>6, <2>1, ClockStep
  <2> QED
    BY <1>1, <1>2, <1>3, <1>5, <1>6, <2>2 DEF GrantActive
<1>7. ASSUME NEW p \in PairIds, NEW days \in 1..GrantTTL, Approve(p, days),
             k = pairing[p].key
      PROVE  FALSE
  <2>1. PICK n \in Nat : n = Len(grant[k])
    BY <1>7, ApproveRows
  <2>2. DOMAIN grant[k] = 1..n /\ Len(grant'[k]) = n + 1
    BY <1>7, <2>1, ApproveRows
  <2> QED
    BY <1>2, <1>5, <2>1, <2>2
<1>8. ASSUME RevokeDevice(k) PROVE FALSE
  BY <1>5, <1>8, RevokeDeviceRows
<1>9. CASE device' = device /\ grant' = grant
  BY <1>6, <1>9
<1>10. ASSUME NEW p \in PairIds, NEW days \in 1..GrantTTL, Approve(p, days),
              k # pairing[p].key
       PROVE  device'[k] = device[k] /\ grant'[k] = grant[k]
  BY <1>10, ApproveRows
<1>11. ASSUME NEW x \in Keys, RevokeDevice(x), k # x
       PROVE  device'[k] = device[k] /\ grant'[k] = grant[k]
  BY <1>11, RevokeDeviceRows
<1> QED
  BY <1>6, <1>7, <1>8, <1>9, <1>10, <1>11, PairShapes DEF PairShape

(* Users are disabled for good.                                              *)
LEMMA ActiveShrinks ==
    ASSUME [Next]_vars
    PROVE  active' \subseteq active
<1>1. CASE SessionStep
  BY <1>1 DEF SessionStep, CreateSession, RevokeSession, RevokeAllSessionsForUser,
              Revoke, envVars
<1>2. CASE ActivationStep
  BY <1>2 DEF ActivationStep, CreateDeviceSessionChallenge, ActivateDeviceSession, envVars
<1>3. CASE RefreshStep
  BY <1>3 DEF RefreshStep, RotateReused, RotateGrantInvalid, RotateUserInactive,
              Rotate, Revoke, envVars
<1>4. CASE PairingStep
  BY <1>4 DEF PairingStep, CreateChallenge, SubmitProof, Approve, Deny, RevokeDevice, envVars
<1> QED
  BY <1>1, <1>2, <1>3, <1>4
     DEF Next, EnvironmentStep, Tick, DisableUser, ChangeTransport, vars, envVars

(* A thread between the two reads was fully authorized at the first if the   *)
(* second can still succeed.                                                 *)
HalfLoaded(r) ==
    At(r, "load", "read")
    /\ SessionGrantValid(request[r].session)
    /\ session[request[r].session].user \in active
    => request[r].valid

(* A thread past its load was fully authorized when the load began.          *)
Loaded(r) ==
    request[r] # None /\ request[r].phase # "revoke" /\ ~At(r, "load", "read")
    /\ request[r].step > 1 => request[r].valid

LoadInv == SessionsNameGrants /\ \A r \in Requests : HalfLoaded(r) /\ Loaded(r)

(* What happens between two steps of a thread takes nothing from it.         *)
LEMMA IdleLoad ==
    ASSUME GatewayTypeOK, RequestsHaveSessions, LoadInv, [Next]_vars,
           NEW r \in Requests, request'[r] = request[r]
    PROVE  HalfLoaded(r)' /\ Loaded(r)'
<1>1. Loaded(r)'
  BY DEF LoadInv, Loaded, At
<1>2. HalfLoaded(r)'
  <2> SUFFICES ASSUME At(r, "load", "read"),
                      SessionGrantValid(request[r].session)',
                      session'[request[r].session].user \in active'
               PROVE  request[r].valid
    BY DEF HalfLoaded, At
  <2>1. PICK s \in SessionIds : s = request[r].session
    BY DEF At, GatewayTypeOK, RequestRow
  <2>2. session[s] # None
    BY <2>1 DEF At, RequestsHaveSessions
  <2>3. SessionGrantValid(s)'
    BY <2>1 DEF SessionGrantValid, IsBootstrap, GrantActive
  <2>4. SessionGrantValid(s)
    BY <2>2, <2>3, GrantLossIsFinal DEF LoadInv, GatewayTypeOK
  <2>5. session[s].user \in active
    BY <2>1, <2>2, SessionsOnlyAge, ActiveShrinks DEF GatewayTypeOK
  <2> QED
    BY <2>1, <2>4, <2>5 DEF LoadInv, HalfLoaded
<1> QED
  BY <1>1, <1>2

(* What the operations themselves do to a load.                              *)
LEMMA BusyLoad ==
    ASSUME GatewayTypeOK, RequestsHaveSessions, LoadInv, [Next]_vars,
           NEW r \in Requests, RequestStep(r)
    PROVE  HalfLoaded(r)' /\ Loaded(r)'
<1>1. request[r] # None /\ request[r] \in RequestRow
  BY DEF RequestStep, ReadSession, ReadGrant, RevokeInvalid, Issue, IssueRefused,
         Verify, Consume, Execute, At, GatewayTypeOK
<1>2. PICK v \in BOOLEAN : v = request[r].valid
  BY <1>1 DEF RequestRow
<1>3. ASSUME request' = Finished(r) PROVE HalfLoaded(r)' /\ Loaded(r)'
  BY <1>3, FinishedRows DEF HalfLoaded, Loaded, At
<1>4. ASSUME request' = Advanced(r), v = TRUE PROVE HalfLoaded(r)' /\ Loaded(r)'
  BY <1>1, <1>2, <1>4, AdvancedRows DEF HalfLoaded, Loaded, At
<1>5. CASE ReadSession(r)
  <2>1. PICK s \in SessionIds : s = request[r].session
    BY <1>1 DEF RequestRow
  <2>2. PICK w \in BOOLEAN : w = FullyAuthorized(s)
    BY DEF FullyAuthorized
  <2>3. CASE request' = InPhase(r, "read", w) /\ SessionActive(s)
    <3>1. /\ request'[r] # None /\ request'[r].phase = "read"
          /\ request'[r].session = s /\ request'[r].valid = w
          /\ request'[r].kind = request[r].kind /\ request'[r].step = request[r].step
      BY <1>1, <2>1, <2>3, PhaseRows
    <3>2. Program[request[r].kind][request[r].step] = "load"
      BY <1>5 DEF ReadSession, At
    <3>3. At(r, "load", "read")'
      BY <3>1, <3>2 DEF At
    <3>4. ASSUME SessionGrantValid(s)', session'[s].user \in active' PROVE w = TRUE
      <4>1. SessionGrantValid(s) /\ session[s].user \in active
        BY <1>5, <3>4 DEF ReadSession, vars, authVars, pairVars, envVars,
                          SessionGrantValid, IsBootstrap, GrantActive
      <4> QED
        BY <2>2, <2>3, <4>1 DEF FullyAuthorized
    <3>5. HalfLoaded(r)'
      BY <3>1, <3>4 DEF HalfLoaded, SessionGrantValid, IsBootstrap, GrantActive
    <3>6. Loaded(r)'
      BY <3>3 DEF Loaded
    <3> QED
      BY <3>5, <3>6
  <2>4. CASE request' = Finished(r)
    BY <1>3, <2>4
  <2> QED
    BY <1>5, <2>1, <2>2, <2>3, <2>4 DEF ReadSession
<1>6. CASE ReadGrant(r)
  <2>1. CASE request' = InPhase(r, "revoke", v)
    BY <1>1, <2>1, PhaseRows DEF HalfLoaded, Loaded, At
  <2>2. CASE request' = Finished(r)
    BY <1>3, <2>2
  <2>3. CASE /\ request' = Advanced(r)
             /\ SessionGrantValid(request[r].session)
             /\ session[request[r].session].user \in active
    <3>1. v = TRUE
      BY <1>2, <1>6, <2>3 DEF ReadGrant, LoadInv, HalfLoaded
    <3> QED
      BY <1>4, <2>3, <3>1
  <2> QED
    BY <1>2, <1>6, <2>1, <2>2, <2>3 DEF ReadGrant
<1>7. CASE RevokeInvalid(r) \/ (\E c \in StrongIds : Issue(r, c)) \/ IssueRefused(r)
           \/ Verify(r)
  BY <1>3, <1>7 DEF RevokeInvalid, Issue, IssueRefused, Verify
<1>8. CASE Consume(r) \/ Execute(r)
  <2>0. /\ Program[request[r].kind][request[r].step] \in {"consume", "execute"}
        /\ request[r].phase = "start"
    BY <1>8 DEF Consume, Execute, At
  <2>1. request[r].step > 1
    <3>1. request[r].step \in {2, 3, 4}
      BY <1>1, <2>0, Positions
    <3> QED
      BY <3>1
  <2>2. v = TRUE
    BY <1>1, <1>2, <2>0, <2>1 DEF LoadInv, Loaded, At
  <2>3. CASE request' = InPhase(r, "reissue", v)
    BY <1>1, <2>2, <2>3, PhaseRows DEF HalfLoaded, Loaded, At
  <2> QED
    BY <1>2, <1>3, <1>4, <1>8, <2>2, <2>3 DEF Consume, Execute
<1> QED
  BY <1>5, <1>6, <1>7, <1>8 DEF RequestStep

(* Every step keeps the loading invariant.                                   *)
LEMMA LoadStep ==
    ASSUME GatewayTypeOK, RequestsHaveSessions, LoadInv, [GatewayNext]_allVars
    PROVE  LoadInv'
<1>0. [Next]_vars
  BY StoreStep
<1>1. SessionsNameGrants'
  BY <1>0, NamedGrantStep DEF LoadInv, GatewayTypeOK
<1>2. ASSUME NEW q \in Requests PROVE HalfLoaded(q)' /\ Loaded(q)'
  <2>1. CASE request'[q] = request[q]
    BY <1>0, <2>1, IdleLoad
  <2>2. ASSUME NEW r \in Requests, RequestStep(r) PROVE HalfLoaded(q)' /\ Loaded(q)'
    <3>1. CASE r = q
      BY <1>0, <2>2, <3>1, BusyLoad
    <3>2. CASE r # q
      BY <2>1, <2>2, <3>2, StepMoves DEF Moves
    <3> QED
      BY <3>1, <3>2
  <2>3. CASE Arrival
    <3>1. PICK r \in Requests, kind \in Kinds, s \in SessionIds,
               c \in StrongIds \cup {None}, a \in Commands \cup {None} :
               Arrive(r, kind, s, c, a)
      BY <2>3 DEF Arrival
    <3>2. CASE r = q
      <4>1. request'[q].step = 1 /\ request'[q].phase = "start"
        BY <3>1, <3>2, ArrivalRows
      <4> QED
        BY <4>1 DEF HalfLoaded, Loaded, At
    <3>3. CASE r # q
      BY <2>1, <3>1, <3>3, ArrivalRows
    <3> QED
      BY <3>2, <3>3
  <2> QED
    BY <2>1, <2>2, <2>3 DEF GatewayNext, OtherRoutes, gatewayVars, allVars
<1> QED
  BY <1>1, <1>2 DEF LoadInv

(* No revocation, supersession or expiry that was complete when a load began *)
(* is missed by it, although it reads three tables on three connections.     *)
THEOREM LoadsTakeEffectAtOnce == GatewaySpec => []LoadsAreAtomic
<1>1. GatewayInit => LoadInv
  BY DEF GatewayInit, Init, LoadInv, SessionsNameGrants, HalfLoaded, Loaded, At
<1>2. GatewayInv /\ LoadInv /\ [GatewayNext]_allVars => LoadInv'
  BY LoadStep DEF GatewayInv
<1>3. LoadInv => LoadsAreAtomic
  BY DEF LoadInv, Loaded, LoadsAreAtomic
<1> QED
  BY <1>1, <1>2, <1>3, GatewayInvariance, PTL DEF GatewaySpec

=============================================================================

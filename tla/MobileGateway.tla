---------------------------- MODULE MobileGateway ----------------------------
(****************************************************************************)
(* Request threads of the mobile gateway over the tables of MobileStore.    *)
(* One HTTP request runs several transactions, and other requests, the      *)
(* owner at the desktop and the clock run between them:                     *)
(*                                                                          *)
(*   rex/mobile_api/auth.py            _load_principal_for_session reads    *)
(*       the session on one connection and the user and grant on another,   *)
(*       and revokes the session on a third when the grant is not active;   *)
(*   rex/mobile_api/strong_auth.py     challenge, proof, one-time approval; *)
(*   rex/mobile_api/routes/home.py     POST /mobile/home/command;           *)
(*   rex/mobile_api/action_context.py  a privileged tool called by a chat.  *)
(*                                                                          *)
(* A request is a program: a sequence of operations, each one transaction   *)
(* except "load", the loading or revalidation of a principal.  All other    *)
(* routes are transactions of MobileStore behind the same "load"; they are  *)
(* the disjunct OtherRoutes.                                                *)
(*                                                                          *)
(* Abstractions.  Rows of mobile_strong_auth_challenges name a session and  *)
(* the user, device and grant of its principal; a session never changes     *)
(* these (SessionsOnlyAge in MobileStore_proofs), so a row keeps the        *)
(* session only, and the branches of revalidate_principal that compare the  *)
(* two bindings cannot be taken.  Scopes and permissions are not modelled.  *)
(* A challenge and the approval it yields are one row, under one identifier.*)
(****************************************************************************)
EXTENDS MobileStore

CONSTANTS
    Requests,       \* request threads
    StrongIds,      \* rows of mobile_strong_auth_challenges
    Commands,       \* canonical actions, as their action_hash
    StrongTTL,      \* CHALLENGE_TTL_SECONDS of strong_auth.py
    ApprovalTTL     \* APPROVAL_TTL_SECONDS

Kinds == {"challenge", "verify", "home", "chat"}

StrongRow == [session: SessionIds, command: Commands, expires: Nat,
              verified: BOOLEAN, approvalExpires: Nat, consumed: BOOLEAN]
RequestRow == [kind: Kinds, session: SessionIds, id: StrongIds \cup {None},
               command: Commands \cup {None}, step: 1..5,
               phase: {"start", "read", "revoke", "reissue"}, valid: BOOLEAN]

ASSUME StrongAssumption ==
    /\ StrongTTL \in Nat \ {0} /\ ApprovalTTL \in Nat \ {0}
    /\ None \notin StrongIds \cup Commands \cup StrongRow \cup RequestRow

VARIABLES
    strong,     \* mobile_strong_auth_challenges
    request,    \* the threads; None is a thread that serves nobody
    executed    \* how often each approval made the house do something (ghost)

gatewayVars == <<strong, request, executed>>
allVars == <<vars, gatewayVars>>

\* What the handler of each kind of request does, in order.
Program ==
    [challenge |-> <<"load", "issue">>,
     verify    |-> <<"load", "verify">>,
     home      |-> <<"load", "consume", "load", "execute", "load">>,
     chat      |-> <<"load", "load", "consume", "execute", "load">>]

GatewayTypeOK ==
    /\ TypeOK
    /\ strong \in [StrongIds -> StrongRow \cup {None}]
    /\ request \in [Requests -> RequestRow \cup {None}]
    /\ \A r \in Requests : request[r] # None =>
         /\ request[r].step \in DOMAIN Program[request[r].kind]
         /\ request[r].command = None <=> request[r].kind = "verify"
    /\ executed \in [StrongIds -> Nat]

GatewayInit ==
    /\ Init
    /\ strong = [c \in StrongIds |-> None]
    /\ request = [r \in Requests |-> None]
    /\ executed = [c \in StrongIds |-> 0]

-----------------------------------------------------------------------------
(* Control of a thread.                                                     *)

\* Thread r is about to do op, and has got as far as phase in it.
At(r, op, phase) ==
    /\ request[r] # None
    /\ Program[request[r].kind][request[r].step] = op
    /\ request[r].phase = phase

\* The handler raises or returns: the thread is free.
Finished(r) == [request EXCEPT ![r] = None]

\* The handler goes on to the next transaction of the same operation.
InPhase(r, phase, valid) ==
    [request EXCEPT ![r].phase = phase, ![r].valid = valid]

\* The handler goes on to its next operation, or responds after the last.
Advanced(r) ==
    IF request[r].step = Len(Program[request[r].kind]) THEN Finished(r)
    ELSE [request EXCEPT ![r].step = @ + 1, ![r].phase = "start"]

\* A client sends a request with the access token of session s.  The ids it
\* may present are any it was ever told, for its own session or another.
Arrive(r, kind, s, c, a) ==
    /\ request[r] = None /\ session[s] # None
    /\ kind = "challenge" => c = None
    /\ kind \in {"verify", "home"} => c # None
    /\ kind = "verify" <=> a = None
    /\ request' = [request EXCEPT ![r] =
            [kind |-> kind, session |-> s, id |-> c, command |-> a,
             step |-> 1, phase |-> "start", valid |-> FALSE]]
    /\ UNCHANGED <<vars, strong, executed>>

-----------------------------------------------------------------------------
(* _load_principal_for_session                                              *)

\* Everything the gateway asks of a request, at one instant.
FullyAuthorized(s) ==
    SessionActive(s) /\ SessionGrantValid(s) /\ session[s].user \in active

\* Mutant: the session row is not checked again when a principal is reloaded.
ReadSessionOnce(r) ==
    /\ At(r, "load", "start")
    /\ request' = IF SessionActive(request[r].session) \/ request[r].step > 1
                  THEN InPhase(r, "read", FullyAuthorized(request[r].session))
                  ELSE Finished(r)
    /\ UNCHANGED <<vars, strong, executed>>

\* get_session.  valid records whether all three conditions hold right now.
ReadSession(r) ==
    /\ At(r, "load", "start")
    /\ request' = IF SessionActive(request[r].session)
                  THEN InPhase(r, "read", FullyAuthorized(request[r].session))
                  ELSE Finished(r)
    /\ UNCHANGED <<vars, strong, executed>>

\* get_user and resolve_session_grant, of a session that was active before.
ReadGrant(r) ==
    /\ At(r, "load", "read")
    /\ LET s == request[r].session IN
       request' =
         IF ~SessionGrantValid(s) THEN InPhase(r, "revoke", request[r].valid)
         ELSE IF session[s].user \in active THEN Advanced(r)
         ELSE Finished(r)
    /\ UNCHANGED <<vars, strong, executed>>

\* revoke_session(session_id, "device_grant_invalid")
RevokeInvalid(r) ==
    /\ At(r, "load", "revoke")
    /\ Revoke({request[r].session})
    /\ request' = Finished(r)
    /\ UNCHANGED <<strong, executed>>

-----------------------------------------------------------------------------
(* StrongAuthAuthority                                                      *)

\* _load_active_binding: unlike GrantActive, any version that is neither
\* revoked nor expired will do.
BindingActive(s) ==
    /\ ~IsBootstrap(s)
    /\ LET k == session[s].key
           v == session[s].version
       IN  /\ device[k] # None /\ ~device[k].revoked
           /\ device[k].user = session[s].user
           /\ ~grant[k][v].revoked /\ now < grant[k][v].expires

NewStrong(s, a) ==
    [session |-> s, command |-> a, expires |-> now + StrongTTL,
     verified |-> FALSE, approvalExpires |-> 0, consumed |-> FALSE]

\* create_challenge, from its own route or on behalf of a chat turn whose
\* approval was missing or refused; the request ends either way.
Issue(r, c) ==
    /\ At(r, "issue", "start") \/ At(r, "consume", "reissue")
    /\ BindingActive(request[r].session) /\ strong[c] = None
    /\ strong' = [strong EXCEPT ![c] = NewStrong(request[r].session, request[r].command)]
    /\ request' = Finished(r)
    /\ UNCHANGED <<vars, executed>>

IssueRefused(r) ==
    /\ At(r, "issue", "start") \/ At(r, "consume", "reissue")
    /\ ~BindingActive(request[r].session)
    /\ request' = Finished(r)
    /\ UNCHANGED <<vars, strong, executed>>

\* May session s answer challenge c now?
Verifiable(c, s) ==
    /\ strong[c] # None /\ strong[c].session = s
    /\ ~strong[c].verified /\ now < strong[c].expires
    /\ BindingActive(s)

\* verify_challenge
Verify(r) ==
    /\ At(r, "verify", "start")
    /\ LET c == request[r].id IN
         strong' = IF Verifiable(c, request[r].session)
                   THEN [strong EXCEPT ![c].verified = TRUE,
                                       ![c].approvalExpires = now + ApprovalTTL]
                   ELSE strong
    /\ request' = Finished(r)
    /\ UNCHANGED <<vars, executed>>

\* Mutants of Consumable: a spent approval, another session's approval and
\* the approval of another action are accepted.
ConsumableAgain(c, s, a) ==
    /\ c # None /\ strong[c] # None /\ strong[c].verified
    /\ strong[c].session = s
    /\ now < strong[c].approvalExpires
    /\ strong[c].command = a
    /\ BindingActive(s)

ConsumableForAnyAction(c, s, a) ==
    /\ c # None /\ strong[c] # None /\ strong[c].verified
    /\ strong[c].session = s
    /\ ~strong[c].consumed
    /\ now < strong[c].approvalExpires
    /\ BindingActive(s)

\* May approval c be spent by session s on action a now?
Consumable(c, s, a) ==
    /\ c # None /\ strong[c] # None /\ strong[c].verified
    /\ strong[c].session = s
    /\ ~strong[c].consumed
    /\ now < strong[c].approvalExpires
    /\ strong[c].command = a
    /\ BindingActive(s)

\* consume_approval; a chat turn answers a refusal with a new challenge.
Consume(r) ==
    /\ At(r, "consume", "start")
    /\ LET q == request[r] IN
         IF Consumable(q.id, q.session, q.command)
         THEN /\ strong' = [strong EXCEPT ![q.id].consumed = TRUE]
              /\ request' = Advanced(r)
         ELSE /\ UNCHANGED strong
              /\ request' = IF q.kind = "chat"
                            THEN InPhase(r, "reissue", q.valid)
                            ELSE Finished(r)
    /\ UNCHANGED <<vars, executed>>

\* The call to Home Assistant, with the second call that carries its
\* confirmation token; whatever its outcome, the request goes on.
Execute(r) ==
    /\ At(r, "execute", "start")
    /\ executed' = [executed EXCEPT ![request[r].id] = @ + 1]
    /\ request' = Advanced(r)
    /\ UNCHANGED <<vars, strong>>

-----------------------------------------------------------------------------
RequestStep(r) ==
    \/ ReadSession(r) \/ ReadGrant(r) \/ RevokeInvalid(r)
    \/ \E c \in StrongIds : Issue(r, c)
    \/ IssueRefused(r) \/ Verify(r) \/ Consume(r) \/ Execute(r)

Arrival ==
    \E r \in Requests, kind \in Kinds, s \in SessionIds,
       c \in StrongIds \cup {None}, a \in Commands \cup {None} :
         Arrive(r, kind, s, c, a)

\* The other routes, the owner at the desktop, and the clock.
OtherRoutes == Next /\ UNCHANGED gatewayVars

GatewayNext == OtherRoutes \/ Arrival \/ \E r \in Requests : RequestStep(r)

GatewaySpec == GatewayInit /\ [][GatewayNext]_allVars

-----------------------------------------------------------------------------
\* One proof of presence, one action: however many requests present the same
\* approval at once, and whatever is retried, the house acts at most once on
\* it (docs/mobile/STRONG_AUTH.md:35).
ApprovalSpentOnce == \A c \in StrongIds : executed[c] <= 1

\* What is executed is what the phone signed: a thread that spent an approval
\* and did not act yet holds one that was verified for this very session and
\* action, that nobody acted on, and that no other thread holds.
HoldsSpent(r) ==
    /\ request[r] # None
    /\ \/ request[r].kind = "home" /\ request[r].step \in {3, 4}
       \/ request[r].kind = "chat" /\ request[r].step = 4

ExecutesWhatWasSigned ==
    \A r \in Requests : HoldsSpent(r) =>
        LET c == request[r].id IN
        /\ c # None /\ strong[c] # None /\ strong[c].verified /\ strong[c].consumed
        /\ strong[c].session = request[r].session
        /\ strong[c].command = request[r].command
        /\ executed[c] = 0
        /\ \A q \in Requests : HoldsSpent(q) /\ request[q].id = c => q = r

\* Loading a principal takes effect at one instant.  Although session, grant
\* and user are read on different connections, a thread that is past its
\* load was fully authorized, by all three at once, when the load began: no
\* revocation, supersession or expiry that was complete by then is missed.
LoadsAreAtomic ==
    \A r \in Requests :
        request[r] # None /\ request[r].phase # "revoke" /\ ~At(r, "load", "read")
        /\ request[r].step > 1 => request[r].valid

\* Every step of a request is a step of the tables' own specification.
StoreStepsOnly == [][Next]_vars

=============================================================================

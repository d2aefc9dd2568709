----------------------------- MODULE MobileStore -----------------------------
(****************************************************************************)
(* The SQLite tables behind AskRex's mobile gateway and the transactions    *)
(* that change them: rex/mobile_api/sessions.py (sessions, refresh-token    *)
(* families, device-session challenges), rex/mobile_api/pairing.py (pairing *)
(* challenges and requests, paired devices, versioned grants) and the       *)
(* predicate of rex/mobile_api/authorization.py they share.                 *)
(*                                                                          *)
(* Every operation of the source opens one connection, runs BEGIN IMMEDIATE *)
(* ... COMMIT and rolls back on any exception, so an operation is one       *)
(* atomic action here and a refused operation is no step at all.  What      *)
(* happens between the transactions of one HTTP request is the business of  *)
(* module MobileGateway, whose steps are steps of this module.              *)
(*                                                                          *)
(* Abstractions.  A phone is its P-256 key: (desktop_id, key_thumbprint) is *)
(* UNIQUE, so device rows are indexed by key.  (device_id, version) is      *)
(* UNIQUE and versions are assigned MAX+1, so the grants of a device are a  *)
(* sequence indexed by version.  A pairing request exists exactly when its  *)
(* challenge is "submitted" (challenge_id is UNIQUE), so both are one row.  *)
(* A refresh-token family is created with its session and both are copied   *)
(* together, so the family of a token is its session.                       *)
(****************************************************************************)
EXTENDS Integers, Sequences

CONSTANTS
    Users,          \* rows of table users
    Keys,           \* device keys, one per phone
    Bindings,       \* transport identities (URL, certificate, SPKI pins)
    SessionIds, TokenIds, ChallengeIds, PairIds,    \* generated identifiers
    None,           \* SQL NULL and "no such row"
    RefreshTTL,     \* refresh_ttl_seconds, also the life of a session
    ChallengeTTL,   \* CHALLENGE_TTL_SECONDS, of both kinds of challenge
    GrantTTL,       \* GRANT_TTL_DAYS, the longest life of a grant
    MaxTime,        \* bound on the clock
    CheckTransport  \* FALSE for a loopback bind, which has no TLS binding

SessionRow == [user: Users, key: Keys \cup {None}, version: Nat,
               expires: Nat, revoked: BOOLEAN]
TokenRow == [session: SessionIds, expires: Nat,
             consumed: BOOLEAN, revoked: BOOLEAN]
ChallengeRow == [bootstrap: SessionIds, key: Keys, version: Nat,
                 expires: Nat, replacement: SessionIds \cup {None}]
PairRow == {r \in [user: Users, binding: Bindings, expires: Nat,
                   status: {"pending", "submitted", "approved", "denied"},
                   key: Keys \cup {None}, version: Nat] :
                r.key = None <=> r.status = "pending"}
DeviceRow == [user: Users, binding: Bindings, revoked: BOOLEAN]
GrantRow == [user: Users, binding: Bindings, expires: Nat, revoked: BOOLEAN]

ASSUME TimeAssumption ==
    /\ RefreshTTL \in Nat \ {0} /\ ChallengeTTL \in Nat \ {0}
    /\ GrantTTL \in Nat \ {0} /\ MaxTime \in Nat
    /\ CheckTransport \in BOOLEAN
ASSUME NoneAssumption ==
    None \notin Keys \cup SessionIds \cup SessionRow \cup TokenRow
                \cup ChallengeRow \cup PairRow \cup DeviceRow

VARIABLES
    now,        \* the injected clock
    binding,    \* transport binding of the running gateway
    active,     \* users whose disabled_at is NULL
    session,    \* mobile_sessions
    token,      \* mobile_refresh_tokens
    challenge,  \* mobile_device_session_challenges
    pairing,    \* mobile_pairing_challenges joined with ..._requests
    device,     \* mobile_paired_devices
    grant       \* mobile_device_grants: per device, indexed by version

authVars == <<session, token, challenge>>
pairVars == <<pairing, device, grant>>
envVars == <<now, binding, active>>
vars == <<authVars, pairVars, envVars>>

TypeOK ==
    /\ now \in 0..MaxTime
    /\ binding \in Bindings
    /\ active \subseteq Users
    /\ session \in [SessionIds -> SessionRow \cup {None}]
    /\ token \in [TokenIds -> TokenRow \cup {None}]
    /\ challenge \in [ChallengeIds -> ChallengeRow \cup {None}]
    /\ pairing \in [PairIds -> PairRow \cup {None}]
    /\ device \in [Keys -> DeviceRow \cup {None}]
    /\ grant \in [Keys -> Seq(GrantRow)]

Init ==
    /\ now = 0
    /\ binding \in Bindings
    /\ active = Users
    /\ session = [s \in SessionIds |-> None]
    /\ token = [t \in TokenIds |-> None]
    /\ challenge = [c \in ChallengeIds |-> None]
    /\ pairing = [p \in PairIds |-> None]
    /\ device = [k \in Keys |-> None]
    /\ grant = [k \in Keys |-> <<>>]

-----------------------------------------------------------------------------
(* Predicates the transactions share.                                       *)

\* load_active_grant: version v of the grant of device k still authorizes u.
GrantActive(u, k, v) ==
    /\ device[k] # None /\ v \in DOMAIN grant[k]
    /\ ~device[k].revoked /\ ~grant[k][v].revoked
    /\ device[k].user = u /\ grant[k][v].user = u
    /\ v = Len(grant[k])
    /\ now < grant[k][v].expires

\* session_is_active
SessionActive(s) ==
    session[s] # None /\ ~session[s].revoked /\ now < session[s].expires

\* A session made by password login: none of its binding columns is set.
IsBootstrap(s) == session[s].key = None

\* resolve_session_grant returns instead of raising.
SessionGrantValid(s) ==
    ~IsBootstrap(s) => GrantActive(session[s].user, session[s].key, session[s].version)

\* The token is the newest of its family and nothing has revoked it.
TokenLive(t) == token[t] # None /\ ~token[t].consumed /\ ~token[t].revoked

NewToken(s) ==
    [session |-> s, expires |-> now + RefreshTTL,
     consumed |-> FALSE, revoked |-> FALSE]

NewSession(u, k, v) ==
    [user |-> u, key |-> k, version |-> v,
     expires |-> now + RefreshTTL, revoked |-> FALSE]

\* The sessions after the UPDATE that revokes those in S.
SessionsRevoked(S) ==
    [s \in SessionIds |-> IF s \in S /\ session[s] # None
                          THEN [session[s] EXCEPT !.revoked = TRUE]
                          ELSE session[s]]

\* The refresh tokens after the UPDATE that revokes every token of S.
TokensRevoked(S) ==
    [t \in TokenIds |-> IF token[t] # None /\ token[t].session \in S
                        THEN [token[t] EXCEPT !.revoked = TRUE]
                        ELSE token[t]]

-----------------------------------------------------------------------------
(* rex/mobile_api/sessions.py                                               *)

CreateSession(u, s, t) ==
    /\ session[s] = None /\ token[t] = None
    /\ session' = [session EXCEPT ![s] = NewSession(u, None, 0)]
    /\ token' = [token EXCEPT ![t] = NewToken(s)]
    /\ UNCHANGED <<challenge, pairVars, envVars>>

CreateDeviceSessionChallenge(c, s, k, v) ==
    /\ challenge[c] = None
    /\ SessionActive(s) /\ IsBootstrap(s)
    /\ GrantActive(session[s].user, k, v)
    /\ challenge' = [challenge EXCEPT ![c] =
            [bootstrap |-> s, key |-> k, version |-> v,
             expires |-> now + ChallengeTTL, replacement |-> None]]
    /\ UNCHANGED <<session, token, pairVars, envVars>>

\* The transport identity recorded at approval is the one serving this call.
TransportMatches(k, v) ==
    CheckTransport => device[k].binding = binding /\ grant[k][v].binding = binding

\* May challenge c be answered now, for the bootstrap session b it names?
Activatable(c, b) ==
    /\ challenge[c] # None /\ challenge[c].bootstrap = b
    /\ challenge[c].replacement = None /\ now < challenge[c].expires
    /\ SessionActive(b) /\ IsBootstrap(b)
    /\ GrantActive(session[b].user, challenge[c].key, challenge[c].version)
    /\ TransportMatches(challenge[c].key, challenge[c].version)

\* Mutant: the bootstrap session stays usable after the exchange.
ActivateKeepingBootstrap(c, b, s, t) ==
    /\ Activatable(c, b)
    /\ session[s] = None /\ token[t] = None
    /\ session' = [session EXCEPT ![s] =
            NewSession(session[b].user, challenge[c].key, challenge[c].version)]
    /\ token' = [token EXCEPT ![t] = NewToken(s)]
    /\ challenge' = [challenge EXCEPT ![c].replacement = s]
    /\ UNCHANGED <<pairVars, envVars>>

ActivateDeviceSession(c, b, s, t) ==
    /\ Activatable(c, b)
    /\ session[s] = None /\ token[t] = None
    /\ session' = [SessionsRevoked({b}) EXCEPT ![s] =
            NewSession(session[b].user, challenge[c].key, challenge[c].version)]
    /\ token' = [TokensRevoked({b}) EXCEPT ![t] = NewToken(s)]
    /\ challenge' = [challenge EXCEPT ![c].replacement = s]
    /\ UNCHANGED <<pairVars, envVars>>

Revoke(S) ==
    /\ session' = SessionsRevoked(S)
    /\ token' = TokensRevoked(S)
    /\ UNCHANGED <<challenge, pairVars, envVars>>

RevokeSession(s) == session[s] # None /\ Revoke({s})

SessionsOfUser(u) == {s \in SessionIds : session[s] # None /\ session[s].user = u}

RevokeAllSessionsForUser(u) == Revoke(SessionsOfUser(u))

\* rotate_refresh_token, reuse branch: the presented token was consumed.
RotateReused(t) ==
    /\ token[t] # None /\ ~token[t].revoked /\ token[t].consumed
    /\ Revoke({token[t].session})

\* Mutant: neither the token's nor the session's expiry is looked at.
PresentableForever(t) == TokenLive(t) /\ ~session[token[t].session].revoked

\* The checks that precede the grant check, in the order of the code.
Presentable(t) ==
    TokenLive(t) /\ now < token[t].expires /\ SessionActive(token[t].session)

RotateGrantInvalid(t) ==
    /\ Presentable(t) /\ ~SessionGrantValid(token[t].session)
    /\ Revoke({token[t].session})

RotateUserInactive(t) ==
    /\ Presentable(t) /\ SessionGrantValid(token[t].session)
    /\ session[token[t].session].user \notin active
    /\ Revoke({token[t].session})

Rotatable(t) ==
    /\ Presentable(t) /\ SessionGrantValid(token[t].session)
    /\ session[token[t].session].user \in active

Rotate(t, new) ==
    /\ Rotatable(t) /\ token[new] = None
    /\ token' = [token EXCEPT ![t].consumed = TRUE,
                              ![new] = NewToken(token[t].session)]
    /\ session' = [session EXCEPT ![token[t].session].expires = now + RefreshTTL]
    /\ UNCHANGED <<challenge, pairVars, envVars>>

-----------------------------------------------------------------------------
(* rex/mobile_api/pairing.py                                                *)

CreateChallenge(p, u) ==
    /\ pairing[p] = None
    /\ pairing' = [pairing EXCEPT ![p] =
            [user |-> u, binding |-> binding, expires |-> now + ChallengeTTL,
             status |-> "pending", key |-> None, version |-> 0]]
    /\ UNCHANGED <<authVars, device, grant, envVars>>

\* The branch that finds the challenge expired writes status "expired" and
\* then raises, which rolls the write back: no step.
SubmitProof(p, k) ==
    /\ pairing[p] # None /\ pairing[p].status = "pending"
    /\ now < pairing[p].expires
    /\ pairing' = [pairing EXCEPT ![p].status = "submitted", ![p].key = k]
    /\ UNCHANGED <<authVars, device, grant, envVars>>

\* A known key keeps the user and transport identity it was first approved
\* with, and a revoked one stays revoked.
Approvable(p) ==
    /\ pairing[p] # None /\ pairing[p].status = "submitted"
    /\ LET d == device[pairing[p].key] IN
         d # None => /\ d.user = pairing[p].user
                     /\ d.binding = pairing[p].binding
                     /\ ~d.revoked

\* SELECT COALESCE(MAX(version), 0) + 1
NextVersion(k) == Len(grant[k]) + 1

\* Unrevoked sessions bound to a version of k's grant older than v.
SupersededSessions(k, v) ==
    {s \in SessionIds : /\ session[s] # None /\ ~session[s].revoked
                        /\ session[s].key = k /\ session[s].version < v}

\* The owner chooses the life of the grant, at most GRANT_TTL_DAYS.
Approve(p, days) ==
    /\ Approvable(p)
    /\ LET k == pairing[p].key
           v == NextVersion(k)
       IN  /\ device' = [device EXCEPT ![k] =
                  [user |-> pairing[p].user, binding |-> pairing[p].binding,
                   revoked |-> FALSE]]
           /\ grant' = [grant EXCEPT ![k] = Append(@,
                  [user |-> pairing[p].user, binding |-> pairing[p].binding,
                   expires |-> now + days, revoked |-> FALSE])]
           /\ session' = SessionsRevoked(SupersededSessions(k, v))
           /\ token' = TokensRevoked(SupersededSessions(k, v))
           /\ pairing' = [pairing EXCEPT ![p].status = "approved", ![p].version = v]
    /\ UNCHANGED <<challenge, envVars>>

Deny(p) ==
    /\ pairing[p] # None /\ pairing[p].status = "submitted"
    /\ pairing' = [pairing EXCEPT ![p].status = "denied"]
    /\ UNCHANGED <<authVars, device, grant, envVars>>

SessionsOfDevice(k) ==
    {s \in SessionIds : session[s] # None /\ ~session[s].revoked /\ session[s].key = k}

RevokeDevice(k) ==
    /\ device[k] # None
    /\ device' = [device EXCEPT ![k].revoked = TRUE]
    /\ grant' = [grant EXCEPT ![k] =
            [v \in DOMAIN grant[k] |-> [grant[k][v] EXCEPT !.revoked = TRUE]]]
    /\ session' = SessionsRevoked(SessionsOfDevice(k))
    /\ token' = TokensRevoked(SessionsOfDevice(k))
    /\ UNCHANGED <<challenge, pairing, envVars>>

-----------------------------------------------------------------------------
(* The environment: the clock, the users table, and a gateway restart that  *)
(* serves another certificate or address.                                   *)

Tick == /\ now < MaxTime /\ now' = now + 1
        /\ UNCHANGED <<authVars, pairVars, binding, active>>

DisableUser(u) == /\ active' = active \ {u}
                  /\ UNCHANGED <<authVars, pairVars, binding, now>>

ChangeTransport(b) == /\ binding' = b
                      /\ UNCHANGED <<authVars, pairVars, active, now>>

SessionStep ==
    \/ \E u \in Users, s \in SessionIds, t \in TokenIds : CreateSession(u, s, t)
    \/ \E s \in SessionIds : RevokeSession(s)
    \/ \E u \in Users : RevokeAllSessionsForUser(u)

ActivationStep ==
    \/ \E c \in ChallengeIds, s \in SessionIds, k \in Keys :
         \E v \in DOMAIN grant[k] : CreateDeviceSessionChallenge(c, s, k, v)
    \/ \E c \in ChallengeIds, b, s \in SessionIds, t \in TokenIds :
         ActivateDeviceSession(c, b, s, t)

RefreshStep ==
    \E t \in TokenIds :
        \/ RotateReused(t)
        \/ RotateGrantInvalid(t)
        \/ RotateUserInactive(t)
        \/ \E new \in TokenIds : Rotate(t, new)

PairingStep ==
    \/ \E p \in PairIds, u \in Users : CreateChallenge(p, u)
    \/ \E p \in PairIds, k \in Keys : SubmitProof(p, k)
    \/ \E p \in PairIds, days \in 1..GrantTTL : Approve(p, days)
    \/ \E p \in PairIds : Deny(p)
    \/ \E k \in Keys : RevokeDevice(k)

EnvironmentStep ==
    \/ Tick
    \/ \E u \in Users : DisableUser(u)
    \/ \E b \in Bindings : ChangeTransport(b)

Next == \/ SessionStep
        \/ ActivationStep
        \/ RefreshStep
        \/ PairingStep
        \/ EnvironmentStep

Spec == Init /\ [][Next]_vars

-----------------------------------------------------------------------------
(* What the tables promise each other.                                      *)

\* Revocation reaches the whole family: a refresh token is revoked exactly
\* when its session is, whichever of the six revoking transactions ran
\* (docs/mobile/MOBILE_API_THREAT_MODEL.md:39).
RevocationReachesFamily ==
    \A t \in TokenIds : token[t] # None =>
        /\ session[token[t].session] # None
        /\ token[t].revoked <=> session[token[t].session].revoked

\* A family has one usable head: an unrevoked session has exactly one token
\* that was not consumed, and the two expire together, so that a client that
\* keeps the newest token can always go on and nobody holds a second one.
IsHead(t, s) == TokenLive(t) /\ token[t].session = s

OneHeadPerFamily ==
    \A s \in SessionIds : session[s] # None /\ ~session[s].revoked =>
        \E h \in TokenIds :
            /\ IsHead(h, s) /\ token[h].expires = session[s].expires
            /\ \A t \in TokenIds : IsHead(t, s) => t = h

\* An unrevoked paired session always holds the newest grant of a device
\* that is not revoked, for the session's own user: neither a newer approval
\* nor a revocation ever leaves an older session usable.
LiveSessionsHoldNewestGrant ==
    \A s \in SessionIds :
        session[s] # None /\ ~session[s].revoked /\ ~IsBootstrap(s) =>
            LET k == session[s].key IN
            /\ device[k] # None /\ ~device[k].revoked
            /\ session[s].version = Len(grant[k])
            /\ session[s].user = device[k].user

\* One bootstrap session is exchanged at most once, however many challenges
\* were issued for it, for a session of the same user bound to the grant the
\* challenge named; the bootstrap session does not outlive the exchange.
Exchanged(c) == challenge[c] # None /\ challenge[c].replacement # None

BootstrapExchangedOnce ==
    \A c \in ChallengeIds : Exchanged(c) =>
        LET b == challenge[c].bootstrap
            s == challenge[c].replacement
        IN  /\ session[b] # None /\ IsBootstrap(b) /\ session[b].revoked
            /\ session[s] # None
            /\ session[s].user = session[b].user
            /\ session[s].key = challenge[c].key
            /\ session[s].version = challenge[c].version
            /\ \A d \in ChallengeIds :
                 /\ Exchanged(d)
                 /\ challenge[d].bootstrap = b \/ challenge[d].replacement = s
                 => d = c

\* No authority without the owner: every grant version of a device was made
\* by exactly one approved pairing request, for that key and user.
IsApproved(p) == pairing[p] # None /\ pairing[p].status = "approved"

EveryGrantWasApproved ==
    \A k \in Keys : \A v \in DOMAIN grant[k] :
        \E p \in PairIds :
            /\ IsApproved(p) /\ pairing[p].key = k /\ pairing[p].version = v
            /\ pairing[p].user = grant[k][v].user
            /\ \A q \in PairIds :
                 IsApproved(q) /\ pairing[q].key = k /\ pairing[q].version = v => q = p

\* A device keeps the user and the transport identity of its first approval
\* in every grant version, and its grants are revoked with it.
DeviceIdentityFixed ==
    \A k \in Keys : \A v \in DOMAIN grant[k] :
        /\ device[k] # None
        /\ grant[k][v].user = device[k].user
        /\ grant[k][v].binding = device[k].binding
        /\ grant[k][v].revoked <=> device[k].revoked

\* An approved request names a version of its device's grant: what keeps two
\* approvals from sharing one, and the last part of the inductive invariant.
ApprovedNamesGrant ==
    \A p \in PairIds :
        IsApproved(p) => pairing[p].version \in DOMAIN grant[pairing[p].key]

IInv == /\ TypeOK
        /\ RevocationReachesFamily
        /\ OneHeadPerFamily
        /\ LiveSessionsHoldNewestGrant
        /\ BootstrapExchangedOnce
        /\ EveryGrantWasApproved
        /\ DeviceIdentityFixed
        /\ ApprovedNamesGrant

\* A session that is over, because it was revoked or because it expired, is
\* never usable again: no rotation, activation or clock step revives it.
EndedSessionsStayEnded ==
    [][\A s \in SessionIds :
         session[s] # None /\ ~SessionActive(s) => ~SessionActive(s)']_vars

\* Whatever one step revokes belongs to a single user ("revokes every
\* session belonging to one user and no one else's", sessions.py:13).
RevocationStaysWithinUser ==
    [][LET gone == {s \in SessionIds :
                      session[s] # None /\ ~session[s].revoked /\ session'[s].revoked}
       IN  \A r, s \in gone : session[r].user = session[s].user]_vars

=============================================================================

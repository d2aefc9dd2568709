------------------------- MODULE MobileStore_proofs -------------------------
(****************************************************************************)
(* Proofs about MobileStore, for every set of users, keys, identifiers and  *)
(* every time to live.                                                      *)
(****************************************************************************)
EXTENDS MobileStore, TLAPS

(* The UPDATEs that revoke sessions keep both tables well formed.           *)
LEMMA RevokedType ==
    ASSUME TypeOK, NEW S
    PROVE  /\ SessionsRevoked(S) \in [SessionIds -> SessionRow \cup {None}]
           /\ TokensRevoked(S) \in [TokenIds -> TokenRow \cup {None}]
BY DEF TypeOK, SessionsRevoked, TokensRevoked, SessionRow, TokenRow

(* Type correctness is preserved by every step.                             *)
LEMMA TypeStep == TypeOK /\ [Next]_vars => TypeOK'
<1> SUFFICES ASSUME TypeOK, [Next]_vars PROVE TypeOK'
  OBVIOUS
<1> USE TimeAssumption, NoneAssumption
<1>1. ASSUME NEW u \in Users, NEW s \in SessionIds, NEW t \in TokenIds,
             CreateSession(u, s, t)
      PROVE  TypeOK'
  BY <1>1 DEF CreateSession, TypeOK, NewSession, NewToken, SessionRow, TokenRow,
              pairVars, envVars
<1>2. ASSUME NEW S, Revoke(S) PROVE TypeOK'
  BY <1>2, RevokedType DEF Revoke, TypeOK, pairVars, envVars
<1>3. ASSUME NEW c \in ChallengeIds, NEW s \in SessionIds, NEW k \in Keys,
             NEW v \in DOMAIN grant[k], CreateDeviceSessionChallenge(c, s, k, v)
      PROVE  TypeOK'
  <2>1. v \in Nat
    BY DEF TypeOK
  <2> QED
    BY <1>3, <2>1 DEF CreateDeviceSessionChallenge, TypeOK, ChallengeRow,
                      pairVars, envVars
<1>4. ASSUME NEW c \in ChallengeIds, NEW b \in SessionIds, NEW s \in SessionIds,
             NEW t \in TokenIds, ActivateDeviceSession(c, b, s, t)
      PROVE  TypeOK'
  <2>1. NewSession(session[b].user, challenge[c].key, challenge[c].version)
            \in SessionRow
    BY <1>4 DEF ActivateDeviceSession, Activatable, SessionActive, TypeOK,
                NewSession, SessionRow, ChallengeRow
  <2>2. NewToken(s) \in TokenRow
    BY DEF TypeOK, NewToken, TokenRow
  <2>3. [challenge[c] EXCEPT !.replacement = s] \in ChallengeRow
    BY <1>4 DEF ActivateDeviceSession, Activatable, TypeOK, ChallengeRow
  <2> QED
    BY <1>4, <2>1, <2>2, <2>3, RevokedType
       DEF ActivateDeviceSession, TypeOK, pairVars, envVars
<1>5. ASSUME NEW t \in TokenIds, NEW new \in TokenIds, Rotate(t, new)
      PROVE  TypeOK'
  <2> DEFINE s == token[t].session
  <2>1. /\ token[t] \in TokenRow /\ s \in SessionIds /\ session[s] \in SessionRow
        /\ Rotate(t, new)
    BY <1>5 DEF Rotate, Rotatable, Presentable, TokenLive, SessionActive, TypeOK,
                TokenRow
  <2>2. NewToken(s) \in TokenRow
    BY <2>1 DEF NewToken, TokenRow, TypeOK
  <2>3. [token[t] EXCEPT !.consumed = TRUE] \in TokenRow
    BY <2>1 DEF TokenRow
  <2>4. now + RefreshTTL \in Nat
    BY DEF TypeOK
  <2>5. [session[s] EXCEPT !.expires = now + RefreshTTL] \in SessionRow
    BY <2>1, <2>4 DEF SessionRow
  <2> QED
    BY <2>1, <2>2, <2>3, <2>5 DEF Rotate, TypeOK, pairVars, envVars
<1>6. ASSUME NEW p \in PairIds, NEW u \in Users, CreateChallenge(p, u)
      PROVE  TypeOK'
  BY <1>6 DEF CreateChallenge, TypeOK, PairRow, authVars, envVars
<1>7. ASSUME NEW p \in PairIds, NEW k \in Keys, SubmitProof(p, k)
      PROVE  TypeOK'
  <2>1. pairing[p] \in PairRow
    BY <1>7 DEF SubmitProof, TypeOK
  <2>2. [pairing[p] EXCEPT !.status = "submitted", !.key = k] \in PairRow
    BY <2>1 DEF PairRow
  <2>3. pairing' \in [PairIds -> PairRow \cup {None}]
    BY <1>7, <2>2 DEF SubmitProof, TypeOK
  <2> QED
    BY <1>7, <2>3 DEF SubmitProof, TypeOK, authVars, envVars
<1>8. ASSUME NEW p \in PairIds, NEW days \in 1..GrantTTL, Approve(p, days) PROVE TypeOK'
  <2> DEFINE k == pairing[p].key
             g == [user |-> pairing[p].user, binding |-> pairing[p].binding,
                   expires |-> now + days, revoked |-> FALSE]
             d == [user |-> pairing[p].user, binding |-> pairing[p].binding,
                   revoked |-> FALSE]
             v == Len(grant[k]) + 1
  <2>1. pairing[p] \in PairRow /\ pairing[p].status = "submitted"
    BY <1>8 DEF Approve, NextVersion, Approvable, TypeOK
  <2>2. k \in Keys /\ g \in GrantRow /\ d \in DeviceRow
    BY <2>1 DEF TypeOK, PairRow, GrantRow, DeviceRow
  <2>3. device' \in [Keys -> DeviceRow \cup {None}]
    BY <1>8, <2>2 DEF Approve, NextVersion, TypeOK
  <2>4. grant[k] \in Seq(GrantRow) /\ v \in Nat
    BY <2>2 DEF TypeOK
  <2>5. Append(grant[k], g) \in Seq(GrantRow)
    BY <2>2, <2>4
  <2>6. grant' = [grant EXCEPT ![k] = Append(grant[k], g)]
    BY <1>8 DEF Approve, NextVersion
  <2>7. grant' \in [Keys -> Seq(GrantRow)]
    BY <2>5, <2>6 DEF TypeOK
  <2>8. [pairing[p] EXCEPT !.status = "approved", !.version = v] \in PairRow
    BY <2>1, <2>4 DEF PairRow
  <2>9. pairing' \in [PairIds -> PairRow \cup {None}]
    BY <1>8, <2>8 DEF Approve, NextVersion, TypeOK
  <2> QED
    BY <1>8, <2>3, <2>7, <2>9, RevokedType DEF Approve, NextVersion, TypeOK, envVars
<1>9. ASSUME NEW p \in PairIds, Deny(p) PROVE TypeOK'
  <2>1. pairing[p] \in PairRow /\ pairing[p].status = "submitted"
    BY <1>9 DEF Deny, TypeOK
  <2>2. [pairing[p] EXCEPT !.status = "denied"] \in PairRow
    BY <2>1 DEF PairRow
  <2> QED
    BY <1>9, <2>2 DEF Deny, TypeOK, authVars, envVars
<1>10. ASSUME NEW k \in Keys, RevokeDevice(k) PROVE TypeOK'
  <2> DEFINE g == [v \in DOMAIN grant[k] |-> [grant[k][v] EXCEPT !.revoked = TRUE]]
  <2>1. grant[k] \in Seq(GrantRow)
    BY DEF TypeOK
  <2>2. /\ Len(grant[k]) \in Nat /\ DOMAIN grant[k] = 1..Len(grant[k])
        /\ \A v \in DOMAIN grant[k] : grant[k][v] \in GrantRow
    BY <2>1
  <2>3. \A v \in DOMAIN grant[k] : [grant[k][v] EXCEPT !.revoked = TRUE] \in GrantRow
    BY <2>2 DEF GrantRow
  <2>4. g \in [1..Len(grant[k]) -> GrantRow]
    BY <2>2, <2>3
  <2>5. g \in Seq(GrantRow)
    BY <2>2, <2>4
  <2>6. [device[k] EXCEPT !.revoked = TRUE] \in DeviceRow
    BY <1>10 DEF RevokeDevice, TypeOK, DeviceRow
  <2>7. grant' \in [Keys -> Seq(GrantRow)]
    BY <1>10, <2>5 DEF RevokeDevice, TypeOK
  <2>8. device' \in [Keys -> DeviceRow \cup {None}]
    BY <1>10, <2>6 DEF RevokeDevice, TypeOK
  <2> QED
    BY <1>10, <2>7, <2>8, RevokedType DEF RevokeDevice, TypeOK, envVars
<1>11. CASE Tick
  BY <1>11 DEF Tick, TypeOK, authVars, pairVars
<1>12. ASSUME NEW u \in Users, DisableUser(u) PROVE TypeOK'
  BY <1>12 DEF DisableUser, TypeOK, authVars, pairVars
<1>13. ASSUME NEW b \in Bindings, ChangeTransport(b) PROVE TypeOK'
  BY <1>13 DEF ChangeTransport, TypeOK, authVars, pairVars
<1>14. CASE UNCHANGED vars
  BY <1>14 DEF TypeOK, vars, authVars, pairVars, envVars
<1> QED
  BY <1>1, <1>2, <1>3, <1>4, <1>5, <1>6, <1>7, <1>8, <1>9, <1>10, <1>11, <1>12,
     <1>13, <1>14
     DEF Next, SessionStep, ActivationStep, RefreshStep, PairingStep,
         EnvironmentStep, RevokeSession, RevokeAllSessionsForUser,
         RotateReused, RotateGrantInvalid, RotateUserInactive

-----------------------------------------------------------------------------
(* What the revoking UPDATEs change, row by row.                            *)
LEMMA RevokedRows ==
    ASSUME TypeOK, NEW S
    PROVE  /\ \A s \in SessionIds :
                /\ SessionsRevoked(S)[s] = None <=> session[s] = None
                /\ session[s] # None =>
                     /\ SessionsRevoked(S)[s].user = session[s].user
                     /\ SessionsRevoked(S)[s].key = session[s].key
                     /\ SessionsRevoked(S)[s].version = session[s].version
                     /\ SessionsRevoked(S)[s].expires = session[s].expires
                     /\ SessionsRevoked(S)[s].revoked <=> session[s].revoked \/ s \in S
           /\ \A t \in TokenIds :
                /\ TokensRevoked(S)[t] = None <=> token[t] = None
                /\ token[t] # None =>
                     /\ TokensRevoked(S)[t].session = token[t].session
                     /\ TokensRevoked(S)[t].expires = token[t].expires
                     /\ TokensRevoked(S)[t].consumed <=> token[t].consumed
                     /\ TokensRevoked(S)[t].revoked <=> token[t].revoked \/ token[t].session \in S
<1> USE NoneAssumption
<1>1. ASSUME NEW s \in SessionIds, session[s] # None
      PROVE  session[s] \in SessionRow /\ [session[s] EXCEPT !.revoked = TRUE] \in SessionRow
  BY <1>1 DEF TypeOK, SessionRow
<1>2. ASSUME NEW t \in TokenIds, token[t] # None
      PROVE  token[t] \in TokenRow /\ [token[t] EXCEPT !.revoked = TRUE] \in TokenRow
  BY <1>2 DEF TypeOK, TokenRow
<1>3. ASSUME NEW s \in SessionIds PROVE SessionsRevoked(S)[s] = None <=> session[s] = None
  BY <1>1 DEF SessionsRevoked
<1>4. ASSUME NEW t \in TokenIds PROVE TokensRevoked(S)[t] = None <=> token[t] = None
  BY <1>2 DEF TokensRevoked
<1>5. ASSUME NEW s \in SessionIds, session[s] # None
      PROVE  /\ SessionsRevoked(S)[s].user = session[s].user
             /\ SessionsRevoked(S)[s].key = session[s].key
             /\ SessionsRevoked(S)[s].version = session[s].version
             /\ SessionsRevoked(S)[s].expires = session[s].expires
             /\ SessionsRevoked(S)[s].revoked <=> session[s].revoked \/ s \in S
  BY <1>1, <1>5 DEF SessionsRevoked, SessionRow
<1>6. ASSUME NEW t \in TokenIds, token[t] # None
      PROVE  /\ TokensRevoked(S)[t].session = token[t].session
             /\ TokensRevoked(S)[t].expires = token[t].expires
             /\ TokensRevoked(S)[t].consumed <=> token[t].consumed
             /\ TokensRevoked(S)[t].revoked <=> token[t].revoked \/ token[t].session \in S
  BY <1>2, <1>6 DEF TokensRevoked, TokenRow
<1> QED
  BY <1>3, <1>4, <1>5, <1>6

(* New rows are rows.                                                       *)
LEMMA NewRows ==
    ASSUME TypeOK
    PROVE  /\ \A s \in SessionIds :
                NewToken(s) \in TokenRow /\ NewToken(s) # None
           /\ \A u \in Users, k \in Keys \cup {None}, v \in Nat :
                NewSession(u, k, v) \in SessionRow /\ NewSession(u, k, v) # None
<1>1. now + RefreshTTL \in Nat
  BY TimeAssumption DEF TypeOK
<1>2. \A s \in SessionIds : NewToken(s) \in TokenRow
  BY <1>1 DEF NewToken, TokenRow
<1>3. \A u \in Users, k \in Keys \cup {None}, v \in Nat : NewSession(u, k, v) \in SessionRow
  BY <1>1 DEF NewSession, SessionRow
<1> QED
  BY <1>2, <1>3, NoneAssumption

(* The ways in which a step can change the session and token tables.        *)
AuthShape ==
    \/ session' = session /\ token' = token
    \/ \E u \in Users, s \in SessionIds, t \in TokenIds : CreateSession(u, s, t)
    \/ \E S \in SUBSET SessionIds :
         session' = SessionsRevoked(S) /\ token' = TokensRevoked(S)
    \/ \E c \in ChallengeIds, b, s \in SessionIds, t \in TokenIds :
         ActivateDeviceSession(c, b, s, t)
    \/ \E t, new \in TokenIds : Rotate(t, new)

(* There are no other ways.                                                 *)
LEMMA AuthShapes == ASSUME TypeOK, [Next]_vars PROVE AuthShape
<1>1. ASSUME NEW S \in SUBSET SessionIds, Revoke(S) PROVE AuthShape
  BY <1>1 DEF Revoke, AuthShape
<1>2. CASE SessionStep
  BY <1>1, <1>2 DEF SessionStep, RevokeSession, RevokeAllSessionsForUser,
                    SessionsOfUser, AuthShape
<1>3. CASE ActivationStep
  BY <1>3 DEF ActivationStep, CreateDeviceSessionChallenge, AuthShape
<1>4. CASE RefreshStep
  <2>1. \A t \in TokenIds : token[t] # None => token[t].session \in SessionIds
    BY DEF TypeOK, TokenRow
  <2> QED
    BY <1>1, <1>4, <2>1 DEF RefreshStep, RotateReused, RotateGrantInvalid,
                    RotateUserInactive, Presentable, TokenLive, AuthShape
<1>5. CASE PairingStep
  <2>1. ASSUME NEW p \in PairIds, NEW days \in 1..GrantTTL, Approve(p, days) PROVE AuthShape
    BY <2>1 DEF Approve, NextVersion, SupersededSessions, AuthShape
  <2>2. ASSUME NEW k \in Keys, RevokeDevice(k) PROVE AuthShape
    BY <2>2 DEF RevokeDevice, SessionsOfDevice, AuthShape
  <2> QED
    BY <1>5, <2>1, <2>2 DEF PairingStep, CreateChallenge, SubmitProof, Deny,
                    AuthShape, authVars
<1>6. CASE EnvironmentStep \/ UNCHANGED vars
  BY <1>6 DEF EnvironmentStep, Tick, DisableUser, ChangeTransport, AuthShape,
              vars, authVars
<1> QED
  BY <1>2, <1>3, <1>4, <1>5, <1>6 DEF Next

-----------------------------------------------------------------------------
(* Row by row, what the three transactions that insert rows leave behind.   *)

(* A login inserts one session and its first token.                         *)
LEMMA CreateRows ==
    ASSUME TypeOK, NEW u \in Users, NEW s \in SessionIds, NEW t \in TokenIds,
           CreateSession(u, s, t)
    PROVE  /\ session[s] = None /\ token[t] = None
           /\ \A x \in SessionIds :
                session'[x] = IF x = s THEN NewSession(u, None, 0) ELSE session[x]
           /\ \A x \in TokenIds : token'[x] = IF x = t THEN NewToken(s) ELSE token[x]
           /\ NewToken(s) # None /\ NewSession(u, None, 0) # None
<1>1. NewToken(s) # None /\ NewSession(u, None, 0) # None
  BY NewRows
<1> QED
  BY <1>1 DEF CreateSession, TypeOK

(* The session row an activation inserts.                                   *)
Activated(c, b) == NewSession(session[b].user, challenge[c].key, challenge[c].version)

(* An activation inserts both and revokes the password session.             *)
LEMMA ActivateRows ==
    ASSUME TypeOK, NEW c \in ChallengeIds, NEW b \in SessionIds, NEW s \in SessionIds,
           NEW t \in TokenIds, ActivateDeviceSession(c, b, s, t)
    PROVE  /\ session[s] = None /\ token[t] = None /\ b # s
           /\ session'[s] = Activated(c, b) /\ token'[t] = NewToken(s)
           /\ NewToken(s) # None
           /\ Activated(c, b) \in SessionRow /\ Activated(c, b) # None
           /\ \A x \in SessionIds \ {s} :
                /\ session'[x] = None <=> session[x] = None
                /\ session[x] # None =>
                     /\ session'[x].user = session[x].user
                     /\ session'[x].key = session[x].key
                     /\ session'[x].version = session[x].version
                     /\ session'[x].expires = session[x].expires
                     /\ session'[x].revoked <=> session[x].revoked \/ x = b
           /\ \A x \in TokenIds \ {t} :
                /\ token'[x] = None <=> token[x] = None
                /\ token[x] # None =>
                     /\ token'[x].session = token[x].session
                     /\ token'[x].expires = token[x].expires
                     /\ token'[x].consumed <=> token[x].consumed
                     /\ token'[x].revoked <=> token[x].revoked \/ token[x].session = b
<1>1. /\ session[b].user \in Users /\ challenge[c].key \in Keys /\ challenge[c].version \in Nat
      /\ session[b] # None /\ session[s] = None /\ token[t] = None
  BY DEF ActivateDeviceSession, Activatable, SessionActive, TypeOK,
         SessionRow, ChallengeRow
<1>2. Activated(c, b) \in SessionRow /\ Activated(c, b) # None /\ NewToken(s) # None
  BY <1>1, NewRows DEF Activated
<1>3. /\ session' = [SessionsRevoked({b}) EXCEPT ![s] = Activated(c, b)]
      /\ token' = [TokensRevoked({b}) EXCEPT ![t] = NewToken(s)]
  BY DEF ActivateDeviceSession, Activated
<1>4. /\ session'[s] = Activated(c, b) /\ token'[t] = NewToken(s)
      /\ \A x \in SessionIds \ {s} : session'[x] = SessionsRevoked({b})[x]
      /\ \A x \in TokenIds \ {t} : token'[x] = TokensRevoked({b})[x]
  BY <1>1, <1>3, RevokedType
<1> DEFINE S == {b}
<1>5. /\ \A x \in SessionIds \ {s} : session'[x] = SessionsRevoked(S)[x]
      /\ \A x \in TokenIds \ {t} : token'[x] = TokensRevoked(S)[x]
  BY <1>4
<1>6. \A x : x \in S <=> x = b
  OBVIOUS
<1> HIDE DEF S
<1> QED
  BY <1>1, <1>2, <1>4, <1>5, <1>6, RevokedRows

(* A rotation spends a live token and extends its session.                   *)
LEMMA RotateRows ==
    ASSUME TypeOK, NEW t \in TokenIds, NEW new \in TokenIds, Rotate(t, new)
    PROVE  LET s == token[t].session
           IN  /\ s \in SessionIds /\ TokenLive(t) /\ SessionActive(s)
               /\ token[new] = None /\ new # t
               /\ now + RefreshTTL \in Nat /\ now < now + RefreshTTL
               /\ \A x \in SessionIds :
                    /\ session'[x] = None <=> session[x] = None
                    /\ session[x] # None =>
                         /\ session'[x].user = session[x].user
                         /\ session'[x].key = session[x].key
                         /\ session'[x].version = session[x].version
                         /\ session'[x].revoked = session[x].revoked
                         /\ session'[x].expires =
                              IF x = s THEN now + RefreshTTL ELSE session[x].expires
               /\ \A x \in TokenIds \ {new} :
                    /\ token'[x] = None <=> token[x] = None
                    /\ token[x] # None =>
                         /\ token'[x].session = token[x].session
                         /\ token'[x].revoked = token[x].revoked
                         /\ token'[x].expires = token[x].expires
                         /\ token'[x].consumed <=> x = t \/ token[x].consumed
               /\ token'[new] = NewToken(s) /\ NewToken(s) # None
<1> USE NoneAssumption
<1> DEFINE s == token[t].session
<1>1. /\ token[t] \in TokenRow /\ s \in SessionIds /\ session[s] \in SessionRow
      /\ token[new] = None /\ new # t /\ TokenLive(t) /\ SessionActive(s)
      /\ session[s] # None /\ token[t] # None
  BY DEF Rotate, Rotatable, Presentable, TokenLive, SessionActive, TypeOK, TokenRow
<1>2. /\ token' = [token EXCEPT ![t].consumed = TRUE, ![new] = NewToken(s)]
      /\ session' = [session EXCEPT ![s].expires = now + RefreshTTL]
  BY DEF Rotate
<1>3. now + RefreshTTL \in Nat /\ now < now + RefreshTTL
  BY TimeAssumption DEF TypeOK
<1>4. NewToken(s) # None
  BY <1>1, NewRows
<1> DEFINE r == [session[s] EXCEPT !.expires = now + RefreshTTL]
           q == [token[t] EXCEPT !.consumed = TRUE]
<1>5. /\ r \in SessionRow /\ r.user = session[s].user /\ r.key = session[s].key
      /\ r.version = session[s].version /\ r.revoked = session[s].revoked
      /\ r.expires = now + RefreshTTL
  BY <1>1, <1>3 DEF SessionRow
<1>6. /\ q \in TokenRow /\ q.session = s /\ q.revoked = token[t].revoked
      /\ q.expires = token[t].expires /\ q.consumed = TRUE
  BY <1>1 DEF TokenRow
<1>7. /\ session' = [session EXCEPT ![s] = r]
      /\ token' = [token EXCEPT ![t] = q, ![new] = NewToken(s)]
  BY <1>1, <1>2
<1>8. \A x \in SessionIds : session'[x] = IF x = s THEN r ELSE session[x]
  BY <1>1, <1>7 DEF TypeOK
<1>9. \A x \in TokenIds :
        token'[x] = IF x = new THEN NewToken(s) ELSE IF x = t THEN q ELSE token[x]
  BY <1>1, <1>7 DEF TypeOK
<1>10. \A x \in TokenIds : token[x] # None => token[x].consumed \in BOOLEAN
  BY DEF TypeOK, TokenRow
<1> HIDE DEF s, r, q
<1>11. /\ r # None /\ q # None
  BY <1>5, <1>6
<1> QED
  BY <1>1, <1>3, <1>4, <1>5, <1>6, <1>8, <1>9, <1>10, <1>11 DEF s

-----------------------------------------------------------------------------
(* Revocation reaches the whole family, in every reachable state.           *)
LEMMA FamilyStep ==
    ASSUME TypeOK, RevocationReachesFamily, [Next]_vars
    PROVE  RevocationReachesFamily'
<1>0. \A t \in TokenIds : token[t] # None => token[t].session \in SessionIds
  BY DEF TypeOK, TokenRow
<1>1. CASE session' = session /\ token' = token
  BY <1>1 DEF RevocationReachesFamily
<1>2. ASSUME NEW u \in Users, NEW s \in SessionIds, NEW t \in TokenIds,
             CreateSession(u, s, t)
      PROVE  RevocationReachesFamily'
  <2>1. /\ NewToken(s).session = s
        /\ NewToken(s).revoked = FALSE /\ NewSession(u, None, 0).revoked = FALSE
    BY DEF NewToken, NewSession
  <2> QED
    BY <1>0, <1>2, <2>1, CreateRows DEF RevocationReachesFamily
<1>3. ASSUME NEW S \in SUBSET SessionIds,
             session' = SessionsRevoked(S), token' = TokensRevoked(S)
      PROVE  RevocationReachesFamily'
  BY <1>0, <1>3, RevokedRows DEF RevocationReachesFamily
<1>4. ASSUME NEW c \in ChallengeIds, NEW b \in SessionIds, NEW s \in SessionIds,
             NEW t \in TokenIds, ActivateDeviceSession(c, b, s, t)
      PROVE  RevocationReachesFamily'
  <2>1. NewToken(s).session = s /\ NewToken(s).revoked = FALSE /\ Activated(c, b).revoked = FALSE
    BY DEF NewToken, NewSession, Activated
  <2>2. ASSUME NEW x \in TokenIds, x # t, token'[x] # None
        PROVE  /\ session'[token'[x].session] # None
               /\ token'[x].revoked <=> session'[token'[x].session].revoked
    <3>1. token[x] # None /\ token'[x].session = token[x].session
      BY <1>4, <2>2, ActivateRows
    <3>2. token[x].session \in SessionIds /\ token[x].session # s
      BY <1>0, <1>4, <3>1, ActivateRows DEF RevocationReachesFamily
    <3> QED
      BY <1>4, <2>2, <3>1, <3>2, ActivateRows DEF RevocationReachesFamily
  <2> QED
    BY <1>4, <2>1, <2>2, ActivateRows DEF RevocationReachesFamily
<1>5. ASSUME NEW t \in TokenIds, NEW new \in TokenIds, Rotate(t, new)
      PROVE  RevocationReachesFamily'
  <2> DEFINE s == token[t].session
  <2>1. NewToken(s).session = s /\ NewToken(s).revoked = FALSE
    BY DEF NewToken
  <2>2. session[s] # None /\ ~session[s].revoked /\ s \in SessionIds
    BY <1>5, RotateRows DEF SessionActive
  <2> QED
    BY <1>0, <1>5, <2>1, <2>2, RotateRows DEF RevocationReachesFamily
<1> QED
  BY <1>1, <1>2, <1>3, <1>4, <1>5, AuthShapes DEF AuthShape

-----------------------------------------------------------------------------
(* A family keeps exactly one head through every step.                      *)
LEMMA HeadStep ==
    ASSUME TypeOK, RevocationReachesFamily, OneHeadPerFamily, [Next]_vars
    PROVE  OneHeadPerFamily'
<1>0. \A t \in TokenIds : token[t] # None => token[t].session \in SessionIds
  BY DEF TypeOK, TokenRow
<1>1. CASE session' = session /\ token' = token
  BY <1>1 DEF OneHeadPerFamily, IsHead, TokenLive
<1>2. ASSUME NEW u \in Users, NEW s \in SessionIds, NEW t \in TokenIds,
             CreateSession(u, s, t)
      PROVE  OneHeadPerFamily'
  <2>1. /\ NewToken(s).session = s /\ NewToken(s).revoked = FALSE
        /\ NewToken(s).consumed = FALSE
        /\ NewToken(s).expires = NewSession(u, None, 0).expires
    BY DEF NewToken, NewSession
  <2>2. \A x \in TokenIds : token[x] # None => token[x].session # s
    BY <1>2, CreateRows DEF RevocationReachesFamily
  <2>3. ASSUME NEW r \in SessionIds, r # s, session'[r] # None, ~session'[r].revoked
        PROVE  \E h \in TokenIds :
                 /\ IsHead(h, r)' /\ token'[h].expires = session'[r].expires
                 /\ \A x \in TokenIds : IsHead(x, r)' => x = h
    <3>1. session[r] # None /\ ~session[r].revoked /\ session'[r] = session[r]
      BY <1>2, <2>3, CreateRows
    <3>2. PICK h \in TokenIds :
            /\ IsHead(h, r) /\ token[h].expires = session[r].expires
            /\ \A x \in TokenIds : IsHead(x, r) => x = h
      BY <3>1 DEF OneHeadPerFamily
    <3>3. \A x \in TokenIds : IsHead(x, r)' <=> IsHead(x, r)
      BY <1>2, <2>1, <2>3, CreateRows DEF IsHead, TokenLive
    <3>4. token'[h] = token[h]
      BY <1>2, <3>2, CreateRows DEF IsHead, TokenLive
    <3> QED
      BY <3>1, <3>2, <3>3, <3>4
  <2>4. /\ IsHead(t, s)' /\ token'[t].expires = session'[s].expires
        /\ \A x \in TokenIds : IsHead(x, s)' => x = t
    BY <1>2, <2>1, <2>2, CreateRows DEF IsHead, TokenLive
  <2> QED
    BY <2>3, <2>4 DEF OneHeadPerFamily
<1>3. ASSUME NEW S \in SUBSET SessionIds,
             session' = SessionsRevoked(S), token' = TokensRevoked(S)
      PROVE  OneHeadPerFamily'
  <2>1. ASSUME NEW r \in SessionIds, session'[r] # None, ~session'[r].revoked
        PROVE  \E h \in TokenIds :
                 /\ IsHead(h, r)' /\ token'[h].expires = session'[r].expires
                 /\ \A x \in TokenIds : IsHead(x, r)' => x = h
    <3>1. /\ session[r] # None /\ ~session[r].revoked /\ r \notin S
          /\ session'[r].expires = session[r].expires
      BY <1>3, <2>1, RevokedRows
    <3>2. PICK h \in TokenIds :
            /\ IsHead(h, r) /\ token[h].expires = session[r].expires
            /\ \A x \in TokenIds : IsHead(x, r) => x = h
      BY <3>1 DEF OneHeadPerFamily
    <3>3. \A x \in TokenIds : IsHead(x, r)' <=> IsHead(x, r)
      BY <1>3, <3>1, RevokedRows DEF IsHead, TokenLive
    <3>4. token'[h].expires = token[h].expires
      BY <1>3, <3>2, RevokedRows DEF IsHead, TokenLive
    <3> QED
      BY <3>1, <3>2, <3>3, <3>4
  <2> QED
    BY <2>1 DEF OneHeadPerFamily
<1>4. ASSUME NEW c \in ChallengeIds, NEW b \in SessionIds, NEW s \in SessionIds,
             NEW t \in TokenIds, ActivateDeviceSession(c, b, s, t)
      PROVE  OneHeadPerFamily'
  <2>1. /\ NewToken(s).session = s /\ NewToken(s).revoked = FALSE
        /\ NewToken(s).consumed = FALSE
        /\ NewToken(s).expires = Activated(c, b).expires
    BY DEF NewToken, NewSession, Activated
  <2>2. \A x \in TokenIds : token[x] # None => token[x].session # s
    BY <1>4, ActivateRows DEF RevocationReachesFamily
  <2>3. ASSUME NEW r \in SessionIds, r # s, session'[r] # None, ~session'[r].revoked
        PROVE  \E h \in TokenIds :
                 /\ IsHead(h, r)' /\ token'[h].expires = session'[r].expires
                 /\ \A x \in TokenIds : IsHead(x, r)' => x = h
    <3>1. /\ session[r] # None /\ ~session[r].revoked /\ r # b
          /\ session'[r].expires = session[r].expires
      BY <1>4, <2>3, ActivateRows
    <3>2. PICK h \in TokenIds :
            /\ IsHead(h, r) /\ token[h].expires = session[r].expires
            /\ \A x \in TokenIds : IsHead(x, r) => x = h
      BY <3>1 DEF OneHeadPerFamily
    <3>3. \A x \in TokenIds : IsHead(x, r)' <=> IsHead(x, r)
      BY <1>4, <2>1, <2>3, <3>1, ActivateRows DEF IsHead, TokenLive
    <3>4. token'[h].expires = token[h].expires
      BY <1>4, <3>2, ActivateRows DEF IsHead, TokenLive
    <3> QED
      BY <3>1, <3>2, <3>3, <3>4
  <2>4. /\ IsHead(t, s)' /\ token'[t].expires = session'[s].expires
        /\ \A x \in TokenIds : IsHead(x, s)' => x = t
    BY <1>4, <2>1, <2>2, ActivateRows DEF IsHead, TokenLive
  <2> QED
    BY <2>3, <2>4 DEF OneHeadPerFamily
<1>5. ASSUME NEW t \in TokenIds, NEW new \in TokenIds, Rotate(t, new)
      PROVE  OneHeadPerFamily'
  <2>0. PICK s \in SessionIds : s = token[t].session
    BY <1>5, RotateRows
  <2>1. /\ NewToken(s).session = s /\ NewToken(s).revoked = FALSE
        /\ NewToken(s).consumed = FALSE /\ NewToken(s).expires = now + RefreshTTL
    BY DEF NewToken
  <2>2. /\ IsHead(t, s) /\ session[s] # None /\ ~session[s].revoked
    BY <1>5, <2>0, RotateRows DEF SessionActive, IsHead
  <2>3. \A x \in TokenIds : IsHead(x, s) => x = t
    BY <2>2 DEF OneHeadPerFamily
  <2>4. /\ IsHead(new, s)' /\ token'[new].expires = session'[s].expires
    BY <1>5, <2>0, <2>1, <2>2, RotateRows DEF IsHead, TokenLive
  <2>5. \A x \in TokenIds : IsHead(x, s)' => x = new
    BY <1>5, <2>0, <2>2, <2>3, RotateRows DEF IsHead, TokenLive
  <2>6. ASSUME NEW r \in SessionIds, r # s, session'[r] # None, ~session'[r].revoked
        PROVE  \E h \in TokenIds :
                 /\ IsHead(h, r)' /\ token'[h].expires = session'[r].expires
                 /\ \A x \in TokenIds : IsHead(x, r)' => x = h
    <3>1. /\ session[r] # None /\ ~session[r].revoked
          /\ session'[r].expires = session[r].expires
      BY <1>5, <2>0, <2>6, RotateRows
    <3>2. PICK h \in TokenIds :
            /\ IsHead(h, r) /\ token[h].expires = session[r].expires
            /\ \A x \in TokenIds : IsHead(x, r) => x = h
      BY <3>1 DEF OneHeadPerFamily
    <3>3. \A x \in TokenIds : IsHead(x, r)' <=> IsHead(x, r)
      BY <1>5, <2>0, <2>1, <2>6, RotateRows DEF IsHead, TokenLive
    <3>4. token'[h].expires = token[h].expires
      BY <1>5, <2>0, <3>2, RotateRows DEF IsHead, TokenLive
    <3> QED
      BY <3>1, <3>2, <3>3, <3>4
  <2> QED
    BY <2>4, <2>5, <2>6 DEF OneHeadPerFamily
<1> QED
  BY <1>1, <1>2, <1>3, <1>4, <1>5, AuthShapes DEF AuthShape

-----------------------------------------------------------------------------
(* What an approval and a device revocation leave in the pairing tables.    *)

(* An approval appends one grant to one device.                             *)
LEMMA ApproveRows ==
    ASSUME TypeOK, NEW p \in PairIds, NEW days \in 1..GrantTTL, Approve(p, days)
    PROVE  LET k == pairing[p].key
           IN  /\ pairing[p] # None /\ k \in Keys /\ pairing[p].status = "submitted"
               /\ device[k] # None => /\ device[k].user = pairing[p].user
                                      /\ device[k].binding = pairing[p].binding
                                      /\ ~device[k].revoked
               /\ device'[k] # None /\ device'[k].user = pairing[p].user
               /\ device'[k].binding = pairing[p].binding /\ ~device'[k].revoked
               /\ \A x \in Keys : x # k => device'[x] = device[x] /\ grant'[x] = grant[x]
               /\ Len(grant[k]) \in Nat /\ DOMAIN grant[k] = 1..Len(grant[k])
               /\ Len(grant'[k]) = Len(grant[k]) + 1
               /\ DOMAIN grant'[k] = 1..(Len(grant[k]) + 1)
               /\ \A v \in 1..Len(grant[k]) : grant'[k][v] = grant[k][v]
               /\ grant'[k][Len(grant[k]) + 1].user = pairing[p].user
               /\ grant'[k][Len(grant[k]) + 1].binding = pairing[p].binding
               /\ ~grant'[k][Len(grant[k]) + 1].revoked
               /\ \A q \in PairIds : q # p => pairing'[q] = pairing[q]
               /\ pairing'[p] # None /\ pairing'[p].status = "approved"
               /\ pairing'[p].key = k /\ pairing'[p].user = pairing[p].user
               /\ pairing'[p].version = Len(grant[k]) + 1
<1> DEFINE k == pairing[p].key
           g == [user |-> pairing[p].user, binding |-> pairing[p].binding,
                 expires |-> now + days, revoked |-> FALSE]
           d == [user |-> pairing[p].user, binding |-> pairing[p].binding,
                 revoked |-> FALSE]
           v == Len(grant[k]) + 1
           q == [pairing[p] EXCEPT !.status = "approved", !.version = v]
<1>1. pairing[p] # None /\ pairing[p] \in PairRow /\ pairing[p].status = "submitted"
  BY DEF Approve, NextVersion, Approvable, TypeOK
<1>2. k \in Keys
  BY <1>1 DEF PairRow
<1>3. /\ grant[k] \in Seq(GrantRow) /\ Len(grant[k]) \in Nat
      /\ DOMAIN grant[k] = 1..Len(grant[k])
  BY <1>2 DEF TypeOK
<1>4. now + days \in Nat
  BY TimeAssumption DEF TypeOK
<1>5. g \in GrantRow /\ d \in DeviceRow /\ d # None
  <2>1. pairing[p].user \in Users /\ pairing[p].binding \in Bindings
    BY <1>1 DEF PairRow
  <2>2. g \in GrantRow
    BY <1>4, <2>1 DEF GrantRow
  <2>3. d \in DeviceRow
    BY <2>1 DEF DeviceRow
  <2> QED
    BY <2>2, <2>3, NoneAssumption
<1>6. g.user = pairing[p].user /\ g.binding = pairing[p].binding /\ ~g.revoked
  OBVIOUS
<1>7. d.user = pairing[p].user /\ d.binding = pairing[p].binding /\ ~d.revoked
  OBVIOUS
<1>8. /\ q \in PairRow /\ q # None /\ q.status = "approved" /\ q.key = k
      /\ q.user = pairing[p].user /\ q.version = v
  <2>1. v \in Nat
    BY <1>3
  <2> HIDE DEF v
  <2>2. /\ q \in PairRow /\ q.status = "approved" /\ q.key = k
        /\ q.user = pairing[p].user /\ q.version = v
    BY <1>1, <2>1 DEF PairRow
  <2> QED
    BY <2>2, NoneAssumption
<1>9. /\ device' = [device EXCEPT ![k] = d]
      /\ grant' = [grant EXCEPT ![k] = Append(grant[k], g)]
      /\ pairing' = [pairing EXCEPT ![p] = q]
  BY <1>1 DEF Approve, NextVersion
<1>10. device[k] # None => /\ device[k].user = pairing[p].user
                           /\ device[k].binding = pairing[p].binding
                           /\ ~device[k].revoked
  BY DEF Approve, NextVersion, Approvable
<1> HIDE DEF g, d, q
<1>11. /\ device'[k] = d /\ grant'[k] = Append(grant[k], g) /\ pairing'[p] = q
       /\ \A x \in Keys : x # k => device'[x] = device[x] /\ grant'[x] = grant[x]
       /\ \A x \in PairIds : x # p => pairing'[x] = pairing[x]
  BY <1>2, <1>9 DEF TypeOK
<1>12. /\ Len(Append(grant[k], g)) = v /\ DOMAIN Append(grant[k], g) = 1..v
       /\ \A i \in 1..Len(grant[k]) : Append(grant[k], g)[i] = grant[k][i]
       /\ Append(grant[k], g)[v] = g
  BY <1>3, <1>5
<1> HIDE DEF k
<1> QED
  BY <1>1, <1>2, <1>3, <1>5, <1>6, <1>7, <1>8, <1>10, <1>11, <1>12 DEF k

(* A revocation reaches the device and all its grants.                      *)
LEMMA RevokeDeviceRows ==
    ASSUME TypeOK, NEW k \in Keys, RevokeDevice(k)
    PROVE  /\ device[k] # None /\ device'[k] # None
           /\ device'[k].user = device[k].user /\ device'[k].binding = device[k].binding
           /\ device'[k].revoked = TRUE
           /\ \A x \in Keys : x # k => device'[x] = device[x] /\ grant'[x] = grant[x]
           /\ DOMAIN grant'[k] = DOMAIN grant[k] /\ Len(grant'[k]) = Len(grant[k])
           /\ \A v \in DOMAIN grant[k] :
                /\ grant'[k][v].user = grant[k][v].user
                /\ grant'[k][v].binding = grant[k][v].binding
                /\ grant'[k][v].revoked = TRUE
<1> DEFINE g == [v \in DOMAIN grant[k] |-> [grant[k][v] EXCEPT !.revoked = TRUE]]
           d == [device[k] EXCEPT !.revoked = TRUE]
<1>1. device[k] # None /\ device[k] \in DeviceRow
  BY DEF RevokeDevice, TypeOK
<1>2. /\ d # None /\ d.user = device[k].user /\ d.binding = device[k].binding
      /\ d.revoked = TRUE
  BY <1>1, NoneAssumption DEF DeviceRow
<1>3. /\ grant[k] \in Seq(GrantRow) /\ Len(grant[k]) \in Nat
      /\ DOMAIN grant[k] = 1..Len(grant[k])
      /\ \A v \in DOMAIN grant[k] : grant[k][v] \in GrantRow
  BY DEF TypeOK
<1>4. \A v \in DOMAIN grant[k] : /\ g[v].user = grant[k][v].user
                                 /\ g[v].binding = grant[k][v].binding
                                 /\ g[v].revoked = TRUE
  BY <1>3 DEF GrantRow
<1>5. DOMAIN g = DOMAIN grant[k]
  OBVIOUS
<1>6. Len(g) = Len(grant[k])
  <2>1. \A v \in DOMAIN grant[k] : [grant[k][v] EXCEPT !.revoked = TRUE] \in GrantRow
    BY <1>3 DEF GrantRow
  <2>2. g \in [1..Len(grant[k]) -> GrantRow]
    BY <1>3, <2>1
  <2> HIDE DEF g
  <2> QED
    BY <1>3, <2>1, <2>2
<1>7. device' = [device EXCEPT ![k] = d] /\ grant' = [grant EXCEPT ![k] = g]
  BY DEF RevokeDevice
<1> HIDE DEF g, d
<1>8. /\ device'[k] = d /\ grant'[k] = g
      /\ \A x \in Keys : x # k => device'[x] = device[x] /\ grant'[x] = grant[x]
  BY <1>7 DEF TypeOK
<1> QED
  BY <1>1, <1>2, <1>4, <1>5, <1>6, <1>8

-----------------------------------------------------------------------------
(* Rows of the session table are never deleted, keep whom and what they were *)
(* made for, and are never un-revoked.                                       *)
LEMMA SessionsOnlyAge ==
    ASSUME TypeOK, [Next]_vars, NEW x \in SessionIds, session[x] # None
    PROVE  /\ session'[x] # None
           /\ session'[x].user = session[x].user
           /\ session'[x].key = session[x].key
           /\ session'[x].version = session[x].version
           /\ session[x].revoked => session'[x].revoked
           /\ ~SessionActive(x) => session'[x].expires = session[x].expires
<1>1. CASE session' = session
  BY <1>1
<1>2. ASSUME NEW u \in Users, NEW s \in SessionIds, NEW t \in TokenIds,
             CreateSession(u, s, t)
      PROVE  session'[x] = session[x]
  BY <1>2, CreateRows
<1>3. ASSUME NEW S \in SUBSET SessionIds, session' = SessionsRevoked(S)
      PROVE  /\ session'[x] # None
             /\ session'[x].user = session[x].user
             /\ session'[x].key = session[x].key
             /\ session'[x].version = session[x].version
             /\ session[x].revoked => session'[x].revoked
             /\ ~SessionActive(x) => session'[x].expires = session[x].expires
  BY <1>3, RevokedRows
<1>4. ASSUME NEW c \in ChallengeIds, NEW b \in SessionIds, NEW s \in SessionIds,
             NEW t \in TokenIds, ActivateDeviceSession(c, b, s, t)
      PROVE  /\ session'[x] # None
             /\ session'[x].user = session[x].user
             /\ session'[x].key = session[x].key
             /\ session'[x].version = session[x].version
             /\ session[x].revoked => session'[x].revoked
             /\ ~SessionActive(x) => session'[x].expires = session[x].expires
  BY <1>4, ActivateRows
<1>5. ASSUME NEW t \in TokenIds, NEW new \in TokenIds, Rotate(t, new)
      PROVE  /\ session'[x] # None
             /\ session'[x].user = session[x].user
             /\ session'[x].key = session[x].key
             /\ session'[x].version = session[x].version
             /\ session[x].revoked => session'[x].revoked
             /\ ~SessionActive(x) => session'[x].expires = session[x].expires
  BY <1>5, RotateRows
<1> QED
  BY <1>1, <1>2, <1>3, <1>4, <1>5, AuthShapes DEF AuthShape

(* The ways in which a step can change the pairing tables.                   *)
PairShape ==
    \/ /\ device' = device /\ grant' = grant
       /\ \A q \in PairIds : /\ IsApproved(q)' <=> IsApproved(q)
                             /\ IsApproved(q) => pairing'[q] = pairing[q]
    \/ \E p \in PairIds, days \in 1..GrantTTL : Approve(p, days)
    \/ \E k \in Keys : RevokeDevice(k)

(* Only an approval and a revocation change devices and grants, and nothing  *)
(* but an approval makes a request approved.                                 *)
LEMMA PairShapes == ASSUME TypeOK, [Next]_vars PROVE PairShape
<1>1. CASE UNCHANGED pairVars
  BY <1>1 DEF PairShape, pairVars, IsApproved
<1>2. ASSUME NEW p \in PairIds, NEW u \in Users, CreateChallenge(p, u)
      PROVE  PairShape
  <2>1. /\ \A q \in PairIds : q # p => pairing'[q] = pairing[q]
        /\ pairing'[p].status = "pending" /\ pairing[p] = None
    BY <1>2 DEF CreateChallenge, TypeOK
  <2> QED
    BY <1>2, <2>1 DEF CreateChallenge, PairShape, IsApproved
<1>3. ASSUME NEW p \in PairIds, NEW k \in Keys, SubmitProof(p, k)
      PROVE  PairShape
  <2>1. pairing[p] \in PairRow /\ pairing[p].status = "pending"
    BY <1>3 DEF SubmitProof, TypeOK
  <2>2. /\ \A q \in PairIds : q # p => pairing'[q] = pairing[q]
        /\ pairing'[p].status = "submitted"
    BY <1>3, <2>1 DEF SubmitProof, TypeOK, PairRow
  <2> QED
    BY <1>3, <2>1, <2>2 DEF SubmitProof, PairShape, IsApproved
<1>4. ASSUME NEW p \in PairIds, Deny(p) PROVE PairShape
  <2>1. pairing[p] \in PairRow /\ pairing[p].status = "submitted"
    BY <1>4 DEF Deny, TypeOK
  <2>2. /\ \A q \in PairIds : q # p => pairing'[q] = pairing[q]
        /\ pairing'[p].status = "denied"
    BY <1>4, <2>1 DEF Deny, TypeOK, PairRow
  <2> QED
    BY <1>4, <2>1, <2>2 DEF Deny, PairShape, IsApproved
<1>5. CASE SessionStep
  BY <1>1, <1>5 DEF SessionStep, CreateSession, RevokeSession,
                    RevokeAllSessionsForUser, Revoke
<1>6. CASE ActivationStep
  BY <1>1, <1>6 DEF ActivationStep, CreateDeviceSessionChallenge, ActivateDeviceSession
<1>7. CASE RefreshStep
  BY <1>1, <1>7 DEF RefreshStep, RotateReused, RotateGrantInvalid,
                    RotateUserInactive, Rotate, Revoke
<1>8. CASE PairingStep
  BY <1>2, <1>3, <1>4, <1>8 DEF PairingStep, PairShape
<1>9. CASE EnvironmentStep \/ UNCHANGED vars
  BY <1>1, <1>9 DEF EnvironmentStep, Tick, DisableUser, ChangeTransport, vars
<1> QED
  BY <1>5, <1>6, <1>7, <1>8, <1>9 DEF Next

-----------------------------------------------------------------------------
(* An activation binds its session to the newest grant of a live device, and *)
(* whatever makes that grant older revokes the session in the same step.     *)
LEMMA NewestGrantStep ==
    ASSUME TypeOK, LiveSessionsHoldNewestGrant, DeviceIdentityFixed, [Next]_vars
    PROVE  LiveSessionsHoldNewestGrant'
<1>0. /\ \A x \in SessionIds : session[x] # None =>
           /\ session[x].key \in Keys \cup {None} /\ session[x].version \in Nat
      /\ \A k \in Keys : Len(grant[k]) \in Nat
  BY DEF TypeOK, SessionRow
<1>1. CASE device' = device /\ grant' = grant
  <2> SUFFICES ASSUME NEW x \in SessionIds, session'[x] # None,
                      ~session'[x].revoked, session'[x].key # None
               PROVE  LET k == session'[x].key IN
                         /\ device[k] # None /\ ~device[k].revoked
                         /\ session'[x].version = Len(grant[k])
                         /\ session'[x].user = device[k].user
    BY <1>1 DEF LiveSessionsHoldNewestGrant, IsBootstrap
  <2>1. CASE session[x] # None
    BY <2>1, SessionsOnlyAge DEF LiveSessionsHoldNewestGrant, IsBootstrap
  <2>2. CASE session[x] = None
    <3>1. ~(session' = session)
      BY <2>2
    <3>2. ASSUME NEW S \in SUBSET SessionIds, session' = SessionsRevoked(S) PROVE FALSE
      BY <2>2, <3>2, RevokedRows
    <3>3. ASSUME NEW u \in Users, NEW s \in SessionIds, NEW t \in TokenIds,
                 CreateSession(u, s, t)
          PROVE  FALSE
      <4>1. NewSession(u, None, 0).key = None
        BY DEF NewSession
      <4> QED
        BY <2>2, <3>3, <4>1, CreateRows
    <3>4. ASSUME NEW t \in TokenIds, NEW new \in TokenIds, Rotate(t, new) PROVE FALSE
      BY <2>2, <3>4, RotateRows
    <3>5. ASSUME NEW c \in ChallengeIds, NEW b \in SessionIds, NEW s \in SessionIds,
                 NEW t \in TokenIds, ActivateDeviceSession(c, b, s, t)
          PROVE  LET k == session'[x].key IN
                   /\ device[k] # None /\ ~device[k].revoked
                   /\ session'[x].version = Len(grant[k])
                   /\ session'[x].user = device[k].user
      <4>1. x = s /\ session'[x] = Activated(c, b)
        BY <2>2, <3>5, ActivateRows
      <4>2. /\ session'[x].user = session[b].user /\ session'[x].key = challenge[c].key
            /\ session'[x].version = challenge[c].version
        BY <4>1 DEF Activated, NewSession
      <4>3. GrantActive(session[b].user, challenge[c].key, challenge[c].version)
        BY <3>5 DEF ActivateDeviceSession, Activatable
      <4> QED
        BY <4>2, <4>3 DEF GrantActive
    <3> QED
      BY <3>1, <3>2, <3>3, <3>4, <3>5, AuthShapes DEF AuthShape
  <2> QED
    BY <2>1, <2>2
<1>2. ASSUME NEW p \in PairIds, NEW days \in 1..GrantTTL, Approve(p, days) PROVE LiveSessionsHoldNewestGrant'
  <2> SUFFICES ASSUME NEW x \in SessionIds, session'[x] # None,
                      ~session'[x].revoked, session'[x].key # None
               PROVE  LET k == session'[x].key IN
                         /\ device'[k] # None /\ ~device'[k].revoked
                         /\ session'[x].version = Len(grant'[k])
                         /\ session'[x].user = device'[k].user
    BY DEF LiveSessionsHoldNewestGrant, IsBootstrap
  <2>1. PICK S \in SUBSET SessionIds :
          session' = SessionsRevoked(S)
          /\ S = SupersededSessions(pairing[p].key, Len(grant[pairing[p].key]) + 1)
    BY <1>2 DEF Approve, NextVersion, SupersededSessions
  <2>2. /\ session[x] # None /\ ~session[x].revoked /\ x \notin S
        /\ session'[x].key = session[x].key /\ session'[x].version = session[x].version
        /\ session'[x].user = session[x].user
    BY <2>1, RevokedRows
  <2>3. LET k == session[x].key IN
          /\ device[k] # None /\ ~device[k].revoked
          /\ session[x].version = Len(grant[k])
          /\ session[x].user = device[k].user
    BY <2>2 DEF LiveSessionsHoldNewestGrant, IsBootstrap
  <2>4. ASSUME session[x].key = pairing[p].key PROVE FALSE
    <3>1. session[x].version = Len(grant[pairing[p].key]) /\ Len(grant[pairing[p].key]) \in Nat
      BY <1>0, <1>2, <2>3, <2>4, ApproveRows
    <3>2. session[x].version < Len(grant[pairing[p].key]) + 1
      BY <3>1
    <3> QED
      BY <2>1, <2>2, <2>4, <3>2 DEF SupersededSessions
  <2> QED
    BY <1>0, <1>2, <2>2, <2>3, <2>4, ApproveRows
<1>3. ASSUME NEW k \in Keys, RevokeDevice(k) PROVE LiveSessionsHoldNewestGrant'
  <2> SUFFICES ASSUME NEW x \in SessionIds, session'[x] # None,
                      ~session'[x].revoked, session'[x].key # None
               PROVE  LET j == session'[x].key IN
                         /\ device'[j] # None /\ ~device'[j].revoked
                         /\ session'[x].version = Len(grant'[j])
                         /\ session'[x].user = device'[j].user
    BY DEF LiveSessionsHoldNewestGrant, IsBootstrap
  <2>1. PICK S \in SUBSET SessionIds :
          session' = SessionsRevoked(S) /\ S = SessionsOfDevice(k)
    BY <1>3 DEF RevokeDevice, SessionsOfDevice
  <2>2. /\ session[x] # None /\ ~session[x].revoked /\ x \notin S
        /\ session'[x].key = session[x].key /\ session'[x].version = session[x].version
        /\ session'[x].user = session[x].user
    BY <2>1, RevokedRows
  <2>3. session[x].key # k
    BY <2>1, <2>2 DEF SessionsOfDevice
  <2>4. LET j == session[x].key IN
          /\ device[j] # None /\ ~device[j].revoked
          /\ session[x].version = Len(grant[j])
          /\ session[x].user = device[j].user
    BY <2>2 DEF LiveSessionsHoldNewestGrant, IsBootstrap
  <2>5. PICK j \in Keys : j = session[x].key /\ j # k
    BY <1>0, <2>2, <2>3
  <2>6. device'[j] = device[j] /\ grant'[j] = grant[j]
    BY <1>3, <2>5, RevokeDeviceRows
  <2> QED
    BY <2>2, <2>4, <2>5, <2>6
<1> QED
  BY <1>1, <1>2, <1>3, PairShapes DEF PairShape

-----------------------------------------------------------------------------
(* The ways in which a step can change the challenge table.                  *)
ChallengeShape ==
    \/ challenge' = challenge
    \/ \E c \in ChallengeIds, s \in SessionIds, k \in Keys :
         \E v \in DOMAIN grant[k] : CreateDeviceSessionChallenge(c, s, k, v)
    \/ \E c \in ChallengeIds, b, s \in SessionIds, t \in TokenIds :
         ActivateDeviceSession(c, b, s, t)

(* Every step changes the challenge table in one of those ways.              *)
LEMMA ChallengeShapes == ASSUME [Next]_vars PROVE ChallengeShape
<1>1. CASE SessionStep
  BY <1>1 DEF SessionStep, CreateSession, RevokeSession, RevokeAllSessionsForUser,
              Revoke, ChallengeShape
<1>2. CASE ActivationStep
  BY <1>2 DEF ActivationStep, ChallengeShape
<1>3. CASE RefreshStep
  BY <1>3 DEF RefreshStep, RotateReused, RotateGrantInvalid, RotateUserInactive,
              Rotate, Revoke, ChallengeShape
<1>4. CASE PairingStep
  BY <1>4 DEF PairingStep, CreateChallenge, SubmitProof, Approve, Deny,
              RevokeDevice, authVars, ChallengeShape
<1>5. CASE EnvironmentStep \/ UNCHANGED vars
  BY <1>5 DEF EnvironmentStep, Tick, DisableUser, ChangeTransport, vars,
              authVars, ChallengeShape
<1> QED
  BY <1>1, <1>2, <1>3, <1>4, <1>5 DEF Next

(* An exchanged challenge stays as it is, and an activation exchanges a      *)
(* challenge whose bootstrap session and replacement no other one names.     *)
LEMMA ExchangeStep ==
    ASSUME TypeOK, BootstrapExchangedOnce, [Next]_vars
    PROVE  BootstrapExchangedOnce'
<1> DEFINE Good(c) ==
      LET b == challenge[c].bootstrap
          s == challenge[c].replacement
      IN  /\ session[b] # None /\ session[b].key = None /\ session[b].revoked
          /\ session[s] # None
          /\ session[s].user = session[b].user
          /\ session[s].key = challenge[c].key
          /\ session[s].version = challenge[c].version
<1>0. \A c \in ChallengeIds : Exchanged(c) =>
        /\ challenge[c].bootstrap \in SessionIds
        /\ challenge[c].replacement \in SessionIds
        /\ Good(c)
  BY DEF TypeOK, ChallengeRow, Exchanged, BootstrapExchangedOnce, IsBootstrap
<1>1. ASSUME NEW c \in ChallengeIds, Exchanged(c), challenge'[c] = challenge[c]
      PROVE  LET b == challenge[c].bootstrap
                 s == challenge[c].replacement
             IN  /\ session'[b] # None /\ session'[b].key = None /\ session'[b].revoked
                 /\ session'[s] # None
                 /\ session'[s].user = session'[b].user
                 /\ session'[s].key = challenge[c].key
                 /\ session'[s].version = challenge[c].version
  BY <1>0, <1>1, SessionsOnlyAge
<1>2. ASSUME \A c \in ChallengeIds : /\ Exchanged(c)' <=> Exchanged(c)
                                     /\ Exchanged(c) => challenge'[c] = challenge[c]
      PROVE  BootstrapExchangedOnce'
  BY <1>1, <1>2 DEF BootstrapExchangedOnce, IsBootstrap
<1>3. CASE challenge' = challenge
  BY <1>2, <1>3 DEF Exchanged
<1>4. ASSUME NEW c \in ChallengeIds, NEW s \in SessionIds, NEW k \in Keys,
             NEW v \in DOMAIN grant[k], CreateDeviceSessionChallenge(c, s, k, v)
      PROVE  BootstrapExchangedOnce'
  <2>1. /\ challenge[c] = None /\ challenge'[c].replacement = None
        /\ \A d \in ChallengeIds : d # c => challenge'[d] = challenge[d]
    BY <1>4 DEF CreateDeviceSessionChallenge, TypeOK
  <2> QED
    BY <1>2, <2>1 DEF Exchanged
<1>5. ASSUME NEW c \in ChallengeIds, NEW b \in SessionIds, NEW s \in SessionIds,
             NEW t \in TokenIds, ActivateDeviceSession(c, b, s, t)
      PROVE  BootstrapExchangedOnce'
  <2>1. /\ challenge[c] # None /\ challenge[c] \in ChallengeRow
        /\ challenge[c].bootstrap = b /\ challenge[c].replacement = None
        /\ session[b] # None /\ ~session[b].revoked /\ session[b].key = None
        /\ session[s] = None
    BY <1>5 DEF ActivateDeviceSession, Activatable, SessionActive, IsBootstrap, TypeOK
  <2>2. /\ challenge'[c].bootstrap = b /\ challenge'[c].replacement = s
        /\ challenge'[c].key = challenge[c].key
        /\ challenge'[c].version = challenge[c].version
        /\ \A d \in ChallengeIds : d # c => challenge'[d] = challenge[d]
    BY <1>5, <2>1 DEF ActivateDeviceSession, TypeOK, ChallengeRow
  <2>3. /\ session'[b] # None /\ session'[b].key = None /\ session'[b].revoked
        /\ session'[b].user = session[b].user
        /\ session'[s] # None /\ session'[s] = Activated(c, b)
    BY <1>5, <2>1, ActivateRows
  <2>4. /\ session'[s].user = session'[b].user
        /\ session'[s].key = challenge'[c].key
        /\ session'[s].version = challenge'[c].version
    BY <2>2, <2>3 DEF Activated, NewSession
  <2>5. \A d \in ChallengeIds : Exchanged(d) => challenge[d].bootstrap # b
                                               /\ challenge[d].replacement # s
    BY <1>0, <2>1
  <2>6. \A d \in ChallengeIds : d # c =>
            (Exchanged(d)' <=> Exchanged(d))
    BY <2>2 DEF Exchanged
  <2> SUFFICES ASSUME NEW x \in ChallengeIds, Exchanged(x)'
               PROVE  LET a == challenge'[x].bootstrap
                          r == challenge'[x].replacement
                      IN  /\ session'[a] # None /\ session'[a].key = None
                          /\ session'[a].revoked /\ session'[r] # None
                          /\ session'[r].user = session'[a].user
                          /\ session'[r].key = challenge'[x].key
                          /\ session'[r].version = challenge'[x].version
                          /\ \A d \in ChallengeIds :
                               /\ Exchanged(d)'
                               /\ challenge'[d].bootstrap = a \/ challenge'[d].replacement = r
                               => d = x
    BY DEF BootstrapExchangedOnce, IsBootstrap
  <2>7. CASE x = c
    BY <2>2, <2>3, <2>4, <2>5, <2>6, <2>7
  <2>8. CASE x # c
    <3>1. Exchanged(x) /\ challenge'[x] = challenge[x]
      BY <2>2, <2>6, <2>8
    <3>2. \A d \in ChallengeIds :
            /\ Exchanged(d)'
            /\ challenge'[d].bootstrap = challenge[x].bootstrap
               \/ challenge'[d].replacement = challenge[x].replacement
            => d = x
      <4>1. \A d \in ChallengeIds :
              /\ Exchanged(d)
              /\ challenge[d].bootstrap = challenge[x].bootstrap
                 \/ challenge[d].replacement = challenge[x].replacement
              => d = x
        BY <3>1 DEF BootstrapExchangedOnce
      <4> QED
        BY <2>2, <2>5, <2>6, <3>1, <4>1
    <3> QED
      BY <1>1, <3>1, <3>2
  <2> QED
    BY <2>7, <2>8
<1> QED
  BY <1>3, <1>4, <1>5, ChallengeShapes DEF ChallengeShape

-----------------------------------------------------------------------------
(* The approval that adds a grant version is the only one that names it.     *)
LEMMA ApprovalStep ==
    ASSUME TypeOK, EveryGrantWasApproved, ApprovedNamesGrant, [Next]_vars
    PROVE  EveryGrantWasApproved' /\ ApprovedNamesGrant'
<1>0. \A q \in PairIds : IsApproved(q) => pairing[q].key \in Keys
  BY DEF TypeOK, PairRow, IsApproved
<1>1. CASE /\ device' = device /\ grant' = grant
           /\ \A q \in PairIds : /\ IsApproved(q)' <=> IsApproved(q)
                                 /\ IsApproved(q) => pairing'[q] = pairing[q]
  <2>1. ApprovedNamesGrant'
    BY <1>1 DEF ApprovedNamesGrant
  <2>2. EveryGrantWasApproved'
    <3> SUFFICES ASSUME NEW k \in Keys, NEW v \in DOMAIN grant[k]
                 PROVE  \E p \in PairIds :
                          /\ IsApproved(p)' /\ pairing'[p].key = k /\ pairing'[p].version = v
                          /\ pairing'[p].user = grant[k][v].user
                          /\ \A q \in PairIds : IsApproved(q)' /\ pairing'[q].key = k
                                                /\ pairing'[q].version = v => q = p
      BY <1>1 DEF EveryGrantWasApproved
    <3>1. PICK p \in PairIds :
            /\ IsApproved(p) /\ pairing[p].key = k /\ pairing[p].version = v
            /\ pairing[p].user = grant[k][v].user
            /\ \A q \in PairIds : IsApproved(q) /\ pairing[q].key = k
                                  /\ pairing[q].version = v => q = p
      BY DEF EveryGrantWasApproved
    <3> QED
      BY <1>1, <3>1
  <2> QED
    BY <2>1, <2>2
<1>2. ASSUME NEW p \in PairIds, NEW days \in 1..GrantTTL, Approve(p, days)
      PROVE  EveryGrantWasApproved' /\ ApprovedNamesGrant'
  <2>1. PICK k \in Keys : k = pairing[p].key
    BY <1>2, ApproveRows
  <2>2. /\ ~IsApproved(p) /\ IsApproved(p)'
        /\ pairing'[p].key = k /\ pairing'[p].user = pairing[p].user
        /\ pairing'[p].version = Len(grant[k]) + 1
        /\ \A q \in PairIds : q # p => pairing'[q] = pairing[q]
    BY <1>2, <2>1, ApproveRows DEF IsApproved
  <2>3. \A q \in PairIds : q # p => (IsApproved(q)' <=> IsApproved(q))
    BY <2>2 DEF IsApproved
  <2>4. /\ Len(grant[k]) \in Nat /\ DOMAIN grant[k] = 1..Len(grant[k])
        /\ DOMAIN grant'[k] = 1..(Len(grant[k]) + 1)
        /\ \A v \in 1..Len(grant[k]) : grant'[k][v] = grant[k][v]
        /\ grant'[k][Len(grant[k]) + 1].user = pairing[p].user
        /\ \A x \in Keys : x # k => grant'[x] = grant[x]
    BY <1>2, <2>1, ApproveRows
  <2>5. ApprovedNamesGrant'
    <3> SUFFICES ASSUME NEW q \in PairIds, IsApproved(q)'
                 PROVE  pairing'[q].version \in DOMAIN grant'[pairing'[q].key]
      BY DEF ApprovedNamesGrant
    <3>1. CASE q = p
      BY <2>2, <2>4, <3>1
    <3>2. CASE q # p
      <4>1. /\ IsApproved(q) /\ pairing'[q] = pairing[q] /\ pairing[q].key \in Keys
            /\ pairing[q].version \in DOMAIN grant[pairing[q].key]
        BY <1>0, <2>2, <2>3, <3>2 DEF ApprovedNamesGrant
      <4>2. CASE pairing[q].key = k
        BY <2>4, <4>1, <4>2
      <4>3. CASE pairing[q].key # k
        BY <2>4, <4>1, <4>3
      <4> QED
        BY <4>2, <4>3
    <3> QED
      BY <3>1, <3>2
  <2>6. EveryGrantWasApproved'
    <3> SUFFICES ASSUME NEW x \in Keys, NEW v \in DOMAIN grant'[x]
                 PROVE  \E r \in PairIds :
                          /\ IsApproved(r)' /\ pairing'[r].key = x /\ pairing'[r].version = v
                          /\ pairing'[r].user = grant'[x][v].user
                          /\ \A q \in PairIds : IsApproved(q)' /\ pairing'[q].key = x
                                                /\ pairing'[q].version = v => q = r
      BY DEF EveryGrantWasApproved
    <3>1. CASE x = k /\ v = Len(grant[k]) + 1
      <4>1. ASSUME NEW q \in PairIds, q # p, IsApproved(q)', pairing'[q].key = k,
                   pairing'[q].version = v
            PROVE  FALSE
        <5>1. IsApproved(q) /\ pairing[q].key = k /\ pairing[q].version = v
          BY <2>2, <2>3, <4>1
        <5>2. v \in DOMAIN grant[k]
          BY <5>1 DEF ApprovedNamesGrant
        <5> QED
          BY <2>4, <3>1, <5>2
      <4> QED
        BY <2>2, <2>4, <3>1, <4>1
    <3>2. CASE ~(x = k /\ v = Len(grant[k]) + 1)
      <4>1. v \in DOMAIN grant[x] /\ grant'[x][v] = grant[x][v]
        <5>1. CASE x = k
          BY <2>4, <3>2, <5>1
        <5>2. CASE x # k
          BY <2>4, <5>2
        <5> QED
          BY <5>1, <5>2
      <4>2. PICK r \in PairIds :
              /\ IsApproved(r) /\ pairing[r].key = x /\ pairing[r].version = v
              /\ pairing[r].user = grant[x][v].user
              /\ \A q \in PairIds : IsApproved(q) /\ pairing[q].key = x
                                    /\ pairing[q].version = v => q = r
        BY <4>1 DEF EveryGrantWasApproved
      <4>3. r # p
        BY <2>2, <4>2
      <4> QED
        BY <2>2, <2>3, <3>2, <4>1, <4>2, <4>3
    <3> QED
      BY <3>1, <3>2
  <2> QED
    BY <2>5, <2>6
<1>3. ASSUME NEW k \in Keys, RevokeDevice(k)
      PROVE  EveryGrantWasApproved' /\ ApprovedNamesGrant'
  <2>1. pairing' = pairing
    BY <1>3 DEF RevokeDevice
  <2>2. \A x \in Keys : /\ DOMAIN grant'[x] = DOMAIN grant[x]
                        /\ \A v \in DOMAIN grant[x] : grant'[x][v].user = grant[x][v].user
    BY <1>3, RevokeDeviceRows
  <2>3. \A q \in PairIds : IsApproved(q)' <=> IsApproved(q)
    BY <2>1 DEF IsApproved
  <2>4. ApprovedNamesGrant'
    BY <1>0, <2>1, <2>2, <2>3 DEF ApprovedNamesGrant
  <2>5. EveryGrantWasApproved'
    BY <2>1, <2>2, <2>3 DEF EveryGrantWasApproved
  <2> QED
    BY <2>4, <2>5
<1> QED
  BY <1>1, <1>2, <1>3, PairShapes DEF PairShape

(* An approval adds a version under the identity the device already has, and *)
(* a revocation revokes the device and every version at once.                *)
LEMMA IdentityStep ==
    ASSUME TypeOK, DeviceIdentityFixed, [Next]_vars
    PROVE  DeviceIdentityFixed'
<1>1. CASE device' = device /\ grant' = grant
  BY <1>1 DEF DeviceIdentityFixed
<1>2. ASSUME NEW p \in PairIds, NEW days \in 1..GrantTTL, Approve(p, days) PROVE DeviceIdentityFixed'
  <2>1. PICK k \in Keys : k = pairing[p].key
    BY <1>2, ApproveRows
  <2> SUFFICES ASSUME NEW x \in Keys, NEW v \in DOMAIN grant'[x]
               PROVE  /\ device'[x] # None
                      /\ grant'[x][v].user = device'[x].user
                      /\ grant'[x][v].binding = device'[x].binding
                      /\ grant'[x][v].revoked <=> device'[x].revoked
    BY DEF DeviceIdentityFixed
  <2>2. CASE x # k
    BY <1>2, <2>1, <2>2, ApproveRows DEF DeviceIdentityFixed
  <2>3. CASE x = k /\ v = Len(grant[k]) + 1
    BY <1>2, <2>1, <2>3, ApproveRows
  <2>4. CASE x = k /\ v # Len(grant[k]) + 1
    <3>0. /\ Len(grant[k]) \in Nat /\ DOMAIN grant[k] = 1..Len(grant[k])
          /\ DOMAIN grant'[k] = 1..(Len(grant[k]) + 1)
          /\ \A i \in 1..Len(grant[k]) : grant'[k][i] = grant[k][i]
      BY <1>2, <2>1, ApproveRows
    <3>1. v \in DOMAIN grant[k] /\ grant'[k][v] = grant[k][v]
      BY <2>4, <3>0
    <3>2. /\ device[k] # None
          /\ grant[k][v].user = device[k].user
          /\ grant[k][v].binding = device[k].binding
          /\ grant[k][v].revoked <=> device[k].revoked
      BY <3>1 DEF DeviceIdentityFixed
    <3>3. device[k].user = pairing[p].user /\ device[k].binding = pairing[p].binding
          /\ ~device[k].revoked
      BY <1>2, <2>1, <3>2, ApproveRows
    <3>4. /\ device'[k] # None /\ device'[k].user = pairing[p].user
          /\ device'[k].binding = pairing[p].binding /\ ~device'[k].revoked
      BY <1>2, <2>1, ApproveRows
    <3> QED
      BY <2>4, <3>1, <3>2, <3>3, <3>4
  <2> QED
    BY <2>2, <2>3, <2>4
<1>3. ASSUME NEW k \in Keys, RevokeDevice(k) PROVE DeviceIdentityFixed'
  <2> SUFFICES ASSUME NEW x \in Keys, NEW v \in DOMAIN grant'[x]
               PROVE  /\ device'[x] # None
                      /\ grant'[x][v].user = device'[x].user
                      /\ grant'[x][v].binding = device'[x].binding
                      /\ grant'[x][v].revoked <=> device'[x].revoked
    BY DEF DeviceIdentityFixed
  <2>1. CASE x # k
    <3>1. device'[x] = device[x] /\ grant'[x] = grant[x]
      BY <1>3, <2>1, RevokeDeviceRows
    <3>2. v \in DOMAIN grant[x]
      BY <3>1
    <3> QED
      BY <3>1, <3>2 DEF DeviceIdentityFixed
  <2>2. CASE x = k
    <3>1. v \in DOMAIN grant[k]
      BY <1>3, <2>2, RevokeDeviceRows
    <3>2. /\ grant[k][v].user = device[k].user
          /\ grant[k][v].binding = device[k].binding
      BY <3>1 DEF DeviceIdentityFixed
    <3> QED
      BY <1>3, <2>2, <3>1, <3>2, RevokeDeviceRows
  <2> QED
    BY <2>1, <2>2
<1> QED
  BY <1>1, <1>2, <1>3, PairShapes DEF PairShape

-----------------------------------------------------------------------------
(* The inductive invariant.                                                  *)

(* It holds of the empty database.                                           *)
LEMMA InitInv == Init => IInv
<1> SUFFICES ASSUME Init PROVE IInv
  OBVIOUS
<1>1. TypeOK
  BY TimeAssumption DEF Init, TypeOK
<1> QED
  BY <1>1 DEF Init, IInv, RevocationReachesFamily, OneHeadPerFamily,
     LiveSessionsHoldNewestGrant, BootstrapExchangedOnce, EveryGrantWasApproved,
     DeviceIdentityFixed, ApprovedNamesGrant, IsApproved, Exchanged

(* Every step keeps it.                                                      *)
LEMMA StepInv == IInv /\ [Next]_vars => IInv'
BY TypeStep, FamilyStep, HeadStep, NewestGrantStep, ExchangeStep, ApprovalStep,
   IdentityStep DEF IInv

(* Every reachable database satisfies the whole invariant.                   *)
THEOREM Invariance == Spec => []IInv
BY InitInv, StepInv, PTL DEF Spec

(* Rows keep their types: in particular a paired session's version, the      *)
(* MAX+1 grant versions and every expiry stay natural numbers.               *)
THEOREM TypeCorrect == Spec => []TypeOK
<1>1. IInv => TypeOK
  BY DEF IInv
<1> QED
  BY <1>1, Invariance, PTL

(* Revoking a session revokes its refresh tokens and conversely, in every    *)
(* reachable database.                                                       *)
THEOREM FamiliesRevokedTogether == Spec => []RevocationReachesFamily
<1>1. IInv => RevocationReachesFamily
  BY DEF IInv
<1> QED
  BY <1>1, Invariance, PTL

(* A usable session has exactly one usable refresh token.                    *)
THEOREM OneRefreshToken == Spec => []OneHeadPerFamily
<1>1. IInv => OneHeadPerFamily
  BY DEF IInv
<1> QED
  BY <1>1, Invariance, PTL

(* No superseded or revoked grant leaves a session usable.                   *)
THEOREM NoStaleSession == Spec => []LiveSessionsHoldNewestGrant
<1>1. IInv => LiveSessionsHoldNewestGrant
  BY DEF IInv
<1> QED
  BY <1>1, Invariance, PTL

(* A password session is exchanged for at most one paired session.           *)
THEOREM ExchangedAtMostOnce == Spec => []BootstrapExchangedOnce
<1>1. IInv => BootstrapExchangedOnce
  BY DEF IInv
<1> QED
  BY <1>1, Invariance, PTL

(* Every grant version goes back to one approval of the owner.               *)
THEOREM GrantsAreApproved == Spec => []EveryGrantWasApproved
<1>1. IInv => EveryGrantWasApproved
  BY DEF IInv
<1> QED
  BY <1>1, Invariance, PTL

(* A device never changes hands or transport, and its grants fall with it.   *)
THEOREM IdentityNeverChanges == Spec => []DeviceIdentityFixed
<1>1. IInv => DeviceIdentityFixed
  BY DEF IInv
<1> QED
  BY <1>1, Invariance, PTL

-----------------------------------------------------------------------------
(* What a single step may never do.                                          *)

(* The clock does not run backwards.                                         *)
LEMMA ClockStep ==
    ASSUME TypeOK, [Next]_vars
    PROVE  now \in Nat /\ now' \in Nat /\ now <= now'
<1>1. now \in Nat
  BY TimeAssumption DEF TypeOK
<1>2. CASE now' = now
  BY <1>1, <1>2
<1>3. CASE Tick
  BY <1>1, <1>3 DEF Tick
<1>4. CASE SessionStep
  BY <1>2, <1>4 DEF SessionStep, CreateSession, RevokeSession,
                    RevokeAllSessionsForUser, Revoke, envVars
<1>5. CASE ActivationStep
  BY <1>2, <1>5 DEF ActivationStep, CreateDeviceSessionChallenge,
                    ActivateDeviceSession, envVars
<1>6. CASE RefreshStep
  BY <1>2, <1>6 DEF RefreshStep, RotateReused, RotateGrantInvalid,
                    RotateUserInactive, Rotate, Revoke, envVars
<1>7. CASE PairingStep
  BY <1>2, <1>7 DEF PairingStep, CreateChallenge, SubmitProof, Approve, Deny,
                    RevokeDevice, envVars
<1> QED
  BY <1>2, <1>3, <1>4, <1>5, <1>6, <1>7
     DEF Next, EnvironmentStep, DisableUser, ChangeTransport, vars, envVars

(* A session that was revoked or that expired is never usable again.         *)
THEOREM NoRevival == Spec => EndedSessionsStayEnded
<1>1. ASSUME IInv, [Next]_vars
      PROVE  \A s \in SessionIds :
               session[s] # None /\ ~SessionActive(s) => ~SessionActive(s)'
  <2> SUFFICES ASSUME NEW s \in SessionIds, session[s] # None, ~SessionActive(s)
               PROVE  ~SessionActive(s)'
    OBVIOUS
  <2>1. TypeOK
    BY <1>1 DEF IInv
  <2>2. session[s].revoked \/ now >= session[s].expires
    BY <2>1, TimeAssumption DEF SessionActive, TypeOK, SessionRow
  <2>3. /\ session'[s] # None
        /\ session[s].revoked => session'[s].revoked
        /\ session'[s].expires = session[s].expires
    BY <1>1, <2>1, SessionsOnlyAge
  <2>4. now <= now' /\ now \in Nat /\ now' \in Nat /\ session[s].expires \in Nat
    BY <1>1, <2>1, ClockStep DEF TypeOK, SessionRow
  <2> QED
    BY <2>2, <2>3, <2>4 DEF SessionActive
<1> QED
  BY <1>1, Invariance, PTL DEF Spec, EndedSessionsStayEnded

(* The unrevoked sessions that a step revokes all belong to one user: they    *)
(* are one session, the sessions of one user, or the sessions of one device,  *)
(* which LiveSessionsHoldNewestGrant ties to the device's user.               *)
LEMMA GoneStep ==
    ASSUME IInv, [Next]_vars,
           NEW x \in SessionIds, session[x] # None, ~session[x].revoked, session'[x].revoked,
           NEW y \in SessionIds, session[y] # None, ~session[y].revoked, session'[y].revoked
    PROVE  session[x].user = session[y].user
<1>0. TypeOK
  BY DEF IInv
<1>1. ASSUME NEW S, session' = SessionsRevoked(S) PROVE x \in S /\ y \in S
  BY <1>0, <1>1, RevokedRows
<1>2. ASSUME NEW s, Revoke({s}) PROVE x = s /\ y = s
  BY <1>1, <1>2 DEF Revoke
<1>3. ASSUME NEW k \in Keys, session[x].key = k, session[y].key = k
      PROVE  session[x].user = session[y].user
  <2>1. k # None
    BY NoneAssumption
  <2> QED
    BY <1>3, <2>1 DEF IInv, LiveSessionsHoldNewestGrant, IsBootstrap
<1>4. CASE session' = session
  BY <1>4
<1>5. CASE SessionStep
  <2>1. ASSUME NEW u \in Users, NEW s \in SessionIds, NEW t \in TokenIds,
               CreateSession(u, s, t)
        PROVE  FALSE
    <3>1. NewSession(u, None, 0).revoked = FALSE
      BY DEF NewSession
    <3> QED
      BY <1>0, <2>1, <3>1, CreateRows
  <2>2. ASSUME NEW u \in Users, RevokeAllSessionsForUser(u)
        PROVE  session[x].user = session[y].user
    <3>1. x \in SessionsOfUser(u) /\ y \in SessionsOfUser(u)
      BY <1>1, <2>2 DEF RevokeAllSessionsForUser, Revoke
    <3> QED
      BY <3>1 DEF SessionsOfUser
  <2> QED
    BY <1>2, <1>5, <2>1, <2>2 DEF SessionStep, RevokeSession
<1>6. CASE ActivationStep
  <2>1. ASSUME NEW c \in ChallengeIds, NEW b \in SessionIds, NEW s \in SessionIds,
               NEW t \in TokenIds, ActivateDeviceSession(c, b, s, t)
        PROVE  x = b /\ y = b
    BY <1>0, <2>1, ActivateRows
  <2> QED
    BY <1>4, <1>6, <2>1 DEF ActivationStep, CreateDeviceSessionChallenge
<1>7. CASE RefreshStep
  <2>1. ASSUME NEW t \in TokenIds, NEW new \in TokenIds, Rotate(t, new) PROVE FALSE
    BY <1>0, <2>1, RotateRows
  <2> QED
    BY <1>2, <1>7, <2>1 DEF RefreshStep, RotateReused, RotateGrantInvalid,
                            RotateUserInactive
<1>8. CASE PairingStep
  <2>1. ASSUME NEW p \in PairIds, NEW days \in 1..GrantTTL, Approve(p, days)
        PROVE  session[x].user = session[y].user
    <3>1. PICK k \in Keys : k = pairing[p].key
      BY <1>0, <2>1, ApproveRows
    <3>2. x \in SupersededSessions(k, Len(grant[k]) + 1)
          /\ y \in SupersededSessions(k, Len(grant[k]) + 1)
      BY <1>1, <2>1, <3>1 DEF Approve, NextVersion
    <3> QED
      BY <1>3, <3>2 DEF SupersededSessions
  <2>2. ASSUME NEW k \in Keys, RevokeDevice(k)
        PROVE  session[x].user = session[y].user
    <3>1. x \in SessionsOfDevice(k) /\ y \in SessionsOfDevice(k)
      BY <1>1, <2>2 DEF RevokeDevice
    <3> QED
      BY <1>3, <3>1 DEF SessionsOfDevice
  <2> QED
    BY <1>4, <1>8, <2>1, <2>2 DEF PairingStep, CreateChallenge, SubmitProof, Deny, authVars
<1>9. CASE EnvironmentStep \/ UNCHANGED vars
  BY <1>4, <1>9 DEF EnvironmentStep, Tick, DisableUser, ChangeTransport, vars, authVars
<1> QED
  BY <1>5, <1>6, <1>7, <1>8, <1>9 DEF Next

(* One step never ends the sessions of two users.                            *)
THEOREM OnlyOneUserIsRevoked == Spec => RevocationStaysWithinUser
<1>1. ASSUME IInv, [Next]_vars
      PROVE  LET gone == {s \in SessionIds :
                      session[s] # None /\ ~session[s].revoked /\ session'[s].revoked}
             IN  \A r, s \in gone : session[r].user = session[s].user
  BY <1>1, GoneStep
<1> QED
  BY <1>1, Invariance, PTL DEF Spec, RevocationStaysWithinUser

=============================================================================

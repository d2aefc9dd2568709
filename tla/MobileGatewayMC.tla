--------------------------- MODULE MobileGatewayMC ---------------------------
(* Constants and initial states of the model-checked instances of           *)
(* MobileGateway.                                                           *)
EXTENDS MobileGateway, TLC

\* Identifiers are numbers and given out in order, since nothing but their
\* identity counts.
Ordered(row, ids) == \A i, j \in ids : i < j /\ row[j] # None => row[i] # None

IdsInOrder ==
    /\ Ordered(session, SessionIds)
    /\ Ordered(token, TokenIds)
    /\ Ordered(pairing, PairIds)

Symmetry == Permutations(Requests) \cup Permutations(Commands)

\* The database just after a phone logged in with a password as s0, was
\* paired by request p as k, and exchanged s0 for the paired session s1 by
\* answering challenge c, all at time 0.
PairedDatabase(u, k, b, s0, s1, t0, t1, c, p) ==
    /\ now = 0 /\ binding = b /\ active = Users
    /\ session = [s \in SessionIds |->
         IF s = s0 THEN [user |-> u, key |-> None, version |-> 0,
                         expires |-> RefreshTTL, revoked |-> TRUE]
         ELSE IF s = s1 THEN [user |-> u, key |-> k, version |-> 1,
                              expires |-> RefreshTTL, revoked |-> FALSE]
         ELSE None]
    /\ token = [t \in TokenIds |->
         IF t = t0 THEN [session |-> s0, expires |-> RefreshTTL,
                         consumed |-> FALSE, revoked |-> TRUE]
         ELSE IF t = t1 THEN [session |-> s1, expires |-> RefreshTTL,
                              consumed |-> FALSE, revoked |-> FALSE]
         ELSE None]
    /\ challenge = [d \in ChallengeIds |->
         IF d = c THEN [bootstrap |-> s0, key |-> k, version |-> 1,
                        expires |-> ChallengeTTL, replacement |-> s1]
         ELSE None]
    /\ pairing = [q \in PairIds |->
         IF q = p THEN [user |-> u, binding |-> b, expires |-> ChallengeTTL,
                        status |-> "approved", key |-> k, version |-> 1]
         ELSE None]
    /\ device = [x \in Keys |->
         IF x = k THEN [user |-> u, binding |-> b, revoked |-> FALSE] ELSE None]
    /\ grant = [x \in Keys |->
         IF x = k THEN <<[user |-> u, binding |-> b, expires |-> GrantTTL,
                          revoked |-> FALSE]>>
         ELSE <<>>]

PairedInit ==
    /\ \E u \in Users, k \in Keys, b \in Bindings, s0, s1 \in SessionIds,
          t0, t1 \in TokenIds, c \in ChallengeIds, p \in PairIds :
         s0 < s1 /\ t0 < t1 /\ PairedDatabase(u, k, b, s0, s1, t0, t1, c, p)
    /\ strong = [c \in StrongIds |-> None]
    /\ request = [r \in Requests |-> None]
    /\ executed = [c \in StrongIds |-> 0]

PairedSpec == PairedInit /\ [][GatewayNext]_allVars
=============================================================================

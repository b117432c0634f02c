------------------------- MODULE AuthService_proofs -------------------------
(***************************************************************************)
(* Proofs about the issuer check and the sessions of authService, for any  *)
(* number of requests, any traffic and any times of which two probes fit   *)
(* into the life of a verdict.                                             *)
(***************************************************************************)
EXTENDS AuthService, TLAPS

\* The clock and the history of the issuer.
WorldInv ==
    /\ now \in Nat
    /\ up \in BOOLEAN /\ member \in BOOLEAN
    /\ lastUp \in Int /\ lastBad \in Int /\ lastMember \in Int
    /\ lastUp <= now /\ lastBad <= now /\ lastMember <= now

\* What is asked was asked in the past, and its time is not up.
RequestInv ==
    /\ pc \in [Requests -> {"idle", "proxy"} \cup Probing \cup Fetching \cup Deciding]
    /\ began \in [Requests -> Nat] /\ since \in [Requests -> Nat]
    /\ result \in [Requests -> BOOLEAN]
    /\ \A r \in Requests :
         /\ began[r] <= now /\ since[r] <= now
         /\ pc[r] \in Probing => /\ began[r] <= since[r]
                                 /\ now <= since[r] + ProbeTimeout
         /\ pc[r] = "issuerProbe" => since[r] = began[r]
         /\ pc[r] = "discoveryProbe" => since[r] <= began[r] + ProbeTimeout
         /\ pc[r] \in Fetching => now <= since[r] + ClientTimeout

\* There is evidence for the stored verdict that is no older than its time.
VerdictInv ==
    /\ reachable \in BOOLEAN
    /\ checkedAt \in Int /\ checkedAt <= now
    /\ reachable => UpSince(checkedAt)
    /\ ~reachable => BadSince(checkedAt)

\* The same for the group in the cookie, counted back from its expiry.
CookieInv ==
    /\ cookie \in [groups : BOOLEAN, expiresAt : Int]
    /\ cookie.expiresAt <= now + SessionTTL
    /\ cookie.groups => MemberSince(cookie.expiresAt - SessionTTL - ClientTimeout)

AuthInv == WorldInv /\ RequestInv /\ VerdictInv /\ CookieInv
           /\ VerdictFresh /\ RevokedGroupLosesAccess

\* The constants, as the proofs use them.
LEMMA Constants ==
    /\ IssuerCheckTTL \in Nat /\ ProbeTimeout \in Nat /\ ClientTimeout \in Nat
    /\ SessionTTL \in Nat /\ MaxTime \in Nat /\ Never \in Int
    /\ 2 * ProbeTimeout <= IssuerCheckTTL
BY AuthAssumption DEF AuthAssumption, Never

\* A service that was just started has asked nobody and believes nothing.
LEMMA AuthInvInit == Init => AuthInv
<1> SUFFICES ASSUME Init PROVE AuthInv
  OBVIOUS
<1> USE Constants DEF Init
<1>1. WorldInv
  BY DEF WorldInv, Never
<1>2. RequestInv
  <2>1. \A r \in Requests : pc[r] = "idle" /\ began[r] = 0 /\ since[r] = 0
    OBVIOUS
  <2>2. /\ pc \in [Requests -> {"idle", "proxy"} \cup Probing \cup Fetching \cup Deciding]
        /\ began \in [Requests -> Nat] /\ since \in [Requests -> Nat]
    OBVIOUS
  <2>3. result \in [Requests -> BOOLEAN]
    BY Zenon
  <2> QED BY <2>1, <2>2, <2>3 DEF RequestInv, Probing, Fetching
<1>3. VerdictInv
  <2>1. lastBad >= checkedAt /\ checkedAt \in Int /\ checkedAt <= now
    BY DEF Never
  <2>2. ~reachable /\ BadSince(checkedAt)
    BY <2>1 DEF BadSince
  <2> QED BY <2>1, <2>2 DEF VerdictInv
<1>4. CookieInv
  <2>1. cookie \in [groups : BOOLEAN, expiresAt : Int]
    BY DEF NoCookie
  <2>2. cookie.groups = FALSE /\ cookie.expiresAt = Never
    BY DEF NoCookie
  <2> QED BY <2>1, <2>2 DEF CookieInv, Never
<1>5. VerdictFresh /\ RevokedGroupLosesAccess
  BY DEF VerdictFresh, RevokedGroupLosesAccess
<1> QED BY <1>1, <1>2, <1>3, <1>4, <1>5 DEF AuthInv

\* The issuer's changes leave evidence behind, and time does not pass a
\* deadline or a decision.
LEMMA WorldKeepsAuthInv ==
    ASSUME AuthInv, Tick \/ IssuerChanges \/ MembershipChanges
    PROVE  AuthInv'
<1> USE Constants DEF AuthInv, service
<1>1. CASE IssuerChanges
  <2>1. WorldInv' BY <1>1 DEF IssuerChanges, WorldInv, Never
  <2>2. RequestInv' BY <1>1 DEF IssuerChanges, RequestInv
  <2>3. ASSUME NEW t \in Int, t <= now
        PROVE (UpSince(t) => UpSince(t)') /\ (BadSince(t) => BadSince(t)')
    BY <1>1, <2>3 DEF IssuerChanges, UpSince, BadSince, WorldInv
  <2>4. VerdictInv'
    BY <1>1, <2>3 DEF IssuerChanges, VerdictInv, UpSince, BadSince
  <2>5. CookieInv' /\ RevokedGroupLosesAccess'
    BY <1>1 DEF IssuerChanges, CookieInv, RevokedGroupLosesAccess, MemberSince
  <2>6. VerdictFresh'
    BY <1>1, <2>3 DEF IssuerChanges, VerdictFresh, WorldInv, UpSince, BadSince
  <2> QED BY <2>1, <2>2, <2>4, <2>5, <2>6
<1>2. CASE MembershipChanges
  <2>1. WorldInv' BY <1>2 DEF MembershipChanges, WorldInv, Never
  <2>2. RequestInv' BY <1>2 DEF MembershipChanges, RequestInv
  <2>3. ASSUME NEW t \in Int, t <= now PROVE MemberSince(t) => MemberSince(t)'
    BY <1>2, <2>3 DEF MembershipChanges, MemberSince, WorldInv
  <2>4. VerdictInv' /\ VerdictFresh'
    BY <1>2 DEF MembershipChanges, VerdictInv, VerdictFresh, UpSince, BadSince
  <2>5. CookieInv'
    BY <1>2, <2>3 DEF MembershipChanges, CookieInv, WorldInv, MemberSince
  <2>6. RevokedGroupLosesAccess'
    BY <1>2, <2>3 DEF MembershipChanges, RevokedGroupLosesAccess, WorldInv, MemberSince
  <2> QED BY <2>1, <2>2, <2>4, <2>5, <2>6
<1>3. CASE Tick
  <2>1. WorldInv' BY <1>3 DEF Tick, WorldInv, Never
  <2>2. RequestInv' BY <1>3 DEF Tick, RequestInv, WorldInv, ProbeDeadline
  <2>3. VerdictInv' BY <1>3 DEF Tick, VerdictInv, WorldInv, UpSince, BadSince
  <2>4. CookieInv' BY <1>3 DEF Tick, CookieInv, WorldInv, MemberSince
  <2>5. VerdictFresh' /\ RevokedGroupLosesAccess'
    BY <1>3 DEF Tick, VerdictFresh, RevokedGroupLosesAccess, Deciding
  <2> QED BY <2>1, <2>2, <2>3, <2>4, <2>5
<1> QED BY <1>1, <1>2, <1>3

\* A request that ends takes its times and its result with it.
LEMMA EndKeepsAuthInv ==
    ASSUME NEW r \in Requests, AuthInv, Over(r), UNCHANGED <<world, service>>
    PROVE  AuthInv'
<1> USE Constants DEF AuthInv, world, service, Over, Goto
<1>1. WorldInv' BY DEF WorldInv
<1>2. RequestInv' BY DEF RequestInv, WorldInv, Probing, Fetching, Deciding
<1>3. VerdictInv' BY DEF VerdictInv, UpSince, BadSince
<1>4. CookieInv' BY DEF CookieInv, MemberSince
<1>5. VerdictFresh' BY DEF VerdictFresh, UpSince, BadSince, RequestInv
<1>6. RevokedGroupLosesAccess' BY DEF RevokedGroupLosesAccess, MemberSince, RequestInv
<1> QED BY <1>1, <1>2, <1>3, <1>4, <1>5, <1>6

\* A request that goes on without a decision: it asks the issuer, or hands
\* over to the proxy.
LEMMA GoingOnKeepsAuthInv ==
    ASSUME NEW r \in Requests, AuthInv, NEW p \in {"proxy"} \cup Probing \cup Fetching,
           Goto(r, p), RequestInv', UNCHANGED <<world, reachable, checkedAt, cookie, result>>
    PROVE  AuthInv'
<1> USE Constants DEF AuthInv, world, Goto
<1>1. p # "verdict" /\ p # "granted"
  BY DEF Probing, Fetching
<1>2. WorldInv' BY DEF WorldInv
<1>3. VerdictInv' BY DEF VerdictInv, UpSince, BadSince
<1>4. CookieInv' BY DEF CookieInv, MemberSince
<1>5. VerdictFresh' BY <1>1 DEF VerdictFresh, UpSince, BadSince, RequestInv
<1>6. RevokedGroupLosesAccess' BY <1>1 DEF RevokedGroupLosesAccess, MemberSince, RequestInv
<1> QED BY <1>2, <1>3, <1>4, <1>5, <1>6

\* A check answered from the cache has evidence within the TTL, and one that
\* has to ask starts its clock.
LEMMA CheckKeepsAuthInv ==
    ASSUME NEW r \in Requests, AuthInv, pc[r] = "idle", CheckIssuer(r),
           UNCHANGED <<world, service>>
    PROVE  AuthInv'
<1> USE Constants DEF AuthInv, world, service
<1>1. CASE now - checkedAt <= IssuerCheckTTL
  <2>1. Decide(r, "verdict", reachable) /\ UNCHANGED <<began, since>>
    BY <1>1 DEF CheckIssuer
  <2> USE <2>1 DEF Decide, Goto
  <2>2. WorldInv' BY DEF WorldInv
  <2>3. RequestInv' BY DEF RequestInv, VerdictInv, Probing, Fetching, Deciding
  <2>4. VerdictInv' BY DEF VerdictInv, UpSince, BadSince
  <2>5. CookieInv' BY DEF CookieInv, MemberSince
  <2>6. IF reachable THEN UpSince(now - IssuerCheckTTL) ELSE BadSince(now - IssuerCheckTTL)
    BY <1>1 DEF VerdictInv, UpSince, BadSince, WorldInv
  <2>7. VerdictFresh' BY <2>6 DEF VerdictFresh, UpSince, BadSince, RequestInv, VerdictInv
  <2>8. RevokedGroupLosesAccess' BY DEF RevokedGroupLosesAccess, MemberSince, RequestInv
  <2> QED BY <2>2, <2>3, <2>4, <2>5, <2>7, <2>8
<1>2. CASE ~(now - checkedAt <= IssuerCheckTTL)
  <2>1. /\ Goto(r, "issuerProbe") /\ since' = [since EXCEPT ![r] = now]
        /\ began' = [began EXCEPT ![r] = now] /\ UNCHANGED result
    BY <1>2 DEF CheckIssuer, AskIssuer
  <2>2. RequestInv'
    BY <2>1 DEF Goto, RequestInv, WorldInv, Probing, Fetching
  <2> QED BY <2>1, <2>2, GoingOnKeepsAuthInv DEF Probing
<1> QED BY <1>1, <1>2

\* A verdict is stored with evidence that is no older than the check.
LEMMA StoreKeepsAuthInv ==
    ASSUME NEW r \in Requests, NEW v \in BOOLEAN, AuthInv, pc[r] \in Probing,
           StoreVerdict(r, v), (v => UpSince(began[r]))', (~v => BadSince(began[r]))',
           UNCHANGED <<now, up, lastUp, member, lastMember, endpoint, cookie, route,
                       began, since>>,
           lastBad' \in Int, lastBad' >= lastBad, lastBad' <= now
    PROVE  AuthInv' /\ checkedAt' >= checkedAt - 2 * ProbeTimeout
<1> USE Constants DEF AuthInv, StoreVerdict, Decide, Goto
<1>1. WorldInv' BY DEF WorldInv
<1>2. RequestInv' BY DEF RequestInv, Probing, Fetching, Deciding
<1>3. /\ began[r] \in Nat /\ began[r] <= now /\ now <= began[r] + 2 * ProbeTimeout
  BY DEF RequestInv, Probing, WorldInv
<1>4. VerdictInv' BY <1>3 DEF VerdictInv, WorldInv, UpSince, BadSince
<1>5. CookieInv' BY DEF CookieInv, MemberSince
<1>6. IF v THEN UpSince(now - IssuerCheckTTL)' ELSE BadSince(now - IssuerCheckTTL)'
  BY <1>3 DEF UpSince, BadSince, WorldInv
<1>7. VerdictFresh' BY <1>6 DEF VerdictFresh, UpSince, BadSince, RequestInv, WorldInv
<1>8. RevokedGroupLosesAccess' BY DEF RevokedGroupLosesAccess, MemberSince, RequestInv
<1>9. checkedAt' >= checkedAt - 2 * ProbeTimeout
  BY <1>3 DEF VerdictInv, WorldInv
<1> QED BY <1>1, <1>2, <1>4, <1>5, <1>7, <1>8, <1>9

\* A session is granted on a cookie that has not expired, or on an answer of
\* the issuer, which also replaces the cookie.
LEMMA GrantKeepsAuthInv ==
    ASSUME NEW r \in Requests, NEW g \in BOOLEAN, AuthInv,
           Decide(r, "granted", g),
           UNCHANGED <<world, reachable, checkedAt, began, since>>, CookieInv',
           g => MemberSince(now - SessionTTL - ClientTimeout)
    PROVE  AuthInv'
<1> USE Constants DEF AuthInv, world, Decide, Goto
<1>1. WorldInv' BY DEF WorldInv
<1>2. RequestInv' BY DEF RequestInv, Probing, Fetching, Deciding
<1>3. VerdictInv' BY DEF VerdictInv, UpSince, BadSince
<1>4. VerdictFresh' BY DEF VerdictFresh, UpSince, BadSince, RequestInv
<1>5. RevokedGroupLosesAccess' BY DEF RevokedGroupLosesAccess, MemberSince, RequestInv
<1> QED BY <1>1, <1>2, <1>3, <1>4, <1>5

\* Every step of a request keeps the evidence, and sets the time of the stored
\* verdict back by no more than two probes.
LEMMA RequestKeepsAuthInv ==
    ASSUME NEW r \in Requests, AuthInv, Request(r)
    PROVE  AuthInv' /\ checkedAt' >= checkedAt - 2 * ProbeTimeout
<1> USE Constants
<1>0. /\ checkedAt \in Int
      /\ UNCHANGED checkedAt => checkedAt' >= checkedAt - 2 * ProbeTimeout
  BY DEF AuthInv, VerdictInv
<1>1. CASE Discovery(r)
  BY <1>0, <1>1, CheckKeepsAuthInv DEF Discovery, service
<1>2. CASE IssuerAnswers(r)
  <2>1. RequestInv'
    BY <1>2 DEF IssuerAnswers, AskIssuer, Goto, world, AuthInv, RequestInv, WorldInv,
                Probing, Fetching
  <2> QED BY <1>0, <1>2, <2>1, GoingOnKeepsAuthInv
          DEF IssuerAnswers, AskIssuer, service, Probing
<1>3. CASE DiscoveryAnswers(r)
  <2>1. UpSince(began[r]) /\ began[r] \in Nat
    BY <1>3 DEF DiscoveryAnswers, UpSince, AuthInv, RequestInv, WorldInv, Probing
  <2>2. /\ pc[r] \in Probing /\ StoreVerdict(r, TRUE)
        /\ UNCHANGED <<now, up, lastUp, member, lastMember, endpoint, cookie, route,
                       began, since>>
        /\ UNCHANGED lastBad
    BY <1>3 DEF DiscoveryAnswers, world, Probing
  <2>3. UpSince(began[r])'
    BY <2>1, <2>2 DEF UpSince
  <2>4. lastBad' \in Int /\ lastBad' >= lastBad /\ lastBad' <= now
    BY <2>2 DEF AuthInv, WorldInv
  <2> QED BY <2>2, <2>3, <2>4, StoreKeepsAuthInv
<1>4. CASE ProbeFails(r)
  <2>1. BadSince(began[r]) /\ began[r] \in Nat
    BY <1>4 DEF ProbeFails, BadSince, AuthInv, RequestInv, WorldInv, Probing
  <2>2. /\ pc[r] \in Probing /\ StoreVerdict(r, FALSE)
        /\ UNCHANGED <<now, up, lastUp, member, lastMember, endpoint, cookie, route,
                       began, since>>
        /\ UNCHANGED lastBad
    BY <1>4 DEF ProbeFails, world
  <2>3. BadSince(began[r])'
    BY <2>1, <2>2 DEF BadSince
  <2>4. lastBad' \in Int /\ lastBad' >= lastBad /\ lastBad' <= now
    BY <2>2 DEF AuthInv, WorldInv
  <2> QED BY <2>2, <2>3, <2>4, StoreKeepsAuthInv
<1>5. CASE CheckAbandoned(r)
  <2>1. lastBad \in Int /\ lastBad <= now /\ now \in Nat /\ began[r] \in Nat /\ began[r] <= now
    BY DEF AuthInv, WorldInv, RequestInv
  <2>2. /\ pc[r] \in Probing /\ StoreVerdict(r, FALSE) /\ lastBad' = now
        /\ UNCHANGED <<now, up, lastUp, member, lastMember, endpoint, cookie, route,
                       began, since>>
    BY <1>5 DEF CheckAbandoned
  <2>3. BadSince(began[r])' /\ lastBad' \in Int /\ lastBad' >= lastBad /\ lastBad' <= now
    BY <2>1, <2>2 DEF BadSince
  <2> QED BY <2>2, <2>3, StoreKeepsAuthInv
<1>6. CASE Respond(r)
  <2>1. CASE Over(r)
    BY <1>0, <1>6, <2>1, EndKeepsAuthInv DEF Respond, service
  <2>2. CASE Goto(r, "proxy") /\ UNCHANGED <<route, began, since, result>>
    <3>1. RequestInv'
      BY <1>6, <2>2 DEF Respond, Goto, world, AuthInv, RequestInv, Probing, Fetching
    <3> QED BY <1>0, <1>6, <2>2, <3>1, GoingOnKeepsAuthInv DEF Respond, service
  <2> QED BY <1>6, <2>1, <2>2 DEF Respond
<1>7. CASE ProxyEnds(r) \/ FetchFails(r) \/ Serve(r)
  BY <1>0, <1>7, EndKeepsAuthInv DEF ProxyEnds, FetchFails, Serve, service
<1>8. CASE CookieValid /\ Decide(r, "granted", cookie.groups)
           /\ UNCHANGED <<world, service, began, since>>
  <2>1. cookie.groups \in BOOLEAN /\ cookie.expiresAt \in Int
    BY DEF AuthInv, CookieInv
  <2>2. cookie.groups => MemberSince(now - SessionTTL - ClientTimeout)
    BY <1>8, <2>1 DEF CookieValid, AuthInv, CookieInv, WorldInv, MemberSince
  <2>3. CookieInv'
    BY <1>8 DEF AuthInv, CookieInv, MemberSince, world, service
  <2> QED BY <1>0, <1>8, <2>1, <2>2, <2>3, GrantKeepsAuthInv DEF service
<1>9. CASE CookieRequest(r)
  BY <1>8, <1>9 DEF CookieRequest
<1>10. CASE Page(r)
  BY <1>0, <1>8, <1>10, CheckKeepsAuthInv DEF Page, service
<1>11. CASE BearerRequest(r)
  <2>1. PICK p \in Fetching : AskIssuer(r, p)
    BY <1>11 DEF BearerRequest, Fetching
  <2>2. RequestInv'
    BY <1>11, <2>1 DEF BearerRequest, AskIssuer, Goto, world, AuthInv, RequestInv,
                       WorldInv, Probing, Fetching
  <2> QED BY <1>0, <1>11, <2>1, <2>2, GoingOnKeepsAuthInv DEF BearerRequest, AskIssuer
<1>12. CASE EndpointFound(r)
  <2>1. RequestInv'
    BY <1>12 DEF EndpointFound, AskIssuer, Goto, world, AuthInv, RequestInv, WorldInv,
                 Probing, Fetching
  <2> QED BY <1>0, <1>12, <2>1, GoingOnKeepsAuthInv DEF EndpointFound, AskIssuer, Fetching
<1>13. CASE UserInfo(r)
  <2>1. PICK g \in BOOLEAN : /\ g => MemberSince(since[r])
                             /\ SetSessionCookie(g) /\ Decide(r, "granted", g)
    BY <1>13 DEF UserInfo, NewAuthSession
  <2>2. now \in Nat /\ since[r] \in Nat /\ now <= since[r] + ClientTimeout /\ lastMember \in Int
    BY <1>13 DEF UserInfo, AuthInv, RequestInv, WorldInv, Fetching
  <2>3. g => MemberSince(now - ClientTimeout)
    BY <2>1, <2>2 DEF MemberSince
  <2>4. UNCHANGED <<now, member, lastMember>>
    BY <1>13 DEF UserInfo, world
  <2>5. CookieInv'
    <3>1. cookie' = [groups |-> g, expiresAt |-> now + SessionTTL]
      BY <2>1 DEF SetSessionCookie
    <3>2. /\ cookie' \in [groups : BOOLEAN, expiresAt : Int]
          /\ cookie'.groups = g /\ cookie'.expiresAt = now + SessionTTL
      BY <3>1, <2>2
    <3>3. cookie'.groups => MemberSince(cookie.expiresAt - SessionTTL - ClientTimeout)'
      BY <2>2, <2>3, <2>4, <3>2 DEF MemberSince
    <3> QED BY <2>2, <2>4, <3>2, <3>3 DEF CookieInv
  <2>6. g => MemberSince(now - SessionTTL - ClientTimeout)
    BY <2>2, <2>3 DEF MemberSince
  <2> QED BY <1>0, <1>13, <2>1, <2>5, <2>6, GrantKeepsAuthInv DEF UserInfo
<1>14. CASE SignOut(r)
  <2> USE <1>14 DEF SignOut, world
  <2>1. cookie' \in [groups : BOOLEAN, expiresAt : Int] /\ cookie'.groups = FALSE
        /\ cookie'.expiresAt = Never
    BY DEF NoCookie
  <2>2. CookieInv' BY <2>1 DEF CookieInv, Never, AuthInv, WorldInv
  <2>3. WorldInv' /\ RequestInv' BY DEF AuthInv, WorldInv, RequestInv
  <2>4. VerdictInv' BY DEF AuthInv, VerdictInv, UpSince, BadSince
  <2>5. VerdictFresh' /\ RevokedGroupLosesAccess'
    BY DEF AuthInv, VerdictFresh, RevokedGroupLosesAccess, UpSince, BadSince, MemberSince
  <2> QED BY <1>0, <2>2, <2>3, <2>4, <2>5 DEF AuthInv
<1> QED BY <1>1, <1>2, <1>3, <1>4, <1>5, <1>6, <1>7, <1>9, <1>10, <1>11, <1>12, <1>13,
           <1>14 DEF Request

\* Every step keeps the invariant.
LEMMA AuthInvStep == AuthInv /\ [Next]_vars => AuthInv'
<1> SUFFICES ASSUME AuthInv, [Next]_vars PROVE AuthInv'
  OBVIOUS
<1>1. CASE Tick \/ IssuerChanges \/ MembershipChanges
  BY <1>1, WorldKeepsAuthInv
<1>2. CASE \E r \in Requests : Request(r)
  BY <1>2, RequestKeepsAuthInv
<1>3. CASE UNCHANGED vars
  BY <1>3 DEF vars, world, service, AuthInv, WorldInv, RequestInv, VerdictInv, CookieInv,
              VerdictFresh, RevokedGroupLosesAccess, UpSince, BadSince, MemberSince
<1> QED BY <1>1, <1>2, <1>3 DEF Next

\* The invariant holds throughout.
THEOREM AuthInvariant == Spec => []AuthInv
BY AuthInvInit, AuthInvStep, PTL DEF Spec

\* However many checks of the issuer overlap, and in whatever order they end,
\* every verdict a request acts on has evidence within IssuerCheckTTL
\* (issuerAndDiscoveryReachable).
THEOREM VerdictsFresh == Spec => []VerdictFresh
<1>1. AuthInv => VerdictFresh
  BY DEF AuthInv
<1> QED BY <1>1, AuthInvariant, PTL

\* A group the issuer no longer reports opens nothing after SessionTTL and the
\* timeout of one userinfo request, for any number of overlapping requests
\* (authenticateRequest, setSessionCookie, userInfoFromCookie).
THEOREM RevocationBounded == Spec => []RevokedGroupLosesAccess
<1>1. AuthInv => RevokedGroupLosesAccess
  BY DEF AuthInv
<1> QED BY <1>1, AuthInvariant, PTL

\* An older check that ends last sets the time of the verdict back by no more
\* than two probes (issuerAndDiscoveryReachable).
THEOREM VerdictRegressBounded == Spec => VerdictRegressBound
<1>1. AuthInv /\ [Next]_vars => [checkedAt' >= checkedAt - 2 * ProbeTimeout]_vars
  <2> SUFFICES ASSUME AuthInv, Next PROVE checkedAt' >= checkedAt - 2 * ProbeTimeout
    OBVIOUS
  <2>1. CASE Tick \/ IssuerChanges \/ MembershipChanges
    BY <2>1, Constants DEF Tick, IssuerChanges, MembershipChanges, service, AuthInv, VerdictInv
  <2> QED BY <2>1, RequestKeepsAuthInv DEF Next
<1> QED BY <1>1, AuthInvariant, PTL DEF Spec, VerdictRegressBound

\* What AuthInv does not say: the counters and the routes, that the times of the
\* past are in their ranges, and that an endpoint is known before it is used.
RestInv ==
    /\ changes \in 0..MaxChanges /\ traffic \in Traffic /\ now <= MaxTime
    /\ Never <= lastUp /\ Never <= lastBad /\ Never <= lastMember /\ Never <= checkedAt
    /\ endpoint \in BOOLEAN
    /\ Never <= cookie.expiresAt
    /\ route \in [Requests -> Routes]
    /\ \A r \in Requests : pc[r] = "userinfoFetch" => endpoint

\* Every step keeps it.
LEMMA RestInvStep == AuthInv /\ RestInv /\ [Next]_vars => RestInv'
<1> SUFFICES ASSUME AuthInv, RestInv, [Next]_vars PROVE RestInv'
  OBVIOUS
<1> USE Constants, AuthAssumption DEF AuthAssumption
<1>1. /\ now \in Nat /\ checkedAt \in Int /\ lastUp \in Int /\ lastBad \in Int
      /\ lastMember \in Int /\ began \in [Requests -> Nat] /\ Never <= 0
      /\ pc \in [Requests -> {"idle", "proxy"} \cup Probing \cup Fetching \cup Deciding]
  BY DEF AuthInv, WorldInv, RequestInv, VerdictInv, Never
<1>2. CASE UNCHANGED vars
  BY <1>2 DEF RestInv, vars, world, service
<1>3. CASE Tick \/ IssuerChanges \/ MembershipChanges
  BY <1>1, <1>3 DEF RestInv, Tick, IssuerChanges, MembershipChanges, service
<1>4. ASSUME NEW r \in Requests, Request(r) PROVE RestInv'
  <2> USE <1>1 DEF RestInv, world, service, Routes
  <2>1. CASE Discovery(r)
    BY <2>1 DEF Discovery, CheckIssuer, Decide, AskIssuer, Goto
  <2>2. CASE IssuerAnswers(r)
    BY <2>2 DEF IssuerAnswers, AskIssuer, Goto
  <2>3. CASE DiscoveryAnswers(r)
    BY <2>3 DEF DiscoveryAnswers, StoreVerdict, Decide, Goto
  <2>4. CASE ProbeFails(r)
    BY <2>4 DEF ProbeFails, StoreVerdict, Decide, Goto
  <2>5. CASE CheckAbandoned(r)
    BY <2>5 DEF CheckAbandoned, StoreVerdict, Decide, Goto
  <2>6. CASE Respond(r)
    BY <2>6 DEF Respond, Over, Goto
  <2>7. CASE ProxyEnds(r) \/ FetchFails(r) \/ Serve(r)
    BY <2>7 DEF ProxyEnds, FetchFails, Serve, Over, Goto
  <2>8. CASE CookieRequest(r)
    BY <2>8 DEF CookieRequest, Decide, Goto
  <2>9. CASE Page(r)
    BY <2>9 DEF Page, CheckIssuer, Decide, AskIssuer, Goto
  <2>10. CASE BearerRequest(r)
    BY <2>10 DEF BearerRequest, AskIssuer, Goto
  <2>11. CASE EndpointFound(r)
    BY <2>11 DEF EndpointFound, AskIssuer, Goto
  <2>12. CASE UserInfo(r)
    BY <2>12 DEF UserInfo, NewAuthSession, SetSessionCookie, Decide, Goto
  <2>13. CASE SignOut(r)
    BY <2>13 DEF SignOut, NoCookie
  <2> QED BY <1>4, <2>1, <2>2, <2>3, <2>4, <2>5, <2>6, <2>7, <2>8, <2>9, <2>10, <2>11, <2>12, <2>13 DEF Request
<1> QED BY <1>2, <1>3, <1>4 DEF Next

\* The state of the service keeps its type: no time lies in the future, no probe
\* is sent after its turn, and the userinfo endpoint is known before it is asked.
THEOREM TypeCorrect == Spec => []TypeOK
<1>1. Init => RestInv
  <2> SUFFICES ASSUME Init PROVE RestInv
    OBVIOUS
  <2>1. cookie.expiresAt = Never
    BY DEF Init, NoCookie
  <2>2. \A r \in Requests : pc[r] = "idle" /\ route[r] \in Routes
    BY DEF Init, Routes
  <2>3. /\ changes \in 0..MaxChanges /\ traffic \in Traffic /\ now <= MaxTime
        /\ Never <= lastUp /\ Never <= lastBad /\ Never <= lastMember /\ Never <= checkedAt
    BY Constants, AuthAssumption DEF AuthAssumption, Init
  <2>4. endpoint \in BOOLEAN /\ route \in [Requests -> Routes]
    BY DEF Init, Routes
  <2>5. Never <= cookie.expiresAt
    BY <2>1, Constants
  <2> QED BY <2>2, <2>3, <2>4, <2>5 DEF RestInv
<1>2. AuthInv /\ RestInv => TypeOK
  <2> SUFFICES ASSUME AuthInv, RestInv PROVE TypeOK
    OBVIOUS
  <2>1. /\ now \in 0..MaxTime /\ changes \in 0..MaxChanges /\ traffic \in Traffic
        /\ up \in BOOLEAN /\ member \in BOOLEAN
        /\ lastUp \in Never..now /\ lastBad \in Never..now /\ lastMember \in Never..now
    BY Constants DEF AuthInv, RestInv, WorldInv
  <2>2. /\ reachable \in BOOLEAN /\ checkedAt \in Never..now /\ endpoint \in BOOLEAN
    BY Constants DEF AuthInv, RestInv, WorldInv, VerdictInv
  <2>3. cookie.groups \in BOOLEAN /\ cookie.expiresAt \in Never..now + SessionTTL
    BY Constants DEF AuthInv, RestInv, WorldInv, CookieInv
  <2>4. \A r \in Requests :
         /\ began[r] \in 0..now /\ since[r] \in 0..now
         /\ pc[r] \in Probing => since[r] <= began[r] + ProbeTimeout
         /\ pc[r] = "userinfoFetch" => endpoint
    <3> TAKE r \in Requests
    <3>1. /\ now \in Nat /\ began[r] \in Nat /\ since[r] \in Nat
          /\ began[r] <= now /\ since[r] <= now
      BY DEF AuthInv, WorldInv, RequestInv
    <3>2. pc[r] \in Probing => since[r] <= began[r] + ProbeTimeout
      BY <3>1, Constants DEF AuthInv, RequestInv, Probing
    <3> QED BY <3>1, <3>2 DEF RestInv
  <2> QED BY <2>1, <2>2, <2>3, <2>4 DEF AuthInv, RestInv, RequestInv, TypeOK
<1> QED BY <1>1, <1>2, RestInvStep, AuthInvInit, AuthInvStep, AuthInvariant, PTL DEF Spec

=============================================================================

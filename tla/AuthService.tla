---------------------------- MODULE AuthService ----------------------------
(***************************************************************************)
(* web/auth.go and the routes of web/handler.go that use it, with          *)
(* authentication enabled (without it authenticateRequest lets everybody   *)
(* in and no other function here does anything).  Several requests of one  *)
(* browser, which share its cookie jar, run at the same time.              *)
(*                                                                         *)
(* The service keeps two things between requests: the verdict of the last  *)
(* check whether the OIDC issuer can be reached, with the time at which    *)
(* that check began, and the userinfo endpoint.  A session lives only in   *)
(* the signed cookie.  Its payload is reduced to whether it names one      *)
(* group of interest, and when it expires; a signature that does not fit   *)
(* is a cookie that is not there.                                          *)
(*                                                                         *)
(* Time is in seconds, as in the cookie.  What a request does without      *)
(* waiting for the network takes no time.  An answer may describe the      *)
(* issuer at any moment since the question was sent.                       *)
(***************************************************************************)
EXTENDS Integers

CONSTANTS
    Requests,        \* requests under way at the same time
    Traffic,         \* sets of routes; a behaviour uses those of one of them
    Override,        \* userInfoEndpointOverride is set
    IssuerCheckTTL,  \* 30 s
    ProbeTimeout,    \* 3 s, for each URL isReachable asks for
    ClientTimeout,   \* 5 s, Timeout of a.client
    SessionTTL,      \* 24 h
    MaxTime,         \* bound: the last second looked at
    MaxChanges       \* bound: changes of the issuer and of the membership

Routes == {"page", "discovery", "bearer", "cookie", "signout"}

ASSUME AuthAssumption ==
    /\ Traffic \subseteq SUBSET Routes
    /\ Override \in BOOLEAN
    /\ {ProbeTimeout, ClientTimeout, SessionTTL, IssuerCheckTTL} \subseteq Nat \ {0}
    /\ 2 * ProbeTimeout <= IssuerCheckTTL
    /\ MaxTime \in Nat /\ MaxChanges \in Nat

VARIABLES
    now, changes,
    traffic,    \* the routes in use
    up,         \* the issuer answers both URLs
    lastUp,     \* if it does not: when it last did
    lastBad,    \* when the issuer was last down, or a visitor last left a check
    member,     \* the issuer reports the group
    lastMember, \* if it does not: when it last did
    reachable,  \* cachedIssuerReachable
    checkedAt,  \* cachedIssuerCheckedAt
    endpoint,   \* cachedUserInfoEP is set
    cookie,     \* the session cookie in the browser's jar
    pc, route,
    began,      \* now of issuerAndDiscoveryReachable
    since,      \* when the question under way was sent
    result      \* what the check found, or whether the session has the group

world == <<now, changes, traffic, up, lastUp, lastBad, member, lastMember>>
service == <<reachable, checkedAt, endpoint, cookie>>
vars == <<world, service, pc, route, began, since, result>>

Never == 0 - IssuerCheckTTL - 1
NoCookie == [groups |-> FALSE, expiresAt |-> Never]

Probing == {"issuerProbe", "discoveryProbe"}
Fetching == {"endpointFetch", "userinfoFetch"}
Deciding == {"verdict", "granted"}

TypeOK ==
    /\ now \in 0..MaxTime /\ changes \in 0..MaxChanges /\ traffic \in Traffic
    /\ up \in BOOLEAN /\ member \in BOOLEAN
    /\ lastUp \in Never..now /\ lastBad \in Never..now /\ lastMember \in Never..now
    /\ reachable \in BOOLEAN /\ checkedAt \in Never..now
    /\ endpoint \in BOOLEAN
    /\ cookie.groups \in BOOLEAN /\ cookie.expiresAt \in Never..now + SessionTTL
    /\ pc \in [Requests -> {"idle", "proxy"} \cup Probing \cup Fetching \cup Deciding]
    /\ route \in [Requests -> Routes]
    /\ \A r \in Requests :
         /\ began[r] \in 0..now /\ since[r] \in 0..now
         /\ pc[r] \in Probing => since[r] <= began[r] + ProbeTimeout
         /\ pc[r] = "userinfoFetch" => endpoint
    /\ result \in [Requests -> BOOLEAN]

Init ==
    /\ now = 0 /\ changes = 0 /\ traffic \in Traffic
    /\ up \in BOOLEAN /\ lastUp = Never /\ lastBad = Never
    /\ member = TRUE /\ lastMember = Never
    /\ reachable = FALSE /\ checkedAt = Never
    /\ endpoint = FALSE /\ cookie = NoCookie
    /\ pc = [r \in Requests |-> "idle"]
    /\ route = [r \in Requests |-> "page"]
    /\ began = [r \in Requests |-> 0]
    /\ since = [r \in Requests |-> 0]
    /\ result = [r \in Requests |-> FALSE]

UpSince(t) == up \/ lastUp >= t
BadSince(t) == ~up \/ lastBad >= t
MemberSince(t) == member \/ lastMember >= t

\* Request r goes on to p; a new question is sent now.
Goto(r, p) == pc' = [pc EXCEPT ![r] = p]
AskIssuer(r, p) == Goto(r, p) /\ since' = [since EXCEPT ![r] = now]

\* Request r is over; what it remembered is gone.
Over(r) ==
    /\ Goto(r, "idle")
    /\ route' = [route EXCEPT ![r] = "page"]
    /\ began' = [began EXCEPT ![r] = 0]
    /\ since' = [since EXCEPT ![r] = 0]
    /\ result' = [result EXCEPT ![r] = FALSE]

Decide(r, p, v) == Goto(r, p) /\ result' = [result EXCEPT ![r] = v]

-----------------------------------------------------------------------------
(* issuerAndDiscoveryReachable, isReachable, authConfig and                *)
(* serveOpenIDConfiguration.                                               *)

CheckIssuer(r) ==
    IF now - checkedAt <= IssuerCheckTTL
      THEN Decide(r, "verdict", reachable) /\ UNCHANGED <<began, since>>
      ELSE /\ AskIssuer(r, "issuerProbe")
           /\ began' = [began EXCEPT ![r] = now]
           /\ UNCHANGED result

\* The verdict is stored as if it had been reached when it is stored.
FaultStoreVerdictNow(r, v) ==
    /\ reachable' = v
    /\ checkedAt' = now
    /\ Decide(r, "verdict", v)

\* The verdict is stored with the time at which the check began.
StoreVerdict(r, v) ==
    /\ reachable' = v
    /\ checkedAt' = began[r]
    /\ Decide(r, "verdict", v)

\* GET /.well-known/openid-configuration
Discovery(r) ==
    /\ pc[r] = "idle" /\ "discovery" \in traffic
    /\ route' = [route EXCEPT ![r] = "discovery"]
    /\ CheckIssuer(r)
    /\ UNCHANGED <<world, service>>

\* isReachable(issuerURL) holds: on to discoveryURL.
IssuerAnswers(r) ==
    /\ pc[r] = "issuerProbe" /\ UpSince(since[r])
    /\ AskIssuer(r, "discoveryProbe")
    /\ UNCHANGED <<world, service, route, began, result>>

DiscoveryAnswers(r) ==
    /\ pc[r] = "discoveryProbe" /\ UpSince(since[r])
    /\ StoreVerdict(r, TRUE)
    /\ UNCHANGED <<world, endpoint, cookie, route, began, since>>

\* No answer in time, none at all, or one with an error status.
ProbeFails(r) ==
    /\ pc[r] \in Probing /\ BadSince(since[r])
    /\ StoreVerdict(r, FALSE)
    /\ UNCHANGED <<world, endpoint, cookie, route, began, since>>

\* The visitor leaves: the context of the request, which the probes use, ends,
\* and the verdict is stored all the same.
CheckAbandoned(r) ==
    /\ pc[r] \in Probing
    /\ lastBad' = now
    /\ StoreVerdict(r, FALSE)
    /\ UNCHANGED <<now, changes, traffic, up, lastUp, member, lastMember,
                   endpoint, cookie, route, began, since>>

\* authConfig chooses the issuer the page is told to use; the discovery route
\* answers 404, or hands the request to the proxy, which has no timeout.
Respond(r) ==
    /\ pc[r] = "verdict"
    /\ IF route[r] = "discovery" /\ result[r]
         THEN Goto(r, "proxy") /\ UNCHANGED <<route, began, since, result>>
         ELSE Over(r)
    /\ UNCHANGED <<world, service>>

\* The issuer's document, rewritten; 502; or the visitor has left.
ProxyEnds(r) ==
    /\ pc[r] = "proxy"
    /\ Over(r)
    /\ UNCHANGED <<world, service>>

-----------------------------------------------------------------------------
(* Sessions: authenticateRequest, userInfoFromCookie, fetchUserInfo,       *)
(* userInfoEndpoint, setSessionCookie, clearSessionCookie.                 *)

\* The cookie is believed for as long as its signature fits.
FaultCookieNeverExpires == cookie # NoCookie

CookieValid == cookie # NoCookie /\ now <= cookie.expiresAt

\* GET /api/dashboard, /api/dashboard/updates or /api/session with the
\* cookie; without a valid one the answer is 401 and nothing changes.
CookieRequest(r) ==
    /\ pc[r] = "idle" /\ "cookie" \in traffic
    /\ CookieValid
    /\ Decide(r, "granted", cookie.groups)
    /\ route' = [route EXCEPT ![r] = "cookie"]
    /\ UNCHANGED <<world, service, began, since>>

\* GET /: the dashboard with a valid cookie, else the sign-in page, as for
\* index.html and every unknown path.
Page(r) ==
    /\ pc[r] = "idle" /\ "page" \in traffic
    /\ IF CookieValid
         THEN Decide(r, "granted", cookie.groups) /\ UNCHANGED <<began, since>>
         ELSE CheckIssuer(r)
    /\ UNCHANGED <<world, service, route>>

\* POST /api/session, or a dashboard route, with a bearer token, which goes
\* before the cookie.
BearerRequest(r) ==
    /\ pc[r] = "idle" /\ "bearer" \in traffic
    /\ route' = [route EXCEPT ![r] = "bearer"]
    /\ endpoint' = (endpoint \/ Override)
    /\ AskIssuer(r, IF endpoint' THEN "userinfoFetch" ELSE "endpointFetch")
    /\ UNCHANGED <<world, reachable, checkedAt, cookie, began, result>>

\* The endpoint is used, but not kept.
FaultEndpointNotKept(r) ==
    /\ pc[r] = "endpointFetch" /\ UpSince(since[r])
    /\ AskIssuer(r, "userinfoFetch")
    /\ UNCHANGED <<world, service, route, began, result>>

\* The endpoint is kept for good.
EndpointFound(r) ==
    /\ pc[r] = "endpointFetch" /\ UpSince(since[r])
    /\ endpoint' = TRUE
    /\ AskIssuer(r, "userinfoFetch")
    /\ UNCHANGED <<world, reachable, checkedAt, cookie, route, began, result>>

\* The session made of the answer has the group only if the issuer reported
\* it; the claim may be missing or be nothing normalizedGroups can read.
NewAuthSession(r) == {groups \in BOOLEAN : groups => MemberSince(since[r])}

\* The cookie travels with the response, here at once.
SetSessionCookie(groups) ==
    cookie' = [groups |-> groups, expiresAt |-> now + SessionTTL]

UserInfo(r) ==
    /\ pc[r] = "userinfoFetch" /\ UpSince(since[r])
    /\ \E groups \in NewAuthSession(r) :
         SetSessionCookie(groups) /\ Decide(r, "granted", groups)
    /\ UNCHANGED <<world, reachable, checkedAt, endpoint, route, began, since>>

\* Timeout, error status, malformed answer, or the visitor has left: 401,
\* although the cookie may be valid.
FetchFails(r) ==
    /\ pc[r] \in Fetching
    /\ Over(r)
    /\ UNCHANGED <<world, service>>

\* The groups of the session go to collectDashboard, or the session to the
\* browser.
Serve(r) ==
    /\ pc[r] = "granted"
    /\ Over(r)
    /\ UNCHANGED <<world, service>>

\* DELETE /api/session
SignOut(r) ==
    /\ pc[r] = "idle" /\ "signout" \in traffic
    /\ cookie' = NoCookie
    /\ UNCHANGED <<world, reachable, checkedAt, endpoint, pc, route, began, since, result>>

-----------------------------------------------------------------------------
(* The issuer and time.                                                    *)

IssuerChanges ==
    /\ changes < MaxChanges /\ changes' = changes + 1
    /\ up' = ~up
    /\ IF up THEN lastUp' = now /\ UNCHANGED lastBad
             ELSE lastBad' = now /\ UNCHANGED lastUp
    /\ UNCHANGED <<now, traffic, member, lastMember, service, pc, route, began, since, result>>

MembershipChanges ==
    /\ changes < MaxChanges /\ changes' = changes + 1
    /\ member' = ~member
    /\ lastMember' = IF member THEN now ELSE lastMember
    /\ UNCHANGED <<now, traffic, up, lastUp, lastBad, service, pc, route, began, since, result>>

\* isReachable with the timeout of the client only.
FaultProbeDeadline(r) == since[r] + ClientTimeout

ProbeDeadline(r) == since[r] + (IF ProbeTimeout <= ClientTimeout
                                  THEN ProbeTimeout ELSE ClientTimeout)

\* A second passes; whoever has run out of time is served first.
Tick ==
    /\ now < MaxTime /\ now' = now + 1
    /\ \A r \in Requests :
         /\ pc[r] \notin Deciding
         /\ pc[r] \in Probing => now < ProbeDeadline(r)
         /\ pc[r] \in Fetching => now < since[r] + ClientTimeout
    /\ UNCHANGED <<changes, traffic, up, lastUp, lastBad, member, lastMember,
                   service, pc, route, began, since, result>>

Request(r) ==
    \/ Discovery(r) \/ IssuerAnswers(r) \/ DiscoveryAnswers(r) \/ ProbeFails(r)
    \/ CheckAbandoned(r) \/ Respond(r) \/ ProxyEnds(r)
    \/ CookieRequest(r) \/ Page(r) \/ BearerRequest(r) \/ EndpointFound(r)
    \/ UserInfo(r) \/ FetchFails(r) \/ Serve(r) \/ SignOut(r)

Next == Tick \/ IssuerChanges \/ MembershipChanges \/ \E r \in Requests : Request(r)

Spec == Init /\ [][Next]_vars

-----------------------------------------------------------------------------
\* A page is told to use this server as its issuer, or the discovery document
\* is offered, only if the issuer answered within the last IssuerCheckTTL; it
\* is refused only if the issuer failed, or a visitor left during a check,
\* within that time.  Checks run without the mutex and end in any order, so
\* an older one may replace the verdict of a newer one
\* (issuerAndDiscoveryReachable, 427-449).
VerdictFresh ==
    \A r \in Requests : pc[r] = "verdict" =>
        IF result[r] THEN UpSince(now - IssuerCheckTTL)
                     ELSE BadSince(now - IssuerCheckTTL)

\* A check that began earlier and ends later sets the stored time back, but
\* never by more than the two probes of one check may take (427-470).
VerdictRegressBound == [][checkedAt' >= checkedAt - 2 * ProbeTimeout]_vars

\* Nobody is served as a member of a group that the issuer has not reported
\* for SessionTTL and the time one userinfo request may take, whatever
\* requests with and without a token overlap (authenticateRequest,
\* userInfoFromCookie, setSessionCookie).
RevokedGroupLosesAccess ==
    \A r \in Requests : pc[r] = "granted" /\ result[r] =>
        MemberSince(now - SessionTTL - ClientTimeout)

=============================================================================

----------------------- MODULE ForeignClusters_proofs -----------------------
(***************************************************************************)
(* Proofs about the foreign cluster manager, its users and the token cache *)
(* they share, for any number of clusters, dashboard calls and requests,   *)
(* any lifetimes and clock, and every timeout that does not exceed the     *)
(* reuse margin.                                                           *)
(***************************************************************************)
EXTENDS ForeignClusters, TLAPS

-----------------------------------------------------------------------------
(* The token source, for callers of any kind.                              *)

\* Only the holder of s.mu is past Lock.
MutexInv ==
    \A c \in Callers : pc[c] \in {"locked", "exchanging"} => holder = {c}

\* An exchange in flight started in the past and has not timed out.
ExchangeWindow ==
    \A c \in Callers :
        pc[c] = "exchanging" => started <= now /\ now <= started + Timeout

\* An exchange is only in flight while the cached token is not reusable.
ExchangeNeeded ==
    \A c \in Callers : pc[c] = "exchanging" => ~Reusable

\* The recorded expiry is late by at most the exchange timeout.
ExpiryDrift ==
    cached.present =>
        /\ cached.validUntil <= cached.expiresAt
        /\ cached.expiresAt <= cached.validUntil + Timeout

TokenInv ==
    /\ TypeOK
    /\ MutexInv
    /\ ExchangeWindow
    /\ ExchangeNeeded
    /\ ExpiryDrift
    /\ CachedTokenValid

\* A freshly constructed token source (no token cached, mutex free) satisfies
\* the inductive invariant.
LEMMA TokenInvInit == Init => TokenInv
<1> SUFFICES ASSUME Init PROVE TokenInv
  OBVIOUS
<1> USE TimingAssumption DEF Init, NoResult
<1>1. cached \in Cached
  <2>1. 0 \in Int
    OBVIOUS
  <2> QED BY <2>1, Zenon DEF Cached
<1>2. TypeOK
  BY <1>1 DEF TypeOK, Got
<1>3. MutexInv /\ ExchangeWindow /\ ExchangeNeeded
  BY DEF MutexInv, ExchangeWindow, ExchangeNeeded
<1>4. ExpiryDrift /\ CachedTokenValid
  BY DEF ExpiryDrift, CachedTokenValid
<1> QED BY <1>2, <1>3, <1>4 DEF TokenInv

\* No step of Token(), of the identity provider's answer or of the clock leaves
\* the inductive invariant.
LEMMA TokenInvStep == TokenInv /\ [Next]_vars => TokenInv'
<1> SUFFICES ASSUME TokenInv, [Next]_vars PROVE TokenInv'
  OBVIOUS
<1> USE TimingAssumption
    DEF TokenInv, TypeOK, MutexInv, ExchangeWindow, ExchangeNeeded,
        ExpiryDrift, CachedTokenValid, Reusable, Cached, Got, NoResult
<1>1. CASE Tick BY <1>1 DEF Tick
<1>2. ASSUME NEW c \in Callers, Call(c) PROVE TokenInv'
  BY <1>2 DEF Call
<1>3. ASSUME NEW c \in Callers, Lock(c) PROVE TokenInv'
  BY <1>3 DEF Lock
<1>4. ASSUME NEW c \in Callers, ReuseCached(c) PROVE TokenInv'
  BY <1>4 DEF ReuseCached, Return
<1>5. ASSUME NEW c \in Callers, StartExchange(c) PROVE TokenInv'
  BY <1>5 DEF StartExchange
<1>6. ASSUME NEW c \in Callers, ExchangeOK(c) PROVE TokenInv'
  <2>1. PICK issuedAt \in started..now, life \in Nat :
          /\ cached' = [present |-> TRUE, expiresAt |-> now + life,
                        validUntil |-> issuedAt + life]
          /\ Return(c, [from |-> "exchange", at |-> now,
                        validUntil |-> issuedAt + life])
    BY <1>6 DEF ExchangeOK
  <2>2. /\ pc[c] = "exchanging" /\ now' = now /\ started' = started
        /\ holder = {c} /\ now <= started + Timeout /\ issuedAt \in Nat
    BY <1>6 DEF ExchangeOK
  <2>3. cached' \in Cached
    <3>1. now + life \in Int /\ issuedAt + life \in Int
      BY <2>2
    <3> HIDE DEF TokenInv
    <3> QED BY <2>1, <3>1, Zenon DEF Cached
  <2>4. got' \in [Callers -> Got]
    BY <2>1, <2>2 DEF Return
  <2>5. TypeOK'
    BY <2>1, <2>2, <2>3, <2>4 DEF Return
  <2>6. MutexInv' /\ ExchangeWindow' /\ ExchangeNeeded'
    BY <2>1, <2>2 DEF Return
  <2>7. ExpiryDrift'
    BY <2>1, <2>2
  <2>8. CachedTokenValid'
    BY <2>1, <2>2 DEF Return
  <2> QED BY <2>5, <2>6, <2>7, <2>8
<1>7. ASSUME NEW c \in Callers, ExchangeError(c) PROVE TokenInv'
  BY <1>7 DEF ExchangeError, Return
<1>8. ASSUME NEW c \in Callers, Forget(c) PROVE TokenInv'
  BY <1>8 DEF Forget
<1>9. CASE UNCHANGED vars BY <1>9 DEF vars
<1> QED BY <1>1, <1>2, <1>3, <1>4, <1>5, <1>6, <1>7, <1>8, <1>9 DEF Next, Token

\* The inductive invariant holds in every reachable state of the token source,
\* for any set of callers, lifetime and drift the assumptions admit.
THEOREM TokenInvariant == Spec => []TokenInv
BY TokenInvInit, TokenInvStep, PTL DEF Spec

\* At most one caller is past the mutex, and all state keeps its type.
THEOREM TypeCorrect == Spec => []TypeOK
<1>1. TokenInv => TypeOK
  BY DEF TokenInv
<1> QED BY <1>1, TokenInvariant, PTL

\* A token served from the cache is still valid by the authority's clock,
\* with Skew - Timeout to spare (Token 63-75, exchangeToken 118-123).
THEOREM CachedTokensValid == Spec => []CachedTokenValid
<1>1. TokenInv => CachedTokenValid
  BY DEF TokenInv
<1> QED BY <1>1, TokenInvariant, PTL

\* A cached token is replaced only once it is not reusable: however many
\* callers meet a stale token, they cause one refresh.
THEOREM RefreshesNeeded == Spec => NoRedundantRefresh
<1>1. TokenInv /\ [Next]_vars => [cached' # cached /\ cached.present => ~Reusable]_vars
  <2> SUFFICES ASSUME TokenInv, Next, cached' # cached PROVE ~Reusable
    BY DEF vars
  <2>1. PICK c \in Callers : ExchangeOK(c)
    BY DEF Next, Token, Forget, Tick, Call, Lock, ReuseCached, StartExchange,
           ExchangeError
  <2> QED BY <2>1 DEF ExchangeOK, TokenInv, ExchangeNeeded
<1> QED BY <1>1, TokenInvariant, PTL DEF Spec, NoRedundantRefresh

-----------------------------------------------------------------------------
(* The fleet uses the token source as AzureToken specifies it, so what is  *)
(* proved above holds for it.                                              *)

\* connectAll builds a slice of its own, which replaces the empty one when it
\* is complete; from then on there is a handle for each entry.
HandlesInv ==
    /\ usable \subseteq 1..Clusters
    /\ mpc \in {"connecting", "checking", "waiting", "reconnecting", "stopped"}
    /\ mi \in 1..Clusters + 1
    /\ handles \in Seq(Handle) /\ building \in Seq(Handle)
    /\ mpc = "connecting" => Len(handles) = 0 /\ Len(building) = mi - 1
    /\ mpc # "connecting" => Len(handles) = Clusters /\ Len(building) = 0

\* A handle is ready exactly when it has clients: ready is set right after a
\* connect and never reset.
ReadyInv ==
    /\ \A i \in 1..Len(handles) : handles[i].ready <=> handles[i].clients
    /\ \A i \in 1..Len(building) : building[i].ready <=> building[i].clients

\* Callers ask clusters that have a handle, dashboard calls only such as have
\* clients.
TodoInv ==
    /\ todo \in [Callers -> SUBSET (1..Len(handles))]
    /\ SnapshotComplete

FleetInv == HandlesInv /\ ReadyInv /\ TodoInv

-----------------------------------------------------------------------------
\* The fleet does to the token source only what AzureToken allows, whichever
\* of the manager and the dashboard calls makes the request.
LEMMA FleetStepsAreTokenSteps == FleetNext => [Next]_vars
<1> SUFFICES ASSUME FleetNext PROVE Next \/ UNCHANGED vars
  OBVIOUS
<1>1. CASE Start
  BY <1>1 DEF Start, ConnectOne, Publish, ChecksDone, Every15Minutes, ReconnectOne,
              ReconnectDone, StopMgr
<1>2. ASSUME NEW k \in 1..Clusters, Reconfigure(k) PROVE UNCHANGED vars
  BY <1>2 DEF Reconfigure
<1>3. ASSUME NEW d \in Dash, DashboardCall(d) PROVE UNCHANGED vars
  BY <1>3 DEF DashboardCall, BeginCall, ActiveClusters, EndCall
<1>4. ASSUME NEW c \in Callers, Request(c) PROVE Next \/ UNCHANGED vars
  BY <1>4 DEF Request, SendRequest, TokenFails, TokenArrives, RoundTrip, NextRequest,
              Next, Token
<1>5. CASE Tick
  BY <1>5 DEF Next
<1>6. ASSUME NEW c \in Callers, TokenStep(c) PROVE Next
  BY <1>6 DEF TokenStep, Next, Token
<1> QED BY <1>1, <1>2, <1>3, <1>4, <1>5, <1>6 DEF FleetNext

\* Every behaviour of the fleet is, for the token source, one of AzureToken.
THEOREM FleetUsesTokenSource == FleetSpec => Spec
<1>1. FleetInit => Init
  BY DEF FleetInit
<1>2. [FleetNext]_allVars => [Next]_vars
  BY FleetStepsAreTokenSteps DEF allVars
<1> QED BY <1>1, <1>2, PTL DEF FleetSpec, Spec

\* A token a request of the fleet gets from the cache is valid with the margin
\* left, however dashboard calls and permission checks interleave.
THEOREM FleetTokensValid == FleetSpec => []CachedTokenValid
BY FleetUsesTokenSource, CachedTokensValid, PTL

\* Requests of the fleet that meet a stale token cause one refresh.
THEOREM FleetRefreshesNeeded == FleetSpec => NoRedundantRefresh
BY FleetUsesTokenSource, RefreshesNeeded, PTL

-----------------------------------------------------------------------------
\* A manager that was just made has no handles and nobody asks for any.
LEMMA FleetInvInit == FleetInit => FleetInv
<1> SUFFICES ASSUME FleetInit PROVE FleetInv
  OBVIOUS
<1> USE FleetAssumption DEF FleetInit
<1>1. HandlesInv
  BY DEF HandlesInv
<1>2. ReadyInv
  BY DEF ReadyInv
<1>3. TodoInv
  BY DEF TodoInv, SnapshotComplete, Dash
<1> QED BY <1>1, <1>2, <1>3 DEF FleetInv

\* The steps of Manager.Start that connect, under the lock or before the
\* handles are published.
LEMMA StartKeepsFleetInv == FleetInv /\ Start => FleetInv'
<1> SUFFICES ASSUME FleetInv, Start PROVE FleetInv'
  OBVIOUS
<1> USE FleetAssumption
    DEF FleetInv, HandlesInv, ReadyInv, TodoInv, SnapshotComplete, Dash, callVars
<1>0. Connected \in Handle /\ Down \in Handle
  BY DEF Connected, Down, Handle
<1>c. \A i : connect(i) \in Handle /\ (connect(i).ready <=> connect(i).clients)
  BY <1>0 DEF connect, Connected, Down
<1>1. CASE ConnectOne
  <2>1. /\ building' = Append(building, connect(mi)) /\ mi' = mi + 1
        /\ UNCHANGED <<usable, mpc, handles, todo>>
        /\ mpc = "connecting" /\ mi <= Clusters
    BY <1>1 DEF ConnectOne
  <2>2. HandlesInv'
    BY <2>1, <1>c
  <2>3. ReadyInv'
    BY <2>1, <1>c
  <2>4. TodoInv'
    BY <2>1
  <2> QED BY <2>2, <2>3, <2>4
<1>2. CASE Publish
  <2>1. /\ handles' = building /\ building' = <<>> /\ mpc' = "checking"
        /\ todo' = [todo EXCEPT ![Mgr] = ReadyOnes(building)]
        /\ UNCHANGED <<usable, mi>>
        /\ mpc = "connecting" /\ mi > Clusters
    BY <1>2 DEF Publish, Ask
  <2>2. HandlesInv'
    BY <2>1
  <2>3. ReadyInv'
    BY <2>1
  <2>4. \A c \in Callers : todo[c] = {}
    BY <2>1
  <2>5. TodoInv'
    BY <2>1, <2>4 DEF ReadyOnes
  <2> QED BY <2>2, <2>3, <2>5
<1>3. CASE ChecksDone
  BY <1>3 DEF ChecksDone
<1>4. CASE Every15Minutes
  BY <1>4 DEF Every15Minutes
<1>5. CASE ReconnectOne
  <2>1. /\ handles' = IF handles[mi].ready THEN handles
                        ELSE [handles EXCEPT ![mi] = connect(mi)]
        /\ mi' = mi + 1 /\ UNCHANGED <<usable, mpc, building, todo>>
        /\ mpc = "reconnecting" /\ mi \in 1..Clusters
    BY <1>5 DEF ReconnectOne
  <2>2. /\ handles' \in Seq(Handle) /\ Len(handles') = Len(handles)
        /\ \A i \in 1..Len(handles) : i # mi => handles'[i] = handles[i]
        /\ handles'[mi] = IF handles[mi].ready THEN handles[mi] ELSE connect(mi)
    BY <2>1, <1>c
  <2>3. HandlesInv'
    BY <2>1, <2>2
  <2>4. ReadyInv'
    BY <2>1, <2>2, <1>c
  <2>5. TodoInv'
    BY <2>1, <2>2, <1>c
  <2> QED BY <2>3, <2>4, <2>5
<1>6. CASE ReconnectDone
  <2>1. /\ todo' = [todo EXCEPT ![Mgr] = ReadyOnes(handles)]
        /\ mpc = "reconnecting" /\ mpc' = "checking"
        /\ UNCHANGED <<usable, mi, handles, building>>
    BY <1>6 DEF ReconnectDone, Ask
  <2>2. HandlesInv' /\ ReadyInv'
    BY <2>1
  <2>3. TodoInv'
    BY <2>1 DEF ReadyOnes
  <2> QED BY <2>2, <2>3
<1>7. CASE StopMgr
  BY <1>7 DEF StopMgr
<1> QED BY <1>1, <1>2, <1>3, <1>4, <1>5, <1>6, <1>7 DEF Start

\* The steps of a request of either kind of caller, which only shorten the
\* list of clusters to ask.
LEMMA RequestKeepsFleetInv ==
    ASSUME NEW c \in Callers, FleetInv, Request(c)
    PROVE  FleetInv'
<1> USE DEF FleetInv, HandlesInv, ReadyInv, TodoInv, SnapshotComplete, Dash, mgrVars
<1>1. /\ UNCHANGED mgrVars
      /\ todo' = todo \/ todo' = [todo EXCEPT ![c] = todo[c] \ {Current(c)}]
  BY DEF Request, SendRequest, TokenFails, TokenArrives, RoundTrip, NextRequest, Ask
<1> QED BY <1>1

\* A dashboard call takes only ready handles from the snapshot.
LEMMA CallKeepsFleetInv ==
    ASSUME NEW d \in Dash, FleetInv, DashboardCall(d)
    PROVE  FleetInv'
<1> USE DEF FleetInv, HandlesInv, ReadyInv, TodoInv, SnapshotComplete, mgrVars
<1>1. CASE ActiveClusters(d)
  BY <1>1 DEF ActiveClusters, Ask, ReadyOnes, Dash
<1>2. CASE BeginCall(d) \/ EndCall(d)
  BY <1>2 DEF BeginCall, EndCall
<1> QED BY <1>1, <1>2 DEF DashboardCall

\* Connects, snapshots, requests and configuration changes keep the handles
\* and the clusters that are being asked in step.
LEMMA FleetInvStep == FleetInv /\ [FleetNext]_allVars => FleetInv'
<1> SUFFICES ASSUME FleetInv, [FleetNext]_allVars PROVE FleetInv'
  OBVIOUS
<1> USE DEF FleetInv, HandlesInv, ReadyInv, TodoInv, SnapshotComplete, mgrVars, callVars
<1>1. ASSUME NEW k \in 1..Clusters, Reconfigure(k) PROVE FleetInv'
  BY <1>1 DEF Reconfigure
<1>2. CASE UNCHANGED fleetVars
  BY <1>2 DEF fleetVars
<1> QED BY StartKeepsFleetInv, RequestKeepsFleetInv, CallKeepsFleetInv, <1>1, <1>2
        DEF FleetNext, allVars

\* No dashboard call asks a cluster that has no clients, for any number of
\* clusters and calls and whatever their configuration does (ActiveClusters,
\* connectAll, reconnectDown).
THEOREM SnapshotsComplete == FleetSpec => []SnapshotComplete
<1>1. FleetInv => SnapshotComplete
  BY DEF FleetInv, TodoInv
<1> QED BY <1>1, FleetInvInit, FleetInvStep, PTL DEF FleetSpec

-----------------------------------------------------------------------------
\* The manager's lock is held exactly during reconnectDown; the rest is types.
LockInv ==
    \/ lock = TRUE /\ mpc = "reconnecting"
    \/ lock = FALSE /\ mpc # "reconnecting"

CallTypes ==
    /\ repairs \in 0..MaxRepairs
    /\ left \in [Callers -> 0..Requests]
    /\ req \in [Callers -> {"none", "token", "trip"}]
    /\ dash \in [Dash -> {"idle", "blocked", "collecting"}]

\* Each path through Manager.Start takes and releases the lock in pairs.
LEMMA LockInvStep == LockInv /\ [FleetNext]_allVars => LockInv'
<1> SUFFICES ASSUME LockInv, [FleetNext]_allVars PROVE LockInv'
  OBVIOUS
<1> USE DEF LockInv
<1>1. CASE Start
  BY <1>1 DEF Start, ConnectOne, Publish, ChecksDone, Every15Minutes, ReconnectOne,
              ReconnectDone, StopMgr
<1>2. CASE UNCHANGED <<lock, mpc>>
  BY <1>2
<1>3. ASSUME NEW k \in 1..Clusters, Reconfigure(k) PROVE LockInv'
  BY <1>3 DEF Reconfigure
<1>4. ASSUME NEW d \in Dash, DashboardCall(d) PROVE LockInv'
  BY <1>4 DEF DashboardCall, BeginCall, ActiveClusters, EndCall, mgrVars
<1>5. ASSUME NEW c \in Callers, Request(c) PROVE LockInv'
  BY <1>5 DEF Request, SendRequest, TokenFails, TokenArrives, RoundTrip, mgrVars
<1> QED BY <1>1, <1>2, <1>3, <1>4, <1>5 DEF FleetNext, allVars, fleetVars, mgrVars

\* Counters of requests and configuration changes stay within their bounds.
LEMMA CallTypesStep == CallTypes /\ [FleetNext]_allVars => CallTypes'
<1> SUFFICES ASSUME CallTypes, [FleetNext]_allVars PROVE CallTypes'
  OBVIOUS
<1> USE FleetAssumption DEF CallTypes, mgrVars, callVars, Ask
<1>1. CASE Start
  BY <1>1 DEF Start, ConnectOne, Publish, ChecksDone, Every15Minutes, ReconnectOne,
              ReconnectDone, StopMgr
<1>2. ASSUME NEW k \in 1..Clusters, Reconfigure(k) PROVE CallTypes'
  BY <1>2 DEF Reconfigure
<1>3. ASSUME NEW d \in Dash, DashboardCall(d) PROVE CallTypes'
  BY <1>3 DEF DashboardCall, BeginCall, ActiveClusters, EndCall, Dash
<1>4. ASSUME NEW c \in Callers, Request(c) PROVE CallTypes'
  <2>1. CASE SendRequest(c) \/ TokenArrives(c)
    BY <2>1 DEF SendRequest, TokenArrives
  <2>2. CASE TokenFails(c) \/ RoundTrip(c)
    <3>1. NextRequest(c) /\ UNCHANGED <<mgrVars, dash>>
      BY <2>2 DEF TokenFails, RoundTrip
    <3>2. left' \in [Callers -> 0..Requests]
      BY <3>1 DEF NextRequest
    <3> QED BY <3>1, <3>2 DEF NextRequest
  <2> QED BY <1>4, <2>1, <2>2 DEF Request
<1>5. CASE UNCHANGED fleetVars
  BY <1>5 DEF fleetVars
<1> QED BY <1>1, <1>2, <1>3, <1>4, <1>5 DEF FleetNext, allVars

\* The composed state keeps its type: handles are all there or not at all, and
\* the manager holds its lock in reconnectDown and nowhere else.
THEOREM FleetTypeCorrect == FleetSpec => []FleetTypeOK
<1>1. FleetInit => LockInv /\ CallTypes
  <2>1. FleetInit => LockInv
    BY DEF FleetInit, LockInv
  <2>2. FleetInit => CallTypes
    BY FleetAssumption DEF FleetInit, CallTypes
  <2> QED BY <2>1, <2>2
<1>2. TypeOK /\ FleetInv /\ LockInv /\ CallTypes => FleetTypeOK
  <2> SUFFICES ASSUME TypeOK, FleetInv, LockInv, CallTypes PROVE FleetTypeOK
    OBVIOUS
  <2>1. lock = (mpc = "reconnecting")
    BY DEF LockInv
  <2>2. todo \in [Callers -> SUBSET (1..Clusters)]
    BY FleetAssumption DEF FleetInv, HandlesInv, TodoInv
  <2>3. Len(handles) \in {0, Clusters} /\ Len(building) < mi
    BY FleetAssumption DEF FleetInv, HandlesInv
  <2> QED BY <2>1, <2>2, <2>3 DEF FleetTypeOK, FleetInv, HandlesInv, CallTypes
<1> QED BY <1>1, <1>2, FleetInvInit, FleetInvStep, LockInvStep, CallTypesStep,
           FleetUsesTokenSource, TypeCorrect, PTL DEF FleetSpec

=============================================================================

-------------------------- MODULE ForeignClusters --------------------------
(***************************************************************************)
(* internal/foreigncluster/manager.go with its users: the manager that     *)
(* connects to foreign clusters, dashboard calls that collect links from   *)
(* them one after the other, and, for the one cluster that is reached with *)
(* Azure workload identity, the token source of AzureToken that all        *)
(* requests to it share.                                                   *)
(*                                                                         *)
(* connect builds clients from configuration and asks nobody, so it fails  *)
(* while the kubeconfig or the environment is not usable and succeeds      *)
(* otherwise, whether or not the cluster answers.  Requests end with an    *)
(* answer or an error, and neither changes anything here: a failed list    *)
(* is logged and skipped.  Token knows nothing of the context of a         *)
(* request, so a call may wait for the exchanges of others.                *)
(***************************************************************************)
EXTENDS AzureToken, Sequences

CONSTANTS
    Clusters,       \* number of entries of m.configs
    AzureCluster,   \* the entry with authMethod azure-workload-identity
    Mgr,            \* the goroutine of Start; the other callers are dashboard calls
    Requests,       \* requests of one caller to one cluster in a row
    MaxRepairs      \* bound: changes of the configuration files

ASSUME FleetAssumption ==
    /\ Clusters \in Nat /\ AzureCluster \in 1..Clusters
    /\ Mgr \in Callers
    /\ Requests \in Nat \ {0} /\ MaxRepairs \in Nat

VARIABLES
    usable,     \* entries whose configuration can be turned into clients
    repairs,    \* changes of usable so far
    mpc,        \* where Start is
    mi,         \* index of the loop over the handles
    handles,    \* m.handles: for each entry whether it is ready and has clients
    building,   \* the slice connectAll builds
    lock,       \* m.mu is held for writing
    todo,       \* clusters a caller has still to ask, in the order of the entries
    left,       \* requests still to send to the current one
    req,        \* "none", waiting for a "token", or under way ("trip")
    dash        \* dashboard calls: "idle", "blocked" at RLock, "collecting"

mgrVars == <<usable, repairs, mpc, mi, handles, building, lock>>
callVars == <<todo, left, req, dash>>
fleetVars == <<mgrVars, callVars>>
allVars == <<vars, fleetVars>>

Dash == Callers \ {Mgr}
Handle == [ready : BOOLEAN, clients : BOOLEAN]
Down == [ready |-> FALSE, clients |-> FALSE]
Connected == [ready |-> TRUE, clients |-> TRUE]

FleetTypeOK ==
    /\ TypeOK
    /\ usable \subseteq 1..Clusters /\ repairs \in 0..MaxRepairs
    /\ mpc \in {"connecting", "checking", "waiting", "reconnecting", "stopped"}
    /\ mi \in 1..Clusters + 1
    /\ Len(handles) \in {0, Clusters} /\ handles \in Seq(Handle)
    /\ Len(building) < mi /\ building \in Seq(Handle)
    /\ lock = (mpc = "reconnecting")
    /\ todo \in [Callers -> SUBSET (1..Clusters)]
    /\ left \in [Callers -> 0..Requests]
    /\ req \in [Callers -> {"none", "token", "trip"}]
    /\ dash \in [Dash -> {"idle", "blocked", "collecting"}]

FleetInit ==
    /\ Init
    /\ usable \in SUBSET (1..Clusters)
    /\ repairs = 0
    /\ mpc = "connecting" /\ mi = 1
    /\ handles = <<>> /\ building = <<>>
    /\ lock = FALSE
    /\ todo = [c \in Callers |-> {}]
    /\ left = [c \in Callers |-> 0]
    /\ req = [c \in Callers |-> "none"]
    /\ dash = [d \in Dash |-> "idle"]

\* Indices of those of the handles that are ready.
ReadyOnes(hs) == {i \in DOMAIN hs : hs[i].ready}

\* Caller c sets out to ask each of the clusters.
Ask(c, clusters) ==
    /\ todo' = [todo EXCEPT ![c] = clusters]
    /\ left' = [left EXCEPT ![c] = IF clusters = {} THEN 0 ELSE Requests]

\* The cluster caller c is at.
Current(c) == CHOOSE i \in todo[c] : \A j \in todo[c] : i <= j

-----------------------------------------------------------------------------
(* Manager.Start.                                                          *)

\* Entry i can be turned into a client configuration: an accessible kubeconfig
\* with its context and certificate, or the environment Azure needs.
BuildRESTConfig(i) == i \in usable

\* The handle after a connect, with ready as the callers set it.
connect(i) == IF BuildRESTConfig(i) THEN Connected ELSE Down

\* connectAll: h.ready is set whatever connect returned.
FaultConnectIgnoresError ==
    /\ mpc = "connecting" /\ mi <= Clusters
    /\ building' = Append(building, [ready |-> TRUE, clients |-> mi \in usable])
    /\ mi' = mi + 1
    /\ UNCHANGED <<usable, repairs, mpc, handles, lock, callVars, vars>>

ConnectOne ==
    /\ mpc = "connecting" /\ mi <= Clusters
    /\ building' = Append(building, connect(mi))
    /\ mi' = mi + 1
    /\ UNCHANGED <<usable, repairs, mpc, handles, lock, callVars, vars>>

\* m.handles = handles, under the lock, and on to checkAllPermissions, which
\* works on a copy of the slice.
Publish ==
    /\ mpc = "connecting" /\ mi > Clusters
    /\ handles' = building
    /\ building' = <<>>
    /\ mpc' = "checking"
    /\ Ask(Mgr, ReadyOnes(building))
    /\ UNCHANGED <<usable, repairs, mi, lock, req, dash, vars>>

\* All clusters have been asked.
ChecksDone ==
    /\ mpc = "checking" /\ todo[Mgr] = {}
    /\ mpc' = "waiting"
    /\ UNCHANGED <<usable, repairs, mi, handles, building, lock, callVars, vars>>

\* case <-ticker.C: reconnectDown takes the lock.
Every15Minutes ==
    /\ mpc = "waiting"
    /\ lock' = TRUE
    /\ mpc' = "reconnecting" /\ mi' = 1
    /\ UNCHANGED <<usable, repairs, handles, building, callVars, vars>>

\* reconnectDown connects, but ready is not set.
FaultReconnectForgetsReady ==
    /\ mpc = "reconnecting" /\ mi <= Clusters
    /\ handles' = IF mi \in usable
                    THEN [handles EXCEPT ![mi].clients = TRUE] ELSE handles
    /\ mi' = mi + 1
    /\ UNCHANGED <<usable, repairs, mpc, building, lock, callVars, vars>>

\* The loop of reconnectDown: a handle that is ready is left alone.
ReconnectOne ==
    /\ mpc = "reconnecting" /\ mi <= Clusters
    /\ handles' = IF handles[mi].ready
                    THEN handles ELSE [handles EXCEPT ![mi] = connect(mi)]
    /\ mi' = mi + 1
    /\ UNCHANGED <<usable, repairs, mpc, building, lock, callVars, vars>>

\* reconnectDown with a return before the unlock.
FaultReconnectKeepsLock ==
    /\ mpc = "reconnecting" /\ mi > Clusters
    /\ mpc' = "checking"
    /\ Ask(Mgr, ReadyOnes(handles))
    /\ UNCHANGED <<usable, repairs, mi, handles, building, lock, req, dash, vars>>

\* The deferred unlock, then checkAllPermissions.
ReconnectDone ==
    /\ mpc = "reconnecting" /\ mi > Clusters
    /\ lock' = FALSE
    /\ mpc' = "checking"
    /\ Ask(Mgr, ReadyOnes(handles))
    /\ UNCHANGED <<usable, repairs, mi, handles, building, req, dash, vars>>

\* case <-ctx.Done()
StopMgr ==
    /\ mpc = "waiting"
    /\ mpc' = "stopped"
    /\ UNCHANGED <<usable, repairs, mi, handles, building, lock, callVars, vars>>

\* A kubeconfig file is mounted or removed.
Reconfigure(k) ==
    /\ repairs < MaxRepairs
    /\ repairs' = repairs + 1
    /\ usable' = IF k \in usable THEN usable \ {k} ELSE usable \cup {k}
    /\ UNCHANGED <<mpc, mi, handles, building, lock, callVars, vars>>

-----------------------------------------------------------------------------
(* mergeForeignClusterData, called for each dashboard.                     *)

BeginCall(d) ==
    /\ dash[d] = "idle"
    /\ dash' = [dash EXCEPT ![d] = "blocked"]
    /\ UNCHANGED <<vars, mgrVars, todo, left, req>>

\* Read lock, copy of the ready handles' clients, unlock.
ActiveClusters(d) ==
    /\ dash[d] = "blocked"
    /\ ~lock
    /\ dash' = [dash EXCEPT ![d] = "collecting"]
    /\ Ask(d, ReadyOnes(handles))
    /\ UNCHANGED <<vars, mgrVars, req>>

EndCall(d) ==
    /\ dash[d] = "collecting" /\ todo[d] = {}
    /\ dash' = [dash EXCEPT ![d] = "idle"]
    /\ UNCHANGED <<vars, mgrVars, todo, left, req>>

-----------------------------------------------------------------------------
(* One request of caller c to the cluster it is at (bearerTokenRoundTripper *)
(* for the Azure cluster).                                                  *)

\* The request is over, whether it worked or not, and its token forgotten; go
\* on to the next one.
NextRequest(c) ==
    /\ req' = [req EXCEPT ![c] = "none"]
    /\ Forget(c)
    /\ IF left[c] > 1
         THEN left' = [left EXCEPT ![c] = @ - 1] /\ UNCHANGED todo
         ELSE Ask(c, todo[c] \ {Current(c)})

SendRequest(c) ==
    /\ todo[c] # {} /\ req[c] = "none"
    /\ IF Current(c) = AzureCluster
         THEN req' = [req EXCEPT ![c] = "token"] /\ Call(c)
         ELSE req' = [req EXCEPT ![c] = "trip"] /\ UNCHANGED vars
    /\ UNCHANGED <<mgrVars, todo, left, dash>>

\* RoundTrip asks again for as long as there is no token.
FaultTokenRetried(c) ==
    /\ req[c] = "token" /\ pc[c] = "idle" /\ got[c].from = "none"
    /\ req' = [req EXCEPT ![c] = "none"]
    /\ UNCHANGED <<vars, mgrVars, todo, left, dash>>

\* Token has returned an error: RoundTrip fails.
TokenFails(c) ==
    /\ req[c] = "token" /\ pc[c] = "idle" /\ got[c].from = "none"
    /\ NextRequest(c)
    /\ UNCHANGED <<mgrVars, dash>>

TokenArrives(c) ==
    /\ req[c] = "token" /\ pc[c] = "idle" /\ got[c].from # "none"
    /\ req' = [req EXCEPT ![c] = "trip"]
    /\ UNCHANGED <<vars, mgrVars, todo, left, dash>>

\* An answer, an error, or a timeout of the transport or the context.
RoundTrip(c) ==
    /\ req[c] = "trip"
    /\ NextRequest(c)
    /\ UNCHANGED <<mgrVars, dash>>

-----------------------------------------------------------------------------
Start == \/ ConnectOne \/ Publish \/ ChecksDone \/ Every15Minutes
         \/ ReconnectOne \/ ReconnectDone \/ StopMgr

DashboardCall(d) == BeginCall(d) \/ ActiveClusters(d) \/ EndCall(d)

Request(c) == SendRequest(c) \/ TokenFails(c) \/ TokenArrives(c) \/ RoundTrip(c)

TokenStep(c) == Lock(c) \/ ReuseCached(c) \/ StartExchange(c) \/ ExchangeOK(c)
                \/ ExchangeError(c)

FleetNext ==
    \/ Start
    \/ \E k \in 1..Clusters : Reconfigure(k)
    \/ \E d \in Dash : DashboardCall(d)
    \/ \E c \in Callers : Request(c)
    \/ (Tick \/ \E c \in Callers : TokenStep(c)) /\ UNCHANGED fleetVars

FleetSpec == FleetInit /\ [][FleetNext]_allVars

\* The manager's goroutine runs and its ticker fires until the context ends;
\* a call goes on; Go's RWMutex lets a waiting reader in; every request ends:
\* the transport gives up after 30 s without an answer, but only where a
\* fleet trust store or Azure is used, elsewhere this is an assumption on the
\* network.  AzureToken adds the fairness of Token.
FleetFairness ==
    /\ Fairness
    /\ WF_allVars(ConnectOne \/ Publish \/ ChecksDone \/ Every15Minutes
                  \/ ReconnectOne \/ ReconnectDone)
    /\ \A d \in Dash : SF_allVars(ActiveClusters(d)) /\ WF_allVars(EndCall(d))
    /\ \A c \in Callers : WF_allVars(Request(c))

FairFleetSpec == FleetSpec /\ FleetFairness

-----------------------------------------------------------------------------
\* A dashboard call never works with a cluster that has no clients, however
\* its snapshot and the connects of the manager interleave: ready is set
\* after, and only after, a successful connect (connectAll 104-119,
\* reconnectDown 121-135, ActiveClusters 63-77).
SnapshotComplete ==
    \A d \in Dash : \A i \in todo[d] : handles[i].clients

\* A cluster that could not be set up at start, and can be now, becomes
\* active without a restart, although the loop that sees to it also waits
\* for the permission checks of all other clusters.
UsableClusterActive ==
    \A k \in 1..Clusters :
        k \in usable ~> (\/ k \notin usable \/ mpc = "stopped"
                         \/ handles # <<>> /\ handles[k].ready)

\* Every dashboard call comes to an end: neither the lock of the manager nor
\* the mutex of the token source, held during an exchange, blocks it for ever.
CallsReturn ==
    \A d \in Dash : dash[d] # "idle" ~> dash[d] = "idle"

=============================================================================

----------------------------- MODULE PeerSync -----------------------------
(***************************************************************************)
(* web/sync.go and the sync path of collectDashboard (web/dashboard.go):   *)
(* cupboard instances that poll each other for replicated links and merge  *)
(* what they got into their own dashboards.                                *)
(*                                                                         *)
(* A link has an owner, the instance in whose cluster it is defined.  The  *)
(* owner may publish it or not (Replicate), and restrict it to user groups *)
(* or not.  Users are guests, in no group, or members of every group.      *)
(*                                                                         *)
(* edits, everOpen and everReplicated are history variables, as is the     *)
(* edit count kept in a response.                                          *)
(***************************************************************************)
EXTENDS Integers, FiniteSets

CONSTANTS
    Nodes,          \* cupboard instances
    Links,
    Owner,          \* the instance that defines each link
    StaticPeers,    \* options.URLs of each instance
    SRVPeers,       \* what options.SRVRecords of each instance may resolve to
    MaxEdits        \* bound: changes of links

ASSUME PeerSyncAssumption ==
    /\ Owner \in [Links -> Nodes]
    /\ StaticPeers \in [Nodes -> SUBSET Nodes]
    /\ SRVPeers \in [Nodes -> SUBSET Nodes]
    /\ MaxEdits \in Nat

VARIABLES
    link,       \* how each link is defined by its owner
    known,      \* keys of s.cache of each instance
    cache,      \* s.cache of each instance: its last response from each peer
    peers,      \* peerSet of the running fetchAll of each instance
    todo,       \* peers it has not fetched from yet
    current,    \* the peer it is fetching from, as a set
    reply,      \* the response to that request, once the peer has made it
    pc,         \* where the Start loop of each instance is
    edits, everOpen, everReplicated

vars == <<link, known, cache, peers, todo, current, reply, pc, edits,
          everOpen, everReplicated>>
syncVars == <<known, cache, peers, todo, current, reply, pc>>
linkVars == <<link, edits, everOpen, everReplicated>>

\* "private" links are not marked for replication, the last two are.
Definitions == {"absent", "private", "open", "restricted"}

\* The links of a DashboardResponse by who may see them, after encoding to
\* JSON: Groups is encoded, Replicate is not.
Response == [open : SUBSET Links, restricted : SUBSET Links, at : Nat]
NoResponse == [open |-> {}, restricted |-> {}, at |-> 0]

TypeOK ==
    /\ link \in [Links -> Definitions]
    /\ known \in [Nodes -> SUBSET Nodes]
    /\ cache \in [Nodes -> [Nodes -> Response]]
    /\ peers \in [Nodes -> SUBSET Nodes]
    /\ todo \in [Nodes -> SUBSET Nodes]
    /\ current \in [Nodes -> SUBSET Nodes]
    /\ \A m \in Nodes : \A p, q \in current[m] : p = q
    /\ reply \in [Nodes -> Response]
    /\ pc \in [Nodes -> {"idle", "fetch", "requested", "replied"}]
    /\ edits \in Nat
    /\ everOpen \in SUBSET Links
    /\ everReplicated \in SUBSET Links

Init ==
    /\ link \in [Links -> Definitions]
    /\ known = [m \in Nodes |-> {}]
    /\ cache = [m \in Nodes |-> [p \in Nodes |-> NoResponse]]
    /\ peers = [m \in Nodes |-> {}]
    /\ todo = [m \in Nodes |-> {}]
    /\ current = [m \in Nodes |-> {}]
    /\ reply = [m \in Nodes |-> NoResponse]
    /\ pc = [m \in Nodes |-> "idle"]
    /\ edits = 0
    /\ everOpen = {i \in Links : link[i] = "open"}
    /\ everReplicated = {i \in Links : link[i] \in {"open", "restricted"}}

-----------------------------------------------------------------------------
(* collectDashboard.                                                       *)

\* Links gathered from the instance's own cluster and configuration.
LocalLinks(n) == {i \in Links : Owner[i] = n /\ link[i] # "absent"}

\* mergeRemoteData: everything cached from every known peer.  Decoded links
\* have Replicate = false and the groups they were sent with.
RemoteOpen(n) == UNION {cache[n][p].open : p \in known[n]}
RemoteRestricted(n) == UNION {cache[n][p].restricted : p \in known[n]}

\* The sync handler calls collectDashboard as the dashboard handler does.
FaultExportAll(n) ==
    [open |-> {i \in LocalLinks(n) : link[i] \in {"private", "open"}} \cup RemoteOpen(n),
     restricted |-> {i \in LocalLinks(n) : link[i] = "restricted"}
                      \cup RemoteRestricted(n),
     at |-> edits]

\* localOnly without filterLinksForReplication.
FaultExportUnfiltered(n) ==
    [open |-> {i \in LocalLinks(n) : link[i] \in {"private", "open"}},
     restricted |-> {i \in LocalLinks(n) : link[i] = "restricted"},
     at |-> edits]

\* newSyncHandler: collectDashboard with localOnly, for the wildcard group.
\* No remote data is merged and only replicated links are kept.
Export(n) ==
    [open |-> {i \in LocalLinks(n) : link[i] = "open"},
     restricted |-> {i \in LocalLinks(n) : link[i] = "restricted"},
     at |-> edits]

\* What /api/dashboard shows to a guest of instance n.
ShownToGuest(n) ==
    {i \in LocalLinks(n) : link[i] \in {"private", "open"}} \cup RemoteOpen(n)

\* What it shows to a member of every group.
ShownToMember(n) == LocalLinks(n) \cup RemoteOpen(n) \cup RemoteRestricted(n)

-----------------------------------------------------------------------------
\* The owner of a link defines, changes or deletes it.
EditLink(i, d) ==
    /\ edits < MaxEdits
    /\ d # link[i]
    /\ link' = [link EXCEPT ![i] = d]
    /\ edits' = edits + 1
    /\ everOpen' = IF d = "open" THEN everOpen \cup {i} ELSE everOpen
    /\ everReplicated' = IF d \in {"open", "restricted"}
                           THEN everReplicated \cup {i} ELSE everReplicated
    /\ UNCHANGED syncVars

\* fetchAll starts: discoverPeers is the static peers and whatever the SRV
\* lookups return now, nothing for a lookup that fails.
DiscoverPeers(m) ==
    /\ pc[m] = "idle"
    /\ \E found \in SUBSET SRVPeers[m] :
         /\ peers' = [peers EXCEPT ![m] = StaticPeers[m] \cup found]
         /\ todo' = [todo EXCEPT ![m] = StaticPeers[m] \cup found]
    /\ pc' = [pc EXCEPT ![m] = "fetch"]
    /\ UNCHANGED <<linkVars, known, cache, current, reply>>

\* Peers asked concurrently.
FaultRequestConcurrently(m, p) ==
    /\ pc[m] \in {"fetch", "requested"}
    /\ p \in todo[m]
    /\ todo' = [todo EXCEPT ![m] = @ \ {p}]
    /\ current' = [current EXCEPT ![m] = @ \cup {p}]
    /\ pc' = [pc EXCEPT ![m] = "requested"]
    /\ UNCHANGED <<linkVars, known, cache, peers, reply>>

\* fetchFromPeer sends its request.
Request(m, p) ==
    /\ pc[m] = "fetch"
    /\ p \in todo[m]
    /\ todo' = [todo EXCEPT ![m] = @ \ {p}]
    /\ current' = [current EXCEPT ![m] = {p}]
    /\ pc' = [pc EXCEPT ![m] = "requested"]
    /\ UNCHANGED <<linkVars, known, cache, peers, reply>>

\* The peer collects its links and answers.
Serve(m, p) ==
    /\ pc[m] = "requested"
    /\ p \in current[m]
    /\ reply' = [reply EXCEPT ![m] = Export(p)]
    /\ pc' = [pc EXCEPT ![m] = "replied"]
    /\ UNCHANGED <<linkVars, known, cache, peers, todo, current>>

\* The response arrives in time and replaces the peer's cache entry.
FetchOK(m, p) ==
    /\ pc[m] = "replied"
    /\ p \in current[m]
    /\ known' = [known EXCEPT ![m] = @ \cup {p}]
    /\ cache' = [cache EXCEPT ![m][p] = reply[m]]
    /\ current' = [current EXCEPT ![m] = {}]
    /\ reply' = [reply EXCEPT ![m] = NoResponse]
    /\ pc' = [pc EXCEPT ![m] = "fetch"]
    /\ UNCHANGED <<linkVars, peers, todo>>

\* Falling back to an empty response when the peer does not answer.
FaultFetchErrorStoresReply(m) ==
    /\ pc[m] \in {"requested", "replied"}
    /\ known' = [known EXCEPT ![m] = @ \cup current[m]]
    /\ cache' = [cache EXCEPT ![m] =
                   [p \in Nodes |-> IF p \in current[m] THEN NoResponse ELSE @[p]]]
    /\ current' = [current EXCEPT ![m] = {}]
    /\ reply' = [reply EXCEPT ![m] = NoResponse]
    /\ pc' = [pc EXCEPT ![m] = "fetch"]
    /\ UNCHANGED <<linkVars, peers, todo>>

\* The request fails, is not answered with 200, is not JSON, or takes longer
\* than 10 s; a reply on its way is never read.  The old entry stays.
FetchError(m) ==
    /\ pc[m] \in {"requested", "replied"}
    /\ current' = [current EXCEPT ![m] = {}]
    /\ reply' = [reply EXCEPT ![m] = NoResponse]
    /\ pc' = [pc EXCEPT ![m] = "fetch"]
    /\ UNCHANGED <<linkVars, known, cache, peers, todo>>

\* fetchAll without the removal of peers that are gone.
FaultPruneNothing(m) ==
    /\ pc[m] = "fetch"
    /\ todo[m] = {}
    /\ pc' = [pc EXCEPT ![m] = "idle"]
    /\ UNCHANGED <<linkVars, known, cache, peers, todo, current, reply>>

\* fetchAll ends: entries of peers that were not discovered are deleted.
Prune(m) ==
    /\ pc[m] = "fetch"
    /\ todo[m] = {}
    /\ known' = [known EXCEPT ![m] = @ \cap peers[m]]
    /\ cache' = [cache EXCEPT ![m] =
                   [p \in Nodes |-> IF p \in peers[m] THEN @[p] ELSE NoResponse]]
    /\ pc' = [pc EXCEPT ![m] = "idle"]
    /\ UNCHANGED <<linkVars, peers, todo, current, reply>>

Fetch(m, p) == Request(m, p) \/ Serve(m, p) \/ FetchOK(m, p)

Next == \/ \E i \in Links, d \in Definitions : EditLink(i, d)
        \/ \E m \in Nodes : \/ DiscoverPeers(m) \/ FetchError(m) \/ Prune(m)
                            \/ \E p \in Nodes : Fetch(m, p)

Spec == Init /\ [][Next]_vars

\* The ticker keeps starting fetchAll, which never blocks (10 s timeout), and
\* a peer that is asked again and again is reached now and then.
Fairness ==
    \A m \in Nodes :
        /\ WF_vars(DiscoverPeers(m)) /\ WF_vars(Prune(m))
        /\ \A p \in Nodes : /\ WF_vars(Request(m, p))
                            /\ SF_vars(Serve(m, p))
                            /\ SF_vars(FetchOK(m, p))

FairSpec == Spec /\ Fairness

-----------------------------------------------------------------------------
\* Links do not travel twice: whatever an instance has cached from a peer is
\* owned by that peer, also when instances poll each other in a cycle
\* (newSyncHandler 166-184, "never re-exports data received from other
\* peers").
NoReExport ==
    \A m, p \in Nodes : \A i \in cache[m][p].open \cup cache[m][p].restricted :
        Owner[i] = p

\* A link that its owner never marked for replication is shown by no other
\* instance, and one that was never open to all is never shown to a guest of
\* another instance.
PrivateStaysLocal ==
    \A n \in Nodes :
        /\ \A i \in ShownToMember(n) : Owner[i] = n \/ i \in everReplicated
        /\ \A i \in ShownToGuest(n) : Owner[i] = n \/ i \in everOpen

\* What an instance shows of a peer never goes back to an older state of it:
\* slow, failed and repeated polls do not overtake each other.
ViewNeverRegresses ==
    [][\A m, p \in Nodes : p \in known[m] /\ p \in known'[m]
                             => cache'[m][p].at >= cache[m][p].at]_vars

\* Between two polls an instance keeps data only of peers it discovered in
\* the last one.
OnlyDiscoveredPeers ==
    \A m \in Nodes : pc[m] = "idle" => known[m] \subseteq peers[m]

\* A change reaches the peers: a link that is deleted, made private or
\* restricted disappears from the guests' dashboards of all instances, unless
\* its owner changes it again.
RevocationReachesPeers ==
    \A i \in Links : \A n \in Nodes \ {Owner[i]} :
        <>[](link[i] # "open") => <>[](i \notin ShownToGuest(n))

=============================================================================

-------------------------- MODULE PeerSync_proofs --------------------------
(***************************************************************************)
(* Theorems about PeerSync, for any set of instances, any links and any    *)
(* peering, cyclic or not.  DataInv is the inductive invariant behind      *)
(* NoReExport and PrivateStaysLocal: it carries the two properties through *)
(* the response that is on its way, which the properties do not mention.   *)
(***************************************************************************)
EXTENDS PeerSync, TLAPS

\* A response that instance p may have sent: its own links, each with the
\* audience it was published for at some time.
GenuineFrom(r, p) ==
    /\ \A i \in r.open : Owner[i] = p /\ i \in everOpen /\ i \in everReplicated
    /\ \A i \in r.restricted : Owner[i] = p /\ i \in everReplicated

DataInv ==
    /\ \A i \in Links : link[i] = "open" => i \in everOpen /\ i \in everReplicated
    /\ \A i \in Links : link[i] = "restricted" => i \in everReplicated
    /\ \A m, p \in Nodes : GenuineFrom(cache[m][p], p)
    /\ \A m \in Nodes : pc[m] # "replied" => reply[m] = NoResponse
    /\ \A m \in Nodes : \A p \in current[m] : GenuineFrom(reply[m], p)

\* Responses are never newer than the links, and a response on its way is
\* never older than the one it will replace.
AgeInv ==
    /\ \A m, p \in Nodes : cache[m][p].at <= edits
    /\ \A m \in Nodes : pc[m] = "replied" =>
         /\ reply[m].at <= edits
         /\ \A p \in current[m] : cache[m][p].at <= reply[m].at

\* The empty cache entry a client starts with is a well-formed response.
LEMMA NoResponseType == NoResponse \in Response
BY DEF NoResponse, Response

\* What the sync endpoint exports is a well-formed response.
LEMMA ExportType == ASSUME TypeOK, NEW n \in Nodes
                    PROVE  Export(n) \in Response
BY DEF TypeOK, Export, Response, LocalLinks

\* Every step keeps the type of the state: in particular an instance waits
\* for at most one response at a time (SyncClient.fetchAll 73-78).
LEMMA TypeStep == TypeOK /\ [Next]_vars => TypeOK'
<1> SUFFICES ASSUME TypeOK, [Next]_vars PROVE TypeOK'
    OBVIOUS
<1> USE PeerSyncAssumption
<1>1. ASSUME NEW i \in Links, NEW d \in Definitions, EditLink(i, d) PROVE TypeOK'
  BY <1>1 DEF TypeOK, EditLink, syncVars
<1>2. ASSUME NEW m \in Nodes, DiscoverPeers(m) PROVE TypeOK'
  BY <1>2 DEF TypeOK, DiscoverPeers, linkVars
<1>3. ASSUME NEW m \in Nodes, NEW p \in Nodes, Request(m, p) PROVE TypeOK'
  BY <1>3 DEF TypeOK, Request, linkVars
<1>4. ASSUME NEW m \in Nodes, NEW p \in Nodes, Serve(m, p) PROVE TypeOK'
  BY <1>4, ExportType DEF TypeOK, Serve, linkVars
<1>5. ASSUME NEW m \in Nodes, NEW p \in Nodes, FetchOK(m, p) PROVE TypeOK'
  BY <1>5, NoResponseType DEF TypeOK, FetchOK, linkVars
<1>6. ASSUME NEW m \in Nodes, FetchError(m) PROVE TypeOK'
  BY <1>6, NoResponseType DEF TypeOK, FetchError, linkVars
<1>7. ASSUME NEW m \in Nodes, Prune(m) PROVE TypeOK'
  BY <1>7, NoResponseType DEF TypeOK, Prune, linkVars
<1>8. CASE UNCHANGED vars
  BY <1>8 DEF TypeOK, vars
<1> QED BY <1>1, <1>2, <1>3, <1>4, <1>5, <1>6, <1>7, <1>8 DEF Next, Fetch

\* The initial state has the right type.
LEMMA TypeInit == Init => TypeOK
BY NoResponseType, PeerSyncAssumption DEF Init, TypeOK, Definitions

\* The state of all instances keeps its type.
THEOREM TypeCorrect == Spec => []TypeOK
BY TypeInit, TypeStep, PTL DEF Spec

-----------------------------------------------------------------------------
\* What an instance exports is genuine: newSyncHandler collects local links
\* only.
LEMMA ExportGenuine == ASSUME TypeOK, DataInv, NEW n \in Nodes
                       PROVE  GenuineFrom(Export(n), n)
BY DEF DataInv, GenuineFrom, Export, LocalLinks, TypeOK

\* Every step keeps DataInv.
LEMMA DataStep == TypeOK /\ DataInv /\ [Next]_vars => DataInv'
<1> SUFFICES ASSUME TypeOK, DataInv, [Next]_vars PROVE DataInv'
    OBVIOUS
<1> USE PeerSyncAssumption
<1>1. ASSUME NEW i \in Links, NEW d \in Definitions, EditLink(i, d) PROVE DataInv'
  <2>1. everOpen \subseteq everOpen' /\ everReplicated \subseteq everReplicated'
    BY <1>1 DEF EditLink
  <2>2. \A j \in Links : /\ link'[j] = "open" => j \in everOpen' /\ j \in everReplicated'
                         /\ link'[j] = "restricted" => j \in everReplicated'
    BY <1>1, <2>1 DEF EditLink, DataInv, TypeOK
  <2>3. \A m, p \in Nodes : GenuineFrom(cache[m][p], p)'
    BY <1>1, <2>1 DEF EditLink, syncVars, DataInv, GenuineFrom
  <2>4. \A m \in Nodes : \A p \in current'[m] : GenuineFrom(reply[m], p)'
    BY <1>1, <2>1 DEF EditLink, syncVars, DataInv, GenuineFrom
  <2> QED BY <1>1, <2>2, <2>3, <2>4 DEF EditLink, syncVars, DataInv
<1>2. ASSUME NEW m \in Nodes, DiscoverPeers(m) PROVE DataInv'
  BY <1>2 DEF DataInv, DiscoverPeers, linkVars, TypeOK, GenuineFrom
<1>3. ASSUME NEW m \in Nodes, NEW p \in Nodes, Request(m, p) PROVE DataInv'
  <2>1. reply[m] = NoResponse
    BY <1>3 DEF Request, DataInv
  <2>2. \A n \in Nodes : \A q \in current'[n] : GenuineFrom(reply[n], q)'
    BY <1>3, <2>1 DEF NoResponse, Request, linkVars, DataInv, TypeOK, GenuineFrom
  <2> QED BY <1>3, <2>1, <2>2 DEF Request, linkVars, DataInv, TypeOK, GenuineFrom
<1>4. ASSUME NEW m \in Nodes, NEW p \in Nodes, Serve(m, p) PROVE DataInv'
  <2>1. current[m] = {p}
    BY <1>4 DEF Serve, TypeOK
  <2>2. \A n \in Nodes : \A q \in current'[n] : GenuineFrom(reply[n], q)'
    BY <1>4, <2>1, ExportGenuine DEF Serve, linkVars, DataInv, TypeOK, GenuineFrom
  <2> QED BY <1>4, <2>2 DEF Serve, linkVars, DataInv, TypeOK, GenuineFrom
<1>5. ASSUME NEW m \in Nodes, NEW p \in Nodes, FetchOK(m, p) PROVE DataInv'
  <2>1. GenuineFrom(reply[m], p)
    BY <1>5 DEF FetchOK, DataInv
  <2>2. \A n, q \in Nodes : cache'[n][q] = IF n = m /\ q = p THEN reply[m] ELSE cache[n][q]
    BY <1>5 DEF FetchOK, TypeOK
  <2>3. \A n, q \in Nodes : GenuineFrom(cache[n][q], q)'
    BY <1>5, <2>1, <2>2 DEF FetchOK, linkVars, DataInv, GenuineFrom
  <2>4. \A n \in Nodes : \A q \in current'[n] : GenuineFrom(reply[n], q)'
    BY <1>5 DEF FetchOK, linkVars, DataInv, TypeOK, GenuineFrom
  <2> QED BY <1>5, <2>3, <2>4 DEF FetchOK, linkVars, DataInv, TypeOK
<1>6. ASSUME NEW m \in Nodes, FetchError(m) PROVE DataInv'
  BY <1>6 DEF DataInv, FetchError, linkVars, TypeOK, GenuineFrom
<1>7. ASSUME NEW m \in Nodes, Prune(m) PROVE DataInv'
  <2>1. \A n, q \in Nodes : cache'[n][q] \in {cache[n][q], NoResponse}
    BY <1>7 DEF Prune, TypeOK
  <2>2. \A n, q \in Nodes : GenuineFrom(cache[n][q], q)'
    BY <1>7, <2>1 DEF NoResponse, Prune, linkVars, DataInv, GenuineFrom
  <2> QED BY <1>7, <2>2 DEF Prune, linkVars, DataInv, TypeOK, GenuineFrom
<1>8. CASE UNCHANGED vars
  BY <1>8 DEF DataInv, vars, GenuineFrom
<1> QED BY <1>1, <1>2, <1>3, <1>4, <1>5, <1>6, <1>7, <1>8 DEF Next, Fetch

\* Data on their way between instances are genuine.
THEOREM DataGenuine == Spec => []DataInv
<1>1. Init => DataInv
  BY DEF Init, DataInv, GenuineFrom, NoResponse
<1> QED BY <1>1, TypeCorrect, DataStep, PTL DEF Spec

\* Links do not travel twice, in any peering (newSyncHandler 166-184).
THEOREM NeverReExported == Spec => []NoReExport
<1>1. DataInv => NoReExport
  BY DEF DataInv, NoReExport, GenuineFrom
<1> QED BY <1>1, DataGenuine, PTL

\* Links that were never published stay with their owner, and links that
\* were only published to groups stay hidden from guests
\* (filterLinksForReplication, linkAllowedForGroups).
THEOREM PrivateLinksStayLocal == Spec => []PrivateStaysLocal
<1>1. TypeOK /\ DataInv => PrivateStaysLocal
  BY DEF TypeOK, DataInv, PrivateStaysLocal, GenuineFrom, ShownToMember, ShownToGuest,
         LocalLinks, RemoteOpen, RemoteRestricted
<1> QED BY <1>1, TypeCorrect, DataGenuine, PTL

-----------------------------------------------------------------------------
\* After a poll only discovered peers are known (fetchAll 84-91).
THEOREM PeersDiscovered == Spec => []OnlyDiscoveredPeers
<1>1. Init => OnlyDiscoveredPeers
  BY DEF Init, OnlyDiscoveredPeers
<1>2. TypeOK /\ OnlyDiscoveredPeers /\ [Next]_vars => OnlyDiscoveredPeers'
  BY DEF TypeOK, OnlyDiscoveredPeers, Next, Fetch, EditLink, DiscoverPeers, Request, Serve,
         FetchOK, FetchError, Prune, vars, linkVars, syncVars
<1> QED BY <1>1, <1>2, TypeCorrect, PTL DEF Spec

-----------------------------------------------------------------------------
\* Every step keeps AgeInv.
LEMMA AgeStep == TypeOK /\ AgeInv /\ [Next]_vars => AgeInv'
<1> SUFFICES ASSUME TypeOK, AgeInv, [Next]_vars PROVE AgeInv'
    OBVIOUS
<1>0. /\ \A n, q \in Nodes : cache[n][q].at \in Nat
      /\ \A n \in Nodes : reply[n].at \in Nat
      /\ edits \in Nat
  BY DEF TypeOK, Response
<1>1. ASSUME NEW i \in Links, NEW d \in Definitions, EditLink(i, d) PROVE AgeInv'
  BY <1>0, <1>1 DEF AgeInv, EditLink, syncVars, TypeOK
<1>2. ASSUME NEW m \in Nodes, DiscoverPeers(m) PROVE AgeInv'
  BY <1>2 DEF AgeInv, DiscoverPeers, linkVars, TypeOK
<1>3. ASSUME NEW m \in Nodes, NEW p \in Nodes, Request(m, p) PROVE AgeInv'
  BY <1>3 DEF AgeInv, Request, linkVars, TypeOK
<1>4. ASSUME NEW m \in Nodes, NEW p \in Nodes, Serve(m, p) PROVE AgeInv'
  <2>1. reply' = [reply EXCEPT ![m] = Export(p)] /\ Export(p).at = edits
    BY <1>4 DEF Serve, Export
  <2> QED BY <1>0, <1>4, <2>1 DEF AgeInv, Serve, linkVars, TypeOK
<1>5. ASSUME NEW m \in Nodes, NEW p \in Nodes, FetchOK(m, p) PROVE AgeInv'
  <2>1. \A n, q \in Nodes : cache'[n][q] = IF n = m /\ q = p THEN reply[m] ELSE cache[n][q]
    BY <1>5 DEF FetchOK, TypeOK
  <2> QED BY <1>0, <1>5, <2>1 DEF AgeInv, FetchOK, linkVars, TypeOK
<1>6. ASSUME NEW m \in Nodes, FetchError(m) PROVE AgeInv'
  BY <1>6 DEF AgeInv, FetchError, linkVars, TypeOK
<1>7. ASSUME NEW m \in Nodes, Prune(m) PROVE AgeInv'
  <2>1. \A n, q \in Nodes : cache'[n][q].at <= cache[n][q].at
    BY <1>0, <1>7 DEF Prune, TypeOK, NoResponse
  <2>2. \A n, q \in Nodes : n # m => cache'[n][q] = cache[n][q]
    BY <1>7 DEF Prune, TypeOK
  <2>3. \A n, q \in Nodes : cache'[n][q].at \in Nat
    BY <1>0, <1>7 DEF Prune, TypeOK, NoResponse
  <2> QED BY <1>0, <1>7, <2>1, <2>2, <2>3 DEF AgeInv, Prune, linkVars, TypeOK
<1>8. CASE UNCHANGED vars
  BY <1>8 DEF AgeInv, vars
<1> QED BY <1>1, <1>2, <1>3, <1>4, <1>5, <1>6, <1>7, <1>8 DEF Next, Fetch

\* One step of the action property.
LEMMA ViewStep ==
    ASSUME TypeOK, AgeInv, [Next]_vars, NEW n \in Nodes, NEW q \in Nodes,
           q \in known[n], q \in known'[n]
    PROVE  cache'[n][q].at >= cache[n][q].at
<1>0. cache[n][q].at \in Nat
  BY DEF TypeOK, Response
<1>1. ASSUME NEW m \in Nodes, NEW p \in Nodes, FetchOK(m, p)
      PROVE  cache'[n][q].at >= cache[n][q].at
  <2>1. cache'[n][q] = IF n = m /\ q = p THEN reply[m] ELSE cache[n][q]
    BY <1>1 DEF FetchOK, TypeOK
  <2>2. reply[m].at \in Nat
    BY <1>1 DEF TypeOK, Response
  <2> QED BY <1>0, <1>1, <2>1, <2>2 DEF FetchOK, AgeInv
<1>2. ASSUME NEW m \in Nodes, Prune(m)
      PROVE  cache'[n][q].at >= cache[n][q].at
  <2>1. cache'[n][q] = cache[n][q]
    BY <1>2 DEF Prune, TypeOK
  <2> QED BY <1>0, <2>1
<1>3. CASE cache' = cache
  BY <1>0, <1>3
<1> QED BY <1>1, <1>2, <1>3
        DEF Next, Fetch, EditLink, DiscoverPeers, Request, Serve, FetchError, vars, syncVars

\* What is shown of a peer never goes back to an older state of it
\* (fetchAll asks one peer at a time and replaces whole responses).
THEOREM ViewsNeverRegress == Spec => ViewNeverRegresses
<1>1. Init => AgeInv
  BY DEF Init, AgeInv, NoResponse
<1>2. TypeOK /\ AgeInv /\ [Next]_vars =>
        [\A m, p \in Nodes : p \in known[m] /\ p \in known'[m]
                               => cache'[m][p].at >= cache[m][p].at]_vars
  BY ViewStep
<1> QED BY <1>1, <1>2, TypeCorrect, AgeStep, PTL DEF Spec, ViewNeverRegresses

============================================================================

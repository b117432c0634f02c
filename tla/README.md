# cupboard: TLA+ models, checks and proofs

cupboard is a Kubernetes operator that serves a dashboard of links. It reads
links from its own resources (Bookmark, BookmarkGroup, InfoTile), from
configuration and from annotated cluster resources, checks that bookmarked URLs
answer, renders tiles from HTTP endpoints, exchanges links with other cupboard
instances and with foreign clusters, and pushes a "something changed" ping to
open browsers. This directory holds models of the parts of it that are
concurrent, distributed or order dependent, what TLC checks of them on small
instances, and what TLAPS proves of them for all instances.

`PROJECT.json` lists the components, the runs with their properties, the source
lines each definition stands for, the hazards and the theorems.

## The system

| Component | State | Operations | Talks to |
|---|---|---|---|
| Live-update notifier, `web/notifier.go`, `/api/dashboard/updates` in `web/handler.go` | map of connections, one-token channel, `pending` flag | `Notify`, the `Start` loop (limiter, pinger), register, unregister, `closeAll`, a reader goroutine per connection | called by informer handlers and by the tile reconciler; browsers |
| Dashboard collection, `web/dashboard.go` | none between calls; maps of groups, links, tiles during a call | `collectDashboard` and one function per source | informer caches, discovery, SyncClient, foreign clusters |
| Peer synchronisation, `web/sync.go` | last response per peer | poll loop with discovery, fetch and pruning; sync endpoint | other instances; the collector |
| Bookmark reconciler | status of Bookmarks, work queue | `Reconcile`: read, probe, write | API server, probed URLs; read by the collector |
| InfoTile reconciler | status of InfoTiles, work queue | `Reconcile`: read, fetch and render, write; `Notify` | API server, backends, notifier |
| BookmarkGroup reconciler | count of bookmarks in the status | `Reconcile` | API server |
| Azure token source, `internal/foreigncluster/azure.go` | cached token under a mutex | `Token`, the exchange | Azure AD; every request to a fleet cluster |
| Foreign cluster manager | handles with `ready` | `connectAll`, `reconnectDown`, `ActiveClusters` | foreign API servers; the collector |
| Authentication, `web/auth.go` | cached issuer check, cached userinfo endpoint; sessions live in cookies | `authConfig`, `authenticateRequest`, session routes | OIDC issuer |
| Browser client, `web/templates/*/page.tmpl` | scheduled refresh, socket | fetch, throttled refetch on ping, reconnect | dashboard and update routes |
| Webhooks and URL resolver | none | validation, lookup of a URL | API server |

What is hard in it: goroutines that meet in the notifier's map and channel;
reconcilers that read an object, wait for the network and then write; instances
that poll each other in cycles, with lookups and requests that fail; caches that
lag; a response put together from a dozen sources that may each be the first to
mention a group; an expiry that is recorded later than it began.

What makes each component correct:

* notifier: no change is lost, no connection is orphaned or leaked, pings reach
  whoever stays connected;
* collection: everything that may be seen is in the response and nothing else,
  and remote data never damage local data;
* synchronisation: data never travel twice, private links stay local, withdrawn
  links disappear;
* reconcilers: a result is stored only next to the spec it was computed from, no
  object is forgotten, checks happen when they are due;
* token source and foreign clusters: a token from the cache is valid, callers do
  not stampede, a cluster is used only once it has clients, and no lock keeps a
  dashboard call from ending;
* authentication: what is believed of the issuer is recent, a group that was
  taken away is honoured for a bounded time;
* watches and browser: a change that the server watches is shown by every page
  that stays connected, and a page that lost its connection gets another.

## The models

| Module | Models | Modules around it |
|---|---|---|
| `UpdateChannel` | abstract: what the update route promises its clients | |
| `DashboardNotifier` | `web/notifier.go`, the update route of `web/handler.go`; implements `UpdateChannel` | `DashboardNotifier_proofs` |
| `LiveUpdate` | the script of a page on top of `UpdateChannel`, `setupDashboardWatches` in `cmd/main.go`, restarts | `MCLiveUpdate`, `LiveUpdate_proofs` |
| `DashboardCollector` | `collectDashboard` and all it calls | `MCDashboardCollector`, `DashboardCollector_proofs` |
| `PeerSync` | `web/sync.go`, the sync path through the collector, several instances | `MCPeerSync`, `PeerSync_proofs` |
| `AuthService` | `web/auth.go` and the routes that use it | `MCAuthService`, `AuthService_proofs` |
| `ForeignClusters` | `manager.go`, `client.go` and the dashboard calls that use foreign clusters, composed with `AzureToken` | `ForeignClusters_proofs` |
| `AzureToken` | `azure.go` | `ForeignClusters_proofs` |
| `BookmarkController` | `bookmark_controller.go`, its cache and queue, and what the dashboard shows of it | `ControllerRuntime`, `BookmarkController_proofs` |
| `InfoTileController` | `infotile_controller.go`, its cache and queue, the ping and refetch of a browser | `InfoTileController_proofs` |
| `ControllerRuntime` | external: the queue of controller-runtime, as the reconcilers use it | |

Operators named `Fault...` are plausible errors in the code. They are not part
of a specification; each replaces the definition after it to show that a
property notices.

**DashboardNotifier.** The `Start` loop is a process with a program counter at
its `select`, at the client count, at the snapshot and between writes; each
connection has a handler and then a reader goroutine that fails, unregisters and
closes in separate steps. All access to the map is under `n.mu`, so each access
is one step. `version` and `told` are history: the newest change, and the newest
change covered by the last ping to a connection.

**UpdateChannel** has three variables: the open connections, those that are owed
a ping, and whether the server shuts down. In `DashboardNotifier` a connection is
open when it is in the map and its transport is alive, and owed a ping when the
newest change is newer than what its last ping covered. `ImplementsChannel` is
the whole promise, the ping that comes in the end included.

**LiveUpdate.** Only the promise of the channel is used, so what is checked of
the page holds for every server that keeps it. The kinds the server watches are
chosen at each start from those installed then, with failures of `addWatch`.
The page is what its script remembers: messages not handled, the timer, fetches
under way with the version they were collected at, the version of the links on
the page and the status line. An answer without groups changes the status line
and not the links, as in the script. `due` is history: the newest change the page
has a right to, since its connection was registered and of a kind that is
watched. `told` and `newest`, the last and the newest answer handled, are history
too. `Current(v)` says when the page reflects version `v`: its links are of `v` or
newer, or it says that there are none and the answer it says so of is; the links
beside that message may be old. `admitted` is whether the server accepts the
browser's session, which ends after 24 hours or with a sign-out and is renewed
only from another tab; without it both the update route and `/api/dashboard`
answer 401, while a connection that is open stays open.

**DashboardCollector.** One call. Every `List` reads a cache that other
goroutines change, so each step takes an arbitrary object of its kind and
`Continue` ends the list: nothing is assumed about how lists relate. `details`
is `groupDetails`; `links` and `tiles` hold the values of the two maps with
their group. Annotated kinds share a phase because their collection commutes.
Names may differ in case only: `resolveLinkGroupName` ignores case, the maps do
not. Names, URLs and icons of links are reduced to "complete or not".
`resolveLinkGroupName` and the sort range over Go maps, so their results are
sets of possible results. Peers send groups of any class, and of the priorities
`PeerPriorities`. The sort compares priorities by a difference of ints
that may wrap around; when the comparison is no order, any sequence may come out.
The groups of a response are a set: they come in the order of its `linkGroups`.

**PeerSync.** Each instance runs `fetchAll` with steps for the discovery, the
request, the moment the peer makes its response, and its arrival or loss; links
change at any time. A link crosses an instance as JSON: its groups are kept and
its replicate flag is not.

**BookmarkController, InfoTileController.** `Reconcile` is three steps (cache
read, network, status write), against users who edit, delete and create, an
informer cache that follows the stored versions one at a time, refused and
failing writes, and the queue. Bookmarks have a clock, because their checks are
due by time; tiles have none, and a queue entry is absent, delayed or ready.
The Bookmark reconciler has no predicate, so an update of any field, label or
annotation (`Touch`) and the first list after a `Restart` of the manager enqueue
the object like an edit of its URL, and may postpone its check.
`prompt`, chosen in the initial state, says whether time may pass while work is
due: the bounds on the age of a check are about a reconciler that keeps up, with
restarts that take no time.

**AuthService.** Requests of one browser, which share its cookie, with a clock in
seconds. A step without I/O takes no time; a probe or a fetch takes at most its
timeout, because the clock waits for whoever has run out of time. An answer may
describe the issuer at any moment since the question was sent. `lastUp`,
`lastBad` and `lastMember` are history. The issuer check and the sessions share
no state, so `Traffic` lists which routes occur together.

**ForeignClusters.** The manager's goroutine, dashboard calls and their requests,
each of which to the Azure cluster is a call of `Token` in `AzureToken`. A connect
only builds clients (the REST mapper is lazy), so it fails with the configuration
and not with the network.

**AzureToken.** A clock, callers at the mutex, and an authority that starts a
token's life anywhere within the exchange. Times are small numbers in the order
of the code's (timeout 15 s below margin 30 s below lifetimes).

## What TLC checks

| Run | Instance | Shows |
|---|---|---|
| `notifier` | 1 connection, 3 changes | `ImplementsChannel`, `NoLostNotification`, `NoOrphanConnection`, `CoalescingBound`, `DeadConnectionForgotten`, `ShutdownClosesClients` |
| `live` | 1 page, 2 changes of 4 kinds, 2 fetches at a time, 1 restart, sessions that end and are renewed | `RefetchOwed`, `ChangeRendered`, `PageReconnects` |
| `collector` | 2 names equal up to case, 1 user group, 2 entries | `NothingLost`, `NothingLeaked`, `LocalGroupsKept`, `RemoteNeverBreaks` |
| `collector_hidden` | the same without configuration | violation, see below |
| `sync` | 2 instances that poll each other, one also itself; 1 link, 1 edit | `NoReExport`, `PrivateStaysLocal`, `OnlyDiscoveredPeers`, `ViewNeverRegresses`, `RevocationReachesPeers` |
| `bookmark` | 1 URL, 3 user operations, 1 failing write or restart, interval 2, clock to 7 (2 when late) | `VerdictMatchesSpec`, `NeverAbandoned`, `CheckAgeBound`, `StaleVerdictBound` |
| `bookmark_confirmed` | 2 URLs, 1 edit | violation, see below |
| `tile_settle` | 1 tile, 2 specs, 1 failing write | `ContentMatchesSpec`, `SettledTileRendered` |
| `tile_push`, `tile_interval` | 1 tile, 2 answers | violations, see below |
| `fleet` | the manager and 1 dashboard call, an Azure and a kubeconfig cluster, 1 change of configuration, timeout 1, margin 1, lifetime 3, clock to 4 | `SnapshotComplete`, `CachedTokenValid`, `NoRedundantRefresh`, `UsableClusterActive`, `CallsReturn` |
| `auth` | 2 requests, issuer TTL 2, probes 1, client timeout 2, sessions 2, clock to 6, 1 change of issuer or group, symmetric | `VerdictFresh`, `VerdictRegressBound`, `RevokedGroupLosesAccess` |

Every passing run also checks the type invariant. Why the bounds are enough:

* Notifier: three changes are one in the channel, one behind the pending flag
  and one during the broadcast. One connection, because every property is about
  each connection by itself and the loop treats the others as further writes;
  the safety part, refinement included, is proved for any number of them.
* Page: two fetches are what it takes to overlap; one change may fall before a
  fetch is collected and one after. The kinds are one that is always watched,
  one that may be installed late, one that is never watched and one whose watch
  fails. The dashboard is empty at version 1, between two versions that have
  links. A restart may come at every point, and so may the end of the session.
* Collector: two entries are enough for two sources to meet in a group, a
  BookmarkGroup with its bookmark, or a configured group with a peer's; two
  names that differ in case cover every branch of the resolution. The
  configurations have a repeated and an empty name, and a priority so small that
  its distance from the default is not an int; peers send that priority and the
  default.
* Sync: two instances polling each other are the shortest cycle, and the one
  that also polls itself has two peers to ask in turn. The link starts in any
  definition, so one edit is every single change: published, restricted or
  withdrawn. Longer histories and other peerings are left to the proofs for
  the safety properties; for liveness only the last change counts.
* Reconcilers: objects do not interact except through the worker; three
  operations allow deletion and re-creation within one `Reconcile`, and an edit
  of the URL whose check other updates postpone. The clock covers three check
  intervals.
* Fleet: the clock covers the life of a token and its refresh; two callers meet
  at the mutex, one of which is the manager, and both kinds of cluster occur.
* Authentication: two checks are enough to end in the wrong order, and two
  requests for a session that is replaced while another is used. The issuer
  starts up or down, so one change is every outage and every recovery, and the
  clock goes beyond the longest bound by two seconds.

### Fairness

Only where a property needs it, and no more than the code gives. Go picks among
ready `select` cases at random, so the cases of the notifier's loop are strongly
fair; writes have deadlines, so they end. Changes, new connections, shutdown and
failures never have to happen. Polls are started by a ticker and end within 10 s
per peer; `RevocationReachesPeers` assumes that a peer asked again and again is
reached now and then (strong fairness of the answer), which is an assumption on
the network. In `tile_settle` backends answer in the end; the code gives no such
guarantee, see the observations. A starving waiter gets a Go mutex, so `Lock` is
strongly fair, and so is a reader of the manager's `RWMutex`. In `fleet` requests
end: the transport of Azure and trust-store clusters gives up after 30 s, for the
others it is an assumption on the network. In `live` a browser handles its
events, both ends of a broken connection notice, a stopped server is started
again, and of endless attempts to connect with a valid session one succeeds;
fetches may always fail. Nothing is assumed of the session, so `PageReconnects`
has the premise that it is valid from some time on: with authentication enabled,
the cookie ends 24 hours after the sign-in and nothing in the page renews it.
In `collector` lists end and the clusters are finitely many.

## Where code and documentation disagree

* `collector_hidden`: with `localOnly`, links and tiles are filtered for
  replication but `LinkGroups` is not, so the sync response names every
  BookmarkGroup. `bookmarkgroup_types.go:35-37` says a group that is not
  replicated is only visible on the local dashboard. Peers ignore the extra
  names, since they only merge `Groups`.
* `bookmark_confirmed`: after an edit of `spec.url` the old verdict stays until
  the next check is due, and the dashboard shows the new URL with it.
  `dashboard.go:510`: "Only show bookmarks whose URL has been confirmed
  reachable." `StaleVerdictBound` bounds this by two intervals (ten minutes), and
  that is what the code gives: the edit of an icon or a label, or a restart, just
  before the check is due defers it by a whole interval.
* `tile_push`: `Notify` is called before the status write; a browser that
  refetches in between keeps the old content. `infotile_controller.go:44` says
  the call comes after the update.
* `tile_interval`: each status write changes `LastFetchedAt`, whose event
  reconciles the tile at once; the interval does not control the fetches
  (`infotile_types.go:56`). Writes within one second are equal, and so the loop
  pauses only when a fetch ends in the second in which it began.

Observed while modelling, without a run:

* `infotile_controller.go:167`: the default HTTP client has no timeout; a
  backend that never answers stops all tiles.
* A Bookmark with `urlFrom.ingressRef` is probed and then shown with an empty
  link, because the collector only looks at `spec.url`.
* Tiles are exported to peers and dropped there: `mergeRemoteData` ignores them.
* The count in a BookmarkGroup's status follows BookmarkGroup events only.
* `ready` of a foreign cluster is never reset, and it says that clients exist;
  `manager.go:62` calls the result "currently reachable clusters". A cluster that
  is gone costs every dashboard its timeouts.
* `dashboard.go:314-317` caps the collection from one cluster at 35 s, but neither
  discovery requests nor `Token` see that context. Failed exchanges are not
  cached: callers waiting at the mutex repeat them one after the other.
* `auth.go:440`: the probes use the visitor's context. One who leaves during a
  check makes the server take the issuer for unreachable for 30 s.
* A bearer token that fails is answered with 401 although the cookie is valid,
  and the userinfo endpoint is kept until the server restarts.
* `main.go:732` says the notifier fires whenever a resource that affects the
  dashboard changes; Bookmarks and kinds installed after the start are listed and
  not watched. Tiles notify through their reconciler, which runs on the leader
  only, so browsers of other replicas hear nothing of them.
* A page fetches nothing when it reconnects, and does not repeat a fetch that
  failed; answers of overlapping fetches may be rendered in the wrong order.
* `README.md:171` says refreshes are throttled to one in two seconds, but
  `lastRefreshAt` is set when an answer was rendered: while fetches are slow or
  fail, every ping starts another at once.
* The forecastle page takes its status line off the page with the first links
  (`forecastle/page.tmpl:192`); later failures are not seen.
* Two matching groups make `resolveLinkGroupName` depend on map order.
* An empty dashboard leaves the previous links on the page, beside "No links
  available." (`page.tmpl:53-57`). `Current` names this case; `RefetchOwed` and
  `ChangeRendered` then speak of the message.
* A page whose session has ended (`auth.go:24`, `260`) tries to connect every two
  seconds and is answered 401 each time (`handler.go:168-173`); it does not send
  the user to the sign-in.
* `bookmark_types.go:97-100` says that the controller sets `Replicate` on the
  managed BookmarkGroup of a Bookmark that has it; no code does.

## What is proved

All proofs hold for every value of the constants, under the assumptions named in
the modules (`MaxVersionAssumption`, `TimingAssumption`, `PeerSyncAssumption`,
`FleetAssumption`, `AuthAssumption`, `BookmarkAssumption`, `InfoTileAssumption`,
`CollectorAssumption`, `PageAssumption`). These give the constants their types;
the only ones that say more are on times, and are named below.

* `DashboardNotifier_proofs`: `TypeCorrect`; `ConnectionsAccounted`, an invariant
  that ties the map, the reader's state and the transport of each connection
  together and from which `NoConnectionOrphaned` follows; `NotificationsNotLost`;
  `CoalescingBounded`; and `ChannelImplemented`, the refinement: every step of
  the notifier is a step of `UpdateChannel` or changes nothing its clients can
  tell. The refinement needs the invariant on connections (a connection that
  leaves the map is or will be closed) and that what a client was told never
  exceeds the newest change. `NoLostNotification` needs what
  holds of a snapshot that is being written: a connection that has been served or
  has registered after the snapshot was taken is covered by what it was told at
  that moment or by a change that is still to come through the channel.
* `PeerSync_proofs`: `TypeCorrect`; `NeverReExported` and `PrivateLinksStayLocal`
  from `DataInv`, which says of every cached response and of every response on
  its way that it holds its sender's own links with an audience they once had;
  `ViewsNeverRegress` from `AgeInv`, by which a response on its way is no older
  than the one it will replace; `PeersDiscovered`. They hold for every peering,
  cycles included.
* `ForeignClusters_proofs`, the token source: `TypeCorrect`, `CachedTokensValid`, `RefreshesNeeded` from
  `TokenInv`: mutual exclusion, the time window of an exchange in flight, that an
  exchange runs only while the cached token is not reusable, and the drift of
  the recorded expiry. The one assumption on times is that the timeout does not
  exceed the margin; it is what makes 30 s enough for 15 s.
* `ForeignClusters_proofs`, the fleet: `FleetUsesTokenSource` shows that every step of the
  composition is a step of `AzureToken` or leaves it alone, so `FleetTokensValid`
  and `FleetRefreshesNeeded` follow from the theorems there. `SnapshotsComplete`
  and `FleetTypeCorrect` come from `FleetInv`: a cluster is ready exactly if it
  has clients, every cluster still to be asked has a handle, and one that a
  dashboard call still has to ask has clients. It is inductive because `ready`
  and the clients of a handle are never taken back.
* `AuthService_proofs`: `VerdictsFresh`, `VerdictRegressBounded`,
  `RevocationBounded` and `TypeCorrect` from `AuthInv`. A stored verdict has
  evidence no older than its time stamp and a cookie with the group has evidence
  counted back from its expiry; a request under way is within its timeout, so
  what it is about to store is as recent. Storing the time at which a check
  began, and `2 * ProbeTimeout <= IssuerCheckTTL`, are what the proof rests on.

* `BookmarkController_proofs`: `TypeCorrect`, `VerdictsMatchSpecs`,
  `BookmarksNeverAbandoned`, `ChecksRecent` and `StaleVerdictsBounded` from
  `BookmarkInv`. A resourceVersion tells versions apart, so a copy whose version is
  the stored one has the stored spec: this is why a verdict cannot be written next
  to another spec. For the bounds in time: an entry is ready or becomes so before
  the verdict is two intervals old, and a verdict that is of an older spec was
  there when the spec was changed, because what is written later is of the stored
  spec. They hold for a reconciler that keeps up
  (`prompt`), for every interval.
* `InfoTileController_proofs`: `TypeCorrect` and `ContentsMatchSpecs` from
  `TileInv`. A copy that is not outdated was read from a cache that was up to date
  and nothing was stored since, so it has the stored spec, and the stored content
  or one rendered from that spec.
* `DashboardCollector_proofs`: `TypeCorrect`, `EverythingSent`, `NothingElseSent`
  and `RemoteChangesNoGroup` from `CollectorInv`: links and tiles are filed under
  groups that exist, links of foreign clusters are kept apart until those that are
  not marked are dropped, and a call of the sync handler never gets to remote data.
  That nothing is lost also needs that the sorted groups are all groups: a list
  without repetition as long as a finite set holds each of its elements.
  `GroupsOrdered` says when the groups are sorted: the comparison is a strict weak
  order if no two priorities are further apart than the largest int.
* `LiveUpdate_proofs`: `TypeCorrect` and `ChangesNotForgotten` from `PageInv`. The
  part that makes `RefetchOwed` inductive is about answers that are too old: while
  one is on the way, whatever prompts the next fetch (a ping, a message, the timer)
  can only be used up by a fetch that overlaps it. An answer that is as new as what
  is due makes the page `Current`, with its links or, if it has none, with the
  message; the old links that stay in the second case are outside the theorem. It
  also needs that every core
  kind that could be watched is. `PageUsesChannel` shows that the page relies on
  steps of `UpdateChannel` only, which `ChannelImplemented` shows the notifier to
  take; a new server starts the channel again.

Each of these inductive invariants was checked by TLC before it was proved.

Every invariant and every action property that a passing run checks is stated by
a theorem. Only model-checked are the liveness properties, `OwedPingComes` and the
liveness part of `ImplementsChannel` among them: the prover does not do fairness.
That `sortLinkGroups` always has a result would need an induction over finite sets
and is covered by `RemoteNeverBreaks` on the instance of the run.

## What is not modelled, and what comes next

Not modelled for good: TLS and cookie cryptography, OIDC, page templates and
assets, flags and configuration files, building REST clients, admission webhooks
(stateless, one object at a time), generated code. They are sequential, stateless
or belong to others.

Not modelled yet:

* the BookmarkGroup reconciler: its count follows BookmarkGroup events only, and
  nothing reads it;
* several replicas of one instance behind one peer URL, whose caches may differ:
  in `PeerSync` an instance is one process that serves what it has now;
* real time in the notifier: the rate limit of its ticker and the ping deadline
  under many slow clients;
* several tiles behind one worker with a backend that never answers: the code
  has nothing that would end the wait, so there is no property to state.

Next, the proofs: that a page and a notifier keep `RefetchOwed` together, with the
channel replaced by its implementation; facts about operators that only TLC has
seen, such as the existence of a sorted list of groups.

----------------------------- MODULE LiveUpdate -----------------------------
(***************************************************************************)
(* A dashboard page in a browser (templates/default/page.tmpl) that keeps  *)
(* itself up to date over the update channel, and the watches that feed    *)
(* the channel (setupDashboardWatches in cmd/main.go).                     *)
(*                                                                         *)
(* The page fetches /api/dashboard and opens the WebSocket side by side.   *)
(* A message starts a timer, the timer starts a fetch, and only a fetch    *)
(* changes the page.  Nothing is fetched because a connection was lost or  *)
(* made again, and a fetch that fails is not repeated.  The server may be  *)
(* restarted; it then watches what is installed at that time.              *)
(*                                                                         *)
(* version counts changes of the resources the dashboard is made of, and   *)
(* an answer is known by the version it was collected at.  The length of   *)
(* the timers is left out.                                                 *)
(***************************************************************************)
EXTENDS UpdateChannel, Integers

CONSTANTS
    Tab,            \* the page, one of the clients of the channel
    Kinds,          \* resource kinds that occur in the cluster
    Unwatchable,    \* sets of kinds for which addWatch may fail
    EmptyVersions,  \* versions at which the dashboard has no group
    MaxFetches,     \* bound: fetches in flight at a time
    MaxVersion,     \* bound: changes
    MaxInbox,       \* bound: messages the page has not handled yet
    MaxRestarts     \* bound: restarts of the server

ASSUME PageAssumption ==
    /\ Tab \in Clients
    /\ MaxFetches \in Nat \ {0} /\ MaxInbox \in Nat \ {0}
    /\ MaxVersion \in Nat /\ MaxRestarts \in Nat

VARIABLES
    installed,  \* optional kinds the API server offers
    watched,    \* kinds with an informer handler that calls Notify
    unwatched,  \* kinds whose addWatch failed at the last start
    restarts,   \* starts after the first
    version,    \* number of changes so far
    sock,       \* the page's WebSocket; "broken": cut and nobody noticed
    inbox,      \* messages received and not handled
    timer,      \* scheduledRefresh is set
    fetch,      \* calls of renderDashboard
    shown,      \* version of the links on the page
    status,     \* what the page says: "links", "none" or "failed"
    admitted,   \* the server accepts the browser's session cookie
    told,       \* history: version of the answer handled last
    newest,     \* history: newest version that an answer was handled of
    due,        \* history: newest change since the connection was registered
                \* of a kind the server must watch
    overlapped  \* history: the last fetches to start were not alone

watchVars == <<installed, watched, unwatched, restarts>>
answerVars == <<shown, status, told, newest>>
pageVars == <<inbox, timer, fetch, answerVars, overlapped>>
vars == <<channelVars, watchVars, version, admitted, sock, pageVars, due>>

-----------------------------------------------------------------------------
(* The watches.                                                            *)

Core == {"BookmarkGroup", "Ingress", "Service", "EndpointSlice"}
\* Listed but not watched; InfoTiles notify through their reconciler instead.
Own == {"Bookmark", "InfoTile"}
Traefik == <<"traefik.io/IngressRoute", "traefik.containo.us/IngressRoute">>
Optional == {"ForecastleApp", "HTTPRoute", "GRPCRoute", "TLSRoute", "TCPRoute",
             "DNSEndpoint", Traefik[1], Traefik[2]}

\* EndpointSlices forgotten at the end of setupDashboardWatches.
FaultWatchedKinds(present) ==
    (Core \ {"EndpointSlice"})
        \cup (IF Traefik[1] \in present THEN present \ {Traefik[2]} ELSE present)

\* The kinds addWatch is called for: the legacy Traefik group only when the
\* current one is missing, Bookmarks and InfoTiles not at all.
WatchedKinds(present) ==
    Core \cup (IF Traefik[1] \in present THEN present \ {Traefik[2]} ELSE present)

\* The changes that have to reach the browsers: of every kind the dashboard
\* lists, except Bookmarks and InfoTiles, that was there when the server
\* started and could be watched.
MustNotify(k) ==
    /\ k \in Kinds \ unwatched
    /\ k \in Core \/ (k \in Optional /\ k \in watched)

setupDashboardWatches(present) ==
    /\ unwatched' \in Unwatchable
    /\ watched' = WatchedKinds(present) \ unwatched'

-----------------------------------------------------------------------------
Fetches == 1..MaxFetches
Idle == [st |-> "idle", at |-> 0]
Sent == [st |-> "sent", at |-> 0]
Answered(v) == [st |-> "answered", at |-> v]

TypeOK ==
    /\ ChannelTypeOK
    /\ installed \subseteq Optional /\ unwatched \in Unwatchable
    /\ watched \subseteq Core \cup Optional
    /\ restarts \in 0..MaxRestarts
    /\ version \in 0..MaxVersion
    /\ sock \in {"connecting", "open", "broken", "closed"}
    /\ inbox \in 0..MaxInbox
    /\ timer \in BOOLEAN
    /\ fetch \in [Fetches -> {Idle, Sent} \cup {Answered(v) : v \in 0..version}]
    /\ {shown, told, newest, due} \subseteq 0..version
    /\ status \in {"links", "none", "failed"}
    /\ admitted \in BOOLEAN
    /\ overlapped \in BOOLEAN

\* The server has rendered the page, and its script has started the first
\* fetch and asked for the WebSocket.
Init ==
    /\ ChannelInit
    /\ installed \in SUBSET (Kinds \cap Optional)
    /\ unwatched \in Unwatchable
    /\ watched = WatchedKinds(installed) \ unwatched
    /\ restarts = 0
    /\ version = 0
    /\ sock = "connecting"
    /\ inbox = 0
    /\ timer = FALSE
    /\ fetch = [f \in Fetches |-> IF f = 1 THEN Sent ELSE Idle]
    /\ shown = 0 /\ told = 0 /\ newest = 0
    /\ status = "links"
    /\ admitted = TRUE
    /\ due = 0
    /\ overlapped = FALSE

-----------------------------------------------------------------------------
(* The cluster and the server.                                             *)

\* An object of kind k changes.  Its informer, if there is one, notifies.
Change(k) ==
    /\ k \in Core \cup Own \cup installed
    /\ version < MaxVersion
    /\ version' = version + 1
    /\ due' = IF MustNotify(k) /\ Tab \in open THEN version' ELSE due
    /\ IF k \in watched /\ ~down THEN DataChange ELSE UNCHANGED channelVars
    /\ UNCHANGED <<watchVars, admitted, sock, pageVars>>

\* A CRD is installed while the server runs; nothing watches it.
Install(k) ==
    /\ k \in (Kinds \cap Optional) \ installed
    /\ installed' = installed \cup {k}
    /\ UNCHANGED <<channelVars, watched, unwatched, restarts, version, admitted, sock,
                   pageVars, due>>

Stop ==
    /\ ~down
    /\ restarts < MaxRestarts
    /\ ShutDown
    /\ UNCHANGED <<watchVars, version, admitted, sock, pageVars, due>>

\* Pings owed by the old process are carried over to the new one.
FaultRestartKeepsDebts ==
    /\ down
    /\ down' = FALSE /\ open' = {} /\ UNCHANGED owed
    /\ setupDashboardWatches(installed)
    /\ restarts' = restarts + 1
    /\ UNCHANGED <<installed, version, admitted, sock, pageVars, due>>

\* The process has ended, with its connections, and a new one starts.
Restart ==
    /\ down
    /\ down' = FALSE /\ open' = {} /\ owed' = {}
    /\ setupDashboardWatches(installed)
    /\ restarts' = restarts + 1
    /\ UNCHANGED <<installed, version, admitted, sock, pageVars, due>>

-----------------------------------------------------------------------------
(* The connection of the page.                                             *)

\* The server accepts the session and registers the connection that
\* connectUpdates asked for.
Connected ==
    /\ sock = "connecting"
    /\ ~down /\ admitted
    /\ OpenConn(Tab)
    /\ sock' = "open"
    /\ due' = 0
    /\ UNCHANGED <<watchVars, version, admitted, pageVars>>

\* "error", then "close": nobody answers, or the answer is 401.
ConnectFails ==
    /\ sock = "connecting"
    /\ sock' = "closed"
    /\ UNCHANGED <<channelVars, watchVars, version, admitted, pageVars, due>>

\* The path between browser and server is cut.
Cut ==
    /\ sock = "open"
    /\ sock' = "broken"
    /\ UNCHANGED <<channelVars, watchVars, version, admitted, pageVars, due>>

\* The server drops the connection (failed write, read deadline).
ServerCloses ==
    /\ Tab \in open
    /\ CloseConns({Tab})
    /\ UNCHANGED <<watchVars, version, admitted, sock, pageVars, due>>

\* A ping is written.  Over a broken path it gets no further than a buffer.
Pinged ==
    /\ ~down
    /\ inbox < MaxInbox
    /\ Ping(Tab)
    /\ inbox' = IF sock = "open" THEN inbox + 1 ELSE inbox
    /\ UNCHANGED <<watchVars, version, admitted, sock, timer, fetch, answerVars,
                   overlapped, due>>

\* The page learns that its connection is gone, after the messages that came
\* before.  If the server still has it, it is of no use to the page any more.
CloseEvent ==
    /\ sock = "broken" \/ (sock = "open" /\ Tab \notin open)
    /\ inbox = 0
    /\ sock' = "closed"
    /\ CloseConns({Tab} \cap open)
    /\ UNCHANGED <<watchVars, version, admitted, pageVars, due>>

\* A close handler that does nothing.
FaultNoReconnect ==
    /\ sock = "closed"
    /\ UNCHANGED vars

\* setTimeout(connectUpdates, 2000)
Reconnect ==
    /\ sock = "closed"
    /\ sock' = "connecting"
    /\ UNCHANGED <<channelVars, watchVars, version, admitted, pageVars, due>>

-----------------------------------------------------------------------------
(* The script of the page.                                                 *)

Busy == {f \in Fetches : fetch[f] # Idle}

\* Messages are ignored while a fetch runs, to avoid a second one.
FaultMessage ==
    /\ inbox > 0
    /\ inbox' = inbox - 1
    /\ timer' = (timer \/ Busy = {})
    /\ UNCHANGED <<channelVars, watchVars, version, admitted, sock, fetch,
                   answerVars, overlapped, due>>

\* "message": scheduleRefresh, which returns when a timer is already set.
Message ==
    /\ inbox > 0
    /\ inbox' = inbox - 1
    /\ timer' = TRUE
    /\ UNCHANGED <<channelVars, watchVars, version, admitted, sock, fetch,
                   answerVars, overlapped, due>>

\* The timer fires: scheduledRefresh is cleared and renderDashboard called.
TimerFires(f) ==
    /\ timer
    /\ fetch[f] = Idle /\ 1..f-1 \subseteq Busy
    /\ timer' = FALSE
    /\ fetch' = [fetch EXCEPT ![f] = Sent]
    /\ overlapped' = (Busy # {})
    /\ UNCHANGED <<channelVars, watchVars, version, admitted, sock, inbox,
                   answerVars, due>>

\* The server accepts the session and collects the dashboard for a fetch, at
\* this version or later.
Collect(f) ==
    /\ fetch[f] = Sent
    /\ ~down /\ admitted
    /\ fetch' = [fetch EXCEPT ![f] = Answered(version)]
    /\ UNCHANGED <<channelVars, watchVars, version, admitted, sock, inbox, timer,
                   answerVars, overlapped, due>>

\* The request or its answer is lost, or the status is not 2xx.
FetchFails(f) ==
    /\ fetch[f] # Idle
    /\ fetch' = [fetch EXCEPT ![f] = Idle]
    /\ status' = "failed"
    /\ UNCHANGED <<channelVars, watchVars, version, admitted, sock, inbox, timer, shown,
                   told, newest, overlapped, due>>

\* renderDashboard replaces the links by those of the answer.  For an answer
\* without groups it says that there are none and returns before it touches
\* the links, so the old ones stay.  It does not look whether the answer is
\* older than the page.
Render(f) ==
    /\ fetch[f].st = "answered"
    /\ LET v == fetch[f].at
           empty == v \in EmptyVersions
       IN /\ shown' = IF empty THEN shown ELSE v
          /\ status' = IF empty THEN "none" ELSE "links"
          /\ told' = v /\ newest' = IF v > newest THEN v ELSE newest
    /\ fetch' = [fetch EXCEPT ![f] = Idle]
    /\ UNCHANGED <<channelVars, watchVars, version, admitted, sock, inbox, timer,
                   overlapped, due>>

-----------------------------------------------------------------------------
(***************************************************************************)
(* The session of the browser, with authentication enabled: it ends 24     *)
(* hours after the last sign-in, or with a sign-out in another tab, and a  *)
(* sign-in in another tab renews it.  Nothing in the page does, and an     *)
(* open connection is not asked for it again.                              *)
(***************************************************************************)
SessionEnds ==
    /\ admitted
    /\ admitted' = FALSE
    /\ UNCHANGED <<channelVars, watchVars, version, sock, pageVars, due>>

SignIn ==
    /\ ~admitted
    /\ admitted' = TRUE
    /\ UNCHANGED <<channelVars, watchVars, version, sock, pageVars, due>>

Cluster == Stop \/ Restart \/ \E k \in Kinds : Change(k) \/ Install(k)

Socket == \/ Connected \/ ConnectFails \/ Cut \/ ServerCloses \/ Pinged
          \/ CloseEvent \/ Reconnect

Script == \/ Message
          \/ \E f \in Fetches : \/ TimerFires(f) \/ Collect(f)
                                \/ FetchFails(f) \/ Render(f)

Next == Cluster \/ Socket \/ Script \/ SessionEnds \/ SignIn

Spec == Init /\ [][Next]_vars

(***************************************************************************)
(* Fairness.  A browser handles its events and fires its timers, requests  *)
(* end one way or the other, both ends of a broken or closed connection    *)
(* notice in the end, and a server that stops is started again.  An owed   *)
(* ping is written: that is the promise of UpdateChannel.  Connecting is   *)
(* strongly fair: of attempts without end with a valid session, one        *)
(* succeeds.  Nothing is assumed of the session: it may end and never be   *)
(* renewed.                                                                *)
(***************************************************************************)
Fairness ==
    /\ WF_vars(Restart) /\ SF_vars(Connected)
    /\ WF_vars(Tab \in owed /\ Pinged)
    /\ WF_vars(CloseEvent) /\ WF_vars(Reconnect) /\ WF_vars(Message)
    /\ WF_vars(\E f \in Fetches : TimerFires(f))
    /\ \A f \in Fetches : WF_vars(Collect(f) \/ FetchFails(f) \/ Render(f))

FairSpec == Spec /\ Fairness

-----------------------------------------------------------------------------
\* The page reflects version v: its links are of v or newer or, with "No
\* links available.", the answer that had none is.  In that case the links
\* that are still on the page may be of any age.
Current(v) == IF status = "none" THEN told >= v ELSE shown >= v

\* The page reflects v, and no older answer is under way that would undo it.
Settled(v) ==
    Current(v) /\ \A f \in Fetches : fetch[f].st = "answered" => fetch[f].at >= v

\* An answer of v or newer was handled, and then one that was older.
Misordered(v) == newest >= v /\ told < v

\* While the page is connected, a watched change that it does not reflect is
\* never forgotten: a ping is owed, a message waits, the timer is set, a
\* request has not been collected yet, or its answer is on the way
\* (page.tmpl 49-108, Notify, the kinds of setupDashboardWatches).  The
\* exceptions are what the page does not repair: a change before the
\* connection was registered, a failed fetch (the page then says so), and
\* answers of overlapping fetches that come in the wrong order.  A dashboard
\* that has become empty is reflected by the message alone: the old links
\* stay (page.tmpl 53-57).
RefetchOwed ==
    (sock = "open" /\ Tab \in open /\ ~down /\ ~Current(due)
     /\ status # "failed" /\ ~overlapped)
        => \/ Tab \in owed \/ inbox > 0 \/ timer
           \/ \E f \in Fetches : \/ fetch[f] = Sent
                                 \/ fetch[f].st = "answered" /\ fetch[f].at >= due

\* A change for which a ping is owed settles on a page that stays connected,
\* although timers coalesce messages and fetches overlap, unless a fetch
\* fails or the answers of overlapping fetches come in the wrong order.
ChangeRendered ==
    \A v \in 1..MaxVersion :
        (sock = "open" /\ Tab \in owed /\ ~down /\ due = v)
            ~> (Settled(v) \/ Misordered(v) \/ status = "failed" \/ sock # "open"
                \/ Tab \notin open \/ down)

\* A page that lost its connection, at either end, by a cut or by a restart
\* of the server, is connected again, provided its session is valid or is
\* renewed some day and stays so: the page goes on trying while it is refused
\* (page.tmpl 109-111, handler.go 168-173).
PageReconnects ==
    <>[]admitted =>
        ((sock # "open" \/ Tab \notin open) ~> (sock = "open" /\ Tab \in open))

=============================================================================

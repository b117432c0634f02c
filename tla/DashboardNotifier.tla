------------------------- MODULE DashboardNotifier -------------------------
(***************************************************************************)
(* web/notifier.go and the /api/dashboard/updates handler of               *)
(* web/handler.go: the WebSocket fan-out that tells every open browser     *)
(* that dashboard data may have changed.                                   *)
(*                                                                         *)
(* Goroutines: any number of callers of Notify (informer event handlers),  *)
(* the Start loop, one HTTP handler and then one reader goroutine per      *)
(* connection.  The map n.clients is only touched under n.mu, so every     *)
(* register, unregister, snapshot, closeAll and length test is one step,   *)
(* and a broadcast is many: it works on a snapshot while connections come  *)
(* and go.  Writes are to one connection at a time, may succeed or fail    *)
(* (deadline, broken or closed transport).                                 *)
(*                                                                         *)
(* version and told are history variables: version counts the changes of   *)
(* dashboard data, told[c] is the newest change that the last ping written *)
(* to c covers (a browser refetches the whole dashboard after a ping).     *)
(***************************************************************************)
EXTENDS Integers, FiniteSets

CONSTANTS
    Conns,        \* the *websocket.Conn values, one per accepted upgrade
    MaxVersion    \* bound: number of data changes

ASSUME MaxVersionAssumption == MaxVersion \in Nat

VARIABLES
    clients,      \* keys of n.clients
    transport,    \* "none", "open" or "closed" (conn.Close was called)
    peer,         \* "up" or "gone": the browser's end of the connection
    reader,       \* the handler, then the reader goroutine of a connection
    notifyCh,     \* number of tokens in the channel n.notify
    pending,      \* the local variable of Start
    pc,           \* where the Start loop is
    frame,        \* "text" in broadcastPing, "control" in broadcastWSPing
    remaining,    \* snapshot entries not yet written to
    dropping,     \* the connection closed after a failed write
    ctxDone,      \* the manager context is cancelled
    callers,      \* changes whose event handler has not called Notify yet
    version,      \* history: number of changes so far
    told,         \* history: newest change covered by a ping to c
    broadcasts    \* history: number of broadcastPing calls

connVars == <<clients, transport, peer, reader>>
loopVars == <<pc, frame, remaining, dropping, pending>>
histVars == <<version, told, broadcasts>>
vars == <<clients, transport, peer, reader, notifyCh, pending, pc, frame,
          remaining, dropping, ctxDone, callers, version, told, broadcasts>>

TypeOK ==
    /\ clients \in SUBSET Conns
    /\ transport \in [Conns -> {"none", "open", "closed"}]
    /\ peer \in [Conns -> {"up", "gone"}]
    /\ reader \in [Conns -> {"none", "upgraded", "reading", "failed",
                             "unregistered", "done"}]
    /\ notifyCh \in 0..1
    /\ pending \in BOOLEAN
    /\ pc \in {"select", "check", "snapshot", "write", "drop", "stopped"}
    /\ frame \in {"text", "control"}
    /\ remaining \in SUBSET Conns
    /\ dropping \in SUBSET Conns
    /\ ctxDone \in BOOLEAN
    /\ callers \in Nat
    /\ version \in Nat
    /\ told \in [Conns -> Nat]
    /\ broadcasts \in Nat

Init ==
    /\ clients = {}
    /\ transport = [c \in Conns |-> "none"]
    /\ peer = [c \in Conns |-> "up"]
    /\ reader = [c \in Conns |-> "none"]
    /\ notifyCh = 0
    /\ pending = FALSE
    /\ pc = "select"
    /\ frame = "text"
    /\ remaining = {}
    /\ dropping = {}
    /\ ctxDone = FALSE
    /\ callers = 0
    /\ version = 0
    /\ told = [c \in Conns |-> 0]
    /\ broadcasts = 0

-----------------------------------------------------------------------------
(* Faults.  Variants of the operations below with a mistake that is easily *)
(* made in this code; no specification uses them.  They show which mistake *)
(* each property would expose.                                             *)

\* n.notify without its buffer: the send is dropped while the loop is busy.
FaultNotifyUnbuffered ==
    /\ callers > 0
    /\ callers' = callers - 1
    /\ notifyCh' = IF pc = "select" THEN 1 ELSE notifyCh
    /\ UNCHANGED <<connVars, loopVars, ctxDone, histVars>>

\* A send that does not give up when the channel is full.
FaultNotifyOverfills ==
    /\ callers > 0
    /\ callers' = callers - 1
    /\ notifyCh' = notifyCh + 1
    /\ UNCHANGED <<connVars, loopVars, ctxDone, histVars>>

\* A failed read only closes the connection.
FaultUnregisterForgotten(c) ==
    /\ reader[c] = "failed"
    /\ reader' = [reader EXCEPT ![c] = "unregistered"]
    /\ UNCHANGED <<clients, transport, peer, notifyCh, loopVars, ctxDone,
                   callers, histVars>>

\* closeAll empties the map without closing the connections.
FaultStopWithoutClose ==
    /\ pc = "select"
    /\ ctxDone
    /\ clients' = {}
    /\ pc' = "stopped"
    /\ UNCHANGED <<transport, peer, reader, notifyCh, frame, remaining,
                   dropping, pending, ctxDone, callers, histVars>>

\* pending is left set when the tick is handled.
FaultPendingNotReset ==
    /\ pc = "select"
    /\ pending
    /\ pc' = "check"
    /\ UNCHANGED <<connVars, notifyCh, frame, remaining, dropping, pending,
                   ctxDone, callers, histVars>>

\* A failed write only removes the connection from the map.
FaultWriteErrorWithoutClose(c) ==
    /\ pc = "write"
    /\ c \in remaining
    /\ remaining' = remaining \ {c}
    /\ dropping' = {c}
    /\ pc' = "drop"
    /\ UNCHANGED <<clients, transport, peer, reader, notifyCh, frame, pending,
                   ctxDone, callers, histVars>>

-----------------------------------------------------------------------------
(* The data and the callers of Notify.                                     *)

\* A watched object changes in the informer cache; its event handler will
\* call Notify.
Change ==
    /\ version < MaxVersion
    /\ version' = version + 1
    /\ callers' = callers + 1
    /\ UNCHANGED <<connVars, notifyCh, loopVars, ctxDone, told, broadcasts>>

\* Non-blocking send on a channel of capacity 1: the token is put, or
\* dropped because one is already there.
Notify ==
    /\ callers > 0
    /\ callers' = callers - 1
    /\ notifyCh' = 1
    /\ UNCHANGED <<connVars, loopVars, ctxDone, histVars>>

-----------------------------------------------------------------------------
(* The HTTP handler and the reader goroutine of connection c.  A request   *)
(* that fails authentication or the upgrade changes no state.              *)

Upgrade(c) ==
    /\ reader[c] = "none"
    /\ reader' = [reader EXCEPT ![c] = "upgraded"]
    /\ transport' = [transport EXCEPT ![c] = "open"]
    /\ UNCHANGED <<clients, peer, notifyCh, loopVars, ctxDone, callers, histVars>>

\* register, then "go func": from here on the reader goroutine owns c.  A
\* browser is up to date when it fetches the dashboard now.
Register(c) ==
    /\ reader[c] = "upgraded"
    /\ clients' = clients \cup {c}
    /\ reader' = [reader EXCEPT ![c] = "reading"]
    /\ told' = [told EXCEPT ![c] = version]
    /\ UNCHANGED <<transport, peer, notifyCh, loopVars, ctxDone, callers,
                   version, broadcasts>>

\* The browser closes the tab, or the network fails.
PeerGone(c) ==
    /\ transport[c] = "open"
    /\ peer[c] = "up"
    /\ peer' = [peer EXCEPT ![c] = "gone"]
    /\ UNCHANGED <<clients, transport, reader, notifyCh, loopVars, ctxDone,
                   callers, histVars>>

\* ReadMessage returns an error: the peer is gone or c was closed.
ReadError(c) ==
    /\ reader[c] = "reading"
    /\ peer[c] = "gone" \/ transport[c] = "closed"
    /\ reader' = [reader EXCEPT ![c] = "failed"]
    /\ UNCHANGED <<clients, transport, peer, notifyCh, loopVars, ctxDone,
                   callers, histVars>>

\* ReadMessage returns an error: no pong extended the 70 s read deadline.
ReadTimeout(c) ==
    /\ reader[c] = "reading"
    /\ peer[c] = "up" /\ transport[c] = "open"
    /\ reader' = [reader EXCEPT ![c] = "failed"]
    /\ UNCHANGED <<clients, transport, peer, notifyCh, loopVars, ctxDone,
                   callers, histVars>>

\* The deferred function: unregister, then Close.
Unregister(c) ==
    /\ reader[c] = "failed"
    /\ clients' = clients \ {c}
    /\ reader' = [reader EXCEPT ![c] = "unregistered"]
    /\ UNCHANGED <<transport, peer, notifyCh, loopVars, ctxDone, callers, histVars>>

ReaderClose(c) ==
    /\ reader[c] = "unregistered"
    /\ transport' = [transport EXCEPT ![c] = "closed"]
    /\ reader' = [reader EXCEPT ![c] = "done"]
    /\ UNCHANGED <<clients, peer, notifyCh, loopVars, ctxDone, callers, histVars>>

-----------------------------------------------------------------------------
(* The Start loop.                                                         *)

CtxCancel ==
    /\ ~ctxDone
    /\ ctxDone' = TRUE
    /\ UNCHANGED <<connVars, notifyCh, loopVars, callers, histVars>>

\* case <-ctx.Done(): closeAll closes and forgets every connection under
\* the lock, and Start returns.
Stop ==
    /\ pc = "select"
    /\ ctxDone
    /\ transport' = [c \in Conns |-> IF c \in clients THEN "closed"
                                                      ELSE transport[c]]
    /\ clients' = {}
    /\ pc' = "stopped"
    /\ UNCHANGED <<peer, reader, notifyCh, frame, remaining, dropping, pending,
                   ctxDone, callers, histVars>>

\* case <-n.notify
Receive ==
    /\ pc = "select"
    /\ notifyCh = 1
    /\ notifyCh' = 0
    /\ pending' = TRUE
    /\ UNCHANGED <<connVars, pc, frame, remaining, dropping, ctxDone, callers,
                   histVars>>

\* case <-limiter.C with pending set (otherwise the loop just continues).
LimiterTick ==
    /\ pc = "select"
    /\ pending
    /\ pending' = FALSE
    /\ pc' = "check"
    /\ UNCHANGED <<connVars, notifyCh, frame, remaining, dropping, ctxDone,
                   callers, histVars>>

\* hasClients, read under the lock.
HasClients ==
    /\ pc = "check"
    /\ IF clients # {}
         THEN /\ pc' = "snapshot"
              /\ frame' = "text"
              /\ broadcasts' = broadcasts + 1
         ELSE /\ pc' = "select"
              /\ UNCHANGED <<frame, broadcasts>>
    /\ UNCHANGED <<connVars, notifyCh, remaining, dropping, pending, ctxDone,
                   callers, version, told>>

\* case <-pinger.C
PingerTick ==
    /\ pc = "select"
    /\ pc' = "snapshot"
    /\ frame' = "control"
    /\ UNCHANGED <<connVars, notifyCh, remaining, dropping, pending, ctxDone,
                   callers, histVars>>

Snapshot ==
    /\ pc = "snapshot"
    /\ remaining' = clients
    /\ pc' = "write"
    /\ UNCHANGED <<connVars, notifyCh, frame, dropping, pending, ctxDone,
                   callers, histVars>>

\* WriteMessage returns nil.  The order of the snapshot is the map's.  A
\* write to a peer that is gone may still succeed, into a kernel buffer.
WriteOK(c) ==
    /\ pc = "write"
    /\ c \in remaining
    /\ transport[c] = "open"
    /\ remaining' = remaining \ {c}
    /\ told' = IF frame = "text" THEN [told EXCEPT ![c] = version] ELSE told
    /\ UNCHANGED <<connVars, notifyCh, pc, frame, dropping, pending, ctxDone,
                   callers, version, broadcasts>>

\* WriteMessage returns an error and the loop closes the connection: the
\* write deadline passed, or the transport is broken or closed.
WriteError(c) ==
    /\ pc = "write"
    /\ c \in remaining
    /\ remaining' = remaining \ {c}
    /\ transport' = [transport EXCEPT ![c] = "closed"]
    /\ dropping' = {c}
    /\ pc' = "drop"
    /\ UNCHANGED <<clients, peer, reader, notifyCh, frame, pending, ctxDone,
                   callers, histVars>>

\* n.unregister(conn) after the failed write.
Drop ==
    /\ pc = "drop"
    /\ clients' = clients \ dropping
    /\ dropping' = {}
    /\ pc' = "write"
    /\ UNCHANGED <<transport, peer, reader, notifyCh, frame, remaining, pending,
                   ctxDone, callers, histVars>>

BroadcastDone ==
    /\ pc = "write"
    /\ remaining = {}
    /\ pc' = "select"
    /\ UNCHANGED <<connVars, notifyCh, frame, remaining, dropping, pending,
                   ctxDone, callers, histVars>>

\* After Start has returned nothing is left to do for the notifier.
Stopped ==
    /\ pc = "stopped"
    /\ UNCHANGED vars

-----------------------------------------------------------------------------
Loop == \/ Stop \/ Receive \/ LimiterTick \/ HasClients \/ PingerTick
        \/ Snapshot \/ Drop \/ BroadcastDone
        \/ \E c \in Conns : WriteOK(c) \/ WriteError(c)

Reader(c) == \/ Upgrade(c) \/ Register(c) \/ PeerGone(c) \/ ReadError(c)
             \/ ReadTimeout(c) \/ Unregister(c) \/ ReaderClose(c)

Next == \/ Change \/ Notify \/ CtxCancel \/ Loop \/ Stopped
        \/ \E c \in Conns : Reader(c)

Spec == Init /\ [][Next]_vars

(***************************************************************************)
(* Fairness.  Go runs every runnable goroutine and chooses among the ready *)
(* cases of a select uniformly at random, so a case that is ready again    *)
(* and again is taken (SF); writes end by their deadline and mutexes are   *)
(* released, so the other steps of the loop and of a reader that has       *)
(* failed are only weakly fair.  Changes, upgrades, failing peers and the  *)
(* cancellation of the context are not fair: they need not happen.         *)
(***************************************************************************)
Fairness ==
    /\ WF_vars(Notify)
    /\ SF_vars(Stop) /\ SF_vars(Receive) /\ SF_vars(LimiterTick)
    /\ WF_vars(HasClients) /\ WF_vars(Snapshot) /\ WF_vars(Drop)
    /\ WF_vars(BroadcastDone)
    /\ WF_vars(\E c \in Conns : WriteOK(c) \/ WriteError(c))
    /\ \A c \in Conns : WF_vars(ReadError(c)) /\ WF_vars(Unregister(c))
                        /\ WF_vars(ReaderClose(c))

FairSpec == Spec /\ Fairness

-----------------------------------------------------------------------------
(* Properties.                                                             *)

\* A ping for the newest change is still on its way to c.
PingOwed(c) ==
    \/ callers > 0
    \/ notifyCh = 1
    \/ pending
    \/ pc = "check"
    \/ frame = "text" /\ pc = "snapshot"
    \/ frame = "text" /\ pc \in {"write", "drop"} /\ c \in remaining

\* No change is lost between Notify, the one-token channel, the pending flag
\* and a broadcast over a snapshot: a registered, open connection that has
\* not been pinged since the newest change will be (Notify 49-54, Start
\* 73-87, broadcastPing 116-125).
NoLostNotification ==
    \A c \in clients :
        transport[c] = "open" /\ told[c] < version /\ pc # "stopped"
            => PingOwed(c)

\* A browser that still believes it is connected is never forgotten: while
\* the reader of an open connection runs, the connection is in n.clients,
\* because every path that removes it (a failed write, closeAll) closes it
\* first, and the reader closes what it removes itself.
NoOrphanConnection ==
    \A c \in Conns :
        reader[c] = "reading" /\ transport[c] = "open" => c \in clients

\* Coalescing only ever reduces: each broadcast, the pending flag and the
\* channel token stand for different calls of Notify.
CoalescingBound ==
    broadcasts + notifyCh + (IF pending \/ pc = "check" THEN 1 ELSE 0)
        <= version - callers

\* The channel that the notifier implements: a connection is open from its
\* registration until it is closed or leaves the map, and is owed a ping
\* while the newest change is newer than what it was told.
OpenConns == {c \in clients : transport[c] = "open"}

Channel == INSTANCE UpdateChannel WITH
    Clients <- Conns,
    open <- OpenConns,
    owed <- {c \in OpenConns : told[c] < version},
    down <- ctxDone

\* The notifier keeps the promise of UpdateChannel: whatever Notify callers,
\* loop, readers and failing writes do is a step of the channel, and a change
\* reaches every connection that stays open unless the manager shuts down:
\* the rate limit delays pings and never suppresses the last one.
ImplementsChannel == Channel!ChannelSpec /\ Channel!OwedPingComes

\* A connection whose browser is gone, or which the server closed, leaves
\* n.clients (read deadline, failed write, deferred unregister).
DeadConnectionForgotten ==
    \A c \in Conns :
        (c \in clients /\ (peer[c] = "gone" \/ transport[c] = "closed"))
            ~> (c \notin clients)

\* When the context is cancelled, connections registered by then get closed.
ShutdownClosesClients ==
    \A c \in Conns :
        (ctxDone /\ c \in clients /\ pc # "stopped")
            ~> (transport[c] = "closed")

=============================================================================

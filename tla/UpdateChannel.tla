--------------------------- MODULE UpdateChannel ---------------------------
(***************************************************************************)
(* What /api/dashboard/updates promises to its clients, without saying     *)
(* how: a client whose connection is open when dashboard data change is    *)
(* owed a ping, and gets one or loses its connection, unless the server    *)
(* shuts down.  Changes coalesce: one ping settles all that came before.   *)
(*                                                                         *)
(* DashboardNotifier implements this channel; LiveUpdate is a browser page *)
(* that uses it.                                                           *)
(***************************************************************************)
CONSTANT Clients

VARIABLES
    open,   \* clients whose connection is registered and not closed
    owed,   \* clients with a change that no ping has covered yet
    down    \* the server is shutting down

channelVars == <<open, owed, down>>

ChannelTypeOK ==
    /\ open \in SUBSET Clients
    /\ owed \in SUBSET open
    /\ down \in BOOLEAN

ChannelInit == open = {} /\ owed = {} /\ down = FALSE

\* A client connects.  It knows of no change yet and is owed nothing.
OpenConn(c) ==
    /\ c \notin open
    /\ open' = open \cup {c}
    /\ UNCHANGED <<owed, down>>

\* Connections end, for whatever reason, alone or together.
CloseConns(lost) ==
    /\ lost \subseteq open
    /\ open' = open \ lost
    /\ owed' = owed \ lost
    /\ UNCHANGED down

\* Dashboard data change.
DataChange ==
    /\ owed' = open
    /\ UNCHANGED <<open, down>>

\* A ping, owed or not, is written to c.
Ping(c) ==
    /\ c \in open
    /\ owed' = owed \ {c}
    /\ UNCHANGED <<open, down>>

ShutDown ==
    /\ down' = TRUE
    /\ UNCHANGED <<open, owed>>

ChannelNext ==
    \/ DataChange
    \/ ShutDown
    \/ \E c \in Clients : OpenConn(c) \/ Ping(c)
    \/ \E lost \in SUBSET Clients : CloseConns(lost)

ChannelSpec == ChannelInit /\ [][ChannelNext]_channelVars

\* No client is left waiting for the ping it is owed while the server runs.
OwedPingComes ==
    \A c \in Clients : (c \in owed /\ ~down) ~> (c \notin owed \/ down)

=============================================================================

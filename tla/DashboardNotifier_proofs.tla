---------------------- MODULE DashboardNotifier_proofs ----------------------
(***************************************************************************)
(* Proofs, for any set of connections and any number of changes, that the  *)
(* safety properties of DashboardNotifier are invariants.                  *)
(***************************************************************************)
EXTENDS DashboardNotifier, TLAPS

Actions == \* every action, for the case splits below
    \/ Change \/ Notify \/ CtxCancel \/ Stopped
    \/ Stop \/ Receive \/ LimiterTick \/ HasClients \/ PingerTick
    \/ Snapshot \/ Drop \/ BroadcastDone
    \/ \E c \in Conns : \/ WriteOK(c) \/ WriteError(c)
                        \/ Upgrade(c) \/ Register(c) \/ PeerGone(c)
                        \/ ReadError(c) \/ ReadTimeout(c) \/ Unregister(c)
                        \/ ReaderClose(c)

\* The next-state relation of the specification, flattened.
LEMMA NextIsActions == Next => Actions
BY DEF Next, Loop, Reader, Actions

\* Every variable keeps its type; in particular n.notify never holds more
\* than one token (Notify 49-54).
THEOREM TypeCorrect == Spec => []TypeOK
<1>1. Init => TypeOK
  <2> SUFFICES ASSUME Init PROVE TypeOK
    OBVIOUS
  <2>1. pending \in BOOLEAN /\ ctxDone \in BOOLEAN
    BY Zenon DEF Init
  <2> QED BY <2>1, SMT DEF Init, TypeOK
<1>2. TypeOK /\ [Next]_vars => TypeOK'
  <2> SUFFICES ASSUME TypeOK, [Next]_vars PROVE TypeOK'
    OBVIOUS
  <2> USE DEF TypeOK, connVars, loopVars, histVars
  <2>1. CASE Change BY <2>1 DEF Change
  <2>2. CASE Notify BY <2>2 DEF Notify
  <2>3. CASE CtxCancel BY <2>3 DEF CtxCancel
  <2>4. CASE Stopped BY <2>4 DEF Stopped, vars
  <2>5. CASE Stop BY <2>5 DEF Stop
  <2>6. CASE Receive BY <2>6 DEF Receive
  <2>7. CASE LimiterTick BY <2>7 DEF LimiterTick
  <2>8. CASE HasClients BY <2>8 DEF HasClients
  <2>9. CASE PingerTick BY <2>9 DEF PingerTick
  <2>10. CASE Snapshot BY <2>10 DEF Snapshot
  <2>11. CASE Drop BY <2>11 DEF Drop
  <2>12. CASE BroadcastDone BY <2>12 DEF BroadcastDone
  <2>13. ASSUME NEW c \in Conns, WriteOK(c) PROVE TypeOK'
    BY <2>13 DEF WriteOK
  <2>14. ASSUME NEW c \in Conns, WriteError(c) PROVE TypeOK'
    BY <2>14 DEF WriteError
  <2>15. ASSUME NEW c \in Conns, Upgrade(c) PROVE TypeOK'
    BY <2>15 DEF Upgrade
  <2>16. ASSUME NEW c \in Conns, Register(c) PROVE TypeOK'
    BY <2>16 DEF Register
  <2>17. ASSUME NEW c \in Conns, PeerGone(c) PROVE TypeOK'
    BY <2>17 DEF PeerGone
  <2>18. ASSUME NEW c \in Conns, ReadError(c) PROVE TypeOK'
    BY <2>18 DEF ReadError
  <2>19. ASSUME NEW c \in Conns, ReadTimeout(c) PROVE TypeOK'
    BY <2>19 DEF ReadTimeout
  <2>20. ASSUME NEW c \in Conns, Unregister(c) PROVE TypeOK'
    BY <2>20 DEF Unregister
  <2>21. ASSUME NEW c \in Conns, ReaderClose(c) PROVE TypeOK'
    BY <2>21 DEF ReaderClose
  <2>22. CASE UNCHANGED vars BY <2>22 DEF vars
  <2> QED
    BY <2>1, <2>2, <2>3, <2>4, <2>5, <2>6, <2>7, <2>8, <2>9, <2>10, <2>11,
       <2>12, <2>13, <2>14, <2>15, <2>16, <2>17, <2>18, <2>19, <2>20, <2>21,
       <2>22, NextIsActions DEF Actions
<1> QED BY <1>1, <1>2, PTL DEF Spec

-----------------------------------------------------------------------------
(* Connections.  A connection that is being dropped, or is still to be      *)
(* written to, has a reader goroutine, and a dropped one is closed.         *)

\* Every entry of n.clients has a reader goroutine that will remove it.
NoLeakedEntry ==
    \A c \in clients : reader[c] \in {"reading", "failed"}

DropIsClosed ==
    /\ \A c \in remaining : reader[c] \notin {"none", "upgraded"}
    /\ \A c \in dropping : /\ reader[c] \notin {"none", "upgraded"}
                          /\ transport[c] = "closed"

ConnInv == TypeOK /\ NoLeakedEntry /\ NoOrphanConnection /\ DropIsClosed

\* No entry of n.clients outlives its reader goroutine and no open connection
\* that is being read is missing from n.clients (register, unregister,
\* closeAll, broadcastPing, the reader's deferred function).
THEOREM ConnectionsAccounted == Spec => []ConnInv
<1>1. Init => ConnInv
  <2> SUFFICES ASSUME Init PROVE ConnInv
    OBVIOUS
  <2>1. TypeOK
    <3>1. pending \in BOOLEAN /\ ctxDone \in BOOLEAN
      BY Zenon DEF Init
    <3> QED BY <3>1, SMT DEF Init, TypeOK
  <2> QED BY <2>1 DEF Init, ConnInv, NoLeakedEntry, NoOrphanConnection, DropIsClosed
<1>2. TypeOK /\ TypeOK' /\ ConnInv /\ [Next]_vars => ConnInv'
  <2> SUFFICES ASSUME TypeOK, TypeOK', ConnInv, [Next]_vars PROVE ConnInv'
    OBVIOUS
  <2> USE DEF ConnInv, TypeOK, NoLeakedEntry, NoOrphanConnection, DropIsClosed,
              connVars, loopVars, histVars
  <2>1. CASE Change BY <2>1 DEF Change
  <2>2. CASE Notify BY <2>2 DEF Notify
  <2>3. CASE CtxCancel BY <2>3 DEF CtxCancel
  <2>4. CASE Stopped BY <2>4 DEF Stopped, vars
  <2>5. CASE Stop BY <2>5 DEF Stop
  <2>6. CASE Receive BY <2>6 DEF Receive
  <2>7. CASE LimiterTick BY <2>7 DEF LimiterTick
  <2>8. CASE HasClients BY <2>8 DEF HasClients
  <2>9. CASE PingerTick BY <2>9 DEF PingerTick
  <2>10. CASE Snapshot BY <2>10 DEF Snapshot
  <2>11. CASE Drop BY <2>11 DEF Drop
  <2>12. CASE BroadcastDone BY <2>12 DEF BroadcastDone
  <2>13. ASSUME NEW c \in Conns, WriteOK(c) PROVE ConnInv'
    BY <2>13 DEF WriteOK
  <2>14. ASSUME NEW c \in Conns, WriteError(c) PROVE ConnInv'
    BY <2>14 DEF WriteError
  <2>15. ASSUME NEW c \in Conns, Upgrade(c) PROVE ConnInv'
    BY <2>15 DEF Upgrade
  <2>16. ASSUME NEW c \in Conns, Register(c) PROVE ConnInv'
    BY <2>16 DEF Register
  <2>17. ASSUME NEW c \in Conns, PeerGone(c) PROVE ConnInv'
    BY <2>17 DEF PeerGone
  <2>18. ASSUME NEW c \in Conns, ReadError(c) PROVE ConnInv'
    BY <2>18 DEF ReadError
  <2>19. ASSUME NEW c \in Conns, ReadTimeout(c) PROVE ConnInv'
    BY <2>19 DEF ReadTimeout
  <2>20. ASSUME NEW c \in Conns, Unregister(c) PROVE ConnInv'
    BY <2>20 DEF Unregister
  <2>21. ASSUME NEW c \in Conns, ReaderClose(c) PROVE ConnInv'
    BY <2>21 DEF ReaderClose
  <2>22. CASE UNCHANGED vars BY <2>22 DEF vars
  <2> QED
    BY <2>1, <2>2, <2>3, <2>4, <2>5, <2>6, <2>7, <2>8, <2>9, <2>10, <2>11,
       <2>12, <2>13, <2>14, <2>15, <2>16, <2>17, <2>18, <2>19, <2>20, <2>21,
       <2>22, NextIsActions DEF Actions
<1> QED BY <1>1, <1>2, TypeCorrect, PTL DEF Spec

\* A connection that is open and being read is never missing from n.clients,
\* whichever of closeAll, a failed write and the reader's own deferred
\* function comes first.
THEOREM NoConnectionOrphaned == Spec => []NoOrphanConnection
<1>1. ConnInv => NoOrphanConnection
  BY DEF ConnInv
<1> QED BY <1>1, ConnectionsAccounted, PTL

-----------------------------------------------------------------------------
(* No lost notification.  The property is inductive relative to the        *)
(* invariant above: an entry of n.clients was registered, so an upgrade    *)
(* never reopens it, and a snapshot for a text frame covers every entry.   *)

\* A change is never lost between the channel token, the pending flag and a
\* broadcast over a snapshot, for any number of connections and changes.
THEOREM NotificationsNotLost == Spec => []NoLostNotification
<1>1. Init => NoLostNotification
  BY DEF Init, NoLostNotification
<1>2. ConnInv /\ NoLostNotification /\ [Next]_vars => NoLostNotification'
  <2> SUFFICES ASSUME ConnInv, NoLostNotification, [Next]_vars
               PROVE NoLostNotification'
    OBVIOUS
  <2> USE DEF ConnInv, TypeOK, NoLeakedEntry, NoLostNotification, PingOwed,
              connVars, loopVars, histVars
  <2>1. CASE Change BY <2>1 DEF Change
  <2>2. CASE Notify BY <2>2 DEF Notify
  <2>3. CASE CtxCancel BY <2>3 DEF CtxCancel
  <2>4. CASE Stopped BY <2>4 DEF Stopped, vars
  <2>5. CASE Stop BY <2>5 DEF Stop
  <2>6. CASE Receive BY <2>6 DEF Receive
  <2>7. CASE LimiterTick BY <2>7 DEF LimiterTick
  <2>8. CASE HasClients BY <2>8 DEF HasClients
  <2>9. CASE PingerTick BY <2>9 DEF PingerTick
  <2>10. CASE Snapshot BY <2>10 DEF Snapshot
  <2>11. CASE Drop BY <2>11 DEF Drop
  <2>12. CASE BroadcastDone BY <2>12 DEF BroadcastDone
  <2>13. ASSUME NEW c \in Conns, WriteOK(c) PROVE NoLostNotification'
    BY <2>13 DEF WriteOK
  <2>14. ASSUME NEW c \in Conns, WriteError(c) PROVE NoLostNotification'
    BY <2>14 DEF WriteError
  <2>15. ASSUME NEW c \in Conns, Upgrade(c) PROVE NoLostNotification'
    BY <2>15 DEF Upgrade
  <2>16. ASSUME NEW c \in Conns, Register(c) PROVE NoLostNotification'
    BY <2>16 DEF Register
  <2>17. ASSUME NEW c \in Conns, PeerGone(c) PROVE NoLostNotification'
    BY <2>17 DEF PeerGone
  <2>18. ASSUME NEW c \in Conns, ReadError(c) PROVE NoLostNotification'
    BY <2>18 DEF ReadError
  <2>19. ASSUME NEW c \in Conns, ReadTimeout(c) PROVE NoLostNotification'
    BY <2>19 DEF ReadTimeout
  <2>20. ASSUME NEW c \in Conns, Unregister(c) PROVE NoLostNotification'
    BY <2>20 DEF Unregister
  <2>21. ASSUME NEW c \in Conns, ReaderClose(c) PROVE NoLostNotification'
    BY <2>21 DEF ReaderClose
  <2>22. CASE UNCHANGED vars BY <2>22 DEF vars
  <2> QED
    BY <2>1, <2>2, <2>3, <2>4, <2>5, <2>6, <2>7, <2>8, <2>9, <2>10, <2>11,
       <2>12, <2>13, <2>14, <2>15, <2>16, <2>17, <2>18, <2>19, <2>20, <2>21,
       <2>22, NextIsActions DEF Actions
<1> QED BY <1>1, <1>2, ConnectionsAccounted, PTL DEF Spec

-----------------------------------------------------------------------------
(* Coalescing.                                                             *)

CoalescingInv == CoalescingBound /\ (pc = "check" => ~pending)

\* There are never more broadcasts than calls of Notify: each broadcast, the
\* pending flag and the channel token stand for different calls.
THEOREM CoalescingBounded == Spec => []CoalescingBound
<1>1. Init => CoalescingInv
  <2> SUFFICES ASSUME Init PROVE CoalescingInv
    OBVIOUS
  <2>1. ~pending /\ pc # "check"
    BY DEF Init
  <2> QED BY <2>1 DEF Init, CoalescingInv, CoalescingBound
<1>2. TypeOK /\ CoalescingInv /\ [Next]_vars => CoalescingInv'
  <2> SUFFICES ASSUME TypeOK, CoalescingInv, [Next]_vars
               PROVE CoalescingInv'
    OBVIOUS
  <2> USE DEF TypeOK, CoalescingInv, CoalescingBound, connVars, loopVars, histVars
  <2>1. CASE Change BY <2>1 DEF Change
  <2>2. CASE Notify BY <2>2 DEF Notify
  <2>3. CASE CtxCancel BY <2>3 DEF CtxCancel
  <2>4. CASE Stopped BY <2>4 DEF Stopped, vars
  <2>5. CASE Stop BY <2>5 DEF Stop
  <2>6. CASE Receive BY <2>6 DEF Receive
  <2>7. CASE LimiterTick BY <2>7 DEF LimiterTick
  <2>8. CASE HasClients BY <2>8 DEF HasClients
  <2>9. CASE PingerTick BY <2>9 DEF PingerTick
  <2>10. CASE Snapshot BY <2>10 DEF Snapshot
  <2>11. CASE Drop BY <2>11 DEF Drop
  <2>12. CASE BroadcastDone BY <2>12 DEF BroadcastDone
  <2>13. ASSUME NEW c \in Conns, WriteOK(c) PROVE CoalescingInv'
    BY <2>13 DEF WriteOK
  <2>14. ASSUME NEW c \in Conns, WriteError(c) PROVE CoalescingInv'
    BY <2>14 DEF WriteError
  <2>15. ASSUME NEW c \in Conns, Upgrade(c) PROVE CoalescingInv'
    BY <2>15 DEF Upgrade
  <2>16. ASSUME NEW c \in Conns, Register(c) PROVE CoalescingInv'
    BY <2>16 DEF Register
  <2>17. ASSUME NEW c \in Conns, PeerGone(c) PROVE CoalescingInv'
    BY <2>17 DEF PeerGone
  <2>18. ASSUME NEW c \in Conns, ReadError(c) PROVE CoalescingInv'
    BY <2>18 DEF ReadError
  <2>19. ASSUME NEW c \in Conns, ReadTimeout(c) PROVE CoalescingInv'
    BY <2>19 DEF ReadTimeout
  <2>20. ASSUME NEW c \in Conns, Unregister(c) PROVE CoalescingInv'
    BY <2>20 DEF Unregister
  <2>21. ASSUME NEW c \in Conns, ReaderClose(c) PROVE CoalescingInv'
    BY <2>21 DEF ReaderClose
  <2>22. CASE UNCHANGED vars BY <2>22 DEF vars
  <2> QED
    BY <2>1, <2>2, <2>3, <2>4, <2>5, <2>6, <2>7, <2>8, <2>9, <2>10, <2>11,
       <2>12, <2>13, <2>14, <2>15, <2>16, <2>17, <2>18, <2>19, <2>20, <2>21,
       <2>22, NextIsActions DEF Actions
<1>3. CoalescingInv => CoalescingBound
  BY DEF CoalescingInv
<1> QED BY <1>1, <1>2, <1>3, TypeCorrect, PTL DEF Spec

-----------------------------------------------------------------------------
(* Refinement.  Nobody is told of a change that has not happened, so a new  *)
(* change is news to every open connection; with ConnInv, a connection that *)
(* registers was not in the map before.                                     *)

ToldInv == \A c \in Conns : told[c] <= version

\* told never runs ahead of the changes.
LEMMA ToldBounded == Spec => []ToldInv
<1>1. Init => ToldInv
  BY DEF Init, ToldInv
<1>2. TypeOK /\ ToldInv /\ [Next]_vars => ToldInv'
  <2> SUFFICES ASSUME TypeOK, ToldInv, [Next]_vars PROVE ToldInv'
    OBVIOUS
  <2> USE DEF TypeOK, ToldInv, histVars
  <2>1. CASE Change BY <2>1 DEF Change
  <2>2. ASSUME NEW c \in Conns, WriteOK(c) PROVE ToldInv'
    BY <2>2 DEF WriteOK
  <2>3. ASSUME NEW c \in Conns, Register(c) PROVE ToldInv'
    BY <2>3 DEF Register
  <2>4. CASE UNCHANGED <<told, version>> BY <2>4
  <2>5. ASSUME Next, ~Change,
               \A c \in Conns : ~WriteOK(c) /\ ~Register(c)
        PROVE UNCHANGED <<told, version>>
    BY <2>5, NextIsActions
       DEF Actions, Notify, CtxCancel, Stopped, Stop, Receive, LimiterTick,
           HasClients, PingerTick, Snapshot, Drop, BroadcastDone, WriteError,
           Upgrade, PeerGone, ReadError, ReadTimeout, Unregister, ReaderClose, vars
  <2>6. CASE UNCHANGED vars BY <2>6 DEF vars
  <2> QED BY <2>1, <2>2, <2>3, <2>4, <2>5, <2>6
<1> QED BY <1>1, <1>2, TypeCorrect, PTL DEF Spec

\* What the channel sees of a state.
OwedConns == {c \in OpenConns : told[c] < version}
SameChannel == UNCHANGED <<OpenConns, OwedConns, ctxDone>>

\* Losing a connection, if it was open at all, is a step of the channel.
LEMMA LosingOne ==
    ASSUME NEW c \in Conns,
           OpenConns' = OpenConns \ {c}, OwedConns' = OwedConns \ {c},
           ctxDone' = ctxDone
    PROVE  [Channel!ChannelNext]_(Channel!channelVars)
<1>1. CASE c \in OpenConns
  <2>1. Channel!CloseConns({c})
    BY <1>1 DEF Channel!CloseConns, OwedConns
  <2>2. {c} \in SUBSET Conns
    OBVIOUS
  <2> QED BY <2>1, <2>2, Zenon DEF Channel!ChannelNext
<1>2. CASE c \notin OpenConns
  BY <1>2 DEF OwedConns, Channel!channelVars
<1> QED BY <1>1, <1>2

\* Every step of the notifier is a step of the channel or leaves it alone.
LEMMA StepsAreChannelSteps ==
    ASSUME ConnInv, TypeOK', ToldInv, [Next]_vars
    PROVE  [Channel!ChannelNext]_(Channel!channelVars)
<1> USE DEF ConnInv, TypeOK, ToldInv, NoLeakedEntry, OpenConns, OwedConns,
            connVars, loopVars, histVars
<1>a. SameChannel => UNCHANGED Channel!channelVars
  BY DEF SameChannel, Channel!channelVars
<1>1. CASE Change
  <2>1. OpenConns' = OpenConns /\ OwedConns' = OpenConns /\ ctxDone' = ctxDone
    BY <1>1 DEF Change
  <2>2. Channel!DataChange
    BY <2>1 DEF Channel!DataChange
  <2> QED BY <2>2 DEF Channel!ChannelNext
<1>2. CASE Notify BY <1>2, <1>a DEF Notify, SameChannel
<1>3. CASE CtxCancel
  <2>1. OpenConns' = OpenConns /\ OwedConns' = OwedConns /\ ctxDone' = TRUE
    BY <1>3 DEF CtxCancel
  <2>2. Channel!ShutDown
    BY <2>1 DEF Channel!ShutDown
  <2> QED BY <2>2 DEF Channel!ChannelNext
<1>4. CASE Stopped BY <1>4, <1>a DEF Stopped, vars, SameChannel
<1>5. CASE Stop
  <2>1. OpenConns' = {} /\ OwedConns' = {} /\ ctxDone' = ctxDone
    BY <1>5 DEF Stop
  <2>2. PICK all \in SUBSET Conns : all = OpenConns
    OBVIOUS
  <2>3. Channel!CloseConns(all)
    BY <2>1, <2>2 DEF Channel!CloseConns
  <2> QED BY <2>3, Zenon DEF Channel!ChannelNext
<1>6. CASE Receive BY <1>6, <1>a DEF Receive, SameChannel
<1>7. CASE LimiterTick BY <1>7, <1>a DEF LimiterTick, SameChannel
<1>8. CASE HasClients BY <1>8, <1>a DEF HasClients, SameChannel
<1>9. CASE PingerTick BY <1>9, <1>a DEF PingerTick, SameChannel
<1>10. CASE Snapshot BY <1>10, <1>a DEF Snapshot, SameChannel
<1>11. CASE Drop
  <2>1. UNCHANGED <<OpenConns, OwedConns, ctxDone>>
    BY <1>11 DEF Drop, DropIsClosed
  <2> QED BY <2>1, <1>a DEF SameChannel
<1>12. CASE BroadcastDone BY <1>12, <1>a DEF BroadcastDone, SameChannel
<1>13. ASSUME NEW c \in Conns, WriteOK(c)
       PROVE [Channel!ChannelNext]_(Channel!channelVars)
  <2>1. OpenConns' = OpenConns /\ ctxDone' = ctxDone
    BY <1>13 DEF WriteOK
  <2>2. CASE frame = "text" /\ c \in OpenConns
    <3>1. OwedConns' = OwedConns \ {c}
      BY <1>13, <2>2 DEF WriteOK
    <3>2. Channel!Ping(c)
      BY <2>1, <2>2, <3>1 DEF Channel!Ping
    <3> QED BY <3>2 DEF Channel!ChannelNext
  <2>3. CASE ~(frame = "text" /\ c \in OpenConns)
    <3>1. OwedConns' = OwedConns
      BY <1>13, <2>3 DEF WriteOK
    <3> QED BY <2>1, <3>1, <1>a DEF SameChannel
  <2> QED BY <2>2, <2>3
<1>14. ASSUME NEW c \in Conns, WriteError(c)
       PROVE [Channel!ChannelNext]_(Channel!channelVars)
  <2>1. /\ OpenConns' = OpenConns \ {c} /\ OwedConns' = OwedConns \ {c}
        /\ ctxDone' = ctxDone
    BY <1>14 DEF WriteError
  <2> QED BY <2>1, LosingOne
<1>15. ASSUME NEW c \in Conns, Upgrade(c)
       PROVE [Channel!ChannelNext]_(Channel!channelVars)
  <2>1. UNCHANGED <<OpenConns, OwedConns, ctxDone>>
    BY <1>15 DEF Upgrade
  <2> QED BY <2>1, <1>a DEF SameChannel
<1>16. ASSUME NEW c \in Conns, Register(c)
       PROVE [Channel!ChannelNext]_(Channel!channelVars)
  <2>1. c \notin clients
    BY <1>16 DEF Register
  <2>2. /\ OwedConns' = OwedConns /\ ctxDone' = ctxDone
        /\ OpenConns' = IF transport[c] = "open" THEN OpenConns \cup {c}
                                                 ELSE OpenConns
    BY <1>16, <2>1 DEF Register
  <2>3. CASE transport[c] = "open"
    <3>1. Channel!OpenConn(c)
      BY <2>1, <2>2, <2>3 DEF Channel!OpenConn
    <3> QED BY <3>1 DEF Channel!ChannelNext
  <2>4. CASE transport[c] # "open"
    BY <2>2, <2>4, <1>a DEF SameChannel
  <2> QED BY <2>3, <2>4
<1>17. ASSUME NEW c \in Conns, PeerGone(c)
       PROVE [Channel!ChannelNext]_(Channel!channelVars)
  BY <1>17, <1>a DEF PeerGone, SameChannel
<1>18. ASSUME NEW c \in Conns, ReadError(c)
       PROVE [Channel!ChannelNext]_(Channel!channelVars)
  BY <1>18, <1>a DEF ReadError, SameChannel
<1>19. ASSUME NEW c \in Conns, ReadTimeout(c)
       PROVE [Channel!ChannelNext]_(Channel!channelVars)
  BY <1>19, <1>a DEF ReadTimeout, SameChannel
<1>20. ASSUME NEW c \in Conns, Unregister(c)
       PROVE [Channel!ChannelNext]_(Channel!channelVars)
  <2>1. /\ OpenConns' = OpenConns \ {c} /\ OwedConns' = OwedConns \ {c}
        /\ ctxDone' = ctxDone
    BY <1>20 DEF Unregister
  <2> QED BY <2>1, LosingOne
<1>21. ASSUME NEW c \in Conns, ReaderClose(c)
       PROVE [Channel!ChannelNext]_(Channel!channelVars)
  <2>1. UNCHANGED <<OpenConns, OwedConns, ctxDone>>
    BY <1>21 DEF ReaderClose
  <2> QED BY <2>1, <1>a DEF SameChannel
<1>22. CASE UNCHANGED vars BY <1>22, <1>a DEF vars, SameChannel
<1> QED
  BY <1>1, <1>2, <1>3, <1>4, <1>5, <1>6, <1>7, <1>8, <1>9, <1>10, <1>11,
     <1>12, <1>13, <1>14, <1>15, <1>16, <1>17, <1>18, <1>19, <1>20, <1>21,
     <1>22, NextIsActions DEF Actions

\* The notifier implements the channel that browsers rely on, for any set of
\* connections and any number of changes: its safety part.  That an owed
\* ping comes needs fairness and is left to TLC.
THEOREM ChannelImplemented == Spec => Channel!ChannelSpec
<1>1. Init => Channel!ChannelInit
  BY DEF Init, Channel!ChannelInit, OpenConns
<1>2. ConnInv /\ TypeOK' /\ ToldInv /\ [Next]_vars
        => [Channel!ChannelNext]_(Channel!channelVars)
  BY StepsAreChannelSteps
<1> QED
  BY <1>1, <1>2, TypeCorrect, ConnectionsAccounted, ToldBounded, PTL
     DEF Spec, Channel!ChannelSpec

=============================================================================

-------------------------- MODULE LiveUpdate_proofs --------------------------
(***************************************************************************)
(* Proofs about the dashboard page, for any kinds, watches that fail,      *)
(* fetches in flight, messages and restarts of the server.                 *)
(***************************************************************************)
EXTENDS LiveUpdate, TLAPS

\* Every core kind that could be watched is.
WatchesInv == Core \ unwatched \subseteq watched

\* A server that is stopping may be started again.
RestartsInv == down => restarts < MaxRestarts

\* Page and server are connected.
Live == sock = "open" /\ Tab \in open /\ ~down

\* Something is under way that makes the page fetch again.
Prompted == Tab \in owed \/ inbox > 0 \/ timer

\* An answer that is too old for what changed meanwhile will be replaced,
\* whatever the page says: while it is on the way, a prompt can only be used
\* up by a fetch that overlaps it.
OldAnswerInv ==
    Live /\ ~overlapped =>
        \A f \in Fetches : fetch[f].st = "answered" /\ fetch[f].at < due => Prompted

\* The inductive invariant.
PageInv == TypeOK /\ WatchesInv /\ RestartsInv /\ OldAnswerInv /\ RefetchOwed

-----------------------------------------------------------------------------
(* Types.                                                                  *)

\* What a fetch may be at a version.
FetchState(v) == {Idle, Sent} \cup {Answered(w) : w \in 0..v}

\* The fields of a fetch.
LEMMA FetchFields ==
    ASSUME NEW v \in Nat, NEW x \in FetchState(v)
    PROVE  /\ x.st = "answered" => x.at \in 0..v
           /\ x # Sent /\ x.st # "answered" => x = Idle
           /\ Idle.st # "answered" /\ Sent.st # "answered" /\ Idle # Sent
           /\ Idle \in FetchState(v) /\ Sent \in FetchState(v)
           /\ Answered(v) \in FetchState(v)
           /\ Answered(v).st = "answered" /\ Answered(v).at = v
BY DEF FetchState, Idle, Sent, Answered

\* The page's part of the type invariant.
PageTypes ==
    /\ sock \in {"connecting", "open", "broken", "closed"}
    /\ inbox \in 0..MaxInbox
    /\ timer \in BOOLEAN
    /\ fetch \in [Fetches -> FetchState(version)]
    /\ shown \in 0..version /\ told \in 0..version /\ newest \in 0..version
    /\ due \in 0..version
    /\ status \in {"links", "none", "failed"}
    /\ admitted \in BOOLEAN
    /\ overlapped \in BOOLEAN

ServerTypes ==
    /\ ChannelTypeOK
    /\ installed \subseteq Optional /\ unwatched \in Unwatchable
    /\ watched \subseteq Core \cup Optional
    /\ restarts \in 0..MaxRestarts
    /\ version \in 0..MaxVersion

\* The type invariant in two parts.
LEMMA TypeParts ==
    /\ TypeOK <=> ServerTypes /\ PageTypes
    /\ TypeOK' <=> ServerTypes' /\ PageTypes'
<1>1. \A a, b, c, d, S :
        {a, b, c, d} \subseteq S <=> a \in S /\ b \in S /\ c \in S /\ d \in S
    BY Zenon
<1>2. TypeOK <=> ServerTypes /\ PageTypes
    BY <1>1 DEF TypeOK, ServerTypes, PageTypes, FetchState
<1>3. TypeOK' <=> ServerTypes' /\ PageTypes'
    BY <1>1 DEF TypeOK, ServerTypes, PageTypes, FetchState
<1>. QED  BY <1>2, <1>3

\* The kinds that are watched.
LEMMA Watches ==
    ASSUME NEW present \in SUBSET Optional
    PROVE  /\ Core \subseteq WatchedKinds(present)
           /\ WatchedKinds(present) \subseteq Core \cup Optional
BY DEF WatchedKinds

-----------------------------------------------------------------------------
\* A page that was just rendered, with its first fetch under way.
LEMMA InitInv == Init => PageInv
<1>. SUFFICES ASSUME Init PROVE PageInv
    OBVIOUS
<1>1. installed \subseteq Optional
    BY DEF Init
<1>2. watched \subseteq Core \cup Optional /\ WatchesInv
    BY <1>1, Watches DEF Init, WatchesInv
<1>3. ServerTypes
  <2>1. 0 \in 0..MaxRestarts /\ 0 \in 0..MaxVersion
      BY PageAssumption
  <2>2. ChannelTypeOK
      BY DEF Init, ChannelInit, ChannelTypeOK
  <2>. QED  BY <1>1, <1>2, <2>1, <2>2 DEF Init, ServerTypes
<1>4. PageTypes
  <2>1. 0 \in 0..MaxInbox /\ 0 \in 0..version
      BY PageAssumption DEF Init
  <2>2. Idle \in FetchState(version) /\ Sent \in FetchState(version)
      BY DEF FetchState
  <2>3. fetch \in [Fetches -> FetchState(version)]
      BY <2>2, Zenon DEF Init
  <2>. QED  BY <2>1, <2>3 DEF Init, PageTypes
<1>5. RestartsInv /\ OldAnswerInv /\ RefetchOwed
    BY DEF Init, ChannelInit, RestartsInv, OldAnswerInv, RefetchOwed, Live
<1>. QED  BY <1>2, <1>3, <1>4, <1>5, TypeParts DEF PageInv

\* A change: one that the page must be told of owes it a ping.
LEMMA ChangeStep ==
    ASSUME PageInv, NEW k \in Kinds, Change(k)
    PROVE  PageInv'
<1>1. ServerTypes /\ PageTypes
    BY TypeParts DEF PageInv
<1>2. /\ version' = version + 1 /\ version < MaxVersion
      /\ UNCHANGED <<watchVars, admitted, sock, pageVars>>
      /\ UNCHANGED <<open, down>>
      /\ \/ owed' = owed /\ ~ (k \in watched /\ ~down)
         \/ owed' = open
    BY DEF Change, DataChange, channelVars
<1>3. version \in Nat /\ version' \in 0..MaxVersion
    BY <1>1, <1>2, PageAssumption DEF ServerTypes
<1>4. ServerTypes'
    BY <1>1, <1>2, <1>3 DEF ServerTypes, ChannelTypeOK, watchVars
<1>5. due' = due \/ due' = version'
    BY DEF Change
<1>6. PageTypes'
  <2>1. FetchState(version) \subseteq FetchState(version')
      BY <1>2, <1>3 DEF FetchState
  <2>2. fetch' \in [Fetches -> FetchState(version')]
      BY <1>1, <1>2, <2>1 DEF PageTypes, pageVars, answerVars
  <2>3. /\ shown' \in 0..version' /\ told' \in 0..version' /\ newest' \in 0..version'
        /\ due' \in 0..version'
      BY <1>1, <1>2, <1>3, <1>5 DEF PageTypes, pageVars, answerVars
  <2>. QED  BY <1>1, <1>2, <2>2, <2>3 DEF PageTypes, pageVars, answerVars
<1>7. WatchesInv' /\ RestartsInv'
    BY <1>2 DEF PageInv, WatchesInv, RestartsInv, watchVars
<1>8. ASSUME Live, due' # due PROVE Tab \in owed'
  <2>1. MustNotify(k) /\ Tab \in open
      BY <1>8 DEF Change
  <2>2. k \in watched
      BY <2>1 DEF MustNotify, PageInv, WatchesInv
  <2>. QED  BY <1>2, <1>8, <2>1, <2>2 DEF Live
<1>9. Live' <=> Live
    BY <1>2 DEF Live
<1>10. Live' /\ Tab \in owed => Tab \in owed'
    BY <1>2 DEF Live
<1>11. OldAnswerInv'
    BY <1>2, <1>8, <1>9, <1>10 DEF PageInv, OldAnswerInv, Prompted, pageVars, answerVars
<1>12. RefetchOwed'
    BY <1>2, <1>8, <1>9, <1>10 DEF PageInv, RefetchOwed, Current, Live, pageVars, answerVars
<1>. QED  BY <1>4, <1>6, <1>7, <1>11, <1>12, TypeParts DEF PageInv

\* The server stops, is started again, and kinds are installed: no page is
\* connected to a server that is down or new.
LEMMA ServerStep ==
    ASSUME PageInv, Stop \/ Restart \/ \E k \in Kinds : Install(k)
    PROVE  PageInv'
<1>1. ServerTypes /\ PageTypes
    BY TypeParts DEF PageInv
<1>2. UNCHANGED <<version, admitted, sock, pageVars, due>>
    BY DEF Stop, Restart, Install
<1>3. PageTypes'
    BY <1>1, <1>2 DEF PageTypes, pageVars, answerVars
<1>4. CASE Stop
  <2>1. down' /\ UNCHANGED <<open, owed, watchVars>> /\ restarts < MaxRestarts
      BY <1>4 DEF Stop, ShutDown
  <2>2. ServerTypes'
    <3>1. down' \in BOOLEAN
        BY <1>4 DEF Stop, ShutDown
    <3>. QED  BY <1>1, <1>2, <2>1, <3>1 DEF ServerTypes, ChannelTypeOK, watchVars
  <2>3. WatchesInv' /\ RestartsInv' /\ OldAnswerInv' /\ RefetchOwed'
      BY <2>1 DEF PageInv, WatchesInv, RestartsInv, OldAnswerInv, RefetchOwed, Live,
                  watchVars
  <2>. QED  BY <1>3, <2>2, <2>3, TypeParts DEF PageInv
<1>5. CASE Restart
  <2>1. /\ down /\ down' = FALSE /\ open' = {} /\ owed' = {} /\ installed' = installed
        /\ unwatched' \in Unwatchable
        /\ watched' = WatchedKinds(installed) \ unwatched'
        /\ restarts' = restarts + 1
      BY <1>5 DEF Restart, setupDashboardWatches
  <2>2. /\ Core \subseteq WatchedKinds(installed)
        /\ WatchedKinds(installed) \subseteq Core \cup Optional
      BY <1>1, Watches DEF ServerTypes
  <2>3. restarts' \in 0..MaxRestarts
      BY <1>1, <2>1, PageAssumption DEF PageInv, RestartsInv, ServerTypes
  <2>4. ServerTypes'
      BY <1>1, <1>2, <2>1, <2>2, <2>3 DEF ServerTypes, ChannelTypeOK
  <2>5. WatchesInv' /\ RestartsInv' /\ OldAnswerInv' /\ RefetchOwed'
      BY <2>1, <2>2 DEF WatchesInv, RestartsInv, OldAnswerInv, RefetchOwed, Live
  <2>. QED  BY <1>3, <2>4, <2>5, TypeParts DEF PageInv
<1>6. CASE \E k \in Kinds : Install(k)
  <2>1. /\ UNCHANGED <<open, owed, down, watched, unwatched, restarts>>
        /\ installed' \subseteq Optional
      BY <1>1, <1>6 DEF Install, channelVars, ServerTypes
  <2>2. ServerTypes'
      BY <1>1, <1>2, <2>1 DEF ServerTypes, ChannelTypeOK
  <2>3. WatchesInv' /\ RestartsInv' /\ OldAnswerInv' /\ RefetchOwed'
      BY <1>2, <2>1 DEF PageInv, WatchesInv, RestartsInv, OldAnswerInv, RefetchOwed,
                        Current, Live, Prompted, pageVars, answerVars
  <2>. QED  BY <1>3, <2>2, <2>3, TypeParts DEF PageInv
<1>. QED  BY <1>4, <1>5, <1>6

\* The connection of the page.  It becomes live only when the server
\* registers it, and then nothing is due.
LEMMA SocketStep ==
    ASSUME PageInv, Socket
    PROVE  PageInv'
<1>1. ServerTypes /\ PageTypes
    BY TypeParts DEF PageInv
<1>2. /\ UNCHANGED <<watchVars, version, admitted, timer, fetch, overlapped, down>>
      /\ UNCHANGED <<shown, told, newest, status>>
    BY DEF Socket, Connected, ConnectFails, Cut, ServerCloses, Pinged, CloseEvent,
           Reconnect, OpenConn, CloseConns, Ping, channelVars, pageVars, answerVars
<1>3. WatchesInv' /\ RestartsInv'
    BY <1>2 DEF PageInv, WatchesInv, RestartsInv, watchVars
<1>4. ChannelTypeOK'
    BY <1>1, PageAssumption
       DEF ServerTypes, ChannelTypeOK, Socket, Connected, ConnectFails, Cut, ServerCloses,
           Pinged, CloseEvent, Reconnect, OpenConn, CloseConns, Ping, channelVars
<1>5. ServerTypes'
    BY <1>1, <1>2, <1>4 DEF ServerTypes, watchVars
<1>6. CASE Pinged
  <2>1. /\ UNCHANGED <<open, sock, due>>
        /\ inbox < MaxInbox
        /\ inbox' = IF sock = "open" THEN inbox + 1 ELSE inbox
      BY <1>6 DEF Pinged, Ping
  <2>2. inbox \in 0..MaxInbox
      BY <1>1 DEF PageTypes
  <2>3. inbox' \in 0..MaxInbox
      BY <2>1, <2>2, PageAssumption
  <2>4. PageTypes'
      BY <1>1, <1>2, <2>1, <2>3 DEF PageTypes
  <2>5. Live' => inbox' > 0
      BY <2>1, <2>2 DEF Live
  <2>6. OldAnswerInv'
      BY <2>5 DEF OldAnswerInv, Prompted
  <2>7. RefetchOwed'
      BY <2>5 DEF RefetchOwed, Live
  <2>. QED  BY <1>3, <1>5, <2>4, <2>6, <2>7, TypeParts DEF PageInv
<1>7. CASE Connected
  <2>1. due' = 0 /\ inbox' = inbox /\ sock' = "open"
      BY <1>7 DEF Connected, pageVars, answerVars
  <2>2. version \in Nat
      BY <1>1, PageAssumption DEF ServerTypes
  <2>3. PageTypes'
      BY <1>1, <1>2, <2>1, <2>2 DEF PageTypes
  <2>4. ASSUME NEW f \in Fetches, fetch'[f].st = "answered" PROVE ~ (fetch'[f].at < due')
    <3>1. fetch[f] \in FetchState(version)
        BY <1>1 DEF PageTypes
    <3>2. fetch[f].at \in 0..version
        BY <1>2, <2>2, <2>4, <3>1, FetchFields
    <3>. QED  BY <1>2, <2>1, <2>2, <3>2
  <2>5. OldAnswerInv'
      BY <2>4 DEF OldAnswerInv
  <2>6. RefetchOwed'
      BY <1>1, <1>2, <2>1, <2>2 DEF RefetchOwed, Current, PageTypes
  <2>. QED  BY <1>3, <1>5, <2>3, <2>5, <2>6, TypeParts DEF PageInv
<1>8. CASE ConnectFails \/ Cut \/ ServerCloses \/ CloseEvent \/ Reconnect
  <2>1. UNCHANGED <<inbox, due>>
      BY <1>8 DEF ConnectFails, Cut, ServerCloses, CloseEvent, Reconnect, pageVars, answerVars
  <2>2. sock' \in {"connecting", "open", "broken", "closed"}
      BY <1>1, <1>8 DEF ConnectFails, Cut, ServerCloses, CloseEvent, Reconnect, PageTypes
  <2>3. PageTypes'
      BY <1>1, <1>2, <2>1, <2>2 DEF PageTypes
  <2>4. ~ Live'
      BY <1>8 DEF ConnectFails, Cut, ServerCloses, CloseEvent, Reconnect, CloseConns, Live
  <2>5. OldAnswerInv' /\ RefetchOwed'
      BY <2>4 DEF OldAnswerInv, RefetchOwed, Live
  <2>. QED  BY <1>3, <1>5, <2>3, <2>5, TypeParts DEF PageInv
<1>. QED  BY <1>6, <1>7, <1>8 DEF Socket

\* The script of the page.  A prompt becomes a fetch, a fetch an answer that
\* is as new as what is due, and an old answer leaves a prompt behind.
LEMMA ScriptStep ==
    ASSUME PageInv, Script
    PROVE  PageInv'
<1>1. ServerTypes /\ PageTypes
    BY TypeParts DEF PageInv
<1>2. UNCHANGED <<open, owed, down, watchVars, version, admitted, sock, due>>
    BY DEF Script, Message, TimerFires, Collect, FetchFails, Render, channelVars
<1>3. ServerTypes' /\ WatchesInv' /\ RestartsInv'
    BY <1>1, <1>2 DEF PageInv, ServerTypes, ChannelTypeOK, WatchesInv, RestartsInv,
                      watchVars
<1>4. version \in Nat
    BY <1>1, PageAssumption DEF ServerTypes
<1>5. \A f \in Fetches : fetch[f] \in FetchState(version)
    BY <1>1 DEF PageTypes
<1>6. Live' <=> Live
    BY <1>2 DEF Live
<1>7. CASE Message
  <2>1. /\ inbox > 0 /\ inbox' = inbox - 1 /\ timer' = TRUE
        /\ UNCHANGED <<fetch, shown, told, newest, status, overlapped>>
      BY <1>7 DEF Message, answerVars
  <2>2. inbox' \in 0..MaxInbox
      BY <1>1, <2>1, PageAssumption DEF PageTypes
  <2>3. timer' \in BOOLEAN /\ timer'
      BY <2>1
  <2>4. PageTypes'
      BY <1>1, <1>2, <2>1, <2>2, <2>3 DEF PageTypes
  <2>5. OldAnswerInv' /\ RefetchOwed'
      BY <2>3 DEF OldAnswerInv, RefetchOwed, Prompted
  <2>. QED  BY <1>3, <2>4, <2>5, TypeParts DEF PageInv
<1>8. ASSUME NEW f \in Fetches, TimerFires(f) PROVE PageInv'
  <2>1. /\ timer' = FALSE /\ fetch' = [fetch EXCEPT ![f] = Sent]
        /\ overlapped' = (Busy # {})
        /\ UNCHANGED <<inbox, shown, told, newest, status>>
      BY <1>8 DEF TimerFires, answerVars
  <2>2. fetch'[f] = Sent
      BY <1>1, <2>1 DEF PageTypes
  <2>3. Sent \in FetchState(version)
      BY DEF FetchState
  <2>4. fetch' \in [Fetches -> FetchState(version)]
      BY <1>1, <2>1, <2>3 DEF PageTypes
  <2>5. timer' \in BOOLEAN /\ overlapped' \in BOOLEAN
      BY <2>1, Zenon
  <2>6. PageTypes'
      BY <1>1, <1>2, <2>1, <2>4, <2>5 DEF PageTypes
  <2>7. ASSUME ~overlapped', NEW g \in Fetches PROVE fetch'[g].st # "answered"
    <3>1. fetch[g] = Idle
        BY <2>1, <2>7 DEF Busy
    <3>2. fetch'[g] \in {Idle, Sent}
        BY <1>1, <2>1, <2>7, <3>1 DEF PageTypes
    <3>. QED  BY <3>2 DEF Idle, Sent
  <2>8. OldAnswerInv' /\ RefetchOwed'
      BY <2>2, <2>7 DEF OldAnswerInv, RefetchOwed
  <2>. QED  BY <1>3, <2>6, <2>8, TypeParts DEF PageInv
<1>9. ASSUME NEW f \in Fetches, Collect(f) PROVE PageInv'
  <2>1. /\ fetch' = [fetch EXCEPT ![f] = Answered(version)]
        /\ UNCHANGED <<inbox, timer, shown, told, newest, status, overlapped>>
      BY <1>9 DEF Collect, answerVars
  <2>2. fetch'[f] = Answered(version)
      BY <1>1, <2>1 DEF PageTypes
  <2>3. /\ Answered(version) \in FetchState(version)
        /\ fetch'[f].st = "answered" /\ fetch'[f].at = version
      BY <1>4, <1>5, <2>2, FetchFields
  <2>4. fetch' \in [Fetches -> FetchState(version)]
      BY <1>1, <2>1, <2>3 DEF PageTypes
  <2>5. PageTypes'
      BY <1>1, <1>2, <2>1, <2>4 DEF PageTypes
  <2>6. due \in Nat /\ due <= version
      BY <1>1, <1>4 DEF PageTypes
  <2>7. ~ (fetch'[f].at < due') /\ fetch'[f].at >= due'
      BY <1>2, <1>4, <2>3, <2>6
  <2>8. \A g \in Fetches : g # f => fetch'[g] = fetch[g]
      BY <1>1, <2>1 DEF PageTypes
  <2>9. Prompted' <=> Prompted
      BY <1>2, <2>1 DEF Prompted
  <2>10. OldAnswerInv'
      BY <1>2, <1>6, <2>1, <2>7, <2>8, <2>9 DEF PageInv, OldAnswerInv
  <2>11. RefetchOwed'
      BY <2>3, <2>7 DEF RefetchOwed
  <2>. QED  BY <1>3, <2>5, <2>10, <2>11, TypeParts DEF PageInv
<1>10. ASSUME NEW f \in Fetches, FetchFails(f) \/ Render(f) PROVE PageInv'
  <2>1. /\ fetch' = [fetch EXCEPT ![f] = Idle]
        /\ UNCHANGED <<inbox, timer, overlapped>>
      BY <1>10 DEF FetchFails, Render
  <2>2. /\ fetch'[f] = Idle
        /\ \A g \in Fetches : g # f => fetch'[g] = fetch[g]
      BY <1>1, <2>1 DEF PageTypes
  <2>3. Idle \in FetchState(version) /\ Idle.st # "answered" /\ Idle # Sent
      BY <1>4, <1>5, FetchFields
  <2>4. fetch' \in [Fetches -> FetchState(version)]
      BY <1>1, <2>1, <2>3 DEF PageTypes
  <2>5. Prompted' <=> Prompted
      BY <1>2, <2>1 DEF Prompted
  <2>6. OldAnswerInv'
      BY <1>2, <1>6, <2>1, <2>2, <2>3, <2>5 DEF PageInv, OldAnswerInv
  <2>7. CASE FetchFails(f)
    <3>1. status' = "failed" /\ UNCHANGED <<shown, told, newest>>
        BY <2>7 DEF FetchFails
    <3>2. PageTypes'
        BY <1>1, <1>2, <2>1, <2>4, <3>1 DEF PageTypes
    <3>3. RefetchOwed'
        BY <3>1 DEF RefetchOwed
    <3>. QED  BY <1>3, <2>6, <3>2, <3>3, TypeParts DEF PageInv
  <2>8. CASE Render(f)
    <3>1. /\ fetch[f].st = "answered" /\ told' = fetch[f].at
          /\ \/ status' = "none" /\ shown' = shown
             \/ status' = "links" /\ shown' = fetch[f].at
          /\ newest' = fetch[f].at \/ newest' = newest
        BY <2>8 DEF Render
    <3>2. fetch[f].at \in 0..version
        BY <1>4, <1>5, <3>1, FetchFields
    <3>3. PageTypes'
      <4>1. shown' \in 0..version /\ told' \in 0..version /\ newest' \in 0..version
          BY <1>1, <3>1, <3>2 DEF PageTypes
      <4>. QED  BY <1>1, <1>2, <2>1, <2>4, <3>1, <4>1 DEF PageTypes
    <3>4. ASSUME Live', ~overlapped', ~Current(due)' PROVE Prompted'
      <4>1. due \in Nat
          BY <1>1, <1>4 DEF PageTypes
      <4>2. fetch[f].at < due
          BY <1>2, <1>4, <3>1, <3>2, <3>4, <4>1 DEF Current
      <4>. QED  BY <1>2, <1>6, <2>1, <2>5, <3>1, <3>4, <4>2 DEF PageInv, OldAnswerInv
    <3>5. RefetchOwed'
        BY <3>4 DEF RefetchOwed, Live, Prompted
    <3>. QED  BY <1>3, <2>6, <3>3, <3>5, TypeParts DEF PageInv
  <2>. QED  BY <1>10, <2>7, <2>8
<1>. QED  BY <1>7, <1>8, <1>9, <1>10 DEF Script

\* The session decides what the server accepts, and nothing on the page.
LEMMA SessionStep ==
    ASSUME PageInv, SessionEnds \/ SignIn
    PROVE  PageInv'
<1>1. admitted' \in BOOLEAN
    BY DEF SessionEnds, SignIn
<1>2. /\ UNCHANGED <<open, owed, down, installed, watched, unwatched, restarts, version>>
      /\ UNCHANGED <<sock, inbox, timer, fetch, shown, told, newest, status, overlapped, due>>
    BY DEF SessionEnds, SignIn, channelVars, watchVars, pageVars, answerVars
<1>3. ServerTypes' /\ PageTypes'
    BY <1>1, <1>2, TypeParts DEF PageInv, ServerTypes, ChannelTypeOK, PageTypes
<1>4. WatchesInv' /\ RestartsInv' /\ OldAnswerInv' /\ RefetchOwed'
    BY <1>2 DEF PageInv, WatchesInv, RestartsInv, OldAnswerInv, RefetchOwed, Current, Live,
                Prompted
<1>. QED  BY <1>3, <1>4, TypeParts DEF PageInv

-----------------------------------------------------------------------------
(* The theorems.                                                           *)

\* The invariant of the page, its connection and the watches behind it.
THEOREM PageInvariant == Spec => []PageInv
<1>1. ASSUME PageInv, [Next]_vars PROVE PageInv'
  <2>1. CASE Cluster
      BY <1>1, <2>1, ChangeStep, ServerStep DEF Cluster
  <2>2. CASE Socket
      BY <1>1, <2>2, SocketStep
  <2>3. CASE Script
      BY <1>1, <2>3, ScriptStep
  <2>4. CASE SessionEnds \/ SignIn
      BY <1>1, <2>4, SessionStep
  <2>5. CASE UNCHANGED vars
      BY <1>1, <2>5 DEF vars, channelVars, watchVars, pageVars, answerVars, PageInv, TypeOK,
                  ChannelTypeOK, Current, WatchesInv, RestartsInv, OldAnswerInv, RefetchOwed, Live, Prompted
  <2>. QED  BY <1>1, <2>1, <2>2, <2>3, <2>4, <2>5 DEF Next
<1>. QED  BY InitInv, <1>1, PTL DEF Spec

\* Types, and the bounds that rest on more than one guard: nothing shown or
\* due is newer than the cluster, and only open connections are owed pings.
THEOREM TypeCorrect == Spec => []TypeOK
<1>1. PageInv => TypeOK
    BY DEF PageInv
<1>. QED  BY <1>1, PageInvariant, PTL

\* A connected page never forgets a watched change that it does not reflect,
\* by its links or by saying that there are none: something is under way that
\* will fetch it, unless a fetch failed or fetches overlapped.
THEOREM ChangesNotForgotten == Spec => []RefetchOwed
<1>1. PageInv => RefetchOwed
    BY DEF PageInv
<1>. QED  BY <1>1, PageInvariant, PTL

\* The page asks no more of the server than the channel promises: whatever
\* happens to connections and pings here is a step of UpdateChannel, or the
\* start of a new server.  With ChannelImplemented, the page may rely on the
\* notifier.
THEOREM PageUsesChannel == Spec => ChannelInit /\ [][ChannelNext \/ Restart]_channelVars
<1>1. Init => ChannelInit
    BY DEF Init
<1>2. ASSUME PageInv, [Next]_vars PROVE [ChannelNext \/ Restart]_channelVars
  <2>1. ASSUME NEW k \in Kinds, Change(k) PROVE [ChannelNext]_channelVars
      BY <2>1 DEF Change, ChannelNext
  <2>2. CASE Stop \/ Connected \/ Pinged
      BY <2>2, PageAssumption DEF Stop, Connected, Pinged, ChannelNext
  <2>3. CASE ServerCloses
      BY <2>3, PageAssumption DEF ServerCloses, ChannelNext
  <2>4. CASE CloseEvent
    <3>1. {Tab} \cap open \in SUBSET Clients
        BY PageAssumption
    <3>. QED  BY <2>4, <3>1 DEF CloseEvent, ChannelNext
  <2>5. CASE \/ ConnectFails \/ Cut \/ Reconnect \/ Script \/ SessionEnds \/ SignIn
             \/ \E k \in Kinds : Install(k)
      BY <2>5 DEF SessionEnds, SignIn, ConnectFails, Cut, Reconnect, Script, Message, TimerFires, Collect,
                  FetchFails, Render, Install
  <2>6. CASE UNCHANGED vars
      BY <2>6 DEF vars
  <2>. QED  BY <1>2, <2>1, <2>2, <2>3, <2>4, <2>5, <2>6 DEF Next, Cluster, Socket
<1>. QED  BY <1>1, <1>2, PageInvariant, PTL DEF Spec
=============================================================================

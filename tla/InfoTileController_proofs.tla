---------------------- MODULE InfoTileController_proofs ----------------------
(***************************************************************************)
(* Proofs about the InfoTile reconciler, for any number of tiles, specs,   *)
(* answers, edits and failures.                                            *)
(***************************************************************************)
EXTENDS InfoTileController, SequenceTheorems, TLAPS

\* The variables that users, backends and the worker do not share.
StateInv ==
    /\ backend \in [Tiles -> Answers \cup {"down"}]
    /\ queue \in [Tiles -> {"none", "delayed", "ready"}]
    /\ due \in [Tiles -> BOOLEAN] /\ wrote \in [Tiles -> BOOLEAN]
    /\ notify \in BOOLEAN
    /\ shown \in [Tiles -> Contents]
    /\ errors \in 0..MaxErrors

\* The cache follows the stored tiles: the stored version comes last.
CacheInv ==
    /\ obj \in [Tiles -> Object] /\ cache \in [Tiles -> Object]
    /\ behind \in [Tiles -> Seq(Object)]
    /\ \A t \in Tiles :
         /\ Len(behind[t]) <= MaxBehind + 1
         /\ IF behind[t] = <<>> THEN cache[t] = obj[t]
                                ELSE behind[t][Len(behind[t])] = obj[t]

\* A copy that is not outdated was read from a cache that was up to date, and
\* nothing has been stored since: it has the stored spec, and the stored
\* content or one rendered from that spec.
CopyInv ==
    /\ pc \in {"idle", "fetch", "update"} /\ cur \in Tiles
    /\ copy \in Object /\ outdated \in BOOLEAN
    /\ (pc # "idle" /\ ~outdated) =>
         /\ behind[cur] = <<>>
         /\ obj[cur].exists /\ copy.spec = obj[cur].spec
         /\ \/ copy.content = obj[cur].content
            \/ \E a \in Answers : copy.content = <<copy.spec, a>>

TileInv == StateInv /\ CacheInv /\ CopyInv

-----------------------------------------------------------------------------
\* The fields of a tile.
LEMMA Fields ==
    \A o \in Object : o.exists \in BOOLEAN /\ o.spec \in Specs /\ o.content \in Contents
                      /\ o.lastError \in BOOLEAN
BY DEF Object

\* A version stored for a tile is the last one its cache will see.
LEMMA AppendKeepsCache ==
    ASSUME CacheInv, NEW t \in Tiles, NEW o \in Object, Len(behind[t]) <= MaxBehind,
           obj' = [obj EXCEPT ![t] = o], behind' = [behind EXCEPT ![t] = Append(@, o)],
           UNCHANGED cache
    PROVE  CacheInv' /\ behind'[t] # <<>>
<1> USE InfoTileAssumption DEF InfoTileAssumption, CacheInv
<1>1. behind[t] \in Seq(Object) /\ behind'[t] = Append(behind[t], o)
  OBVIOUS
<1>2. /\ behind'[t] \in Seq(Object) /\ behind'[t] # <<>>
      /\ Len(behind'[t]) = Len(behind[t]) + 1 /\ Len(behind[t]) \in Nat
      /\ behind'[t][Len(behind'[t])] = o
  BY <1>1, AppendProperties, LenProperties
<1>3. behind' \in [Tiles -> Seq(Object)] /\ obj' \in [Tiles -> Object]
  BY <1>1, <1>2
<1>4. ASSUME NEW u \in Tiles
      PROVE  /\ Len(behind'[u]) <= MaxBehind + 1
             /\ IF behind'[u] = <<>> THEN cache'[u] = obj'[u]
                                     ELSE behind'[u][Len(behind'[u])] = obj'[u]
  <2>1. CASE u = t BY <1>2, <2>1
  <2>2. CASE u # t
    <3>1. behind'[u] = behind[u] /\ obj'[u] = obj[u] BY <2>2
    <3> QED BY <3>1
  <2> QED BY <2>1, <2>2
<1> QED BY <1>2, <1>3, <1>4

\* What a user stores outdates the copy of that tile.
LEMMA UserKeepsInv ==
    ASSUME TileInv, NEW t \in Tiles, NEW o \in Object, UserWrite(t, o)
    PROVE  TileInv'
<1> USE InfoTileAssumption DEF InfoTileAssumption, TileInv
<1>1. /\ Len(behind[t]) < MaxBehind /\ Store(t, o)
      /\ UNCHANGED <<cache, backend, queue, due, pc, cur, copy, wrote, notify, shown, errors>>
  BY DEF UserWrite
<1>2. Len(behind[t]) \in Nat
  BY LenProperties DEF CacheInv
<1>3. CacheInv'
  <2>1. Len(behind[t]) <= MaxBehind
    BY <1>1, <1>2
  <2>2. /\ obj' = [obj EXCEPT ![t] = o] /\ behind' = [behind EXCEPT ![t] = Append(@, o)]
        /\ UNCHANGED cache
    BY <1>1 DEF Store
  <2> QED BY <2>1, <2>2, AppendKeepsCache
<1>4. StateInv' BY <1>1 DEF StateInv
<1>5. CopyInv'
  <2>1. CASE t = cur
    BY <1>1, <2>1 DEF CopyInv, Store
  <2>2. CASE t # cur
    <3>1. behind'[cur] = behind[cur] /\ obj'[cur] = obj[cur] /\ outdated' = outdated
      BY <1>1, <2>2 DEF Store, CacheInv, CopyInv
    <3> QED BY <1>1, <3>1 DEF CopyInv
  <2> QED BY <2>1, <2>2
<1> QED BY <1>3, <1>4, <1>5

\* Edits, deletions, new tiles, other answers, and seconds that pass.
LEMMA WorldKeepsInv ==
    ASSUME TileInv, World
    PROVE  TileInv'
<1>0. obj \in [Tiles -> Object]
  BY DEF TileInv, CacheInv
<1>1. ASSUME NEW t \in Tiles, NEW s \in Specs, EditSpec(t, s) PROVE TileInv'
  <2>1. [obj[t] EXCEPT !.spec = s] \in Object
    BY <1>0 DEF Object
  <2> QED BY <1>1, <2>1, UserKeepsInv DEF EditSpec
<1>2. ASSUME NEW t \in Tiles, NEW s \in Specs, Create(t, s) PROVE TileInv'
  <2>1. [exists |-> TRUE, spec |-> s, content |-> <<>>, lastError |-> FALSE] \in Object
    BY DEF Object, Contents
  <2> QED BY <1>2, <2>1, UserKeepsInv DEF Create
<1>3. ASSUME NEW t \in Tiles, Delete(t) PROVE TileInv'
  <2>1. [obj[t] EXCEPT !.exists = FALSE] \in Object
    BY <1>0 DEF Object
  <2> QED BY <1>3, <2>1, UserKeepsInv DEF Delete
<1>4. ASSUME NEW t \in Tiles, NEW a \in Answers \cup {"down"}, BackendChanges(t, a)
      PROVE  TileInv'
  BY <1>4 DEF BackendChanges, TileInv, StateInv, CacheInv, CopyInv
<1>5. CASE SecondPasses
  <2>1. wrote' \in [Tiles -> BOOLEAN]
    BY <1>5, Zenon DEF SecondPasses
  <2> QED BY <1>5, <2>1 DEF SecondPasses, TileInv, StateInv, CacheInv, CopyInv
<1> QED BY <1>1, <1>2, <1>3, <1>4, <1>5 DEF World

\* The cache takes over the next version; a copy that is up to date has none
\* to wait for.
LEMMA DeliverKeepsInv ==
    ASSUME TileInv, NEW t \in Tiles, Deliver(t)
    PROVE  TileInv'
<1> USE DEF TileInv
<1>1. /\ behind[t] # <<>> /\ cache' = [cache EXCEPT ![t] = Head(behind[t])]
      /\ behind' = [behind EXCEPT ![t] = Tail(@)]
      /\ queue' = [queue EXCEPT ![t] = "ready"]
      /\ UNCHANGED <<obj, backend, due, pc, cur, copy, outdated, wrote, notify, shown, errors>>
  BY DEF Deliver
<1>2. /\ behind[t] \in Seq(Object) /\ Len(behind[t]) \in Nat /\ Len(behind[t]) > 0
      /\ Head(behind[t]) = behind[t][1] /\ Head(behind[t]) \in Object
      /\ Tail(behind[t]) \in Seq(Object) /\ Len(Tail(behind[t])) = Len(behind[t]) - 1
      /\ \A i \in 1..Len(Tail(behind[t])) : Tail(behind[t])[i] = behind[t][i + 1]
  BY <1>1, HeadTailProperties, LenProperties, EmptySeq DEF CacheInv
<1>3. cache'[t] = Head(behind[t]) /\ behind'[t] = Tail(behind[t])
  BY <1>1 DEF CacheInv
<1>4. CacheInv'
  <2>1. cache' \in [Tiles -> Object] /\ behind' \in [Tiles -> Seq(Object)]
    BY <1>1, <1>2 DEF CacheInv
  <2>2. /\ Len(behind'[t]) <= MaxBehind + 1
        /\ IF behind'[t] = <<>> THEN cache'[t] = obj[t]
                                ELSE behind'[t][Len(behind'[t])] = obj[t]
    <3>1. Len(behind'[t]) <= MaxBehind + 1
      BY <1>2, <1>3, InfoTileAssumption DEF CacheInv, InfoTileAssumption
    <3>2. CASE Tail(behind[t]) = <<>>
      <4>1. Len(behind[t]) = 1
        <5>1. \A q \in Seq(Object) : q = <<>> => Len(q) = 0
          BY EmptySeq
        <5>2. Len(Tail(behind[t])) = 0
          BY <1>2, <3>2, <5>1
        <5> QED BY <1>2, <5>2
      <4> QED BY <1>1, <1>2, <1>3, <3>1, <3>2, <4>1 DEF CacheInv
    <3>3. CASE Tail(behind[t]) # <<>>
      <4>1. Len(Tail(behind[t])) > 0
        BY <1>2, <3>3, EmptySeq
      <4>2. Tail(behind[t])[Len(Tail(behind[t]))] = behind[t][Len(behind[t])]
        BY <1>2, <4>1
      <4> QED BY <1>1, <1>3, <3>1, <3>3, <4>2 DEF CacheInv
    <3> QED BY <3>2, <3>3
  <2>3. ASSUME NEW u \in Tiles, u # t
        PROVE  cache'[u] = cache[u] /\ behind'[u] = behind[u]
    BY <1>1, <2>3 DEF CacheInv
  <2> QED BY <1>1, <2>1, <2>2, <2>3 DEF CacheInv
<1>5. CopyInv'
  <2>1. (pc # "idle" /\ ~outdated) => behind'[cur] = <<>>
    BY <1>1 DEF CopyInv, CacheInv
  <2> QED BY <1>1, <2>1 DEF CopyInv
<1>6. StateInv' BY <1>1 DEF StateInv
<1> QED BY <1>4, <1>5, <1>6

\* A Reconcile begins with what the cache holds, and knows nothing newer
\* exactly if nothing is on its way.
LEMMA GetKeepsInv ==
    ASSUME TileInv, NEW t \in Tiles, Get(t)
    PROVE  TileInv'
<1> USE DEF TileInv
<1>1. /\ queue' = [queue EXCEPT ![t] = "none"]
      /\ UNCHANGED <<obj, cache, behind, backend, wrote, notify, shown, errors>>
  BY DEF Get
<1>2. CacheInv' BY <1>1 DEF CacheInv
<1>3. CASE cache[t].exists
  <2>1. /\ copy' = cache[t] /\ cur' = t /\ outdated' = (behind[t] # <<>>)
        /\ due' = [due EXCEPT ![t] = FALSE] /\ pc' = "fetch"
    BY <1>3 DEF Get
  <2>2. StateInv' BY <1>1, <2>1 DEF StateInv
  <2>3. CopyInv' BY <1>1, <1>3, <2>1 DEF CopyInv, CacheInv
  <2> QED BY <1>2, <2>2, <2>3
<1>4. CASE ~cache[t].exists
  <2>1. UNCHANGED <<copy, cur, outdated, due, pc>>
    BY <1>4 DEF Get
  <2> QED BY <1>1, <1>2, <2>1 DEF StateInv, CopyInv
<1> QED BY <1>3, <1>4

\* The answer is rendered with the spec of the copy, or the content is kept.
LEMMA RenderKeepsInv ==
    ASSUME TileInv, RenderOK \/ RenderError
    PROVE  TileInv'
<1> USE DEF TileInv
<1>0. copy \in Object /\ cur \in Tiles /\ pc = "fetch"
  BY DEF CopyInv, RenderOK, RenderError
<1>1. CASE RenderOK
  <2>1. /\ pc' = "update" /\ notify' \in BOOLEAN
        /\ UNCHANGED <<obj, cache, behind, backend, queue, due, cur, outdated, wrote, shown,
                       errors>>
    BY <1>1 DEF RenderOK, StateInv
  <2>2. PICK a \in Answers :
          copy' = [copy EXCEPT !.lastError = FALSE, !.content = <<copy.spec, a>>]
    BY <1>0, <1>1 DEF RenderOK, StateInv
  <2>3. <<copy.spec, a>> \in Contents
    BY <1>0 DEF Contents, Object
  <2>4. copy' \in Object /\ copy'.spec = copy.spec /\ copy'.content = <<copy.spec, a>>
    BY <1>0, <2>2, <2>3 DEF Object
  <2> QED BY <1>0, <2>1, <2>4 DEF StateInv, CacheInv, CopyInv
<1>2. CASE RenderError
  <2>1. /\ pc' = "update" /\ copy' = [copy EXCEPT !.lastError = TRUE]
        /\ UNCHANGED <<obj, cache, behind, backend, queue, due, cur, outdated, wrote, notify,
                       shown, errors>>
    BY <1>2 DEF RenderError
  <2>2. copy' \in Object /\ copy'.spec = copy.spec /\ copy'.content = copy.content
    BY <1>0, <2>1 DEF Object
  <2> QED BY <1>0, <2>1, <2>2 DEF StateInv, CacheInv, CopyInv
<1> QED BY <1>1, <1>2

\* The tile a status write stores.
LEMMA WrittenTile ==
    ASSUME TileInv
    PROVE  /\ WithStatus \in Object
           /\ WithStatus.spec = obj[cur].spec /\ WithStatus.exists = obj[cur].exists
           /\ WithStatus.content = copy.content
<1>1. obj[cur] \in Object /\ copy \in Object
  BY DEF TileInv, CacheInv, CopyInv
<1> QED BY <1>1 DEF WithStatus, Object

\* A write that is not refused finds the cache up to date, so no more than one
\* version is on its way after it.
LEMMA UpdateKeepsInv ==
    ASSUME TileInv, UpdateStatus
    PROVE  TileInv'
<1> USE DEF TileInv
<1>1. /\ pc = "update" /\ ~outdated /\ pc' = "idle" /\ cur \in Tiles
      /\ wrote' = [wrote EXCEPT ![cur] = TRUE] /\ queue' = RequeueAfter(cur)
      /\ UNCHANGED <<cache, backend, due, cur, copy, outdated, notify, shown, errors>>
  BY DEF UpdateStatus, CopyInv
<1>2. CacheInv'
  <2>1. CASE UNCHANGED <<obj, behind>>
    BY <1>1, <2>1 DEF CacheInv
  <2>2. CASE /\ obj' = [obj EXCEPT ![cur] = WithStatus]
             /\ behind' = [behind EXCEPT ![cur] = Append(@, WithStatus)]
    <3>1. Len(behind[cur]) <= MaxBehind
      BY <1>1, EmptySeq, InfoTileAssumption DEF CopyInv, InfoTileAssumption
    <3> QED BY <1>1, <2>2, <3>1, WrittenTile, AppendKeepsCache
  <2> QED BY <2>1, <2>2 DEF UpdateStatus
<1>3. queue' \in [Tiles -> {"none", "delayed", "ready"}]
  BY <1>1 DEF RequeueAfter, StateInv
<1>4. StateInv' BY <1>1, <1>3 DEF StateInv
<1>5. CopyInv' BY <1>1 DEF CopyInv
<1> QED BY <1>2, <1>4, <1>5

\* A write that fails changes no tile.
LEMMA FailureKeepsInv ==
    ASSUME TileInv, UpdateConflict \/ UpdateError
    PROVE  TileInv'
<1> USE DEF TileInv
<1>0. outdated' \in BOOLEAN
  BY DEF UpdateConflict, UpdateError, CopyInv
<1>1. errors' \in 0..MaxErrors
  BY InfoTileAssumption DEF InfoTileAssumption, UpdateConflict, UpdateError, StateInv
<1>2. /\ pc' = "idle" /\ queue' = [queue EXCEPT ![cur] = "ready"]
      /\ UNCHANGED <<obj, cache, behind, backend, due, cur, copy, wrote, notify, shown>>
  BY DEF UpdateConflict, UpdateError
<1> QED BY <1>0, <1>1, <1>2 DEF StateInv, CacheInv, CopyInv

\* The timer of the queue, and a browser that fetches the dashboard.
LEMMA TimerAndBrowserKeepInv ==
    ASSUME TileInv, BrowserRefresh \/ \E t \in Tiles : IntervalPasses(t)
    PROVE  TileInv'
<1> USE DEF TileInv
<1>1. CASE BrowserRefresh
  <2>1. shown' \in [Tiles -> Contents]
    <3>1. \A t \in Tiles : (IF cache[t].exists THEN cache[t].content ELSE <<>>) \in Contents
      BY Fields DEF CacheInv, Contents
    <3> QED BY <1>1, <3>1 DEF BrowserRefresh
  <2> QED BY <1>1, <2>1 DEF BrowserRefresh, StateInv, CacheInv, CopyInv
<1>2. ASSUME NEW t \in Tiles, IntervalPasses(t) PROVE TileInv'
  <2>1. wrote' \in [Tiles -> BOOLEAN]
    BY <1>2, Zenon DEF IntervalPasses
  <2>2. queue' \in [Tiles -> {"none", "delayed", "ready"}] /\ due' \in [Tiles -> BOOLEAN]
    BY <1>2 DEF IntervalPasses, StateInv
  <2> QED BY <1>2, <2>1, <2>2 DEF IntervalPasses, StateInv, CacheInv, CopyInv
<1> QED BY <1>1, <1>2

\* A controller that was just started.
LEMMA TileInvInit == Init => TileInv
<1> SUFFICES ASSUME Init PROVE TileInv
  OBVIOUS
<1>1. PICK s \in Specs : obj = [t \in Tiles |-> [exists |-> TRUE, spec |-> s,
                                  content |-> <<>>, lastError |-> FALSE]]
  BY DEF Init
<1>2. [exists |-> TRUE, spec |-> s, content |-> <<>>, lastError |-> FALSE] \in Object
  BY DEF Object, Contents
<1>3. obj \in [Tiles -> Object]
  BY <1>1, <1>2
<1>4. CacheInv
  <2>1. behind \in [Tiles -> Seq(Object)] /\ \A t \in Tiles : behind[t] = <<>>
    BY DEF Init
  <2>2. \A t \in Tiles : Len(behind[t]) <= MaxBehind + 1
    BY <2>1, EmptySeq, InfoTileAssumption DEF InfoTileAssumption
  <2> QED BY <1>3, <2>1, <2>2 DEF Init, CacheInv
<1>5. CopyInv
  BY <1>3 DEF Init, CopyInv
<1>6. StateInv
  <2>1. due \in [Tiles -> BOOLEAN] /\ wrote \in [Tiles -> BOOLEAN]
    BY Zenon DEF Init
  <2>2. shown \in [Tiles -> Contents]
    BY DEF Init, Contents
  <2>3. backend \in [Tiles -> Answers \cup {"down"}]
    BY DEF Init
  <2>4. queue \in [Tiles -> {"none", "delayed", "ready"}]
    BY DEF Init
  <2>5. errors \in 0..MaxErrors
    BY InfoTileAssumption DEF InfoTileAssumption, Init
  <2> QED BY <2>1, <2>2, <2>3, <2>4, <2>5 DEF StateInv, Init
<1> QED BY <1>4, <1>5, <1>6 DEF TileInv

\* Every step keeps the invariant.
LEMMA TileInvStep == TileInv /\ [Next]_vars => TileInv'
<1> SUFFICES ASSUME TileInv, [Next]_vars PROVE TileInv'
  OBVIOUS
<1>1. CASE UNCHANGED vars
  BY <1>1 DEF vars, TileInv, StateInv, CacheInv, CopyInv
<1> QED BY <1>1, WorldKeepsInv, DeliverKeepsInv, GetKeepsInv, RenderKeepsInv, UpdateKeepsInv,
           FailureKeepsInv, TimerAndBrowserKeepInv DEF Next, Reconcile

-----------------------------------------------------------------------------
\* The invariant holds throughout.
THEOREM TileInvariant == Spec => []TileInv
BY TileInvInit, TileInvStep, PTL DEF Spec

\* Tiles, cache and copy keep their type, and the cache is never more than one
\* version further behind than users may write: the reconciler's own writes
\* succeed only when it has caught up.
THEOREM TypeCorrect == Spec => []TypeOK
<1>1. TileInv => TypeOK
  <2> SUFFICES ASSUME TileInv PROVE TypeOK
    OBVIOUS
  <2>1. \A t \in Tiles : \A i \in 1..Len(behind[t]) : behind[t][i] \in Object
    <3> TAKE t \in Tiles
    <3>1. behind[t] \in Seq(Object)
      BY DEF TileInv, CacheInv
    <3> QED BY <3>1, ElementOfSeq
  <2> QED BY <2>1 DEF TileInv, StateInv, CacheInv, CopyInv, TypeOK
<1> QED BY <1>1, TileInvariant, PTL

\* Whatever users do to a tile while its backend is asked, content is only ever
\* stored next to the spec it was rendered from (Reconcile, with the
\* resourceVersion of Status().Update).
THEOREM ContentsMatchSpecs == Spec => ContentMatchesSpec
<1> DEFINE Kept == \A t \in Tiles : obj[t].exists /\ obj'[t].exists
                        /\ obj'[t].content # obj[t].content
                          => obj'[t].content = <<>> \/ obj'[t].content[1] = obj[t].spec
<1>1. TileInv /\ [Next]_vars => [Kept]_vars
  <2> SUFFICES ASSUME TileInv, Next PROVE Kept
    OBVIOUS
  <2>0. obj \in [Tiles -> Object]
    BY DEF TileInv, CacheInv
  <2>1. ASSUME NEW t \in Tiles, NEW o \in Object, UserWrite(t, o),
               ~obj[t].exists \/ ~o.exists \/ o.content = obj[t].content
        PROVE  Kept
    BY <2>0, <2>1 DEF UserWrite, Store
  <2>2. CASE World
    <3>1. ASSUME NEW t \in Tiles, NEW s \in Specs, EditSpec(t, s) PROVE Kept
      <4>1. [obj[t] EXCEPT !.spec = s] \in Object
            /\ [obj[t] EXCEPT !.spec = s].content = obj[t].content
        BY <2>0 DEF Object
      <4> QED BY <2>1, <3>1, <4>1 DEF EditSpec
    <3>2. ASSUME NEW t \in Tiles, NEW s \in Specs, Create(t, s) PROVE Kept
      <4>1. [exists |-> TRUE, spec |-> s, content |-> <<>>, lastError |-> FALSE] \in Object
        BY DEF Object, Contents
      <4> QED BY <2>1, <3>2, <4>1 DEF Create
    <3>3. ASSUME NEW t \in Tiles, Delete(t) PROVE Kept
      <4>1. [obj[t] EXCEPT !.exists = FALSE] \in Object
            /\ ~[obj[t] EXCEPT !.exists = FALSE].exists
        BY <2>0 DEF Object
      <4> QED BY <2>1, <3>3, <4>1 DEF Delete
    <3>4. ASSUME NEW t \in Tiles, NEW a \in Answers \cup {"down"}, BackendChanges(t, a)
          PROVE  Kept
      BY <3>4 DEF BackendChanges
    <3>5. CASE SecondPasses
      BY <3>5 DEF SecondPasses
    <3> QED BY <2>2, <3>1, <3>2, <3>3, <3>4, <3>5 DEF World
  <2>3. CASE UpdateStatus
    <3>1. \/ copy.content = obj[cur].content
          \/ \E a \in Answers : copy.content = <<obj[cur].spec, a>>
      BY <2>3 DEF UpdateStatus, TileInv, CopyInv
    <3>2. UNCHANGED obj \/ obj' = [obj EXCEPT ![cur] = WithStatus]
      BY <2>3 DEF UpdateStatus
    <3>3. CASE UNCHANGED obj
      BY <3>3
    <3>4. CASE obj' = [obj EXCEPT ![cur] = WithStatus]
      BY <2>0, <3>1, <3>4, WrittenTile
    <3> QED BY <3>2, <3>3, <3>4
  <2>4. CASE UNCHANGED obj
    BY <2>4
  <2>5. World \/ UpdateStatus \/ UNCHANGED obj
    BY DEF Next, Reconcile, BrowserRefresh, Deliver, IntervalPasses, Get, RenderOK,
           RenderError, UpdateConflict, UpdateError
  <2> QED BY <2>2, <2>3, <2>4, <2>5
<1> QED BY <1>1, TileInvariant, PTL DEF Spec, ContentMatchesSpec

==============================================================================

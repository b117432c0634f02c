------------------------- MODULE InfoTileController -------------------------
(***************************************************************************)
(* internal/controller/dashboard/infotile_controller.go: the reconciler    *)
(* that fetches and renders InfoTiles, with the informer cache it and the  *)
(* dashboard read from, and the path of a rendered tile to an open browser *)
(* (DashboardNotifier, then a refetch of the dashboard).                   *)
(*                                                                         *)
(* There is one worker for all tiles.  Time is abstracted: a queue entry   *)
(* is absent, delayed by RequeueAfter, or ready, and due[t] says whether   *)
(* the interval has passed since the last fetch of t was started.  A       *)
(* status write that changes nothing creates no new version; as            *)
(* LastFetchedAt has a resolution of one second, a write changes something *)
(* unless it falls into the second of the previous one.                    *)
(***************************************************************************)
EXTENDS Integers, Sequences, FiniteSets

CONSTANTS
    Tiles,
    Specs,         \* specs a user may give a tile
    Answers,       \* what a backend may answer; rendering depends on both
    Responsive,    \* tiles whose backends are assumed to answer in the end
    MaxBehind,     \* bound: users write only while the cache is less behind
    MaxErrors      \* bound: failed status writes other than conflicts

ASSUME InfoTileAssumption ==
    /\ Responsive \subseteq Tiles
    /\ MaxBehind \in Nat /\ MaxErrors \in Nat

VARIABLES
    obj,        \* the tiles in the API server
    cache,      \* the informer cache
    behind,     \* per tile, stored versions that the cache has not seen yet
    backend,    \* what the backend of each tile would answer now
    queue,      \* per tile: "none", "delayed" or "ready"
    due,        \* per tile: its interval has passed since the last fetch
    pc, cur,    \* the worker, and the tile it is working on
    copy,       \* the local variable tile
    outdated,   \* the stored tile is newer than the copy
    wrote,      \* per tile: the last status write was in the current second
    notify,     \* the notifier owes its clients a ping
    shown,      \* what an open browser shows of each tile
    errors

vars == <<obj, cache, behind, backend, queue, due, pc, cur, copy, outdated,
          wrote, notify, shown, errors>>

\* Empty, or rendered from a spec and an answer.
Contents == {<<>>} \cup (Specs \X Answers)

Object == [exists : BOOLEAN, spec : Specs, content : Contents, lastError : BOOLEAN]

TypeOK ==
    /\ obj \in [Tiles -> Object] /\ cache \in [Tiles -> Object]
    /\ copy \in Object
    /\ \A t \in Tiles : /\ Len(behind[t]) <= MaxBehind + 1
                        /\ \A i \in 1..Len(behind[t]) : behind[t][i] \in Object
    /\ backend \in [Tiles -> Answers \cup {"down"}]
    /\ queue \in [Tiles -> {"none", "delayed", "ready"}]
    /\ due \in [Tiles -> BOOLEAN]
    /\ pc \in {"idle", "fetch", "update"} /\ cur \in Tiles
    /\ outdated \in BOOLEAN /\ notify \in BOOLEAN
    /\ wrote \in [Tiles -> BOOLEAN]
    /\ shown \in [Tiles -> Contents]
    /\ errors \in 0..MaxErrors

Init ==
    /\ \E s \in Specs : obj = [t \in Tiles |-> [exists |-> TRUE, spec |-> s,
                                 content |-> <<>>, lastError |-> FALSE]]
    /\ cache = obj
    /\ behind = [t \in Tiles |-> <<>>]
    /\ \E a \in Answers : backend = [t \in Tiles |-> a]
    /\ queue = [t \in Tiles |-> "ready"]
    /\ due = [t \in Tiles |-> TRUE]
    /\ pc = "idle"
    /\ cur \in Tiles
    /\ copy = obj[cur]
    /\ outdated = FALSE
    /\ wrote = [t \in Tiles |-> FALSE]
    /\ notify = FALSE
    /\ shown = [t \in Tiles |-> <<>>]
    /\ errors = 0

-----------------------------------------------------------------------------
(* The API server, its users, the informer, the queue's timer, the clock   *)
(* and the backends (external).                                            *)

Store(t, o) ==
    /\ obj' = [obj EXCEPT ![t] = o]
    /\ behind' = [behind EXCEPT ![t] = Append(@, o)]
    /\ outdated' = (outdated \/ (t = cur /\ pc # "idle"))

UserWrite(t, o) ==
    /\ Len(behind[t]) < MaxBehind
    /\ Store(t, o)
    /\ UNCHANGED <<cache, backend, queue, due, pc, cur, copy, wrote, notify,
                   shown, errors>>

EditSpec(t, s) ==
    /\ obj[t].exists /\ s # obj[t].spec
    /\ UserWrite(t, [obj[t] EXCEPT !.spec = s])

Delete(t) ==
    /\ obj[t].exists
    /\ UserWrite(t, [obj[t] EXCEPT !.exists = FALSE])

Create(t, s) ==
    /\ ~obj[t].exists
    /\ UserWrite(t, [exists |-> TRUE, spec |-> s, content |-> <<>>, lastError |-> FALSE])

\* For(&InfoTile{}) without predicates: every event, the reconciler's own
\* status writes included, makes the entry ready.
Deliver(t) ==
    /\ behind[t] # <<>>
    /\ cache' = [cache EXCEPT ![t] = Head(behind[t])]
    /\ behind' = [behind EXCEPT ![t] = Tail(@)]
    /\ queue' = [queue EXCEPT ![t] = "ready"]
    /\ UNCHANGED <<obj, backend, due, pc, cur, copy, outdated, wrote, notify,
                   shown, errors>>

BackendChanges(t, a) ==
    /\ a # backend[t]
    /\ backend' = [backend EXCEPT ![t] = a]
    /\ UNCHANGED <<obj, cache, behind, queue, due, pc, cur, copy, outdated,
                   wrote, notify, shown, errors>>

\* The interval passes; RequeueAfter was asked for after the fetch started.
IntervalPasses(t) ==
    /\ queue[t] = "delayed" \/ ~due[t]
    /\ due' = [due EXCEPT ![t] = TRUE]
    /\ queue' = [queue EXCEPT ![t] = IF @ = "delayed" THEN "ready" ELSE @]
    /\ wrote' = [t2 \in Tiles |-> FALSE]
    /\ UNCHANGED <<obj, cache, behind, backend, pc, cur, copy, outdated, notify,
                   shown, errors>>

SecondPasses ==
    /\ \E t \in Tiles : wrote[t]
    /\ wrote' = [t \in Tiles |-> FALSE]
    /\ UNCHANGED <<obj, cache, behind, backend, queue, due, pc, cur, copy,
                   outdated, notify, shown, errors>>

\* The notifier pings and the browser fetches the dashboard, which is
\* collected from the cache (collectInfoTiles).
BrowserRefresh ==
    /\ notify
    /\ notify' = FALSE
    /\ shown' = [t \in Tiles |-> IF cache[t].exists THEN cache[t].content ELSE <<>>]
    /\ UNCHANGED <<obj, cache, behind, backend, queue, due, pc, cur, copy,
                   outdated, wrote, errors>>

-----------------------------------------------------------------------------
(* Reconcile.                                                              *)

\* r.Get, the early return for a deleted tile, and the request of
\* renderContent is sent.
Get(t) ==
    /\ pc = "idle"
    /\ queue[t] = "ready"
    /\ queue' = [queue EXCEPT ![t] = "none"]
    /\ IF cache[t].exists
         THEN /\ copy' = cache[t]
              /\ cur' = t
              /\ outdated' = (behind[t] # <<>>)
              /\ due' = [due EXCEPT ![t] = FALSE]
              /\ pc' = "fetch"
         ELSE UNCHANGED <<copy, cur, outdated, due, pc>>
    /\ UNCHANGED <<obj, cache, behind, backend, wrote, notify, shown, errors>>

\* The cached content is compared only to decide about Notify.
FaultRenderFromStored ==
    /\ pc = "fetch"
    /\ backend[cur] # "down"
    /\ LET content == <<copy.spec, backend[cur]>> IN
       /\ copy' = [copy EXCEPT !.lastError = FALSE,
                               !.content = IF @ = <<>> THEN content ELSE @]
       /\ notify' = (notify \/ content # copy.content)
    /\ pc' = "update"
    /\ UNCHANGED <<obj, cache, behind, backend, queue, due, cur, outdated,
                   wrote, shown, errors>>

\* doHTTPRequest and the template succeed.  Notify is called before the
\* status is written.
RenderOK ==
    /\ pc = "fetch"
    /\ backend[cur] # "down"
    /\ LET content == <<copy.spec, backend[cur]>> IN
       /\ copy' = [copy EXCEPT !.lastError = FALSE, !.content = content]
       /\ notify' = (notify \/ content # copy.content)
    /\ pc' = "update"
    /\ UNCHANGED <<obj, cache, behind, backend, queue, due, cur, outdated,
                   wrote, shown, errors>>

\* The request or the template fails: the old content is kept.
RenderError ==
    /\ pc = "fetch"
    /\ backend[cur] = "down"
    /\ copy' = [copy EXCEPT !.lastError = TRUE]
    /\ pc' = "update"
    /\ UNCHANGED <<obj, cache, behind, backend, queue, due, cur, outdated,
                   wrote, notify, shown, errors>>

WithStatus == [obj[cur] EXCEPT !.content = copy.content, !.lastError = copy.lastError]

\* RequeueAfter does not postpone an entry that is ready.
RequeueAfter(t) == [queue EXCEPT ![t] = IF @ = "ready" THEN @ ELSE "delayed"]

\* A status write that does not compare the resourceVersion.
FaultUpdateUnconditionally ==
    /\ pc = "update"
    /\ obj[cur].exists
    /\ obj' = [obj EXCEPT ![cur] = WithStatus]
    /\ behind' = [behind EXCEPT ![cur] = Append(@, WithStatus)]
    /\ wrote' = [wrote EXCEPT ![cur] = TRUE]
    /\ queue' = RequeueAfter(cur)
    /\ pc' = "idle"
    /\ outdated' = FALSE
    /\ UNCHANGED <<cache, backend, due, cur, copy, notify, shown, errors>>

\* Status().Update succeeds.
UpdateStatus ==
    /\ pc = "update"
    /\ ~outdated
    /\ IF WithStatus = obj[cur] /\ wrote[cur]
         THEN UNCHANGED <<obj, behind>>
         ELSE /\ obj' = [obj EXCEPT ![cur] = WithStatus]
              /\ behind' = [behind EXCEPT ![cur] = Append(@, WithStatus)]
    /\ wrote' = [wrote EXCEPT ![cur] = TRUE]
    /\ queue' = RequeueAfter(cur)
    /\ pc' = "idle"
    /\ UNCHANGED <<cache, backend, due, cur, copy, outdated, notify, shown, errors>>

\* A conflict that is logged and not returned.
FaultUpdateConflictSwallowed ==
    /\ pc = "update"
    /\ outdated
    /\ outdated' = FALSE
    /\ pc' = "idle"
    /\ UNCHANGED <<obj, cache, behind, backend, queue, due, cur, copy, wrote,
                   notify, shown, errors>>

\* The tile has changed or is gone: the error is returned and the entry is
\* ready again after a short back-off.
UpdateConflict ==
    /\ pc = "update"
    /\ outdated
    /\ outdated' = FALSE
    /\ queue' = [queue EXCEPT ![cur] = "ready"]
    /\ pc' = "idle"
    /\ UNCHANGED <<obj, cache, behind, backend, due, cur, copy, wrote, notify,
                   shown, errors>>

\* Any other failure of the API server.
UpdateError ==
    /\ pc = "update"
    /\ errors < MaxErrors
    /\ errors' = errors + 1
    /\ queue' = [queue EXCEPT ![cur] = "ready"]
    /\ pc' = "idle"
    /\ UNCHANGED <<obj, cache, behind, backend, due, cur, copy, outdated, wrote,
                   notify, shown>>

-----------------------------------------------------------------------------
World == \/ \E t \in Tiles : \/ \E s \in Specs : EditSpec(t, s) \/ Create(t, s)
                             \/ Delete(t)
                             \/ \E a \in Answers \cup {"down"} : BackendChanges(t, a)
         \/ SecondPasses

Reconcile == \/ \E t \in Tiles : Get(t)
             \/ RenderOK \/ RenderError
             \/ UpdateStatus \/ UpdateConflict \/ UpdateError

Next == \/ World \/ Reconcile \/ BrowserRefresh
        \/ \E t \in Tiles : Deliver(t) \/ IntervalPasses(t)

Spec == Init /\ [][Next]_vars

\* Watches deliver, timers fire, the queue is fair among ready tiles and the
\* notifier keeps its promise (DashboardNotifier).  Only responsive backends
\* answer or fail in the end: the request has no timeout, so the others may
\* leave the worker waiting for ever.
Fairness ==
    /\ WF_vars(BrowserRefresh)
    /\ WF_vars(UpdateStatus) /\ WF_vars(UpdateConflict)
    /\ WF_vars(SecondPasses)
    /\ \A t \in Tiles : /\ WF_vars(Deliver(t)) /\ WF_vars(IntervalPasses(t))
                        /\ SF_vars(Get(t))
                        /\ t \in Responsive =>
                             WF_vars(cur = t /\ (RenderOK \/ RenderError))

FairSpec == Spec /\ Fairness

-----------------------------------------------------------------------------
\* Content is stored only next to the spec it was rendered from, and never
\* over a newer version: a status write keeps the stored spec, and new content
\* carries that spec (Reconcile 75-97).
ContentMatchesSpec ==
    [][\A t \in Tiles : obj[t].exists /\ obj'[t].exists
                        /\ obj'[t].content # obj[t].content
                          => obj'[t].content = <<>> \/ obj'[t].content[1] = obj[t].spec]_vars

\* When its spec and its backend's answer settle, a tile with a responsive
\* backend ends up stored as rendered from them, whatever conflicts and failed
\* writes came before.
SettledTileRendered ==
    \A t \in Responsive : \A s \in Specs, a \in Answers :
        <>[](obj[t].exists /\ obj[t].spec = s /\ backend[t] = a)
            => []<>(obj[t].content = <<s, a>>)

\* Documentation (infotile_controller.go:44, "DashboardNotifyFunc is called
\* after a tile's content is updated so the dashboard WebSocket clients
\* receive a live-update push").  Does not hold: Notify comes before the
\* write, and a refresh between the two leaves the browser with old content
\* and no ping to come.
BrowserFollowsContent ==
    pc = "idle" /\ ~notify
        => \A t \in Tiles : cache[t].exists /\ behind[t] = <<>>
                              => shown[t] = cache[t].content

\* Documentation (infotile_types.go:56, "Interval controls how often the
\* controller re-fetches httpRequest").  Does not hold: the event of the
\* reconciler's own status write starts the next fetch at once.
FetchOnlyWhenDue ==
    [][\A t \in Tiles : (pc = "idle" /\ pc' = "fetch" /\ cur' = t) => due[t]]_vars

=============================================================================

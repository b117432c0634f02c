------------------------- MODULE BookmarkController -------------------------
(***************************************************************************)
(* internal/controller/dashboard/bookmark_controller.go: one Bookmark, its *)
(* reconciler and the informer cache through which the reconciler and the  *)
(* dashboard (web/dashboard.go, collectBookmarkGroups) read it.            *)
(*                                                                         *)
(* Reconcile reads the cached object, probes its URL when the last probe   *)
(* is urlCheckInterval old, and writes the status with the resourceVersion *)
(* it has read, so the API server refuses the write when the object has    *)
(* changed meanwhile.  Users edit, delete and re-create the object at any  *)
(* time; the cache follows the stored object one version at a time.  Every *)
(* event enqueues the object, whatever it changed.                         *)
(*                                                                         *)
(* checkedURL and checkedSpec are history: what the last recorded probe    *)
(* was sent to, and the spec it was computed from.                         *)
(***************************************************************************)
EXTENDS ControllerRuntime, Sequences

CONSTANTS
    URLs,          \* targets, of spec.url and of the hosts of an Ingress
    NoURL,         \* the empty string
    Interval,      \* urlCheckInterval
    MaxEdits,      \* bound: user operations on the object
    MaxErrors,     \* bound: failed status writes other than conflicts, restarts
    MaxTime,       \* bound on the clock, for a reconciler that keeps up
    MaxTimeLate    \* bound on the clock, for one that may lag behind

ASSUME BookmarkAssumption ==
    /\ NoURL \notin URLs
    /\ Interval \in Nat \ {0}
    /\ MaxEdits \in Nat /\ MaxErrors \in Nat /\ MaxTime \in Nat
    /\ MaxTimeLate \in Nat

\* spec.url, or spec.urlFrom naming an Ingress or any other kind of object.
Specs == [url : URLs, urlFrom : {"nil"}]
           \cup [url : {NoURL}, urlFrom : {"nil", "ingressRef", "otherRef"}]

VARIABLES
    now,
    obj,        \* the object in the API server
    cache,      \* the version the informer cache holds
    behind,     \* stored versions that the cache has not seen yet
    queue,      \* when the object's queue entry is ready, or Never
    pc,         \* where Reconcile is
    copy,       \* the local variable bookmark
    edits, errors,
    editedAt,   \* history: when the spec ceased to be the one last probed
    prompt      \* chosen once: time passes only when no work is due

vars == <<now, obj, cache, behind, queue, pc, copy, edits, errors, editedAt,
          prompt>>

Times == Nat \cup {Never}

Object == [exists : BOOLEAN, rv : Nat, spec : Specs, lastURLCheckAt : Times,
           urlReachable : {"nil", "false", "true"}, lastSyncedAt : Times,
           checkedURL : URLs \cup {NoURL}, checkedSpec : Specs]

\* The *bool and *Time of the status are set together.
StatusPaired(o) == o.urlReachable = "nil" <=> o.lastURLCheckAt = Never

TypeOK ==
    /\ now \in Nat
    /\ StatusPaired(obj) /\ StatusPaired(cache)
    /\ obj \in Object /\ cache \in Object /\ copy \in Object
    /\ behind \in Seq(Object)
    /\ queue \in Times
    /\ pc \in {"idle", "check", "update"}
    /\ edits \in Nat /\ errors \in Nat /\ editedAt \in Nat
    /\ prompt \in BOOLEAN

\* An object that was just created with spec s.
NewObject(s, rv) ==
    [exists |-> TRUE, rv |-> rv, spec |-> s, lastURLCheckAt |-> Never,
     urlReachable |-> "nil", lastSyncedAt |-> Never,
     checkedURL |-> NoURL, checkedSpec |-> s]

\* The manager starts with the object stored and listed into the cache.
Init ==
    /\ now = 0
    /\ \E s \in Specs : obj = NewObject(s, 0)
    /\ cache = obj
    /\ copy = obj
    /\ behind = <<>>
    /\ queue = 0
    /\ pc = "idle"
    /\ edits = 0 /\ errors = 0
    /\ editedAt = 0
    /\ prompt \in BOOLEAN

-----------------------------------------------------------------------------
(* The API server, its users and the informer (external).                  *)

Store(o) == obj' = o /\ behind' = Append(behind, o)

Edit(s) ==
    /\ edits < MaxEdits
    /\ obj.exists /\ s # obj.spec
    /\ Store([obj EXCEPT !.rv = @ + 1, !.spec = s])
    /\ edits' = edits + 1
    /\ editedAt' = IF obj.checkedSpec = obj.spec THEN now ELSE editedAt
    /\ UNCHANGED <<now, cache, queue, pc, copy, errors, prompt>>

\* An update that leaves url and urlFrom alone: of the name, the icon, the
\* group, a label or an annotation.
Touch ==
    /\ edits < MaxEdits
    /\ obj.exists
    /\ Store([obj EXCEPT !.rv = @ + 1])
    /\ edits' = edits + 1
    /\ UNCHANGED <<now, cache, queue, pc, copy, errors, editedAt, prompt>>

Delete ==
    /\ edits < MaxEdits
    /\ obj.exists
    /\ Store([obj EXCEPT !.rv = @ + 1, !.exists = FALSE])
    /\ edits' = edits + 1
    /\ UNCHANGED <<now, cache, queue, pc, copy, errors, editedAt, prompt>>

Create(s) ==
    /\ edits < MaxEdits
    /\ ~obj.exists
    /\ Store(NewObject(s, obj.rv + 1))
    /\ edits' = edits + 1
    /\ editedAt' = now
    /\ UNCHANGED <<now, cache, queue, pc, copy, errors, prompt>>

\* For(&Bookmark{}) without predicates: every event enqueues the object.
Deliver ==
    /\ behind # <<>>
    /\ cache' = Head(behind)
    /\ behind' = Tail(behind)
    /\ queue' = AddAt(queue, now)
    /\ UNCHANGED <<now, obj, pc, copy, edits, errors, editedAt, prompt>>

\* The manager is restarted: a running Reconcile ends, the queue is lost, and
\* the first list of the informer enqueues the object.
Restart ==
    /\ errors < MaxErrors
    /\ errors' = errors + 1
    /\ pc' = "idle"
    /\ cache' = obj /\ behind' = <<>>
    /\ queue' = IF obj.exists THEN now ELSE Never
    /\ UNCHANGED <<now, obj, copy, edits, editedAt, prompt>>

-----------------------------------------------------------------------------
(* Reconcile.                                                              *)

\* A check that is never repeated.
FaultNeedsURLCheckOnce(o) == o.lastURLCheckAt = Never

NeedsURLCheck(o) ==
    o.lastURLCheckAt = Never \/ now - o.lastURLCheckAt >= Interval

\* r.Get, the early return for a deleted object, and needsURLCheck.
Get ==
    /\ pc = "idle"
    /\ Ready(queue, now)
    /\ queue' = Never
    /\ IF cache.exists
         THEN /\ copy' = cache
              /\ pc' = IF NeedsURLCheck(cache) THEN "check" ELSE "update"
         ELSE UNCHANGED <<copy, pc>>
    /\ UNCHANGED <<now, obj, cache, behind, edits, errors, editedAt, prompt>>

\* resolveAndCheckURL up to the request: spec.url, or the host of the
\* referenced Ingress; NoURL when there is none or nothing resolves it.
ResolveURL(spec, ingressHost) ==
    CASE spec.url # NoURL -> spec.url
      [] spec.urlFrom = "ingressRef" -> ingressHost
      [] OTHER -> NoURL

\* HEAD, and GET when HEAD fails or is answered 405; a status below 400 is
\* reachable.  site is how the target answers: "noHead" serves GET only.
Reachable(url, site) ==
    LET head == CASE site = "ok" -> "ok"
                  [] site \in {"noHead", "down"} -> "retry"
                  [] site = "error" -> "bad"
        get  == IF site \in {"ok", "noHead"} THEN "ok" ELSE "bad"
    IN url # NoURL /\ (head = "ok" \/ (head = "retry" /\ get = "ok"))

\* The verdict is only stored when the probe returns no error.
FaultCheckURLKeepsVerdict ==
    /\ pc = "check"
    /\ \E ingressHost \in URLs \cup {NoURL}, site \in {"ok", "noHead", "error", "down"} :
         LET url == ResolveURL(copy.spec, ingressHost) IN
         copy' = [copy EXCEPT !.lastURLCheckAt = now,
                              !.urlReachable = IF Reachable(url, site)
                                                 THEN "true" ELSE @,
                              !.checkedURL = url,
                              !.checkedSpec = copy.spec]
    /\ pc' = "update"
    /\ UNCHANGED <<now, obj, cache, behind, queue, edits, errors, editedAt, prompt>>

CheckURL ==
    /\ pc = "check"
    /\ \E ingressHost \in URLs \cup {NoURL}, site \in {"ok", "noHead", "error", "down"} :
         LET url == ResolveURL(copy.spec, ingressHost) IN
         copy' = [copy EXCEPT !.lastURLCheckAt = now,
                              !.urlReachable = IF Reachable(url, site)
                                                 THEN "true" ELSE "false",
                              !.checkedURL = url,
                              !.checkedSpec = copy.spec]
    /\ pc' = "update"
    /\ UNCHANGED <<now, obj, cache, behind, queue, edits, errors, editedAt, prompt>>

\* The stored object with the status of the copy.
WithStatus == [obj EXCEPT !.lastURLCheckAt = copy.lastURLCheckAt,
                          !.urlReachable = copy.urlReachable,
                          !.lastSyncedAt = now,
                          !.checkedURL = copy.checkedURL,
                          !.checkedSpec = copy.checkedSpec]

\* A status update that ignores the resourceVersion that was read.
FaultUpdateUnconditionally ==
    /\ pc = "update"
    /\ obj.exists
    /\ Store([WithStatus EXCEPT !.rv = @ + 1])
    /\ queue' = AddAt(queue, now + Interval)
    /\ pc' = "idle"
    /\ UNCHANGED <<now, cache, copy, edits, errors, editedAt, prompt>>

\* A result without RequeueAfter.
FaultUpdateWithoutRequeue ==
    /\ pc = "update"
    /\ obj.exists /\ copy.rv = obj.rv
    /\ IF WithStatus = obj
         THEN UNCHANGED <<obj, behind>>
         ELSE Store([WithStatus EXCEPT !.rv = @ + 1])
    /\ pc' = "idle"
    /\ UNCHANGED <<now, cache, queue, copy, edits, errors, editedAt, prompt>>

\* Status().Update succeeds; a write that changes nothing makes no version.
UpdateStatus ==
    /\ pc = "update"
    /\ obj.exists /\ copy.rv = obj.rv
    /\ IF WithStatus = obj
         THEN UNCHANGED <<obj, behind>>
         ELSE Store([WithStatus EXCEPT !.rv = @ + 1])
    /\ queue' = AddAt(queue, now + Interval)
    /\ pc' = "idle"
    /\ UNCHANGED <<now, cache, copy, edits, errors, editedAt, prompt>>

\* Status().Update fails: the copy is outdated, or the object is gone.  The
\* error is returned and the object is queued again after a short back-off.
UpdateConflict ==
    /\ pc = "update"
    /\ ~obj.exists \/ copy.rv # obj.rv
    /\ queue' = AddAt(queue, now)
    /\ pc' = "idle"
    /\ UNCHANGED <<now, obj, cache, behind, copy, edits, errors, editedAt, prompt>>

\* Any other failure of the API server.
UpdateError ==
    /\ pc = "update"
    /\ errors < MaxErrors
    /\ errors' = errors + 1
    /\ queue' = AddAt(queue, now)
    /\ pc' = "idle"
    /\ UNCHANGED <<now, obj, cache, behind, copy, edits, editedAt, prompt>>

Horizon == IF prompt THEN MaxTime ELSE MaxTimeLate

Tick ==
    /\ now < Horizon
    /\ prompt => pc = "idle" /\ behind = <<>> /\ ~Ready(queue, now)
    /\ now' = now + 1
    /\ UNCHANGED <<obj, cache, behind, queue, pc, copy, edits, errors, editedAt,
                   prompt>>

\* The clock has reached its bound.
Done == now = Horizon /\ UNCHANGED vars

User == Delete \/ Touch \/ \E s \in Specs : Edit(s) \/ Create(s)

Reconcile == Get \/ CheckURL \/ UpdateStatus \/ UpdateConflict \/ UpdateError

Next == User \/ Deliver \/ Restart \/ Reconcile \/ Tick \/ Done

Spec == Init /\ [][Next]_vars

-----------------------------------------------------------------------------
(* What the dashboard makes of the cached object: only a Bookmark whose    *)
(* status says reachable becomes a link, and the link is spec.url.         *)

Shown(o) == o.exists /\ o.urlReachable = "true"
LinkURL(o) == o.spec.url

\* A recorded verdict belongs to the spec that is stored with it: whenever a
\* probe result is written, it was computed from the very spec it is written
\* next to, although the probe takes seconds and the spec can change
\* meanwhile (Reconcile 65-84).
VerdictMatchesSpec ==
    [][(obj.exists /\ obj'.exists /\ obj'.lastURLCheckAt # obj.lastURLCheckAt)
         => (obj'.checkedSpec = obj.spec /\ obj'.spec = obj.spec)]_vars

\* The reconciler never loses an existing Bookmark: a queue entry, a running
\* Reconcile or an undelivered event will look at it again, whatever writes
\* failed (Reconcile 57-61, 84-89).
NeverAbandoned ==
    obj.exists => queue # Never \/ pc # "idle" \/ behind # <<>>

\* With a reconciler that keeps up, an unchanged Bookmark is probed at least
\* every two intervals.  One interval is not guaranteed: an event just before
\* the probe is due moves the entry to now, finds it not yet due, and defers
\* it by a whole interval.
CheckAgeBound ==
    prompt /\ obj.exists /\ obj.lastURLCheckAt # Never
        => now - obj.lastURLCheckAt < 2 * Interval

\* With a reconciler that keeps up, the verdict of an older spec is shown for
\* a new one for less than two intervals after the edit.  One interval is not
\* guaranteed: an update of another field, or a restart, just before the probe
\* is due defers it by a whole interval (Reconcile 65-66, 89).
StaleVerdictBound ==
    prompt /\ Shown(obj) /\ obj.checkedSpec # obj.spec
        => now - editedAt < 2 * Interval

\* Documentation (web/dashboard.go:510, "Only show bookmarks whose URL has
\* been confirmed reachable").  Does not hold: an edit of spec.url keeps the
\* verdict of the old URL until the next probe is due.
ShownURLConfirmed ==
    Shown(cache) /\ LinkURL(cache) # NoURL => cache.checkedURL = LinkURL(cache)

=============================================================================

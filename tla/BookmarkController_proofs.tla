---------------------- MODULE BookmarkController_proofs ----------------------
(***************************************************************************)
(* Proofs about the Bookmark reconciler, for any URLs, any interval and    *)
(* any number of edits, failures and seconds.                              *)
(***************************************************************************)
EXTENDS BookmarkController, SequenceTheorems, TLAPS

\* A version of the object that is or was stored: none is newer than the
\* stored one, and the resourceVersion tells versions apart.
Version(o) ==
    /\ o \in Object /\ StatusPaired(o)
    /\ o.lastURLCheckAt <= now
    /\ o.rv <= obj.rv
    /\ o.rv = obj.rv => o = obj

\* What the cache holds and what is on its way to it are versions, and the
\* stored one comes last.
VersionsInv ==
    /\ behind \in Seq(Object)
    /\ Version(obj) /\ Version(cache)
    /\ \A i \in 1..Len(behind) : Version(behind[i])
    /\ IF behind = <<>> THEN cache = obj ELSE behind[Len(behind)] = obj

\* The copy of a running Reconcile has the stored spec unless the write will
\* be refused, and its status is the stored one or was just computed.
CopyInv ==
    /\ pc \in {"idle", "check", "update"}
    /\ copy \in Object /\ StatusPaired(copy)
    /\ copy.lastURLCheckAt <= now
    /\ copy.rv <= obj.rv
    /\ (pc # "idle" /\ copy.rv = obj.rv) =>
         /\ copy.spec = obj.spec
         /\ \/ /\ copy.lastURLCheckAt = obj.lastURLCheckAt
               /\ copy.checkedSpec = obj.checkedSpec
            \/ copy.checkedSpec = copy.spec
    /\ (prompt /\ pc = "update") =>
         /\ copy.lastURLCheckAt # Never
         /\ now < copy.lastURLCheckAt + Interval

CountInv ==
    /\ now \in Nat /\ edits \in Nat /\ errors \in Nat /\ editedAt \in Nat
    /\ editedAt <= now
    /\ queue \in Times
    /\ prompt \in BOOLEAN

\* The entry of a Bookmark with a verdict is ready, or will be before the
\* verdict is two intervals old.
DueInv ==
    (prompt /\ obj.exists /\ obj.lastURLCheckAt # Never) =>
        \/ queue <= now
        \/ queue < obj.lastURLCheckAt + 2 * Interval

\* The verdict next to the stored spec is that of an older spec.
Stale == obj.exists /\ obj.lastURLCheckAt # Never /\ obj.checkedSpec # obj.spec

\* The verdict of an older spec was there when the spec was changed: what is
\* written later is of the stored spec, or is what was stored before.
StaleInv == Stale => obj.lastURLCheckAt <= editedAt

BookmarkInv == VersionsInv /\ CopyInv /\ CountInv /\ DueInv /\ StaleInv
               /\ NeverAbandoned /\ CheckAgeBound

-----------------------------------------------------------------------------
\* The constants and the fields of an object, as the proofs use them.
LEMMA Fields ==
    /\ Interval \in Nat /\ Interval > 0
    /\ \A o \in Object : o.rv \in Nat /\ o.lastURLCheckAt \in Times /\ o.exists \in BOOLEAN
                         /\ o.spec \in Specs /\ o.checkedSpec \in Specs
    /\ \A t \in Times : t \in Int /\ (t # Never => t \in Nat)
BY BookmarkAssumption DEF BookmarkAssumption, Object, Times, Never

\* What asking for an entry gives: the earlier of the two times.
LEMMA AddAtEarliest ==
    ASSUME NEW q \in Times, NEW t \in Nat
    PROVE  /\ AddAt(q, t) \in Nat /\ AddAt(q, t) \in Times /\ AddAt(q, t) # Never
           /\ AddAt(q, t) <= t
           /\ AddAt(q, t) = t \/ AddAt(q, t) = q
BY DEF AddAt, Times, Never

\* A new object has no verdict.
LEMMA NewObjectFields ==
    ASSUME NEW s \in Specs, NEW rv \in Nat
    PROVE  /\ NewObject(s, rv) \in Object /\ StatusPaired(NewObject(s, rv))
           /\ NewObject(s, rv).rv = rv /\ NewObject(s, rv).spec = s
           /\ NewObject(s, rv).lastURLCheckAt = Never
           /\ NewObject(s, rv).exists = TRUE
<1>1. NewObject(s, rv) \in Object
  BY DEF NewObject, Object, Times
<1> QED BY <1>1 DEF NewObject, StatusPaired

\* The version after the stored one, when a Bookmark is created again.
LEMMA CreatedFields ==
    ASSUME NEW s \in Specs, NEW rv \in Nat
    PROVE  LET o == NewObject(s, rv + 1)
           IN  /\ o \in Object /\ StatusPaired(o) /\ o.rv = rv + 1
               /\ o.lastURLCheckAt = Never
<1>1. PICK n \in Nat : n = rv + 1 OBVIOUS
<1> QED BY <1>1, NewObjectFields

\* What a user's update or deletion leaves of the object.
LEMMA EditedFields ==
    ASSUME NEW o \in Object, NEW rv \in Nat, NEW s \in Specs
    PROVE  /\ [o EXCEPT !.rv = rv, !.spec = s] \in Object
           /\ [o EXCEPT !.rv = rv] \in Object
           /\ [o EXCEPT !.rv = rv, !.exists = FALSE] \in Object
BY DEF Object

\* A controller that was just started.
LEMMA BookmarkInvInit == Init => BookmarkInv
<1> SUFFICES ASSUME Init PROVE BookmarkInv
  OBVIOUS
<1>1. PICK s \in Specs : obj = NewObject(s, 0)
  BY DEF Init
<1>2. /\ obj \in Object /\ StatusPaired(obj) /\ obj.rv = 0 /\ obj.lastURLCheckAt = Never
      /\ now = 0 /\ cache = obj /\ copy = obj /\ behind = <<>> /\ pc = "idle" /\ queue = 0
  <2>1. 0 \in Nat OBVIOUS
  <2>2. /\ NewObject(s, 0) \in Object /\ StatusPaired(NewObject(s, 0))
        /\ NewObject(s, 0).rv = 0 /\ NewObject(s, 0).lastURLCheckAt = Never
    BY <2>1, NewObjectFields, Zenon
  <2>3. now = 0 /\ cache = obj /\ copy = obj /\ behind = <<>> /\ pc = "idle" /\ queue = 0
    BY Zenon DEF Init
  <2> QED BY <1>1, <2>2, <2>3, Zenon
<1>3. VersionsInv
  BY <1>2 DEF VersionsInv, Version, Never
<1>4. CopyInv
  BY <1>2 DEF CopyInv, Never
<1>5. CountInv
  BY DEF Init, CountInv, Times
<1>6. DueInv /\ StaleInv /\ NeverAbandoned /\ CheckAgeBound
  BY <1>2 DEF DueInv, StaleInv, Stale, NeverAbandoned, CheckAgeBound, Never
<1> QED BY <1>3, <1>4, <1>5, <1>6 DEF BookmarkInv

\* A new version is newer than all the others and will reach the cache last.
LEMMA StoreKeepsVersions ==
    ASSUME VersionsInv, NEW o \in Object, StatusPaired(o), o.lastURLCheckAt <= now,
           o.rv = obj.rv + 1, Store(o), UNCHANGED <<now, cache>>
    PROVE  VersionsInv' /\ behind' # <<>>
<1> USE Fields DEF VersionsInv, Store
<1>1. /\ behind' \in Seq(Object) /\ behind' # <<>> /\ Len(behind') = Len(behind) + 1
      /\ \A i \in 1..Len(behind) : behind'[i] = behind[i]
      /\ behind'[Len(behind')] = o /\ Len(behind) \in Nat
  BY AppendProperties, LenProperties
<1>2. ASSUME NEW v, Version(v) PROVE Version(v)'
  BY <1>2 DEF Version
<1>3. Version(obj)' /\ Version(cache)'
  BY <1>2 DEF Version
<1>4. ASSUME NEW i \in 1..Len(behind') PROVE Version(behind[i])'
  <2>1. CASE i \in 1..Len(behind)
    BY <1>1, <1>2, <2>1 DEF Version
  <2>2. CASE i = Len(behind')
    BY <1>1, <1>3, <2>2 DEF Version
  <2> QED BY <1>1, <2>1, <2>2
<1> QED BY <1>1, <1>3, <1>4

\* The copy of a running Reconcile becomes outdated.
LEMMA StoreKeepsCopy ==
    ASSUME VersionsInv, CopyInv, obj' \in Object, obj'.rv = obj.rv + 1,
           UNCHANGED <<now, pc, copy, prompt>>
    PROVE  CopyInv'
BY Fields DEF VersionsInv, CopyInv, Version

-----------------------------------------------------------------------------
\* What users write always leaves an event behind, from which the rest follows.
LEMMA UserKeepsInv ==
    ASSUME BookmarkInv, User
    PROVE  BookmarkInv'
<1> USE Fields DEF BookmarkInv
<1>0. obj \in Object /\ StatusPaired(obj) /\ obj.lastURLCheckAt <= now /\ now \in Nat
  BY DEF VersionsInv, Version, CountInv
<1>1. ASSUME NEW s \in Specs, Edit(s) PROVE BookmarkInv'
  <2> DEFINE o == [obj EXCEPT !.rv = @ + 1, !.spec = s]
  <2>1. /\ o \in Object /\ StatusPaired(o) /\ o.rv = obj.rv + 1
        /\ o.lastURLCheckAt = obj.lastURLCheckAt /\ o.exists = obj.exists
    <3>1. o \in Object
      <4>1. PICK n \in Nat : n = obj.rv + 1 BY <1>0
      <4> QED BY <1>0, <4>1, EditedFields
    <3>2. /\ o.rv = obj.rv + 1 /\ o.lastURLCheckAt = obj.lastURLCheckAt
          /\ o.exists = obj.exists /\ o.urlReachable = obj.urlReachable
      BY <1>0 DEF Object
    <3> QED BY <1>0, <3>1, <3>2 DEF StatusPaired
  <2>2. Store(o) /\ obj' = o
    BY <1>1 DEF Edit, Store
  <2> HIDE DEF o
  <2>3. /\ UNCHANGED <<now, cache, queue, pc, copy, errors, prompt>> /\ edits' \in Nat
        /\ editedAt' = IF obj.checkedSpec = obj.spec THEN now ELSE editedAt
    BY <1>1 DEF Edit, CountInv
  <2>4. VersionsInv' /\ behind' # <<>> BY <1>0, <2>1, <2>2, <2>3, StoreKeepsVersions
  <2>5. CopyInv' BY <2>1, <2>2, <2>3, StoreKeepsCopy
  <2>6. CountInv' BY <1>0, <2>3 DEF CountInv
  <2>7. DueInv' /\ CheckAgeBound' /\ NeverAbandoned'
    BY <2>1, <2>2, <2>3, <2>4 DEF DueInv, CheckAgeBound, NeverAbandoned
  <2>8. StaleInv'
    <3> SUFFICES ASSUME obj'.exists, obj'.lastURLCheckAt # Never
                 PROVE  obj'.lastURLCheckAt <= editedAt'
      BY DEF StaleInv, Stale
    <3>1. obj.exists /\ obj.lastURLCheckAt # Never
      BY <2>1, <2>2
    <3>2. obj.checkedSpec # obj.spec => obj.lastURLCheckAt <= editedAt
      BY <3>1 DEF StaleInv, Stale
    <3> QED BY <1>0, <2>1, <2>2, <2>3, <3>2
  <2> QED BY <2>4, <2>5, <2>6, <2>7, <2>8
<1>2. ASSUME Delete PROVE BookmarkInv'
  <2> DEFINE o == [obj EXCEPT !.rv = @ + 1, !.exists = FALSE]
  <2>1. /\ o \in Object /\ StatusPaired(o) /\ o.rv = obj.rv + 1
        /\ o.lastURLCheckAt = obj.lastURLCheckAt /\ o.exists = FALSE
    <3>1. o \in Object
      <4>1. PICK n \in Nat : n = obj.rv + 1 BY <1>0
      <4> QED BY <1>0, <4>1, EditedFields
    <3>2. /\ o.rv = obj.rv + 1 /\ o.lastURLCheckAt = obj.lastURLCheckAt
          /\ o.exists = FALSE /\ o.urlReachable = obj.urlReachable
      BY <1>0 DEF Object
    <3> QED BY <1>0, <3>1, <3>2 DEF StatusPaired
  <2>2. Store(o) /\ obj' = o
    BY <1>2 DEF Delete, Store
  <2> HIDE DEF o
  <2>3. UNCHANGED <<now, cache, queue, pc, copy, errors, prompt, editedAt>> /\ edits' \in Nat
    BY <1>2 DEF Delete, CountInv
  <2>4. VersionsInv' /\ behind' # <<>> BY <1>0, <2>1, <2>2, <2>3, StoreKeepsVersions
  <2>5. CopyInv' BY <2>1, <2>2, <2>3, StoreKeepsCopy
  <2>6. CountInv' BY <1>0, <2>3 DEF CountInv
  <2>7. DueInv' /\ CheckAgeBound' /\ NeverAbandoned' /\ StaleInv'
    BY <2>1, <2>2 DEF DueInv, CheckAgeBound, NeverAbandoned, StaleInv, Stale
  <2> QED BY <2>4, <2>5, <2>6, <2>7
<1>3. ASSUME NEW s \in Specs, Create(s) PROVE BookmarkInv'
  <2> DEFINE o == NewObject(s, obj.rv + 1)
  <2>1. /\ o \in Object /\ StatusPaired(o) /\ o.rv = obj.rv + 1
        /\ o.lastURLCheckAt = Never
    <3>1. obj.rv \in Nat BY <1>0
    <3> HIDE Fields
    <3> QED BY <3>1, CreatedFields
  <2>2. Store(o) /\ obj' = o
    BY <1>3 DEF Create, Store
  <2> HIDE DEF o
  <2>3. UNCHANGED <<now, cache, queue, pc, copy, errors, prompt>> /\ editedAt' = now
        /\ edits' \in Nat
    BY <1>3 DEF Create, CountInv
  <2>4. VersionsInv' /\ behind' # <<>>
    BY <1>0, <2>1, <2>2, <2>3, StoreKeepsVersions DEF Never
  <2>5. CopyInv' BY <2>1, <2>2, <2>3, StoreKeepsCopy
  <2>6. CountInv' BY <1>0, <2>3 DEF CountInv
  <2>7. DueInv' /\ CheckAgeBound' /\ NeverAbandoned' /\ StaleInv'
    BY <2>1, <2>2, <2>4 DEF DueInv, CheckAgeBound, NeverAbandoned, StaleInv, Stale
  <2> QED BY <2>4, <2>5, <2>6, <2>7
<1>4. ASSUME Touch PROVE BookmarkInv'
  <2> DEFINE o == [obj EXCEPT !.rv = @ + 1]
  <2>1. /\ o \in Object /\ StatusPaired(o) /\ o.rv = obj.rv + 1
        /\ o.lastURLCheckAt = obj.lastURLCheckAt /\ o.exists = obj.exists
        /\ o.spec = obj.spec /\ o.checkedSpec = obj.checkedSpec
    <3>1. o \in Object
      <4>1. PICK n \in Nat : n = obj.rv + 1 BY <1>0
      <4>2. obj.spec \in Specs BY <1>0
      <4> QED BY <1>0, <4>1, <4>2, EditedFields
    <3>2. /\ o.rv = obj.rv + 1 /\ o.lastURLCheckAt = obj.lastURLCheckAt
          /\ o.exists = obj.exists /\ o.urlReachable = obj.urlReachable
          /\ o.spec = obj.spec /\ o.checkedSpec = obj.checkedSpec
      BY <1>0 DEF Object
    <3> QED BY <1>0, <3>1, <3>2 DEF StatusPaired
  <2>2. Store(o) /\ obj' = o
    BY <1>4 DEF Touch, Store
  <2> HIDE DEF o
  <2>3. UNCHANGED <<now, cache, queue, pc, copy, errors, prompt, editedAt>> /\ edits' \in Nat
    BY <1>4 DEF Touch, CountInv
  <2>4. VersionsInv' /\ behind' # <<>> BY <1>0, <2>1, <2>2, <2>3, StoreKeepsVersions
  <2>5. CopyInv' BY <2>1, <2>2, <2>3, StoreKeepsCopy
  <2>6. CountInv' BY <1>0, <2>3 DEF CountInv
  <2>7. DueInv' /\ CheckAgeBound' /\ NeverAbandoned'
    BY <2>1, <2>2, <2>3, <2>4 DEF DueInv, CheckAgeBound, NeverAbandoned
  <2>8. StaleInv' BY <2>1, <2>2, <2>3 DEF StaleInv, Stale
  <2> QED BY <2>4, <2>5, <2>6, <2>7, <2>8
<1> QED BY <1>1, <1>2, <1>3, <1>4 DEF User

\* An event makes the entry ready.
LEMMA DeliverKeepsInv ==
    ASSUME BookmarkInv, Deliver
    PROVE  BookmarkInv'
<1> USE Fields DEF BookmarkInv
<1>1. /\ behind # <<>> /\ cache' = Head(behind) /\ behind' = Tail(behind)
      /\ UNCHANGED <<now, obj, pc, copy, edits, errors, editedAt, prompt>>
  BY DEF Deliver
<1>2. queue' \in Times /\ queue' # Never /\ queue' <= now
  BY AddAtEarliest DEF Deliver, CountInv
<1>3. VersionsInv'
  <2>1. /\ behind \in Seq(Object) /\ Len(behind) \in Nat /\ Len(behind) > 0
        /\ Head(behind) = behind[1] /\ behind' \in Seq(Object)
        /\ Len(behind') = Len(behind) - 1
        /\ \A j \in 1..Len(behind') : behind'[j] = behind[j + 1]
    BY <1>1, HeadTailProperties, LenProperties, EmptySeq DEF VersionsInv
  <2>2. ASSUME NEW v, Version(v) PROVE Version(v)'
    BY <1>1, <2>2 DEF Version
  <2>3. Version(obj)' /\ Version(cache)'
    BY <1>1, <2>1, <2>2 DEF VersionsInv, Version
  <2>4. ASSUME NEW j \in 1..Len(behind') PROVE Version(behind[j])'
    <3>1. Version(behind[j + 1])
      BY <2>1 DEF VersionsInv
    <3> QED BY <1>1, <2>1, <3>1 DEF Version
  <2>5. CASE behind' = <<>>
    <3>1. Len(behind) = 1
      BY <2>1, <2>5, EmptySeq
    <3> QED BY <1>1, <2>1, <2>3, <2>4, <2>5, <3>1 DEF VersionsInv
  <2>6. CASE behind' # <<>>
    <3>1. Len(behind') \in Nat /\ Len(behind') > 0
      BY <2>1, <2>6, EmptySeq
    <3>2. behind'[Len(behind')] = obj'
      BY <1>1, <2>1, <3>1 DEF VersionsInv
    <3> QED BY <2>1, <2>3, <2>4, <2>6, <3>2 DEF VersionsInv
  <2> QED BY <2>5, <2>6
<1>4. CopyInv' BY <1>1 DEF CopyInv
<1>5. CountInv' BY <1>1, <1>2 DEF CountInv
<1>6. DueInv' /\ CheckAgeBound' /\ NeverAbandoned'
  BY <1>1, <1>2 DEF DueInv, CheckAgeBound, NeverAbandoned
<1>7. StaleInv' BY <1>1 DEF StaleInv, Stale
<1> QED BY <1>3, <1>4, <1>5, <1>6, <1>7

\* A Reconcile that begins takes the entry, and the cached object if there is
\* one; a cache without it is behind, or there is none.
LEMMA GetKeepsInv ==
    ASSUME BookmarkInv, Get
    PROVE  BookmarkInv'
<1> USE Fields DEF BookmarkInv
<1>1. /\ pc = "idle" /\ queue' = Never /\ Ready(queue, now)
      /\ UNCHANGED <<now, obj, cache, behind, edits, errors, editedAt, prompt>>
  BY DEF Get
<1>2. VersionsInv' BY <1>1 DEF VersionsInv, Version
<1>3. CountInv' BY <1>1 DEF CountInv, Times
<1>4. DueInv' /\ CheckAgeBound' BY <1>1 DEF DueInv, CheckAgeBound, CountInv, Never
<1>5. CASE cache.exists
  <2>1. copy' = cache /\ pc' = IF NeedsURLCheck(cache) THEN "check" ELSE "update"
    BY <1>5 DEF Get
  <2>2. pc' # "idle" /\ pc' \in {"idle", "check", "update"}
    BY <2>1
  <2>3. CopyInv'
    <3>1. copy' \in Object /\ StatusPaired(copy') /\ copy'.lastURLCheckAt <= now
          /\ copy'.rv <= obj.rv /\ (copy'.rv = obj.rv => copy' = obj)
      BY <2>1 DEF VersionsInv, Version
    <3>2. pc' = "update" => copy'.lastURLCheckAt # Never
                            /\ now < copy'.lastURLCheckAt + Interval
      BY <2>1, <3>1 DEF NeedsURLCheck, CountInv
    <3> QED BY <1>1, <2>2, <3>1, <3>2 DEF CopyInv
  <2>4. NeverAbandoned' BY <2>2 DEF NeverAbandoned
  <2>5. StaleInv' BY <1>1 DEF StaleInv, Stale
  <2> QED BY <1>2, <1>3, <1>4, <2>3, <2>4, <2>5
<1>6. CASE ~cache.exists
  <2>1. UNCHANGED <<copy, pc>>
    BY <1>6 DEF Get
  <2>2. CopyInv' BY <1>1, <2>1 DEF CopyInv
  <2>3. obj.exists => behind # <<>>
    BY <1>6 DEF VersionsInv
  <2>4. NeverAbandoned' /\ StaleInv'
    BY <1>1, <2>1, <2>3 DEF NeverAbandoned, StaleInv, Stale
  <2> QED BY <1>2, <1>3, <1>4, <2>2, <2>4
<1> QED BY <1>5, <1>6

\* A probe gives the copy a verdict of this second on its own spec.
LEMMA CheckKeepsInv ==
    ASSUME BookmarkInv, CheckURL
    PROVE  BookmarkInv'
<1> USE Fields DEF BookmarkInv
<1>1. /\ pc = "check" /\ pc' = "update"
      /\ UNCHANGED <<now, obj, cache, behind, queue, edits, errors, editedAt, prompt>>
  BY DEF CheckURL
<1>2. PICK url \in URLs \cup {NoURL}, v \in {"true", "false"} :
        copy' = [copy EXCEPT !.lastURLCheckAt = now, !.urlReachable = v,
                             !.checkedURL = url, !.checkedSpec = copy.spec]
  <2>1. PICK h \in URLs \cup {NoURL}, site \in {"ok", "noHead", "error", "down"} :
          copy' = [copy EXCEPT !.lastURLCheckAt = now,
                               !.urlReachable = IF Reachable(ResolveURL(copy.spec, h), site)
                                                  THEN "true" ELSE "false",
                               !.checkedURL = ResolveURL(copy.spec, h),
                               !.checkedSpec = copy.spec]
    BY DEF CheckURL
  <2>2. copy.spec.url \in URLs \cup {NoURL}
    BY DEF CopyInv, Object, Specs
  <2>3. ResolveURL(copy.spec, h) \in URLs \cup {NoURL}
    BY <2>2 DEF ResolveURL
  <2> QED BY <2>1, <2>3
<1>3. /\ copy' \in Object /\ StatusPaired(copy') /\ copy'.lastURLCheckAt = now
      /\ copy'.rv = copy.rv /\ copy'.spec = copy.spec /\ copy'.checkedSpec = copy.spec
  <2>1. copy \in Object /\ now \in Nat /\ now \in Times
    BY DEF CopyInv, CountInv, Times
  <2>2. copy' \in Object
    BY <1>2, <2>1 DEF Object
  <2>3. /\ copy'.lastURLCheckAt = now /\ copy'.urlReachable = v
        /\ copy'.rv = copy.rv /\ copy'.spec = copy.spec /\ copy'.checkedSpec = copy.spec
    BY <1>2, <2>1 DEF Object
  <2> QED BY <2>1, <2>2, <2>3 DEF StatusPaired, Never
<1>4. CopyInv' BY <1>1, <1>3 DEF CopyInv, CountInv, Never
<1>5. VersionsInv' /\ CountInv' BY <1>1 DEF VersionsInv, Version, CountInv
<1>6. DueInv' /\ CheckAgeBound' /\ NeverAbandoned'
  BY <1>1 DEF DueInv, CheckAgeBound, NeverAbandoned
<1>7. StaleInv' BY <1>1 DEF StaleInv, Stale
<1> QED BY <1>4, <1>5, <1>6, <1>7

\* The object a status write leaves behind, new version or not.
LEMMA WrittenObject ==
    ASSUME BookmarkInv, UpdateStatus
    PROVE  /\ VersionsInv'
           /\ obj'.rv \in {obj.rv, obj.rv + 1}
           /\ obj'.spec = obj.spec /\ obj'.exists = obj.exists
           /\ obj'.lastURLCheckAt = copy.lastURLCheckAt
           /\ obj'.checkedSpec = copy.checkedSpec
           /\ UNCHANGED <<obj, behind>> \/ behind' # <<>>
<1> USE Fields DEF BookmarkInv
<1>0. obj \in Object /\ copy \in Object /\ now \in Nat /\ now \in Times
  BY DEF VersionsInv, Version, CopyInv, CountInv, Times
<1>1. /\ WithStatus \in Object
      /\ WithStatus.rv = obj.rv /\ WithStatus.spec = obj.spec
      /\ WithStatus.exists = obj.exists
      /\ WithStatus.lastURLCheckAt = copy.lastURLCheckAt
      /\ WithStatus.urlReachable = copy.urlReachable
      /\ WithStatus.checkedSpec = copy.checkedSpec
  BY <1>0 DEF WithStatus, Object
<1>2. UNCHANGED <<now, cache>>
  BY DEF UpdateStatus
<1>3. CASE WithStatus = obj
  <2>1. UNCHANGED <<obj, behind>>
    BY <1>3 DEF UpdateStatus
  <2> QED BY <1>1, <1>2, <1>3, <2>1 DEF VersionsInv, Version
<1>4. CASE WithStatus # obj
  <2> DEFINE o == [WithStatus EXCEPT !.rv = @ + 1]
  <2>1. Store(o) /\ obj' = o
    BY <1>4 DEF UpdateStatus, Store
  <2>2. o \in Object
    <3>1. PICK n \in Nat : n = WithStatus.rv + 1 BY <1>1
    <3> QED BY <1>1, <3>1 DEF Object
  <2>3. /\ o.rv = obj.rv + 1 /\ o.spec = obj.spec /\ o.exists = obj.exists
        /\ o.lastURLCheckAt = copy.lastURLCheckAt /\ o.urlReachable = copy.urlReachable
        /\ o.checkedSpec = copy.checkedSpec
    BY <1>1 DEF Object
  <2> HIDE DEF o
  <2>4. StatusPaired(o) /\ o.lastURLCheckAt <= now
    BY <2>3 DEF CopyInv, StatusPaired
  <2> QED BY <1>2, <2>1, <2>2, <2>3, <2>4, StoreKeepsVersions
<1> QED BY <1>3, <1>4

\* A status write is of a verdict that is not due again, and of the stored
\* spec if it is new.
LEMMA UpdateKeepsInv ==
    ASSUME BookmarkInv, UpdateStatus
    PROVE  BookmarkInv'
<1> USE Fields DEF BookmarkInv
<1>1. /\ pc = "update" /\ pc' = "idle" /\ copy.rv = obj.rv
      /\ queue' = AddAt(queue, now + Interval)
      /\ UNCHANGED <<now, cache, copy, edits, errors, editedAt, prompt>>
  BY DEF UpdateStatus
<1>2. now \in Nat /\ queue \in Times /\ editedAt \in Nat /\ prompt \in BOOLEAN
      /\ obj.rv \in Nat /\ copy.lastURLCheckAt \in Times
  BY DEF CountInv, VersionsInv, Version, CopyInv
<1>3. /\ queue' \in Nat /\ queue' \in Times /\ queue' # Never
      /\ queue' <= now + Interval /\ (queue' = now + Interval \/ queue' = queue)
  <2>1. PICK t \in Nat : t = now + Interval BY <1>2
  <2> QED BY <1>1, <1>2, <2>1, AddAtEarliest
<1>4. VersionsInv' BY WrittenObject
<1>5. CopyInv' BY <1>1, <1>2, WrittenObject DEF CopyInv
<1>6. CountInv' BY <1>1, <1>3 DEF CountInv
<1>7. NeverAbandoned' BY <1>3 DEF NeverAbandoned
<1>8. prompt => copy.lastURLCheckAt # Never /\ now < copy.lastURLCheckAt + Interval
  BY <1>1 DEF CopyInv
<1>9. DueInv' /\ CheckAgeBound'
  <2>1. obj'.lastURLCheckAt = copy.lastURLCheckAt
    BY WrittenObject
  <2>2. prompt => /\ queue' < obj'.lastURLCheckAt + 2 * Interval
                  /\ now - obj'.lastURLCheckAt < 2 * Interval
    <3>1. ASSUME NEW L \in Int, now < L + Interval
          PROVE  queue' < L + 2 * Interval /\ now - L < 2 * Interval
      BY <1>2, <1>3, <3>1
    <3>2. copy.lastURLCheckAt \in Int
      BY <1>2
    <3> QED BY <1>8, <2>1, <3>1, <3>2
  <2> QED BY <1>1, <2>2 DEF DueInv, CheckAgeBound
<1>10. StaleInv'
  <2> SUFFICES ASSUME Stale' PROVE obj'.lastURLCheckAt <= editedAt'
    BY DEF StaleInv
  <2>1. Stale /\ obj'.lastURLCheckAt = obj.lastURLCheckAt
    BY <1>1, WrittenObject DEF Stale, CopyInv
  <2> QED BY <1>1, <2>1 DEF StaleInv
<1> QED BY <1>4, <1>5, <1>6, <1>7, <1>9, <1>10

\* A write that fails makes the entry ready again.
LEMMA FailureKeepsInv ==
    ASSUME BookmarkInv, UpdateConflict \/ UpdateError
    PROVE  BookmarkInv'
<1> USE Fields DEF BookmarkInv
<1>1. /\ pc = "update" /\ pc' = "idle"
      /\ queue' = AddAt(queue, now) /\ errors' \in Nat
      /\ UNCHANGED <<now, obj, cache, behind, copy, edits, editedAt, prompt>>
  BY DEF UpdateConflict, UpdateError, CountInv
<1>2. queue' \in Times /\ queue' # Never /\ queue' <= now
  BY <1>1, AddAtEarliest DEF CountInv
<1>3. VersionsInv' /\ CopyInv' /\ CountInv'
  BY <1>1, <1>2 DEF VersionsInv, Version, CopyInv, CountInv
<1>4. DueInv' /\ CheckAgeBound' /\ NeverAbandoned'
  BY <1>1, <1>2 DEF DueInv, CheckAgeBound, NeverAbandoned
<1>5. StaleInv' BY <1>1 DEF StaleInv, Stale
<1> QED BY <1>3, <1>4, <1>5

\* A restart lists the stored object, or finds none.
LEMMA RestartKeepsInv ==
    ASSUME BookmarkInv, Restart
    PROVE  BookmarkInv'
<1> USE Fields DEF BookmarkInv
<1>1. /\ pc' = "idle" /\ cache' = obj /\ behind' = <<>> /\ errors' \in Nat
      /\ queue' = IF obj.exists THEN now ELSE Never
      /\ UNCHANGED <<now, obj, copy, edits, editedAt, prompt>>
  BY DEF Restart, CountInv
<1>2. now \in Nat /\ queue' \in Times /\ (obj.exists => queue' = now /\ queue' # Never)
  BY <1>1 DEF CountInv, Times, Never
<1>3. VersionsInv'
  BY <1>1 DEF VersionsInv, Version
<1>4. CopyInv'
  BY <1>1 DEF CopyInv
<1>5. CountInv'
  BY <1>1, <1>2 DEF CountInv
<1>6. DueInv' /\ CheckAgeBound' /\ NeverAbandoned'
  BY <1>1, <1>2 DEF DueInv, CheckAgeBound, NeverAbandoned
<1>7. StaleInv' BY <1>1 DEF StaleInv, Stale
<1> QED BY <1>3, <1>4, <1>5, <1>6, <1>7

\* With a reconciler that keeps up, time passes only up to the next entry.
LEMMA TickKeepsInv ==
    ASSUME BookmarkInv, Tick
    PROVE  BookmarkInv'
<1> USE Fields DEF BookmarkInv
<1>1. /\ now' = now + 1 /\ now \in Nat
      /\ UNCHANGED <<obj, cache, behind, queue, pc, copy, edits, errors, editedAt, prompt>>
      /\ prompt => pc = "idle" /\ behind = <<>> /\ ~Ready(queue, now)
  BY DEF Tick, CountInv
<1>2. ASSUME NEW v, Version(v) PROVE Version(v)'
  BY <1>1, <1>2 DEF Version
<1>3. VersionsInv'
  <2>1. Version(obj)' /\ Version(cache)'
    BY <1>1, <1>2 DEF VersionsInv, Version
  <2>2. \A i \in 1..Len(behind) : Version(behind[i])'
    BY <1>1, <1>2 DEF VersionsInv, Version
  <2> QED BY <1>1, <2>1, <2>2 DEF VersionsInv
<1>4. CopyInv' BY <1>1 DEF CopyInv
<1>5. CountInv' BY <1>1 DEF CountInv
<1>6. NeverAbandoned' BY <1>1 DEF NeverAbandoned
<1>7. (prompt /\ obj.exists) => queue \in Nat /\ queue > now
  BY <1>1 DEF NeverAbandoned, Ready, CountInv
<1>8. obj.lastURLCheckAt \in Times /\ editedAt \in Nat
  BY DEF VersionsInv, Version, CountInv
<1>9. DueInv' /\ CheckAgeBound'
  BY <1>1, <1>7, <1>8 DEF DueInv, CheckAgeBound
<1>10. StaleInv' BY <1>1 DEF StaleInv, Stale
<1> QED BY <1>3, <1>4, <1>5, <1>6, <1>9, <1>10

\* Every step keeps the invariant.
LEMMA BookmarkInvStep == BookmarkInv /\ [Next]_vars => BookmarkInv'
<1> SUFFICES ASSUME BookmarkInv, [Next]_vars PROVE BookmarkInv'
  OBVIOUS
<1>1. CASE User BY <1>1, UserKeepsInv
<1>2. CASE Deliver BY <1>2, DeliverKeepsInv
<1>3. CASE Get BY <1>3, GetKeepsInv
<1>4. CASE CheckURL BY <1>4, CheckKeepsInv
<1>5. CASE UpdateStatus BY <1>5, UpdateKeepsInv
<1>6. CASE UpdateConflict \/ UpdateError BY <1>6, FailureKeepsInv
<1>7. CASE Tick BY <1>7, TickKeepsInv
<1>8. CASE Restart BY <1>8, RestartKeepsInv
<1>9. CASE UNCHANGED vars
  BY <1>9 DEF vars, BookmarkInv, VersionsInv, Version, CopyInv, CountInv, DueInv, StaleInv,
              Stale, NeverAbandoned, CheckAgeBound
<1> QED BY <1>1, <1>2, <1>3, <1>4, <1>5, <1>6, <1>7, <1>8, <1>9 DEF Next, Reconcile, Done

-----------------------------------------------------------------------------
\* The invariant holds throughout.
THEOREM BookmarkInvariant == Spec => []BookmarkInv
BY BookmarkInvInit, BookmarkInvStep, PTL DEF Spec

\* The object, the cache and the copy keep their type, and the verdict and the
\* time of a check are set together wherever a status is (BookmarkStatus).
THEOREM TypeCorrect == Spec => []TypeOK
<1>1. BookmarkInv => TypeOK
  BY DEF BookmarkInv, VersionsInv, Version, CopyInv, CountInv, TypeOK
<1> QED BY <1>1, BookmarkInvariant, PTL

\* Whatever users do while a probe runs, its result is only ever written next
\* to the spec it was computed from (Reconcile, with the resourceVersion of
\* Status().Update).
THEOREM VerdictsMatchSpecs == Spec => VerdictMatchesSpec
<1>1. BookmarkInv /\ [Next]_vars =>
        [(obj.exists /\ obj'.exists /\ obj'.lastURLCheckAt # obj.lastURLCheckAt)
           => (obj'.checkedSpec = obj.spec /\ obj'.spec = obj.spec)]_vars
  <2> SUFFICES ASSUME BookmarkInv, Next, obj.exists, obj'.exists,
                      obj'.lastURLCheckAt # obj.lastURLCheckAt
               PROVE  obj'.checkedSpec = obj.spec /\ obj'.spec = obj.spec
    OBVIOUS
  <2>1. CASE User
    <3>1. obj \in Object
      BY DEF BookmarkInv, VersionsInv, Version
    <3>2. ASSUME NEW s \in Specs, Edit(s) PROVE FALSE
      <4>1. obj' = [obj EXCEPT !.rv = @ + 1, !.spec = s]
        BY <3>2 DEF Edit, Store
      <4> QED BY <3>1, <4>1 DEF Object
    <3>3. ASSUME Delete PROVE FALSE
      <4>1. obj' = [obj EXCEPT !.rv = @ + 1, !.exists = FALSE]
        BY <3>3 DEF Delete, Store
      <4> QED BY <3>1, <4>1 DEF Object
    <3>4. ASSUME NEW s \in Specs, Create(s) PROVE FALSE
      BY <3>4 DEF Create
    <3>5. ASSUME Touch PROVE FALSE
      <4>1. obj' = [obj EXCEPT !.rv = @ + 1]
        BY <3>5 DEF Touch, Store
      <4> QED BY <3>1, <4>1 DEF Object
    <3> QED BY <2>1, <3>2, <3>3, <3>4, <3>5 DEF User
  <2>2. CASE UpdateStatus
    BY <2>2, WrittenObject DEF UpdateStatus, BookmarkInv, CopyInv
  <2>3. CASE Deliver \/ Restart \/ Get \/ CheckURL \/ UpdateConflict \/ UpdateError
             \/ Tick \/ Done
    BY <2>3 DEF Deliver, Restart, Get, CheckURL, UpdateConflict, UpdateError, Tick, Done, vars
  <2> QED BY <2>1, <2>2, <2>3 DEF Next, Reconcile
<1> QED BY <1>1, BookmarkInvariant, PTL DEF Spec, VerdictMatchesSpec

\* No Bookmark is forgotten, for any sequence of edits, conflicts and failing
\* writes (Reconcile).
THEOREM BookmarksNeverAbandoned == Spec => []NeverAbandoned
<1>1. BookmarkInv => NeverAbandoned
  BY DEF BookmarkInv
<1> QED BY <1>1, BookmarkInvariant, PTL

\* A reconciler that keeps up probes every Bookmark at least every two
\* intervals, for any interval (needsURLCheck, RequeueAfter).
THEOREM ChecksRecent == Spec => []CheckAgeBound
<1>1. BookmarkInv => CheckAgeBound
  BY DEF BookmarkInv
<1> QED BY <1>1, BookmarkInvariant, PTL

\* The verdict on an older spec is shown for less than two intervals after the
\* edit, for any interval and whatever other updates and restarts postpone
\* the next probe (needsURLCheck, SetupWithManager).
THEOREM StaleVerdictsBounded == Spec => []StaleVerdictBound
<1>1. BookmarkInv => StaleVerdictBound
  <2> SUFFICES ASSUME BookmarkInv, prompt, Shown(obj), obj.checkedSpec # obj.spec
               PROVE  now - editedAt < 2 * Interval
    BY DEF StaleVerdictBound
  <2>1. Stale
    BY DEF BookmarkInv, VersionsInv, Version, StatusPaired, Shown, Stale
  <2>2. obj.lastURLCheckAt <= editedAt /\ now - obj.lastURLCheckAt < 2 * Interval
    BY <2>1 DEF BookmarkInv, StaleInv, CheckAgeBound, Stale
  <2>3. now \in Nat /\ editedAt \in Nat /\ obj.lastURLCheckAt \in Int
    BY Fields DEF BookmarkInv, CountInv, VersionsInv, Version
  <2>4. ASSUME NEW L \in Int, L <= editedAt, now - L < 2 * Interval
        PROVE  now - editedAt < 2 * Interval
    BY <2>3, <2>4, Fields
  <2> QED BY <2>2, <2>3, <2>4
<1> QED BY <1>1, BookmarkInvariant, PTL

==============================================================================

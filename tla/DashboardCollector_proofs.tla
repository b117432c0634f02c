---------------------- MODULE DashboardCollector_proofs ----------------------
(***************************************************************************)
(* What the proofs about DashboardCollector rest on: whatever order the     *)
(* sources come in, every link and tile is filed under a group that exists, *)
(* the map of groups is finite, so that sorting it yields each group, and   *)
(* what comes from elsewhere is never mixed into what peers are served.     *)
(***************************************************************************)
EXTENDS DashboardCollector, FiniteSetTheorems, WellFoundedInduction, TLAPS

\* A map of groups as the sources leave it.
Groups(known) ==
    /\ DOMAIN known \subseteq Names
    /\ IsFiniteSet(DOMAIN known)
    /\ \A g \in DOMAIN known : known[g] \in Detail

\* Links and tiles are filed under groups that exist.
Filed ==
    /\ \A l \in links : l.group \in DOMAIN details
    /\ \A t \in tiles : t.group \in DOMAIN details

\* Links of foreign clusters are kept apart until those that are not marked
\* are dropped, and a call of the sync handler gets no link from elsewhere.
Origins ==
    /\ IsFiniteSet(temp)
    /\ \A l \in links : l.origin = "foreign" => l.replicate
    /\ localOnly => /\ pc \notin {"remote", "foreign", "foreignapps", "merge"}
                    /\ \A l \in links : l.origin = "local"

\* The inductive invariant.
CollectorInv ==
    /\ TypeOK
    /\ IsFiniteSet(DOMAIN details)
    /\ Filed
    /\ Origins
    /\ NothingLost
    /\ NothingLeaked

-----------------------------------------------------------------------------
(* Helpers of the model.                                                   *)

\* The phases by their names.
LEMMA PhaseNames ==
    /\ {Phases[i] : i \in 1 .. 11} =
         {"static", "bookmarkgroups", "bookmarks", "forecastle", "annotated", "tiles",
          "remote", "foreign", "foreignapps", "merge", "respond"}
    /\ LocalPhases = {"bookmarkgroups", "bookmarks", "forecastle", "annotated", "tiles"}
    /\ RemotePhases = {"remote", "foreign", "foreignapps", "merge"}
<1>1. /\ Phases[1] = "static" /\ Phases[2] = "bookmarkgroups" /\ Phases[3] = "bookmarks"
      /\ Phases[4] = "forecastle" /\ Phases[5] = "annotated" /\ Phases[6] = "tiles"
      /\ Phases[7] = "remote" /\ Phases[8] = "foreign" /\ Phases[9] = "foreignapps"
      /\ Phases[10] = "merge" /\ Phases[11] = "respond"
    BY DEF Phases
<1>2. 1 .. 11 = {1, 2, 3, 4, 5, 6, 7, 8, 9, 10, 11}
    OBVIOUS
<1>3. 2 .. 6 = {2, 3, 4, 5, 6} /\ 7 .. 10 = {7, 8, 9, 10}
    OBVIOUS
<1>4. {Phases[i] : i \in 1 .. 11} =
        {Phases[1], Phases[2], Phases[3], Phases[4], Phases[5], Phases[6], Phases[7],
         Phases[8], Phases[9], Phases[10], Phases[11]}
    BY <1>2, ZenonT(30)
<1>5. LocalPhases = {Phases[2], Phases[3], Phases[4], Phases[5], Phases[6]}
    BY <1>3, ZenonT(30) DEF LocalPhases
<1>6. RemotePhases = {Phases[7], Phases[8], Phases[9], Phases[10]}
    BY <1>3, ZenonT(30) DEF RemotePhases
<1>. QED  BY <1>1, <1>4, <1>5, <1>6, Zenon

\* A finite set of naturals that is not empty has a greatest element.
LEMMA Greatest ==
    ASSUME NEW n \in Nat, NEW S \in SUBSET (1 .. n), S # {}
    PROVE  \E i \in S : \A j \in S : j <= i
<1>. DEFINE T == {n - i : i \in S}
<1>1. T \subseteq Nat /\ T # {}
  <2>1. \A i \in S : n - i \in Nat
      OBVIOUS
  <2>. QED  BY <2>1, Zenon
<1>2. PICK x \in T : \A y \in T : ~ (<<y, x>> \in OpToRel(<, Nat))
    BY <1>1, WFMin, NatLessThanWellFounded
<1>3. \A y \in T : ~ (y < x)
    BY <1>1, <1>2 DEF OpToRel
<1>4. PICK i \in S : x = n - i
    OBVIOUS
<1>5. ASSUME NEW j \in S PROVE j <= i
    BY <1>3, <1>4
<1>. QED  BY <1>5

\* The image of a sequence's positions is finite.
LEMMA FiniteNames ==
    ASSUME NEW f, NEW S, IsFiniteSet(S)
    PROVE  IsFiniteSet({f[x] : x \in S})
<1>. DEFINE T == {f[x] : x \in S}
            h == [x \in S |-> f[x]]
<1>1. h \in Surjection(S, T)
    BY DEF Surjection
<1>. QED  BY <1>1, FS_Surjection

\* The configured groups: the last entry of a name counts.
LEMMA ConfiguredGroups ==
    ASSUME NEW config \in Configs
    PROVE  Groups(initLinkGroups(config))
<1>. DEFINE n == Len(config)
            named == {config[i].name : i \in DOMAIN config} \ {NoName}
            last(g) == CHOOSE i \in DOMAIN config :
                         /\ config[i].name = g
                         /\ \A j \in DOMAIN config : config[j].name = g => j <= i
            entry(g) == [class |-> config[last(g)].class,
                         priority |-> config[last(g)].priority,
                         display |-> IF config[last(g)].display = NoName
                                       THEN g ELSE config[last(g)].display,
                         source |-> "local", replicate |-> FALSE]
<1>1. /\ n \in Nat /\ DOMAIN config = 1 .. n
      /\ \A i \in DOMAIN config : config[i] \in LinkGroup
    BY CollectorAssumption
<1>2. initLinkGroups(config) = [g \in named |-> entry(g)]
    BY DEF initLinkGroups
<1>3. named \subseteq Names
    BY <1>1 DEF LinkGroup, OptionalNames
<1>4. IsFiniteSet(named)
  <2>. DEFINE names == [i \in DOMAIN config |-> config[i].name]
  <2>1. IsFiniteSet(DOMAIN config)
      BY <1>1, FS_Interval
  <2>2. IsFiniteSet({names[i] : i \in DOMAIN config})
      BY <2>1, FiniteNames, Zenon
  <2>3. {names[i] : i \in DOMAIN config} = {config[i].name : i \in DOMAIN config}
      OBVIOUS
  <2>. QED  BY <2>2, <2>3, FS_Subset
<1>5. ASSUME NEW g \in named PROVE entry(g) \in Detail
  <2>. DEFINE S == {i \in DOMAIN config : config[i].name = g}
  <2>1. S \in SUBSET (1 .. n) /\ S # {}
      BY <1>1
  <2>2. \E i \in S : \A j \in S : j <= i
      BY <1>1, <2>1, Greatest, Zenon
  <2>3. \E i \in DOMAIN config : /\ config[i].name = g
                                 /\ \A j \in DOMAIN config : config[j].name = g => j <= i
      BY <2>2
  <2>4. last(g) \in DOMAIN config
      BY <2>3, Zenon
  <2>5. config[last(g)] \in LinkGroup
      BY <1>1, <2>4
  <2>. HIDE DEF last
  <2>6. FALSE \in BOOLEAN
      OBVIOUS
  <2>. QED  BY <2>5, <2>6, <1>3 DEF LinkGroup, OptionalNames, Detail
<1>. HIDE DEF named, entry
<1>. QED  BY <1>2, <1>3, <1>4, <1>5 DEF Groups

\* Another group leaves the ones that exist as they are.
LEMMA EnsureGroups ==
    ASSUME NEW known, Groups(known), NEW name \in Names, NEW detail \in Detail
    PROVE  /\ Groups(Ensure(known, name, detail))
           /\ DOMAIN Ensure(known, name, detail) = DOMAIN known \cup {name}
           /\ \A g \in DOMAIN known : Ensure(known, name, detail)[g] = known[g]
<1>1. DOMAIN Ensure(known, name, detail) = DOMAIN known \cup {name}
    BY DEF Ensure
<1>2. IsFiniteSet(DOMAIN known \cup {name})
    BY FS_AddElement DEF Groups
<1>. QED  BY <1>1, <1>2 DEF Ensure, Groups

\* A group that is defined by being mentioned.
LEMMA DefaultDetail ==
    ASSUME NEW name \in Names, NEW source \in {"local", "infotile", "sync", "foreign"}
    PROVE  Default(name, source) \in Detail
<1>1. FALSE \in BOOLEAN
    OBVIOUS
<1>2. 0 \in Priorities
    BY CollectorAssumption DEF Priorities
<1>. QED  BY <1>1, <1>2 DEF Default, Detail, Classes

\* A group that a name resolves to has a name.
LEMMA ResolvedName ==
    ASSUME NEW raw \in OptionalNames, NEW known, DOMAIN known \subseteq Names,
           NEW group \in resolveLinkGroupName(raw, known)
    PROVE  group \in Names
BY DEF resolveLinkGroupName, OptionalNames

\* A name that falls back on another.
LEMMA NonEmptyName ==
    ASSUME NEW name \in OptionalNames, NEW other \in OptionalNames
    PROVE  /\ firstNonEmpty(name, other) \in OptionalNames
           /\ other \in Names => firstNonEmpty(name, other) \in Names
BY DEF firstNonEmpty, OptionalNames

\* A sorted list of the groups holds each of them.
LEMMA SortedHoldsAll ==
    ASSUME IsFiniteSet(DOMAIN details), NEW order \in sortLinkGroups
    PROVE  /\ order \in Seq(DOMAIN details)
           /\ \A i \in DOMAIN order : order[i] \in DOMAIN details
           /\ \A g \in DOMAIN details : \E i \in DOMAIN order : order[i] = g
<1>. DEFINE n == Cardinality(DOMAIN details)
<1>1. n \in Nat
    BY FS_CardinalityType
<1>. HIDE DEF n
<1>2. order \in [1 .. n -> DOMAIN details] /\ DOMAIN order = 1 .. n
    BY DEF sortLinkGroups, n
<1>3. \A i, j \in 1 .. n : i < j => order[i] # order[j]
    BY <1>2 DEF sortLinkGroups
<1>4. order \in Injection(1 .. n, DOMAIN details)
    BY <1>1, <1>2, <1>3 DEF Injection, IsInjective
<1>5. Cardinality(1 .. n) = n
    BY <1>1, FS_Interval
<1>6. order \in Surjection(1 .. n, DOMAIN details)
    BY <1>4, <1>5, FS_Injection DEF n
<1>7. \A g \in DOMAIN details : \E i \in DOMAIN order : order[i] = g
    BY <1>2, <1>6 DEF Surjection
<1>8. order \in Seq(DOMAIN details)
    BY <1>1, <1>2
<1>. QED  BY <1>2, <1>7, <1>8

-----------------------------------------------------------------------------
(* The steps.                                                              *)

\* Until the call returns there is nothing to be said about its answer.
LEMMA NotDone ==
    ASSUME pc' # "done"
    PROVE  NothingLost' /\ NothingLeaked'
BY DEF NothingLost, NothingLeaked

\* The steps of a call that is not over: its parts of the invariant.
LEMMA Collecting ==
    ASSUME CollectorInv, pc # "done", pc' # "done",
           pc' \in {Phases[i] : i \in 1 .. 11} \cup {"failed"},
           UNCHANGED <<localOnly, audience, response>>,
           read' \in 0 .. MaxEntries,
           Groups(details'), links' \in SUBSET Link, tiles' \in SUBSET Tile,
           temp' \in SUBSET Link, Filed', Origins'
    PROVE  CollectorInv'
<1>1. response = NoResponse /\ response' = NoResponse
    BY DEF CollectorInv, TypeOK
<1>2. /\ response'.linkGroups \in Seq(DOMAIN details')
      /\ \A e \in response'.groups : \E i \in DOMAIN response'.linkGroups :
           e.group = response'.linkGroups[i]
    BY <1>1 DEF NoResponse
<1>3. TypeOK'
    BY <1>1, <1>2 DEF CollectorInv, TypeOK, Groups
<1>. QED  BY <1>3, NotDone DEF CollectorInv, Groups

\* Another entry read is within the bound.
LEMMA EntryCounted ==
    ASSUME CollectorInv, Read
    PROVE  read' \in 0 .. MaxEntries
<1>1. read \in 0 .. MaxEntries
    BY DEF CollectorInv, TypeOK
<1>. QED  BY <1>1, CollectorAssumption DEF Read

\* A link that joins its group, found in the local cluster.
LEMMA LinkAdded ==
    ASSUME CollectorInv, NEW source \in Sources, NEW group \in Names,
           NEW groups \in SUBSET UserGroups, NEW replicate \in BOOLEAN,
           pc \in {"static", "bookmarks", "forecastle", "annotated"},
           AddLink(source, group, groups, replicate)
    PROVE  CollectorInv'
<1>. DEFINE new == [source |-> source, origin |-> "local", group |-> group,
                    groups |-> groups, replicate |-> replicate]
<1>1. Groups(details) /\ Default(group, "local") \in Detail
    BY DefaultDetail DEF CollectorInv, TypeOK, Groups
<1>2. /\ Groups(details') /\ DOMAIN details' = DOMAIN details \cup {group}
    BY <1>1, EnsureGroups DEF AddLink, ensureLinkGroup
<1>3. new \in Link
    BY DEF Link
<1>4. links' = links \cup {new}
    BY DEF AddLink
<1>5. new.group = group /\ new.origin = "local"
    OBVIOUS
<1>. HIDE DEF new
<1>6. links' \in SUBSET Link
    BY <1>3, <1>4 DEF CollectorInv, TypeOK
<1>7. Filed'
    BY <1>2, <1>4, <1>5 DEF CollectorInv, Filed, AddLink
<1>8. Origins'
    BY <1>4, <1>5 DEF CollectorInv, Origins, AddLink
<1>9. read' \in 0 .. MaxEntries
    BY EntryCounted DEF AddLink
<1>10. pc' \in {Phases[i] : i \in 1 .. 11} \cup {"failed"} /\ pc # "done" /\ pc' # "done"
    BY PhaseNames DEF AddLink
<1>11. tiles' \in SUBSET Tile /\ temp' \in SUBSET Link
    BY DEF CollectorInv, TypeOK, AddLink
<1>. QED  BY <1>2, <1>6, <1>7, <1>8, <1>9, <1>10, <1>11, Collecting DEF AddLink

\* A link found in a foreign cluster waits in tempGroups.
LEMMA ForeignAdded ==
    ASSUME CollectorInv, NEW source \in Sources, NEW group \in Names,
           NEW groups \in SUBSET UserGroups, NEW replicate \in BOOLEAN,
           pc \in {"foreign", "foreignapps"},
           AddForeign(source, group, groups, replicate)
    PROVE  CollectorInv'
<1>. DEFINE new == [source |-> source, origin |-> "foreign", group |-> group,
                    groups |-> groups, replicate |-> replicate]
<1>1. Groups(details')
    BY DEF CollectorInv, TypeOK, Groups, AddForeign
<1>2. new \in Link
    BY DEF Link
<1>3. temp' = temp \cup {new}
    BY DEF AddForeign
<1>. HIDE DEF new
<1>4. temp' \in SUBSET Link
    BY <1>2, <1>3 DEF CollectorInv, TypeOK
<1>5. IsFiniteSet(temp')
    BY <1>3, FS_AddElement DEF CollectorInv, Origins
<1>6. Filed' /\ Origins'
    BY <1>5 DEF CollectorInv, Filed, Origins, AddForeign
<1>7. read' \in 0 .. MaxEntries
    BY EntryCounted DEF AddForeign
<1>8. pc' \in {Phases[i] : i \in 1 .. 11} \cup {"failed"} /\ pc # "done" /\ pc' # "done"
    BY PhaseNames DEF AddForeign
<1>9. links' \in SUBSET Link /\ tiles' \in SUBSET Tile
    BY DEF CollectorInv, TypeOK, AddForeign
<1>. QED  BY <1>1, <1>4, <1>6, <1>7, <1>8, <1>9, Collecting DEF AddForeign

\* The metadata of a BookmarkGroup.
LEMMA GroupRead ==
    ASSUME CollectorInv, NEW o \in BookmarkGroup, collectBookmarkGroups(o)
    PROVE  CollectorInv'
<1>. DEFINE known == ensureLinkGroup(details, o.name)
<1>1. o.name \in Names /\ o.display \in OptionalNames /\ o.replicate \in BOOLEAN
    BY DEF BookmarkGroup
<1>2. Groups(details) /\ Default(o.name, "local") \in Detail
    BY <1>1, DefaultDetail DEF CollectorInv, TypeOK, Groups
<1>3. Groups(known) /\ DOMAIN known = DOMAIN details \cup {o.name}
  <2>1. known = Ensure(details, o.name, Default(o.name, "local"))
      BY Zenon DEF ensureLinkGroup
  <2>. HIDE DEF known
  <2>. QED  BY <1>1, <1>2, <2>1, EnsureGroups
<1>4. details' = [known EXCEPT ![o.name].replicate = o.replicate,
                               ![o.name].display = firstNonEmpty(o.display, @)]
    BY DEF collectBookmarkGroups
<1>. HIDE DEF known
<1>5. known[o.name] \in Detail
    BY <1>3 DEF Groups
<1>6. firstNonEmpty(o.display, known[o.name].display) \in Names
    BY <1>1, <1>5, NonEmptyName DEF Detail, OptionalNames
<1>7. DOMAIN details' = DOMAIN known
    BY <1>4
<1>8. \A g \in DOMAIN known : details'[g] \in Detail
  <2>1. ASSUME NEW g \in DOMAIN known, g # o.name PROVE details'[g] \in Detail
      BY <1>3, <1>4, <2>1 DEF Groups
  <2>2. details'[o.name] = [known[o.name] EXCEPT
                              !.replicate = o.replicate,
                              !.display = firstNonEmpty(o.display, known[o.name].display)]
      BY <1>3, <1>4, <1>5 DEF Detail
  <2>3. details'[o.name] \in Detail
      BY <1>1, <1>5, <1>6, <2>2 DEF Detail
  <2>. QED  BY <2>1, <2>3
<1>9. Groups(details')
    BY <1>3, <1>7, <1>8 DEF Groups
<1>10. Filed' /\ Origins'
    BY <1>3, <1>7 DEF CollectorInv, Filed, Origins, collectBookmarkGroups
<1>11. read' \in 0 .. MaxEntries
    BY EntryCounted DEF collectBookmarkGroups
<1>12. pc' \in {Phases[i] : i \in 1 .. 11} \cup {"failed"} /\ pc # "done" /\ pc' # "done"
    BY PhaseNames DEF collectBookmarkGroups
<1>13. links' \in SUBSET Link /\ tiles' \in SUBSET Tile /\ temp' \in SUBSET Link
    BY DEF CollectorInv, TypeOK, collectBookmarkGroups
<1>. QED  BY <1>9, <1>10, <1>11, <1>12, <1>13, Collecting DEF collectBookmarkGroups

\* An InfoTile, in the group it names or in one of its own name.
LEMMA TileRead ==
    ASSUME CollectorInv, NEW o \in InfoTile, collectInfoTiles(o)
    PROVE  CollectorInv'
<1>. DEFINE group == firstNonEmpty(o.group, o.name)
            new == [group |-> group, replicate |-> o.replicate]
<1>1. o.name \in Names /\ o.group \in OptionalNames /\ o.replicate \in BOOLEAN
    BY DEF InfoTile
<1>2. group \in Names
    BY <1>1, NonEmptyName DEF OptionalNames
<1>3. /\ details' = Ensure(details, group, Default(group, "infotile"))
      /\ tiles' = tiles \cup {new}
    BY DEF collectInfoTiles
<1>. HIDE DEF group
<1>4. Groups(details) /\ Default(group, "infotile") \in Detail
    BY <1>2, DefaultDetail DEF CollectorInv, TypeOK, Groups
<1>5. Groups(details') /\ DOMAIN details' = DOMAIN details \cup {group}
    BY <1>2, <1>3, <1>4, EnsureGroups
<1>6. new \in Tile /\ new.group = group
    BY <1>1, <1>2 DEF Tile
<1>. HIDE DEF new
<1>7. tiles' \in SUBSET Tile
    BY <1>3, <1>6 DEF CollectorInv, TypeOK
<1>8. Filed' /\ Origins'
    BY <1>3, <1>5, <1>6 DEF CollectorInv, Filed, Origins, collectInfoTiles
<1>9. read' \in 0 .. MaxEntries
    BY EntryCounted DEF collectInfoTiles
<1>10. pc' \in {Phases[i] : i \in 1 .. 11} \cup {"failed"} /\ pc # "done" /\ pc' # "done"
    BY PhaseNames DEF collectInfoTiles
<1>11. links' \in SUBSET Link /\ temp' \in SUBSET Link
    BY DEF CollectorInv, TypeOK, collectInfoTiles
<1>. QED  BY <1>5, <1>7, <1>8, <1>9, <1>10, <1>11, Collecting DEF collectInfoTiles

\* A group of a peer's response, with its links.
LEMMA RemoteMerged ==
    ASSUME CollectorInv, NEW group \in Names, NEW detail \in RemoteDetails,
           NEW added \in RemoteLinks, mergeRemoteData(group, detail, added)
    PROVE  CollectorInv'
<1>. DEFINE new == {[l EXCEPT !.origin = "sync", !.group = group] : l \in added}
            lg == [detail EXCEPT !.source = "sync"]
<1>1. lg \in Detail
  <2>1. detail \in Detail
      BY CollectorAssumption DEF RemoteDetails, Detail
  <2>. QED  BY <2>1 DEF Detail
<1>2. /\ details' = Ensure(details, group, lg)
      /\ links' = links \cup new
    BY Zenon DEF mergeRemoteData
<1>3. Groups(details)
    BY DEF CollectorInv, TypeOK, Groups
<1>. HIDE DEF lg
<1>4. Groups(details') /\ DOMAIN details' = DOMAIN details \cup {group}
    BY <1>1, <1>2, <1>3, EnsureGroups
<1>5. ASSUME NEW x \in new
      PROVE  x \in Link /\ x.group = group /\ x.origin = "sync"
  <2>1. PICK l \in added : x = [l EXCEPT !.origin = "sync", !.group = group]
      OBVIOUS
  <2>2. PICK gs \in SUBSET UserGroups :
          l = [source |-> "bookmark", origin |-> "sync", groups |-> gs,
               group |-> CHOOSE g \in Names : TRUE, replicate |-> FALSE]
      BY DEF RemoteLinks
  <2>3. x = [source |-> "bookmark", origin |-> "sync", groups |-> gs,
             group |-> group, replicate |-> FALSE]
      BY <2>1, <2>2
  <2>4. FALSE \in BOOLEAN
      OBVIOUS
  <2>5. x \in Link
      BY <2>3, <2>4 DEF Link, Sources
  <2>. QED  BY <2>3, <2>5
<1>. HIDE DEF new
<1>6. links' \in SUBSET Link
    BY <1>2, <1>5 DEF CollectorInv, TypeOK
<1>7. Filed'
    BY <1>2, <1>4, <1>5 DEF CollectorInv, Filed, mergeRemoteData
<1>8. Origins'
    BY <1>2, <1>5 DEF CollectorInv, Origins, mergeRemoteData
<1>9. read' \in 0 .. MaxEntries
    BY EntryCounted DEF mergeRemoteData
<1>10. pc' \in {Phases[i] : i \in 1 .. 11} \cup {"failed"} /\ pc # "done" /\ pc' # "done"
    BY PhaseNames DEF mergeRemoteData
<1>11. tiles' \in SUBSET Tile /\ temp' \in SUBSET Link
    BY DEF CollectorInv, TypeOK, mergeRemoteData
<1>. QED  BY <1>4, <1>6, <1>7, <1>8, <1>9, <1>10, <1>11, Collecting DEF mergeRemoteData

\* The replicated links of a foreign cluster, with the groups that are new.
LEMMA ForeignMerged ==
    ASSUME CollectorInv, mergeForeignClusterData
    PROVE  CollectorInv'
<1>. DEFINE kept == filterLinksForReplication(temp)
            new == {l.group : l \in kept} \ DOMAIN details
<1>1. /\ details' = [g \in DOMAIN details \cup new |->
                       IF g \in new THEN Default(g, "foreign") ELSE details[g]]
      /\ links' = links \cup kept
      /\ temp' = {}
    BY Zenon DEF mergeForeignClusterData
<1>2. kept \subseteq temp /\ \A l \in kept : l.replicate
    BY DEF filterLinksForReplication
<1>3. kept \subseteq Link /\ IsFiniteSet(kept)
    BY <1>2, FS_Subset DEF CollectorInv, TypeOK, Origins
<1>. HIDE DEF kept
<1>4. new \subseteq Names
    BY <1>3 DEF Link
<1>5. IsFiniteSet(new)
  <2>. DEFINE name == [l \in kept |-> l.group]
  <2>1. IsFiniteSet({name[l] : l \in kept})
      BY <1>3, FiniteNames, Zenon
  <2>2. {name[l] : l \in kept} = {l.group : l \in kept}
      OBVIOUS
  <2>. QED  BY <2>1, <2>2, FS_Subset
<1>6. \A l \in kept : l.group \in DOMAIN details \cup new
    OBVIOUS
<1>. HIDE DEF new
<1>7. DOMAIN details' = DOMAIN details \cup new
    BY <1>1
<1>8. Groups(details')
  <2>1. IsFiniteSet(DOMAIN details')
      BY <1>5, <1>7, FS_Union DEF CollectorInv
  <2>2. ASSUME NEW g \in DOMAIN details' PROVE details'[g] \in Detail
    <3>1. CASE g \in new
        BY <1>1, <1>4, <3>1, DefaultDetail
    <3>2. CASE g \notin new
        BY <1>1, <1>7, <3>2 DEF CollectorInv, TypeOK
    <3>. QED  BY <3>1, <3>2
  <2>. QED  BY <2>1, <2>2, <1>4, <1>7 DEF Groups, CollectorInv, TypeOK
<1>9. Filed'
    BY <1>1, <1>6, <1>7 DEF CollectorInv, Filed, mergeForeignClusterData
<1>10. ~ localOnly /\ ~ localOnly'
    BY DEF CollectorInv, Origins, mergeForeignClusterData
<1>11. Origins'
  <2>1. IsFiniteSet(temp')
      BY <1>1, FS_EmptySet
  <2>. QED  BY <2>1, <1>1, <1>2, <1>10 DEF CollectorInv, Origins
<1>12. pc' \in {Phases[i] : i \in 1 .. 11} \cup {"failed"} /\ pc # "done" /\ pc' # "done"
    BY PhaseNames DEF mergeForeignClusterData
<1>13. /\ links' \in SUBSET Link /\ tiles' \in SUBSET Tile /\ temp' \in SUBSET Link
       /\ read' \in 0 .. MaxEntries
    BY <1>1, <1>3 DEF CollectorInv, TypeOK, mergeForeignClusterData
<1>. QED  BY <1>8, <1>9, <1>11, <1>12, <1>13, Collecting DEF mergeForeignClusterData

\* The call goes on to its next source, or fails.
LEMMA MovedOn ==
    ASSUME CollectorInv, Continue \/ NoForeignCluster \/ ListFails
    PROVE  CollectorInv'
<1>. DEFINE Rest == <<localOnly, details, links, tiles, temp, audience, response, read>>
<1>1. UNCHANGED Rest
    BY Zenon DEF Continue, NoForeignCluster, ListFails
<1>2. /\ pc # "done" /\ pc' # "done"
      /\ pc' \in {Phases[i] : i \in 1 .. 11} \cup {"failed"}
      /\ localOnly => pc' \notin {"remote", "foreign", "foreignapps", "merge"}
  <2>1. CASE Continue
    <3>1. PICK i \in 1 .. 9 :
            /\ pc = Phases[i]
            /\ pc' = IF Phases[i] = "tiles" /\ localOnly THEN "respond" ELSE Phases[i + 1]
        BY <2>1 DEF Continue
    <3>2. i \in {1, 2, 3, 4, 5, 6, 7, 8, 9}
        OBVIOUS
    <3>3. localOnly => pc \notin {"remote", "foreign", "foreignapps", "merge"}
        BY DEF CollectorInv, Origins
    <3>. QED  BY <3>1, <3>2, <3>3, PhaseNames DEF Phases
  <2>2. CASE NoForeignCluster
      BY <2>2, PhaseNames DEF NoForeignCluster
  <2>3. CASE ListFails
      BY <2>3, PhaseNames DEF ListFails
  <2>. QED  BY <2>1, <2>2, <2>3
<1>3. Groups(details')
    BY <1>1 DEF CollectorInv, TypeOK, Groups
<1>4. Filed' /\ Origins'
    BY <1>1, <1>2 DEF CollectorInv, Filed, Origins
<1>5. /\ links' \in SUBSET Link /\ tiles' \in SUBSET Tile /\ temp' \in SUBSET Link
      /\ read' \in 0 .. MaxEntries
    BY <1>1 DEF CollectorInv, TypeOK
<1>. QED  BY <1>1, <1>2, <1>3, <1>4, <1>5, Collecting

\* The entry of a group holds what is in it and may be seen.
LEMMA EntryHolds ==
    ASSUME NEW g, NEW userGroups
    PROVE  /\ DashboardGroup(g, userGroups).group = g
           /\ \A l : l \in DashboardGroup(g, userGroups).links <=>
                       /\ l \in links /\ l.group = g
                       /\ linkAllowedForGroups(l, userGroups)
                       /\ localOnly => l.replicate
           /\ \A t : t \in DashboardGroup(g, userGroups).tiles <=>
                       /\ t \in tiles /\ t.group = g
                       /\ localOnly => t.replicate
<1>. DEFINE ls == IF localOnly THEN filterLinksForReplication(links) ELSE links
            ts == IF localOnly THEN filterTilesForReplication(tiles) ELSE tiles
<1>1. /\ DashboardGroup(g, userGroups).group = g
      /\ DashboardGroup(g, userGroups).tiles = {t \in ts : t.group = g}
      /\ DashboardGroup(g, userGroups).links =
           filterLinksForGroups({l \in ls : l.group = g}, userGroups)
    BY DEF DashboardGroup
<1>2. \A l : l \in ls <=> l \in links /\ (localOnly => l.replicate)
    BY DEF filterLinksForReplication
<1>3. \A t : t \in ts <=> t \in tiles /\ (localOnly => t.replicate)
    BY DEF filterTilesForReplication
<1>. HIDE DEF ls, ts
<1>. QED  BY <1>1, <1>2, <1>3 DEF filterLinksForGroups

\* The response: sorted groups, and for each its entry.
LEMMA Answered ==
    ASSUME CollectorInv, NEW userGroups \in SUBSET (UserGroups \cup {Wildcard}),
           Respond(userGroups)
    PROVE  CollectorInv'
<1>. DEFINE entry(g) == DashboardGroup(g, userGroups)
<1>1. /\ pc = "respond" /\ pc' = "done" /\ audience' = userGroups
      /\ (Wildcard \in userGroups) <=> localOnly
      /\ UNCHANGED <<localOnly, details, links, tiles, temp, read>>
    BY DEF Respond
<1>2. PICK order \in sortLinkGroups :
        response' = [linkGroups |-> order,
                     groups |-> {e \in {entry(order[i]) : i \in DOMAIN order} : Listed(e)}]
    BY DEF Respond
<1>3. /\ order \in Seq(DOMAIN details)
      /\ \A i \in DOMAIN order : order[i] \in DOMAIN details
      /\ \A g \in DOMAIN details : \E i \in DOMAIN order : order[i] = g
    BY SortedHoldsAll DEF CollectorInv
<1>4. response'.linkGroups = order
    BY <1>2
<1>5. \A e \in response'.groups : \E i \in DOMAIN order : e = entry(order[i])
    BY <1>2
<1>6. \A g \in DOMAIN details : Listed(entry(g)) => entry(g) \in response'.groups
  <2>1. SUFFICES ASSUME NEW g \in DOMAIN details, Listed(entry(g))
                 PROVE  entry(g) \in response'.groups
      OBVIOUS
  <2>2. PICK i \in DOMAIN order : order[i] = g
      BY <1>3
  <2>3. entry(g) \in {entry(order[j]) : j \in DOMAIN order}
      BY <2>2, Zenon
  <2>. QED  BY <1>2, <2>1, <2>3
<1>7. ASSUME NEW g
      PROVE  /\ entry(g).group = g
             /\ \A l : l \in entry(g).links <=>
                         /\ l \in links /\ l.group = g
                         /\ linkAllowedForGroups(l, userGroups)
                         /\ localOnly => l.replicate
             /\ \A t : t \in entry(g).tiles <=>
                         /\ t \in tiles /\ t.group = g
                         /\ localOnly => t.replicate
    BY EntryHolds, Zenon
<1>. HIDE DEF entry
<1>8. TypeOK'
  <2>1. pc' \in {Phases[i] : i \in 1 .. 11} \cup {"done", "failed"}
      BY <1>1
  <2>2. /\ response'.linkGroups \in Seq(DOMAIN details')
        /\ \A e \in response'.groups : \E i \in DOMAIN response'.linkGroups :
             e.group = response'.linkGroups[i]
      BY <1>1, <1>3, <1>4, <1>5, <1>7
  <2>. QED  BY <1>1, <2>1, <2>2 DEF CollectorInv, TypeOK
<1>9. IsFiniteSet(DOMAIN details')
    BY <1>1 DEF CollectorInv
<1>10. Filed' /\ Origins'
    BY <1>1 DEF CollectorInv, Filed, Origins
<1>11. \A l \in SentLinks' : /\ l \in links /\ linkAllowedForGroups(l, userGroups)
                             /\ localOnly => l.replicate
    BY <1>5, <1>7 DEF SentLinks
<1>12. \A t \in SentTiles' : localOnly => t.replicate
    BY <1>5, <1>7 DEF SentTiles
<1>13. NothingLeaked'
    BY <1>1, <1>11, <1>12 DEF NothingLeaked, linkAllowedForGroups, CollectorInv, Origins
<1>14. ASSUME NEW l \in links, linkAllowedForGroups(l, userGroups),
              localOnly => l.replicate
       PROVE  l \in SentLinks'
  <2>1. l.group \in DOMAIN details
      BY DEF CollectorInv, Filed
  <2>2. l \in entry(l.group).links
      BY <1>7, <1>14
  <2>3. entry(l.group) \in response'.groups
      BY <1>6, <2>1, <2>2 DEF Listed
  <2>. QED  BY <2>2, <2>3 DEF SentLinks
<1>15. ASSUME NEW t \in tiles, localOnly => t.replicate
       PROVE  t \in SentTiles'
  <2>1. t.group \in DOMAIN details
      BY DEF CollectorInv, Filed
  <2>2. t \in entry(t.group).tiles
      BY <1>7, <1>15
  <2>3. entry(t.group) \in response'.groups
      BY <1>6, <2>1, <2>2 DEF Listed
  <2>. QED  BY <2>2, <2>3 DEF SentTiles
<1>16. NothingLost'
    BY <1>1, <1>14, <1>15 DEF NothingLost, linkAllowedForGroups
<1>. QED  BY <1>8, <1>9, <1>10, <1>13, <1>16 DEF CollectorInv

\* Static links, by their own group or the one they are listed under.
LEMMA StaticRead ==
    ASSUME CollectorInv, NEW o \in StaticLink, collectStaticLinks(o)
    PROVE  CollectorInv'
<1>1. /\ o.linkGroup \in OptionalNames /\ o.group \in OptionalNames
      /\ o.groups \in SUBSET UserGroups
    BY DEF StaticLink
<1>2. firstNonEmpty(o.linkGroup, o.group) \in OptionalNames
    BY <1>1, NonEmptyName
<1>3. PICK group \in resolveLinkGroupName(firstNonEmpty(o.linkGroup, o.group), details) :
        AddLink("static", group, o.groups, FALSE)
    BY DEF collectStaticLinks
<1>4. group \in Names
    BY <1>2, ResolvedName DEF CollectorInv, TypeOK
<1>5. pc = "static" /\ "static" \in Sources /\ FALSE \in BOOLEAN
    BY DEF collectStaticLinks, Sources
<1>. QED  BY <1>1, <1>3, <1>4, <1>5, LinkAdded, Zenon

\* Bookmarks.
LEMMA BookmarkRead ==
    ASSUME CollectorInv, NEW o \in Bookmark, collectBookmarks(o)
    PROVE  CollectorInv'
<1>. DEFINE known == ensureLinkGroup(details, o.group)
<1>1. /\ o.group \in Names /\ o.groups \in SUBSET UserGroups
      /\ o.replicate \in BOOLEAN
    BY DEF Bookmark
<1>2. (o.replicate \/ known[o.group].replicate) \in BOOLEAN
    BY Zenon
<1>3. pc = "bookmarks" /\ "bookmark" \in Sources
    BY DEF collectBookmarks, Sources
<1>4. AddLink("bookmark", o.group, o.groups, o.replicate \/ known[o.group].replicate)
    BY Zenon DEF collectBookmarks
<1>. HIDE DEF known
<1>. QED  BY <1>1, <1>2, <1>3, <1>4, LinkAdded, Zenon

\* ForecastleApps of the local cluster and of foreign ones.
LEMMA AppRead ==
    ASSUME CollectorInv, NEW o \in ForecastleApp,
           collectForecastleApps(o) \/ collectForeignApps(o)
    PROVE  CollectorInv'
<1>1. /\ o.group \in OptionalNames /\ o.groups \in SUBSET UserGroups
      /\ o.replicate \in BOOLEAN
    BY DEF ForecastleApp
<1>2. "forecastleapp" \in Sources
    BY DEF Sources
<1>3. CASE collectForecastleApps(o)
  <2>1. PICK group \in resolveLinkGroupName(o.group, details) :
          AddLink("forecastleapp", group, o.groups, o.replicate)
      BY <1>3 DEF collectForecastleApps
  <2>2. group \in Names
      BY <1>1, ResolvedName DEF CollectorInv, TypeOK
  <2>3. pc = "forecastle"
      BY <1>3 DEF collectForecastleApps
  <2>. QED  BY <1>1, <1>2, <2>1, <2>2, <2>3, LinkAdded, Zenon
<1>4. CASE collectForeignApps(o)
  <2>. DEFINE known == [g \in {l.group : l \in temp} |-> Default(g, "local")]
  <2>1. PICK group \in resolveLinkGroupName(o.group, known) :
          AddForeign("forecastleapp", group, o.groups, o.replicate)
      BY <1>4 DEF collectForeignApps
  <2>2. DOMAIN known \subseteq Names
      BY DEF CollectorInv, TypeOK, Link
  <2>. HIDE DEF known
  <2>3. group \in Names
      BY <1>1, <2>2, ResolvedName
  <2>4. pc = "foreignapps"
      BY <1>4 DEF collectForeignApps
  <2>. QED  BY <1>1, <1>2, <2>1, <2>3, <2>4, ForeignAdded, Zenon
<1>. QED  BY <1>3, <1>4

\* Annotated resources of the local cluster and of foreign ones.
LEMMA ResourceRead ==
    ASSUME CollectorInv, NEW o \in Resource, NEW kind \in AnnotatedKinds,
           \/ Annotated(kind, o, TRUE) \/ Annotated(kind, o, FALSE)
           \/ collectForeignLinks(kind, o)
    PROVE  CollectorInv'
<1>1. o.group \in OptionalNames /\ o.namespace \in Names /\ o.replicate \in BOOLEAN
    BY DEF Resource
<1>2. GroupOf(o) \in Names
    BY <1>1, NonEmptyName DEF GroupOf, OptionalNames
<1>3. kind \in Sources /\ {} \in SUBSET UserGroups
    BY DEF Sources
<1>4. CASE Annotated(kind, o, TRUE) \/ Annotated(kind, o, FALSE)
  <2>1. pc = "annotated" /\ AddLink(kind, GroupOf(o), {}, o.replicate)
      BY <1>4, Zenon DEF Annotated
  <2>. QED  BY <1>1, <1>2, <1>3, <2>1, LinkAdded, Zenon
<1>5. CASE collectForeignLinks(kind, o)
  <2>1. pc = "foreign" /\ AddForeign(kind, GroupOf(o), {}, o.replicate)
      BY <1>5, Zenon DEF collectForeignLinks
  <2>. QED  BY <1>1, <1>2, <1>3, <2>1, ForeignAdded, Zenon
<1>. QED  BY <1>4, <1>5

-----------------------------------------------------------------------------
(* The theorems.                                                           *)

\* The first state of a call.
LEMMA InitInv == Init => CollectorInv
<1>. SUFFICES ASSUME Init PROVE CollectorInv
    OBVIOUS
<1>1. Groups(details)
    BY ConfiguredGroups DEF Init
<1>2. response.linkGroups \in Seq(DOMAIN details) /\ response.groups = {}
    BY DEF Init, NoResponse
<1>3. pc \in {Phases[i] : i \in 1 .. 11}
    BY PhaseNames DEF Init
<1>4. TypeOK
  <2>1. read \in 0 .. MaxEntries
      BY CollectorAssumption DEF Init
  <2>. QED  BY <1>1, <1>2, <1>3, <2>1 DEF Init, TypeOK, Groups
<1>5. Filed /\ NothingLost /\ NothingLeaked
    BY DEF Init, Filed, NothingLost, NothingLeaked
<1>6. Origins
    BY FS_EmptySet DEF Init, Origins
<1>. QED  BY <1>1, <1>4, <1>5, <1>6 DEF CollectorInv, Groups

\* Every step of a call.
LEMMA StepInv == CollectorInv /\ [Next]_vars => CollectorInv'
<1>. SUFFICES ASSUME CollectorInv, [Next]_vars PROVE CollectorInv'
    OBVIOUS
<1>1. CASE Continue \/ NoForeignCluster \/ ListFails
    BY <1>1, MovedOn
<1>2. CASE mergeForeignClusterData
    BY <1>2, ForeignMerged
<1>3. CASE Returned \/ UNCHANGED vars
  <2>1. UNCHANGED vars
      BY <1>3 DEF Returned
  <2>. QED  BY <2>1 DEF vars, CollectorInv, TypeOK, Filed, Origins, NothingLost,
                        NothingLeaked, SentLinks, SentTiles
<1>4. CASE \E userGroups \in SUBSET (UserGroups \cup {Wildcard}) : Respond(userGroups)
    BY <1>4, Answered
<1>5. CASE \E o \in StaticLink : collectStaticLinks(o)
    BY <1>5, StaticRead
<1>6. CASE \E o \in BookmarkGroup : collectBookmarkGroups(o)
    BY <1>6, GroupRead
<1>7. CASE \E o \in Bookmark : collectBookmarks(o)
    BY <1>7, BookmarkRead
<1>8. CASE \E o \in ForecastleApp : collectForecastleApps(o) \/ collectForeignApps(o)
    BY <1>8, AppRead
<1>9. CASE \E o \in Resource, kind \in AnnotatedKinds :
             \/ Annotated(kind, o, TRUE) \/ Annotated(kind, o, FALSE)
             \/ collectForeignLinks(kind, o)
    BY <1>9, ResourceRead
<1>10. CASE \E o \in InfoTile : collectInfoTiles(o)
    BY <1>10, TileRead
<1>11. CASE \E group \in Names, detail \in RemoteDetails, added \in RemoteLinks :
              mergeRemoteData(group, detail, added)
    BY <1>11, RemoteMerged
<1>12. ASSUME NEW o \in Resource,
              \/ collectIngresses(o) \/ collectHTTPRoutes(o) \/ collectGRPCRoutes(o)
              \/ collectTLSRoutes(o) \/ collectTCPRoutes(o) \/ collectIngressRoutes(o)
              \/ collectServices(o) \/ collectEndpointSlices(o) \/ collectDNSEndpoints(o)
              \/ \E kind \in AnnotatedKinds : collectForeignLinks(kind, o)
       PROVE  \E kind \in AnnotatedKinds :
                \/ Annotated(kind, o, TRUE) \/ Annotated(kind, o, FALSE)
                \/ collectForeignLinks(kind, o)
    BY <1>12 DEF AnnotatedKinds, collectIngresses, collectHTTPRoutes, collectGRPCRoutes,
                 collectTLSRoutes, collectTCPRoutes, collectIngressRoutes, collectServices,
                 collectEndpointSlices, collectDNSEndpoints
<1>. QED  BY <1>1, <1>2, <1>3, <1>4, <1>5, <1>6, <1>7, <1>8, <1>9, <1>10, <1>11, <1>12,
             Zenon DEF Next

\* The invariant of a call of collectDashboard.
THEOREM CollectorInvariant == Spec => []CollectorInv
BY InitInv, StepInv, PTL DEF Spec

\* Names, details, links and tiles keep their types, every group of the
\* response is among its sorted groups, and there is no response before the
\* call is over.
THEOREM TypeCorrect == Spec => []TypeOK
<1>1. CollectorInv => TypeOK
    BY DEF CollectorInv
<1>. QED  BY <1>1, CollectorInvariant, PTL

\* Whichever source was the first to mention a group, and whatever the lists
\* returned, the response holds every link and tile its reader may see.
THEOREM EverythingSent == Spec => []NothingLost
<1>1. CollectorInv => NothingLost
    BY DEF CollectorInv
<1>. QED  BY <1>1, CollectorInvariant, PTL

\* Peers are served only what is local and marked for replication, users
\* only what their groups may see and what foreign clusters have marked.
THEOREM NothingElseSent == Spec => []NothingLeaked
<1>1. CollectorInv => NothingLeaked
    BY DEF CollectorInv
<1>. QED  BY <1>1, CollectorInvariant, PTL

\* Peers and foreign clusters add groups and change none.
THEOREM RemoteChangesNoGroup == Spec => LocalGroupsKept
<1>1. ASSUME CollectorInv, [Next]_vars
      PROVE  [(pc \in RemotePhases) =>
                \A g \in DOMAIN details : /\ g \in DOMAIN details'
                                          /\ details'[g] = details[g]]_vars
  <2>. SUFFICES ASSUME Next, pc \in {"remote", "foreign", "foreignapps", "merge"}
                PROVE  \A g \in DOMAIN details : /\ g \in DOMAIN details'
                                                 /\ details'[g] = details[g]
      BY <1>1, PhaseNames
  <2>1. CASE details' = details
      BY <2>1
  <2>2. CASE mergeForeignClusterData
      BY <2>2 DEF mergeForeignClusterData
  <2>3. ASSUME NEW group \in Names, NEW detail \in RemoteDetails, NEW added \in RemoteLinks,
               mergeRemoteData(group, detail, added)
        PROVE  \A g \in DOMAIN details : /\ g \in DOMAIN details'
                                         /\ details'[g] = details[g]
      BY <2>3 DEF mergeRemoteData, Ensure
  <2>4. \/ details' = details
        \/ mergeForeignClusterData
        \/ \E group \in Names, detail \in RemoteDetails, added \in RemoteLinks :
             mergeRemoteData(group, detail, added)
      BY PhaseNames, Zenon DEF Next, Continue, NoForeignCluster, ListFails, Returned, vars,
         Respond, collectStaticLinks, collectBookmarkGroups, collectBookmarks,
         collectForecastleApps, collectForeignApps, collectIngresses, collectHTTPRoutes,
         collectGRPCRoutes, collectTLSRoutes, collectTCPRoutes, collectIngressRoutes,
         collectServices, collectEndpointSlices, collectDNSEndpoints, Annotated,
         collectForeignLinks, collectInfoTiles, AddForeign
  <2>. QED  BY <2>1, <2>2, <2>3, <2>4
<1>. QED  BY <1>1, CollectorInvariant, PTL DEF Spec, LocalGroupsKept

-----------------------------------------------------------------------------
(* The order of groups.                                                    *)

\* The comparison, key by key.
LEMMA ComparedByKeys ==
    ASSUME NEW g, NEW h
    PROVE  LET c == priorityClassRank(details[g].class)
                      - priorityClassRank(details[h].class)
               p == Wrap(details[g].priority - details[h].priority)
               d == Alpha[details[g].display] - Alpha[details[h].display]
               n == Alpha[g] - Alpha[h]
           IN  Precedes(g, h) <=> \/ c < 0
                                  \/ c = 0 /\ p < 0
                                  \/ c = 0 /\ p = 0 /\ d < 0
                                  \/ c = 0 /\ p = 0 /\ d = 0 /\ n < 0
<1>. DEFINE diff == <<priorityClassRank(details[g].class)
                        - priorityClassRank(details[h].class),
                      Wrap(details[g].priority - details[h].priority),
                      Alpha[details[g].display] - Alpha[details[h].display],
                      Alpha[g] - Alpha[h]>>
            less(k) == diff[k] < 0 /\ \A j \in 1 .. k - 1 : diff[j] = 0
<1>1. Precedes(g, h) <=> \E k \in 1 .. 4 : less(k)
    BY DEF Precedes
<1>2. 1 .. 4 = {1, 2, 3, 4}
    OBVIOUS
<1>3. 1 .. 1 - 1 = {} /\ 1 .. 2 - 1 = {1} /\ 1 .. 3 - 1 = {1, 2} /\ 1 .. 4 - 1 = {1, 2, 3}
    OBVIOUS
<1>4. Precedes(g, h) <=> less(1) \/ less(2) \/ less(3) \/ less(4)
    BY <1>1, <1>2, Zenon
<1>5. /\ less(1) <=> diff[1] < 0
      /\ less(2) <=> diff[2] < 0 /\ diff[1] = 0
      /\ less(3) <=> diff[3] < 0 /\ diff[1] = 0 /\ diff[2] = 0
      /\ less(4) <=> diff[4] < 0 /\ diff[1] = 0 /\ diff[2] = 0 /\ diff[3] = 0
    BY <1>3, Zenon
<1>. QED  BY <1>4, <1>5

\* As long as no two priorities are further apart than the largest int, the
\* comparison function of sortLinkGroups is a strict weak order, and so the
\* groups come out sorted: by class, then priority, display name and name.
THEOREM GroupsOrdered ==
    ASSUME TypeOK,
           \A g, h \in DOMAIN details :
             details[g].priority - details[h].priority \in -MaxInt .. MaxInt
    PROVE  Consistent
<1>. DEFINE c(x) == priorityClassRank(details[x].class)
            p(x) == details[x].priority
            d(x) == Alpha[details[x].display]
            n(x) == Alpha[x]
<1>1. ASSUME NEW x \in DOMAIN details
      PROVE  c(x) \in Int /\ p(x) \in Int /\ d(x) \in Int /\ n(x) \in Int
  <2>1. details[x] \in Detail /\ x \in Names
      BY DEF TypeOK
  <2>2. p(x) \in Int /\ details[x].display \in Names
      BY <2>1, CollectorAssumption DEF Detail, Priorities
  <2>3. d(x) \in Int /\ n(x) \in Int
      BY <2>1, <2>2, CollectorAssumption
  <2>4. c(x) \in Int
    <3>1. \A class : priorityClassRank(class) \in {0, 1, 2}
        BY Zenon DEF priorityClassRank
    <3>. QED  BY <3>1
  <2>. QED  BY <2>2, <2>3, <2>4
<1>2. \A x \in -MaxInt .. MaxInt : Wrap(x) = x
    BY CollectorAssumption DEF Wrap
<1>3. ASSUME NEW x \in DOMAIN details, NEW y \in DOMAIN details
      PROVE  Precedes(x, y) <=>
               \/ c(x) < c(y)
               \/ c(x) = c(y) /\ p(x) < p(y)
               \/ c(x) = c(y) /\ p(x) = p(y) /\ d(x) < d(y)
               \/ c(x) = c(y) /\ p(x) = p(y) /\ d(x) = d(y) /\ n(x) < n(y)
  <2>1. Wrap(p(x) - p(y)) = p(x) - p(y)
      BY <1>2
  <2>2. Precedes(x, y) <=>
          \/ c(x) - c(y) < 0
          \/ c(x) - c(y) = 0 /\ p(x) - p(y) < 0
          \/ c(x) - c(y) = 0 /\ p(x) - p(y) = 0 /\ d(x) - d(y) < 0
          \/ c(x) - c(y) = 0 /\ p(x) - p(y) = 0 /\ d(x) - d(y) = 0 /\ n(x) - n(y) < 0
      BY <2>1, ComparedByKeys
  <2>. HIDE DEF c, p, d, n
  <2>. QED  BY <1>1, <2>2
<1>. HIDE DEF c, p, d, n
<1>. QED  BY <1>1, <1>3 DEF Consistent
=============================================================================

------------------------- MODULE DashboardCollector -------------------------
(***************************************************************************)
(* One call of collectDashboard (web/dashboard.go).                        *)
(*                                                                         *)
(* The call lists one kind of object after the other and every List reads  *)
(* a cache that other goroutines keep changing, so what a List returns is  *)
(* not related to what an earlier one returned: each step below takes an   *)
(* arbitrary object, and Continue ends the list.  Kinds whose collection   *)
(* commutes share a phase.                                                 *)
(*                                                                         *)
(* Names are compared up to case in some places and exactly in others:     *)
(* Alpha is the place of a name in the alphabetical order of the lower     *)
(* case names, so names that differ in case only have the same place.      *)
(***************************************************************************)
EXTENDS Integers, FiniteSets, Sequences

CONSTANTS
    Names,          \* names of groups, also used as display names
    NoName,         \* the empty string
    Alpha,          \* the alphabetical order of names
    UserGroups,     \* groups that users can be in
    Wildcard,       \* allLinkGroupsWildcard
    Configs,        \* possible values of c.linkGroups
    PeerPriorities, \* priorities of groups that peers send
    MaxInt,         \* the largest int
    MaxEntries      \* bound: groups, links and tiles read in a call

VARIABLES
    pc,             \* the source that is being read
    localOnly,      \* the call is made by the sync handler
    details,        \* groupDetails
    links,          \* the values of groups: links, each with its group
    tiles,          \* the values of tiles, each with its group
    temp,           \* tempGroups of the foreign cluster being read
    audience,       \* userGroups
    response,       \* the DashboardResponse
    read            \* how many entries were read, for the bound

vars == <<pc, localOnly, details, links, tiles, temp, audience, response, read>>

Phases == <<"static", "bookmarkgroups", "bookmarks", "forecastle", "annotated",
            "tiles", "remote", "foreign", "foreignapps", "merge", "respond">>
LocalPhases == {Phases[i] : i \in 2 .. 6}
RemotePhases == {Phases[i] : i \in 7 .. 10}

Classes == {"first", "default", "last"}
Priorities == -MaxInt - 1 .. MaxInt
Detail == [class : Classes, priority : Priorities, display : Names,
           source : {"local", "infotile", "sync", "foreign"}, replicate : BOOLEAN]

AnnotatedKinds == {"ingress", "httproute", "grpcroute", "tlsroute", "tcproute",
                   "ingressroute", "service", "endpointslice", "dnsendpoint"}
Sources == AnnotatedKinds \cup {"static", "bookmark", "forecastleapp"}
Link == [source : Sources, origin : {"local", "sync", "foreign"}, group : Names,
         groups : SUBSET UserGroups, replicate : BOOLEAN]
Tile == [group : Names, replicate : BOOLEAN]

\* The objects that lists return, by what the collection looks at.  A
\* resource is labelled as enabled or not and has its URL in an annotation,
\* in its spec (a host, a port) or nowhere.  complete: it has a name and a
\* URL, its own or one that can be resolved.  mine: of forecastleInstance.
OptionalNames == Names \cup {NoName}
StaticLink == [linkGroup : OptionalNames, group : OptionalNames, complete : BOOLEAN,
               groups : SUBSET UserGroups]
BookmarkGroup == [name : Names, display : OptionalNames, replicate : BOOLEAN]
Bookmark == [group : Names, reachable : BOOLEAN, groups : SUBSET UserGroups,
             replicate : BOOLEAN]
ForecastleApp == [group : OptionalNames, mine : BOOLEAN, complete : BOOLEAN,
                  groups : SUBSET UserGroups, replicate : BOOLEAN]
Resource == [enabled : BOOLEAN, group : OptionalNames, namespace : Names,
             url : {"annotation", "spec", "none"}, replicate : BOOLEAN]
InfoTile == [name : Names, group : OptionalNames, replicate : BOOLEAN]

\* An entry of the configured link groups.
LinkGroup == [name : OptionalNames, display : OptionalNames, class : Classes,
              priority : Priorities]

ASSUME CollectorAssumption ==
    /\ NoName \notin Names
    /\ Alpha \in [Names -> Int]
    /\ Wildcard \notin UserGroups
    /\ PeerPriorities \subseteq Priorities
    /\ \A config \in Configs : config \in Seq(LinkGroup)
    /\ MaxEntries \in Nat /\ MaxInt \in Nat

\* The groups of a response come in the order of its linkGroups.
NoResponse == [linkGroups |-> <<>>, groups |-> {}]

TypeOK ==
    /\ pc \in {Phases[i] : i \in 1 .. 11} \cup {"done", "failed"}
    /\ localOnly \in BOOLEAN
    /\ DOMAIN details \subseteq Names
    /\ \A g \in DOMAIN details : details[g] \in Detail
    /\ links \in SUBSET Link
    /\ tiles \in SUBSET Tile
    /\ temp \in SUBSET Link
    /\ audience \in SUBSET (UserGroups \cup {Wildcard})
    /\ read \in 0 .. MaxEntries
    /\ pc # "done" => response = NoResponse
    /\ response.linkGroups \in Seq(DOMAIN details)
    /\ \A e \in response.groups : \E i \in DOMAIN response.linkGroups :
         e.group = response.linkGroups[i]

-----------------------------------------------------------------------------
(* Groups.                                                                 *)

Default(name, source) ==
    [class |-> "default", priority |-> 0, display |-> name, source |-> source,
     replicate |-> FALSE]

\* The details with one more group, or unchanged when the group exists.
Ensure(known, name, detail) ==
    [g \in DOMAIN known \cup {name} |-> IF g \in DOMAIN known THEN known[g] ELSE detail]

\* ensureLinkGroup: the first source to mention a group defines it.
ensureLinkGroup(known, name) == Ensure(known, name, Default(name, "local"))

\* initLinkGroups: the last entry of a name counts, entries without a name
\* are skipped.
initLinkGroups(config) ==
    LET named == {config[i].name : i \in DOMAIN config} \ {NoName}
        last(g) == CHOOSE i \in DOMAIN config :
                     /\ config[i].name = g
                     /\ \A j \in DOMAIN config : config[j].name = g => j <= i
    IN  [g \in named |->
           [class |-> config[last(g)].class, priority |-> config[last(g)].priority,
            display |-> IF config[last(g)].display = NoName THEN g
                                                           ELSE config[last(g)].display,
            source |-> "local", replicate |-> FALSE]]

\* resolveLinkGroupName: the groups it may return.  It ranges over a map, so
\* any of several groups that match up to case may be the one.
resolveLinkGroupName(raw, known) ==
    LET matches == {g \in DOMAIN known : \/ Alpha[known[g].display] = Alpha[raw]
                                         \/ Alpha[g] = Alpha[raw]}
    IN  CASE raw = NoName         -> {}
          [] raw \in DOMAIN known -> {raw}
          [] OTHER                -> IF matches = {} THEN {raw} ELSE matches

\* priorityClassRank
priorityClassRank(class) == CASE class = "first" -> 0 [] class = "last" -> 2 [] OTHER -> 1

\* The difference of two ints, which wraps around.
Wrap(x) == CASE x > MaxInt      -> x - 2 * (MaxInt + 1)
             [] x < -MaxInt - 1 -> x + 2 * (MaxInt + 1)
             [] OTHER           -> x

\* The comparison function of sortLinkGroups: the first difference decides.
Precedes(g, h) ==
    LET difference == <<priorityClassRank(details[g].class)
                          - priorityClassRank(details[h].class),
                        Wrap(details[g].priority - details[h].priority),
                        Alpha[details[g].display] - Alpha[details[h].display],
                        Alpha[g] - Alpha[h]>>
    IN  \E k \in 1 .. 4 : difference[k] < 0 /\ \A j \in 1 .. k - 1 : difference[j] = 0

\* What slices.SortStableFunc requires of a comparison: a strict weak order.
Consistent ==
    \A g, h, k \in DOMAIN details :
        /\ ~ Precedes(g, g)
        /\ Precedes(g, h) /\ Precedes(h, k) => Precedes(g, k)
        /\ ~ Precedes(g, h) /\ ~ Precedes(h, k) => ~ Precedes(g, k)

\* sortLinkGroups: groups that compare equal come in the order of the map.  If
\* the comparison is not consistent, any order may come out.
sortLinkGroups ==
    {s \in [1 .. Cardinality(DOMAIN details) -> DOMAIN details] :
        \A i, j \in DOMAIN s :
            i < j => s[i] # s[j] /\ (Consistent => ~ Precedes(s[j], s[i]))}

-----------------------------------------------------------------------------
(* Filters.                                                                *)

\* The sync endpoint serves whatever was collected.
FaultKeepAllLinks(ls) == ls

filterLinksForReplication(ls) == {l \in ls : l.replicate}
filterTilesForReplication(ts) == {t \in ts : t.replicate}

linkAllowedForGroups(l, userGroups) ==
    l.groups = {} \/ Wildcard \in userGroups \/ l.groups \cap userGroups # {}

filterLinksForGroups(ls, userGroups) == {l \in ls : linkAllowedForGroups(l, userGroups)}

-----------------------------------------------------------------------------
(* The call.                                                               *)

Init ==
    /\ pc = "static"
    /\ localOnly \in BOOLEAN
    /\ \E config \in Configs : details = initLinkGroups(config)
    /\ links = {} /\ tiles = {} /\ temp = {}
    /\ audience = {}
    /\ response = NoResponse
    /\ read = 0

\* Another entry is read.
Read == read < MaxEntries /\ read' = read + 1

\* A link of the local cluster or configuration joins its group.
AddLink(source, group, groups, replicate) ==
    /\ Read
    /\ details' = ensureLinkGroup(details, group)
    /\ links' = links \cup {[source |-> source, origin |-> "local", group |-> group,
                             groups |-> groups, replicate |-> replicate]}
    /\ UNCHANGED <<pc, localOnly, tiles, temp, audience, response>>

\* The first name that is not empty.
firstNonEmpty(name, other) == IF name = NoName THEN other ELSE name

\* collectStaticLinks; static links are never replicated.
collectStaticLinks(o) ==
    /\ pc = "static"
    /\ o.complete
    /\ \E group \in resolveLinkGroupName(firstNonEmpty(o.linkGroup, o.group), details) :
         AddLink("static", group, o.groups, FALSE)

\* A BookmarkGroup without a name blanks the one the group has.
FaultGroupBlanksName(o) ==
    /\ pc = "bookmarkgroups"
    /\ Read
    /\ details' = [ensureLinkGroup(details, o.name) EXCEPT
                     ![o.name].replicate = o.replicate, ![o.name].display = o.display]
    /\ UNCHANGED <<pc, localOnly, links, tiles, temp, audience, response>>

\* collectBookmarkGroups, first list: the metadata of a BookmarkGroup.
collectBookmarkGroups(o) ==
    /\ pc = "bookmarkgroups"
    /\ Read
    /\ details' = [ensureLinkGroup(details, o.name) EXCEPT
                     ![o.name].replicate = o.replicate,
                     ![o.name].display = firstNonEmpty(o.display, @)]
    /\ UNCHANGED <<pc, localOnly, links, tiles, temp, audience, response>>

\* collectBookmarkGroups, second list: only Bookmarks that were reachable.
\* A replicated group replicates all its bookmarks.
collectBookmarks(o) ==
    /\ pc = "bookmarks"
    /\ o.reachable
    /\ AddLink("bookmark", o.group, o.groups,
               o.replicate \/ ensureLinkGroup(details, o.group)[o.group].replicate)

\* collectForecastleApps
collectForecastleApps(o) ==
    /\ pc = "forecastle"
    /\ o.mine /\ o.complete
    /\ \E group \in resolveLinkGroupName(o.group, details) :
         AddLink("forecastleapp", group, o.groups, o.replicate)

\* resourceMetaFrom: the group is that of the annotation or the namespace.
GroupOf(o) == firstNonEmpty(o.group, o.namespace)

\* Resources are listed by the label and need a URL.
Shown(o, hasHost) ==
    /\ o.enabled
    /\ o.url = "annotation" \/ (hasHost /\ o.url = "spec")

\* An annotated resource; these carry no user groups.
Annotated(kind, o, hasHost) ==
    /\ pc = "annotated"
    /\ Shown(o, hasHost)
    /\ AddLink(kind, GroupOf(o), {}, o.replicate)

collectIngresses(o) == Annotated("ingress", o, TRUE)
collectHTTPRoutes(o) == Annotated("httproute", o, TRUE)
collectGRPCRoutes(o) == Annotated("grpcroute", o, TRUE)
collectTLSRoutes(o) == Annotated("tlsroute", o, TRUE)
collectTCPRoutes(o) == Annotated("tcproute", o, FALSE)
collectIngressRoutes(o) == Annotated("ingressroute", o, TRUE)
collectServices(o) == Annotated("service", o, TRUE)
collectEndpointSlices(o) == Annotated("endpointslice", o, FALSE)
collectDNSEndpoints(o) == Annotated("dnsendpoint", o, TRUE)

\* collectInfoTiles that leaves the group to be defined by someone else.
FaultTilesWithoutGroup(o) ==
    /\ pc = "tiles"
    /\ Read
    /\ tiles' = tiles \cup {[group |-> firstNonEmpty(o.group, o.name),
                             replicate |-> o.replicate]}
    /\ UNCHANGED <<pc, localOnly, details, links, temp, audience, response>>

\* collectInfoTiles; a tile without a group is in a group of its own name.
collectInfoTiles(o) ==
    /\ pc = "tiles"
    /\ Read
    /\ LET group == firstNonEmpty(o.group, o.name)
       IN  /\ details' = Ensure(details, group, Default(group, "infotile"))
           /\ tiles' = tiles \cup {[group |-> group, replicate |-> o.replicate]}
    /\ UNCHANGED <<pc, localOnly, links, temp, audience, response>>

\* mergeRemoteData that takes over the metadata of the peer.
FaultRemoteRedefines(group, detail, added) ==
    /\ pc = "remote"
    /\ Read
    /\ details' = [g \in DOMAIN details \cup {group} |->
                     IF g = group THEN [detail EXCEPT !.source = "sync"] ELSE details[g]]
    /\ links' = links \cup {[l EXCEPT !.origin = "sync", !.group = group] : l \in added}
    /\ UNCHANGED <<pc, localOnly, tiles, temp, audience, response>>

\* mergeRemoteData: one group of a peer's response, with its links; Tiles
\* are not merged.  The group may be new here.
mergeRemoteData(group, detail, added) ==
    /\ pc = "remote"
    /\ Read
    /\ details' = Ensure(details, group, [detail EXCEPT !.source = "sync"])
    /\ links' = links \cup {[l EXCEPT !.origin = "sync", !.group = group] : l \in added}
    /\ UNCHANGED <<pc, localOnly, tiles, temp, audience, response>>

\* A link found in a foreign cluster.
AddForeign(source, group, groups, replicate) ==
    /\ Read
    /\ temp' = temp \cup {[source |-> source, origin |-> "foreign", group |-> group,
                           groups |-> groups, replicate |-> replicate]}
    /\ UNCHANGED <<pc, localOnly, details, links, tiles, audience, response>>

\* collectForeignLinks, all kinds but the last.
collectForeignLinks(kind, o) ==
    /\ pc = "foreign"
    /\ kind \in AnnotatedKinds \ {"endpointslice", "dnsendpoint"}
    /\ Shown(o, kind # "tcproute")
    /\ AddForeign(kind, GroupOf(o), {}, o.replicate)

\* collectForeignLinks, ForecastleApps, of any instance.  Their groups are
\* resolved among the groups found in that cluster.
collectForeignApps(o) ==
    /\ pc = "foreignapps"
    /\ o.complete
    /\ LET known == [g \in {l.group : l \in temp} |-> Default(g, "local")]
       IN  \E group \in resolveLinkGroupName(o.group, known) :
             AddForeign("forecastleapp", group, o.groups, o.replicate)

\* mergeForeignClusterData: the replicated links of the cluster, then the
\* next cluster if there is one.
mergeForeignClusterData ==
    /\ pc = "merge"
    /\ LET new == {l.group : l \in filterLinksForReplication(temp)} \ DOMAIN details
       IN  details' = [g \in DOMAIN details \cup new |->
                         IF g \in new THEN Default(g, "foreign") ELSE details[g]]
    /\ links' = links \cup filterLinksForReplication(temp)
    /\ temp' = {}
    /\ pc' \in {"foreign", "respond"}
    /\ UNCHANGED <<localOnly, tiles, audience, response, read>>

\* A list ends: it has no more objects, the kind is not served by the
\* cluster, or, in a foreign cluster, it failed.  The sync handler skips
\* remote data.
Continue ==
    \E i \in 1 .. 9 :
        /\ pc = Phases[i]
        /\ pc' = IF Phases[i] = "tiles" /\ localOnly THEN "respond" ELSE Phases[i + 1]
        /\ UNCHANGED <<localOnly, details, links, tiles, temp, audience, response, read>>

\* There is no foreign cluster that is active.
NoForeignCluster ==
    /\ pc = "remote"
    /\ pc' = "respond"
    /\ UNCHANGED <<localOnly, details, links, tiles, temp, audience, response, read>>

\* An error of any source fails the call.
FaultAnyListFails ==
    /\ pc \in LocalPhases \cup RemotePhases
    /\ pc' = "failed"
    /\ UNCHANGED <<localOnly, details, links, tiles, temp, audience, response, read>>

\* A List of the local cluster fails, and with it the call.
ListFails ==
    /\ pc \in LocalPhases
    /\ pc' = "failed"
    /\ UNCHANGED <<localOnly, details, links, tiles, temp, audience, response, read>>

\* The entry of a group.  The sync handler gets only what is marked for
\* replication.
DashboardGroup(g, userGroups) ==
    LET ls == IF localOnly THEN filterLinksForReplication(links) ELSE links
        ts == IF localOnly THEN filterTilesForReplication(tiles) ELSE tiles
    IN  [group |-> g, tiles |-> {t \in ts : t.group = g},
         links |-> filterLinksForGroups({l \in ls : l.group = g}, userGroups)]

\* Groups with something to show, and for peers all that are replicated.
Listed(e) == \/ e.links # {} \/ e.tiles # {}
             \/ localOnly /\ details[e.group].replicate

\* The end of collectDashboard: the filters, the order, the groups that have
\* something to show.  The sync handler asks for the wildcard group, a user
\* for the groups of the session.
Respond(userGroups) ==
    /\ pc = "respond"
    /\ (Wildcard \in userGroups) <=> localOnly
    /\ audience' = userGroups
    /\ \E order \in sortLinkGroups :
         response' = [linkGroups |-> order,
                      groups |-> {e \in {DashboardGroup(order[i], userGroups) :
                                            i \in DOMAIN order} : Listed(e)}]
    /\ pc' = "done"
    /\ UNCHANGED <<localOnly, details, links, tiles, temp, read>>

\* The call has returned.
Returned == pc \in {"done", "failed"} /\ UNCHANGED vars

-----------------------------------------------------------------------------
\* What a peer may have sent: a group of any class, with no link or one.
RemoteLinks ==
    {{}} \cup {{[source |-> "bookmark", origin |-> "sync", groups |-> gs,
                 group |-> CHOOSE g \in Names : TRUE, replicate |-> FALSE]} :
                   gs \in SUBSET UserGroups}
RemoteDetails == [class : Classes, priority : PeerPriorities, display : Names,
                  source : {"sync"}, replicate : {FALSE}]

Next ==
    \/ Continue \/ NoForeignCluster \/ ListFails \/ mergeForeignClusterData \/ Returned
    \/ \E userGroups \in SUBSET (UserGroups \cup {Wildcard}) : Respond(userGroups)
    \/ \E o \in StaticLink : collectStaticLinks(o)
    \/ \E o \in BookmarkGroup : collectBookmarkGroups(o)
    \/ \E o \in Bookmark : collectBookmarks(o)
    \/ \E o \in ForecastleApp : collectForecastleApps(o) \/ collectForeignApps(o)
    \/ \E o \in Resource :
         \/ collectIngresses(o) \/ collectHTTPRoutes(o) \/ collectGRPCRoutes(o)
         \/ collectTLSRoutes(o) \/ collectTCPRoutes(o) \/ collectIngressRoutes(o)
         \/ collectServices(o) \/ collectEndpointSlices(o) \/ collectDNSEndpoints(o)
         \/ \E kind \in AnnotatedKinds : collectForeignLinks(kind, o)
    \/ \E o \in InfoTile : collectInfoTiles(o)
    \/ \E group \in Names, detail \in RemoteDetails, added \in RemoteLinks :
         mergeRemoteData(group, detail, added)

Spec == Init /\ [][Next]_vars

\* The call runs on: lists are finite and, for remote data, bounded in time.
\* How many foreign clusters there are is bounded too.
FairSpec == /\ Spec
            /\ WF_vars(Continue)
            /\ SF_vars(mergeForeignClusterData /\ pc' = "respond")
            /\ WF_vars(\E userGroups \in SUBSET (UserGroups \cup {Wildcard}) :
                          Respond(userGroups))

-----------------------------------------------------------------------------
\* Everything that was sent in a response.
SentLinks == UNION {e.links : e \in response.groups}
SentTiles == UNION {e.tiles : e \in response.groups}

\* The response is put together from the groups in groupDetails, while links
\* and tiles are filed by their group's name: none of them gets lost because
\* no source, of the many that may have been the first, has defined its
\* group.
NothingLost ==
    pc = "done" =>
        /\ \A l \in links : (l.groups = {} \/ l.groups \cap audience # {}) /\ ~ localOnly
                              => l \in SentLinks
        /\ \A l \in links : l.replicate /\ localOnly => l \in SentLinks
        /\ \A t \in tiles : t.replicate \/ ~ localOnly => t \in SentTiles

\* The sync response holds only local links and tiles that are marked for
\* replication; users see no link that is restricted to groups they are not
\* in, wherever it comes from, and no unmarked link of a foreign cluster.
NothingLeaked ==
    pc = "done" =>
        /\ localOnly => /\ \A l \in SentLinks : l.replicate /\ l.origin = "local"
                        /\ \A t \in SentTiles : t.replicate
        /\ ~ localOnly => \A l \in SentLinks :
                            /\ l.groups = {} \/ l.groups \cap audience # {}
                            /\ l.origin = "foreign" => l.replicate

\* Groups that the local cluster or configuration defines are never renamed,
\* moved or removed by what peers and foreign clusters send, whatever their
\* order.
LocalGroupsKept ==
    [][(pc \in RemotePhases) =>
         \A g \in DOMAIN details : /\ g \in DOMAIN details'
                                   /\ details'[g] = details[g]]_vars

\* A peer or a foreign cluster that is unavailable does not break the
\* dashboard: once the local cluster is read the call succeeds
\* (dashboard.go 304-307).
RemoteNeverBreaks == pc = "remote" ~> pc = "done"

\* A group that only its BookmarkGroup defines (no link or tile is in it and
\* nothing is configured), and that is not marked for replication, is not in
\* the sync response (bookmarkgroup_types.go 35-37).
UnmarkedGroupsHidden ==
    pc = "done" /\ localOnly =>
        \A i \in DOMAIN response.linkGroups :
            \/ details[response.linkGroups[i]].replicate
            \/ \E x \in links \cup tiles : x.group = response.linkGroups[i]

=============================================================================

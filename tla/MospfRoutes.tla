---------------------------- MODULE MospfRoutes ----------------------------
(***************************************************************************)
(* update_rtable of 07-mospf/mospf_daemon.c: the routing table that router *)
(* self computes from its database, in a network whose links no longer     *)
(* change while self still hears of them.  The nodes of the search are the *)
(* routers of the database and, for a link to none of them, the network of *)
(* that link.  A router's node stands for one network as well, that of the *)
(* last link to it.                                                        *)
(***************************************************************************)
EXTENDS Integers, SequencesExt

CONSTANTS
    Router,     \* router ids
    NoRouter,   \* router id 0: the network has no other router
    Links       \* Links[r]: the array of r's update, in interface order

VARIABLES
    self,   \* the router that is looked at
    known,  \* mospf_db: the routers it has an update of, in list order
    rtable  \* the entries with a gateway, in list order

vars == <<self, known, rtable>>
-----------------------------------------------------------------------------
(* Names ending in _bug are mutations: the definition of the same name     *)
(* with one plausible mistake.  No specification uses them.                *)

IsRouter(l) == l.rid # NoRouter

Neighbours(r) ==
    LET links == SelectSeq(Links[r], IsRouter)
    IN [i \in DOMAIN links |-> links[i].rid]

(* graph[o][j]: the node at the other end of link j of o.                  *)
Node(db, o, j) ==
    LET q == Links[o][j].rid
    IN IF q \in ToSet(db) THEN q ELSE <<o, j>>

(* The network of a node: a later link to a router overwrites it.          *)
Network(db, node) ==
    IF node \in Router
    THEN LET IsToNode(l) == l.rid = node
         IN Last(SelectSeq(FlattenSeq([i \in DOMAIN db |-> Links[db[i]]]), IsToNode)).net
    ELSE Links[node[1]][node[2]].net

(* A node is reached from one whose gateway is gw.                         *)
Visit(db, s, node, gw) ==
    IF node \in s.visited THEN s
    ELSE [visited |-> s.visited \cup {node},
          queue   |-> Append(s.queue, [node |-> node, gw |-> gw]),
          routes  |-> Append(s.routes, [net |-> Network(db, node), gw |-> gw])]

(* The links of a node; a network has none.                                *)
LinksOf(node) == IF node \in Router THEN Links[node] ELSE <<>>

(* One round of the search: the first node of the queue.                   *)
Expand_bug(db, s) ==  \* takes the last node: depth first
    LET h == Last(s.queue)
        Follow(t, j) == Visit(db, t, Node(db, h.node, j), h.gw)
    IN FoldLeftDomain(Follow, [s EXCEPT !.queue = Front(@)], LinksOf(h.node))

Expand(db, s) ==
    LET h == Head(s.queue)
        Follow(t, j) == Visit(db, t, Node(db, h.node, j), h.gw)
    IN FoldLeftDomain(Follow, [s EXCEPT !.queue = Tail(@)], LinksOf(h.node))

RECURSIVE Search(_, _)
Search(db, s) == IF s.queue = <<>> THEN s ELSE Search(db, Expand(db, s))

(* update_rtable: the search starts at the neighbours in the database,     *)
(* which get no entry themselves.                                          *)
UpdateRtable(db) ==
    LET IsKnown(q) == q \in ToSet(db)
        first == SelectSeq(Neighbours(self), IsKnown)
    IN Search(db, [visited |-> ToSet(first),
                   queue   |-> [i \in DOMAIN first |-> [node |-> first[i], gw |-> first[i]]],
                   routes  |-> <<>>]).routes
-----------------------------------------------------------------------------
Init ==
    /\ self \in Router
    /\ known = <<>> /\ rtable = <<>>

(* handle_mospf_lsu with an update of o: a new entry, or a newer one in    *)
(* the place of the old.                                                   *)
Learn(o) ==
    /\ o # self
    /\ known' = IF o \in ToSet(known) THEN known ELSE Append(known, o)
    /\ rtable' = UpdateRtable(known')
    /\ UNCHANGED self

(* checking_database_thread deletes an entry, and leaves the table.        *)
Forget(o) ==
    /\ o \in ToSet(known)
    /\ known' = Remove(known, o)
    /\ UNCHANGED <<self, rtable>>

Next == \E o \in Router : Learn(o) \/ Forget(o)

Spec == Init /\ [][Next]_vars
-----------------------------------------------------------------------------
Networks(r) == {Links[r][i].net : i \in DOMAIN Links[r]}

(* Networks with one router, where the hosts are.                          *)
HostNetworks(r) == {l.net : l \in {k \in ToSet(Links[r]) : ~IsRouter(k)}}

(* longest_prefix_match among networks that do not overlap: the first      *)
(* entry for n; no gateway if there is none.                               *)
Gateway(n) ==
    LET IsFor(e) == e.net = n
        found == SelectSeq(rtable, IsFor)
    IN IF found = <<>> THEN NoRouter ELSE Head(found).gw

(* Within(K, q)[k]: the routers up to k hops from q, through the set K.    *)
Within(K, q) ==
    LET within[k \in Nat] ==
          IF k = 0 THEN {q} \cap K
          ELSE within[k - 1] \cup
               {o \in K : \E p \in within[k - 1] : o \in ToSet(Neighbours(p))}
    IN [k \in 0..Len(known) |-> within[k]]

(* Neighbour q is on a shortest way from self to o through the set K.      *)
LeadsTo(K, q, o) ==
    \E k \in 0..Len(known) :
        /\ o \in Within(K, q)[k]
        /\ \A p \in ToSet(Neighbours(self)), j \in 0..(k - 1) : o \notin Within(K, p)[j]

ShortestPaths ==
    LET K == ToSet(known)
    IN \A o \in Router \ {self} : \A n \in HostNetworks(o) :
         IF \E q \in ToSet(Neighbours(self)) : LeadsTo(K, q, o)
         THEN /\ Gateway(n) \in ToSet(Neighbours(self))
              /\ LeadsTo(K, Gateway(n), o)
         ELSE Gateway(n) = NoRouter

(* 07-mospf.md:32: update_rtable finds the shortest paths and the next hop *)
(* on them.  When an update is stored, in whatever order they arrive and   *)
(* with some missing, a host's network has an entry exactly if the         *)
(* database connects its router to self, by a neighbour nearest to it.     *)
HostsRouted == [][(\E o \in Router : Learn(o)) => ShortestPaths']_vars

(* 07-mospf.md:74: after a while every node has complete routing entries:  *)
(* with the updates of all others self has a route to each network it is   *)
(* not attached to.                                                        *)
EveryNetworkRouted ==
    [][(\E o \in Router : Learn(o)) /\ ToSet(known') = Router \ {self} =>
         \A o \in Router : \A n \in Networks(o) \ Networks(self) :
            Gateway(n)' # NoRouter]_vars
=============================================================================

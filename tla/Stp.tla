-------------------------------- MODULE Stp --------------------------------
(***************************************************************************)
(* The spanning tree protocol of 04_stp/stp.c: every switch holds a        *)
(* status (the root it believes in, its path cost, its root port), every   *)
(* port holds the best config heard on its segment, and switches exchange  *)
(* config packets.  The packet handler and the hello timer both run under  *)
(* stp->lock, so each of them is one action.                               *)
(*                                                                         *)
(* A port that transmits is heard by the ports of Peers[it]: one port on a *)
(* point-to-point link, several on a hub.  A frame waits on the wire (the  *)
(* receiver's socket buffer) until ustack_run reads it; a buffer that is   *)
(* full drops the frame.                                                   *)
(***************************************************************************)
EXTENDS Integers, Sequences

CONSTANTS
    Switch,     \* switch ids (priority and MAC address), compared as numbers
    Port,       \* the ports of all switches
    Owner,      \* Owner[p]: the switch port p belongs to
    Id,         \* Id[p]: port_id, in the order of the interface list
    Peers,      \* Peers[p]: the ports that hear what p transmits
    NoPort,     \* the NULL root_port
    QueueLen,   \* bound: frames a receiver's buffer holds for one sender
    Dist        \* Dist[s][t]: a lower bound on the hops between two switches,
                \* the hop distance in the runs; only the properties use it

PathCost == 1   \* p->path_cost = 1 in stp_init

ASSUME TopologyAssumption ==
    /\ Switch \subseteq Nat
    /\ Owner \in [Port -> Switch]
    /\ Id \in [Port -> Nat]
    /\ \A p, q \in Port : Owner[p] = Owner[q] /\ Id[p] = Id[q] => p = q
    /\ Peers \in [Port -> SUBSET Port]
    /\ NoPort \notin Port
    /\ QueueLen \in Nat \ {0}

ASSUME DistAssumption ==
    /\ Dist \in [Switch -> [Switch -> Nat]]
    /\ \A s \in Switch : Dist[s][s] = 0
    /\ \A p \in Port : \A q \in Peers[p] : \A t \in Switch :
          Dist[Owner[q]][t] <= Dist[Owner[p]][t] + PathCost

VARIABLES
    root,       \* root[s]: stp->designated_root
    cost,       \* cost[s]: stp->root_path_cost
    rootPort,   \* rootPort[s]: stp->root_port
    held,       \* held[p]: the designated_* fields of port p
    hello,      \* hello[s]: stp->hello_timer.active
    wire        \* wire[<<p, q>>]: frames from p that q has not read yet

vars == <<root, cost, rootPort, held, hello, wire>>

Wire == {w \in Port \X Port : w[2] \in Peers[w[1]]}

Config == [root : Switch, cost : Nat, switch : Switch, port : Nat]

PortsOf(s) == {p \in Port : Owner[p] = s}

-----------------------------------------------------------------------------
(* Names ending in _bug are mutations: the definition of the same name     *)
(* with one plausible mistake, substituted to show that a property notices *)
(* it.  No specification uses them.                                        *)

(***************************************************************************)
(* config_priority_cmp and port_priority_cmp: v is strictly better than u. *)
(***************************************************************************)
Better(v, u) ==
    \/ v.root < u.root
    \/ /\ v.root = u.root
       /\ \/ v.cost < u.cost
          \/ /\ v.cost = u.cost
             /\ \/ v.switch < u.switch
                \/ /\ v.switch = u.switch
                   /\ v.port < u.port

IsDesignated(h, p) == h[p].switch = Owner[p] /\ h[p].port = Id[p]

NonDesignated(h, s) == {p \in PortsOf(s) : ~IsDesignated(h, p)}

(* What update_stp_status may pick: the first of the best non-designated   *)
(* ports in interface order, NULL when every port is designated.           *)
RootPortChoice_bug(h, s) ==  \* keeps the worst port
    IF NonDesignated(h, s) = {} THEN {NoPort}
    ELSE {p \in NonDesignated(h, s) :
            \A q \in NonDesignated(h, s) :
               /\ ~Better(h[p], h[q])
               /\ ~Better(h[q], h[p]) => Id[p] <= Id[q]}

RootPortChoice(h, s) ==
    IF NonDesignated(h, s) = {} THEN {NoPort}
    ELSE {p \in NonDesignated(h, s) :
            \A q \in NonDesignated(h, s) :
               /\ ~Better(h[q], h[p])
               /\ ~Better(h[p], h[q]) => Id[p] <= Id[q]}

RootOf_bug(h, s, rp) == IF rp = NoPort THEN s ELSE h[rp].cost

RootOf(h, s, rp) == IF rp = NoPort THEN s ELSE h[rp].root

CostOf_bug(h, s, rp) == IF rp = NoPort THEN 0 ELSE h[rp].cost

CostOf(h, s, rp) == IF rp = NoPort THEN 0 ELSE h[rp].cost + PathCost

(***************************************************************************)
(* update_port_config.  A designated port takes the new status.  Another   *)
(* port becomes designated when no non-designated port OF THIS SWITCH      *)
(* holds better (DP_all_priority_cmp); it keeps the root and cost it held. *)
(* The loop tests one port after the other, but the root port is never     *)
(* touched and is the best of them, so the order does not matter.          *)
(***************************************************************************)
BecomesDesignated(h, s, rp, p) ==
    /\ p \in NonDesignated(h, s)
    /\ p # rp
    /\ \A q \in NonDesignated(h, s) : ~Better(h[q], h[p])

UpdatePorts(h, s, rp) ==
    [p \in Port |->
        IF p \in PortsOf(s) /\ IsDesignated(h, p)
        THEN [h[p] EXCEPT !.root = RootOf(h, s, rp), !.cost = CostOf(h, s, rp)]
        ELSE IF BecomesDesignated(h, s, rp, p)
             THEN [h[p] EXCEPT !.switch = s, !.port = Id[p]]
             ELSE h[p]]

(* stp_port_send_config: the status of the switch, signed by the port.     *)
ConfigOf(rt, c, p) ==
    [root |-> rt, cost |-> c, switch |-> Owner[p], port |-> Id[p]]

(* Transmitting on each port of ps; a full receive buffer drops the frame. *)
Transmit(net, ps, rt, c) ==
    [w \in Wire |->
        IF w[1] \in ps /\ Len(net[w]) < QueueLen
        THEN Append(net[w], ConfigOf(rt, c, w[1]))
        ELSE net[w]]

(* The guard of stp_port_send_config: neither root nor a root port.        *)
MaySend_bug(s, rt, rp) == rp # NoPort

MaySend(s, rt, rp) == rt = s \/ rp # NoPort

(* The hello timer after a new status: stopped unless s is the root.       *)
HelloAfter_bug(active, s, rt) == active

HelloAfter(active, s, rt) == active /\ rt = s
-----------------------------------------------------------------------------
(* stp_init and stp_port_init: every switch believes it is the root.       *)
Init ==
    /\ root = [s \in Switch |-> s]
    /\ cost = [s \in Switch |-> 0]
    /\ rootPort = [s \in Switch |-> NoPort]
    /\ held = [p \in Port |-> ConfigOf(Owner[p], 0, p)]
    /\ hello = [s \in Switch |-> TRUE]
    /\ wire = [w \in Wire |-> <<>>]

(* stp_handle_config_packet with a config better than the port's: adopt    *)
(* it, recompute the status and the ports, flood on designated ports.      *)
AcceptConfig(w) ==
    LET p == w[2]
        s == Owner[p]
        h == [held EXCEPT ![p] = Head(wire[w])]
    IN /\ wire[w] # <<>>
       /\ Better(Head(wire[w]), held[p])
       /\ \E rp \in RootPortChoice(h, s) :
            LET rt == RootOf(h, s, rp)
                c  == CostOf(h, s, rp)
                h2 == UpdatePorts(h, s, rp)
                ps == {q \in PortsOf(s) : IsDesignated(h2, q) /\ MaySend(s, rt, rp)}
            IN /\ rootPort' = [rootPort EXCEPT ![s] = rp]
               /\ root' = [root EXCEPT ![s] = rt]
               /\ cost' = [cost EXCEPT ![s] = c]
               /\ held' = h2
               /\ hello' = [hello EXCEPT ![s] = HelloAfter(@, s, rt)]
               /\ wire' = Transmit([wire EXCEPT ![w] = Tail(@)], ps, rt, c)

(* stp_handle_config_packet with any other config: answer on that port.    *)
ReplyConfig(w) ==
    LET p == w[2]
        s == Owner[p]
        ps == {q \in {p} : MaySend(s, root[s], rootPort[s])}
    IN /\ wire[w] # <<>>
       /\ ~Better(Head(wire[w]), held[p])
       /\ wire' = Transmit([wire EXCEPT ![w] = Tail(@)], ps, root[s], cost[s])
       /\ UNCHANGED <<root, cost, rootPort, held, hello>>

(* stp_timer_run_once finds the hello timer expired: it clears active, and *)
(* stp_handle_hello_timeout sends on the designated ports and rearms it.   *)
HelloTimeout(s) ==
    LET ps == {q \in PortsOf(s) :
                 IsDesignated(held, q) /\ MaySend(s, root[s], rootPort[s])}
    IN /\ hello[s]
       /\ wire' = Transmit(wire, ps, root[s], cost[s])
       /\ UNCHANGED <<root, cost, rootPort, held, hello>>

(* A frame is lost on its way.                                             *)
LoseFrame(w) ==
    /\ wire[w] # <<>>
    /\ wire' = [wire EXCEPT ![w] = Tail(@)]
    /\ UNCHANGED <<root, cost, rootPort, held, hello>>

SwitchStep ==
    \/ \E w \in Wire : AcceptConfig(w) \/ ReplyConfig(w)
    \/ \E s \in Switch : HelloTimeout(s)

Next == SwitchStep \/ \E w \in Wire : LoseFrame(w)

Spec == Init /\ [][Next]_vars

(* Every switch keeps reading its sockets (ustack_run) and its timer       *)
(* thread keeps running (stp_timer_routine).                               *)
Fairness ==
    /\ \A w \in Port \X Port :
         w \in Wire => WF_vars(AcceptConfig(w) \/ ReplyConfig(w))
    /\ \A s \in Switch : WF_vars(HelloTimeout(s))

FairSpec == Spec /\ Fairness

(* Links that lose nothing; a full buffer still does.                      *)
ReliableSpec == Init /\ [][SwitchStep]_vars /\ Fairness
-----------------------------------------------------------------------------
TypeOK ==
    /\ root \in [Switch -> Switch]
    /\ cost \in [Switch -> Nat]
    /\ rootPort \in [Switch -> Port \cup {NoPort}]
    /\ held \in [Port -> Config]
    /\ hello \in [Switch -> BOOLEAN]
    /\ wire \in [Wire -> Seq(Config)]

(* <<rt, c>> is at least as good a claim about the root as <<rt2, c2>>.    *)
AsGood(rt, c, rt2, c2) == rt < rt2 \/ (rt = rt2 /\ c <= c2)

(* What a switch believes of the root only ever improves: stale or lost    *)
(* configs never make stp_handle_config_packet retreat.                    *)
StatusImproves ==
    [][\A s \in Switch : AsGood(root'[s], cost'[s], root[s], cost[s])]_vars

(* A config on a wire or stored in a port never claims more than its       *)
(* sender can back now: information about a switch is old, never invented. *)
NoOverclaim ==
    /\ \A p \in Port : LET m == held[p] IN
         AsGood(root[m.switch], cost[m.switch], m.root, m.cost)
    /\ \A w \in Wire : \A i \in 1..Len(wire[w]) : LET m == wire[w][i] IN
         AsGood(root[m.switch], cost[m.switch], m.root, m.cost)

(* The switch behind the root port is strictly closer to a root as good,   *)
(* so the root ports of no set of switches point at each other in a loop,  *)
(* however configs are delayed or lost while the tree is changing.         *)
ParentIsCloser ==
    \A s \in Switch : rootPort[s] # NoPort =>
        LET t == held[rootPort[s]].switch
        IN AsGood(root[t], cost[t] + PathCost, root[s], cost[s])

(* No switch advertises a shorter path to its root than the network has.   *)
CostIsAchievable ==
    \A s \in Switch : cost[s] >= Dist[s][root[s]]

(* The hello timer, which stp_handle_config_packet stops and nothing       *)
(* restarts, runs exactly at the switches that believe they are the root,  *)
(* and these are the switches with no root port.                           *)
HelloOnlyAtRoots ==
    \A s \in Switch : /\ hello[s] <=> root[s] = s
                      /\ root[s] = s <=> rootPort[s] = NoPort

(* The config in port q of a segment, or on its way to it, comes from a    *)
(* port x of that segment, and its sender could make the claim.            *)
Genuine(m, q) ==
    /\ \E x \in Port : q \in Peers[x] /\ m.switch = Owner[x] /\ m.port = Id[x]
    /\ m.root <= m.switch
    /\ m.cost >= Dist[m.switch][m.root]

(* A designated port holds its switch's status, any other what it heard.   *)
PortsGenuine ==
    \A p \in Port :
        \/ /\ IsDesignated(held, p)
           /\ held[p].root = root[Owner[p]] /\ held[p].cost = cost[Owner[p]]
        \/ Genuine(held[p], p)

WiresGenuine ==
    \A w \in Wire : \A i \in 1..Len(wire[w]) : Genuine(wire[w][i], w[2])

(* The status is the one update_stp_status computes from the ports.        *)
StatusFromPorts ==
    \A s \in Switch :
        /\ rootPort[s] \in RootPortChoice(held, s)
        /\ root[s] = RootOf(held, s, rootPort[s])
        /\ cost[s] = CostOf(held, s, rootPort[s])
        /\ root[s] <= s

(* What holds even when switches forget everything and start again.        *)
CoreInv ==
    /\ TypeOK
    /\ PortsGenuine
    /\ WiresGenuine
    /\ StatusFromPorts
    /\ HelloOnlyAtRoots

(* The inductive invariant behind the safety properties.                   *)
IndInv == CoreInv /\ NoOverclaim

(* No switch has two ports on a segment: nobody hears himself, and nobody  *)
(* hears another port twice.                                               *)
OnePortPerSegment ==
    \A x \in Port : /\ \A q \in Peers[x] : Owner[q] # Owner[x]
                    /\ \A q, r \in Peers[x] : Owner[q] = Owner[r] => q = r

(* All switches come to agree on the smallest id as their root, for good.  *)
Agreement ==
    <>[](\A s \in Switch : \A t \in Switch : root[s] <= t)

(* Whatever the links lost before, once they lose nothing more than a full *)
(* buffer does, the hellos of the root bring every switch to agree.        *)
RootElected == <>[][SwitchStep]_vars => Agreement

Segment(p) == Peers[p] \cup {p}

(* What update_port_config is for, by the comment above DP_all_priority_cmp*)
(* that a port which is not designated is compared with the other ports of *)
(* its SEGMENT: every segment ends up with exactly one designated port, so *)
(* that no two switches forward onto it and it is not cut off.  The code   *)
(* compares with the ports of the SWITCH instead.                          *)
OneDesignatedPerSegment ==
    <>[](\A p \in Port :
            \E q \in Segment(p) : /\ IsDesignated(held, q)
                                 /\ \A r \in Segment(p) \ {q} : ~IsDesignated(held, r))
=============================================================================

------------------------------- MODULE Router -------------------------------
(***************************************************************************)
(* The router of 06-router: the packet thread takes a packet in, answers it*)
(* or forwards it along the routing table (ip.c, ip_base.c, icmp.c), and   *)
(* the ARP cache keeps it until its next hop is known or given up.  A      *)
(* packet is its frame's buffer: a record of the interface it came in on,  *)
(* the two addresses of its Ethernet header (the station that sent it, and *)
(* the hardware address it is for, which may be that of any interface, a   *)
(* stranger's or the broadcast address: main.c takes every frame in), and  *)
(* the fields of its IP header that are read.                              *)
(***************************************************************************)
EXTENDS ArpCache, Functions

CONSTANTS
    Mac,        \* Mac[i]: the hardware address of interface i
    Neighbour,  \* the hosts and gateways that may send an ARP reply
    Kernel,     \* the messages of the kernel about its routes
    NoPacket,   \* stands where a frame carries no packet
    Bits        \* of an IP address

VARIABLES
    arrivals,   \* of the packets the router holds: <<p, q>> when p came with q or before
    sent        \* the frames the last step has put out

rvars == <<entries, reqs, hand, arrivals, sent>>

(* A station is the neighbour with its address; id tells equal packets     *)
(* apart.                                                                  *)
ASSUME RouterAssumption ==
    /\ Neighbour \subseteq Ip /\ Bits \in Nat /\ NoPacket \notin Packet
    /\ \A i, k \in Iface : Mac[i] = Mac[k] => i = k
    /\ \A p \in Packet : /\ p.iface \in Iface /\ p.from \in Neighbour
                         /\ p.dst \in 0..(2 ^ Bits - 1) /\ p.ttl \in 0..255
                         /\ {p.local, p.echo} \subseteq BOOLEAN
    /\ DOMAIN Kernel = 1..Len(Kernel) /\ \A i \in DOMAIN Kernel : Kernel[i].len \in 0..Bits
-----------------------------------------------------------------------------
(* rtable_internal.c, rtable.c: the routes of table 254 whose interface is *)
(* one of the router's, in the order of their messages.  A message without *)
(* a destination is the default route.                                     *)
new_rt_entry(m) ==
    [dest |-> m.dst, mask |-> IF m.dst = 0 THEN 0 ELSE m.len, gw |-> m.gw, iface |-> m.oif]

parse_routing_info ==
    [n \in {i \in DOMAIN Kernel : Kernel[i].table = 254 /\ Kernel[i].oif \in Iface} |->
       new_rt_entry(Kernel[n])]

rtable == parse_routing_info

(* dest & mask = dst & mask, with masks told by their length.              *)
Matches(r, dst) ==
    r.dest \div 2 ^ (Bits - r.mask) = dst \div 2 ^ (Bits - r.mask)

(* One walk over the table: a longer match replaces the one found so far.  *)
Better_bug(n, dst, found) ==  \* the first that matches is taken
    n \in DOMAIN rtable /\ Matches(rtable[n], dst) /\ found = {}

Better(n, dst, found) ==
    /\ n \in DOMAIN rtable /\ Matches(rtable[n], dst)
    /\ \A r \in found : r.mask < rtable[n].mask

Walk(dst) ==
    LET found[n \in Nat] ==
          IF n = 0 THEN {}
          ELSE LET sofar == found[n - 1]
               IN IF Better(n, dst, sofar) THEN {rtable[n]} ELSE sofar
    IN found

longest_prefix_match(dst) == Walk(dst)[Len(Kernel)]

NextHop(r, dst) == IF r.gw # 0 THEN r.gw ELSE dst

(* The time to live is a byte that is decremented before it is looked at.  *)
Ttl(p) == (p.ttl - 1) % 256

JobOf(p, r) == [iface |-> r.iface, ip |-> NextHop(r, p.dst), pkt |-> p]

(* Packets that are not for the router are routed to hosts and gateways of *)
(* Ip.                                                                     *)
ASSUME RouteAssumption ==
    \A p \in Packet : \A r \in longest_prefix_match(p.dst) :
        ~p.local => JobOf(p, r) \in Job
-----------------------------------------------------------------------------
(* A frame and its place among those of one step.  A packet goes to its    *)
(* next hop; an answer goes out on the interface the caller names, to the  *)
(* station its packet came from: nothing writes ether_shost while it waits.*)
Forwarded(j, place) ==
    [kind |-> "forward", pkt |-> j.pkt, iface |-> j.iface, to |-> j.ip, place |-> place]

icmp_send_packet(i, p, kind, place) ==
    [kind |-> kind, pkt |-> p, iface |-> i, to |-> p.from, place |-> place]

(* arpcache_insert puts out what waited for an address.                    *)
Flush_bug(q) ==  \* the packet that came last goes first
    {Forwarded([iface |-> q.iface, ip |-> q.ip, pkt |-> q.pkts[i]], Len(q.pkts) - i) :
       i \in DOMAIN q.pkts}

Flush(q) ==
    {Forwarded([iface |-> q.iface, ip |-> q.ip, pkt |-> q.pkts[i]], i) : i \in DOMAIN q.pkts}

(* arpcache_sweep looks for the interface whose hardware address the frame *)
(* was for, since the interface a packet came in on is not kept.  When     *)
(* there is none, it falls off the list and takes the list's head for an   *)
(* interface, whose descriptor is no socket: no report leaves.             *)
ReportIface_bug(q, p) == {q.iface}  \* the one the requests went out on

ReportIface(q, p) == {i \in Iface : Mac[i] = p.dhost}

Reports(q) ==
    UNION {{icmp_send_packet(i, q.pkts[n], "host", n) : i \in ReportIface(q, q.pkts[n])} :
             n \in DOMAIN q.pkts}

(* The buffers of a request that it frees, reported or not.                *)
Dropped_bug(q) == {p \in Range(q.pkts) : ReportIface(q, p) # {}}  \* not those

Dropped(q) == Range(q.pkts)

(* ARP frames: one asks who has an address, the other tells a neighbour.   *)
arp_send_request(q) ==
    [kind |-> "ask", pkt |-> NoPacket, iface |-> q.iface, to |-> q.ip, place |-> 1]

arp_send_reply(i, ip) ==
    [kind |-> "tell", pkt |-> NoPacket, iface |-> i, to |-> ip, place |-> 1]

Came(p) == <<p, p>> \in arrivals

(* The buffers of freed are no longer the router's.                        *)
Free(freed) == arrivals' = {d \in arrivals : d[1] \notin freed /\ d[2] \notin freed}
-----------------------------------------------------------------------------
RInit == Init /\ arrivals = {} /\ sent = {}

Arrives(p) == hand = {} /\ ~Waiting(p)

(* handle_ip_packet, the destination is the interface's own address.       *)
HandleLocal(p) ==
    /\ Arrives(p) /\ p.local
    /\ sent' = IF p.echo THEN {icmp_send_packet(p.iface, p, "reply", 1)} ELSE {}
    /\ UNCHANGED <<vars, arrivals>>

(* ip_forward_packet.                                                      *)
TimeExceeded(p) ==
    /\ Arrives(p) /\ ~p.local /\ Ttl(p) = 0
    /\ sent' = {icmp_send_packet(p.iface, p, "time", 1)}
    /\ UNCHANGED <<vars, arrivals>>

NetUnreachable(p) ==
    /\ Arrives(p) /\ ~p.local /\ Ttl(p) # 0 /\ longest_prefix_match(p.dst) = {}
    /\ sent' = {icmp_send_packet(p.iface, p, "net", 1)}
    /\ UNCHANGED <<vars, arrivals>>

Routed(p, r) ==
    Arrives(p) /\ ~p.local /\ Ttl(p) # 0 /\ r \in longest_prefix_match(p.dst)

ForwardNow(p, r) ==
    /\ Routed(p, r) /\ Known(JobOf(p, r).ip)
    /\ sent' = {Forwarded(JobOf(p, r), 1)}
    /\ UNCHANGED <<vars, arrivals>>

ForwardLater(p, r) ==
    /\ Routed(p, r) /\ Miss(JobOf(p, r))
    /\ arrivals' = arrivals \cup {<<q, p>> : q \in {x \in Packet : Came(x)} \cup {p}}
    /\ sent' = {}

Pend ==
    \E j \in hand :
        /\ AppendPacket(j)
        /\ sent' = {arp_send_request(j)}
        /\ UNCHANGED arrivals

(* handle_arp_packet: a neighbour asks for the address of interface i, or  *)
(* tells its own.                                                          *)
ArpRequest(i, ip) ==
    /\ hand = {}
    /\ sent' = {arp_send_reply(i, ip)}
    /\ UNCHANGED <<vars, arrivals>>

ArpReply(ip) ==
    /\ Insert(ip)
    /\ sent' = UNION {Flush(q) : q \in {r \in reqs : r.ip = ip}}
    /\ Free({f.pkt : f \in sent'})

RSweep ==
    /\ Sweep
    /\ sent' = (UNION {Reports(q) : q \in {r \in reqs : Unanswered(r)}}) \cup
                {arp_send_request(q) : q \in {r \in reqs : ~Unanswered(r) /\ Late(r)}}
    /\ Free(UNION {Dropped(q) : q \in {r \in reqs : Unanswered(r)}})

RTick == Tick /\ sent' = {} /\ UNCHANGED arrivals

HandlePacket(p) ==
    \/ HandleLocal(p) \/ TimeExceeded(p) \/ NetUnreachable(p)
    \/ \E r \in longest_prefix_match(p.dst) : ForwardNow(p, r) \/ ForwardLater(p, r)

RNext ==
    \/ \E p \in Packet : HandlePacket(p)
    \/ Pend
    \/ \E ip \in Neighbour : ArpReply(ip) \/ \E i \in Iface : ArpRequest(i, ip)
    \/ RSweep
    \/ RTick

RSpec == RInit /\ [][RNext]_rvars

(* Time passes, the sweeping thread runs every second, and the packet      *)
(* thread does not stop between lookup and append.                         *)
RFairSpec == RSpec /\ WF_rvars(RTick) /\ WF_rvars(RSweep) /\ WF_rvars(Pend)
-----------------------------------------------------------------------------
Held(p) == Waiting(p) \/ \E j \in hand : j.pkt = p

(* Every buffer the packet thread got is in one place: on its way to the   *)
(* cache, or once in the list of one request.  What the cache lets go, by  *)
(* sending or by dropping, has been freed; nothing is freed that is held.  *)
BuffersAccounted ==
    /\ \A p \in Packet : Held(p) <=> Came(p)
    /\ \A q, r \in reqs : \A i \in DOMAIN q.pkts, k \in DOMAIN r.pkts :
          q.pkts[i] = r.pkts[k] => q = r /\ i = k
    /\ \A j \in hand : ~Waiting(j.pkt)

(* A packet is forwarded to where the longest prefix says, however long it *)
(* waited and whatever was learned meanwhile, and an answer is the one its *)
(* header calls for: an echo for the router is replied to, one that has a  *)
(* single hop left is told so, one without a route too; what passes on is  *)
(* for others and has time left, 0 counting as 256 since the byte wraps    *)
(* before it is looked at.  Answers of the packet thread go out where the  *)
(* packet came in, those of the sweep where its frame was for, all to the  *)
(* station it came from; and the router asks only for addresses that       *)
(* packets wait for.                                                       *)
BestRoute(r, dst) ==
    /\ r \in Range(rtable) /\ Matches(r, dst)
    /\ \A s \in Range(rtable) : Matches(s, dst) => s.mask <= r.mask

RightWay ==
    \A f \in sent :
        /\ f.kind = "forward" => \E r \in Range(rtable) :
                BestRoute(r, f.pkt.dst) /\ f.iface = r.iface /\ f.to = NextHop(r, f.pkt.dst)
        /\ f.kind = "reply" => f.pkt.local /\ f.pkt.echo
        /\ f.kind = "time" => ~f.pkt.local /\ f.pkt.ttl = 1
        /\ f.kind = "net" => ~\E r \in Range(rtable) : Matches(r, f.pkt.dst)
        /\ f.kind \in {"forward", "net", "host"} =>
                ~f.pkt.local /\ f.pkt.ttl \in {0} \cup (2..255)
        /\ f.kind \in {"reply", "time", "net"} => f.iface = f.pkt.iface
        /\ f.kind = "host" => Mac[f.iface] = f.pkt.dhost
        /\ f.kind \in {"reply", "time", "net", "host"} => f.to = f.pkt.from
        /\ f.kind = "ask" => \E q \in reqs : q.iface = f.iface /\ q.ip = f.to

(* arpcache.c:157: when the requests stay unanswered, "for each pending    *)
(* packet, send icmp packet".  No packet that waited is lost in silence if *)
(* its frame was for the interface it came in on: either it leaves for the *)
(* next hop it waited for, or its sender is told so on that interface.     *)
Told(p) ==
    \E f \in sent' : /\ f.pkt = p /\ f.kind = "host"
                     /\ f.iface = p.iface /\ f.to = p.from

Left(p, q) ==
    \E f \in sent' : /\ f.pkt = p /\ f.kind = "forward"
                     /\ f.iface = q.iface /\ f.to = q.ip

NoneLostInSilence ==
    [][\A q \in reqs : \A p \in Range(q.pkts) :
          p.dhost = Mac[p.iface] /\ ~Waiting(p)' => Left(p, q) \/ Told(p)]_rvars

Before(p, q) == Came(p) /\ p # q /\ (Came(q) => <<p, q>> \in arrivals)

Earlier(f, g) ==
    f.kind = "forward" /\ g.kind = "forward" /\ f.iface = g.iface /\ f.to = g.to
       /\ f.place < g.place

(* Packets to one next hop leave in the order they came: none overtakes    *)
(* another that waits for the address, and those that waited keep their    *)
(* order when the reply comes.                                             *)
NoOvertaking ==
    [][/\ \A f, g \in sent' : Earlier(f, g) => Before(f.pkt, g.pkt)
       /\ \A f \in sent', q \in reqs' :
             f.kind = "forward" /\ f.iface = q.iface /\ f.to = q.ip
               => \A p \in Range(q.pkts) : Before(f.pkt, p)]_rvars
=============================================================================

------------------------------ MODULE MCRouter ------------------------------
(* Four bits of address.  The router is 4 at i1 and 11 at i2; 5 is a       *)
(* neighbour at i1, and 9 and 10 are at i2; 9 is the gateway to 12..15 but *)
(* for 13, which is behind 5.                                              *)
EXTENDS Router, Device

CONSTANTS i1, i2, eth, m1, m2, all

Addr(name, family, named, ip) ==
    [name |-> name, family |-> family, eth |-> named, opens |-> TRUE, ip |-> ip, len |-> 2]

(* Two interfaces, told once for each family, and a device named otherwise.*)
Addrs == << Addr(eth, "packet", FALSE, NoAddress), Addr(i1, "packet", TRUE, 4),
            Addr(i2, "packet", TRUE, 11), Addr(i1, "inet", TRUE, 4), Addr(i2, "inet", TRUE, 11) >>

ifaces == init_all_ifaces(Addrs)

(* The process starts, and finds the interface of every socket it polls.   *)
ASSUME MCDeviceAssumption ==
    /\ Starts(Addrs)
    /\ \A i \in DOMAIN ifaces : fd_to_iface(ifaces, ifaces[i].fd) = {ifaces[i]}
    /\ ~Starts(SubSeq(Addrs, 1, 1))
    /\ ~Starts([Addrs EXCEPT ![2].opens = FALSE])

MCIface == UNION {{f.name : f \in fd_to_iface(ifaces, fd)} : fd \in PollSet(ifaces)}

MCMac == [i \in MCIface |-> IF i = i1 THEN m1 ELSE m2]

MCKernel == <<
    [table |-> 255, dst |-> 4,  len |-> 4, gw |-> 0, oif |-> i1],
    [table |-> 254, dst |-> 12, len |-> 2, gw |-> 9, oif |-> i2],
    [table |-> 254, dst |-> 4,  len |-> 2, gw |-> 0, oif |-> i1],
    [table |-> 254, dst |-> 0,  len |-> 0, gw |-> 3, oif |-> eth],
    [table |-> 254, dst |-> 13, len |-> 4, gw |-> 5, oif |-> i1],
    [table |-> 254, dst |-> 8,  len |-> 2, gw |-> 0, oif |-> i2] >>

MCAt(name, from, dst, ttl) ==
    [iface |-> name, from |-> from, dhost |-> MCMac[name], dst |-> dst, ttl |-> ttl,
     echo |-> FALSE,
     local |-> \E i \in DOMAIN ifaces : ifaces[i].name = name /\ ifaces[i].ip = dst]

(* Three packets that need 9 or 10, one of them with no time left at all   *)
(* and one in a broadcast frame, one that needs 5, and those the router    *)
(* answers itself.                                                         *)
MCPacket == {
    MCAt(i1, 5, 9, 2), MCAt(i1, 5, 14, 0), [MCAt(i1, 5, 10, 2) EXCEPT !.dhost = all],
    MCAt(i2, 9, 13, 64),
    MCAt(i1, 5, 9, 1), MCAt(i1, 5, 1, 2),
    MCAt(i1, 5, 4, 2), [MCAt(i1, 5, 4, 2) EXCEPT !.echo = TRUE] }
=============================================================================

------------------------------- MODULE Device -------------------------------
(***************************************************************************)
(* init_ustack of 06-router/device_internal.c: the interfaces the router   *)
(* works with, made from what the kernel tells of its devices.  addrs is   *)
(* the list of getifaddrs: a device is in it once for every family of      *)
(* addresses it has.  A record tells the device's name and family, whether *)
(* the name has "-eth" in it, whether a raw socket opens on it, its address*)
(* (NoAddress without one) and the length of its mask.                     *)
(***************************************************************************)
EXTENDS Integers, Sequences, SequencesExt

CONSTANT NoAddress

find_available_ifaces(addrs) ==
    SelectSeq(addrs, LAMBDA a : a.family = "packet" /\ a.eth)

(* The sockets a process opens have descriptors of their own; a failure is *)
(* told by -1.                                                             *)
open_device(a, next) == IF a.opens THEN next ELSE -1

(* Without a socket the address cannot be asked for either.                *)
HasInfo(a) == a.opens /\ a.ip # NoAddress

read_iface_info(a, next) ==
    [name |-> a.name, fd |-> open_device(a, next), ip |-> a.ip, len |-> a.len]

(* The process exits when there is no interface, or one without address.   *)
Starts(addrs) ==
    LET found == find_available_ifaces(addrs)
    IN found # <<>> /\ \A i \in DOMAIN found : HasInfo(found[i])

(* iface_list; the raw socket of an interface and the one its index is read*)
(* through are opened in turn, none is closed.                             *)
init_all_ifaces(addrs) ==
    LET found == find_available_ifaces(addrs)
    IN [i \in DOMAIN found |-> read_iface_info(found[i], 2 * i + 1)]

(* The descriptors ustack_run polls.                                       *)
PollSet(ifaces) == {ifaces[i].fd : i \in DOMAIN ifaces}

(* The interface of a descriptor, as a set that is empty for NULL.         *)
fd_to_iface(ifaces, fd) ==
    {ifaces[i] : i \in {SelectInSeq(ifaces, LAMBDA f : f.fd = fd)} \ {0}}
=============================================================================

------------------------------- MODULE MCNat -------------------------------
(* A small instance of Nat for TLC, from a configuration file.  Octet is 4,*)
(* so an address is a number below 16: the private network is behind "in", *)
(* the router is 9 on the outside.                                         *)
EXTENDS Nat, NatConfig, TLC

CONSTANTS in, out, none

Ifaces == << [name |-> in, ip |-> 4], [name |-> out, ip |-> 9] >>

Dnat(ext, int) == [word |-> "dnat-rules", ext |-> ext, int |-> int]

At(ip, port) == [ip |-> ip, port |-> port]

(* Two lines name an external interface, the first of them one that is not *)
(* there; two rules are for port 3, which is a port of the pool too, and   *)
(* one for an address that is not the router's.                            *)
Lines == <<
    [word |-> "external-iface", name |-> none],
    [word |-> "internal-iface", name |-> in],
    [word |-> "external-iface", name |-> out],
    Dnat(At(<<2, 1>>, 3), At(<<1, 1>>, 80)),
    Dnat(At(<<2, 1>>, 3), At(<<1, 2>>, 80)),
    [word |-> "comment"],
    Dnat(At(<<2, 3>>, 5), At(<<1, 1>>, 80)) >>

config == parse_config(Lines, Ifaces)

Route == 5 :> in @@ 6 :> in @@ 12 :> out @@ 13 :> out

Endpoints == {<<5, 80>>, <<6, 80>>, <<12, 7>>, <<13, 7>>}

Towards(dir) == {e \in Endpoints : get_packet_direction(config, Route, e[1]) = dir}

MCInternal == Towards("DIR_OUT")
MCRemote == Towards("DIR_IN")
MCRules == RulesOf(config)

(* One connection, without rules.                                          *)
OneInternal == {<<5, 80>>}
OneRemote == {<<12, 7>>}
NoRules == <<>>

OneBucket == [r \in Remote |-> 0]
=============================================================================

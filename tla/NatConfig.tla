----------------------------- MODULE NatConfig -----------------------------
(***************************************************************************)
(* nat_init's parse_config in 08-nat/nat.c, and how the rest of nat.c reads*)
(* what it leaves: the two interfaces and the list of dnat rules.  A line  *)
(* of the file is a record of the word it is told by and of its fields; an *)
(* address is the sequence of its numbers.                                 *)
(***************************************************************************)
EXTENDS Integers, Sequences, SequencesExt

CONSTANTS
    Octet,      \* 2^8
    NULL

(* Each number is gathered in an unsigned char.                            *)
ip_tr(numbers) == FoldLeft(LAMBDA ip, n : (ip * Octet) + (n % Octet), 0, numbers)

if_name_to_iface(ifaces, name) ==
    LET i == SelectInSeq(ifaces, LAMBDA f : f.name = name)
    IN IF i = 0 THEN NULL ELSE ifaces[i]

(* Ports are u16.                                                          *)
Rule(line) ==
    [external |-> <<ip_tr(line.ext.ip), line.ext.port % 2 ^ 16>>,
     internal |-> <<ip_tr(line.int.ip), line.int.port % 2 ^ 16>>]

(* The last line that names an interface counts, every rule does.          *)
ParseLine(nat, line, ifaces) ==
    CASE line.word = "internal-iface" ->
           [nat EXCEPT !.internal_iface = if_name_to_iface(ifaces, line.name)]
      [] line.word = "external-iface" ->
           [nat EXCEPT !.external_iface = if_name_to_iface(ifaces, line.name)]
      [] line.word = "dnat-rules" -> [nat EXCEPT !.rules = Append(@, Rule(line))]
      [] OTHER -> nat

parse_config(lines, ifaces) ==
    FoldLeft(LAMBDA nat, line : ParseLine(nat, line, ifaces),
             [internal_iface |-> NULL, external_iface |-> NULL, rules |-> <<>>], lines)

(* Outwards is what comes from an address behind the internal interface;   *)
(* route is longest_prefix_match.                                          *)
get_packet_direction(nat, route, saddr) ==
    IF route[saddr] = nat.internal_iface.name THEN "DIR_OUT" ELSE "DIR_IN"

(* do_translation takes the first rule for an endpoint.  Packets from      *)
(* outside are for the address of the external interface.                  *)
RulesOf(nat) ==
    LET ours == SelectSeq(nat.rules, LAMBDA r : r.external[1] = nat.external_iface.ip)
        first(port) == SelectInSeq(ours, LAMBDA r : r.external[2] = port)
    IN [port \in {ours[i].external[2] : i \in DOMAIN ours} |-> ours[first(port)].internal]
=============================================================================

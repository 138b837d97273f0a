# Verification of computer_net_ucas

The repository is a series of network laboratories in C: a spanning tree
bridge, a router with ARP, link state routing, address translation and a TCP
stack. This directory holds TLA+ models of the laboratories' core logic, TLC
configurations that check small instances, and TLAPS proofs of the properties
that matter most. `PROJECT.json` lists the components, the runs, the source
lines behind every definition, the hazards and the theorems.

    tlc -config StpTriangle.cfg MCStp.tla      # a run
    tlapm StpProofs.tla                        # a proof

## Inventory

| part | state | operations | hard behaviour | what makes it correct |
|---|---|---|---|---|
| spanning tree, `04_stp` | per switch: root, cost, root port, hello timer; per port: the best config heard | receive a config, hello timer, start, stop | configs cross, arrive late, get lost in a full buffer; restart without memory | one root, loop-free root ports, one designated port per segment |
| ARP cache, `06-router/arpcache.c`, `arp.c` | 32 entries, the list of pending requests with their packets | look up, append, insert, sweep | two threads; lock released between lookup and append; retries while packets join | one entry per host, one request per target, no packet waits for a known host, none waits for ever |
| IP forwarding, `06-router/ip*.c`, `icmp.c`, `rtable*.c` | routing table read from the kernel, the packets' buffers | longest prefix match, forward, ICMP answer, ARP answer | TTL at its limit, no route, packets that wait for an address while others pass | each packet goes where the longest prefix says, in order, or is answered to where it came from; each buffer is freed once |
| link state routing, `07-mospf` | neighbours per interface, database, routing table, sequence number | hello, neighbour timeout, update, flooding, database timeout, path computation | five threads, flooding, lost and reordered updates, restart | only announced updates are stored and never older ones again; databases agree once the network is quiet; shortest paths |
| address translation, `08-nat` | 256 buckets of mappings, 65536 port flags | translate in, translate out, sweep, exit | two threads, ports shared by rules and pool, FINs in any order, timeouts | a pool port has one owner and comes back; answers reach the sender |
| TCP connections, `10-tcp_stack` | socks, hash tables, listen and accept queues, wait structures, timers | connect, listen, accept, close, segment arrival, time-wait | application threads against the packet thread without a lock, reference counts, lost segments, restarts | no thread sleeps through what it waits for; neither end believes what the other has not done |
| reliable TCP, `12-tcp_stack` | send buffer, retransmission timer, receive ring, out-of-order buffer | write, retransmit, take data, acknowledge, read | loss, duplicates, retries, a reader beside the writer of the ring | the bytes are read once and in order; whatever is missing can be sent again |
| linked lists, `include/list.h` | two pointers per node | insert, add at either end, delete | a node that is deleted twice | a list stands for a sequence |
| hub and switch, `03-hub+switch` | (MAC table) | stubs that print `TODO` | none | none |
| queueing, `05-bufferbloat` | none | emulated-network scripts | none | none |
| interfaces, `device_internal.c` | interface list, polled descriptors | choose the devices, read their addresses | a device without address or socket | every polled descriptor has its interface |

The parts talk to each other as follows. `ustack_run` of every laboratory is the
packet thread: it reads one frame from one interface and runs its handler to the
end. In the router this leads from `ip.c` to `iface_send_packet_by_arp` and so
into the ARP cache, whose sweeping thread shares the lock `arpcache.lock`;
`08-nat` puts `nat_translate_packet` between the two, with `nat.lock` shared by
its own timeout thread. `04_stp` is a laboratory of its own: its packet handler
and the timer thread share `stp->lock`. `07-mospf` runs five threads per router,
which share the neighbour lists under `mospf_lock` and the database under
`db_lock`. In the TCP stacks the packet thread (`tcp_process`), one application
thread and the timer thread work on the same socks; only `struct synch_wait`
keeps them apart (the ring buffer's lock is taken by its writer alone). Between
machines there are only frames, on point-to-point links or hubs.

The hazards, each at its source line, are listed under `hazards` in
`PROJECT.json`, with the properties aimed at them; two real ones that are left
out there are `mospf_daemon.c:96` (the neighbours are walked without a lock
while `checking_nbr_thread` may free them: undefined behaviour of memory, of
which the model has no notion) and `nat.c:35` (`longest_prefix_match` returns
NULL for a source without a route, as `if_name_to_iface` does for an unknown
interface, and both are dereferenced; the model starts from configurations that
name the router's interfaces and from packets that have a route).

## Modules

| module | models | extends |
|---|---|---|
| `Stp` | `04_stp/stp.c`: the protocol on any topology | |
| `StpFaults` | switches that stop and start again | `Stp` |
| `MCStp`, `MCStpFaults` | the topologies of the runs | `Stp`, `StpFaults` |
| `StpProofs` | theorems about `Stp` and `StpFaults` | `StpFaults`, `TLAPS` |
| `ArpCache` | `06-router/arpcache.c`, the callers in `arp.c` | |
| `Router` | the packet thread of `06-router`: routing table, forwarding, ICMP, ARP frames, buffers | `ArpCache` |
| `Device` | `device_internal.c`: which devices become interfaces | |
| `MCRouter` | the network of the run | `Router`, `Device` |
| `RouterProofs` | theorems about `ArpCache` and `Router`; `Router` implements `ArpCache` | `Router`, `Induction` |
| `SynchWait` | `synch_wait.h`: sleep and wake-up | |
| `Tcp` | connections: `tcp_in.c`, `tcp_sock.c`, `tcp_out.c`, `tcp_apps.c` | `SynchWait` |
| `MCTcp` | the instance of the run | `Tcp` |
| `TcpProofs` | theorems about `Tcp` | `Tcp`, `TLAPS` |
| `RingBuffer` | `ring_buffer.h` | |
| `ByteStream` | what a connection promises for one direction, without segments | |
| `TcpStream` | data of a connection in `12-tcp_stack`; the refinement of `ByteStream` | `SynchWait`, `RingBuffer`, instance of `ByteStream` |
| `MCTcpStream` | the data of the run | `TcpStream` |
| `TcpStreamProofs` | the ring buffer is a bounded queue of bytes; `TcpStream` implements `ByteStream` | `TcpStream`, `Induction`, `SequenceTheorems` |
| `Induction` | induction over numbers by sets, recursion by functions: lemmas for the proofs about loops | `WellFoundedInduction`, `TLAPS` |
| `LinkedList`, `LinkedListProofs` | `list.h` on memory, and that it implements sequences | `TLAPS` |
| `Nat` | `08-nat/nat.c`: translation, pool, sweep | |
| `NatConfig` | the configuration file and the direction of packets | |
| `NatHistory` | `Nat` with the real idle time as a history variable | `Nat` |
| `MCNat`, `MCNatHistory` | configuration, routes and hash functions of the runs | `Nat`, `NatConfig`, `NatHistory` |
| `NatProofs` | theorems about `Nat` | `Nat`, `TLAPS` |
| `Mospf` | `07-mospf/mospf_daemon.c`: discovery, flooding, databases, restarts | |
| `MospfDb` | what flooding promises of the databases, without messages | |
| `MospfHistory` | `Mospf` with a record of all announcements; the refinement of `MospfDb` | `Mospf`, instance of `MospfDb` |
| `MospfTimely` | `Mospf` under the timing of its constants, fair | `Mospf` |
| `MospfRoutes` | `update_rtable`: the path computation | |
| `MCMospf`, `MCMospfHistory`, `MCMospfRoutes` | the networks of the runs | `MospfTimely`, `MospfHistory`, `MospfRoutes` |
| `MospfProofs` | theorems about `Mospf` and its refinement | `MospfHistory`, `TLAPS` |

Definitions whose name ends in `_bug` are mutations: the definition of the same
name with one plausible mistake. No specification uses them; substituted for
the original they show that a property notices the mistake.

### Spanning tree: `Stp`, `StpFaults`

`root`, `cost`, `rootPort` and `hello` are the fields of `stp_t`, `held[p]` the
`designated_*` fields of port `p`, compared as `config_priority_cmp` and
`port_priority_cmp` compare them. Switch ids and port ids are numbers.
`wire[<<p, q>>]` is what the socket of `q` has buffered of the frames sent by
`p`; a hub is a set of ports that all hear each other. `AcceptConfig` and
`ReplyConfig` are the two branches of `stp_handle_config_packet`:

* a better config is stored, `update_stp_status` picks the root port and
  computes root and cost (`RootPortChoice`, `RootOf`, `CostOf`),
  `update_port_config` changes the ports (`UpdatePorts`), the hello timer stops
  unless the switch is root, and the status is flooded on designated ports;
* any other config is answered on the port it came from. An equal config is
  answered too, so two switches that agree answer each other for as long as no
  frame is lost.

`HelloTimeout` is the timer thread finding the timer expired. Handler and timer
hold `stp->lock`, so each is one step. `BecomesDesignated` compares a port with
the other non-designated ports **of the same switch**, as the code does, not
with those of the port's segment, of which the comment above it speaks.

`StpFaults` adds `Crash` and `Restart`: nothing is persisted, so a started
switch runs `stp_init` again with empty sockets, while its neighbours keep what
it told them. Nothing ages a config (`max_age` and `fwd_delay` are never read).

### ARP cache: `ArpCache`

`entries` is the set of valid slots as a partial function, `reqs` the request
list, `hand` the packet that `iface_send_packet_by_arp` holds between
`arpcache_lookup` (which found nothing: `Miss`) and `arpcache_append_packet`.
Both take the lock separately, so `Sweep` and `Tick` interleave there. `Insert`
cannot, and waits for `hand = {}`: ARP replies are read by the same packet
thread. `Insert` contains the choice of the slot (same address, last free one,
random when full) and the release of every request for the address. `Sweep` is
one round of `arpcache_sweep`; the ICMP messages of requests it gives up go out
under `arpcache.lock`, in the same step (`RSweep` of `Router`). Times are
ages in seconds that stop counting where no test can tell more.

### IP forwarding: `Router`, `Device`

`Router` composes the ARP cache with its callers. A packet stands for its
buffer: the interface and station it came from, the hardware address its frame
was for (`dhost`: the packet thread takes every frame, also one for everybody or
for somebody else), its destination and time to live, and whether it is for the
router or an echo request. `HandlePacket` is one way of `handle_packet` through
`handle_ip_packet` and `ip_forward_packet`: `HandleLocal`, `TimeExceeded`,
`NetUnreachable`, `ForwardNow`, and `ForwardLater`, after which `Pend` appends
the packet; between the two the sweep may come. `ArpReply` is `arpcache_insert`
with all packets it sends (`Flush`), `RSweep` the sweep with its reports and
repeated requests, `ArpRequest` the answer to a neighbour. The interface a
packet came in on is not kept while it waits: the sweep searches the interface
with the frame's hardware address (`ReportIface`) and, for a frame that was for
none of them, falls off the list and reports nothing, but frees the buffer all
the same (`Dropped`). `sent` holds the frames of the last step, with their
places within it; `arrivals` the packets whose buffers the router holds.
`rtable` is what `parse_routing_info` keeps of the kernel's messages,
`longest_prefix_match` the walk over it, and `Ttl` the byte as the code
decrements it: 0 becomes 255.

`Device` is `init_ustack`: the list of `getifaddrs` becomes the interface list.
The instance of the run gets its interfaces from it.

### TCP connections: `Tcp`, `SynchWait`

Each client process has one sock and the server its `Listener` and a child per
client; `sock` holds the fields of `struct tcp_sock`, with `hashed` and `bound`
for membership in the tables (one sock per 4-tuple), and `ref_cnt` and `live`
for its memory. `wire[e]` is what is on its way to end `e`, in order; segments
are lost by `Lose`, and processes killed and run again by `RestartClient` and
`RestartServer` (what comes for a process that does not run is lost, a client
started again gets the same port, so the same 4-tuple). A process is run again
only when what its predecessor sent has arrived, and finds nothing on its way to
it: a bound on the state space, without which the run does not end. What it
leaves out is told below.

The packet thread handles a segment in one step (`Rcv...`, one action for each
branch of `tcp_process`, `NoSock`, `Ignore`). The application thread is split
wherever the packet thread may come between: in `tcp_sock_connect` after the
SYN is out and before the sock is in a table (`ConnectSend`, `ConnectHash`,
`ConnectSleep`), in `tcp_sock_accept` between the look at the queue, `sleep_on`,
the reading of the queue's links and their writing (`AcceptLook`, `AcceptSleep`,
`Dequeue`, `Unlink`: a connection linked in between may be lost from the list,
and the count be wrong by one), and in `tcp_sock_close` between the FIN and the
new state. `SynchWait` has the three fields of `struct synch_wait` and where the
sleeping thread is; `pthread_cond_wait` may return without a signal.

`ref_cnt` is a plain `int`, which nothing keeps from passing zero. Freed memory is
read as it was left, since nothing else is known of it, and the
process may be stopped by the library at a second `free` (`RcvSynRecvFull`).

### Reliable TCP: `TcpStream`, `RingBuffer`, `ByteStream`

`12-tcp_stack` does not compile as it is: `tcp_sndbuf_push`, `delete_send_buf`
and the functions that set the timer are called and not defined,
`handle_rcv_data` has no caller. `TcpStream` takes them as their calls and
`12-TCP_STACK.md` say and models what is there: `Write` (a round of
`tcp_sock_write`), the scan of the timer (`Tick`, `Retransmit`, `GiveUp`),
`handle_rcv_data` with its three cases and the loop over the out-of-order buffer
(`RcvInOrder`, `RcvLater`, `RcvAgain`), and `tcp_sock_read` split where the
packet thread may come between: the look at the buffer, `sleep_on`, the two
readings of the length that the macro `min` makes, and the moving of the head
after the copy. The ring buffer is an array with one spare cell; a write that
does not fit ends the receiver, as the assertion does. The pieces that
`RcvInOrder` takes from the out-of-order buffer are written in one step, so the
reader makes no room between them: the model's receiver may end where the code's
would just not. `ByteStream` has neither segments nor buffers: bytes come in
order, and are read in order. `TcpStream` implements it with what is read and
what the ring buffer holds.

### Linked lists: `LinkedList`

The pointers of all nodes are two functions; `Holds(h, head, s)` says that the
list at `head` holds the sequence `s`. The other modules take lists for
sequences, which `LinkedListProofs` justifies.

### Address translation: `Nat`, `NatConfig`, `NatHistory`

`table` is the set of all mappings with their bucket, `assigned` the set of
marked ports. A packet is its flag byte and its numbers. `OutKnown`, `OutNew`,
`InKnown`, `InRule` are the four ways through `do_translation` that change
state; dropped packets change nothing. As in the code a lookup compares the
endpoint of one side only, inside the bucket of the remote endpoint; when
several mappings match the model takes any, the code the first. `Sweep` is one
round of `nat_timeout` and covers `is_flow_finished`.

`NatConfig` is `parse_config` and what is made of its result: addresses are
gathered byte by byte and wrap, ports are 16 bits wide, the last line that names
an interface counts, the first rule for an endpoint does, and a packet goes
outwards if the route to its source leads through the internal interface. A rule
whose external address is not the router's is dropped where the rules are read
(`RulesOf`); the code keeps it and finds at `nat.c:87`, packet by packet, that
it does not apply. The instances take their endpoints and rules from a
configuration file.

`NatHistory` counts how long a connection has really been idle, which the code
does not.

### Link state routing: `Mospf` and its relatives

`nbrs[r]` joins the `nbr_list`s of all interfaces, `seq[r]` is `sequence_num`,
`db[r]` is `mospf_db`, `wire[<<q, r, n>>]` the updates of `q` that `r` has not
read from network `n`. An update is its router id, number and links; a network
without other routers, announced with router id 0, is one missing from the
links. The five threads are these actions:

* the packet thread: `HearHello` (a new neighbour is added and announced at
  once), `Learn` (a newer update is stored and forwarded to every neighbour but
  its origin) and `Ignore`; its own sends belong to its step, so what the packet
  thread announces is not overtaken, though the code releases `mospf_lock` first;
* `sending_mospf_lsu_thread` (`LsuTimer`) and `checking_nbr_thread`
  (`CheckNbr`), whose `send_mospf_lsu` numbers the update under `mospf_lock`
  (`Pend`) and broadcasts it after the unlock (`Broadcast`, a step of its own);
  `CheckNbr` joins the removal of neighbours and the numbering, between which the
  code releases the lock;
* `checking_database_thread` (`CheckDb`); the hello thread is part of
  `HearHello`.

`Crash` and `Restart` lose everything: `mospf_init` begins at number 0, while
the others hold and forward updates from before. `Mospf` leaves timing open:
any neighbour and any entry may time out at any moment. `MospfTimely` closes
it: the constants in `mospf_proto.h` make the hello period (5 s) short against
the neighbour timeout (15 s) and the update period (30 s) shorter than the
database timeout (40 s), so a running neighbour is not dropped, an update has
arrived before the next, and an entry goes exactly when nothing refreshes it
any more, before a second update of its router would have been ignored.

`MospfDb` has no messages: routers announce under growing numbers, learn any
announcement newer than what they hold, and forget. `MospfHistory` remembers
what was announced (`said`) and leaves `db` to implement `MospfDb`. It holds
only while numbers grow: after a restart or a wrap the same number stands for
different updates, and what is new can be older, which is why the database
timeout exists and why `DatabasesAgree` is checked with restarts and wraps.

`MospfRoutes` is `update_rtable` for one router `self` whose database grows and
shrinks in any order: nodes, the network kept per node, and the search that
starts at the neighbours. Deleting an entry (`Forget`) leaves the table as it
is, as the code does. `Gateway` is the lookup of the router's IP layer, which
this laboratory links from a library; it is read in `06-router`.

## Runs

| run | instance | shows |
|---|---|---|
| `StpTriangle` | three switches pairwise joined, buffers of one frame, frames lost at will | `NoOverclaim`, `ParentIsCloser`, `CostIsAchievable`, `HelloOnlyAtRoots`, `StatusImproves` hold, and `RootElected` under fairness |
| `StpDesignated` | a line 1 - 3 - 2; frames lost only in a full buffer; fair | `OneDesignatedPerSegment` is violated |
| `StpRestart` | a line of three; any switch may stop, one start again; fair | `LoopsAreTransient`, `RootElectedAgain` hold |
| `Router` | eight packets (to neighbours, over a gateway, for the router, without a route, without time left, in a frame for everybody), three neighbours, two slots, two interfaces; fair | all properties of `ArpCache` hold, and `BuffersAccounted`, `RightWay`, `NoOvertaking`, `NoneLostInSilence` |
| `Tcp` | two clients, a backlog of one, one segment lost or one process run again; fair | `NoLostWakeup`, `SeqAgree`, `TablesHoldLive`, `AcceptReturns`, `GivenBackOnce` hold |
| `TcpStream` | five bytes in three pieces, a ring of three bytes, data and acknowledgements lost at will; fair timer | `UnackedKept`, `TransferEnds` hold, `ImplementsStream`: the refinement holds |
| `NatTable` | two hosts, two remotes in one bucket, two pool ports, a rule for one of them; fair | all properties of `Nat` hold |
| `NatIdle` | one connection | `OnlyIdleExpire` is violated |
| `MospfLan` | three routers on one network, frames lost at will, four updates | `OneEntryPerOrigin`, `NoOwnEntry` hold, `ImplementsDb`: the refinement holds |
| `MospfPair` | two routers on a cable, numbers modulo 3, two restarts; fair | `TypeOK`, `DatabasesAgree` hold |
| `MospfRoutes` | five routers in a ring with three host networks, all orders and subsets of updates | `HostsRouted` holds |
| `MospfRoutesAll` | the same | `EveryNetworkRouted` is violated |

### What the violations mean

* `StpDesignated`. The comment at `stp.c:216` says that a port which is not
  designated is compared with the other ports *of its segment*; the code compares it
  with the other ports of its own switch. Switch 3 first takes 2 for its root and
  then hears of 1; its port to 2 keeps the old config of 2, which is worse than
  what 3 could send there, but is compared with the root port and so never
  becomes designated again. The answer of 3 makes 2 its child on that cable. All
  agree on the root, and no port of the cable is designated: 2 is cut off from
  the tree.
* `NatIdle`. `nat.h:16` calls a connection finished that has sent nothing for
  60 seconds; `update_time` is set when the mapping is made and never again, so
  a connection in use is cut after 60 seconds.
* `MospfRoutesAll`. `07-mospf.md:74` expects complete routing entries. A router
  node stands for one network, that of the last link to it in the database, and
  only that one gets an entry when the node is reached. Which networks between
  routers are routed depends on the order in which updates arrived; networks of
  hosts always are (`HostsRouted`), which is why pings between hosts work.

### Bounds, and why they are enough

* `QueueLen`: one or two frames per direction. With one, a second frame before
  the first is read is dropped, which is the interesting case: the answers to
  equal configs crowd out the flood. With two, frames of different age follow
  each other on a wire.
* three switches: enough for a cycle of cables, for a switch that learns of the
  root only through another, and for one that loses its root role twice. The
  safety properties are proved for every topology (below).
* `RootElected` is checked on the triangle: every switch is next to the root,
  which is what the election needs when frames are lost (see below). Relaying is
  left to `RootElectedAgain` on the line. The line 1 - 3 - 2 of `StpDesignated` has
  the root at one end and at the other a switch that the middle one takes for the
  root first.
* `MaxRestarts = 1` in `StpRestart`: the run with `LoopsAreTransient` concerns
  one restart during or after convergence, and stops without limit.
* `Size = 2` and three hosts in `Router`: the table overflows. `EntryTimeout =
  0` expires an entry at the first sweep after a tick; `MaxRetries = 3` leaves
  room for a request that is repeated, joined and given up. Of the packets three
  wait for neighbours at one interface and two of them for one address, so that
  they join and could overtake each other; hosts that never answer are included,
  since `ArpReply` is not fair. One packet comes in a frame for everybody, and
  one comes with no time left at all. Four bits of address hold a default route,
  a gateway and a longer prefix that comes after a shorter one.
* `Tcp`: with two clients and `Backlog = 1` the accept queue is full while the
  server is still to take the first connection. `MaxFaults = 1`: one loss or one
  restart at any point; with none of them the sequence numbers agree by the
  order of the wire alone. Sequence numbers start at 5 and do not wrap.
  `NoLostWakeup` is proved for any number of each.
* `TcpStream`: three pieces are the least of which the last two can come before
  the first; a ring of three bytes wraps inside a piece and overflows; four
  sendings of a piece are what the code makes at most. The retransmission
  interval is one scan, which keeps its doubling apart.
* `NatTable`: the rule is for one of the two pool ports, so the pool hands out a
  port that the rule uses, and the sweep frees it under one of the two. Two hosts
  do not exhaust the pool; its port 0 is covered by the proofs, for which any pool
  will do. `Timeout = 1` lets a mapping age below and above it.
  `MaxSeq = 1` makes a flow finished as soon as both FINs were counted. One
  bucket makes all lookups collide; several buckets are covered by the proofs.

* `MospfLan`: three routers that hear each other are the least in which an
  update comes directly and by way of another; `MaxSaid = 4` announcements let
  one router make several of them; `SeqLimit = 5` keeps them from wrapping.
  Buffers of one frame lose what comes too fast. The proofs cover the rest.
* `MospfPair`: `SeqLimit = 3` wraps at once and again, `MaxRestarts = 2` lets
  each router start again, or one twice. What the run does not show is
  agreement over several hops: three routers in a line are beyond exhaustive
  search with fairness.
* `MospfRoutes`: the ways round the ring of five differ in length, so that a
  search that is not breadth first shows; every order of arrival is tried.

### Fairness

`FairSpec` of `Stp`, `ReliableSpec` and `FSpec` assume that a switch that runs
keeps reading every socket (`ustack_run` polls all interfaces in a loop, so a
frame at the head of a buffer is read) and that its timer thread runs
(`stp_timer_routine` is an endless loop). `ReliableSpec` and `FSpec` lose frames
only where a buffer is full; `FairSpec` loses any, and `RootElected` is
conditional: *if* from some time on frames are lost only in full buffers,
agreement follows, whatever was lost before. A link that swallows every hello
keeps two roots. In `Router` and `Nat` time passes and the sweeping thread, an
endless loop around `sleep(1)`, runs; the packet thread finishes what it began
(`Pend`). That a host answers, a connection is closed or a packet arrives is
never assumed: `PortsReclaimed` speaks of ports whose connections transmit
nothing any more, and of finished ones. In `MospfTimely` the threads of a
running router, endless loops all of them, keep running; updates are lost only
in a full buffer, and no router has to start again. In `Tcp` the server's
application thread runs and `pthread_cond_wait` returns for a signal
(`AcceptRuns`); nothing is assumed of the packet thread or the link, since
`AcceptReturns` starts when a connection is in the queue. In `TcpStream` only
the timer thread, an endless loop around `usleep`, runs (`Scan`).

### What the models show beyond the runs

These were seen while choosing the instances and stating the properties. No run
of their own pins them down: the properties are stated so that they hold beside
them, and say where they make an exception. The first group contradicts what
comments of the repository say, or what its tests are plainly for:

* `arpcache.c:71-75` says that a packet for a pending request is just appended, and
  `arpcache.c:155-159` that a request goes out once a second and five times. A
  packet that joins sends a request of its own and counts as a retry
  (`arpcache.c:79` and 103), so five quick packets to one silent host are
  reported unreachable at the next sweep.
* `arpcache.c:157` says that each packet of a request given up is reported. One
  whose frame was for everybody, or for an address of no interface, is dropped
  without a report (`arpcache.c:178-183`); `NoneLostInSilence` is about the
  others.
* `ip_base.c:56` (`--ihr->ttl<=0`) reads as if packets without time left were
  dropped. The byte wraps first, so one that arrives with TTL 0 is forwarded
  with 255 (`RightWay` counts 0 as 256).
* `tcp_sock.c:71-74` and `tcp_sock.h:37` say that a sock is released when its count
  reaches zero. A child that a full accept queue turns away is freed by
  `tcp_unhash` and once more at `tcp_in.c:116`, with its count at -1: a double
  `free`. `GivenBackOnce` says that, as long as no process is run again, this is
  the only place where a count passes zero.
* `tcp_sock.c:359-360` has the state go on to CLOSED. `tcp_process` has no
  branch for FIN_WAIT_2: the FIN of an end that closes second is ignored, so it
  stays in LAST_ACK and the other in FIN_WAIT_2 for good. TIME_WAIT is reached
  only when both close at once, and left by nothing (`tcp_timer.c:32` has
  `enable` commented out).
* `nat.h:55` says that a flag tells whether a port is assigned. With a dnat rule
  for a port of the pool the rule's port is not marked (`nat.c:92`), so the pool
  hands it out again, and the sweep frees a port in use. `PoolAccurate` and
  `AnswersReachSender` except such ports (`Shared`); port 0, which `alloc_port`
  gives when the pool is empty, is shared by all connections that get it.

The others are not spoken of anywhere:

* An equal hello is not relayed, so a flood that is lost behind the first switch
  is never repeated further away: `RootElected` fails on a line of three with
  buffers of one frame and a restart, and on a line 1 - 4 - 3 - 2.
* Answers leave also from a root port. A restarted parent believes its old
  child for a moment, and the two name each other as parent until the next
  hello (`LoopsAreTransient`).
* `nat_exit` never returns: its `u8` counter is always below 256 (`nat.c:330`),
  and `nat.lock` stays held.
* `is_flow_finished` clears and sets `external_fin` with every inbound packet
  and compares whole flag bytes, so FIN+ACK, the usual last segment, is no FIN;
  such a connection is reclaimed only by its age.
* A router answers packets for the address of the interface they came in on and
  forwards those for its other interfaces (`ip.c:17`), asking by ARP for its own
  address.
* `PendingMeansUnknown` rests on there being a single packet thread. A second
  sender could append a request just after the reply was taken in.
* A reset for a child that finds no sock reaches the listener (the lookup falls
  back to the listen table) and closes it; and a reset for nobody is answered by
  a reset (`tcp_in.c:52`), which two ends without socks repeat for ever.
* A connection that is reset while it waits in the accept queue is freed there
  and accepted all the same; accept sets its state to ESTABLISHED whatever it has
  become (`tcp_sock.c:352`) and hashes the freed sock. It takes a client that is
  run again, and then counts pass zero elsewhere too, which is why `TablesHoldLive`
  and `GivenBackOnce` are stated for processes that were not run again. Segments
  that outlive the process that sent them do the same to its successor.
* A SYN|ACK that comes before `tcp_hash` (`tcp_sock.c:286-288`) is answered by a
  reset, and the client sleeps in SYN_SENT for good: no wake-up is lost, none is
  sent.
* The queue's links that `accept` loses (`Dequeue`, `Unlink`) would be missed by a
  later call; the server's process calls it once.
* `handle_rcv_data` wakes the reader only when it is seen to sleep
  (`12-tcp_stack/tcp_sock.c:459`): the reader of `TcpStream` may go to sleep with
  data in the buffer, until more comes.
* `min` in `ring_buffer.h:58` reads the used length twice, so a read may return
  more than was asked for. Order and contents are right all the same.
* The sender's window is counted down and never looked at: a slow reader's
  buffer overflows and the assertion at `ring_buffer.h:79` ends the receiver.
* Copies of an update that are forwarded round a ring of routers are ignored when
  they come back (`NoOwnEntry`, and no newer number); that they die out is not
  stated by a property of its own.
* `update_rtable` rebuilds the table only when an update was stored: when a
  neighbour or an entry goes, the routes over it stay (`HostsRouted` is about the
  table after an update).

## Proofs

The proofs assume only what the `ASSUME`s of the modules state.

**`StpProofs`.** On every topology in which no switch has two ports on a segment
(`OnePortPerSegment`). The invariants one would like to have are not inductive
alone: a claim may be overtaken by its sender's changes. `CoreInv` adds that the
status of a switch is what `update_stp_status` computes from its ports
(`StatusFromPorts`), that a designated port carries the status of its switch and
any other a config of a port of its segment (`PortsGenuine`), and the same for
frames (`WiresGenuine`). The heart is the lemma that accepting a config improves the
switch's status; with it old claims stay backed (`NoOverclaim`), so `IndInv`,
which is both, is inductive for `Stp`. A switch that is started again has
forgotten what it claimed: `StpFaults` breaks `NoOverclaim`, and `ParentIsCloser`
with it. `CoreInv` survives, because `stp_init` sets the status, the ports
and the timer of a switch together (`RestartCore`).

| theorem | |
|---|---|
| `SpecTypeOK` | type correctness |
| `SpecNoOverclaim` | no stored or travelling config claims more than its sender can back now |
| `SpecParentIsCloser` | the parent is strictly closer to a root at least as good: no parent loops |
| `SpecCostIsAchievable` | no cost below the distance to the root |
| `SpecHelloOnlyAtRoots` | the timer runs exactly at the roots |
| `SpecStatusImproves` | no step makes a switch's root or distance worse |
| `FaultTypes`, `FaultCostIsAchievable`, `FaultHelloOnlyAtRoots` | the same with any number of crashes and restarts |
| `OnlyRestartsRetreat` | with them, the status gets worse in no step but a restart |

They hold with frames lost and buffers of any length.

**`RouterProofs`.** The cache first: `SpecTypeOK`, `SpecOneEntryPerHost`,
`SpecOneRequestPerTarget` and `SpecPendingMeansUnknown`, for any number of
hosts, packets, interfaces, slots and retries. `PendingMeansUnknown` is
inductive because only `Insert` makes an address known and it releases the
requests, and because `hand` is empty then.

Every step of the router is a step of `ArpCache` or leaves the cache's variables
alone (`RouterImplementsArpCache`, one case for each action), so what holds of the
cache holds in the router (`RouterPendingMeansUnknown`,
`RouterOneRequestPerTarget`).

To the cache's invariant `RInv` adds that every packet that waits or is in hand has
the interface and next hop of its best route and is one the router forwards
(`WaitRight`), that the packets of a request stand in the order in which they came
and the one in hand came last (`InOrder`), and `BuffersAccounted` itself. What the
frames of a step say is read off the invariant before it (`FrameRight`): the
report of a waiting packet finds its interface by hardware address, which is one
interface only because no two have the same. From it:

| theorem | |
|---|---|
| `LongestPrefixMatch` | the walk of `longest_prefix_match`, for a table of any length and order, returns a matching route with the longest mask, or none when none matches |
| `RouterBuffersAccounted` | a packet the thread has got and not freed waits in one request, once, or is in hand |
| `RouterRightWay` | a packet leaves by its best route, however long it waited; an answer is the one its header calls for and goes to the station it came from, on the interface it came in on or, after waiting, the one its frame was for; requests ask only for what packets wait for |
| `RouterNoneLostInSilence` | a packet in a frame for the interface it came in on stops waiting only by leaving for its next hop, or its sender is told |
| `RouterNoOvertaking` | packets for one next hop leave in the order in which they came |

The walk is a recursion over the table; `Induction` shows that the function
exists and what it has found after each entry.

**`TcpProofs`.** For any number of clients, any backlog, any initial sequence
numbers and any number of faults.

* `SpecNoLostWakeup`. Whether a wake-up was lost is decided by what the thread
  saw before it slept. `WInv` adds the types; that a thread that waits has said so
  and was not notified (`Unaware`); that the server's thread, between its look at
  the empty queue and its sleep, still has an empty queue or a notification
  waiting (`AcceptWaits`), and a client between its SYN and its sleep likewise
  (`ConnectWaits`); and that a client's sock is never in SYN_RECV, where the
  packet thread would wake somebody else.
* `SpecSeqAgree`. The view of a connection is a record of both socks, both wires
  and what the server's thread has done with the child. `Agreed` says of a view
  that neither end has got, or is about to get, what was not sent (`Numbers`);
  that a SYN travels alone and the child answers before it is enqueued
  (`Handshake`); that an accepted child has a client that knows it and no reset
  is on its way (`Known`); that a FIN is the last thing of its sender (`Fins`);
  and that an acknowledgement is for everything sent (`Acks`), so that
  FIN_WAIT_2 means what it says. The numbers are inequalities, an end being at
  most where its peer has got: between the sending of a FIN and its counting the
  two differ. Nothing is said of connections older than a restart. One lemma
  about views for each thing that can happen to a connection, then one lemma for
  each action. The clauses are strict because nothing is sent twice here;
  retransmission comes with `12-tcp_stack`.
* `SpecTypes` and `SpecCounted`. The types are easy; the counts are not, since two
  threads give references back without a lock. `Counted` bounds a count from below
  by the tables a sock is in, one less being allowed once the thread and the
  packet thread have both given it back; a child that is not accepted yet has one
  reference for each table, because releasing it takes that many. It holds with
  restarts too. That without them a lookup finds live socks only (`TablesHoldLive`),
  and where a count passes zero (`GivenBackOnce`), is left to the run.

**`TcpStreamProofs`.** First the ring buffer, of any size and wherever head and tail
are: `write_ring_buffer`, when its assertion holds, appends to the bytes that wait
(`WriteAppends`), `read_ring_buffer` takes them off the front (`ReadTakes`), and
what a reader has counted is not disturbed by a write before it copies
(`ReadBesideWrite`), which is why the missing lock does no harm to it. The
argument is about the way from head to tail around the array: `UsedGrows` and
`UsedShrinks` say what the two operations do to it, `OldPlace` and `NewPlace`
that the cells a write touches lie behind the bytes that wait, and in order.

Then the connection, for any data, sizes and losses. `StreamInv` adds to
`UnackedKept` that every piece, on the wire, kept for retransmission or out of
order, is the part of what was written that its number says (`SenderOK`, `LinkOK`),
that no acknowledgement is for more than has come in order, and that what was
read and what waits in the ring make up what was written to `rcv_nxt`
(`ReceiverOK`). `handle_rcv_data` takes pieces from the out-of-order list in
a loop and `delete_send_buf` pieces from the send buffer; both are functions of
the number of rounds, and `Induction` carries the invariant through them.
`StreamTypes`, `StreamUnackedKept` and `StreamImplementsByteStream`, the refinement
of `ByteStream`, follow.

**`LinkedListProofs`.** For any memory and any list: `init_list_head`,
`list_empty`, `list_add_head`, `list_add_tail` and `list_delete_entry` do to the
sequence what their names say, and a deleted node does not look deleted
(`DeletedNotEmpty`), which is what a second `tcp_unhash` of a sock would meet.

**`NatProofs`.** For any pool, rules and hash function, without assumptions
about where the rules' ports lie: `SpecTypeOK`, `SpecStableTranslation`,
`SpecPoolAccurate` and `SpecAnswersReachSender`. The invariants are inductive
together (`NatInv`): a new mapping takes a port that no mapping of its bucket
has, or, from the pool, one that no mapping has at all (or the 0 of an empty
pool), and what happens to a shared port touches no other. `StableTranslation` needs of a step only that
counting a packet and growing older leave a mapping's endpoint and port alone.

**`MospfProofs`.** For any network, buffer length and range of numbers, with
losses, timeouts and restarts: `TypeCorrect`, `NeverOwn` and `OneEntry`. The
inductive invariant `IInv` adds to the types that no buffer holds an update of
its receiver (`Allowed`), which is what leaving out the originator in
`broadcast_lsu` achieves, and that a thread's unsent update is its router's own.
`FloodingIsOrdered` proves the refinement of `MospfDb`. `HInv` adds that
whatever is stored, unsent or on its way was announced (`Sent`) and that a
running router's number is above those it announced (`Counted`); so each number
is given out once, under the lock, and it does not matter that broadcasts
overtake each other.

**Only model-checked:** every property with `<>` or `~>` (fairness and ENABLED
are outside the prover): `RootElected`, `LoopsAreTransient`, `RootElectedAgain`,
`PortsReclaimed`, `PendingLeaves`, `AcceptReturns`, `TransferEnds`,
`DatabasesAgree`; of `Tcp`, `TablesHoldLive` and `GivenBackOnce`; and the action
property `HostsRouted` of `MospfRoutes`, whose search is a recursive operator. The
other invariants and action properties of the passing runs have theorems.

## Not modelled

* Frame layouts, checksums, byte order, logging, the system calls behind raw
  sockets. Integer widths are modelled only where they decide something (the time
  to live, ports and addresses of the NAT configuration, the sequence numbers of
  `Mospf`).
* `03-hub+switch` and `05-bufferbloat` hold no protocol logic (stubs that print
  `TODO`, and experiment scripts).
* Of `10-tcp_stack`: the choice of ports (`tcp_get_port`, `tcp_sock_set_sport`:
  every process has one sock of its own port), simultaneous open, CLOSING, and
  `tcp_sock_close` of a listener, none of which the applications reach; sequence
  numbers that wrap (`tcp.h:10` compares them as signed differences).
* Of `12-tcp_stack`: what it declares and does not define, and congestion control,
  of which only the fields exist. Its connection handling is the same code as in
  `10-tcp_stack`.
* Of `08-nat`: `nat_exit`, and the IP layer around the translation, which is in the
  binary library of the laboratory.
* Of `06-router`: `arpcache_destroy`, which nothing calls.

## Plan

Done: (1) `Stp` and its faults, (2) `Nat` with its configuration, (3) `ArpCache` and
the `Router` around it, (4) `Mospf`, (5) `Tcp`, (6) `TcpStream`, (7) `LinkedList`.

What would add most next:

1. **Agreement of `Mospf` over several hops** with timing, by a coarser module than
   `MospfTimely`.
2. **`Tcp` and `TcpStream` together**: data while a connection opens and closes.
3. **Proofs**: the path computation of `MospfRoutes`, with its search written as a
   function of the number of rounds; an abstract accept queue that `Tcp` implements.

----------------------------- MODULE StpProofs -----------------------------
(***************************************************************************)
(* What TLAPS proves of Stp and StpFaults, for every set of switches,      *)
(* every topology and every loss of frames.  CoreInv says that what a port *)
(* holds is genuine but possibly old, and that the status is computed from *)
(* the ports; it survives switches that forget everything and start again. *)
(* Without restarts nobody claims more than he can back either: IndInv.    *)
(* The topologies are those with one port of a switch per segment          *)
(* (OnePortPerSegment).                                                    *)
(***************************************************************************)
EXTENDS StpFaults, TLAPS

(* Configs are ordered first by what they claim about the root.            *)
LEMMA BetterClaims ==
    ASSUME NEW v \in Config, NEW u \in Config
    PROVE  /\ Better(v, u) => AsGood(v.root, v.cost, u.root, u.cost)
           /\ ~Better(v, u) => AsGood(u.root, u.cost, v.root, v.cost)
           /\ ~Better(v, u) /\ ~Better(u, v) => v.switch = u.switch /\ v.port = u.port
<1>1. Switch \subseteq Nat
  BY TopologyAssumption
<1>2. /\ v.root \in Nat /\ v.cost \in Nat /\ v.switch \in Nat /\ v.port \in Nat
      /\ u.root \in Nat /\ u.cost \in Nat /\ u.switch \in Nat /\ u.port \in Nat
  BY <1>1 DEF Config
<1> QED BY <1>2 DEF Better, AsGood

LEMMA ConfigOfType ==
    ASSUME NEW rt \in Switch, NEW c \in Nat, NEW p \in Port
    PROVE  ConfigOf(rt, c, p) \in Config
    BY TopologyAssumption DEF ConfigOf, Config

(* Every frame on a wire after transmitting was there before, or is the    *)
(* config the transmitting port has just signed.                           *)
LEMMA TransmitFrames ==
    ASSUME NEW net \in [Wire -> Seq(Config)], NEW ps \in SUBSET Port,
           NEW rt \in Switch, NEW c \in Nat
    PROVE  /\ Transmit(net, ps, rt, c) \in [Wire -> Seq(Config)]
           /\ \A w \in Wire : \A i \in 1..Len(Transmit(net, ps, rt, c)[w]) :
                \/ /\ i \in 1..Len(net[w])
                   /\ Transmit(net, ps, rt, c)[w][i] = net[w][i]
                \/ /\ w[1] \in ps
                   /\ Transmit(net, ps, rt, c)[w][i] = ConfigOf(rt, c, w[1])
<1> DEFINE T == Transmit(net, ps, rt, c)
<1>1. ASSUME NEW w \in Wire
      PROVE  /\ T[w] \in Seq(Config)
             /\ \A i \in 1..Len(T[w]) :
                  \/ i \in 1..Len(net[w]) /\ T[w][i] = net[w][i]
                  \/ w[1] \in ps /\ T[w][i] = ConfigOf(rt, c, w[1])
  <2>1. w[1] \in Port /\ net[w] \in Seq(Config)
    BY <1>1 DEF Wire
  <2>2. ConfigOf(rt, c, w[1]) \in Config
    BY <2>1, ConfigOfType
  <2>3. CASE w[1] \in ps /\ Len(net[w]) < QueueLen
    <3>1. T[w] = Append(net[w], ConfigOf(rt, c, w[1]))
      BY <1>1, <2>3 DEF Transmit
    <3> QED BY <2>1, <2>2, <2>3, <3>1
  <2>4. CASE ~(w[1] \in ps /\ Len(net[w]) < QueueLen)
    <3>1. T[w] = net[w]
      BY <1>1, <2>4 DEF Transmit
    <3> QED BY <2>1, <3>1
  <2> QED BY <2>3, <2>4
<1>2. T = [w \in Wire |-> T[w]]
  BY DEF Transmit
<1> QED BY <1>1, <1>2

(* Reading a frame leaves only frames that were there before.              *)
LEMMA ReadFrames ==
    ASSUME NEW net \in [Wire -> Seq(Config)], NEW w \in Wire, net[w] # <<>>
    PROVE  /\ [net EXCEPT ![w] = Tail(@)] \in [Wire -> Seq(Config)]
           /\ \A v \in Wire : \A i \in 1..Len([net EXCEPT ![w] = Tail(@)][v]) :
                \E j \in 1..Len(net[v]) : [net EXCEPT ![w] = Tail(@)][v][i] = net[v][j]
           /\ Head(net[w]) \in Config
           /\ 1 \in 1..Len(net[w]) /\ Head(net[w]) = net[w][1]
<1> DEFINE rest == [net EXCEPT ![w] = Tail(@)]
<1>1. net[w] \in Seq(Config) /\ Tail(net[w]) \in Seq(Config) /\ Len(net[w]) \in Nat \ {0}
  OBVIOUS
<1>2. rest \in [Wire -> Seq(Config)]
  BY <1>1
<1>3. ASSUME NEW v \in Wire, NEW i \in 1..Len(rest[v])
      PROVE  \E j \in 1..Len(net[v]) : rest[v][i] = net[v][j]
  <2>1. CASE v = w
    <3>1. rest[v] = Tail(net[w])
      BY <2>1
    <3>2. i + 1 \in 1..Len(net[w]) /\ Tail(net[w])[i] = net[w][i + 1]
      BY <1>1, <1>3, <3>1
    <3> QED BY <2>1, <3>1, <3>2
  <2>2. CASE v # w
    BY <1>3, <2>2
  <2> QED BY <2>1, <2>2
<1> QED BY <1>1, <1>2, <1>3

(* A claim stays good while the status of its sender only improves.        *)
LEMMA ClaimsStayGood ==
    ASSUME TypeOK, TypeOK',
           \A s \in Switch : AsGood(root'[s], cost'[s], root[s], cost[s]),
           NEW m \in Config,
           AsGood(root[m.switch], cost[m.switch], m.root, m.cost)
    PROVE  AsGood(root'[m.switch], cost'[m.switch], m.root, m.cost)
<1>1. m.switch \in Switch /\ m.root \in Switch /\ m.cost \in Nat /\ Switch \subseteq Nat
  BY TopologyAssumption DEF Config
<1>2. /\ root[m.switch] \in Nat /\ root'[m.switch] \in Nat
      /\ cost[m.switch] \in Nat /\ cost'[m.switch] \in Nat
  BY <1>1 DEF TypeOK
<1>3. AsGood(root'[m.switch], cost'[m.switch], root[m.switch], cost[m.switch])
  BY <1>1
<1>4. m.root \in Nat
  BY <1>1
<1> QED BY <1>1, <1>2, <1>3, <1>4 DEF AsGood

(* A switch's own config, on the segment of its port, is genuine.          *)
LEMMA OwnConfigGenuine ==
    ASSUME NEW rt \in Switch, NEW c \in Nat, NEW x \in Port, NEW q \in Peers[x],
           rt <= Owner[x], c >= Dist[Owner[x]][rt]
    PROVE  Genuine(ConfigOf(rt, c, x), q)
    BY DEF Genuine, ConfigOf

(* The cost of a switch's status is at least its distance to the root.     *)
LEMMA StatusCost ==
    ASSUME CoreInv, NEW s \in Switch
    PROVE  cost[s] >= Dist[s][root[s]]
<1> DEFINE rp == rootPort[s]
<1>1. /\ Switch \subseteq Nat /\ Owner \in [Port -> Switch] /\ NoPort \notin Port
      /\ Peers \in [Port -> SUBSET Port]
  BY TopologyAssumption
<1>2. /\ rp \in RootPortChoice(held, s)
      /\ root[s] = RootOf(held, s, rp) /\ cost[s] = CostOf(held, s, rp)
      /\ root[s] \in Switch /\ cost[s] \in Nat
  BY DEF CoreInv, StatusFromPorts, TypeOK
<1>3. CASE rp = NoPort
  <2>1. root[s] = s /\ cost[s] = 0
    BY <1>2, <1>3 DEF RootOf, CostOf
  <2>2. Dist[s][s] = 0
    BY DistAssumption
  <2> QED BY <2>1, <2>2
<1>4. CASE rp # NoPort
  <2>1. rp \in Port /\ Owner[rp] = s /\ ~IsDesignated(held, rp)
    BY <1>1, <1>2, <1>4 DEF RootPortChoice, NonDesignated, PortsOf
  <2>2. Genuine(held[rp], rp) /\ held[rp] \in Config
    BY <2>1 DEF CoreInv, PortsGenuine, TypeOK
  <2>3. PICK x \in Port : rp \in Peers[x] /\ held[rp].switch = Owner[x]
    BY <2>2 DEF Genuine
  <2>4. /\ held[rp].root \in Switch /\ held[rp].cost \in Nat
        /\ held[rp].cost >= Dist[Owner[x]][held[rp].root]
    BY <2>2, <2>3 DEF Genuine, Config
  <2>5. Dist[s][held[rp].root] <= Dist[Owner[x]][held[rp].root] + PathCost
    BY <2>1, <2>3, <2>4, DistAssumption
  <2>6. Dist[s][held[rp].root] \in Nat /\ Dist[Owner[x]][held[rp].root] \in Nat
    <3>1. Dist \in [Switch -> [Switch -> Nat]]
      BY DistAssumption
    <3> QED BY <1>1, <2>3, <2>4, <3>1
  <2>7. root[s] = held[rp].root /\ cost[s] = held[rp].cost + PathCost
    BY <1>2, <1>4 DEF RootOf, CostOf
  <2>8. cost[s] >= Dist[s][held[rp].root]
    BY <2>4, <2>5, <2>6, <2>7 DEF PathCost
  <2> QED BY <2>7, <2>8
<1> QED BY <1>3, <1>4
-----------------------------------------------------------------------------
LEMMA InitIndInv == Init => IndInv
<1> SUFFICES ASSUME Init PROVE IndInv
  OBVIOUS
<1>1. /\ Switch \subseteq Nat /\ Owner \in [Port -> Switch] /\ Id \in [Port -> Nat]
      /\ NoPort \notin Port
  BY TopologyAssumption
<1>2. TypeOK
  BY <1>1 DEF Init, TypeOK, ConfigOf, Config
<1>3. \A p \in Port : IsDesignated(held, p) /\ held[p].root = Owner[p] /\ held[p].cost = 0
                     /\ held[p].switch = Owner[p]
  BY <1>1 DEF Init, IsDesignated, ConfigOf
<1>4. \A w \in Wire : Len(wire[w]) = 0
  BY DEF Init
<1>5. NoOverclaim
  <2>1. ASSUME NEW p \in Port
        PROVE  AsGood(root[held[p].switch], cost[held[p].switch], held[p].root, held[p].cost)
    <3>1. held[p].switch \in Switch /\ held[p].root = held[p].switch /\ held[p].cost = 0
      BY <1>1, <1>3
    <3>2. root[held[p].switch] = held[p].switch /\ cost[held[p].switch] = 0
      BY <3>1 DEF Init
    <3> QED BY <3>1, <3>2 DEF AsGood
  <2>2. \A w \in Wire : 1..Len(wire[w]) = {}
    BY <1>4
  <2> QED BY <2>1, <2>2 DEF NoOverclaim
<1>6. PortsGenuine /\ WiresGenuine
  BY <1>1, <1>3, <1>4 DEF PortsGenuine, WiresGenuine, Init
<1>7. StatusFromPorts
  <2>1. ASSUME NEW s \in Switch
        PROVE  RootPortChoice(held, s) = {NoPort} /\ s <= s
    BY <1>1, <1>3 DEF RootPortChoice, NonDesignated, PortsOf
  <2> QED BY <2>1 DEF StatusFromPorts, RootOf, CostOf, Init
<1>8. HelloOnlyAtRoots
  BY DEF HelloOnlyAtRoots, Init
<1> QED BY <1>2, <1>5, <1>6, <1>7, <1>8 DEF IndInv, CoreInv

(* A step that leaves the switches alone and only reads, loses or answers  *)
(* frames: what is then on the wires is old, or signed with the status.    *)
LEMMA QuietStep ==
    ASSUME CoreInv, UNCHANGED <<root, cost, rootPort, held, hello>>,
           wire' \in [Wire -> Seq(Config)],
           \A w \in Wire : \A i \in 1..Len(wire'[w]) :
               \/ \E j \in 1..Len(wire[w]) : wire'[w][i] = wire[w][j]
               \/ wire'[w][i] = ConfigOf(root[Owner[w[1]]], cost[Owner[w[1]]], w[1])
    PROVE  CoreInv' /\ (NoOverclaim => NoOverclaim')
<1>1. TypeOK'
  BY DEF CoreInv, TypeOK
<1>2. ASSUME NEW w \in Wire, NEW i \in 1..Len(wire'[w])
      PROVE  \/ \E j \in 1..Len(wire[w]) : wire'[w][i] = wire[w][j]
             \/ LET m == wire'[w][i] IN
                   /\ Genuine(m, w[2])
                   /\ AsGood(root[m.switch], cost[m.switch], m.root, m.cost)
  <2>1. CASE \E j \in 1..Len(wire[w]) : wire'[w][i] = wire[w][j]
    BY <2>1
  <2>2. CASE wire'[w][i] = ConfigOf(root[Owner[w[1]]], cost[Owner[w[1]]], w[1])
    <3>1. w[1] \in Port /\ w[2] \in Peers[w[1]] /\ Owner[w[1]] \in Switch
      BY TopologyAssumption DEF Wire
    <3> DEFINE s == Owner[w[1]]
    <3>2. root[s] \in Nat /\ root[s] \in Switch /\ cost[s] \in Nat
      BY <3>1, TopologyAssumption DEF CoreInv, TypeOK
    <3>3. root[s] <= s /\ cost[s] >= Dist[s][root[s]]
      BY <3>1, StatusCost DEF CoreInv, StatusFromPorts
    <3>4. Genuine(wire'[w][i], w[2])
      BY <2>2, <3>1, <3>2, <3>3, OwnConfigGenuine
    <3>5. AsGood(root[s], cost[s], root[s], cost[s])
      BY <3>2 DEF AsGood
    <3> QED BY <2>2, <3>4, <3>5 DEF ConfigOf
  <2> QED BY <1>2, <2>1, <2>2
<1>3. NoOverclaim => NoOverclaim'
  BY <1>2 DEF NoOverclaim
<1>4. PortsGenuine' /\ WiresGenuine'
  BY <1>2 DEF CoreInv, PortsGenuine, WiresGenuine, Genuine, IsDesignated
<1>5. StatusFromPorts' /\ HelloOnlyAtRoots'
  <2>1. held' = held /\ root' = root /\ cost' = cost /\ rootPort' = rootPort /\ hello' = hello
    OBVIOUS
  <2> QED BY <2>1 DEF CoreInv, StatusFromPorts, HelloOnlyAtRoots
<1> QED BY <1>1, <1>3, <1>4, <1>5 DEF CoreInv

LEMMA ReplyConfigInv ==
    ASSUME CoreInv, NEW w \in Wire, ReplyConfig(w)
    PROVE  CoreInv' /\ (NoOverclaim => NoOverclaim')
<1> DEFINE p == w[2]
           s == Owner[p]
           ps == {q \in {p} : MaySend(s, root[s], rootPort[s])}
           rest == [wire EXCEPT ![w] = Tail(@)]
<1>1. p \in Port /\ s \in Switch
  BY TopologyAssumption DEF Wire
<1>2. /\ wire \in [Wire -> Seq(Config)] /\ root[s] \in Switch /\ cost[s] \in Nat
      /\ wire[w] # <<>>
  BY <1>1 DEF CoreInv, TypeOK, ReplyConfig
<1>3. rest \in [Wire -> Seq(Config)]
      /\ \A v \in Wire : \A i \in 1..Len(rest[v]) : \E j \in 1..Len(wire[v]) : rest[v][i] = wire[v][j]
  BY <1>2, ReadFrames
<1>4. ps \in SUBSET Port /\ wire' = Transmit(rest, ps, root[s], cost[s])
      /\ UNCHANGED <<root, cost, rootPort, held, hello>>
  BY <1>1 DEF ReplyConfig
<1> HIDE DEF rest, ps
<1>5. /\ wire' \in [Wire -> Seq(Config)]
      /\ \A v \in Wire : \A i \in 1..Len(wire'[v]) :
           \/ i \in 1..Len(rest[v]) /\ wire'[v][i] = rest[v][i]
           \/ v[1] \in ps /\ wire'[v][i] = ConfigOf(root[s], cost[s], v[1])
  <2> DEFINE T == Transmit(rest, ps, root[s], cost[s])
  <2>1. /\ T \in [Wire -> Seq(Config)]
        /\ \A v \in Wire : \A i \in 1..Len(T[v]) :
             \/ i \in 1..Len(rest[v]) /\ T[v][i] = rest[v][i]
             \/ v[1] \in ps /\ T[v][i] = ConfigOf(root[s], cost[s], v[1])
    BY <1>2, <1>3, <1>4, TransmitFrames
  <2> HIDE DEF T
  <2>2. wire' = T
    BY <1>4 DEF T
  <2> QED BY <2>1, <2>2
<1>6. ASSUME NEW v \in Wire, NEW i \in 1..Len(wire'[v])
      PROVE  \/ \E j \in 1..Len(wire[v]) : wire'[v][i] = wire[v][j]
             \/ wire'[v][i] = ConfigOf(root[Owner[v[1]]], cost[Owner[v[1]]], v[1])
  <2>1. CASE i \in 1..Len(rest[v]) /\ wire'[v][i] = rest[v][i]
    BY <1>3, <2>1
  <2>2. CASE v[1] \in ps /\ wire'[v][i] = ConfigOf(root[s], cost[s], v[1])
    <3>1. v[1] = p
      BY <2>2 DEF ps
    <3> QED BY <2>2, <3>1
  <2> QED BY <1>5, <2>1, <2>2
<1> QED BY <1>4, <1>5, <1>6, QuietStep

LEMMA HelloTimeoutInv ==
    ASSUME CoreInv, NEW s \in Switch, HelloTimeout(s)
    PROVE  CoreInv' /\ (NoOverclaim => NoOverclaim')
<1> DEFINE ps == {q \in PortsOf(s) :
                    IsDesignated(held, q) /\ MaySend(s, root[s], rootPort[s])}
<1>1. wire \in [Wire -> Seq(Config)] /\ root[s] \in Switch /\ cost[s] \in Nat
  BY DEF CoreInv, TypeOK
<1>2. ps \in SUBSET Port /\ \A q \in ps : Owner[q] = s
  BY DEF PortsOf
<1>3. wire' = Transmit(wire, ps, root[s], cost[s])
      /\ UNCHANGED <<root, cost, rootPort, held, hello>>
  BY DEF HelloTimeout
<1> HIDE DEF ps
<1>4. /\ wire' \in [Wire -> Seq(Config)]
      /\ \A v \in Wire : \A i \in 1..Len(wire'[v]) :
           \/ i \in 1..Len(wire[v]) /\ wire'[v][i] = wire[v][i]
           \/ v[1] \in ps /\ wire'[v][i] = ConfigOf(root[s], cost[s], v[1])
  <2> DEFINE T == Transmit(wire, ps, root[s], cost[s])
  <2>1. /\ T \in [Wire -> Seq(Config)]
        /\ \A v \in Wire : \A i \in 1..Len(T[v]) :
             \/ i \in 1..Len(wire[v]) /\ T[v][i] = wire[v][i]
             \/ v[1] \in ps /\ T[v][i] = ConfigOf(root[s], cost[s], v[1])
    BY <1>1, <1>2, TransmitFrames
  <2> HIDE DEF T
  <2>2. wire' = T
    BY <1>3 DEF T
  <2> QED BY <2>1, <2>2
<1>5. ASSUME NEW v \in Wire, NEW i \in 1..Len(wire'[v])
      PROVE  \/ \E j \in 1..Len(wire[v]) : wire'[v][i] = wire[v][j]
             \/ wire'[v][i] = ConfigOf(root[Owner[v[1]]], cost[Owner[v[1]]], v[1])
  BY <1>2, <1>4
<1> QED BY <1>3, <1>4, <1>5, QuietStep

LEMMA LoseFrameInv ==
    ASSUME CoreInv, NEW w \in Wire, LoseFrame(w)
    PROVE  CoreInv' /\ (NoOverclaim => NoOverclaim')
<1> DEFINE rest == [wire EXCEPT ![w] = Tail(@)]
<1>1. wire \in [Wire -> Seq(Config)] /\ wire[w] # <<>> /\ wire' = rest
      /\ UNCHANGED <<root, cost, rootPort, held, hello>>
  BY DEF CoreInv, TypeOK, LoseFrame
<1>2. rest \in [Wire -> Seq(Config)]
      /\ \A v \in Wire : \A i \in 1..Len(rest[v]) : \E j \in 1..Len(wire[v]) : rest[v][i] = wire[v][j]
  BY <1>1, ReadFrames
<1> QED BY <1>1, <1>2, QuietStep
-----------------------------------------------------------------------------
(* A better config: what stp_handle_config_packet computes from it.        *)
LEMMA AcceptConfigFacts ==
    ASSUME CoreInv, OnePortPerSegment, NEW w \in Wire, AcceptConfig(w),
           NEW s, s = Owner[w[2]],
           NEW h, h = [held EXCEPT ![w[2]] = Head(wire[w])]
    PROVE  \E rp \in RootPortChoice(h, s) :
             /\ rp \in Port /\ Owner[rp] = s /\ ~IsDesignated(h, rp)
             /\ rootPort' = [rootPort EXCEPT ![s] = rp]
             /\ root' = [root EXCEPT ![s] = h[rp].root]
             /\ cost' = [cost EXCEPT ![s] = h[rp].cost + PathCost]
             /\ hello' = [hello EXCEPT ![s] = @ /\ h[rp].root = s]
             /\ held' = [q \in Port |->
                          IF q \in PortsOf(s) /\ IsDesignated(h, q)
                          THEN [h[q] EXCEPT !.root = h[rp].root, !.cost = h[rp].cost + PathCost]
                          ELSE h[q]]
             /\ \E ps \in SUBSET PortsOf(s) :
                  wire' = Transmit([wire EXCEPT ![w] = Tail(@)], ps,
                                   h[rp].root, h[rp].cost + PathCost)
             /\ h[rp].root < s
             /\ AsGood(h[rp].root, h[rp].cost + PathCost, root[s], cost[s])
<1> DEFINE p == w[2]
           m == Head(wire[w])
<1>1. /\ p \in Port /\ s \in Switch /\ w[1] \in Port /\ p \in Peers[w[1]]
      /\ Switch \subseteq Nat /\ Owner \in [Port -> Switch] /\ Id \in [Port -> Nat]
      /\ NoPort \notin Port
  BY TopologyAssumption DEF Wire
<1>2. /\ wire[w] \in Seq(Config) /\ wire[w] # <<>> /\ Better(m, held[p])
      /\ held \in [Port -> Config] /\ root[s] \in Switch /\ cost[s] \in Nat
  BY <1>1 DEF CoreInv, TypeOK, AcceptConfig
<1>3. m \in Config /\ Genuine(m, p)
  <2>1. m = wire[w][1] /\ 1 \in 1..Len(wire[w]) /\ m \in Config
    BY <1>2
  <2> QED BY <2>1 DEF CoreInv, WiresGenuine
<1>4. /\ h \in [Port -> Config] /\ h[p] = m
      /\ \A q \in Port : q # p => h[q] = held[q]
  BY <1>1, <1>2, <1>3
<1>5. \A q \in Port : Genuine(h[q], q) => ~IsDesignated(h, q)
  <2> SUFFICES ASSUME NEW q \in Port, Genuine(h[q], q) PROVE ~IsDesignated(h, q)
    OBVIOUS
  <2>1. PICK x \in Port : q \in Peers[x] /\ h[q].switch = Owner[x]
    BY DEF Genuine
  <2> QED BY <2>1 DEF OnePortPerSegment, IsDesignated
<1>6. \A q \in NonDesignated(h, s) : q \in Port /\ Owner[q] = s /\ Genuine(h[q], q)
  <2> SUFFICES ASSUME NEW q \in NonDesignated(h, s)
               PROVE  q \in Port /\ Owner[q] = s /\ Genuine(h[q], q)
    OBVIOUS
  <2>1. q \in Port /\ Owner[q] = s /\ ~IsDesignated(h, q)
    BY DEF NonDesignated, PortsOf
  <2>2. CASE q = p
    BY <1>3, <1>4, <2>1, <2>2
  <2>3. CASE q # p
    <3>1. h[q] = held[q] /\ ~IsDesignated(held, q)
      BY <1>4, <2>1, <2>3 DEF IsDesignated
    <3> QED BY <2>1, <3>1 DEF CoreInv, PortsGenuine
  <2> QED BY <2>2, <2>3
<1>7. p \in NonDesignated(h, s)
  BY <1>1, <1>3, <1>4, <1>5 DEF NonDesignated, PortsOf
<1>8. PICK rp \in RootPortChoice(h, s) :
        LET rt == RootOf(h, s, rp)
            c  == CostOf(h, s, rp)
            h2 == UpdatePorts(h, s, rp)
            ps == {q \in PortsOf(s) : IsDesignated(h2, q) /\ MaySend(s, rt, rp)}
        IN /\ rootPort' = [rootPort EXCEPT ![s] = rp]
           /\ root' = [root EXCEPT ![s] = rt]
           /\ cost' = [cost EXCEPT ![s] = c]
           /\ held' = h2
           /\ hello' = [hello EXCEPT ![s] = HelloAfter(@, s, rt)]
           /\ wire' = Transmit([wire EXCEPT ![w] = Tail(@)], ps, rt, c)
  BY DEF AcceptConfig
<1>9. /\ rp \in NonDesignated(h, s)
      /\ \A q \in NonDesignated(h, s) : ~Better(h[q], h[rp])
  BY <1>7, <1>8 DEF RootPortChoice
<1>10. rp \in Port /\ Owner[rp] = s /\ Genuine(h[rp], rp) /\ ~IsDesignated(h, rp) /\ rp # NoPort
  BY <1>1, <1>5, <1>6, <1>9
<1>11. RootOf(h, s, rp) = h[rp].root /\ CostOf(h, s, rp) = h[rp].cost + PathCost
  BY <1>10 DEF RootOf, CostOf
<1>12. \A q \in Port : ~BecomesDesignated(h, s, rp, q)
  <2> SUFFICES ASSUME NEW q \in Port, BecomesDesignated(h, s, rp, q) PROVE FALSE
    OBVIOUS
  <2>1. q \in NonDesignated(h, s) /\ q # rp /\ ~Better(h[rp], h[q]) /\ ~Better(h[q], h[rp])
    BY <1>9 DEF BecomesDesignated
  <2>2. h[q].switch = h[rp].switch /\ h[q].port = h[rp].port
    BY <1>4, <1>10, <2>1, BetterClaims
  <2>3. PICK x \in Port : q \in Peers[x] /\ h[q].switch = Owner[x] /\ h[q].port = Id[x]
    BY <1>6, <2>1 DEF Genuine
  <2>4. PICK y \in Port : rp \in Peers[y] /\ h[rp].switch = Owner[y] /\ h[rp].port = Id[y]
    BY <1>10 DEF Genuine
  <2>5. x = y
    BY <2>2, <2>3, <2>4, TopologyAssumption
  <2> QED BY <1>6, <1>10, <2>1, <2>3, <2>4, <2>5 DEF OnePortPerSegment
<1>13. UpdatePorts(h, s, rp) =
         [q \in Port |->
            IF q \in PortsOf(s) /\ IsDesignated(h, q)
            THEN [h[q] EXCEPT !.root = h[rp].root, !.cost = h[rp].cost + PathCost]
            ELSE h[q]]
  <2> DEFINE A(q) == q \in PortsOf(s) /\ IsDesignated(h, q)
             B(q) == [h[q] EXCEPT !.root = RootOf(h, s, rp), !.cost = CostOf(h, s, rp)]
             C(q) == [h[q] EXCEPT !.switch = s, !.port = Id[q]]
  <2>1. UpdatePorts(h, s, rp) =
          [q \in Port |-> IF A(q) THEN B(q)
                         ELSE IF BecomesDesignated(h, s, rp, q) THEN C(q) ELSE h[q]]
    BY DEF UpdatePorts
  <2> HIDE DEF A, B, C
  <2>2. UpdatePorts(h, s, rp) = [q \in Port |-> IF A(q) THEN B(q) ELSE h[q]]
    BY <1>12, <2>1
  <2> QED BY <1>11, <2>2 DEF A, B
<1>14. h[rp].root < s /\ AsGood(h[rp].root, h[rp].cost + PathCost, root[s], cost[s])
  <2> DEFINE r == rootPort[s]
  <2>1. /\ h[rp] \in Config /\ h[rp].root \in Nat /\ h[rp].cost \in Nat
        /\ root[s] \in Nat /\ cost[s] \in Nat /\ s \in Nat
    BY <1>1, <1>2, <1>4, <1>10 DEF Config
  <2>2. /\ r \in RootPortChoice(held, s)
        /\ root[s] = RootOf(held, s, r) /\ cost[s] = CostOf(held, s, r)
        /\ root[s] <= s /\ (root[s] = s <=> r = NoPort)
    BY <1>1 DEF CoreInv, StatusFromPorts, HelloOnlyAtRoots
  <2>3. CASE r = NoPort
    <3>1. NonDesignated(held, s) = {}
      BY <1>1, <2>2, <2>3 DEF RootPortChoice, NonDesignated, PortsOf
    <3>2. IsDesignated(held, p) /\ held[p].root = s /\ held[p].cost = 0
      <4>1. IsDesignated(held, p)
        BY <1>1, <3>1 DEF NonDesignated, PortsOf
      <4>2. ~Genuine(held[p], p)
        <5> SUFFICES ASSUME Genuine(held[p], p) PROVE FALSE
          OBVIOUS
        <5>1. PICK x \in Port : p \in Peers[x] /\ held[p].switch = Owner[x]
          BY DEF Genuine
        <5> QED BY <4>1, <5>1 DEF OnePortPerSegment, IsDesignated
      <4>3. root[s] = s /\ cost[s] = 0
        BY <2>2, <2>3 DEF RootOf, CostOf
      <4> QED BY <1>1, <4>1, <4>2, <4>3 DEF CoreInv, PortsGenuine
    <3>3. rp = p
      <4> SUFFICES ASSUME rp # p PROVE FALSE
        OBVIOUS
      <4>1. h[rp] = held[rp] /\ ~IsDesignated(held, rp)
        BY <1>4, <1>10 DEF IsDesignated
      <4> QED BY <1>10, <3>1, <4>1 DEF NonDesignated, PortsOf
    <3>4. m.root < s
      <4>1. m.root <= m.switch /\ m.switch # s /\ m.root \in Nat /\ m.cost \in Nat /\ m.switch \in Nat
        <5>1. PICK x \in Port : p \in Peers[x] /\ m.switch = Owner[x]
          BY <1>3 DEF Genuine
        <5> QED BY <1>1, <1>3, <5>1 DEF Genuine, Config, OnePortPerSegment
      <4>2. held[p].switch = s
        BY <3>2 DEF IsDesignated
      <4>3. \/ m.root < s
            \/ m.root = s /\ (m.cost < 0 \/ m.switch < s \/ m.switch = s)
        BY <1>2, <3>2, <4>2 DEF Better
      <4> QED BY <2>1, <4>1, <4>3
    <3> QED BY <1>4, <2>1, <2>2, <2>3, <3>3, <3>4 DEF AsGood
  <2>4. CASE r # NoPort
    <3>1. r \in Port /\ Owner[r] = s /\ ~IsDesignated(held, r)
      BY <1>1, <2>2, <2>4 DEF RootPortChoice, NonDesignated, PortsOf
    <3>2. root[s] = held[r].root /\ cost[s] = held[r].cost + PathCost /\ held[r] \in Config
      BY <1>2, <2>2, <2>4, <3>1 DEF RootOf, CostOf
    <3>3. r \in NonDesignated(h, s)
      <4>1. CASE r = p
        BY <1>7, <4>1
      <4>2. CASE r # p
        BY <1>4, <3>1, <4>2 DEF NonDesignated, PortsOf, IsDesignated
      <4> QED BY <4>1, <4>2
    <3>4. AsGood(h[rp].root, h[rp].cost, h[r].root, h[r].cost) /\ h[r] \in Config
      BY <1>4, <1>9, <2>1, <3>1, <3>3, BetterClaims
    <3>5. AsGood(h[r].root, h[r].cost, held[r].root, held[r].cost)
      <4>1. CASE r = p
        BY <1>2, <1>3, <1>4, <3>2, <4>1, BetterClaims
      <4>2. CASE r # p
        BY <1>4, <3>1, <3>2, <4>2 DEF AsGood, Config
      <4> QED BY <4>1, <4>2
    <3>6. /\ h[r].root \in Nat /\ h[r].cost \in Nat
          /\ held[r].root \in Nat /\ held[r].cost \in Nat
      BY <1>1, <3>2, <3>4 DEF Config
    <3>7. AsGood(h[rp].root, h[rp].cost + PathCost, held[r].root, held[r].cost + PathCost)
      BY <2>1, <3>4, <3>5, <3>6 DEF AsGood, PathCost
    <3>8. root[s] < s
      BY <2>1, <2>2, <2>4
    <3> QED BY <2>1, <3>2, <3>6, <3>7, <3>8 DEF AsGood
  <2> QED BY <2>3, <2>4
<1>15. \E ps \in SUBSET PortsOf(s) :
         wire' = Transmit([wire EXCEPT ![w] = Tail(@)], ps, h[rp].root, h[rp].cost + PathCost)
  <2> DEFINE ps == {q \in PortsOf(s) : /\ IsDesignated(UpdatePorts(h, s, rp), q)
                                      /\ MaySend(s, h[rp].root, rp)}
  <2>1. wire' = Transmit([wire EXCEPT ![w] = Tail(@)], ps, h[rp].root, h[rp].cost + PathCost)
    BY <1>8, <1>11
  <2>2. ps \in SUBSET PortsOf(s)
    OBVIOUS
  <2> QED BY <2>1, <2>2
<1>16. hello' = [hello EXCEPT ![s] = @ /\ h[rp].root = s]
  BY <1>8, <1>11 DEF HelloAfter
<1> QED BY <1>8, <1>10, <1>11, <1>13, <1>14, <1>15, <1>16

LEMMA AcceptConfigInv ==
    ASSUME CoreInv, OnePortPerSegment, NEW w \in Wire, AcceptConfig(w)
    PROVE  /\ CoreInv'
           /\ NoOverclaim => NoOverclaim'
           /\ \A t \in Switch : AsGood(root'[t], cost'[t], root[t], cost[t])
<1> DEFINE s == Owner[w[2]]
           h == [held EXCEPT ![w[2]] = Head(wire[w])]
           rest == [wire EXCEPT ![w] = Tail(@)]
<1> HIDE DEF s, h, rest
<1>1. PICK rp \in RootPortChoice(h, s) :
         /\ rp \in Port /\ Owner[rp] = s /\ ~IsDesignated(h, rp)
         /\ rootPort' = [rootPort EXCEPT ![s] = rp]
         /\ root' = [root EXCEPT ![s] = h[rp].root]
         /\ cost' = [cost EXCEPT ![s] = h[rp].cost + PathCost]
         /\ hello' = [hello EXCEPT ![s] = @ /\ h[rp].root = s]
         /\ held' = [q \in Port |->
                      IF q \in PortsOf(s) /\ IsDesignated(h, q)
                      THEN [h[q] EXCEPT !.root = h[rp].root, !.cost = h[rp].cost + PathCost]
                      ELSE h[q]]
         /\ \E ps \in SUBSET PortsOf(s) :
              wire' = Transmit(rest, ps, h[rp].root, h[rp].cost + PathCost)
         /\ h[rp].root < s
         /\ AsGood(h[rp].root, h[rp].cost + PathCost, root[s], cost[s])
  BY AcceptConfigFacts DEF s, h, rest
<1> DEFINE rt == h[rp].root
           c == h[rp].cost + PathCost
<1>2. /\ w[1] \in Port /\ w[2] \in Port /\ w[2] \in Peers[w[1]] /\ s \in Switch
      /\ Switch \subseteq Nat /\ Owner \in [Port -> Switch] /\ Id \in [Port -> Nat]
      /\ NoPort \notin Port
  BY TopologyAssumption DEF Wire, s
<1>3. /\ wire \in [Wire -> Seq(Config)] /\ wire[w] # <<>>
      /\ held \in [Port -> Config] /\ root \in [Switch -> Switch] /\ cost \in [Switch -> Nat]
      /\ rootPort \in [Switch -> Port \cup {NoPort}] /\ hello \in [Switch -> BOOLEAN]
  BY DEF CoreInv, TypeOK, AcceptConfig
<1>4. /\ rest \in [Wire -> Seq(Config)]
      /\ \A v \in Wire : \A i \in 1..Len(rest[v]) : \E j \in 1..Len(wire[v]) : rest[v][i] = wire[v][j]
      /\ Head(wire[w]) \in Config
      /\ 1 \in 1..Len(wire[w]) /\ Head(wire[w]) = wire[w][1]
  BY <1>3, ReadFrames DEF rest
<1>5. /\ h \in [Port -> Config] /\ h[w[2]] = wire[w][1]
      /\ \A q \in Port : q # w[2] => h[q] = held[q]
  BY <1>2, <1>3, <1>4 DEF h
<1>6. rt \in Switch /\ rt \in Nat /\ c \in Nat
  <2>1. h[rp] \in Config
    BY <1>1, <1>5
  <2>2. h[rp].root \in Switch /\ h[rp].cost \in Nat
    BY <2>1 DEF Config
  <2>3. h[rp].root \in Nat
    BY <1>2, <2>2
  <2>4. h[rp].cost + PathCost \in Nat
    BY <2>2 DEF PathCost
  <2> QED BY <2>2, <2>3, <2>4
<1> HIDE DEF rt, c
<1>7. /\ rootPort' = [rootPort EXCEPT ![s] = rp]
      /\ root' = [root EXCEPT ![s] = rt]
      /\ cost' = [cost EXCEPT ![s] = c]
      /\ hello' = [hello EXCEPT ![s] = @ /\ rt = s]
      /\ held' = [q \in Port |-> IF q \in PortsOf(s) /\ IsDesignated(h, q)
                                THEN [h[q] EXCEPT !.root = rt, !.cost = c]
                                ELSE h[q]]
      /\ rt < s /\ AsGood(rt, c, root[s], cost[s])
  BY <1>1 DEF rt, c
<1>71. rt < s /\ rt <= s /\ rt # s
  <2>1. s \in Nat /\ rt < s
    BY <1>1, <1>2 DEF rt
  <2> QED BY <1>6, <2>1
<1>8. PICK ps \in SUBSET PortsOf(s) : wire' = Transmit(rest, ps, rt, c)
  BY <1>1 DEF rt, c
<1>9. /\ wire' \in [Wire -> Seq(Config)]
      /\ \A v \in Wire : \A i \in 1..Len(wire'[v]) :
           \/ i \in 1..Len(rest[v]) /\ wire'[v][i] = rest[v][i]
           \/ v[1] \in ps /\ wire'[v][i] = ConfigOf(rt, c, v[1])
  <2> DEFINE T == Transmit(rest, ps, rt, c)
  <2>1. ps \in SUBSET Port
    BY DEF PortsOf
  <2>2. /\ T \in [Wire -> Seq(Config)]
        /\ \A v \in Wire : \A i \in 1..Len(T[v]) :
             \/ i \in 1..Len(rest[v]) /\ T[v][i] = rest[v][i]
             \/ v[1] \in ps /\ T[v][i] = ConfigOf(rt, c, v[1])
    BY <1>4, <1>6, <2>1, TransmitFrames
  <2> HIDE DEF T
  <2>3. wire' = T
    BY <1>8 DEF T
  <2> QED BY <2>2, <2>3
<1>10. \A t \in Switch : AsGood(root'[t], cost'[t], root[t], cost[t])
  <2> SUFFICES ASSUME NEW t \in Switch PROVE AsGood(root'[t], cost'[t], root[t], cost[t])
    OBVIOUS
  <2>1. CASE t = s
    BY <1>3, <1>7, <2>1
  <2>2. CASE t # s
    <3>1. root'[t] = root[t] /\ cost'[t] = cost[t] /\ root[t] \in Nat /\ cost[t] \in Nat
      BY <1>2, <1>3, <1>7, <2>2
    <3> QED BY <3>1 DEF AsGood
  <2> QED BY <2>1, <2>2
(* What the ports hold after the step. *)
<1>11. ASSUME NEW q \in Port
       PROVE  /\ held'[q] \in Config
              /\ held'[q].switch = h[q].switch /\ held'[q].port = h[q].port
              /\ IsDesignated(held', q) <=> IsDesignated(h, q)
              /\ Owner[q] = s /\ IsDesignated(h, q) => held'[q].root = rt /\ held'[q].cost = c
              /\ ~(Owner[q] = s /\ IsDesignated(h, q)) => held'[q] = h[q]
  <2>1. CASE Owner[q] = s /\ IsDesignated(h, q)
    <3>1. held'[q] = [h[q] EXCEPT !.root = rt, !.cost = c]
      BY <1>7, <2>1 DEF PortsOf
    <3>2. h[q] \in Config
      BY <1>5
    <3>3. /\ held'[q] \in Config
          /\ held'[q].switch = h[q].switch /\ held'[q].port = h[q].port
          /\ held'[q].root = rt /\ held'[q].cost = c
      BY <1>6, <3>1, <3>2 DEF Config
    <3> QED BY <2>1, <3>3 DEF IsDesignated
  <2>2. CASE ~(Owner[q] = s /\ IsDesignated(h, q))
    <3>1. held'[q] = h[q]
      BY <1>7, <2>2 DEF PortsOf
    <3> QED BY <1>5, <2>2, <3>1 DEF IsDesignated
  <2> QED BY <2>1, <2>2
<1>13. TypeOK'
  <2>1. held' \in [Port -> Config]
    BY <1>7, <1>11
  <2>2. rootPort' \in [Switch -> Port \cup {NoPort}]
    BY <1>1, <1>3, <1>7
  <2>3. root' \in [Switch -> Switch] /\ cost' \in [Switch -> Nat]
    BY <1>3, <1>6, <1>7
  <2>4. hello' \in [Switch -> BOOLEAN]
    BY <1>3, <1>7
  <2> QED BY <1>9, <2>1, <2>2, <2>3, <2>4 DEF TypeOK
<1>14. TypeOK
  BY DEF CoreInv
<1>15. \A v \in Wire : \A i \in 1..Len(wire[v]) :
          /\ wire[v][i] \in Config /\ Genuine(wire[v][i], v[2])
          /\ NoOverclaim => AsGood(root[wire[v][i].switch], cost[wire[v][i].switch],
                                   wire[v][i].root, wire[v][i].cost)
  BY <1>3 DEF CoreInv, WiresGenuine, NoOverclaim
<1>16. c >= Dist[s][rt]
  <2>1. Genuine(h[rp], rp)
    <3>1. CASE rp = w[2]
      BY <1>4, <1>5, <1>15, <3>1
    <3>2. CASE rp # w[2]
      <4>1. h[rp] = held[rp] /\ ~IsDesignated(held, rp)
        BY <1>1, <1>5, <3>2 DEF IsDesignated
      <4> QED BY <1>1, <4>1 DEF CoreInv, PortsGenuine
    <3> QED BY <3>1, <3>2
  <2>2. PICK x \in Port : rp \in Peers[x] /\ h[rp].switch = Owner[x]
    BY <2>1 DEF Genuine
  <2>3. h[rp].cost >= Dist[Owner[x]][rt] /\ h[rp].cost \in Nat
    BY <1>1, <1>5, <2>1, <2>2 DEF Genuine, Config, rt
  <2>4. Dist[s][rt] <= Dist[Owner[x]][rt] + PathCost
    BY <1>1, <1>6, <2>2, DistAssumption
  <2>5. Dist[s][rt] \in Nat /\ Dist[Owner[x]][rt] \in Nat
    <3>1. Dist \in [Switch -> [Switch -> Nat]]
      BY DistAssumption
    <3> QED BY <1>2, <1>6, <3>1
  <2> QED BY <2>3, <2>4, <2>5 DEF c, PathCost
<1>17. ASSUME NEW v \in Wire, NEW i \in 1..Len(wire'[v])
       PROVE  /\ Genuine(wire'[v][i], v[2])
              /\ NoOverclaim => AsGood(root'[wire'[v][i].switch], cost'[wire'[v][i].switch],
                                       wire'[v][i].root, wire'[v][i].cost)
  <2>1. CASE i \in 1..Len(rest[v]) /\ wire'[v][i] = rest[v][i]
    <3>1. PICK j \in 1..Len(wire[v]) : wire'[v][i] = wire[v][j]
      BY <1>4, <2>1
    <3>2. NoOverclaim => AsGood(root'[wire[v][j].switch], cost'[wire[v][j].switch],
                                wire[v][j].root, wire[v][j].cost)
      BY <1>10, <1>13, <1>14, <1>15, ClaimsStayGood
    <3> QED BY <1>15, <3>1, <3>2
  <2>2. CASE v[1] \in ps /\ wire'[v][i] = ConfigOf(rt, c, v[1])
    <3>1. v[1] \in Port /\ Owner[v[1]] = s /\ v[2] \in Peers[v[1]]
      BY <1>8, <2>2 DEF PortsOf, Wire
    <3>2. rt <= s
      BY <1>71
    <3>3. Genuine(wire'[v][i], v[2])
      BY <1>6, <1>16, <2>2, <3>1, <3>2, OwnConfigGenuine
    <3>4. root'[s] = rt /\ cost'[s] = c
      BY <1>2, <1>3, <1>7
    <3> QED BY <1>6, <2>2, <3>1, <3>3, <3>4 DEF ConfigOf, AsGood
  <2> QED BY <1>9, <2>1, <2>2
<1>18. ASSUME NEW q \in Port
       PROVE  /\ \/ /\ IsDesignated(held', q)
                    /\ held'[q].root = root'[Owner[q]] /\ held'[q].cost = cost'[Owner[q]]
                 \/ Genuine(held'[q], q)
              /\ NoOverclaim => AsGood(root'[held'[q].switch], cost'[held'[q].switch],
                                       held'[q].root, held'[q].cost)
  <2>1. CASE Owner[q] = s /\ IsDesignated(h, q)
    <3>1. root'[s] = rt /\ cost'[s] = c
      BY <1>2, <1>3, <1>7
    <3>2. held'[q].root = rt /\ held'[q].cost = c /\ IsDesignated(held', q) /\ held'[q].switch = s
      BY <1>11, <2>1 DEF IsDesignated
    <3> QED BY <1>6, <2>1, <3>1, <3>2 DEF AsGood
  <2>2. CASE ~(Owner[q] = s /\ IsDesignated(h, q))
    <3>1. held'[q] = h[q] /\ (IsDesignated(held', q) <=> IsDesignated(h, q))
      BY <1>11, <2>2
    <3>2. CASE q = w[2]
      <4>1. h[q] = wire[w][1]
        BY <1>5, <3>2
      <4>2. NoOverclaim => AsGood(root'[wire[w][1].switch], cost'[wire[w][1].switch],
                                  wire[w][1].root, wire[w][1].cost)
        BY <1>4, <1>10, <1>13, <1>14, <1>15, ClaimsStayGood
      <4> QED BY <1>4, <1>15, <3>1, <3>2, <4>1, <4>2
    <3>3. CASE q # w[2]
      <4>1. held'[q] = held[q] /\ held[q] \in Config
        BY <1>3, <1>5, <3>1, <3>3
      <4>2. NoOverclaim => AsGood(root[held[q].switch], cost[held[q].switch],
                                  held[q].root, held[q].cost)
        BY DEF NoOverclaim
      <4>3. NoOverclaim => AsGood(root'[held[q].switch], cost'[held[q].switch],
                                  held[q].root, held[q].cost)
        BY <1>10, <1>13, <1>14, <4>1, <4>2, ClaimsStayGood
      <4>4. CASE Genuine(held[q], q)
        BY <4>1, <4>3, <4>4
      <4>5. CASE /\ IsDesignated(held, q)
                 /\ held[q].root = root[Owner[q]] /\ held[q].cost = cost[Owner[q]]
        <5>1. IsDesignated(held', q) /\ IsDesignated(h, q)
          BY <3>1, <4>1, <4>5 DEF IsDesignated
        <5>2. Owner[q] # s
          BY <2>2, <5>1
        <5>3. root'[Owner[q]] = root[Owner[q]] /\ cost'[Owner[q]] = cost[Owner[q]]
          BY <1>2, <1>3, <1>7, <5>2
        <5> QED BY <4>1, <4>3, <4>5, <5>1, <5>3
      <4> QED BY <4>4, <4>5 DEF CoreInv, PortsGenuine
    <3> QED BY <3>2, <3>3
  <2> QED BY <2>1, <2>2
<1>19. (NoOverclaim => NoOverclaim') /\ PortsGenuine' /\ WiresGenuine'
  BY <1>17, <1>18 DEF NoOverclaim, PortsGenuine, WiresGenuine
<1>20. ASSUME NEW t \in Switch
       PROVE  /\ rootPort'[t] \in RootPortChoice(held', t)
              /\ root'[t] = RootOf(held', t, rootPort'[t])
              /\ cost'[t] = CostOf(held', t, rootPort'[t])
              /\ root'[t] <= t
              /\ hello'[t] <=> root'[t] = t
              /\ root'[t] = t <=> rootPort'[t] = NoPort
  <2>0. /\ rootPort[t] \in RootPortChoice(held, t)
        /\ root[t] = RootOf(held, t, rootPort[t])
        /\ cost[t] = CostOf(held, t, rootPort[t])
        /\ root[t] <= t
        /\ hello[t] <=> root[t] = t
        /\ root[t] = t <=> rootPort[t] = NoPort
    BY DEF CoreInv, StatusFromPorts, HelloOnlyAtRoots
  <2>1. CASE t = s
    <3>1. NonDesignated(held', s) = NonDesignated(h, s)
      BY <1>11 DEF NonDesignated, PortsOf
    <3>2. \A q \in NonDesignated(h, s) : held'[q] = h[q]
      BY <1>11 DEF NonDesignated, PortsOf
    <3>3. RootPortChoice(held', s) = RootPortChoice(h, s)
      BY <3>1, <3>2 DEF RootPortChoice
    <3>4. rootPort'[s] = rp /\ root'[s] = rt /\ cost'[s] = c /\ (hello'[s] <=> hello[s] /\ rt = s)
      BY <1>2, <1>3, <1>7
    <3>5. rp # NoPort /\ held'[rp] = h[rp]
      <4>1. rp \in Port /\ ~IsDesignated(h, rp)
        BY <1>1
      <4> QED BY <1>2, <1>11, <4>1
    <3>6. rt < s /\ rt # s
      BY <1>71
    <3>7. RootOf(held', s, rp) = rt /\ CostOf(held', s, rp) = c
      BY <3>5 DEF RootOf, CostOf, rt, c
    <3>8. rp \in RootPortChoice(held', s)
      BY <1>1, <3>3
    <3> QED BY <2>1, <3>4, <3>5, <3>6, <3>7, <3>8, <1>71
  <2>2. CASE t # s
    <3>1. \A q \in PortsOf(t) : held'[q] = held[q]
      BY <1>5, <1>11, <2>2 DEF PortsOf, s
    <3>2. NonDesignated(held', t) = NonDesignated(held, t)
      BY <3>1 DEF NonDesignated, IsDesignated
    <3>3. RootPortChoice(held', t) = RootPortChoice(held, t)
      BY <3>1, <3>2 DEF RootPortChoice, NonDesignated
    <3>4. /\ rootPort'[t] = rootPort[t] /\ root'[t] = root[t] /\ cost'[t] = cost[t]
          /\ hello'[t] = hello[t]
      BY <1>2, <1>3, <1>7, <2>2
    <3>5. rootPort[t] # NoPort => rootPort[t] \in PortsOf(t)
      BY <2>0 DEF RootPortChoice, NonDesignated
    <3>6. /\ RootOf(held', t, rootPort[t]) = RootOf(held, t, rootPort[t])
          /\ CostOf(held', t, rootPort[t]) = CostOf(held, t, rootPort[t])
      BY <3>1, <3>5 DEF RootOf, CostOf
    <3> QED BY <2>0, <3>3, <3>4, <3>6
  <2> QED BY <2>1, <2>2
<1>21. StatusFromPorts' /\ HelloOnlyAtRoots'
  BY <1>20 DEF StatusFromPorts, HelloOnlyAtRoots
<1> QED BY <1>10, <1>13, <1>19, <1>21 DEF CoreInv
-----------------------------------------------------------------------------
(* Every step preserves the invariant.                                     *)
LEMMA NextIndInv ==
    ASSUME IndInv, OnePortPerSegment, [Next]_vars
    PROVE  IndInv'
<1>1. ASSUME NEW w \in Wire, AcceptConfig(w) PROVE IndInv'
  BY <1>1, AcceptConfigInv DEF IndInv
<1>2. ASSUME NEW w \in Wire, ReplyConfig(w) PROVE IndInv'
  BY <1>2, ReplyConfigInv DEF IndInv
<1>3. ASSUME NEW s \in Switch, HelloTimeout(s) PROVE IndInv'
  BY <1>3, HelloTimeoutInv DEF IndInv
<1>4. ASSUME NEW w \in Wire, LoseFrame(w) PROVE IndInv'
  BY <1>4, LoseFrameInv DEF IndInv
<1>5. CASE UNCHANGED vars
  <2>1. /\ root' = root /\ cost' = cost /\ rootPort' = rootPort
        /\ held' = held /\ hello' = hello /\ wire' = wire
    BY <1>5 DEF vars
  <2> QED BY <2>1 DEF IndInv, CoreInv, TypeOK, NoOverclaim, PortsGenuine, WiresGenuine,
                      StatusFromPorts, HelloOnlyAtRoots
<1> QED BY <1>1, <1>2, <1>3, <1>4, <1>5 DEF Next, SwitchStep

(* The inductive invariant holds in every topology of this kind.           *)
THEOREM SpecIndInv ==
    ASSUME OnePortPerSegment
    PROVE  Spec => []IndInv
<1>1. Init => IndInv
  BY InitIndInv
<1>2. IndInv /\ [Next]_vars => IndInv'
  BY NextIndInv
<1> QED BY <1>1, <1>2, PTL DEF Spec

(* The variables of stp_t and stp_port_t keep their types.                 *)
THEOREM SpecTypeOK ==
    ASSUME OnePortPerSegment
    PROVE  Spec => []TypeOK
<1>1. IndInv => TypeOK
  BY DEF IndInv, CoreInv
<1> QED BY <1>1, SpecIndInv, PTL

(* No config, on a wire or stored in a port, however old, claims more      *)
(* about the root than the switch that sent it can still back.             *)
THEOREM SpecNoOverclaim ==
    ASSUME OnePortPerSegment
    PROVE  Spec => []NoOverclaim
<1>1. IndInv => NoOverclaim
  BY DEF IndInv, CoreInv
<1> QED BY <1>1, SpecIndInv, PTL

(* Root ports lead strictly closer to the root, so they form no loop at    *)
(* any moment of the convergence.                                          *)
THEOREM SpecParentIsCloser ==
    ASSUME OnePortPerSegment
    PROVE  Spec => []ParentIsCloser
<1>1. ASSUME IndInv PROVE ParentIsCloser
  <2> SUFFICES ASSUME NEW s \in Switch, rootPort[s] # NoPort
               PROVE  LET t == held[rootPort[s]].switch
                      IN AsGood(root[t], cost[t] + PathCost, root[s], cost[s])
    BY DEF ParentIsCloser
  <2> DEFINE m == held[rootPort[s]]
             t == m.switch
  <2>1. rootPort[s] \in Port
    BY <1>1 DEF IndInv, CoreInv, TypeOK
  <2>2. m \in Config
    BY <1>1, <2>1 DEF IndInv, CoreInv, TypeOK
  <2>3. root[s] = m.root /\ cost[s] = m.cost + PathCost
    BY <1>1 DEF IndInv, CoreInv, StatusFromPorts, RootOf, CostOf
  <2>4. AsGood(root[t], cost[t], m.root, m.cost)
    BY <1>1, <2>1 DEF IndInv, NoOverclaim
  <2>5. /\ t \in Switch /\ m.root \in Switch /\ m.cost \in Nat
        /\ root[t] \in Switch /\ cost[t] \in Nat
    BY <1>1, <2>2 DEF Config, IndInv, CoreInv, TypeOK
  <2>6. root[t] \in Nat /\ m.root \in Nat
    BY <2>5, TopologyAssumption
  <2> HIDE DEF m, t
  <2>7. AsGood(root[t], cost[t] + PathCost, root[s], cost[s])
    BY <2>3, <2>4, <2>5, <2>6 DEF AsGood, PathCost
  <2> QED BY <2>7 DEF m, t
<1> QED BY <1>1, SpecIndInv, PTL

(* No switch advertises a path to its root shorter than any that exists.   *)
THEOREM SpecCostIsAchievable ==
    ASSUME OnePortPerSegment
    PROVE  Spec => []CostIsAchievable
<1>1. IndInv => CostIsAchievable
  BY StatusCost DEF IndInv, CostIsAchievable
<1> QED BY <1>1, SpecIndInv, PTL

(* The hello timer runs exactly at the switches that believe they are the  *)
(* root: stopping it without ever starting it again is right.              *)
THEOREM SpecHelloOnlyAtRoots ==
    ASSUME OnePortPerSegment
    PROVE  Spec => []HelloOnlyAtRoots
<1>1. IndInv => HelloOnlyAtRoots
  BY DEF IndInv, CoreInv
<1> QED BY <1>1, SpecIndInv, PTL

(* The status of a switch never gets worse.                                *)
THEOREM SpecStatusImproves ==
    ASSUME OnePortPerSegment
    PROVE  Spec => StatusImproves
<1>1. ASSUME IndInv, [Next]_vars
      PROVE  [\A s \in Switch : AsGood(root'[s], cost'[s], root[s], cost[s])]_vars
  <2>1. ASSUME NEW w \in Wire, AcceptConfig(w)
        PROVE  \A s \in Switch : AsGood(root'[s], cost'[s], root[s], cost[s])
    BY <1>1, <2>1, AcceptConfigInv DEF IndInv
  <2>2. CASE UNCHANGED <<root, cost>>
    <3> SUFFICES ASSUME NEW s \in Switch PROVE AsGood(root'[s], cost'[s], root[s], cost[s])
      OBVIOUS
    <3>1. root[s] \in Switch /\ cost[s] \in Nat /\ root' = root /\ cost' = cost
      BY <1>1, <2>2 DEF IndInv, CoreInv, TypeOK
    <3>2. root[s] \in Nat
      BY <3>1, TopologyAssumption
    <3> QED BY <3>1, <3>2 DEF AsGood
  <2>3. \/ \E w \in Wire : AcceptConfig(w)
        \/ UNCHANGED <<root, cost>>
        \/ UNCHANGED vars
    BY <1>1 DEF Next, SwitchStep, ReplyConfig, HelloTimeout, LoseFrame
  <2> QED BY <2>1, <2>2, <2>3
<1> QED BY <1>1, SpecIndInv, PTL DEF Spec, StatusImproves
-----------------------------------------------------------------------------
(* With restarts.  A started switch has forgotten what it claimed, so old  *)
(* configs may claim more than it can back: NoOverclaim is gone.  What     *)
(* remains is that every config is genuine and every status is computed    *)
(* from the ports, because stp_init sets the status, the ports and the     *)
(* timer of a switch together, and the new sockets hold no old frames.     *)
LEMMA RestartCore ==
    ASSUME CoreInv, NEW s \in Switch, Restart(s)
    PROVE  CoreInv'
<1>1. /\ Switch \subseteq Nat /\ Owner \in [Port -> Switch] /\ Id \in [Port -> Nat]
      /\ NoPort \notin Port
  BY TopologyAssumption
<1>2. /\ root' = [root EXCEPT ![s] = s] /\ cost' = [cost EXCEPT ![s] = 0]
      /\ rootPort' = [rootPort EXCEPT ![s] = NoPort] /\ hello' = [hello EXCEPT ![s] = TRUE]
      /\ held' = [p \in Port |-> IF p \in PortsOf(s) THEN ConfigOf(s, 0, p) ELSE held[p]]
      /\ wire' = [w \in Wire |-> IF w[2] \in PortsOf(s) THEN <<>> ELSE wire[w]]
  BY DEF Restart
<1>3. TypeOK
  BY DEF CoreInv
<1>4. ASSUME NEW p \in Port, Owner[p] = s
      PROVE  /\ held'[p] \in Config /\ IsDesignated(held', p)
             /\ held'[p].root = s /\ held'[p].cost = 0
  <2>1. held'[p] = ConfigOf(s, 0, p)
    BY <1>2, <1>4 DEF PortsOf
  <2>2. ConfigOf(s, 0, p) \in Config
    BY ConfigOfType
  <2> QED BY <2>1, <2>2 DEF ConfigOf, IsDesignated
<1>5. ASSUME NEW p \in Port, Owner[p] # s
      PROVE  held'[p] = held[p]
  BY <1>2, <1>5 DEF PortsOf
<1>6. TypeOK'
  <2>1. held' \in [Port -> Config]
    <3>1. \A p \in Port : held'[p] \in Config
      BY <1>3, <1>4, <1>5 DEF TypeOK
    <3> QED BY <1>2, <3>1
  <2>2. wire' \in [Wire -> Seq(Config)]
    BY <1>2, <1>3 DEF TypeOK
  <2>3. /\ root' \in [Switch -> Switch] /\ cost' \in [Switch -> Nat]
        /\ rootPort' \in [Switch -> Port \cup {NoPort}] /\ hello' \in [Switch -> BOOLEAN]
    BY <1>2, <1>3 DEF TypeOK
  <2> QED BY <2>1, <2>2, <2>3 DEF TypeOK
<1>7. root'[s] = s /\ cost'[s] = 0 /\ rootPort'[s] = NoPort /\ hello'[s] = TRUE
  BY <1>2, <1>3 DEF TypeOK
<1>8. ASSUME NEW t \in Switch, t # s
      PROVE  /\ root'[t] = root[t] /\ cost'[t] = cost[t]
             /\ rootPort'[t] = rootPort[t] /\ hello'[t] = hello[t]
  BY <1>2, <1>3, <1>8 DEF TypeOK
<1>9. PortsGenuine'
  <2> SUFFICES ASSUME NEW p \in Port
               PROVE  \/ /\ IsDesignated(held', p)
                         /\ held'[p].root = root'[Owner[p]] /\ held'[p].cost = cost'[Owner[p]]
                      \/ Genuine(held'[p], p)
    BY DEF PortsGenuine
  <2>1. CASE Owner[p] = s
    BY <1>4, <1>7, <2>1
  <2>2. CASE Owner[p] # s
    <3>1. /\ held'[p] = held[p] /\ root'[Owner[p]] = root[Owner[p]]
          /\ cost'[Owner[p]] = cost[Owner[p]]
      BY <1>1, <1>5, <1>8, <2>2
    <3> QED BY <3>1 DEF CoreInv, PortsGenuine, IsDesignated
  <2> QED BY <2>1, <2>2
<1>10. WiresGenuine'
  <2> SUFFICES ASSUME NEW w \in Wire, NEW i \in 1..Len(wire'[w])
               PROVE  Genuine(wire'[w][i], w[2])
    BY DEF WiresGenuine
  <2>1. wire'[w] = wire[w]
    BY <1>2
  <2> QED BY <2>1 DEF CoreInv, WiresGenuine
<1>11. ASSUME NEW t \in Switch
       PROVE  /\ rootPort'[t] \in RootPortChoice(held', t)
              /\ root'[t] = RootOf(held', t, rootPort'[t])
              /\ cost'[t] = CostOf(held', t, rootPort'[t])
              /\ root'[t] <= t
              /\ hello'[t] <=> root'[t] = t
              /\ root'[t] = t <=> rootPort'[t] = NoPort
  <2>1. CASE t = s
    <3>1. NonDesignated(held', s) = {}
      BY <1>4 DEF NonDesignated, PortsOf
    <3> QED BY <1>1, <1>7, <2>1, <3>1 DEF RootPortChoice, RootOf, CostOf
  <2>2. CASE t # s
    <3>0. /\ rootPort[t] \in RootPortChoice(held, t)
          /\ root[t] = RootOf(held, t, rootPort[t])
          /\ cost[t] = CostOf(held, t, rootPort[t])
          /\ root[t] <= t
          /\ hello[t] <=> root[t] = t
          /\ root[t] = t <=> rootPort[t] = NoPort
      BY DEF CoreInv, StatusFromPorts, HelloOnlyAtRoots
    <3>1. \A p \in PortsOf(t) : held'[p] = held[p]
      BY <1>5, <2>2 DEF PortsOf
    <3>2. NonDesignated(held', t) = NonDesignated(held, t)
      BY <3>1 DEF NonDesignated, IsDesignated
    <3>3. RootPortChoice(held', t) = RootPortChoice(held, t)
      BY <3>1, <3>2 DEF RootPortChoice, NonDesignated
    <3>4. rootPort[t] # NoPort => rootPort[t] \in PortsOf(t)
      BY <3>0 DEF RootPortChoice, NonDesignated
    <3>5. /\ RootOf(held', t, rootPort[t]) = RootOf(held, t, rootPort[t])
          /\ CostOf(held', t, rootPort[t]) = CostOf(held, t, rootPort[t])
      BY <3>1, <3>4 DEF RootOf, CostOf
    <3> QED BY <1>8, <2>2, <3>0, <3>3, <3>5
  <2> QED BY <2>1, <2>2
<1>12. StatusFromPorts' /\ HelloOnlyAtRoots'
  BY <1>11 DEF StatusFromPorts, HelloOnlyAtRoots
<1> QED BY <1>6, <1>9, <1>10, <1>12 DEF CoreInv

(* What keeps FTypeOK and makes it inductive.                              *)
FaultInv == CoreInv /\ FTypeOK

LEMMA NextFaultInv ==
    ASSUME FaultInv, OnePortPerSegment, [FNext]_fvars
    PROVE  FaultInv'
<1>1. CoreInv /\ up \subseteq Switch /\ restarts \in 0..MaxRestarts /\ MaxRestarts \in Nat
  BY RestartsAssumption DEF FaultInv, FTypeOK
<1>2. ASSUME NEW w \in Wire, FReceive(w) PROVE FaultInv'
  <2>1. UNCHANGED <<up, restarts>> /\ (AcceptConfig(w) \/ ReplyConfig(w))
    BY <1>2 DEF FReceive
  <2>2. CoreInv'
    BY <1>1, <2>1, AcceptConfigInv, ReplyConfigInv
  <2> QED BY <1>1, <2>1, <2>2 DEF FaultInv, FTypeOK, CoreInv
<1>3. ASSUME NEW s \in Switch, FHello(s) PROVE FaultInv'
  <2>1. UNCHANGED <<up, restarts>> /\ HelloTimeout(s)
    BY <1>3 DEF FHello
  <2>2. CoreInv'
    BY <1>1, <2>1, HelloTimeoutInv
  <2> QED BY <1>1, <2>1, <2>2 DEF FaultInv, FTypeOK, CoreInv
<1>4. ASSUME UNCHANGED vars PROVE CoreInv'
  <2>1. /\ root' = root /\ cost' = cost /\ rootPort' = rootPort
        /\ held' = held /\ hello' = hello /\ wire' = wire
    BY <1>4 DEF vars
  <2> QED BY <1>1, <2>1 DEF CoreInv, TypeOK, PortsGenuine, WiresGenuine,
                           StatusFromPorts, HelloOnlyAtRoots
<1>5. ASSUME NEW s \in Switch, Crash(s) PROVE FaultInv'
  <2>1. UNCHANGED vars /\ up' \subseteq Switch /\ restarts' = restarts
    BY <1>1, <1>5 DEF Crash
  <2> QED BY <1>1, <1>4, <2>1 DEF FaultInv, FTypeOK, CoreInv
<1>6. ASSUME NEW s \in Switch, Restart(s) PROVE FaultInv'
  <2>1. up' \subseteq Switch /\ restarts' \in 0..MaxRestarts
    BY <1>1, <1>6 DEF Restart
  <2>2. CoreInv'
    BY <1>1, <1>6, RestartCore
  <2> QED BY <2>1, <2>2 DEF FaultInv, FTypeOK, CoreInv
<1>7. CASE UNCHANGED fvars
  <2>1. UNCHANGED vars /\ up' = up /\ restarts' = restarts
    BY <1>7 DEF fvars
  <2> QED BY <1>1, <1>4, <2>1 DEF FaultInv, FTypeOK, CoreInv
<1> QED BY <1>2, <1>3, <1>5, <1>6, <1>7 DEF FNext

LEMMA FaultSpecInv ==
    ASSUME OnePortPerSegment
    PROVE  FSpec => []FaultInv
<1>1. FInit => FaultInv
  BY InitIndInv, RestartsAssumption DEF FInit, FaultInv, FTypeOK, IndInv, CoreInv
<1>2. FaultInv /\ [FNext]_fvars => FaultInv'
  BY NextFaultInv
<1> QED BY <1>1, <1>2, PTL DEF FSpec

(* The variables keep their types through any crashes and restarts.        *)
THEOREM FaultTypes ==
    ASSUME OnePortPerSegment
    PROVE  FSpec => []FTypeOK
<1>1. FaultInv => FTypeOK
  BY DEF FaultInv
<1> QED BY <1>1, FaultSpecInv, PTL

(* Even a switch that believed configs of a neighbour that has since       *)
(* forgotten them never claims a path shorter than the network has.        *)
THEOREM FaultCostIsAchievable ==
    ASSUME OnePortPerSegment
    PROVE  FSpec => []CostIsAchievable
<1>1. FaultInv => CostIsAchievable
  BY StatusCost DEF FaultInv, CostIsAchievable
<1> QED BY <1>1, FaultSpecInv, PTL

(* Still the hello timer runs exactly at the switches that believe they    *)
(* are the root: no crash or restart leaves a root without its timer.      *)
THEOREM FaultHelloOnlyAtRoots ==
    ASSUME OnePortPerSegment
    PROVE  FSpec => []HelloOnlyAtRoots
<1>1. FaultInv => HelloOnlyAtRoots
  BY DEF FaultInv, CoreInv
<1> QED BY <1>1, FaultSpecInv, PTL

(* Only a restart makes a switch retreat: in every other step its status   *)
(* is as good as before, whatever the neighbours have forgotten meanwhile. *)
THEOREM OnlyRestartsRetreat ==
    ASSUME OnePortPerSegment
    PROVE  FSpec => [][\/ \E s \in Switch : Restart(s)
                       \/ \A s \in Switch : AsGood(root'[s], cost'[s], root[s], cost[s])]_fvars
<1>1. ASSUME FaultInv, [FNext]_fvars
      PROVE  [\/ \E s \in Switch : Restart(s)
              \/ \A s \in Switch : AsGood(root'[s], cost'[s], root[s], cost[s])]_fvars
  <2> DEFINE Steady == \A s \in Switch : AsGood(root'[s], cost'[s], root[s], cost[s])
  <2>1. CoreInv
    BY <1>1 DEF FaultInv
  <2>2. ASSUME NEW w \in Wire, AcceptConfig(w) PROVE Steady
    BY <2>1, <2>2, AcceptConfigInv
  <2>3. ASSUME root' = root, cost' = cost PROVE Steady
    <3>1. \A s \in Switch : root[s] \in Switch /\ root[s] \in Nat /\ cost[s] \in Nat
      BY <2>1, TopologyAssumption DEF CoreInv, TypeOK
    <3> QED BY <2>3, <3>1 DEF AsGood
  <2>4. \/ \E w \in Wire : AcceptConfig(w)
        \/ root' = root /\ cost' = cost
        \/ \E s \in Switch : Restart(s)
        \/ UNCHANGED fvars
    BY <1>1 DEF FNext, FReceive, FHello, Crash, ReplyConfig, HelloTimeout, vars
  <2> QED BY <2>2, <2>3, <2>4
<1> QED BY <1>1, FaultSpecInv, PTL DEF FSpec
=============================================================================

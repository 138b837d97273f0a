------------------------------- MODULE MCStp -------------------------------
(***************************************************************************)
(* Topologies on which TLC checks Stp.  A port is <<switch, index>>, a     *)
(* segment the set of ports one cable or hub joins.                        *)
(***************************************************************************)
EXTENDS Stp, FiniteSets

PeersOn(segments) ==
    [p \in UNION segments |-> UNION {g \ {p} : g \in {x \in segments : p \in x}}]

OwnerOn(segments) == [p \in UNION segments |-> p[1]]

IdOn(segments) == [p \in UNION segments |-> p[2]]

(* The hop distance between switches, by relaxing Cardinality times.       *)
DistOn(segments) ==
    LET switches == {p[1] : p \in UNION segments}
        n == Cardinality(switches)
        near(s, t) == \E g \in segments : {s, t} \subseteq {p[1] : p \in g}
        within[k \in 0..n] ==
            IF k = 0 THEN {<<s, s>> : s \in switches}
            ELSE within[k - 1] \cup
                 {st \in switches \X switches :
                    \E u \in switches : near(st[1], u) /\ <<u, st[2]>> \in within[k - 1]}
    IN [s \in switches |-> [t \in switches |->
          CHOOSE k \in 0..n : /\ <<s, t>> \in within[k]
                             /\ \A j \in 0..(k - 1) : <<s, t>> \notin within[j]]]

Cable(s, i, t, j) == {<<s, i>>, <<t, j>>}

(* 1 - 2 - 3, the root at one end.                                         *)
Line == {Cable(1, 1, 2, 1), Cable(2, 2, 3, 1)}
(* 1 - 3 - 2, the two small ids at the ends.                               *)
Valley == {Cable(1, 1, 3, 1), Cable(3, 2, 2, 1)}
(* 1, 2 and 3 pairwise joined.                                             *)
Triangle == {Cable(1, 1, 2, 1), Cable(2, 2, 3, 1), Cable(3, 2, 1, 2)}

Switches == 1..3

LinePorts == UNION Line
LineOwner == OwnerOn(Line)
LineId == IdOn(Line)
LinePeers == PeersOn(Line)
LineDist == DistOn(Line)

ValleyPorts == UNION Valley
ValleyOwner == OwnerOn(Valley)
ValleyId == IdOn(Valley)
ValleyPeers == PeersOn(Valley)
ValleyDist == DistOn(Valley)

TrianglePorts == UNION Triangle
TriangleOwner == OwnerOn(Triangle)
TriangleId == IdOn(Triangle)
TrianglePeers == PeersOn(Triangle)
TriangleDist == DistOn(Triangle)
=============================================================================

--------------------------- MODULE MCMospfRoutes ---------------------------
(* The network of 07-mospf/topo.py, with a fifth router between r3 and r4, *)
(* so that the ways round the ring differ in length:                       *)
(*   h1 - r1 - r2 ------- r4 - h2                                          *)
(*         \ - r3 - r5 - /                                                 *)
(*                   \ - h3                                                *)
EXTENDS MospfRoutes

CONSTANTS r1, r2, r3, r4, r5  \* model values

To(q, n) == [rid |-> q, net |-> n]

TopoLinks ==
    [r \in Router |->
       CASE r = r1 -> <<To(NoRouter, "h1"), To(r2, "12"), To(r3, "13")>>
         [] r = r2 -> <<To(r1, "12"), To(r4, "24")>>
         [] r = r3 -> <<To(r1, "13"), To(r5, "35")>>
         [] r = r4 -> <<To(r2, "24"), To(r5, "45"), To(NoRouter, "h2")>>
         [] r = r5 -> <<To(r3, "35"), To(r4, "45"), To(NoRouter, "h3")>>]
=============================================================================

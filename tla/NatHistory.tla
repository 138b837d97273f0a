----------------------------- MODULE NatHistory -----------------------------
(***************************************************************************)
(* Nat with the time a connection has been idle, which update_time should  *)
(* tell: idle[b, int] counts since the last packet of the mapping of int   *)
(* in bucket b.  Only for instances without dnat rules: one mapping per    *)
(* endpoint and bucket.                                                    *)
(***************************************************************************)
EXTENDS Nat

VARIABLE idle

hvars == <<vars, idle>>

HInit == Init /\ idle = [k \in Buckets \X Internal |-> 0]

HOut(int, r, pkt) ==
    /\ OutKnown(int, r, pkt) \/ OutNew(int, r, pkt)
    /\ idle' = [idle EXCEPT ![Hash[r], int] = 0]

HIn(r, ext, pkt) ==
    /\ InKnown(r, ext, pkt)
    /\ \E m \in MatchIn(Hash[r], ext) : idle' = [idle EXCEPT ![Hash[r], m.int] = 0]

HTick == Tick /\ idle' = [k \in DOMAIN idle |-> Older(idle[k])]

HNext ==
    \/ \E pkt \in Packet, r \in Remote :
         \/ \E int \in Internal : HOut(int, r, pkt)
         \/ \E ext \in Pool : HIn(r, ext, pkt)
    \/ Sweep /\ UNCHANGED idle
    \/ HTick

HSpec == HInit /\ [][HNext]_hvars
-----------------------------------------------------------------------------
(* nat.h:16: a connection is finished if it "does not transmit any packet  *)
(* in 60 seconds"; a mapping removed for its age has been idle that long.  *)
OnlyIdleExpire ==
    [][\A m \in table :
          \/ \E n \in table' : n.bucket = m.bucket /\ n.int = m.int
          \/ IsFlowFinished(m)
          \/ idle[m.bucket, m.int] > Timeout]_hvars
=============================================================================

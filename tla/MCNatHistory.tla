---------------------------- MODULE MCNatHistory ----------------------------
EXTENDS MCNat, NatHistory
=============================================================================

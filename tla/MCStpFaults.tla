---------------------------- MODULE MCStpFaults ----------------------------
EXTENDS MCStp, StpFaults
=============================================================================

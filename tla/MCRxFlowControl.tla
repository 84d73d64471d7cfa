---------------------------- MODULE MCRxFlowControl ----------------------------
(***************************************************************************)
(* Instances of RxFlowControl for TLC: a buffer of eight words and three    *)
(* packets.                                                                *)
(***************************************************************************)
EXTENDS RxFlowControl

MCCapacity == [bytes |-> 16, pkts |-> 3]
MCFcFreq == [bytes |-> 4, pkts |-> 2]

\* What the device drivers configure (x300_mb_iface.cpp, mpmd_mb_iface.cpp).
MCHeadroom == [bytes |-> 0, pkts |-> 0]
================================================================================

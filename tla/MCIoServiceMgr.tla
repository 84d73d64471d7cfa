---------------------------- MODULE MCIoServiceMgr ----------------------------
(***************************************************************************)
(* Instances of IoServiceMgr for TLC.  The first letter of a transport     *)
(* says what it is: c control, r and s the channels of a receive and of a  *)
(* transmit streamer with blocking services, p with polling services.      *)
(***************************************************************************)
EXTENDS IoServiceMgr

AllKinds == {"c1", "c2", "r1", "r2", "s1", "p1", "p2"}
TwoChannels == {"r1", "r2"}

MCKind == [t \in Transports |->
    CASE t \in {"c1", "c2"} -> "CTRL"
      [] t = "s1" -> "TX_DATA"
      [] OTHER -> "RX_DATA"]
MCLinksOf == [t \in Transports |-> IF t = "c2" THEN "c1" ELSE t]
MCStreamer == [t \in Transports |-> IF t = "r2" THEN "r1" ELSE t]
MCAdapter == [t \in Transports |-> "eth0"]
MCService == [t \in Transports |->
    CASE t \in {"c1", "c2"} -> "inline"
      [] t \in {"p1", "p2"} -> "poll"
      [] OTHER -> "block"]
=============================================================================

---------------------------- MODULE AlignedDelivery ----------------------------
(***************************************************************************)
(* What a receive streamer promises about several channels, from           *)
(* get_aligned_buffs.hpp, "This method reads packets from the transports   *)
(* for each channel and discards any packets whose tsf does not match      *)
(* those of other channels due to dropped packets.  Packets that do not    *)
(* have a tsf are not checked for alignment and never dropped."            *)
(*                                                                         *)
(* Packet p of each channel holds the samples of the same instant p.  Each *)
(* delivery takes one packet of every channel.                             *)
(***************************************************************************)
EXTENDS Integers, FiniteSets

CONSTANTS Chans, Timed

VARIABLES
    lost,  \* lost[c]: packets of channel c that never arrive
    back,  \* first instant after the device time was set back, or 0
    last   \* last[c]: the packet of c in the last delivery

Init ==
    /\ lost = [c \in Chans |-> {}]
    /\ back = 0
    /\ last = [c \in Chans |-> 0]

\* The environment: packets are lost, and the time is set back, once.
Environment ==
    /\ \/ /\ lost' \in [Chans -> SUBSET Nat]
          /\ \A c \in Chans : lost[c] \subseteq lost'[c]
          /\ UNCHANGED back
       \/ /\ back = 0 /\ back' \in Nat
          /\ UNCHANGED lost
    /\ UNCHANGED last

\* An instant of which the streamer gets all it needs.
Complete(p) == \A c \in Timed : p \notin lost[c]

\* Packets between two deliveries.
Skipped(c) == last[c] + 1 .. last'[c] - 1

\* Each channel restarts the alignment with its first packet after the time was
\* set back, and what the channels before it were aligned to is released: an
\* instant for each channel but the first.
Restart(p) == back # 0 /\ p \in back .. back + Cardinality(Timed) - 2

\* The packets are of one instant, and nothing but incomplete instants is
\* skipped, except to restart.
OneInstant ==
    /\ \A c, d \in Timed : last'[c] = last'[d]
    /\ \A c \in Timed : \A p \in Skipped(c) : ~Complete(p) \/ Restart(p)

\* A loss next to a change of time makes two packets of the same time ambiguous.
Ambiguous == back # 0 /\ \E c \in Chans : lost[c] # {}

Deliver ==
    /\ last' \in [Chans -> Nat]
    /\ \A c \in Chans : last'[c] > last[c] /\ last'[c] \notin lost[c]
    /\ OneInstant \/ Ambiguous
    \* Nothing is dropped from channels without time.
    /\ \A c \in Chans \ Timed : Skipped(c) \subseteq lost[c]
    /\ UNCHANGED <<lost, back>>

Next == Environment \/ Deliver

Spec == Init /\ [][Next]_<<lost, back, last>>
=============================================================================

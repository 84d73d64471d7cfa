----------------------------- MODULE PerClientFifo -----------------------------
(***************************************************************************)
(* What an I/O service promises to its clients: each has a channel of its  *)
(* own, in which packets are neither lost, nor doubled, nor reordered,     *)
(* whoever shares its link or its thread.  Packets are numbered.           *)
(*                                                                         *)
(* Only what has been received for a client that is not, or no longer,     *)
(* connected may be thrown away; what a client sends is sent even if it    *)
(* disconnects at once (offload_io_service.cpp, "they are processed only   *)
(* after all buffer release requestss have been processed").               *)
(***************************************************************************)
EXTENDS Integers, Sequences

CONSTANTS In, Out   \* channels from the link to a client, and to the link

VARIABLES
    chan,      \* chan[k]: packets under way
    accepted,  \* accepted[k]: number of packets that ever entered
    last,      \* last[k]: the last packet that came out
    open       \* the channels whose client is connected

Init ==
    /\ chan = [k \in In \union Out |-> <<>>]
    /\ accepted = [k \in In \union Out |-> 0]
    /\ last = [k \in In \union Out |-> 0]
    /\ open = {}

Accept(k) ==
    /\ chan' = [chan EXCEPT ![k] = Append(@, accepted[k] + 1)]
    /\ accepted' = [accepted EXCEPT ![k] = @ + 1]
    /\ UNCHANGED <<last, open>>

Deliver(k) ==
    /\ k \in Out \/ k \in open
    /\ chan[k] # <<>>
    /\ chan' = [chan EXCEPT ![k] = Tail(@)]
    /\ last' = [last EXCEPT ![k] = Head(chan[k])]
    /\ UNCHANGED <<accepted, open>>

Discard(k) ==
    /\ k \notin open
    /\ \E n \in 1 .. Len(chan[k]) :
          chan' = [chan EXCEPT ![k] = SubSeq(@, n + 1, Len(@))]
    /\ UNCHANGED <<accepted, last, open>>

OpenOrClose ==
    /\ open' \subseteq In
    /\ UNCHANGED <<chan, accepted, last>>

Next ==
    \/ \E k \in In \union Out : Accept(k) \/ Deliver(k)
    \/ \E k \in In : Discard(k)
    \/ OpenOrClose

Spec == Init /\ [][Next]_<<chan, accepted, last, open>>
=============================================================================

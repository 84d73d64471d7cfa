-------------------------------- MODULE RxAlign --------------------------------
(***************************************************************************)
(* Time alignment of the channels of a receive streamer:                   *)
(* get_aligned_buffs.hpp, as called by rx_streamer_zero_copy.hpp.          *)
(*                                                                         *)
(* A packet is the number of its instant.  Its time is that number, until  *)
(* the device's time is set back to where it began.  Packets of a channel  *)
(* arrive in order but may be lost, which the next packet's sequence       *)
(* number reveals.  One iteration of the loop is one step; packets arrive  *)
(* in between.  recv() reads and releases aligned packets at once; the     *)
(* two attempts of get_recv_buffs are two calls.  Overruns are in          *)
(* RxOverrun.                                                              *)
(***************************************************************************)
EXTENDS Integers, Sequences, FiniteSets

CONSTANTS
    NumChans,                    \* channels of the streamer
    Untimed,                     \* channels whose packets have no tsf
    ALIGNMENT_FAILURE_THRESHOLD,
    MaxPkts,                     \* bound: packets of each channel
    MaxLost,                     \* bound: losses
    MaxWaiting                   \* bound: packets in a channel's transport

ASSUME AlignAssumption ==
    /\ NumChans \in Nat \ {0} /\ Untimed \subseteq 0 .. NumChans - 1
    /\ {ALIGNMENT_FAILURE_THRESHOLD, MaxPkts, MaxLost, MaxWaiting} \subseteq Nat

Chans == 0 .. NumChans - 1
Timed == Chans \ Untimed

VARIABLES
    frame,      \* _frame_buffs: the packet held of each channel, or 0
    prev_tsf,   \* _prev_tsf
    to_align,   \* _channels_to_align
    time_valid, \* local of operator()
    tsf,        \* local: the time aligned to
    iterations, \* local
    at,         \* "user", "align" in the loop, or "success"
    next,       \* next[c]: the packet the channel's transport expects
    net,        \* net[c]: packets in the transport
    sent,       \* packets the device has sent on each channel
    lost, back, \* what happened to them (see AlignedDelivery)
    last        \* the last packets the user got

aligner == <<frame, prev_tsf, to_align, time_valid, tsf, iterations, at>>
device == <<sent, lost, back>>
vars == <<aligner, next, net, device, last>>

Tsf(p) == IF back # 0 /\ p >= back THEN p - back + 1 ELSE p

-----------------------------------------------------------------------------
(* get_aligned_buffs::operator() *)

Call ==
    /\ at = "user"
    /\ at' = "align"
    /\ to_align' = Chans
    /\ time_valid' = FALSE /\ tsf' = 0 /\ iterations' = 0
    /\ UNCHANGED <<frame, prev_tsf, next, net, device, last>>

\* _channels_to_align.find_first()
chan == CHOOSE c \in to_align : \A d \in to_align : c <= d

Held == frame[chan] # 0
pkt == IF Held THEN frame[chan] ELSE Head(net[chan])
seq_error == ~Held /\ pkt # next[chan]

Looping == at = "align" /\ (Held \/ net[chan] # <<>>)

\* The packet is taken from the transport unless the channel has one already.
Take ==
    IF Held THEN UNCHANGED <<net, next>>
    ELSE /\ net' = [net EXCEPT ![chan] = Tail(@)]
         /\ next' = [next EXCEPT ![chan] = pkt + 1]

\* The loop ends with the last channel, or to report a sequence error, which
\* keeps the packet.
Continue ==
    at' = IF seq_error THEN "user" ELSE IF to_align' = {} THEN "success" ELSE "align"

Timeout ==
    /\ at = "align" /\ ~Looping
    /\ at' = "user"
    /\ UNCHANGED <<frame, prev_tsf, to_align, time_valid, tsf, iterations, next, net,
                   device, last>>

\* A packet before the previous one in time restarts the alignment.
Valid == time_valid /\ prev_tsf[chan] <= Tsf(pkt)

IsNewer == ~Valid \/ Tsf(pkt) > tsf

Timestamped ==
    /\ Looping /\ chan \in Timed
    /\ prev_tsf' = [prev_tsf EXCEPT ![chan] = Tsf(pkt)]
    /\ Take
    /\ UNCHANGED <<device, last>>

\* Packets of the channels aligned before are released, those without tsf kept.
Released_Untimed == Chans \ to_align
Released == (Chans \ to_align) \ Untimed

\* Only this channel is aligned then.
StillToAlign_Others == to_align \ {chan}
StillToAlign == Chans \ {chan}

Exhausted == iterations > ALIGNMENT_FAILURE_THRESHOLD

NewTime ==
    /\ Timestamped /\ IsNewer
    /\ ~Exhausted
    /\ iterations' = iterations + 1
    /\ frame' = [c \in Chans |-> IF c = chan THEN pkt
                                 ELSE IF c \in Released THEN 0 ELSE frame[c]]
    /\ to_align' = StillToAlign
    /\ time_valid' = TRUE /\ tsf' = Tsf(pkt)
    /\ Continue

AlignmentFailure ==
    /\ Timestamped /\ IsNewer
    /\ Exhausted
    /\ iterations' = iterations + 1
    /\ frame' = [frame EXCEPT ![chan] = pkt]
    /\ time_valid' = Valid
    /\ at' = "user"
    /\ UNCHANGED <<to_align, tsf>>

SameTime ==
    /\ Timestamped /\ ~IsNewer /\ Tsf(pkt) = tsf
    /\ frame' = [frame EXCEPT ![chan] = pkt]
    /\ to_align' = to_align \ {chan}
    /\ UNCHANGED <<time_valid, tsf, iterations>>
    /\ Continue

\* A packet the other channels have no match for is released.
AfterOlder_Kept == pkt
AfterOlder == 0

OlderTime ==
    /\ Timestamped /\ ~IsNewer /\ Tsf(pkt) < tsf
    /\ frame' = [frame EXCEPT ![chan] = AfterOlder]
    /\ UNCHANGED <<to_align, time_valid, tsf, iterations>>
    /\ Continue

NoTime ==
    /\ Looping /\ chan \in Untimed
    /\ Take
    /\ frame' = [frame EXCEPT ![chan] = pkt]
    /\ to_align' = to_align \ {chan}
    /\ UNCHANGED <<prev_tsf, time_valid, tsf, iterations, device, last>>
    /\ Continue

\* recv() copies the samples and releases the packets.
Success ==
    /\ at = "success"
    /\ at' = "user"
    /\ last' = frame
    /\ frame' = [c \in Chans |-> 0]
    /\ UNCHANGED <<prev_tsf, to_align, time_valid, tsf, iterations, next, net, device>>

Iteration == NewTime \/ AlignmentFailure \/ SameTime \/ OlderTime \/ NoTime

-----------------------------------------------------------------------------
(* The device and the links *)

Arrive(c) ==
    /\ sent[c] < MaxPkts /\ Len(net[c]) < MaxWaiting
    /\ sent' = [sent EXCEPT ![c] = @ + 1]
    /\ net' = [net EXCEPT ![c] = Append(@, sent[c] + 1)]
    /\ UNCHANGED <<aligner, next, lost, back, last>>

NumLost == Cardinality(UNION {{c} \X lost[c] : c \in Chans})

Lose(c) ==
    /\ sent[c] < MaxPkts /\ NumLost < MaxLost
    /\ sent' = [sent EXCEPT ![c] = @ + 1]
    /\ lost' = [lost EXCEPT ![c] = @ \union {sent[c] + 1}]
    /\ UNCHANGED <<aligner, next, net, back, last>>

\* The user sets the device time while streaming: all channels restart from one.
SetTime(p) ==
    /\ back = 0
    /\ \A c \in Chans : sent[c] < p
    /\ \E c \in Chans : sent[c] = p - 1
    /\ back' = p
    /\ UNCHANGED <<aligner, next, net, sent, lost, last>>

Init ==
    /\ frame = [c \in Chans |-> 0]
    /\ prev_tsf = [c \in Chans |-> 0]
    /\ to_align = Chans /\ time_valid = FALSE /\ tsf = 0 /\ iterations = 0
    /\ at = "user"
    /\ next = [c \in Chans |-> 1]
    /\ net = [c \in Chans |-> <<>>]
    /\ sent = [c \in Chans |-> 0]
    /\ lost = [c \in Chans |-> {}]
    /\ back = 0
    /\ last = [c \in Chans |-> 0]

Aligner == Call \/ Timeout \/ Iteration \/ Success

Next ==
    \/ Aligner
    \/ \E c \in Chans : Arrive(c) \/ Lose(c)
    \/ \E p \in 2 .. MaxPkts : SetTime(p)

Spec == Init /\ [][Next]_vars

\* The user calls recv() again and again, and the radios stream.
FairSpec ==
    /\ Spec
    /\ WF_vars(Aligner)
    /\ \A c \in Chans : WF_vars(Arrive(c) \/ Lose(c))

-----------------------------------------------------------------------------
(* Properties *)

\* While aligning, the channels that are done hold packets of the time they
\* are aligned to, whatever errors interrupted earlier calls (_frame_buffs
\* keeps packets from call to call); at SUCCESS all channels do.
AlignedToOneTime ==
    at \in {"align", "success"} =>
        \A c \in Chans \ to_align : frame[c] # 0 /\ (c \in Timed => Tsf(frame[c]) = tsf)

\* What the class promises about the order of deliveries, and about what it
\* may discard (AlignedDelivery).
Promise == INSTANCE AlignedDelivery
DeliversAligned == Promise!Spec

\* A complete instant is delivered or, if later, passed: neither sequence
\* errors, alignment failures nor timeouts, which all keep packets for the next
\* call of operator(), stop the streamer for good.  (A channel without time that
\* lost packets has too few for its bounded number of deliveries.)
ShortOfPackets == \E c \in Untimed : lost[c] # {}
CatchesUp ==
    \A p \in 1 .. MaxPkts :
        ((\A c \in Chans : sent[c] >= p /\ p \notin lost[c]) /\ ~Promise!Restart(p))
            ~> (\/ \A c \in Timed : last[c] >= p
                \/ Promise!Ambiguous \/ ShortOfPackets)
=============================================================================

---------------------------- MODULE RxAlign_proofs ----------------------------
(***************************************************************************)
(* Proofs about RxAlign, for any number of channels and packets: at        *)
(* SUCCESS, and all the way there, the channels that are done hold packets *)
(* of one time; and RxAlign implements AlignedDelivery.                    *)
(***************************************************************************)
EXTENDS RxAlign, FiniteSetTheorems, WellFoundedInduction, SequenceTheorems, TLAPS

Packets == Nat \ {0}

\* Types, and that packets the streamer has are packets that were sent: a time
\* change, which concerns packets to come, does not change their times.
Typed ==
    /\ frame \in [Chans -> Nat]
    /\ to_align \in SUBSET Chans
    /\ at \in {"user", "align", "success"}
    /\ net \in [Chans -> Seq(Packets)]
    /\ sent \in [Chans -> Nat]
    /\ back \in Nat
Sent ==
    \A c \in Chans : /\ frame[c] <= sent[c]
                     /\ \A i \in 1 .. Len(net[c]) : net[c][i] <= sent[c]

\* The loop goes on only while there is a channel to align.
InLoop == at = "align" => to_align # {}

IInv == Typed /\ Sent /\ InLoop /\ AlignedToOneTime

-----------------------------------------------------------------------------
(* find_first() *)

Less == {p \in Nat \X Nat : p[1] < p[2]}

\* A non-empty set of channels has a first one (find_first of _channels_to_align).
LEMMA FirstExists ==
    ASSUME NEW S \in SUBSET Chans, S # {}
    PROVE  \E m \in S : \A n \in S : m <= n
<1>1. S \subseteq Nat
  BY AlignAssumption DEF Chans
<1>2. IsWellFoundedOn(Less, Nat)
  BY NatLessThanWellFounded DEF OpToRel, Less
<1>3. PICK m \in S : \A n \in S : <<n, m>> \notin Less
  BY <1>1, <1>2, WFMin
<1>4. \A n \in S : ~(n < m)
  BY <1>1, <1>3 DEF Less
<1>. QED
  BY <1>1, <1>4

\* The channel of an iteration is one that is still to be aligned.
LEMMA ChanToAlign ==
    ASSUME to_align \in SUBSET Chans, to_align # {}
    PROVE  chan \in to_align
  BY FirstExists DEF chan

\* Every iteration has a packet that was sent (the buffer of the channel is
\* either held from before or taken from its transport).
LEMMA PktSent ==
    ASSUME Typed, Sent, Looping, chan \in Chans
    PROVE  /\ pkt \in Packets
           /\ pkt <= sent[chan]
<1>1. CASE Held
  BY <1>1 DEF Typed, Sent, Held, pkt, Packets
<1>2. CASE ~Held
  <2>1. net[chan] \in Seq(Packets) /\ net[chan] # <<>>
    BY <1>2 DEF Looping, Typed
  <2>2. Len(net[chan]) >= 1 /\ Head(net[chan]) = net[chan][1] /\ net[chan][1] \in Packets
    BY <2>1
  <2>. QED
    BY <1>2, <2>2 DEF Sent, pkt
<1>. QED
  BY <1>1, <1>2

\* Taking a packet leaves packets that were sent.
LEMMA TakeKeeps ==
    ASSUME Typed, Sent, Looping, chan \in Chans, Take
    PROVE  /\ net' \in [Chans -> Seq(Packets)]
           /\ \A c \in Chans : \A i \in 1 .. Len(net'[c]) : net'[c][i] <= sent[c]
<1>1. CASE Held
  BY <1>1 DEF Take, Typed, Sent
<1>2. CASE ~Held
  <2>1. net[chan] \in Seq(Packets) /\ net[chan] # <<>>
    BY <1>2 DEF Looping, Typed
  <2>2. net' = [net EXCEPT ![chan] = Tail(@)]
    BY <1>2 DEF Take
  <2>3. Tail(net[chan]) \in Seq(Packets) /\ Len(Tail(net[chan])) = Len(net[chan]) - 1
        /\ \A i \in 1 .. Len(Tail(net[chan])) : Tail(net[chan])[i] = net[chan][i + 1]
    BY <2>1
  <2>4. net' \in [Chans -> Seq(Packets)]
    BY <2>2, <2>3 DEF Typed
  <2>5. ASSUME NEW c \in Chans, NEW i \in 1 .. Len(net'[c])
        PROVE  net'[c][i] <= sent[c]
    <3>1. CASE c = chan
      <4>1. net'[c] = Tail(net[chan])
        BY <2>2, <3>1 DEF Typed
      <4>2. i + 1 \in 1 .. Len(net[chan])
        BY <2>1, <2>3, <4>1
      <4>. QED
        BY <2>3, <3>1, <4>1, <4>2 DEF Sent
    <3>2. CASE c # chan
      BY <2>2, <3>2 DEF Typed, Sent
    <3>. QED
      BY <3>1, <3>2
  <2>. QED
    BY <2>4, <2>5
<1>. QED
  BY <1>1, <1>2

-----------------------------------------------------------------------------
(* The iterations of operator() *)

Loops == Looping /\ chan \in Chans /\ Take /\ UNCHANGED device

\* What an iteration may do with the packets held: keep or release those of the
\* other channels, and hold the one it has looked at.
OnlyPkt(held) ==
    /\ held \in [Chans -> Nat]
    /\ \A c \in Chans : held[c] \in {0, frame[c]} \/ (c = chan /\ held[c] = pkt)

LEMMA LoopKeepsSent ==
    ASSUME Typed, Sent, Loops, OnlyPkt(frame')
    PROVE  Sent' /\ net' \in [Chans -> Seq(Packets)]
<1>1. pkt \in Packets /\ pkt <= sent[chan]
  BY PktSent DEF Loops
<1>2. /\ net' \in [Chans -> Seq(Packets)]
      /\ \A c \in Chans : \A i \in 1 .. Len(net'[c]) : net'[c][i] <= sent[c]
  BY TakeKeeps DEF Loops
<1>3. sent' = sent
  BY DEF Loops, device
<1>4. ASSUME NEW c \in Chans PROVE frame'[c] <= sent[c]
  <2>1. sent[c] \in Nat /\ frame[c] <= sent[c]
    BY DEF Typed, Sent
  <2>2. CASE frame'[c] \in {0, frame[c]}
    BY <2>1, <2>2
  <2>3. CASE c = chan /\ frame'[c] = pkt
    BY <2>3, <1>1
  <2>. QED
    BY <2>2, <2>3 DEF OnlyPkt
<1>. QED
  BY <1>2, <1>3, <1>4 DEF Sent

\* The end of an iteration (lines 144 to 154).
LEMMA ContinueKeeps ==
    ASSUME Continue
    PROVE  at' \in {"user", "align", "success"} /\ InLoop'
<1>1. CASE seq_error
  BY <1>1 DEF Continue, InLoop
<1>2. CASE ~seq_error
  BY <1>2 DEF Continue, InLoop
<1>. QED
  BY <1>1, <1>2

LEMMA TimestampedLoops ==
    ASSUME IInv, Timestamped
    PROVE  Loops /\ chan \in to_align /\ chan \in Timed /\ at = "align"
  BY ChanToAlign DEF IInv, Typed, InLoop, Timestamped, Looping, Loops, Timed

\* A packet with a time the channels done so far do not have: they are started
\* over, and only this channel is done (lines 101 to 127).
LEMMA NewTimeKeeps == ASSUME IInv, NewTime PROVE IInv'
<1>1. Loops /\ chan \in Chans /\ back' = back /\ sent' = sent
  BY TimestampedLoops DEF NewTime, Loops, device
<1>2. pkt \in Packets
  BY <1>1, PktSent DEF IInv, Loops
<1>3. OnlyPkt(frame') /\ frame'[chan] = pkt
  BY <1>1, <1>2 DEF NewTime, IInv, Typed, Packets, OnlyPkt
<1>4. to_align' = Chans \ {chan} /\ tsf' = Tsf(pkt)
  BY DEF NewTime, StillToAlign
<1>5. at' \in {"user", "align", "success"} /\ InLoop'
  BY ContinueKeeps DEF NewTime
<1>6. Typed' /\ Sent'
  BY <1>1, <1>3, <1>4, <1>5, LoopKeepsSent DEF Typed, OnlyPkt, IInv
<1>7. AlignedToOneTime'
  BY <1>1, <1>2, <1>3, <1>4 DEF AlignedToOneTime, Tsf, Packets
<1>. QED
  BY <1>5, <1>6, <1>7 DEF IInv

\* A packet of the time aligned to completes its channel (lines 129 to 132).
LEMMA SameTimeKeeps == ASSUME IInv, SameTime PROVE IInv'
<1>1. Loops /\ chan \in to_align /\ at = "align" /\ back' = back /\ sent' = sent
  BY TimestampedLoops DEF SameTime, Loops, device
<1>2. pkt \in Packets
  BY <1>1, PktSent DEF IInv, Loops
<1>3. OnlyPkt(frame') /\ frame' = [frame EXCEPT ![chan] = pkt]
  BY <1>1, <1>2 DEF SameTime, IInv, Typed, Packets, OnlyPkt, Loops
<1>4. to_align' = to_align \ {chan} /\ tsf' = tsf /\ Tsf(pkt) = tsf
  BY DEF SameTime
<1>5. at' \in {"user", "align", "success"} /\ InLoop'
  BY ContinueKeeps DEF SameTime
<1>6. Typed' /\ Sent'
  BY <1>1, <1>3, <1>4, <1>5, LoopKeepsSent DEF Typed, OnlyPkt, IInv
<1>7. ASSUME NEW c \in Chans \ to_align'
      PROVE  frame'[c] # 0 /\ (c \in Timed => Tsf(frame'[c]) = tsf)
  <2>1. CASE c = chan
    BY <1>2, <1>3, <1>4, <2>1 DEF Packets, IInv, Typed
  <2>2. CASE c # chan
    BY <1>1, <1>3, <1>4, <2>2 DEF IInv, AlignedToOneTime, Typed
  <2>. QED
    BY <2>1, <2>2
<1>8. AlignedToOneTime'
  BY <1>1, <1>4, <1>7 DEF AlignedToOneTime, Tsf
<1>. QED
  BY <1>5, <1>6, <1>8 DEF IInv

\* An older packet is released; its channel is still to be aligned (134 to 138).
LEMMA OlderTimeKeeps == ASSUME IInv, OlderTime PROVE IInv'
<1>1. Loops /\ chan \in to_align /\ at = "align" /\ back' = back /\ sent' = sent
  BY TimestampedLoops DEF OlderTime, Loops, device
<1>2. OnlyPkt(frame') /\ frame' = [frame EXCEPT ![chan] = 0]
  BY <1>1 DEF OlderTime, AfterOlder, IInv, Typed, OnlyPkt, Loops
<1>3. to_align' = to_align /\ tsf' = tsf
  BY DEF OlderTime
<1>4. at' \in {"user", "align", "success"} /\ InLoop'
  BY ContinueKeeps DEF OlderTime
<1>5. Typed' /\ Sent'
  BY <1>1, <1>2, <1>3, <1>4, LoopKeepsSent DEF Typed, OnlyPkt, IInv
<1>6. AlignedToOneTime'
  BY <1>1, <1>2, <1>3 DEF AlignedToOneTime, Tsf, IInv, Typed
<1>. QED
  BY <1>4, <1>5, <1>6 DEF IInv

\* A packet without time completes its channel (lines 139 to 142).
LEMMA NoTimeKeeps == ASSUME IInv, NoTime PROVE IInv'
<1>1. Loops /\ chan \in to_align /\ chan \notin Timed /\ at = "align" /\ back' = back /\ sent' = sent
  BY ChanToAlign DEF NoTime, Loops, device, IInv, Typed, InLoop, Looping, Timed
<1>2. pkt \in Packets
  BY <1>1, PktSent DEF IInv, Loops
<1>3. OnlyPkt(frame') /\ frame' = [frame EXCEPT ![chan] = pkt]
  BY <1>1, <1>2 DEF NoTime, IInv, Typed, Packets, OnlyPkt, Loops
<1>4. to_align' = to_align \ {chan} /\ tsf' = tsf
  BY DEF NoTime
<1>5. at' \in {"user", "align", "success"} /\ InLoop'
  BY ContinueKeeps DEF NoTime
<1>6. Typed' /\ Sent'
  BY <1>1, <1>3, <1>4, <1>5, LoopKeepsSent DEF Typed, OnlyPkt, IInv
<1>7. AlignedToOneTime'
  BY <1>1, <1>2, <1>3, <1>4 DEF AlignedToOneTime, Tsf, IInv, Typed, Packets
<1>. QED
  BY <1>5, <1>6, <1>7 DEF IInv

\* The call fails and keeps the packet (lines 104 to 110).
LEMMA AlignmentFailureKeeps == ASSUME IInv, AlignmentFailure PROVE IInv'
<1>1. Loops /\ back' = back /\ sent' = sent
  BY TimestampedLoops DEF AlignmentFailure, Loops, device
<1>2. pkt \in Packets
  BY <1>1, PktSent DEF IInv, Loops
<1>3. OnlyPkt(frame')
  BY <1>1, <1>2 DEF AlignmentFailure, IInv, Typed, Packets, OnlyPkt, Loops
<1>4. to_align' = to_align /\ at' = "user"
  BY DEF AlignmentFailure
<1>5. Typed' /\ Sent'
  BY <1>1, <1>3, <1>4, LoopKeepsSent DEF Typed, OnlyPkt, IInv
<1>. QED
  BY <1>4, <1>5 DEF IInv, InLoop, AlignedToOneTime

-----------------------------------------------------------------------------
(* The other steps *)

LEMMA CallKeeps == ASSUME IInv, Call PROVE IInv'
<1>1. 0 \in Chans
  BY AlignAssumption DEF Chans
<1>. QED
  BY <1>1 DEF Call, IInv, Typed, Sent, InLoop, AlignedToOneTime, device

LEMMA TimeoutKeeps == ASSUME IInv, Timeout PROVE IInv'
  BY DEF Timeout, IInv, Typed, Sent, InLoop, AlignedToOneTime, device

LEMMA SuccessKeeps == ASSUME IInv, Success PROVE IInv'
  BY DEF Success, IInv, Typed, Sent, InLoop, AlignedToOneTime, device

\* Packets that arrive are sent before.
LEMMA ArriveKeeps == ASSUME IInv, NEW c \in Chans, Arrive(c) PROVE IInv'
<1>1. /\ sent' = [sent EXCEPT ![c] = @ + 1]
      /\ net' = [net EXCEPT ![c] = Append(@, sent[c] + 1)]
      /\ UNCHANGED aligner /\ back' = back
  BY DEF Arrive
<1>2. sent[c] \in Nat /\ sent[c] + 1 \in Packets /\ net[c] \in Seq(Packets)
  BY DEF IInv, Typed, Packets
<1>3. Append(net[c], sent[c] + 1) \in Seq(Packets)
  BY <1>2
<1>4. Typed'
  BY <1>1, <1>2, <1>3 DEF IInv, Typed, aligner
<1>5. \A d \in Chans : frame[d] <= sent[d] /\ sent[d] <= sent'[d] /\ {frame[d], sent[d], sent'[d]} \subseteq Nat
  BY <1>1 DEF IInv, Typed, Sent
<1>6. ASSUME NEW d \in Chans, NEW i \in 1 .. Len(net'[d])
      PROVE  net'[d][i] <= sent'[d]
  <2>1. CASE d # c
    BY <1>1, <2>1 DEF IInv, Typed, Sent
  <2>2. CASE d = c
    <3>1. net'[d] = Append(net[c], sent[c] + 1) /\ sent'[d] = sent[c] + 1
      BY <1>1, <2>2 DEF IInv, Typed
    <3>2. CASE i \in 1 .. Len(net[c])
      <4>1. net'[d][i] = net[c][i] /\ net[c][i] <= sent[c] /\ net[c][i] \in Nat
        BY <1>2, <3>1, <3>2 DEF IInv, Sent, Packets
      <4>. QED
        BY <1>2, <3>1, <4>1
    <3>3. CASE i = Len(net[c]) + 1
      BY <1>2, <3>1, <3>3
    <3>. QED
      BY <1>2, <3>1, <3>2, <3>3
  <2>. QED
    BY <2>1, <2>2
<1>7. \A d \in Chans : frame[d] <= sent'[d]
  BY <1>5
<1>8. Sent'
  BY <1>1, <1>6, <1>7 DEF Sent, aligner
<1>. QED
  BY <1>1, <1>4, <1>8 DEF IInv, InLoop, AlignedToOneTime, aligner, Tsf

LEMMA LoseKeeps == ASSUME IInv, NEW c \in Chans, Lose(c) PROVE IInv'
<1>1. /\ sent' = [sent EXCEPT ![c] = @ + 1]
      /\ UNCHANGED aligner /\ back' = back /\ net' = net
  BY DEF Lose
<1>2. \A d \in Chans : sent[d] <= sent'[d] /\ {frame[d], sent[d], sent'[d]} \subseteq Nat
  BY <1>1 DEF IInv, Typed
<1>3. Typed'
  BY <1>1, <1>2 DEF IInv, Typed, aligner
<1>4. ASSUME NEW d \in Chans
      PROVE  frame[d] <= sent'[d] /\ \A i \in 1 .. Len(net[d]) : net[d][i] <= sent'[d]
  <2>1. \A i \in 1 .. Len(net[d]) : net[d][i] \in Nat /\ net[d][i] <= sent[d]
    BY DEF IInv, Typed, Sent, Packets
  <2>. QED
    BY <1>2, <2>1 DEF IInv, Sent
<1>5. Sent'
  BY <1>1, <1>4 DEF Sent, aligner
<1>. QED
  BY <1>1, <1>3, <1>5 DEF IInv, InLoop, AlignedToOneTime, aligner, Tsf

\* The time changes for packets to come only: those held keep their times.
LEMMA SetTimeKeeps == ASSUME IInv, NEW p \in 2 .. MaxPkts, SetTime(p) PROVE IInv'
<1>1. UNCHANGED <<frame, to_align, at, tsf, net, sent>> /\ back = 0 /\ back' = p /\ p \in Nat
  BY DEF SetTime, aligner
<1>2. \A c \in Chans : frame[c] \in Nat /\ sent[c] \in Nat /\ frame[c] <= sent[c] /\ sent[c] < p
  BY DEF SetTime, IInv, Typed, Sent
<1>3. \A c \in Chans : Tsf(frame[c]) = frame[c] /\ ~(frame[c] >= p)
  BY <1>1, <1>2 DEF Tsf
<1>4. AlignedToOneTime'
  BY <1>1, <1>3 DEF IInv, AlignedToOneTime, Tsf
<1>. QED
  BY <1>1, <1>4 DEF IInv, Typed, Sent, InLoop

-----------------------------------------------------------------------------
LEMMA InitIInv == Init => IInv
  BY DEF Init, IInv, Typed, Sent, InLoop, AlignedToOneTime, Packets

LEMMA NextIInv == IInv /\ [Next]_vars => IInv'
<1>. SUFFICES ASSUME IInv, [Next]_vars PROVE IInv'
  OBVIOUS
<1>1. CASE Aligner
  BY <1>1, CallKeeps, TimeoutKeeps, SuccessKeeps, NewTimeKeeps, AlignmentFailureKeeps,
     SameTimeKeeps, OlderTimeKeeps, NoTimeKeeps DEF Aligner, Iteration
<1>2. CASE \E c \in Chans : Arrive(c) \/ Lose(c)
  BY <1>2, ArriveKeeps, LoseKeeps
<1>3. CASE \E p \in 2 .. MaxPkts : SetTime(p)
  BY <1>3, SetTimeKeeps
<1>4. CASE UNCHANGED vars
  BY <1>4 DEF vars, aligner, device, IInv, Typed, Sent, InLoop, AlignedToOneTime, Tsf
<1>. QED
  BY <1>1, <1>2, <1>3, <1>4 DEF Next

\* For any number of channels, timed or not, of packets, losses and attempts: the
\* channels that get_aligned_buffs has finished hold packets of the one time it
\* aligns to, whatever happened in this call or earlier ones.
THEOREM Aligned == Spec => []AlignedToOneTime
<1>1. IInv => AlignedToOneTime
  BY DEF IInv
<1>. QED
  BY InitIInv, NextIInv, <1>1, PTL DEF Spec
-----------------------------------------------------------------------------
(* The refinement of AlignedDelivery *)

\* What the history and the remaining variables are.
MoreTypes ==
    /\ next \in [Chans -> Nat]
    /\ prev_tsf \in [Chans -> Nat]
    /\ last \in [Chans -> Nat]
    /\ lost \in [Chans -> SUBSET Nat]
    /\ time_valid \in BOOLEAN

\* The packets of a channel in their order: delivered or released, then the one
\* held, then those in the transport; of the rest, every one sent is lost.
InOrder(c) ==
    /\ last[c] < next[c] /\ next[c] <= sent[c] + 1
    /\ frame[c] # 0 => /\ last[c] < frame[c] /\ frame[c] = next[c] - 1
                       /\ frame[c] \notin lost[c]
    /\ \A i \in 1 .. Len(net[c]) :
        /\ next[c] <= net[c][i] /\ net[c][i] \notin lost[c]
        /\ \A j \in 1 .. i - 1 : net[c][j] < net[c][i]
    /\ \A p \in lost[c] : p <= sent[c]
    /\ \A p \in next[c] .. sent[c] :
        p \in lost[c] \/ \E i \in 1 .. Len(net[c]) : net[c][i] = p

Ordered == \A c \in Chans : InOrder(c)

\* _prev_tsf is the time of the last packet looked at.
Clocks == \A c \in Timed : prev_tsf[c] = Tsf(next[c] - 1)

\* time_valid says whether a channel with time is aligned.
Loop ==
    /\ at = "success" => to_align = {}
    /\ at = "align" => (time_valid <=> \E c \in Timed : c \notin to_align)

\* A packet that was taken and not delivered is held; or another channel lost
\* the packet of its instant.  A channel without time releases none.
Kept ==
    /\ \A c \in Chans \ Timed : \A p \in last[c] + 1 .. next[c] - 1 :
        p = frame[c] \/ p \in lost[c]
    /\ back = 0 => \A c \in Timed : \A p \in last[c] + 1 .. next[c] - 1 :
        p = frame[c] \/ ~Promise!Complete(p)

SameLast ==
    ~Promise!Ambiguous => \A c, d \in Timed : last[c] = last[d]

NoLoss == \A c \in Chans : lost[c] = {}

\* The channels that have seen that the time was set back.
Joined == {c \in Timed : next[c] > back}

\* Without losses all channels are at the same packet.  Between the last
\* delivery before the time was set back and the first one after it, none is
\* further than the number of channels that have seen it.
Together ==
    NoLoss => \A c \in Timed :
        /\ last[c] + 1 # back =>
            next[c] = IF frame[c] = 0 THEN last[c] + 1 ELSE last[c] + 2
        /\ last[c] + 1 = back /\ c \in Joined =>
            /\ next[c] <= back + Cardinality(Joined)
            /\ frame[c] = 0 => next[c] < back + Cardinality(Joined)

More == MoreTypes /\ Ordered /\ Clocks /\ Loop /\ Kept /\ SameLast /\ Together

LEMMA Numbers ==
    ASSUME IInv, MoreTypes, NEW c \in Chans
    PROVE  /\ last[c] \in Nat /\ next[c] \in Nat /\ frame[c] \in Nat /\ sent[c] \in Nat
           /\ back \in Nat /\ lost[c] \in SUBSET Nat
           /\ net[c] \in Seq(Packets) /\ Len(net[c]) \in Nat
           /\ \A i \in 1 .. Len(net[c]) : net[c][i] \in Nat /\ net[c][i] >= 1
                                          /\ net[c][i] <= sent[c]
<1>1. net[c] \in Seq(Packets)
  BY DEF IInv, Typed
<1>2. \A i \in 1 .. Len(net[c]) : net[c][i] \in Packets
  BY <1>1
<1>. QED
  BY <1>1, <1>2 DEF IInv, Typed, Sent, MoreTypes, Packets

\* The packet of an iteration is the next one not lost: what was passed over
\* was lost on this channel, or by the time this channel got there had been
\* lost on another.
LEMMA PktFacts ==
    ASSUME IInv, More, Looping, chan \in Chans
    PROVE  /\ pkt \in Nat /\ pkt >= 1 /\ pkt <= sent[chan] /\ pkt \notin lost[chan]
           /\ last[chan] < pkt /\ next[chan] <= pkt + 1
           /\ Held => pkt = frame[chan] /\ pkt = next[chan] - 1
           /\ ~Held => /\ frame[chan] = 0 /\ next[chan] <= pkt
                       /\ net[chan] # <<>> /\ pkt = net[chan][1]
           /\ \A p \in next[chan] .. pkt - 1 : p \in lost[chan]
           /\ NoLoss => pkt = IF Held THEN next[chan] - 1 ELSE next[chan]
<1>1. pkt \in Nat /\ pkt >= 1 /\ pkt <= sent[chan]
  BY PktSent DEF IInv, Packets
<1>2. /\ last[chan] \in Nat /\ next[chan] \in Nat /\ frame[chan] \in Nat
      /\ sent[chan] \in Nat /\ InOrder(chan)
  BY Numbers DEF More, Ordered
<1>3. CASE Held
  <2>1. pkt = frame[chan] /\ frame[chan] # 0
    BY <1>3 DEF Held, pkt
  <2>2. pkt = next[chan] - 1 /\ last[chan] < pkt /\ pkt \notin lost[chan]
    BY <1>2, <2>1 DEF InOrder
  <2>. QED
    BY <1>1, <1>2, <1>3, <2>1, <2>2
<1>4. CASE ~Held
  <2>1. frame[chan] = 0 /\ net[chan] # <<>> /\ pkt = Head(net[chan])
    BY <1>4 DEF Held, pkt, Looping
  <2>2. net[chan] \in Seq(Packets) /\ Len(net[chan]) \in Nat
    BY Numbers DEF More
  <2>3. 1 \in 1 .. Len(net[chan]) /\ pkt = net[chan][1]
    BY <2>1, <2>2
  <2>4. next[chan] <= pkt /\ pkt \notin lost[chan]
    BY <1>2, <2>3 DEF InOrder
  <2>5. ASSUME NEW p \in next[chan] .. pkt - 1 PROVE p \in lost[chan]
    <3>1. p \in next[chan] .. sent[chan] /\ p < pkt
      BY <1>1, <1>2
    <3>2. ASSUME NEW i \in 1 .. Len(net[chan]), net[chan][i] = p PROVE FALSE
      <4>1. CASE i = 1
        BY <2>3, <3>1, <3>2, <4>1, <1>1
      <4>2. CASE i # 1
        <5>1. 1 \in 1 .. i - 1
          BY <2>2, <4>2
        <5>2. net[chan][1] < net[chan][i]
          BY <1>2, <5>1 DEF InOrder
        <5>. QED
          BY <1>1, <2>3, <3>1, <3>2, <5>2
      <4>. QED
        BY <4>1, <4>2
    <3>. QED
      BY <1>2, <3>1, <3>2 DEF InOrder
  <2>6. last[chan] < pkt /\ next[chan] <= pkt + 1
    BY <1>1, <1>2, <2>4 DEF InOrder
  <2>7. NoLoss => pkt = next[chan]
    <3>1. ASSUME NoLoss, pkt # next[chan] PROVE FALSE
      <4>1. next[chan] \in next[chan] .. pkt - 1
        BY <1>1, <1>2, <2>4, <3>1
      <4>. QED
        BY <2>5, <3>1, <4>1 DEF NoLoss
    <3>. QED
      BY <3>1
  <2>. QED
    BY <1>1, <1>4, <2>1, <2>3, <2>4, <2>5, <2>6, <2>7
<1>. QED
  BY <1>3, <1>4

\* Instants between the last delivery and the packet of an iteration: they are
\* not complete, and those of a channel without time are lost on it.
LEMMA PassedOver ==
    ASSUME IInv, More, Looping, chan \in Chans, NEW p \in last[chan] + 1 .. pkt - 1
    PROVE  /\ chan \in Timed /\ back = 0 => ~Promise!Complete(p)
           /\ chan \notin Timed => p \in lost[chan]
<1>1. /\ last[chan] \in Nat /\ next[chan] \in Nat /\ pkt \in Nat
      /\ next[chan] <= pkt + 1
      /\ (Held => pkt = frame[chan]) /\ (~Held => frame[chan] = 0)
  BY Numbers, PktFacts DEF More
<1>2. p \in Nat /\ p >= 1 /\ p < pkt
  BY <1>1
<1>3. CASE p \in next[chan] .. pkt - 1
  <2>1. p \in lost[chan]
    BY <1>3, PktFacts
  <2>. QED
    BY <2>1 DEF Promise!Complete
<1>4. CASE p \in last[chan] + 1 .. next[chan] - 1
  <2>1. p # frame[chan]
    BY <1>2, PktFacts
  <2>. QED
    BY <1>4, <2>1 DEF More, Kept
<1>. QED
  BY <1>1, <1>3, <1>4

\* What every iteration does to the packets: it looks at one, and holds or
\* releases it; of the others it may release some.
Looks ==
    /\ Loops /\ last' = last
    /\ frame' \in [Chans -> Nat]
    /\ frame'[chan] \in {0, pkt}
    /\ \A c \in Chans \ {chan} : frame'[c] \in {0, frame[c]}

LEMMA LooksNext ==
    ASSUME IInv, More, Looks
    PROVE  /\ next' = [next EXCEPT ![chan] = pkt + 1]
           /\ next' \in [Chans -> Nat]
           /\ Held => net' = net
           /\ ~Held => net' = [net EXCEPT ![chan] = Tail(@)]
<1>1. next \in [Chans -> Nat] /\ Looping /\ chan \in Chans /\ Take
  BY DEF More, MoreTypes, Looks, Loops
<1>2. pkt \in Nat /\ (Held => next[chan] = pkt + 1)
  BY <1>1, PktFacts DEF More, MoreTypes
<1>3. CASE Held
  <2>1. next' = next /\ net' = net
    BY <1>1, <1>3 DEF Take
  <2>. QED
    BY <1>1, <1>2, <1>3, <2>1
<1>4. CASE ~Held
  BY <1>1, <1>2, <1>4 DEF Take
<1>. QED
  BY <1>3, <1>4

LEMMA LooksOrdered ==
    ASSUME IInv, More, Looks
    PROVE  Ordered'
<1>1. /\ next' = [next EXCEPT ![chan] = pkt + 1] /\ next \in [Chans -> Nat]
      /\ Held => net' = net
      /\ ~Held => net' = [net EXCEPT ![chan] = Tail(@)]
  BY LooksNext DEF More, MoreTypes
<1>2. /\ Looping /\ chan \in Chans /\ last' = last /\ sent' = sent /\ lost' = lost
      /\ net \in [Chans -> Seq(Packets)]
  BY DEF Looks, Loops, device, IInv, Typed
<1>3. ASSUME NEW c \in Chans, c # chan PROVE InOrder(c)'
  <2>1. /\ next'[c] = next[c] /\ net'[c] = net[c] /\ frame'[c] \in {0, frame[c]}
    BY <1>1, <1>2, <1>3 DEF Looks
  <2>2. InOrder(c)
    BY DEF More, Ordered
  <2>. QED
    BY <1>2, <2>1, <2>2 DEF InOrder
<1>4. ASSUME NEW c \in Chans, c = chan PROVE InOrder(c)'
  <2>1. /\ pkt \in Nat /\ pkt >= 1 /\ pkt <= sent[chan] /\ pkt \notin lost[chan]
        /\ last[chan] < pkt /\ next[chan] <= pkt + 1
        /\ Held => pkt = frame[chan] /\ pkt = next[chan] - 1
        /\ ~Held => /\ frame[chan] = 0 /\ next[chan] <= pkt
                    /\ net[chan] # <<>> /\ pkt = net[chan][1]
    BY <1>2, PktFacts
  <2>2. next'[chan] = pkt + 1 /\ frame'[chan] \in {0, pkt}
    BY <1>1, <1>2 DEF Looks
  <2>3. InOrder(chan)
    BY <1>2 DEF More, Ordered
  <2>4. /\ last[chan] \in Nat /\ next[chan] \in Nat /\ sent[chan] \in Nat
        /\ net[chan] \in Seq(Packets) /\ Len(net[chan]) \in Nat
        /\ \A i \in 1 .. Len(net[chan]) : net[chan][i] \in Nat
    BY <1>2, Numbers DEF More
  <2>5. CASE Held
    <3>1. /\ net'[c] = net[c] /\ next'[c] = next[c] /\ last'[c] = last[c]
          /\ sent'[c] = sent[c] /\ lost'[c] = lost[c] /\ InOrder(c)
      BY <1>1, <1>2, <1>4, <2>1, <2>2, <2>3, <2>4, <2>5
    <3>2. frame'[c] # 0 => /\ last[c] < frame'[c] /\ frame'[c] = next[c] - 1
                           /\ frame'[c] \notin lost[c]
      BY <1>4, <2>1, <2>2, <2>5
    <3>. QED
      BY <3>1, <3>2 DEF InOrder
  <2>6. CASE ~Held
    <3>1. /\ net'[chan] = Tail(net[chan]) /\ Len(net'[chan]) = Len(net[chan]) - 1
          /\ \A i \in 1 .. Len(net'[chan]) : net'[chan][i] = net[chan][i + 1]
      <4>1. net'[chan] = Tail(net[chan])
        BY <1>1, <1>2, <2>6
      <4>. QED
        BY <2>1, <2>4, <2>6, <4>1
    <3>2. ASSUME NEW i \in 1 .. Len(net'[chan])
          PROVE  /\ next'[chan] <= net'[chan][i] /\ net'[chan][i] \notin lost[chan]
                 /\ \A j \in 1 .. i - 1 : net'[chan][j] < net'[chan][i]
      <4>1. i + 1 \in 1 .. Len(net[chan]) /\ 1 \in 1 .. (i + 1) - 1
        BY <2>4, <3>1
      <4>2. net[chan][1] < net[chan][i + 1] /\ net[chan][i + 1] \notin lost[chan]
        BY <2>3, <4>1 DEF InOrder
      <4>3. net[chan][i + 1] \in Nat
        BY <2>4, <4>1
      <4>4. ASSUME NEW j \in 1 .. i - 1 PROVE net'[chan][j] < net'[chan][i]
        <5>1. j \in 1 .. Len(net'[chan]) /\ j + 1 \in 1 .. (i + 1) - 1
          BY <2>4, <3>1
        <5>2. net[chan][j + 1] < net[chan][i + 1]
          BY <2>3, <4>1, <5>1 DEF InOrder
        <5>. QED
          BY <3>1, <5>1, <5>2
      <4>5. next'[chan] <= net'[chan][i]
        BY <2>1, <2>2, <2>6, <3>1, <4>2, <4>3
      <4>. QED
        BY <3>1, <4>2, <4>4, <4>5
    <3>3. ASSUME NEW p \in next'[chan] .. sent[chan]
          PROVE  p \in lost[chan] \/ \E i \in 1 .. Len(net'[chan]) : net'[chan][i] = p
      <4>1. p \in next[chan] .. sent[chan] /\ p > pkt
        BY <2>1, <2>2, <2>4
      <4>2. ASSUME p \notin lost[chan]
            PROVE  \E i \in 1 .. Len(net'[chan]) : net'[chan][i] = p
        <5>1. PICK i \in 1 .. Len(net[chan]) : net[chan][i] = p
          BY <2>3, <4>1, <4>2 DEF InOrder
        <5>2. i # 1
          BY <2>1, <2>6, <4>1, <5>1
        <5>3. i - 1 \in 1 .. Len(net'[chan]) /\ (i - 1) + 1 = i
          BY <2>4, <3>1, <5>2
        <5>. QED
          BY <3>1, <5>1, <5>3
      <4>. QED
        BY <4>2
    <3>4. /\ last[chan] < next'[chan] /\ next'[chan] <= sent[chan] + 1
          /\ frame'[chan] # 0 => /\ last[chan] < frame'[chan]
                                 /\ frame'[chan] = next'[chan] - 1
                                 /\ frame'[chan] \notin lost[chan]
      BY <2>1, <2>2, <2>4
    <3>5. \A p \in lost[chan] : p <= sent[chan]
      BY <2>3 DEF InOrder
    <3>. QED
      BY <1>2, <1>4, <3>2, <3>3, <3>4, <3>5 DEF InOrder
  <2>. QED
    BY <2>5, <2>6
<1>. QED
  BY <1>3, <1>4 DEF Ordered

\* A packet with time is released if another channel is ahead of it, or if this
\* channel is ahead of it or went back in time.
TimedLooks ==
    /\ Looks /\ chan \in Timed
    /\ prev_tsf' = [prev_tsf EXCEPT ![chan] = Tsf(pkt)]
    /\ \A c \in Chans \ Timed : frame'[c] = frame[c]
    /\ \/ frame'[chan] = pkt
       \/ /\ frame'[chan] = 0
          /\ \E d \in Timed : frame[d] # 0 /\ Tsf(pkt) < Tsf(frame[d])
    /\ \A c \in Timed \ {chan} :
        \/ frame'[c] = frame[c]
        \/ /\ frame'[c] = 0 /\ frame[c] # 0
           /\ prev_tsf[chan] > Tsf(pkt) \/ Tsf(pkt) > Tsf(frame[c])

\* No packet without time is released.
UntimedLooks ==
    /\ Looks /\ chan \notin Timed
    /\ UNCHANGED prev_tsf
    /\ frame' = [frame EXCEPT ![chan] = pkt]

LEMMA LooksClocks ==
    ASSUME IInv, More, TimedLooks \/ UntimedLooks, time_valid' \in BOOLEAN
    PROVE  Clocks' /\ SameLast' /\ MoreTypes'
<1>1. /\ Looks /\ chan \in Chans /\ UNCHANGED <<sent, lost, back, last>>
      /\ next' = [next EXCEPT ![chan] = pkt + 1] /\ next' \in [Chans -> Nat]
      /\ pkt \in Nat /\ back \in Nat
  BY LooksNext, PktFacts DEF TimedLooks, UntimedLooks, Looks, Loops, device, IInv, Typed
<1>2. /\ prev_tsf \in [Chans -> Nat] /\ Tsf(pkt) \in Nat /\ next \in [Chans -> Nat]
      /\ lost \in [Chans -> SUBSET Nat] /\ last \in [Chans -> Nat]
  BY <1>1 DEF More, MoreTypes, Tsf
<1>3. prev_tsf' \in [Chans -> Nat]
  BY <1>2 DEF TimedLooks, UntimedLooks
<1>4. ASSUME NEW c \in Timed PROVE prev_tsf'[c] = Tsf(next'[c] - 1)
  <2>0. c \in Chans
    BY DEF Timed
  <2>1. CASE c = chan
    <3>1. prev_tsf'[c] = Tsf(pkt)
      BY <1>2, <2>0, <2>1 DEF TimedLooks, UntimedLooks
    <3>2. next'[c] - 1 = pkt
      BY <1>1, <1>2, <2>0, <2>1
    <3>. QED
      BY <3>1, <3>2
  <2>2. CASE c # chan
    <3>1. prev_tsf'[c] = prev_tsf[c] /\ next'[c] = next[c]
      BY <1>1, <1>2, <2>0, <2>2 DEF TimedLooks, UntimedLooks
    <3>. QED
      BY <3>1 DEF More, Clocks
  <2>. QED
    BY <2>1, <2>2
<1>5. Clocks'
  BY <1>1, <1>4 DEF Clocks, Tsf
<1>6. SameLast'
  BY <1>1 DEF More, SameLast, Promise!Ambiguous
<1>. QED
  BY <1>1, <1>2, <1>3, <1>5, <1>6 DEF MoreTypes

\* Times are instants as long as the time is not set back.
LEMMA TsfPlain ==
    ASSUME back = 0, NEW p
    PROVE  Tsf(p) = p
BY DEF Tsf

\* A packet that is released was not complete (without a change of time).
LEMMA ReleasedIncomplete ==
    ASSUME IInv, More, TimedLooks, back = 0, NEW c \in Timed,
           frame'[c] = 0, c = chan \/ frame[c] # 0
    PROVE  ~Promise!Complete(IF c = chan THEN pkt ELSE frame[c])
<1>1. /\ Looks /\ Looping /\ chan \in Timed /\ chan \in Chans /\ c \in Chans
  BY DEF TimedLooks, Looks, Loops, Timed
<1>2. /\ pkt \in Nat /\ pkt >= 1 /\ last[chan] < pkt /\ next[chan] <= pkt + 1
      /\ Held => pkt = next[chan] - 1
      /\ ~Held => next[chan] <= pkt
  BY <1>1, PktFacts
<1>3. \A d \in Timed : last[d] = last[chan]
  BY <1>1 DEF More, SameLast, Promise!Ambiguous
<1>4. /\ last[c] \in Nat /\ next[c] \in Nat /\ frame[c] \in Nat /\ InOrder(c)
      /\ last[chan] \in Nat /\ next[chan] \in Nat
  BY <1>1, Numbers DEF More, Ordered
<1>5. CASE c = chan
  <2>1. PICK d \in Timed : frame[d] # 0 /\ Tsf(pkt) < Tsf(frame[d])
    BY <1>2, <1>5 DEF TimedLooks
  <2>2. d \in Chans /\ pkt < frame[d]
    BY <2>1, TsfPlain DEF Timed
  <2>3. /\ last[d] \in Nat /\ next[d] \in Nat /\ frame[d] \in Nat /\ InOrder(d)
    BY <2>2, Numbers DEF More, Ordered
  <2>4. last[d] = last[chan] /\ frame[d] = next[d] - 1
    BY <1>3, <2>1, <2>3 DEF InOrder
  <2>5. pkt \in last[d] + 1 .. next[d] - 1 /\ pkt # frame[d]
    BY <1>2, <2>2, <2>3, <2>4
  <2>. QED
    BY <1>5, <2>5 DEF More, Kept
<1>6. CASE c # chan
  <2>1. frame[c] # 0 /\ (prev_tsf[chan] > Tsf(pkt) \/ Tsf(pkt) > Tsf(frame[c]))
    BY <1>6 DEF TimedLooks
  <2>2. prev_tsf[chan] = next[chan] - 1
    BY <1>1, TsfPlain DEF More, Clocks
  <2>3. frame[c] < pkt
    BY <1>2, <1>4, <2>1, <2>2, TsfPlain
  <2>4. last[chan] < frame[c]
    BY <1>1, <1>3, <1>4, <2>1 DEF InOrder
  <2>5. frame[c] \in last[chan] + 1 .. pkt - 1
    BY <1>2, <1>4, <2>3, <2>4
  <2>. QED
    BY <1>1, <1>6, <2>5, PassedOver
<1>. QED
  BY <1>5, <1>6

LEMMA LooksKept ==
    ASSUME IInv, More, TimedLooks \/ UntimedLooks
    PROVE  Kept'
<1>1. /\ Looks /\ Looping /\ chan \in Chans /\ UNCHANGED <<sent, lost, back, last>>
      /\ next' = [next EXCEPT ![chan] = pkt + 1] /\ next \in [Chans -> Nat]
      /\ pkt \in Nat /\ back \in Nat
      /\ frame \in [Chans -> Nat]
  BY LooksNext, PktFacts
     DEF TimedLooks, UntimedLooks, Looks, Loops, device, IInv, Typed, More, MoreTypes
<1>2. next'[chan] = pkt + 1 /\ \A c \in Chans \ {chan} : next'[c] = next[c]
  BY <1>1
<1>3. ASSUME NEW c \in Chans \ Timed, NEW p \in last[c] + 1 .. next'[c] - 1
      PROVE  p = frame'[c] \/ p \in lost[c]
  <2>1. CASE c = chan
    <3>1. frame'[c] = pkt
      BY <1>1, <1>3, <2>1 DEF TimedLooks, UntimedLooks
    <3>2. p = pkt \/ p \in last[chan] + 1 .. pkt - 1
      BY <1>1, <1>2, <2>1, Numbers DEF More
    <3>. QED
      BY <1>1, <1>3, <2>1, <3>1, <3>2, PassedOver
  <2>2. CASE c # chan
    <3>1. frame'[c] = frame[c] /\ next'[c] = next[c]
      BY <1>1, <1>2, <1>3, <2>2 DEF TimedLooks, UntimedLooks
    <3>. QED
      BY <1>3, <3>1 DEF More, Kept
  <2>. QED
    BY <2>1, <2>2
<1>4. ASSUME back = 0, NEW c \in Timed, NEW p \in last[c] + 1 .. next'[c] - 1
      PROVE  p = frame'[c] \/ ~Promise!Complete(p)
  <2>0. c \in Chans
    BY DEF Timed
  <2>1. CASE c = chan
    <3>1. TimedLooks
      BY <1>4, <2>1 DEF UntimedLooks
    <3>2. p = pkt \/ p \in last[chan] + 1 .. pkt - 1
      BY <1>1, <1>2, <2>1, Numbers DEF More
    <3>3. CASE p = pkt
      <4>1. frame'[c] \in {0, pkt}
        BY <1>1, <2>1 DEF Looks
      <4>. QED
        BY <1>4, <2>1, <3>1, <3>3, <4>1, ReleasedIncomplete
    <3>4. CASE p \in last[chan] + 1 .. pkt - 1
      BY <1>1, <1>4, <2>1, <3>4, PassedOver
    <3>. QED
      BY <3>2, <3>3, <3>4
  <2>2. CASE c # chan
    <3>1. p \in last[c] + 1 .. next[c] - 1
      BY <1>2, <1>4, <2>0, <2>2
    <3>2. p = frame[c] \/ ~Promise!Complete(p)
      BY <1>4, <3>1 DEF More, Kept
    <3>3. CASE frame'[c] = frame[c]
      BY <3>2, <3>3
    <3>4. CASE frame'[c] # frame[c]
      <4>1. TimedLooks /\ frame'[c] = 0 /\ frame[c] # 0
        BY <1>1, <1>4, <2>0, <2>2, <3>4 DEF TimedLooks, UntimedLooks
      <4>2. ~Promise!Complete(frame[c])
        BY <1>4, <2>2, <4>1, ReleasedIncomplete
      <4>. QED
        BY <3>2, <4>2
    <3>. QED
      BY <3>3, <3>4
  <2>. QED
    BY <2>1, <2>2
<1>. QED
  BY <1>1, <1>3, <1>4 DEF Kept, Promise!Complete

\* Later instants have later times, except across the change of time.
LEMMA TsfOrder ==
    ASSUME NEW p \in Nat, NEW q \in Nat, back \in Nat, back # 0
    PROVE  /\ Tsf(p) \in Int /\ Tsf(q) \in Int
           /\ p >= back /\ q >= back => (Tsf(p) < Tsf(q) <=> p < q)
           /\ q = p + 1 /\ q # back => Tsf(p) < Tsf(q)
BY DEF Tsf

LEMMA TimedFinite ==
    /\ IsFiniteSet(Timed)
    /\ \A S \in SUBSET Timed : /\ IsFiniteSet(S) /\ Cardinality(S) \in Nat
                               /\ Cardinality(S) <= Cardinality(Timed)
    /\ Cardinality(Timed) \in Nat
<1>1. 0 \in Int /\ NumChans - 1 \in Int
  BY AlignAssumption
<1>2. IsFiniteSet(Chans)
  BY <1>1, FS_Interval DEF Chans
<1>3. IsFiniteSet(Timed)
  BY <1>2, FS_Subset DEF Timed
<1>. QED
  BY <1>3, FS_Subset, FS_CardinalityType

\* A channel that sees the change of time is one more that has.
LEMMA LooksJoined ==
    ASSUME IInv, More, Looks, chan \in Timed
    PROVE  /\ Cardinality(Joined) \in Nat /\ Cardinality(Joined') \in Nat
           /\ Cardinality(Joined) <= Cardinality(Joined')
           /\ chan \notin Joined /\ pkt >= back => Cardinality(Joined') = Cardinality(Joined) + 1
           /\ \A c \in Timed \ {chan} : c \in Joined' <=> c \in Joined
<1>1. /\ next' = [next EXCEPT ![chan] = pkt + 1] /\ next \in [Chans -> Nat]
      /\ back' = back /\ back \in Nat /\ Looping /\ chan \in Chans
  BY LooksNext DEF Looks, Loops, device, IInv, Typed, More, MoreTypes
<1>2. pkt \in Nat /\ next[chan] <= pkt + 1 /\ next[chan] \in Nat
  BY <1>1, PktFacts
<1>3. \A c \in Timed \ {chan} : next'[c] = next[c]
  BY <1>1 DEF Timed
<1>4. next'[chan] = pkt + 1
  BY <1>1
<1>5. Joined' = {c \in Timed : next'[c] > back}
  BY <1>1 DEF Joined
<1>6. Joined' = Joined \/ (chan \notin Joined /\ Joined' = Joined \cup {chan})
  <2>1. \A c \in Timed \ {chan} : c \in Joined' <=> c \in Joined
    BY <1>3, <1>5 DEF Joined
  <2>2. chan \in Joined => chan \in Joined'
    BY <1>1, <1>2, <1>4, <1>5 DEF Joined
  <2>3. Joined \subseteq Timed /\ Joined' \subseteq Timed
    BY <1>5 DEF Joined
  <2>4. CASE chan \in Joined \/ chan \notin Joined'
    <3>1. \A c \in Timed : c \in Joined' <=> c \in Joined
      BY <2>1, <2>2, <2>4
    <3>. QED
      BY <2>3, <3>1
  <2>5. CASE chan \notin Joined /\ chan \in Joined'
    <3>1. \A c \in Timed : c \in Joined' <=> c \in Joined \cup {chan}
      BY <2>1, <2>5
    <3>. QED
      BY <2>3, <2>5, <3>1
  <2>. QED
    BY <2>4, <2>5
<1>7. pkt >= back => chan \in Joined'
  BY <1>1, <1>2, <1>4, <1>5
<1>8. Joined \in SUBSET Timed /\ Joined' \in SUBSET Timed
  BY <1>5 DEF Joined
<1>9. IsFiniteSet(Joined) /\ Cardinality(Joined) \in Nat /\ Cardinality(Joined') \in Nat
  BY <1>8, TimedFinite
<1>10. chan \notin Joined => Cardinality(Joined \cup {chan}) = Cardinality(Joined) + 1
  BY <1>9, FS_AddElement
<1>11. \A c \in Timed \ {chan} : c \in Joined' <=> c \in Joined
  BY <1>3, <1>5 DEF Joined
<1>12. CASE Joined' = Joined
  BY <1>7, <1>9, <1>11, <1>12
<1>13. CASE chan \notin Joined /\ Joined' = Joined \cup {chan}
  BY <1>9, <1>10, <1>11, <1>13
<1>. QED
  BY <1>6, <1>12, <1>13

\* Without losses, away from the change of time, every channel looks at the same
\* packet and none is released.
LEMMA InLockStep ==
    ASSUME IInv, More, TimedLooks, NoLoss, last[chan] + 1 # back
    PROVE  /\ pkt = last[chan] + 1
           /\ frame'[chan] = pkt
           /\ \A c \in Timed \ {chan} : frame'[c] = frame[c]
<1>1. /\ Looks /\ Looping /\ chan \in Timed /\ chan \in Chans /\ back \in Nat
  BY DEF TimedLooks, Looks, Loops, IInv, Typed
<1>2. /\ pkt \in Nat /\ pkt >= 1
      /\ Held => frame[chan] = pkt /\ pkt = next[chan] - 1
      /\ ~Held => frame[chan] = 0 /\ pkt = next[chan]
  BY <1>1, PktFacts
<1>3. \A c \in Timed : last[c] = last[chan]
  BY <1>1 DEF More, SameLast, Promise!Ambiguous, NoLoss
<1>4. \A c \in Timed : /\ next[c] = IF frame[c] = 0 THEN last[chan] + 1 ELSE last[chan] + 2
                       /\ frame[c] # 0 => frame[c] = next[c] - 1
  BY <1>3 DEF More, Together, Ordered, InOrder, Timed
<1>5. last[chan] \in Nat
  BY <1>1, Numbers DEF More
<1>6. pkt = last[chan] + 1
  BY <1>1, <1>2, <1>4, <1>5
<1>7. \A c \in Timed : frame[c] # 0 => frame[c] = pkt
  BY <1>4, <1>5, <1>6
<1>8. ~(prev_tsf[chan] > Tsf(pkt)) /\ Tsf(pkt) \in Int
  <2>1. prev_tsf[chan] = Tsf(next[chan] - 1)
    BY <1>1 DEF More, Clocks
  <2>2. next[chan] - 1 = pkt \/ next[chan] - 1 = last[chan]
    BY <1>1, <1>4, <1>5, <1>6
  <2>3. Tsf(last[chan]) <= Tsf(pkt) /\ Tsf(last[chan]) \in Int /\ Tsf(pkt) \in Int
    BY <1>1, <1>2, <1>5, <1>6 DEF Tsf
  <2>. QED
    BY <2>1, <2>2, <2>3
<1>9. \A c \in Timed : frame[c] # 0 => ~(Tsf(pkt) < Tsf(frame[c])) /\ ~(Tsf(pkt) > Tsf(frame[c]))
  BY <1>7, <1>8
<1>. QED
  BY <1>6, <1>8, <1>9 DEF TimedLooks

LEMMA LooksTogether ==
    ASSUME IInv, More, TimedLooks
    PROVE  Together'
<1>1. /\ Looks /\ Looping /\ chan \in Timed /\ chan \in Chans /\ back \in Nat
      /\ UNCHANGED <<back, lost, last>>
      /\ next' = [next EXCEPT ![chan] = pkt + 1] /\ next \in [Chans -> Nat]
  BY LooksNext DEF TimedLooks, Looks, Loops, IInv, Typed, device, More, MoreTypes
<1>. SUFFICES ASSUME NoLoss, NEW c \in Timed
              PROVE  /\ last[c] + 1 # back =>
                        next'[c] = IF frame'[c] = 0 THEN last[c] + 1 ELSE last[c] + 2
                     /\ last[c] + 1 = back /\ c \in Joined' =>
                        /\ next'[c] <= back + Cardinality(Joined')
                        /\ frame'[c] = 0 => next'[c] < back + Cardinality(Joined')
  BY <1>1 DEF Together, NoLoss
<1>. DEFINE k == Cardinality(Joined)
            m == Cardinality(Joined')
<1>2. c \in Chans /\ last[c] = last[chan]
  BY <1>1 DEF More, SameLast, Promise!Ambiguous, NoLoss, Timed
<1>3. /\ last[c] \in Nat /\ next[c] \in Nat /\ frame[c] \in Nat
      /\ last[chan] \in Nat /\ next[chan] \in Nat /\ frame[chan] \in Nat
      /\ InOrder(c) /\ InOrder(chan)
  BY <1>1, <1>2, Numbers DEF More, Ordered
<1>4. /\ pkt \in Nat /\ pkt >= 1 /\ last[chan] < pkt
      /\ Held => frame[chan] = pkt /\ pkt = next[chan] - 1
      /\ ~Held => frame[chan] = 0 /\ pkt = next[chan]
  BY <1>1, PktFacts
<1>5. next'[chan] = pkt + 1 /\ (c # chan => next'[c] = next[c])
  BY <1>1, <1>2
<1>6. ASSUME last[c] + 1 # back
      PROVE  next'[c] = IF frame'[c] = 0 THEN last[c] + 1 ELSE last[c] + 2
  <2>1. /\ pkt = last[chan] + 1 /\ frame'[chan] = pkt
        /\ \A d \in Timed \ {chan} : frame'[d] = frame[d]
    BY <1>2, <1>6, InLockStep
  <2>2. CASE c = chan
    BY <1>3, <1>5, <2>1, <2>2
  <2>3. CASE c # chan
    BY <1>5, <1>6, <2>1, <2>3 DEF More, Together
  <2>. QED
    BY <2>2, <2>3
<1>7. ASSUME last[c] + 1 = back, c \in Joined'
      PROVE  next'[c] <= back + m /\ (frame'[c] = 0 => next'[c] < back + m)
  <2>1. /\ k \in Nat /\ m \in Nat /\ k <= m
        /\ (chan \notin Joined /\ pkt >= back => m = k + 1)
        /\ (c # chan => c \in Joined)
    BY <1>1, <1>7, LooksJoined
  <2>2. /\ pkt >= back /\ back # 0
        /\ (Held => frame[chan] # 0)
    BY <1>1, <1>2, <1>3, <1>4, <1>7
  <2>3. \A d \in Timed : d \in Joined => /\ next[d] <= back + k
                                         /\ frame[d] = 0 => next[d] < back + k
    <3>1. \A d \in Timed : last[d] + 1 = back
      BY <1>1, <1>2, <1>7 DEF More, SameLast, Promise!Ambiguous, NoLoss
    <3>. QED
      BY <3>1 DEF More, Together
  \* A channel that holds a packet has seen the change, and is in order.
  <2>4. ASSUME NEW d \in Timed, frame[d] # 0
        PROVE  /\ d \in Joined /\ frame[d] \in Nat /\ frame[d] >= back
               /\ next[d] = frame[d] + 1 /\ next[d] <= back + k
    <3>1. d \in Chans /\ last[d] + 1 = back
      BY <1>1, <1>2, <1>7 DEF More, SameLast, Promise!Ambiguous, NoLoss, Timed
    <3>2. last[d] \in Nat /\ next[d] \in Nat /\ frame[d] \in Nat /\ InOrder(d)
      BY <3>1, Numbers DEF More, Ordered
    <3>3. frame[d] >= back /\ next[d] = frame[d] + 1
      <4>1. last[d] < frame[d] /\ frame[d] = next[d] - 1
        BY <2>4, <3>2 DEF InOrder
      <4>. QED
        BY <1>1, <3>1, <3>2, <4>1
    <3>4. d \in Joined
      BY <1>1, <3>2, <3>3 DEF Joined
    <3>. QED
      BY <2>3, <3>2, <3>3, <3>4
  <2>5. pkt + 1 <= back + m /\ (chan \in Joined => pkt + 1 <= back + k)
    <3>1. CASE chan \in Joined
      <4>1. pkt + 1 <= back + k
        BY <1>1, <1>3, <1>4, <2>1, <2>2, <2>3, <3>1
      <4>. QED
        BY <1>1, <1>4, <2>1, <4>1
    <3>2. CASE chan \notin Joined
      <4>1. next[chan] <= back
        BY <1>1, <1>3, <3>2 DEF Joined
      <4>2. pkt <= back
        BY <1>1, <1>3, <1>4, <4>1
      <4>3. m = k + 1
        BY <2>1, <2>2, <3>2
      <4>. QED
        BY <1>1, <1>4, <2>1, <3>2, <4>2, <4>3
    <3>. QED
      BY <3>1, <3>2
  <2>6. CASE c = chan
    <3>1. ASSUME frame'[c] = 0 PROVE pkt + 1 < back + m
      <4>1. PICK d \in Timed : frame[d] # 0 /\ Tsf(pkt) < Tsf(frame[d])
        BY <1>4, <2>6, <3>1 DEF TimedLooks
      <4>2. frame[d] \in Nat /\ frame[d] >= back /\ next[d] = frame[d] + 1 /\ next[d] <= back + k
        BY <2>4, <4>1
      <4>3. pkt < frame[d]
        BY <1>1, <1>4, <2>2, <4>1, <4>2, TsfOrder
      <4>. QED
        BY <1>1, <1>4, <2>1, <4>2, <4>3
    <3>. QED
      BY <1>5, <2>5, <2>6, <3>1
  <2>7. CASE c # chan
    <3>1. c \in Joined /\ next[c] <= back + k /\ (frame[c] = 0 => next[c] < back + k)
      BY <2>1, <2>3, <2>7
    <3>2. next'[c] <= back + m
      BY <1>1, <1>3, <1>5, <2>1, <2>7, <3>1
    <3>3. ASSUME frame'[c] = 0 PROVE next[c] < back + m
      <4>1. CASE frame[c] = 0
        BY <1>1, <1>3, <2>1, <3>1, <4>1
      <4>2. CASE frame[c] # 0
        <5>1. prev_tsf[chan] > Tsf(pkt) \/ Tsf(pkt) > Tsf(frame[c])
          BY <2>7, <3>3, <4>2 DEF TimedLooks
        <5>2. CASE chan \notin Joined
          <6>1. m = k + 1
            BY <2>1, <2>2, <5>2
          <6>. QED
            BY <1>1, <1>3, <2>1, <3>1, <6>1
        <5>3. CASE chan \in Joined
          <6>1. ~(prev_tsf[chan] > Tsf(pkt))
            <7>1. prev_tsf[chan] = Tsf(next[chan] - 1)
              BY <1>1 DEF More, Clocks
            <7>2. next[chan] - 1 \in Nat /\ next[chan] - 1 >= back
              BY <1>1, <1>3, <5>3 DEF Joined
            <7>3. next[chan] - 1 = pkt \/ next[chan] - 1 < pkt
              BY <1>3, <1>4
            <7>. QED
              BY <1>1, <1>4, <2>2, <7>1, <7>2, <7>3, TsfOrder
          <6>2. frame[c] \in Nat /\ frame[c] >= back /\ next[c] = frame[c] + 1
            BY <2>4, <4>2
          <6>3. frame[c] < pkt
            BY <1>1, <1>4, <2>2, <5>1, <6>1, <6>2, TsfOrder
          <6>. QED
            BY <1>1, <1>4, <2>1, <2>5, <6>2, <6>3
        <5>. QED
          BY <5>2, <5>3
      <4>. QED
        BY <4>1, <4>2
    <3>. QED
      BY <1>5, <2>7, <3>2, <3>3
  <2>. QED
    BY <2>6, <2>7
<1>. QED
  BY <1>6, <1>7

LEMMA UntimedTogether ==
    ASSUME IInv, More, UntimedLooks
    PROVE  Together'
<1>1. /\ Looks /\ chan \notin Timed /\ chan \in Chans /\ UNCHANGED <<lost, back, last>>
      /\ next' = [next EXCEPT ![chan] = pkt + 1] /\ next \in [Chans -> Nat]
      /\ frame' = [frame EXCEPT ![chan] = pkt] /\ frame \in [Chans -> Nat]
  BY LooksNext DEF UntimedLooks, Looks, Loops, device, IInv, Typed, More, MoreTypes
<1>2. \A c \in Timed : next'[c] = next[c] /\ frame'[c] = frame[c]
  BY <1>1 DEF Timed
<1>3. Joined' = Joined
  BY <1>1, <1>2 DEF Joined
<1>. QED
  BY <1>1, <1>2, <1>3 DEF More, Together, NoLoss

LEMMA LooksMore ==
    ASSUME IInv, More, TimedLooks \/ UntimedLooks, time_valid' \in BOOLEAN, Loop'
    PROVE  More'
<1>1. Ordered'
  BY LooksOrdered DEF TimedLooks, UntimedLooks
<1>2. Together'
  BY LooksTogether, UntimedTogether
<1>. QED
  BY <1>1, <1>2, LooksClocks, LooksKept DEF More

\* The iterations of operator(), one by one.
LEMMA NewTimeMore == ASSUME IInv, More, NewTime PROVE More'
<1>1. /\ Loops /\ chan \in Timed /\ chan \in Chans /\ at = "align" /\ last' = last
      /\ prev_tsf' = [prev_tsf EXCEPT ![chan] = Tsf(pkt)]
  BY TimestampedLoops DEF NewTime, Timestamped, Loops
<1>2. pkt \in Nat /\ frame \in [Chans -> Nat]
  BY <1>1, PktFacts DEF Loops, IInv, Typed
<1>3. frame' = [c \in Chans |-> IF c = chan THEN pkt
                                ELSE IF c \in Released THEN 0 ELSE frame[c]]
  BY DEF NewTime
<1>4. Looks
  BY <1>1, <1>2, <1>3 DEF Looks
<1>5. ASSUME NEW c \in Timed \ {chan}, c \in Released
      PROVE  frame[c] # 0 /\ (prev_tsf[chan] > Tsf(pkt) \/ Tsf(pkt) > Tsf(frame[c]))
  <2>1. frame[c] # 0 /\ Tsf(frame[c]) = tsf /\ c \notin to_align
    BY <1>1, <1>5 DEF IInv, AlignedToOneTime, Released, Timed
  <2>2. time_valid
    BY <1>1, <2>1 DEF More, Loop
  <2>3. ~(prev_tsf[chan] <= Tsf(pkt)) \/ Tsf(pkt) > tsf
    BY <2>2 DEF NewTime, IsNewer, Valid
  <2>4. prev_tsf[chan] \in Nat /\ Tsf(pkt) \in Int
    BY <1>1, <1>2 DEF More, MoreTypes, Tsf, IInv, Typed
  <2>. QED
    BY <2>1, <2>3, <2>4
<1>6. TimedLooks
  <2>1. \A c \in Chans \ Timed : c # chan /\ c \notin Released
    BY <1>1 DEF Released, Timed
  <2>. QED
    BY <1>1, <1>3, <1>4, <1>5, <2>1 DEF TimedLooks, Timed
<1>7. time_valid' = TRUE /\ to_align' = Chans \ {chan}
  BY DEF NewTime, StillToAlign
<1>8. Loop'
  <2>1. chan \notin to_align'
    BY <1>7
  <2>2. at' = "success" => to_align' = {}
    BY DEF NewTime, Continue
  <2>. QED
    BY <1>1, <1>7, <2>1, <2>2 DEF Loop
<1>. QED
  BY <1>6, <1>7, <1>8, LooksMore

LEMMA AlignmentFailureMore == ASSUME IInv, More, AlignmentFailure PROVE More'
<1>1. /\ Loops /\ chan \in Timed /\ chan \in Chans /\ last' = last /\ at' = "user"
      /\ prev_tsf' = [prev_tsf EXCEPT ![chan] = Tsf(pkt)]
      /\ frame' = [frame EXCEPT ![chan] = pkt]
      /\ time_valid' = Valid
  BY TimestampedLoops DEF AlignmentFailure, Timestamped, Loops
<1>2. pkt \in Nat /\ frame \in [Chans -> Nat]
  BY <1>1, PktFacts DEF Loops, IInv, Typed
<1>3. TimedLooks
  BY <1>1, <1>2 DEF TimedLooks, Looks, Timed
<1>4. time_valid' \in BOOLEAN
  BY <1>1 DEF Valid, More, MoreTypes
<1>5. Loop'
  BY <1>1 DEF Loop
<1>. QED
  BY <1>3, <1>4, <1>5, LooksMore

LEMMA SameTimeMore == ASSUME IInv, More, SameTime PROVE More'
<1>1. /\ Loops /\ chan \in Timed /\ chan \in Chans /\ last' = last
      /\ prev_tsf' = [prev_tsf EXCEPT ![chan] = Tsf(pkt)]
      /\ frame' = [frame EXCEPT ![chan] = pkt]
      /\ time_valid' = time_valid /\ to_align' = to_align \ {chan}
  BY TimestampedLoops DEF SameTime, Timestamped, Loops
<1>2. pkt \in Nat /\ frame \in [Chans -> Nat]
  BY <1>1, PktFacts DEF Loops, IInv, Typed
<1>3. TimedLooks
  BY <1>1, <1>2 DEF TimedLooks, Looks, Timed
<1>4. time_valid = TRUE
  BY DEF SameTime, IsNewer, Valid, More, MoreTypes
<1>5. Loop'
  <2>1. chan \notin to_align'
    BY <1>1
  <2>2. at' = "success" => to_align' = {}
    BY DEF SameTime, Continue
  <2>. QED
    BY <1>1, <1>4, <2>1, <2>2 DEF Loop
<1>. QED
  BY <1>1, <1>3, <1>4, <1>5, LooksMore

LEMMA OlderTimeMore == ASSUME IInv, More, OlderTime PROVE More'
<1>1. /\ Loops /\ chan \in Timed /\ chan \in Chans /\ last' = last /\ at = "align"
      /\ prev_tsf' = [prev_tsf EXCEPT ![chan] = Tsf(pkt)]
      /\ frame' = [frame EXCEPT ![chan] = 0]
      /\ time_valid' = time_valid /\ to_align' = to_align /\ Tsf(pkt) < tsf
  BY TimestampedLoops DEF OlderTime, AfterOlder, Timestamped, Loops
<1>2. pkt \in Nat /\ frame \in [Chans -> Nat]
  BY <1>1, PktFacts DEF Loops, IInv, Typed
<1>3. time_valid = TRUE
  BY DEF OlderTime, IsNewer, Valid, More, MoreTypes
<1>4. PICK d \in Timed : d \notin to_align
  BY <1>1, <1>3 DEF More, Loop
<1>5. frame[d] # 0 /\ Tsf(frame[d]) = tsf
  BY <1>1, <1>4 DEF IInv, AlignedToOneTime, Timed
<1>6. TimedLooks
  BY <1>1, <1>2, <1>4, <1>5 DEF TimedLooks, Looks, Timed
<1>7. Loop'
  <2>1. at' = "success" => to_align' = {}
    BY DEF OlderTime, Continue
  <2>. QED
    BY <1>1, <1>3, <1>4, <2>1 DEF Loop
<1>. QED
  BY <1>1, <1>3, <1>6, <1>7, LooksMore

LEMMA NoTimeMore == ASSUME IInv, More, NoTime PROVE More'
<1>1. /\ Loops /\ chan \notin Timed /\ chan \in Chans /\ last' = last /\ at = "align"
      /\ UNCHANGED prev_tsf
      /\ frame' = [frame EXCEPT ![chan] = pkt]
      /\ time_valid' = time_valid /\ to_align' = to_align \ {chan}
  BY ChanToAlign DEF NoTime, Loops, IInv, Typed, InLoop, Looping, Timed
<1>2. pkt \in Nat /\ frame \in [Chans -> Nat]
  BY <1>1, PktFacts DEF Loops, IInv, Typed
<1>3. UntimedLooks
  BY <1>1, <1>2 DEF UntimedLooks, Looks
<1>4. time_valid \in BOOLEAN
  BY DEF More, MoreTypes
<1>5. Loop'
  <2>1. at' = "success" => to_align' = {}
    BY DEF NoTime, Continue
  <2>2. \A c \in Timed : c \notin to_align' <=> c \notin to_align
    BY <1>1
  <2>. QED
    BY <1>1, <2>1, <2>2 DEF Loop, More
<1>. QED
  BY <1>1, <1>3, <1>4, <1>5, LooksMore

-----------------------------------------------------------------------------
(* The other steps *)

LEMMA CallMore == ASSUME IInv, More, Call PROVE More'
<1>1. /\ UNCHANGED <<frame, prev_tsf, next, net, device, last>>
      /\ at' = "align" /\ to_align' = Chans /\ time_valid' = FALSE
  BY DEF Call
<1>2. Loop'
  BY <1>1 DEF Loop, Timed
<1>3. MoreTypes' /\ Ordered' /\ Clocks'
  <2>1. MoreTypes' /\ Clocks'
    BY <1>1 DEF More, MoreTypes, Clocks, Tsf, device
  <2>2. Ordered'
    BY <1>1 DEF More, Ordered, InOrder, device
  <2>. QED
    BY <2>1, <2>2
<1>4. Kept' /\ SameLast' /\ Together'
  BY <1>1 DEF More, Kept, SameLast, Together, Joined, NoLoss, device,
     Promise!Complete, Promise!Ambiguous
<1>. QED
  BY <1>2, <1>3, <1>4 DEF More

LEMMA TimeoutMore == ASSUME IInv, More, Timeout PROVE More'
<1>1. /\ UNCHANGED <<frame, prev_tsf, next, net, device, last, time_valid>>
      /\ at' = "user"
  BY DEF Timeout
<1>2. MoreTypes' /\ Ordered' /\ Clocks' /\ Loop'
  BY <1>1 DEF More, MoreTypes, Ordered, InOrder, Clocks, Tsf, device, Loop
<1>3. Kept' /\ SameLast' /\ Together'
  BY <1>1 DEF More, Kept, SameLast, Together, Joined, NoLoss, device,
     Promise!Complete, Promise!Ambiguous
<1>. QED
  BY <1>2, <1>3 DEF More

\* What recv() gets at SUCCESS (rx_streamer_zero_copy.hpp).
LEMMA AllHeld ==
    ASSUME IInv, More, at = "success", NEW c \in Chans
    PROVE  /\ frame[c] \in Nat /\ frame[c] > last[c] /\ frame[c] \notin lost[c]
           /\ frame[c] = next[c] - 1
           /\ c \in Timed => Tsf(frame[c]) = tsf
           /\ last[c] \in Nat /\ next[c] \in Nat
<1>1. frame[c] # 0 /\ (c \in Timed => Tsf(frame[c]) = tsf)
  BY DEF IInv, AlignedToOneTime, More, Loop
<1>2. last[c] \in Nat /\ next[c] \in Nat /\ frame[c] \in Nat /\ InOrder(c)
  BY Numbers DEF More, Ordered
<1>. QED
  BY <1>1, <1>2 DEF InOrder

LEMMA SuccessAligned ==
    ASSUME IInv, More, at = "success", ~Promise!Ambiguous, NEW c \in Timed
    PROVE  /\ \A d \in Timed : frame[c] = frame[d]
           /\ \A p \in last[c] + 1 .. frame[c] - 1 :
                ~Promise!Complete(p) \/ Promise!Restart(p)
<1>1. \A d \in Timed : d \in Chans /\ last[d] = last[c]
  BY DEF More, SameLast, Timed
<1>2. \A d \in Timed : /\ frame[d] \in Nat /\ frame[d] > last[c] /\ frame[d] = next[d] - 1
                       /\ Tsf(frame[d]) = tsf /\ last[c] \in Nat /\ next[d] \in Nat
  <2>1. \A d \in Timed :
            /\ frame[d] \in Nat /\ frame[d] > last[d] /\ frame[d] = next[d] - 1
            /\ Tsf(frame[d]) = tsf /\ last[d] \in Nat /\ next[d] \in Nat
    BY <1>1, AllHeld
  <2>. QED
    BY <1>1, <2>1
<1>3. back \in Nat
  BY DEF IInv, Typed
<1>4. CASE back = 0
  <2>1. \A d \in Timed : frame[d] = tsf
    BY <1>2, <1>4, TsfPlain
  <2>2. ASSUME NEW p \in last[c] + 1 .. frame[c] - 1 PROVE ~Promise!Complete(p)
    <3>1. p \in last[c] + 1 .. next[c] - 1 /\ p # frame[c]
      BY <1>2
    <3>. QED
      BY <1>4, <3>1 DEF More, Kept
  <2>. QED
    BY <2>1, <2>2
<1>5. CASE back # 0
  <2>1. NoLoss
    BY <1>5 DEF Promise!Ambiguous, NoLoss
  <2>2. CASE last[c] + 1 # back
    <3>1. \A d \in Timed : next[d] = last[c] + 2
      BY <1>1, <1>2, <2>1, <2>2 DEF More, Together
    <3>2. \A d \in Timed : frame[d] = last[c] + 1
      BY <1>2, <3>1
    <3>3. \A p \in last[c] + 1 .. frame[c] - 1 : FALSE
      BY <1>2, <3>2
    <3>. QED
      BY <3>2, <3>3
  <2>3. CASE last[c] + 1 = back
    <3>1. \A d \in Timed : frame[d] >= back
      BY <1>2, <1>3, <2>3
    <3>2. ASSUME NEW d \in Timed PROVE frame[c] = frame[d]
      <4>1. ~(frame[c] < frame[d]) /\ ~(frame[d] < frame[c])
        BY <1>2, <1>3, <1>5, <3>1, TsfOrder
      <4>. QED
        BY <1>2, <4>1
    <3>3. c \in Joined
      BY <1>2, <1>3, <3>1 DEF Joined
    <3>4. Cardinality(Joined) \in Nat /\ Cardinality(Timed) \in Nat
          /\ Cardinality(Joined) <= Cardinality(Timed)
      BY TimedFinite DEF Joined
    <3>5. frame[c] + 1 <= back + Cardinality(Joined)
      BY <1>2, <2>1, <2>3, <3>3 DEF More, Together
    <3>6. ASSUME NEW p \in last[c] + 1 .. frame[c] - 1 PROVE Promise!Restart(p)
      <4>1. p >= back /\ p \in Int /\ p <= back + Cardinality(Timed) - 2
        BY <1>2, <1>3, <2>3, <3>4, <3>5
      <4>2. Promise!Cardinality(Timed) = Cardinality(Timed)
        BY DEF Promise!Cardinality, Cardinality
      <4>. QED
        BY <1>3, <1>5, <3>4, <4>1, <4>2 DEF Promise!Restart
    <3>. QED
      BY <3>2, <3>6
  <2>. QED
    BY <2>2, <2>3
<1>. QED
  BY <1>4, <1>5

LEMMA SuccessMore == ASSUME IInv, More, Success PROVE More'
<1>1. /\ UNCHANGED <<prev_tsf, next, net, sent, lost, back, time_valid>>
      /\ at = "success" /\ at' = "user"
      /\ last' = frame /\ frame' = [c \in Chans |-> 0]
      /\ frame \in [Chans -> Nat] /\ back \in Nat
  BY DEF Success, device, IInv, Typed
<1>2. MoreTypes' /\ Loop' /\ Clocks'
  BY <1>1 DEF More, MoreTypes, Loop, Clocks, Tsf
<1>3. ASSUME NEW c \in Chans
      PROVE  /\ last'[c] = next'[c] - 1 /\ next'[c] = next[c] /\ next[c] \in Nat
             /\ frame'[c] = 0 /\ last'[c] \in Nat
  BY <1>1, AllHeld
<1>4. Ordered'
  <2>1. ASSUME NEW c \in Chans PROVE InOrder(c)'
    <3>1. /\ InOrder(c) /\ net'[c] = net[c] /\ lost'[c] = lost[c] /\ sent'[c] = sent[c]
      BY <1>1 DEF More, Ordered
    <3>2. last'[c] < next'[c]
      BY <1>3
    <3>. QED
      BY <1>3, <3>1, <3>2 DEF InOrder
  <2>. QED
    BY <2>1 DEF Ordered
<1>5. Kept'
  <2>1. ASSUME NEW c \in Chans, NEW p \in last'[c] + 1 .. next'[c] - 1 PROVE FALSE
    BY <1>3, <2>1
  <2>. QED
    BY <2>1 DEF Kept, Timed
<1>6. SameLast'
  <2>1. ASSUME ~Promise!Ambiguous, NEW c \in Timed, NEW d \in Timed PROVE frame[c] = frame[d]
    BY <1>1, <2>1, SuccessAligned
  <2>. QED
    BY <1>1, <2>1 DEF SameLast, Promise!Ambiguous
<1>7. Together'
  <2>1. ASSUME NEW c \in Timed
        PROVE  next'[c] = last'[c] + 1 /\ frame'[c] = 0 /\ next'[c] \in Nat
    BY <1>3 DEF Timed
  <2>2. ASSUME NEW c \in Timed, last'[c] + 1 = back PROVE c \notin Joined'
    BY <1>1, <2>1, <2>2 DEF Joined
  <2>. QED
    BY <1>1, <2>1, <2>2 DEF Together
<1>. QED
  BY <1>2, <1>4, <1>5, <1>6, <1>7 DEF More

LEMMA ArriveMore == ASSUME IInv, More, NEW c \in Chans, Arrive(c) PROVE More'
<1>1. /\ sent' = [sent EXCEPT ![c] = @ + 1]
      /\ net' = [net EXCEPT ![c] = Append(@, sent[c] + 1)]
      /\ UNCHANGED <<frame, prev_tsf, to_align, time_valid, at, next, lost, back, last>>
      /\ sent \in [Chans -> Nat] /\ net \in [Chans -> Seq(Packets)]
  BY DEF Arrive, aligner, IInv, Typed
<1>2. MoreTypes' /\ Clocks' /\ Loop'
  BY <1>1 DEF More, MoreTypes, Clocks, Tsf, Loop
<1>3. Kept' /\ SameLast' /\ Together'
  BY <1>1 DEF More, Kept, SameLast, Together, Joined, NoLoss,
     Promise!Complete, Promise!Ambiguous
<1>4. ASSUME NEW d \in Chans, d # c PROVE InOrder(d)'
  <2>1. net'[d] = net[d] /\ sent'[d] = sent[d] /\ InOrder(d)
    BY <1>1, <1>4 DEF More, Ordered
  <2>. QED
    BY <1>1, <2>1 DEF InOrder
<1>5. InOrder(c)'
  <2>. DEFINE s == net[c]
              n == Len(s)
              t == net'[c]
  <2>1. /\ last[c] \in Nat /\ next[c] \in Nat /\ frame[c] \in Nat /\ sent[c] \in Nat
        /\ s \in Seq(Packets) /\ n \in Nat
        /\ \A i \in 1 .. n : s[i] \in Nat /\ s[i] <= sent[c]
        /\ lost[c] \in SUBSET Nat
    BY Numbers DEF More
  <2>2. sent'[c] = sent[c] + 1 /\ t = Append(s, sent[c] + 1)
    BY <1>1
  <2>3. Len(t) = n + 1 /\ t[n + 1] = sent[c] + 1 /\ \A i \in 1 .. n : t[i] = s[i]
    BY <2>1, <2>2
  <2>4. InOrder(c)
    BY DEF More, Ordered
  <2>5. /\ last[c] < next[c] /\ next[c] <= sent[c] + 1
        /\ frame[c] # 0 => /\ last[c] < frame[c] /\ frame[c] = next[c] - 1
                           /\ frame[c] \notin lost[c]
        /\ \A i \in 1 .. n : /\ next[c] <= s[i] /\ s[i] \notin lost[c]
                             /\ \A j \in 1 .. i - 1 : s[j] < s[i]
        /\ \A p \in lost[c] : p <= sent[c]
        /\ \A p \in next[c] .. sent[c] : p \in lost[c] \/ \E i \in 1 .. n : s[i] = p
    BY <2>4 DEF InOrder
  <2>. HIDE DEF s, n, t
  <2>6. ASSUME NEW i \in 1 .. n + 1
        PROVE  /\ next[c] <= t[i] /\ t[i] \notin lost[c]
               /\ \A j \in 1 .. i - 1 : t[j] < t[i]
    <3>1. CASE i = n + 1
      <4>1. next[c] <= sent[c] + 1 /\ sent[c] + 1 \notin lost[c]
        BY <2>1, <2>5
      <4>2. ASSUME NEW j \in 1 .. i - 1 PROVE t[j] < t[i]
        <5>1. j \in 1 .. n
          BY <2>1, <3>1
        <5>. QED
          BY <2>1, <2>3, <3>1, <5>1
      <4>. QED
        BY <2>3, <3>1, <4>1, <4>2
    <3>2. CASE i # n + 1
      <4>1. i \in 1 .. n
        BY <2>1, <3>2
      <4>2. \A j \in 1 .. i - 1 : j \in 1 .. n
        BY <2>1, <4>1
      <4>. QED
        BY <2>3, <2>5, <4>1, <4>2
    <3>. QED
      BY <3>1, <3>2
  <2>7. ASSUME NEW p \in next[c] .. sent[c] + 1
        PROVE  p \in lost[c] \/ \E i \in 1 .. n + 1 : t[i] = p
    <3>1. CASE p = sent[c] + 1
      <4>1. n + 1 \in 1 .. n + 1
        BY <2>1
      <4>. QED
        BY <2>3, <3>1, <4>1
    <3>2. CASE p # sent[c] + 1
      <4>1. p \in next[c] .. sent[c]
        BY <2>1, <3>2
      <4>2. CASE p \in lost[c]
        BY <4>2
      <4>3. CASE \E i \in 1 .. n : s[i] = p
        <5>1. PICK i \in 1 .. n : s[i] = p
          BY <4>3
        <5>2. i \in 1 .. n + 1
          BY <2>1
        <5>. QED
          BY <2>3, <5>1, <5>2
      <4>. QED
        BY <2>5, <4>1, <4>2, <4>3
    <3>. QED
      BY <3>1, <3>2
  <2>8. next[c] <= sent'[c] + 1 /\ \A p \in lost[c] : p <= sent'[c]
    BY <2>1, <2>2, <2>5
  <2>9. \A i \in 1 .. Len(t) : /\ next[c] <= t[i] /\ t[i] \notin lost[c]
                               /\ \A j \in 1 .. i - 1 : t[j] < t[i]
    BY <2>3, <2>6
  <2>10. \A p \in next[c] .. sent'[c] : p \in lost[c] \/ \E i \in 1 .. Len(t) : t[i] = p
    BY <2>2, <2>3, <2>7
  <2>. QED
    BY <1>1, <2>5, <2>8, <2>9, <2>10 DEF InOrder, t
<1>6. Ordered'
  BY <1>4, <1>5 DEF Ordered
<1>. QED
  BY <1>2, <1>3, <1>6 DEF More

LEMMA LoseMore == ASSUME IInv, More, NEW c \in Chans, Lose(c) PROVE More'
<1>1. /\ sent' = [sent EXCEPT ![c] = @ + 1]
      /\ lost' = [lost EXCEPT ![c] = @ \union {sent[c] + 1}]
      /\ UNCHANGED <<frame, prev_tsf, to_align, time_valid, at, next, net, back, last>>
      /\ sent \in [Chans -> Nat] /\ lost \in [Chans -> SUBSET Nat]
  BY DEF Lose, aligner, IInv, Typed, More, MoreTypes
<1>2. MoreTypes' /\ Clocks' /\ Loop'
  BY <1>1 DEF More, MoreTypes, Clocks, Tsf, Loop
<1>3. lost'[c] # {} /\ \A d \in Chans : lost[d] \subseteq lost'[d]
  BY <1>1
<1>4. \A p : Promise!Complete(p)' => Promise!Complete(p)
  BY <1>3 DEF Promise!Complete, Timed
<1>5. Kept'
  <2>1. ASSUME NEW d \in Chans \ Timed, NEW p \in last[d] + 1 .. next[d] - 1
        PROVE  p = frame[d] \/ p \in lost'[d]
    BY <1>3 DEF More, Kept
  <2>2. ASSUME back = 0, NEW d \in Timed, NEW p \in last[d] + 1 .. next[d] - 1
        PROVE  p = frame[d] \/ ~Promise!Complete(p)'
    BY <1>4, <2>2 DEF More, Kept
  <2>. QED
    BY <1>1, <2>1, <2>2 DEF Kept, Promise!Complete
<1>6. SameLast'
  <2>1. ~Promise!Ambiguous' => ~Promise!Ambiguous
    BY <1>1, <1>3 DEF Promise!Ambiguous
  <2>. QED
    BY <1>1, <2>1 DEF More, SameLast
<1>7. Together'
  BY <1>3 DEF Together, NoLoss
<1>8. ASSUME NEW d \in Chans PROVE InOrder(d)'
  <2>0. InOrder(d)
    BY DEF More, Ordered
  <2>1. CASE d # c
    <3>1. sent'[d] = sent[d] /\ lost'[d] = lost[d]
      BY <1>1, <2>1
    <3>. QED
      BY <1>1, <2>0, <3>1 DEF InOrder
  <2>2. CASE d = c
    <3>1. /\ last[d] \in Nat /\ next[d] \in Nat /\ frame[d] \in Nat /\ sent[d] \in Nat
          /\ \A i \in 1 .. Len(net[d]) : net[d][i] \in Nat /\ net[d][i] <= sent[d]
          /\ lost[d] \in SUBSET Nat
      BY Numbers DEF More
    <3>2. sent'[d] = sent[d] + 1 /\ lost'[d] = lost[d] \cup {sent[d] + 1}
      BY <1>1, <2>2
    <3>3. /\ last[d] < next[d] /\ next[d] <= sent'[d] + 1
          /\ frame[d] # 0 => /\ last[d] < frame[d] /\ frame[d] = next[d] - 1
                             /\ frame[d] \notin lost'[d]
      BY <2>0, <3>1, <3>2 DEF InOrder
    <3>4. \A i \in 1 .. Len(net[d]) :
            /\ next[d] <= net[d][i] /\ net[d][i] \notin lost'[d]
            /\ \A j \in 1 .. i - 1 : net[d][j] < net[d][i]
      BY <2>0, <3>1, <3>2 DEF InOrder
    <3>5. \A p \in lost'[d] : p <= sent'[d]
      BY <2>0, <3>1, <3>2 DEF InOrder
    <3>6. \A p \in next[d] .. sent'[d] :
            p \in lost'[d] \/ \E i \in 1 .. Len(net[d]) : net[d][i] = p
      <4>1. ASSUME NEW p \in next[d] .. sent'[d]
            PROVE  p = sent[d] + 1 \/ p \in next[d] .. sent[d]
        BY <3>1, <3>2
      <4>. QED
        BY <2>0, <3>2, <4>1 DEF InOrder
    <3>. QED
      BY <1>1, <3>3, <3>4, <3>5, <3>6 DEF InOrder
  <2>. QED
    BY <2>1, <2>2
<1>. QED
  BY <1>2, <1>5, <1>6, <1>7, <1>8 DEF More, Ordered

\* No packet seen so far is of the new time.
LEMMA SetTimeMore == ASSUME IInv, More, NEW p \in 2 .. MaxPkts, SetTime(p) PROVE More'
<1>1. /\ UNCHANGED <<frame, prev_tsf, to_align, time_valid, at, next, net, lost, sent, last>>
      /\ back = 0 /\ back' = p /\ p \in Nat /\ p >= 2
      /\ \A c \in Chans : sent[c] < p
  BY DEF SetTime, aligner
<1>2. \A c \in Chans : next[c] \in Nat /\ next[c] >= 1 /\ next[c] <= p /\ last[c] \in Nat
  <2>1. ASSUME NEW c \in Chans
        PROVE  next[c] \in Nat /\ next[c] >= 1 /\ next[c] <= p /\ last[c] \in Nat
    <3>1. /\ last[c] \in Nat /\ next[c] \in Nat /\ sent[c] \in Nat /\ sent[c] < p
          /\ InOrder(c)
      BY <1>1, Numbers DEF More, Ordered
    <3>. QED
      BY <1>1, <3>1 DEF InOrder
  <2>. QED
    BY <2>1
<1>3. MoreTypes' /\ Loop' /\ Ordered'
  BY <1>1 DEF More, MoreTypes, Loop, Ordered, InOrder
<1>4. Clocks'
  <2>1. ASSUME NEW c \in Timed PROVE Tsf(next[c] - 1)' = Tsf(next[c] - 1)
    <3>1. next[c] - 1 \in Int /\ next[c] - 1 < p /\ next'[c] = next[c]
      BY <1>1, <1>2 DEF Timed
    <3>. QED
      BY <1>1, <3>1 DEF Tsf
  <2>. QED
    BY <1>1, <2>1 DEF More, Clocks
<1>5. Kept'
  <2>1. back' # 0
    BY <1>1
  <2>. QED
    BY <1>1, <2>1 DEF More, Kept
<1>6. SameLast'
  BY <1>1 DEF More, SameLast, Promise!Ambiguous
<1>7. Together'
  <2>. SUFFICES ASSUME NoLoss, NEW c \in Timed
                PROVE  /\ next[c] = IF frame[c] = 0 THEN last[c] + 1 ELSE last[c] + 2
                       /\ c \notin Joined'
    BY <1>1 DEF Together, NoLoss
  <2>1. last[c] + 1 # back
    BY <1>1, <1>2 DEF Timed
  <2>2. c \notin Joined'
    BY <1>1, <1>2 DEF Timed, Joined
  <2>. QED
    BY <2>1, <2>2 DEF More, Together
<1>. QED
  BY <1>3, <1>4, <1>5, <1>6, <1>7 DEF More

LEMMA InitMore == Init => More
<1>. SUFFICES ASSUME Init PROVE More
  OBVIOUS
<1>1. /\ frame = [c \in Chans |-> 0] /\ prev_tsf = [c \in Chans |-> 0]
      /\ time_valid = FALSE /\ at = "user" /\ next = [c \in Chans |-> 1]
      /\ net = [c \in Chans |-> <<>>] /\ sent = [c \in Chans |-> 0]
      /\ lost = [c \in Chans |-> {}] /\ back = 0 /\ last = [c \in Chans |-> 0]
  BY DEF Init
<1>2. MoreTypes
  BY <1>1 DEF MoreTypes
<1>8. Loop
  BY <1>1 DEF Loop, Timed
<1>9. \A c \in Chans : next[c] = 1 /\ frame[c] = 0 /\ prev_tsf[c] = 0
  BY <1>1
<1>10. Clocks
  BY <1>1, <1>9 DEF Clocks, Tsf, Timed
<1>3. Ordered
  BY <1>1 DEF Ordered, InOrder
<1>4. Kept /\ SameLast /\ Together
  BY <1>1 DEF Kept, SameLast, Together, Timed
<1>. QED
  BY <1>2, <1>3, <1>4, <1>8, <1>10 DEF More

LEMMA NextMore == IInv /\ More /\ [Next]_vars => More'
<1>. SUFFICES ASSUME IInv, More, [Next]_vars PROVE More'
  OBVIOUS
<1>1. CASE Aligner
  BY <1>1, CallMore, TimeoutMore, SuccessMore, NewTimeMore, AlignmentFailureMore,
     SameTimeMore, OlderTimeMore, NoTimeMore DEF Aligner, Iteration
<1>2. CASE \E c \in Chans : Arrive(c) \/ Lose(c)
  BY <1>2, ArriveMore, LoseMore
<1>3. CASE \E p \in 2 .. MaxPkts : SetTime(p)
  BY <1>3, SetTimeMore
<1>4. CASE UNCHANGED vars
  <2>1. MoreTypes' /\ Loop' /\ Clocks'
    BY <1>4 DEF vars, aligner, device, More, MoreTypes, Loop, Clocks, Tsf
  <2>3. Ordered'
    BY <1>4 DEF vars, aligner, device, More, Ordered, InOrder
  <2>2. Kept' /\ SameLast' /\ Together'
    BY <1>4 DEF vars, aligner, device, More, Kept, SameLast, Together, Joined, NoLoss,
       Promise!Complete, Promise!Ambiguous
  <2>. QED
    BY <2>1, <2>2, <2>3 DEF More
<1>. QED
  BY <1>1, <1>2, <1>3, <1>4 DEF Next

-----------------------------------------------------------------------------
(* Every step is a step of AlignedDelivery or leaves its variables alone *)

LEMMA SuccessDelivers == ASSUME IInv, More, Success PROVE Promise!Deliver
<1>1. last' = frame /\ frame \in [Chans -> Nat] /\ UNCHANGED <<lost, back>> /\ at = "success"
  BY DEF Success, IInv, Typed, device
<1>2. \A c \in Chans : last'[c] > last[c] /\ last'[c] \notin lost[c]
  BY <1>1, AllHeld
<1>3. Promise!OneInstant \/ Promise!Ambiguous
  <2>1. ASSUME ~Promise!Ambiguous PROVE Promise!OneInstant
    BY <1>1, <2>1, SuccessAligned DEF Promise!OneInstant, Promise!Skipped
  <2>. QED
    BY <2>1
<1>4. ASSUME NEW c \in Chans \ Timed, NEW p \in Promise!Skipped(c) PROVE p \in lost[c]
  <2>1. /\ frame[c] \in Nat /\ frame[c] = next[c] - 1 /\ last[c] \in Nat /\ next[c] \in Nat
    BY <1>1, AllHeld
  <2>2. p \in last[c] + 1 .. next[c] - 1 /\ p # frame[c]
    BY <1>1, <2>1 DEF Promise!Skipped
  <2>. QED
    BY <2>2 DEF More, Kept
<1>. QED
  BY <1>1, <1>2, <1>3, <1>4 DEF Promise!Deliver

LEMMA LoseEnvironment ==
    ASSUME IInv, More, NEW c \in Chans, Lose(c)
    PROVE  Promise!Environment
<1>1. /\ lost' = [lost EXCEPT ![c] = @ \union {sent[c] + 1}]
      /\ UNCHANGED <<back, last>> /\ sent[c] \in Nat /\ lost \in [Chans -> SUBSET Nat]
  BY DEF Lose, IInv, Typed, More, MoreTypes
<1>2. lost' \in [Chans -> SUBSET Nat] /\ \A d \in Chans : lost[d] \subseteq lost'[d]
  BY <1>1
<1>. QED
  BY <1>1, <1>2 DEF Promise!Environment

\* get_aligned_buffs and recv() keep the promise of AlignedDelivery, for any
\* number of channels with and without time, packets, losses, attempts and
\* interrupted calls: what is delivered is of one instant, no complete instant
\* is dropped except to restart after a change of time (one for each channel
\* with time but the first), and channels without time lose nothing.
THEOREM KeepsPromise == Spec => DeliversAligned
<1>1. Init => Promise!Init
  BY DEF Init, Promise!Init
<1>2. IInv /\ More /\ [Next]_vars => [Promise!Next]_<<lost, back, last>>
  <2>. SUFFICES ASSUME IInv, More, [Next]_vars, ~UNCHANGED <<lost, back, last>>
                PROVE  Promise!Next
    OBVIOUS
  <2>1. ASSUME Success PROVE Promise!Next
    BY <2>1, SuccessDelivers DEF Promise!Next
  <2>2. ASSUME NEW c \in Chans, Lose(c) PROVE Promise!Next
    BY <2>2, LoseEnvironment DEF Promise!Next
  <2>3. ASSUME NEW p \in 2 .. MaxPkts, SetTime(p) PROVE Promise!Next
    BY <2>3 DEF SetTime, Promise!Environment, Promise!Next
  <2>4. ~(Call \/ Timeout \/ Iteration)
    BY DEF Call, Timeout, Iteration, NewTime, AlignmentFailure, SameTime, OlderTime, NoTime,
       Timestamped, device
  <2>5. \A c \in Chans : ~Arrive(c)
    BY DEF Arrive
  <2>6. ~UNCHANGED vars
    BY DEF vars, device
  <2>. QED
    BY <2>1, <2>2, <2>3, <2>4, <2>5, <2>6 DEF Next, Aligner
<1>. QED
  BY InitIInv, NextIInv, InitMore, NextMore, <1>1, <1>2, PTL
     DEF Spec, DeliversAligned, Promise!Spec
=============================================================================

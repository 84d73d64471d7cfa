---------------------------- MODULE RxFlowControl ----------------------------
(***************************************************************************)
(* Flow control of one receive stream, from a stream endpoint of the FPGA  *)
(* to the host.                                                            *)
(*                                                                         *)
(* FPGA: chdr_stream_output.v sends a word in every clock cycle in which   *)
(* the comparison of its transfer counts with the host's capacity, made    *)
(* OkLatency cycles before, allows it.  On a lossy transport it sends, a   *)
(* buffer's worth of data after the last one, a stream command (STRC) with *)
(* its counts.                                                             *)
(*                                                                         *)
(* Host: chdr_rx_data_xport.hpp and rx_flow_ctrl_state.hpp count what is   *)
(* received and what is released, take over the counts of an STRC packet,  *)
(* and answer with stream status packets (STRS).                           *)
(*                                                                         *)
(* The counters have 64 bits and start at zero: they do not wrap around.   *)
(***************************************************************************)
EXTENDS Integers, Sequences, Sums

CONSTANTS
    Capacity,  \* buffer of the host's link, [bytes, pkts]
    Headroom,  \* what the FPGA leaves free of it, [bytes, pkts]
    FcFreq,    \* what is released between two STRS packets, [bytes, pkts]
    W,         \* bytes in a CHDR word
    PktSizes,  \* sizes of data packets, in bytes
    StrcWords, \* words of a stream command packet
    OkLatency, \* stages of ok_shreg and of fc_resync_req_shreg
    Lossy,     \* lossy_xport
    Faults,    \* what may go wrong
    MaxPkts,   \* bound: data packets in a behaviour
    MaxLoss    \* bound: packets lost and responses not sent in a behaviour

\* Packets to or from the host are lost; the host's link has no frame for a
\* response.
FaultKinds == {"lose_down", "lose_up", "no_frame"}

Counts == [bytes : Nat, pkts : Nat]

\* Data packets have a header word and at least one word more.
ASSUME RxAssumption ==
    /\ {Capacity, Headroom, FcFreq} \subseteq Counts
    /\ Headroom.bytes <= Capacity.bytes /\ Headroom.pkts <= Capacity.pkts
    /\ {W, OkLatency} \subseteq Nat \ {0} /\ StrcWords \in Nat \ {0, 1}
    /\ PktSizes \subseteq Nat /\ \A n \in PktSizes : n > W
    /\ Lossy \in BOOLEAN
    /\ Faults \subseteq FaultKinds
    /\ {MaxPkts, MaxLoss} \subseteq Nat

VARIABLES
    send,     \* send_cnt of the FPGA
    rcnt,     \* recv_cnt of the FPGA
    accum,    \* accum of the FPGA
    ok,       \* ok_shreg
    req,      \* fc_resync_req_shreg
    state,    \* "pass" (ST_PASS_DATA) or "strc" (ST_STRC_*)
    part,     \* words sent of the current packet
    size,     \* size of the current packet
    strc_cnt, \* the counts for the STRC packet
    down,     \* packets on the link to the host
    up,       \* counts of the STRS packets on the link to the FPGA
    recv,     \* _recv_counts of the host
    xfer,     \* _xfer_counts of the host
    last,     \* _last_fc_resp_counts of the host
    held,     \* sizes of the packets that the client has not released
    insync,   \* no packet was lost since the last STRC packet that arrived
    npkts, nloss  \* counters for the bounds

dev == <<send, accum, ok, req, state, part, size, strc_cnt>>
host == <<recv, xfer, last, held>>
vars == <<dev, rcnt, down, up, host, insync, npkts, nloss>>

Zero == [bytes |-> 0, pkts |-> 0]
Plus(a, b) == [bytes |-> a.bytes + b.bytes, pkts |-> a.pkts + b.pkts]
Minus(a, b) == [bytes |-> a.bytes - b.bytes, pkts |-> a.pkts - b.pkts]

-----------------------------------------------------------------------------
(* The FPGA: chdr_stream_output.v *)

Words(n) == (n + W - 1) \div W

\* adj_cap: the headroom is cut to whole words.
AdjCap == [bytes |-> Capacity.bytes - (Headroom.bytes \div W) * W,
           pkts  |-> Capacity.pkts - Headroom.pkts]

HasRoom_Equal ==
    /\ send.bytes - rcnt.bytes <= AdjCap.bytes
    /\ send.pkts - rcnt.pkts <= AdjCap.pkts
HasRoom ==
    /\ send.bytes - rcnt.bytes < AdjCap.bytes
    /\ send.pkts - rcnt.pkts < AdjCap.pkts

ResyncDue == accum.bytes > Capacity.bytes \/ accum.pkts > Capacity.pkts

OkToSend == ok[OkLatency]
FcResyncReq == req[OkLatency]

Shift_Wide(reg, bit) == <<bit>> \o reg
Shift(reg, bit) == <<bit>> \o SubSeq(reg, 1, OkLatency - 1)

\* A word leaves the FPGA, with which a packet ends or not.
Count(c, ends) == Plus(c, [bytes |-> W, pkts |-> IF ends THEN 1 ELSE 0])

\* A word of a data packet passes.  A pending resync starts at its end.
DataWord ==
    /\ state = "pass" /\ OkToSend
    /\ part = 0 => npkts < MaxPkts
    /\ \E n \in (IF part = 0 THEN PktSizes ELSE {size}) :
        LET ends == part + 1 = Words(n)
        IN  /\ send' = Count(send, ends)
            /\ accum' = IF Lossy THEN Count(accum, ends) ELSE Zero
            /\ part' = IF ends THEN 0 ELSE part + 1
            /\ size' = IF ends THEN 0 ELSE n
            /\ down' = IF ends THEN Append(down, [type |-> "data", size |-> n,
                                                  cnt |-> Zero])
                               ELSE down
            /\ state' = IF part > 0 /\ ends /\ FcResyncReq THEN "strc" ELSE "pass"
            /\ npkts' = IF ends THEN npkts + 1 ELSE npkts
    /\ ok' = Shift(ok, HasRoom)
    /\ req' = Shift(req, ResyncDue)
    /\ UNCHANGED <<rcnt, strc_cnt, up, host, insync, nloss>>

\* A word of a stream command.  The byte count is the one before its header,
\* the packet count is read before its last word.
StrcCount_After == send.bytes
StrcCount == strc_cnt

StrcWord ==
    /\ state = "strc" /\ OkToSend
    /\ LET ends == part + 1 = StrcWords
       IN  /\ send' = Count(send, ends)
           /\ strc_cnt' = IF part = 0 THEN send.bytes ELSE strc_cnt
           /\ part' = IF ends THEN 0 ELSE part + 1
           /\ accum' = IF ends THEN Zero ELSE Count(accum, ends)
           /\ req' = IF ends THEN [i \in 1..OkLatency |-> FALSE]
                             ELSE Shift(req, ResyncDue)
           /\ state' = IF ends THEN "pass" ELSE "strc"
           /\ down' = IF ends THEN Append(down, [type |-> "strc", size |-> StrcWords * W,
                                 cnt |-> [bytes |-> StrcCount, pkts |-> send.pkts]])
                              ELSE down
    /\ ok' = Shift(ok, HasRoom)
    /\ UNCHANGED <<rcnt, size, up, host, insync, npkts, nloss>>

\* A cycle without a word: the source has none, or the link takes none.
IdleCycle ==
    /\ ok' = Shift(ok, HasRoom)
    /\ req' = Shift(req, ResyncDue)
    /\ state' = IF state = "pass" /\ part = 0 /\ FcResyncReq THEN "strc" ELSE state
    /\ UNCHANGED <<send, accum, part, size, strc_cnt, rcnt, down, up, host, insync,
                   npkts, nloss>>

\* ST_STRS_LATCH
LatchStrs ==
    /\ up # <<>>
    /\ rcnt' = Head(up)
    /\ up' = Tail(up)
    /\ UNCHANGED <<dev, down, host, insync, npkts, nloss>>

-----------------------------------------------------------------------------
(* The host *)

RoundPktSize(n) == ((n + W - 1) \div W) * W

Pkt(n) == [bytes |-> RoundPktSize(n), pkts |-> 1]

\* xfer_done
XferDone(x, n) == Plus(x, Pkt(n))

\* _send_fc_response, with x released.  Without a frame for it an exception
\* ends the call, and the response remains due.
FcRespDue_Never(x) == FALSE
FcRespDue(x) ==
    \/ Minus(x, last).bytes >= FcFreq.bytes
    \/ Minus(x, last).pkts >= FcFreq.pkts

SendFcResponse(x) ==
    \/ FcRespDue(x) /\ up' = Append(up, x) /\ last' = x /\ UNCHANGED nloss
    \/ ~FcRespDue(x) /\ UNCHANGED <<up, last, nloss>>
    \/ /\ FcRespDue(x)
       /\ "no_frame" \in Faults /\ nloss < MaxLoss
       /\ nloss' = nloss + 1
       /\ UNCHANGED <<up, last>>

\* _recv_callback for a data packet
RecvData ==
    /\ down # <<>> /\ Head(down).type = "data"
    /\ down' = Tail(down)
    /\ recv' = Plus(recv, Pkt(Head(down).size))
    /\ held' = Append(held, Head(down).size)
    /\ UNCHANGED <<dev, rcnt, up, xfer, last, insync, npkts, nloss>>

\* resynchronize: what was dropped is counted as received and released.
Resynchronize_RecvOnly(counts) == [recv |-> counts, xfer |-> xfer]
Resynchronize(counts) ==
    [recv |-> counts, xfer |-> Plus(xfer, Minus(counts, recv))]

\* _recv_callback for a stream command: it is counted after the resync, and
\* released at once.
RecvStrc ==
    /\ down # <<>> /\ Head(down).type = "strc"
    /\ down' = Tail(down)
    /\ LET rs == Resynchronize(Head(down).cnt)
           n  == Head(down).size
       IN  /\ recv' = Plus(rs.recv, Pkt(n))
           /\ xfer' = XferDone(rs.xfer, n)
    /\ SendFcResponse(xfer')
    /\ insync' = TRUE
    /\ UNCHANGED <<dev, rcnt, held, npkts>>

\* release_recv_buff and _fc_callback: the client is done with a packet.
ReleaseRecvBuff ==
    /\ held # <<>>
    /\ held' = Tail(held)
    /\ xfer' = XferDone(xfer, Head(held))
    /\ SendFcResponse(xfer')
    /\ UNCHANGED <<dev, rcnt, down, recv, insync, npkts>>

-----------------------------------------------------------------------------
(* The link *)

LoseDown ==
    /\ "lose_down" \in Faults
    /\ nloss < MaxLoss
    /\ down # <<>>
    /\ down' = Tail(down)
    /\ insync' = FALSE
    /\ nloss' = nloss + 1
    /\ UNCHANGED <<dev, rcnt, up, host, npkts>>

LoseUp ==
    /\ "lose_up" \in Faults
    /\ nloss < MaxLoss
    /\ up # <<>>
    /\ up' = Tail(up)
    /\ nloss' = nloss + 1
    /\ UNCHANGED <<dev, rcnt, down, host, insync, npkts>>

-----------------------------------------------------------------------------
\* The stream is configured: both sides start from zero.
Init ==
    /\ send = Zero /\ rcnt = Zero /\ accum = Zero /\ strc_cnt = 0
    /\ ok = [i \in 1..OkLatency |-> TRUE]
    /\ req = [i \in 1..OkLatency |-> FALSE]
    /\ state = "pass" /\ part = 0 /\ size = 0
    /\ down = <<>> /\ up = <<>>
    /\ recv = Zero /\ xfer = Zero /\ last = Zero /\ held = <<>>
    /\ insync = TRUE
    /\ npkts = 0 /\ nloss = 0

Fpga == DataWord \/ StrcWord \/ IdleCycle \/ LatchStrs
Host == RecvData \/ RecvStrc \/ ReleaseRecvBuff
Link == LoseDown \/ LoseUp

Next == Fpga \/ Host \/ Link

Spec == Init /\ [][Next]_vars

\* The FPGA's clock runs and its source has data, packets that are not lost
\* arrive, the I/O service reads them and the client releases them.
FairSpec ==
    /\ Spec
    /\ WF_vars(DataWord) /\ WF_vars(StrcWord) /\ WF_vars(IdleCycle)
    /\ WF_vars(LatchStrs)
    /\ WF_vars(RecvData \/ RecvStrc) /\ WF_vars(ReleaseRecvBuff)

-----------------------------------------------------------------------------
(* Properties *)

TypeOK ==
    /\ {send, rcnt, accum, recv, xfer, last} \subseteq Counts
    /\ ok \in [1..OkLatency -> BOOLEAN] /\ req \in [1..OkLatency -> BOOLEAN]
    /\ state \in {"pass", "strc"}
    /\ part \in Nat /\ size \in PktSizes \cup {0} /\ strc_cnt \in Nat
    /\ down \in Seq([type : {"data", "strc"}, size : Nat, cnt : Counts])
    /\ up \in Seq(Counts) /\ held \in Seq(Nat)
    /\ insync \in BOOLEAN /\ npkts \in Nat /\ nloss \in Nat

\* What packets of these sizes occupy.
Occupies(sizes) == [bytes |-> Total([i \in DOMAIN sizes |-> RoundPktSize(sizes[i])]),
                    pkts  |-> Len(sizes)]
Sizes(pkts) == [i \in DOMAIN pkts |-> pkts[i].size]

\* What the FPGA has sent and the host has not released.
Used == Plus(Occupies(Sizes(down) \o held), [bytes |-> part * W, pkts |-> 0])

\* The flow control (ok_to_send) limits what is in use of the host's buffer, to
\* the adjusted capacity and what passes while the comparison of the counts is
\* under way, whatever is lost and however the counts are corrected.  Two words
\* are needed for a packet.
OverflowBounded ==
    /\ Used.bytes < AdjCap.bytes + (OkLatency + 1) * W
    /\ Used.pkts <= AdjCap.pkts + OkLatency \div 2

\* What is in use fits into the buffer that the host announced: only with a
\* headroom, and the device drivers configure none.
NoOverflow == Used.bytes <= Capacity.bytes /\ Used.pkts <= Capacity.pkts

\* The counts of the host are exact as soon as an STRC packet has arrived,
\* however many packets, STRC packets included, were lost before it
\* (resynchronize): each byte that the FPGA has sent is on the link, or has
\* been received.
ResyncExact ==
    insync => Minus(send, [bytes |-> part * W, pkts |-> 0])
                = Plus(recv, Occupies(Sizes(down)))

\* What was received and not released is exactly what the client holds, so
\* that a resync neither loses credits nor returns any twice.
HeldAccounting == Minus(recv, xfer) = Occupies(held)

\* A stream that loses nothing keeps moving: the FPGA is never left for ever
\* without room, although it may stop in the middle of a packet and the host
\* answers only every FcFreq bytes or packets.
KeepsMoving == []<>(nloss > 0 \/ HasRoom)
=============================================================================

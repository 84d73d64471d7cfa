---------------------------- MODULE TxFlowControl ----------------------------
(***************************************************************************)
(* Flow control of one transmit stream, from the host to a stream endpoint *)
(* of the FPGA.                                                            *)
(*                                                                         *)
(* Host: chdr_tx_data_xport.hpp and tx_flow_ctrl_state.hpp count the bytes *)
(* sent, and learn from stream status packets (STRS) how many bytes left   *)
(* the ingress buffer.  After one buffer's worth of bytes the host sends a *)
(* stream command (STRC) with its own count, to correct for losses.        *)
(*                                                                         *)
(* FPGA: chdr_stream_input.v counts the words that leave its buffer,       *)
(* answers with STRS packets, and overrides its count on a resync command. *)
(*                                                                         *)
(* Only bytes are counted: dest_has_space ignores packet counts, and the   *)
(* FPGA's packet threshold can only make it report more often.             *)
(***************************************************************************)
EXTENDS Integers, Sequences, SequencesExt, Sums

CONSTANTS
    Capacity,  \* size of the ingress buffer, in bytes
    FrameSize, \* bytes that get_send_buff waits for
    PktSizes,  \* sizes of data packets, in bytes
    W,         \* bytes in a CHDR word
    StrcSize,  \* size of a stream command packet, in bytes
    MaxStrcSize, \* MAX_PACKET_SIZE: bytes that a resync waits for
    FcFreq,    \* bytes between two flow control responses
    CountMod,  \* number of values of a byte counter (2^64)
    UintMax,   \* UINT_MAX: the bytes that resend_init waits for
    Faults,    \* what may go wrong
    MaxPkts,   \* bound: data packets in a behaviour
    MaxLoss,   \* bound: packets lost in a behaviour
    MaxInits   \* bound: calls of resend_init in a behaviour

\* Packets to or from the FPGA are lost; a link has no frame for a resync.
FaultKinds == {"lose_down", "lose_up", "no_frame"}

\* A packet occupies whole words in the FPGA.
RoundPktSize(n) == ((n + W - 1) \div W) * W

\* The buffer has room for a stream command, of any word size, and is far
\* smaller than what a counter counts.
ASSUME TxAssumption ==
    /\ {Capacity, FrameSize, W, StrcSize, MaxStrcSize, FcFreq, CountMod,
       UintMax} \subseteq Nat \ {0}
    /\ RoundPktSize(StrcSize) <= MaxStrcSize
    /\ MaxStrcSize <= Capacity /\ Capacity < CountMod
    /\ PktSizes \subseteq 1..FrameSize
    /\ Faults \subseteq FaultKinds
    /\ {MaxPkts, MaxLoss, MaxInits} \subseteq Nat

VARIABLES
    xfer,        \* _xfer_counts.bytes
    recv,        \* _recv_counts.bytes
    last_resync, \* _last_fc_resync_bytes
    resync_req,  \* _fc_resync_req
    held,        \* a frame buffer was handed to the client
    mode,        \* "run"; in resend_init "init" while it sleeps, then "drain"
    down,        \* packets on the link to the FPGA
    buf,         \* packets in the ingress buffer
    up,          \* counts of the STRS packets on the link to the host
    cnt,         \* xfer_cnt_bytes of the FPGA
    accum,       \* accum_bytes of the FPGA
    due,         \* a response is posted in the FPGA
    sending,     \* the responder has read the count of an STRS packet
    cut_short,   \* history: a resend_init ended without the answer of the FPGA
    uncounted,   \* history: words passed that no response is due for
    npkts, nloss, ninits  \* counters for the bounds

host == <<xfer, recv, last_resync, resync_req>>
dev == <<cnt, accum, due, sending>>
history == <<cut_short, uncounted>>
bounds == <<npkts, nloss, ninits>>
vars == <<host, held, mode, down, buf, up, dev, history, bounds>>

-----------------------------------------------------------------------------
(* The host *)

\* dest_has_space, in unsigned arithmetic.
DestHasSpace_Always(x, r, size) == (x - r) % CountMod <= Capacity
DestHasSpace(x, r, size) ==
    (Capacity - ((x - r) % CountMod)) % CountMod >= size

\* data_sent counts whole words.
DataSent_NoWrap(x, size) == x + RoundPktSize(size)
DataSent(x, size) == (x + RoundPktSize(size)) % CountMod

\* data_sent: a resync is due after one buffer's worth of bytes.
ResyncDue(x, last) == (x - last) % CountMod >= Capacity

\* The resync itself needs room.
ResyncRoom(x, r) == DestHasSpace(x, r, MaxStrcSize)

\* A packet, with the host's count before it: what a resync carries.
Packet(type, size, x) == [type |-> type, size |-> size, ofs |-> x]

\* _send_callback: the packet p is sent and counted; then a pending resync is
\* sent if there is room for it.
ResyncPending(x) == resync_req \/ ResyncDue(x, last_resync)

SendWithResync(p, x0, r0) ==
    LET x == DataSent(x0, p.size)
    IN  /\ ResyncPending(x) /\ ResyncRoom(x, r0)
        /\ down' = down \o <<p, Packet("resync", StrcSize, x)>>
        /\ last_resync' = x
        /\ xfer' = DataSent(x, StrcSize)
        /\ resync_req' = ResyncDue(xfer', x)

SendAlone(p, x0) ==
    /\ down' = Append(down, p)
    /\ xfer' = DataSent(x0, p.size)
    /\ resync_req' = ResyncPending(xfer')
    /\ UNCHANGED last_resync

SendReturns(p, x0, r0) ==
    \/ SendWithResync(p, x0, r0)
    \/ SendAlone(p, x0) /\ ~(resync_req' /\ ResyncRoom(xfer', r0))

\* send_strc_resync has no frame: the exception leaves the resync pending.
SendThrows(p, x0, r0) ==
    /\ "no_frame" \in Faults
    /\ SendAlone(p, x0)
    /\ resync_req' /\ ResyncRoom(xfer', r0)

\* get_send_buff waits for room for a whole frame.
GetSendBuff ==
    /\ mode = "run" /\ ~held
    /\ npkts < MaxPkts
    /\ DestHasSpace(xfer, recv, FrameSize)
    /\ held' = TRUE
    /\ UNCHANGED <<host, mode, down, buf, up, dev, history, bounds>>

\* No room until the timeout: the client gets no frame and may try again.
GetSendBuffTimeout ==
    /\ mode = "run" /\ ~held
    /\ ~DestHasSpace(xfer, recv, FrameSize)
    /\ UNCHANGED vars

\* release_send_buff sends the frame.
ReleaseSendBuff ==
    /\ held
    /\ \E n \in PktSizes :
        LET p == Packet("data", n, xfer)
        IN  SendReturns(p, xfer, recv) \/ SendThrows(p, xfer, recv)
    /\ held' = FALSE
    /\ npkts' = npkts + 1
    /\ UNCHANGED <<recv, mode, buf, up, dev, history, nloss, ninits>>

\* _recv_callback: an STRS packet replaces the count of the destination.
RecvStrs ==
    /\ mode = "run"
    /\ up # <<>>
    /\ recv' = Head(up)
    /\ up' = Tail(up)
    /\ UNCHANGED <<xfer, last_resync, resync_req, held, mode, down, buf, dev,
                   history, bounds>>

\* resend_init: the counts of both sides restart.  The init packet is counted
\* like any other, and the state of the resync is not reset.  The exception of
\* a resync without a frame ends the call before it sleeps.
ResendInit ==
    /\ mode = "run" /\ ~held
    /\ ninits < MaxInits
    /\ recv' = 0
    /\ \/ /\ SendReturns(Packet("init", StrcSize, 0), 0, 0)
          /\ mode' = "init"
          /\ UNCHANGED cut_short
       \/ /\ SendThrows(Packet("init", StrcSize, 0), 0, 0)
          /\ cut_short' = TRUE
          /\ UNCHANGED mode
    /\ ninits' = ninits + 1
    /\ UNCHANGED <<held, buf, up, dev, uncounted, npkts, nloss>>

\* The sleep (INIT_WAIT_TIME) is assumed to be long enough for the FPGA to
\* execute the command and to answer, unless the command is lost.
SleepDone ==
    /\ mode = "init"
    /\ ~due /\ ~sending /\ \A p \in ToSet(down \o buf) : p.type # "init"
    /\ mode' = "drain"
    /\ UNCHANGED <<host, held, down, buf, up, dev, history, bounds>>

\* wait_for_dest_ready(UINT_MAX, 0) reads STRS packets, old ones included, as
\* long as there are any and there is no room for UINT_MAX bytes.
UintMaxRoom == DestHasSpace(xfer, recv, UintMax)

DrainStrs ==
    /\ mode = "drain"
    /\ ~UintMaxRoom
    /\ up # <<>>
    /\ recv' = Head(up)
    /\ up' = Tail(up)
    /\ UNCHANGED <<xfer, last_resync, resync_req, held, mode, down, buf, dev,
                   history, bounds>>

InitDone ==
    /\ mode = "drain"
    /\ up = <<>> \/ UintMaxRoom
    /\ mode' = "run"
    /\ cut_short' = (cut_short \/ up # <<>>)
    /\ UNCHANGED <<host, held, down, buf, up, dev, uncounted, bounds>>

-----------------------------------------------------------------------------
(* The FPGA: chdr_stream_input.v *)

Arrive ==
    /\ down # <<>>
    /\ buf' = Append(buf, Head(down))
    /\ down' = Tail(down)
    /\ UNCHANGED <<host, held, mode, up, dev, history, bounds>>

\* Words are counted when they leave the buffer.
Count(n) ==
    /\ cnt' = (cnt + RoundPktSize(n)) % CountMod
    /\ accum' = accum + RoundPktSize(n)

\* fc_resp_due: an edge of the comparison with the response frequency.
FcRespDue_Never(a, b) == FALSE
FcRespDue(a, b) == a < FcFreq /\ b >= FcFreq

\* The input does not wait for the responder: what passes while an STRS packet
\* is being sent will be cleared with the rest (fc_refresh).
Passes ==
    /\ buf' = Tail(buf)
    /\ uncounted' = (uncounted \/ sending)

DevData ==
    /\ buf # <<>> /\ Head(buf).type = "data"
    /\ Passes
    /\ Count(Head(buf).size)
    /\ due' = (due \/ FcRespDue(accum, accum'))
    /\ UNCHANGED <<host, held, mode, down, up, sending, cut_short, bounds>>

\* The count is replaced by the one in the command; a response is posted.
ResyncCount_Add(p) == (cnt + p.ofs) % CountMod
ResyncCount(p) == p.ofs

DevResync ==
    /\ buf # <<>> /\ Head(buf).type = "resync"
    /\ Passes
    /\ cnt' = ResyncCount(Head(buf))
    /\ accum' = accum + RoundPktSize(Head(buf).size)
    /\ due' = TRUE
    /\ UNCHANGED <<host, held, mode, down, up, sending, cut_short, bounds>>

\* Flow control is disabled, which clears the counts and the posted responses,
\* and the input is flushed until it is idle.  Then the first response is sent.
DevInit ==
    /\ buf # <<>> /\ Head(buf).type = "init"
    /\ buf' = <<>>
    /\ \E k \in 0..Len(down) : down' = SubSeq(down, k + 1, Len(down))
    /\ cnt' = 0
    /\ accum' = 0
    /\ due' = TRUE
    /\ sending' = FALSE
    /\ UNCHANGED <<host, held, mode, up, history, bounds>>

\* The responder reads the count when it sends the words of the packet that
\* hold it (ST_STRS_W1, ST_STRS_W2).
DevSendStrs ==
    /\ due /\ ~sending
    /\ up' = Append(up, cnt)
    /\ due' = FALSE
    /\ sending' = TRUE
    /\ UNCHANGED <<host, held, mode, down, buf, cnt, accum, history, bounds>>

\* ST_STRS_DONE: fc_refresh clears what was counted for the next response.
DevRefresh ==
    /\ sending
    /\ sending' = FALSE
    /\ accum' = 0
    /\ UNCHANGED <<host, held, mode, down, buf, up, cnt, due, history, bounds>>

-----------------------------------------------------------------------------
(* The link *)

\* An init packet may be lost as well.
LoseDown ==
    /\ "lose_down" \in Faults
    /\ nloss < MaxLoss
    /\ down # <<>>
    /\ down' = Tail(down)
    /\ nloss' = nloss + 1
    /\ cut_short' = (cut_short \/ Head(down).type = "init")
    /\ UNCHANGED <<host, held, mode, buf, up, dev, uncounted, npkts, ninits>>

\* The last STRS packet that resend_init would have read may be the answer.
LoseUp ==
    /\ "lose_up" \in Faults
    /\ nloss < MaxLoss
    /\ up # <<>>
    /\ up' = Tail(up)
    /\ nloss' = nloss + 1
    /\ cut_short' = (cut_short \/ (mode = "drain" /\ up' = <<>>))
    /\ UNCHANGED <<host, held, mode, down, buf, dev, uncounted, npkts, ninits>>

-----------------------------------------------------------------------------
\* The stream is configured: both sides start from zero.
Init ==
    /\ xfer = 0 /\ recv = 0 /\ last_resync = 0 /\ resync_req = FALSE
    /\ held = FALSE /\ mode = "run"
    /\ down = <<>> /\ buf = <<>> /\ up = <<>>
    /\ cnt = 0 /\ accum = 0 /\ due = FALSE /\ sending = FALSE
    /\ cut_short = FALSE /\ uncounted = FALSE
    /\ npkts = 0 /\ nloss = 0 /\ ninits = 0

\* The bound is reached: the client sends no more.
Stopped == npkts = MaxPkts /\ UNCHANGED vars

Host ==
    \/ GetSendBuff \/ GetSendBuffTimeout \/ ReleaseSendBuff \/ RecvStrs
    \/ ResendInit \/ SleepDone \/ DrainStrs \/ InitDone
Fpga == Arrive \/ DevData \/ DevResync \/ DevInit \/ DevSendStrs \/ DevRefresh
Link == LoseDown \/ LoseUp

Next == Host \/ Fpga \/ Link \/ Stopped

Spec == Init /\ [][Next]_vars

\* The client sends what it holds, the host reads its link while it waits, the
\* FPGA's state machines run, and packets that are not lost arrive.
FairSpec ==
    /\ Spec
    /\ WF_vars(ReleaseSendBuff) /\ WF_vars(GetSendBuff)
    /\ WF_vars(RecvStrs) /\ WF_vars(SleepDone) /\ WF_vars(DrainStrs \/ InitDone)
    /\ WF_vars(Arrive) /\ WF_vars(DevSendStrs) /\ WF_vars(DevRefresh)
    /\ WF_vars(DevData \/ DevResync \/ DevInit)

-----------------------------------------------------------------------------
(* Properties *)

PacketType == [type : {"data", "resync", "init"}, size : Nat, ofs : Nat]

TypeOK ==
    /\ {xfer, recv, last_resync} \subseteq 0..CountMod - 1
    /\ resync_req \in BOOLEAN /\ held \in BOOLEAN /\ mode \in {"run", "init", "drain"}
    /\ down \in Seq(PacketType) /\ buf \in Seq(PacketType) /\ up \in Seq(Nat)
    /\ cnt \in 0..CountMod - 1 /\ accum \in Nat
    /\ due \in BOOLEAN /\ sending \in BOOLEAN
    /\ cut_short \in BOOLEAN /\ uncounted \in BOOLEAN
    /\ npkts \in Nat /\ nloss \in Nat /\ ninits \in Nat

Bytes(s) == Total([i \in DOMAIN s |-> RoundPktSize(s[i].size)])

\* The purpose of the flow control (dest_has_space): what the host has sent
\* and the FPGA has not consumed fits into the ingress buffer, so that a
\* transmit stream never blocks the FPGA's crossbar.  This holds through
\* losses, resyncs and reinitialisations of the stream, until a call of
\* resend_init ends without having read the FPGA's answer: it throws, or stops
\* reading at an old count, or the command or the answer is lost.
NoOverflow == mode = "run" /\ ~cut_short => Bytes(buf \o down) <= Capacity

\* The host never believes that the FPGA consumed more than it was sent: a
\* count that is ahead would make the unsigned subtraction in dest_has_space
\* wrap around.  With the same exception: old counts then outlive the counts
\* of the host that resend_init has reset.
NeverAhead ==
    mode = "run" /\ ~cut_short =>
        \A r \in {recv} \cup ToSet(up) : (xfer - r) % CountMod <= Capacity

\* resend_init leaves the loop with the answer to the init command processed,
\* as its comment says (wait_for_dest_ready).
AnswerProcessed == [][mode = "drain" /\ mode' = "run" => up = <<>>]_vars

\* A stream that loses nothing keeps moving: the host gets room for a frame
\* again and again, although responses come only every FcFreq bytes, the
\* resync that corrects the counts may lack a frame, and it needs room itself.
\* Words that pass while an STRS packet is being sent are an exception, since
\* no response will come for them, and so are those that the FPGA flushes when
\* the host sends without having waited for the answer to an init command.
KeepsMoving ==
    []<>(\/ nloss > 0 \/ uncounted \/ cut_short
         \/ mode = "run" /\ DestHasSpace(xfer, recv, FrameSize))
=============================================================================

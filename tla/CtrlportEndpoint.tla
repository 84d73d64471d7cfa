--------------------------- MODULE CtrlportEndpoint ---------------------------
(***************************************************************************)
(* One ctrlport endpoint of the host: host/lib/rfnoc/ctrlport_endpoint.cpp.*)
(*                                                                         *)
(* Client threads call poke32, peek32 and sleep on the same endpoint.  All *)
(* calls reach send_request_packet, which takes the endpoint's mutex and   *)
(* releases it only inside the two condition-variable waits (space in the  *)
(* downstream buffer, and the ACK).  The receive thread calls handle_recv  *)
(* for every packet that the block sends back.                             *)
(*                                                                         *)
(* The link and the block are the environment: the block answers requests  *)
(* in order, and the link may lose or duplicate packets (Faults says which *)
(* faults happen).  A deadline of a condition variable may expire whenever *)
(* the thread waits on it.                                                 *)
(*                                                                         *)
(* The fields id and ofs of a request are history: the serial number of    *)
(* the call, and the number of words queued before it.  No guard reads     *)
(* them.                                                                   *)
(***************************************************************************)
EXTENDS Integers, Sequences, SequencesExt, Sums

CONSTANTS
    Threads,      \* client threads
    Ops, Addrs,   \* opcodes (WRITE, READ, SLEEP) and register addresses
    Calls,        \* Calls[t]: the requests [op, addr, timed, ack] t makes
    SeqNums,      \* number of sequence numbers (64 in the code)
    BuffCapacity, \* _buff_capacity, in 32-bit words
    MaxAsync,     \* _max_outstanding_async_msgs
    Faults,       \* the faults of link and time that are allowed to happen
    MaxReqs,      \* bound: number of requests in a behaviour
    MaxNet        \* bound: responses in flight after a duplication

FaultKinds == {"lose_req", "lose_resp", "dup_resp", "send", "status", "timeout"}

\* Size in words of the largest async message response.
ASYNC_MESSAGE_SIZE == 6

\* The room for async responses is subtracted from the capacity in size_t, so
\* it has to be there.
ASSUME ConstantsAssumption ==
    /\ Calls \in [Threads -> SUBSET [op : Ops, addr : Addrs, timed : BOOLEAN,
                                     ack : BOOLEAN]]
    /\ SeqNums \in 1..128
    /\ BuffCapacity \in Nat
    /\ MaxAsync \in Nat
    /\ ASYNC_MESSAGE_SIZE * MaxAsync <= BuffCapacity
    /\ Faults \subseteq FaultKinds
    /\ MaxReqs \in Nat
    /\ MaxNet \in Nat

VARIABLES
    tx_seq_num,    \* _tx_seq_num
    buff_occupied, \* _buff_occupied
    req_queue,     \* _req_queue
    resp_queue,    \* _resp_queue
    wanted_acks,   \* _wanted_acks
    pc,            \* where each thread is in send_request_packet
    cur,           \* the request each thread is making: <<>> or one request
    woken,         \* threads notified by _buff_free_cond that have not run yet
    outcome,       \* how the last call of each thread ended
    rx,            \* response being applied under the mutex: <<>> or one
    skip,          \* calls of process_incorrect_response still to be made
    corrupted,     \* a pop of the empty _req_queue: undefined behaviour
    reqnet,        \* requests on their way to, or buffered in, the block
    respnet,       \* responses on their way to the host
    async_msgs,    \* async messages on their way to the host
    async_acks,    \* their responses in the downstream buffer
    nreqs,         \* history: number of requests made
    words          \* history: number of words ever queued

client == <<pc, cur, outcome, woken>>
handler == <<rx, skip, corrupted>>
net == <<reqnet, respnet>>
async == <<async_msgs, async_acks>>
history == <<nreqs, words>>
vars == <<tx_seq_num, buff_occupied, req_queue, resp_queue, wanted_acks,
          client, handler, net, async, history>>

-----------------------------------------------------------------------------
(* Payloads *)

Request == [id : Nat, ofs : Nat, seq : 0..SeqNums - 1, op : Ops, addr : Addrs,
            timed : BOOLEAN, ack : BOOLEAN]

Status == {"OKAY", "CMDERR"}

Response == [id : Nat, seq : 0..SeqNums - 1, op : Ops, addr : Addrs,
             status : Status, dropped : BOOLEAN]

\* Every request carries one data word; a timestamp takes two more.
GetPayloadSize(r) == 2 + (IF r.timed THEN 2 ELSE 0) + 1

\* wanted_ack_key
Key(m) == <<m.seq, m.op, m.addr>>

\* The difference of two sequence numbers, in an int8_t.
SeqNumDiff_Swapped(a, b) == ((b - a + 128) % 256) - 128
SeqNumDiff(a, b) == ((a - b + 128) % 256) - 128

NextSeqNum_Stuck(s) == s
NextSeqNum_NoWrap(s) == s + 1
NextSeqNum(s) == (s + 1) % SeqNums

\* wait_for_ack filters by op_code, address and seq_num.
MeantFor_IgnoreSeq(m, r) == m.op = r.op /\ m.addr = r.addr
MeantFor(m, r) == m.seq = r.seq /\ m.op = r.op /\ m.addr = r.addr

Ids(s) == {s[i].id : i \in DOMAIN s}

-----------------------------------------------------------------------------
(* The client side: send_request_packet and wait_for_ack *)

\* Room is kept for the responses to async messages.
BuffNotFull_NoReserve(r) == buff_occupied + GetPayloadSize(r) <= BuffCapacity
BuffNotFull_NoSize(r) ==
    buff_occupied <= BuffCapacity - ASYNC_MESSAGE_SIZE * MaxAsync
BuffNotFull(r) ==
    buff_occupied + GetPayloadSize(r)
        <= BuffCapacity - ASYNC_MESSAGE_SIZE * MaxAsync

Return(t, kind, got) ==
    /\ pc' = [pc EXCEPT ![t] = "idle"]
    /\ cur' = [cur EXCEPT ![t] = <<>>]
    /\ outcome' = [outcome EXCEPT ![t] = [kind |-> kind, got |-> got]]

\* validate_ack: the exception a response is turned into, or "ok".
ValidateAck(m) ==
    IF m.status = "CMDERR" THEN "op_failed"
    ELSE IF m.dropped THEN "op_seqerr" ELSE "ok"

\* One pass over _resp_queue: the first response meant for r is removed and
\* validated.  An exception erases the key of r from the set of wanted ACKs.
TakeResponse(t, r, wanted) ==
    \E i \in DOMAIN resp_queue :
        /\ MeantFor(resp_queue[i], r)
        /\ \A j \in 1..i - 1 : ~MeantFor(resp_queue[j], r)
        /\ resp_queue' = RemoveAt(resp_queue, i)
        /\ Return(t, ValidateAck(resp_queue[i]),
                  IF resp_queue[i].id = r.id THEN "own" ELSE "other")
        /\ wanted_acks' = IF ValidateAck(resp_queue[i]) = "ok"
                            THEN wanted ELSE wanted \ {Key(r)}

HasResponse(r) == \E i \in DOMAIN resp_queue : MeantFor(resp_queue[i], r)

\* The request enters the queue before it is handed to the link.
Enqueue(r) ==
    /\ req_queue' = Append(req_queue, r)
    /\ buff_occupied' = buff_occupied + GetPayloadSize(r)
    /\ words' = words + GetPayloadSize(r)

Wanted_SeqAtSend(r) ==
    IF r.ack THEN wanted_acks \cup {<<tx_seq_num, r.op, r.addr>>}
    ELSE wanted_acks
Wanted(r) == IF r.ack THEN wanted_acks \cup {Key(r)} ELSE wanted_acks

\* _handle_send succeeded: the sequence number moves on, and wait_for_ack
\* makes its first pass over the responses without releasing the mutex.
SendOkay(t, r) ==
    /\ Enqueue(r)
    /\ reqnet' = Append(reqnet, r)
    /\ tx_seq_num' = NextSeqNum(tx_seq_num)
    /\ \/ /\ ~r.ack
          /\ Return(t, "sent", "none")
          /\ UNCHANGED <<resp_queue, wanted_acks>>
       \/ /\ r.ack
          /\ TakeResponse(t, r, Wanted(r))
       \/ /\ r.ack
          /\ ~HasResponse(r)
          /\ wanted_acks' = Wanted(r)
          /\ pc' = [pc EXCEPT ![t] = "wait_ack"]
          /\ cur' = [cur EXCEPT ![t] = <<r>>]
          /\ UNCHANGED <<resp_queue, outcome>>
    /\ UNCHANGED <<handler, respnet, async>>

\* _handle_send threw: the request stays in the queue and keeps its credits,
\* and the sequence number is used again.
SendThrows(t, r) ==
    /\ "send" \in Faults
    /\ Enqueue(r)
    /\ wanted_acks' = Wanted(r) \ {Key(r)}
    /\ Return(t, "send_error", "none")
    /\ UNCHANGED <<tx_seq_num, resp_queue, handler, net, async>>

\* The request is assembled, its sequence number included, before the wait
\* for space in the buffer.
MakeRequest(c) ==
    [id |-> nreqs, ofs |-> words, seq |-> tx_seq_num, op |-> c.op,
     addr |-> c.addr, timed |-> c.timed, ack |-> c.ack]

SendRequestPacket(t, c) ==
    /\ pc[t] = "idle"
    /\ rx = <<>>
    /\ nreqs < MaxReqs
    /\ nreqs' = nreqs + 1
    /\ UNCHANGED woken
    /\ \/ /\ BuffNotFull(MakeRequest(c))
          /\ \/ SendOkay(t, MakeRequest(c))
             \/ SendThrows(t, MakeRequest(c))
       \/ /\ ~BuffNotFull(MakeRequest(c))
          /\ pc' = [pc EXCEPT ![t] = "wait_buff"]
          /\ cur' = [cur EXCEPT ![t] = <<MakeRequest(c)>>]
          /\ UNCHANGED <<tx_seq_num, buff_occupied, req_queue, resp_queue,
                         wanted_acks, outcome, handler, net, async, words>>

Poke32(t) == \E c \in Calls[t] : c.op = "WRITE" /\ SendRequestPacket(t, c)
Peek32(t) == \E c \in Calls[t] : c.op = "READ" /\ SendRequestPacket(t, c)
Sleep(t)  == \E c \in Calls[t] : c.op = "SLEEP" /\ SendRequestPacket(t, c)

\* The wait for space ends when a thread wakes up (by its notification, its
\* deadline or spuriously) and the predicate holds.  The number of words
\* queued so far is recorded now: other threads may have queued meanwhile.
BuffFree(t) ==
    /\ pc[t] = "wait_buff"
    /\ rx = <<>>
    /\ BuffNotFull(cur[t][1])
    /\ woken' = woken \ {t}
    /\ LET r == [cur[t][1] EXCEPT !.ofs = words]
       IN  SendOkay(t, r) \/ SendThrows(t, r)
    /\ UNCHANGED nreqs

\* A thread that was notified finds no room and waits for the next notification.
BuffStillFull(t) ==
    /\ t \in woken
    /\ rx = <<>>
    /\ ~BuffNotFull(cur[t][1])
    /\ woken' = woken \ {t}
    /\ UNCHANGED <<tx_seq_num, buff_occupied, req_queue, resp_queue, wanted_acks,
                   pc, cur, outcome, handler, net, async, history>>

\* The deadline passes and the predicate still does not hold.
BuffTimeout_Never(t) == FALSE /\ UNCHANGED vars
BuffTimeout(t) ==
    /\ "timeout" \in Faults
    /\ pc[t] = "wait_buff"
    /\ rx = <<>>
    /\ ~BuffNotFull(cur[t][1])
    /\ woken' = woken \ {t}
    /\ Return(t, "op_timeout", "none")
    /\ UNCHANGED <<tx_seq_num, buff_occupied, req_queue, resp_queue,
                   wanted_acks, handler, net, async, history>>

\* wait_for_ack is notified (or wakes up spuriously) and finds its response.
AckReady(t) ==
    /\ pc[t] = "wait_ack"
    /\ rx = <<>>
    /\ TakeResponse(t, cur[t][1], wanted_acks)
    /\ UNCHANGED <<tx_seq_num, buff_occupied, req_queue, woken, handler, net,
                   async, history>>

\* The deadline passes; the responses are not looked at again.
AckTimeout(t) ==
    /\ "timeout" \in Faults
    /\ pc[t] = "wait_ack"
    /\ rx = <<>>
    /\ wanted_acks' = wanted_acks \ {Key(cur[t][1])}
    /\ Return(t, "op_timeout", "none")
    /\ UNCHANGED <<tx_seq_num, buff_occupied, req_queue, resp_queue, woken,
                   handler, net, async, history>>

-----------------------------------------------------------------------------
(* The receive side: handle_recv.  It holds the mutex from the moment it   *)
(* peeks at the request queue until the last request is popped: rx # <<>>. *)

HeadDiff == SeqNumDiff(Head(respnet).seq, Head(req_queue).seq)

\* An ACK without an outstanding request, or one from before the oldest.
IgnoreAck ==
    /\ rx = <<>>
    /\ respnet # <<>>
    /\ \/ req_queue = <<>>
       \/ req_queue # <<>> /\ HeadDiff < 0
    /\ respnet' = Tail(respnet)
    /\ UNCHANGED <<tx_seq_num, buff_occupied, req_queue, resp_queue,
                   wanted_acks, client, handler, reqnet, async, history>>

\* An ACK for the oldest request, or for a later one: the responses to the
\* requests before it were dropped.
NumDropped_OffByOne(diff) == diff + 1
NumDropped(diff) == diff

AcceptAck ==
    /\ rx = <<>>
    /\ respnet # <<>>
    /\ req_queue # <<>>
    /\ HeadDiff >= 0
    /\ respnet' = Tail(respnet)
    /\ rx' = <<Head(respnet)>>
    /\ skip' = NumDropped(HeadDiff)
    /\ UNCHANGED <<tx_seq_num, buff_occupied, req_queue, resp_queue,
                   wanted_acks, client, corrupted, reqnet, async, history>>

\* The credits of the oldest request, granted when it is popped.
Credits_Untimed(r) == 3
Credits(r) == GetPayloadSize(r)

\* _buff_free_cond.notify_one: one of the threads that sleep is woken up.
NotifyOne_Dropped == UNCHANGED woken
NotifyOne ==
    LET asleep == {t \in Threads : pc[t] = "wait_buff"} \ woken
    IN IF asleep = {} THEN UNCHANGED woken
       ELSE \E t \in asleep : woken' = woken \cup {t}

PopRequest ==
    /\ req_queue # <<>>
    /\ NotifyOne
    /\ buff_occupied' = buff_occupied - Credits(Head(req_queue))
    /\ req_queue' = Tail(req_queue)

\* A response enters the queue if and only if a client wanted it.
PushResponse(m, key) ==
    /\ resp_queue' = IF key \in wanted_acks THEN Append(resp_queue, m)
                     ELSE resp_queue
    /\ wanted_acks' = wanted_acks \ {key}

\* The fabricated response to a request whose response was dropped.
Fabricated(r) ==
    [id |-> r.id, seq |-> r.seq, op |-> r.op, addr |-> r.addr,
     status |-> "OKAY", dropped |-> TRUE]

ProcessIncorrectResponse ==
    /\ rx # <<>>
    /\ skip > 0
    /\ PopRequest
    /\ PushResponse(Fabricated(Head(req_queue)), Key(Head(req_queue)))
    /\ skip' = skip - 1
    /\ UNCHANGED <<tx_seq_num, pc, cur, outcome, rx, corrupted, net, async,
                   history>>

ProcessCorrectResponse ==
    /\ rx # <<>>
    /\ skip = 0
    /\ PopRequest
    /\ PushResponse(rx[1], Key(rx[1]))
    /\ rx' = <<>>
    /\ UNCHANGED <<tx_seq_num, pc, cur, outcome, skip, corrupted, net, async,
                   history>>

\* front() and pop_front() of an empty deque are undefined: the endpoint is
\* not followed any further (the mutex is never released).
PopPastEnd ==
    /\ rx # <<>>
    /\ req_queue = <<>>
    /\ ~corrupted
    /\ corrupted' = TRUE
    /\ UNCHANGED <<tx_seq_num, buff_occupied, req_queue, resp_queue,
                   wanted_acks, client, rx, skip, net, async, history>>

\* An async message is acknowledged without flow control: the response takes
\* the room that BuffNotFull keeps free.  If the send throws, the message is
\* dropped and the handler is not called.
HandleAsync ==
    /\ rx = <<>>
    /\ async_msgs > 0
    /\ async_msgs' = async_msgs - 1
    /\ async_acks' \in {async_acks + 1} \cup
                       (IF "send" \in Faults THEN {async_acks} ELSE {})
    /\ UNCHANGED <<tx_seq_num, buff_occupied, req_queue, resp_queue,
                   wanted_acks, client, handler, net, history>>

-----------------------------------------------------------------------------
(* The block and the link (external) *)

\* The block executes its oldest request and answers it.
BlockResponds ==
    /\ reqnet # <<>>
    /\ reqnet' = Tail(reqnet)
    /\ \E st \in (IF "status" \in Faults THEN Status ELSE {"OKAY"}) :
        LET r == Head(reqnet)
        IN  respnet' = Append(respnet,
                [id |-> r.id, seq |-> r.seq, op |-> r.op, addr |-> r.addr,
                 status |-> st, dropped |-> FALSE])
    /\ UNCHANGED <<tx_seq_num, buff_occupied, req_queue, resp_queue,
                   wanted_acks, client, handler, async, history>>

LoseRequest ==
    /\ "lose_req" \in Faults
    /\ reqnet # <<>>
    /\ reqnet' = Tail(reqnet)
    /\ UNCHANGED <<tx_seq_num, buff_occupied, req_queue, resp_queue,
                   wanted_acks, client, handler, respnet, async, history>>

LoseResponse ==
    /\ "lose_resp" \in Faults
    /\ respnet # <<>>
    /\ respnet' = Tail(respnet)
    /\ UNCHANGED <<tx_seq_num, buff_occupied, req_queue, resp_queue,
                   wanted_acks, client, handler, reqnet, async, history>>

DuplicateResponse ==
    /\ "dup_resp" \in Faults
    /\ respnet # <<>>
    /\ Len(respnet) < MaxNet
    /\ respnet' = <<Head(respnet)>> \o respnet
    /\ UNCHANGED <<tx_seq_num, buff_occupied, req_queue, resp_queue,
                   wanted_acks, client, handler, reqnet, async, history>>

\* The block never has more than MaxAsync async messages outstanding.
BlockSendsAsync ==
    /\ async_msgs + async_acks < MaxAsync
    /\ async_msgs' = async_msgs + 1
    /\ UNCHANGED <<tx_seq_num, buff_occupied, req_queue, resp_queue,
                   wanted_acks, client, handler, net, async_acks, history>>

BlockTakesAsyncAck ==
    /\ async_acks > 0
    /\ async_acks' = async_acks - 1
    /\ UNCHANGED <<tx_seq_num, buff_occupied, req_queue, resp_queue,
                   wanted_acks, client, handler, net, async_msgs, history>>

-----------------------------------------------------------------------------
Init ==
    /\ tx_seq_num = 0
    /\ buff_occupied = 0
    /\ req_queue = <<>>
    /\ resp_queue = <<>>
    /\ wanted_acks = {}
    /\ pc = [t \in Threads |-> "idle"]
    /\ cur = [t \in Threads |-> <<>>]
    /\ outcome = [t \in Threads |-> [kind |-> "none", got |-> "none"]]
    /\ woken = {}
    /\ rx = <<>>
    /\ skip = 0
    /\ corrupted = FALSE
    /\ reqnet = <<>>
    /\ respnet = <<>>
    /\ async_msgs = 0
    /\ async_acks = 0
    /\ nreqs = 0
    /\ words = 0

ThreadStep(t) ==
    \/ Poke32(t) \/ Peek32(t) \/ Sleep(t)
    \/ BuffFree(t) \/ BuffStillFull(t) \/ BuffTimeout(t)
    \/ AckReady(t) \/ AckTimeout(t)

HandleAck ==
    \/ IgnoreAck \/ AcceptAck
    \/ ProcessIncorrectResponse \/ ProcessCorrectResponse \/ PopPastEnd

HandleRecv == HandleAck \/ HandleAsync

Environment ==
    \/ BlockResponds \/ LoseRequest \/ LoseResponse \/ DuplicateResponse
    \/ BlockSendsAsync \/ BlockTakesAsyncAck

\* The bound on requests is used up, or the behaviour is undefined.
Stopped ==
    /\ corrupted \/ nreqs = MaxReqs
    /\ UNCHANGED vars

Next ==
    \/ \E t \in Threads : ThreadStep(t)
    \/ HandleRecv
    \/ Environment
    \/ Stopped

Spec == Init /\ [][Next]_vars

\* The receive thread polls for ever and takes packets in the order of their
\* arrival, so that neither kind starves the other; a thread that has been
\* notified or whose deadline has passed runs; the block answers what it
\* received.  Nothing else wakes a thread that waits for space.
FairSpec ==
    /\ Spec
    /\ WF_vars(HandleAck)
    /\ WF_vars(BlockResponds)
    /\ \A t \in Threads : /\ WF_vars(t \in woken /\ (BuffFree(t) \/ BuffStillFull(t)))
                          /\ WF_vars("timeout" \in Faults
                                     /\ (BuffFree(t) \/ BuffTimeout(t)))
                          /\ WF_vars(AckReady(t) \/ AckTimeout(t))

-----------------------------------------------------------------------------
(* Properties *)

Kinds == {"none", "sent", "ok", "op_failed", "op_seqerr", "op_timeout",
          "send_error"}

\* Every variable keeps its type; the handler holds a response only while it
\* runs, and a waiting thread holds the request it waits for.
TypeOK ==
    /\ tx_seq_num \in 0..SeqNums - 1
    /\ buff_occupied \in Int
    /\ req_queue \in Seq(Request)
    /\ resp_queue \in Seq(Response)
    /\ wanted_acks \subseteq (0..SeqNums - 1) \X Ops \X Addrs
    /\ pc \in [Threads -> {"idle", "wait_buff", "wait_ack"}]
    /\ cur \in [Threads -> Seq(Request)]
    /\ \A t \in Threads : Len(cur[t]) = IF pc[t] = "idle" THEN 0 ELSE 1
    /\ woken \subseteq {t \in Threads : pc[t] = "wait_buff"}
    /\ outcome \in [Threads -> [kind : Kinds, got : {"none", "own", "other"}]]
    /\ rx \in Seq(Response) /\ Len(rx) <= 1
    /\ skip \in Nat
    /\ corrupted \in BOOLEAN
    /\ reqnet \in Seq(Request)
    /\ respnet \in Seq(Response)
    /\ async_msgs \in Nat /\ async_acks \in Nat
    /\ nreqs \in Nat /\ words \in Nat

\* Flow-control accounting of send_request_packet and handle_recv: whatever
\* the link does (losses, duplicates, failing sends, expired deadlines, two
\* threads with the same sequence number), _buff_occupied is exactly the
\* size of the requests in _req_queue (the words queued since the oldest of
\* them) and never exceeds the capacity less the room for async responses.
BufferAccounting ==
    /\ buff_occupied = IF req_queue = <<>> THEN 0 ELSE words - req_queue[1].ofs
    /\ \A i \in 1..Len(req_queue) :
        req_queue[i].ofs + GetPayloadSize(req_queue[i])
            = IF i = Len(req_queue) THEN words ELSE req_queue[i + 1].ofs
    /\ req_queue # <<>> =>
        buff_occupied <= BuffCapacity - ASYNC_MESSAGE_SIZE * MaxAsync

WordsOf(s) == Total([i \in DOMAIN s |-> GetPayloadSize(s[i])])

\* The purpose of the flow control: the requests and the async responses
\* that can be in the block's buffer never exceed its capacity.
DeviceBufferBound ==
    WordsOf(reqnet) + ASYNC_MESSAGE_SIZE * async_acks <= BuffCapacity

\* A response that handle_recv accepts counts down to the very request it
\* answers: no request is credited in the place of another, and the request
\* queue is never popped past its end.
ResponseFindsItsRequest ==
    /\ ~corrupted
    /\ rx # <<>> => /\ skip < Len(req_queue)
                    /\ req_queue[skip + 1].id = rx[1].id

\* handle_recv ignores a response as reordered only if it was seen before:
\* the request that it answers is no longer outstanding.
IgnoredOnlyIfSeen ==
    rx = <<>> /\ respnet # <<>> /\ req_queue # <<>> /\ HeadDiff < 0 =>
        Head(respnet).id \notin Ids(req_queue)

\* wait_for_ack never returns, or throws because of, the response to another
\* call than its own.
OwnResponse == \A t \in Threads : outcome[t].got # "other"

\* No waiting thread is forgotten: the response it waits for is in the
\* response queue, or its request is outstanding and noted as wanting one.
WaiterNotForgotten ==
    \A t \in Threads : pc[t] = "wait_ack" =>
        \/ HasResponse(cur[t][1])
        \/ /\ Key(cur[t][1]) \in wanted_acks
           /\ cur[t][1].id \in Ids(req_queue)

\* Every call returns or throws: each time room is made one waiting thread is
\* notified, and none is forgotten when others are woken in its place.
CallsReturn ==
    \A t \in Threads : pc[t] # "idle" ~> (pc[t] = "idle" \/ corrupted)
=============================================================================

------------------------ MODULE CtrlportEndpoint_proofs ------------------------
(***************************************************************************)
(* Proofs about CtrlportEndpoint: typing, the flow-control accounting,     *)
(* what a link without losses gives (responses in order, no waiter lost),  *)
(* and what is left of it on a link that loses and duplicates packets, as  *)
(* long as no sequence number is used twice.                               *)
(***************************************************************************)
EXTENDS CtrlportEndpoint, Sums_proofs, SequenceTheorems, TLAPS

\* The payload size of a request: three words, five with a timestamp.
LEMMA PayloadSize ==
    ASSUME NEW r \in Request
    PROVE  GetPayloadSize(r) \in 3..5
BY DEF GetPayloadSize, Request

\* Sequence numbers stay in range when they are advanced.
LEMMA NextSeqNumType ==
    ASSUME NEW s \in 0..SeqNums - 1
    PROVE  NextSeqNum(s) \in 0..SeqNums - 1
BY ConstantsAssumption DEF NextSeqNum

\* What Tail does to the elements of a sequence.
LEMMA TailFacts ==
    ASSUME NEW S, NEW s \in Seq(S), s # <<>>
    PROVE  /\ Tail(s) \in Seq(S)
           /\ Len(s) \in Nat /\ Len(s) >= 1
           /\ Len(Tail(s)) = Len(s) - 1
           /\ \A i \in 1..Len(s) : s[i] \in S
           /\ \A i \in 1..Len(Tail(s)) : Tail(s)[i] = s[i + 1]
           /\ Head(s) = s[1]
           /\ Tail(s) = <<>> <=> Len(s) = 1
<1>1. /\ Tail(s) \in Seq(S)
      /\ Len(Tail(s)) = Len(s) - 1
      /\ \A i \in 1..Len(Tail(s)) : Tail(s)[i] = s[i + 1]
  BY HeadTailProperties
<1>2. Len(s) \in Nat /\ Len(s) >= 1 /\ \A i \in 1..Len(s) : s[i] \in S
  BY EmptySeq, LenProperties
<1>3. Head(s) = s[1]
  OBVIOUS
<1>4. Tail(s) = <<>> <=> Len(s) = 1
  BY <1>1, <1>2, EmptySeq
<1> QED
  BY <1>1, <1>2, <1>3, <1>4

\* Removing an element from a sequence gives a sequence over the same set.
LEMMA RemoveAtType ==
    ASSUME NEW S, NEW s \in Seq(S), NEW i \in DOMAIN s
    PROVE  RemoveAt(s, i) \in Seq(S)
<1>1. SubSeq(s, 1, i - 1) \in Seq(S)
  OBVIOUS
<1>2. SubSeq(s, i + 1, Len(s)) \in Seq(S)
  OBVIOUS
<1>3. RemoveAt(s, i) = SubSeq(s, 1, i - 1) \o SubSeq(s, i + 1, Len(s))
  BY DEF RemoveAt
<1> QED
  BY <1>1, <1>2, <1>3

\* A request assembled by a thread is a request.
LEMMA MakeRequestType ==
    ASSUME TypeOK, NEW t \in Threads, NEW c \in Calls[t]
    PROVE  MakeRequest(c) \in Request
<1>1. c.op \in Ops /\ c.addr \in Addrs /\ c.timed \in BOOLEAN /\ c.ack \in BOOLEAN
  BY ConstantsAssumption DEF ConstantsAssumption
<1>2. nreqs \in Nat /\ words \in Nat /\ tx_seq_num \in 0..SeqNums - 1
  BY DEF TypeOK
<1> QED
  BY <1>1, <1>2 DEF MakeRequest, Request

\* The threads that are notified are waiting.
WokenType == woken \subseteq {t \in Threads : pc[t] = "wait_buff"}

\* Returning from a call keeps the types of the client's variables.
LEMMA ReturnType ==
    ASSUME TypeOK, NEW t \in Threads, NEW k \in Kinds,
           NEW g \in {"none", "own", "other"}, Return(t, k, g)
    PROVE  /\ pc' \in [Threads -> {"idle", "wait_buff", "wait_ack"}]
           /\ cur' \in [Threads -> Seq(Request)]
           /\ \A u \in Threads : Len(cur'[u]) = IF pc'[u] = "idle" THEN 0 ELSE 1
           /\ outcome' \in [Threads -> [kind : Kinds,
                                        got : {"none", "own", "other"}]]
           /\ woken' = woken \ {t} => WokenType'
<1>1. pc' \in [Threads -> {"idle", "wait_buff", "wait_ack"}]
  BY DEF Return, TypeOK
<1>2. cur' \in [Threads -> Seq(Request)]
  BY DEF Return, TypeOK
<1>3. \A u \in Threads : Len(cur'[u]) = IF pc'[u] = "idle" THEN 0 ELSE 1
  BY DEF Return, TypeOK
<1>4. outcome' \in [Threads -> [kind : Kinds, got : {"none", "own", "other"}]]
  BY DEF Return, TypeOK
<1>5. woken' = woken \ {t} => WokenType'
  BY DEF Return, TypeOK, WokenType
<1> QED
  BY <1>1, <1>2, <1>3, <1>4, <1>5

WantedType == SUBSET ((0..SeqNums - 1) \X Ops \X Addrs)

\* Taking a response keeps the types of what it changes.
LEMMA TakeResponseType ==
    ASSUME TypeOK, NEW t \in Threads, NEW r \in Request,
           NEW W \in WantedType, TakeResponse(t, r, W)
    PROVE  /\ resp_queue' \in Seq(Response)
           /\ wanted_acks' \in WantedType
           /\ pc' \in [Threads -> {"idle", "wait_buff", "wait_ack"}]
           /\ cur' \in [Threads -> Seq(Request)]
           /\ \A u \in Threads : Len(cur'[u]) = IF pc'[u] = "idle" THEN 0 ELSE 1
           /\ outcome' \in [Threads -> [kind : Kinds,
                                        got : {"none", "own", "other"}]]
           /\ woken' = woken \ {t} => WokenType'
<1>1. PICK i \in DOMAIN resp_queue :
        /\ resp_queue' = RemoveAt(resp_queue, i)
        /\ Return(t, ValidateAck(resp_queue[i]),
                  IF resp_queue[i].id = r.id THEN "own" ELSE "other")
        /\ wanted_acks' = IF ValidateAck(resp_queue[i]) = "ok"
                            THEN W ELSE W \ {Key(r)}
  BY DEF TakeResponse
<1>2. resp_queue' \in Seq(Response)
  BY <1>1, RemoveAtType DEF TypeOK
<1>3. ValidateAck(resp_queue[i]) \in Kinds
  BY DEF ValidateAck, Kinds
<1>4. wanted_acks' \in WantedType
  BY <1>1 DEF WantedType
<1> QED
  BY <1>1, <1>2, <1>3, <1>4, ReturnType

\* The set of wanted ACKs with the key of a request added.
LEMMA WantedAcksType ==
    ASSUME TypeOK, NEW r \in Request
    PROVE  Wanted(r) \in WantedType
BY DEF Wanted, WantedType, Key, Request, TypeOK

\* The part of send_request_packet after the wait for space keeps the types.
LEMMA SendType ==
    ASSUME TypeOK, NEW t \in Threads, NEW r \in Request, nreqs' \in Nat,
           woken' = woken \ {t}, SendOkay(t, r) \/ SendThrows(t, r)
    PROVE  TypeOK'
<1>1. /\ req_queue' \in Seq(Request)
      /\ buff_occupied' \in Int
      /\ words' \in Nat
  <2>1. Enqueue(r)
    BY DEF SendOkay, SendThrows
  <2>2. GetPayloadSize(r) \in Nat
    BY PayloadSize
  <2>3. req_queue \in Seq(Request) /\ buff_occupied \in Int /\ words \in Nat
    BY DEF TypeOK
  <2>4. Append(req_queue, r) \in Seq(Request)
    BY <2>3
  <2> QED
    BY <2>1, <2>2, <2>3, <2>4 DEF Enqueue
<1>2. CASE SendOkay(t, r)
  <2>1. tx_seq_num' \in 0..SeqNums - 1 /\ reqnet' \in Seq(Request)
    BY <1>2, NextSeqNumType DEF SendOkay, TypeOK
  <2>2. UNCHANGED <<rx, skip, corrupted, respnet, async_msgs, async_acks>>
    BY <1>2 DEF SendOkay, handler, async
  <2>3. CASE ~r.ack
    <3>1. Return(t, "sent", "none") /\ UNCHANGED <<resp_queue, wanted_acks>>
      BY <1>2, <2>3 DEF SendOkay
    <3>2. "sent" \in Kinds
      BY DEF Kinds
    <3> QED
      BY <1>1, <2>1, <2>2, <3>1, <3>2, ReturnType DEF TypeOK, WokenType
  <2>4. CASE TakeResponse(t, r, Wanted(r))
    BY <1>1, <2>1, <2>2, <2>4, TakeResponseType, WantedAcksType
       DEF TypeOK, WantedType, WokenType
  <2>5. CASE /\ wanted_acks' = Wanted(r)
             /\ pc' = [pc EXCEPT ![t] = "wait_ack"]
             /\ cur' = [cur EXCEPT ![t] = <<r>>]
             /\ UNCHANGED <<resp_queue, outcome>>
    <3>1. cur' \in [Threads -> Seq(Request)]
      BY <2>5 DEF TypeOK
    <3>2. \A u \in Threads : Len(cur'[u]) = IF pc'[u] = "idle" THEN 0 ELSE 1
      BY <2>5 DEF TypeOK
    <3>3. WokenType'
      BY <2>5 DEF TypeOK, WokenType
    <3> QED
      BY <1>1, <2>1, <2>2, <2>5, <3>1, <3>2, <3>3, WantedAcksType
         DEF TypeOK, WantedType, WokenType
  <2> QED
    BY <1>2, <2>3, <2>4, <2>5 DEF SendOkay
<1>3. CASE SendThrows(t, r)
  <2>1. Return(t, "send_error", "none")
    BY <1>3 DEF SendThrows
  <2>2. "send_error" \in Kinds
    BY DEF Kinds
  <2>3. wanted_acks' \in WantedType
    BY <1>3, WantedAcksType DEF SendThrows, WantedType
  <2> QED
    BY <1>1, <1>3, <2>1, <2>2, <2>3, ReturnType
       DEF SendThrows, TypeOK, WantedType, WokenType, handler, net, async
<1> QED
  BY <1>2, <1>3

\* Every step of a client thread keeps the types.
LEMMA ThreadStepType ==
    ASSUME TypeOK, NEW t \in Threads, ThreadStep(t)
    PROVE  TypeOK'
<1>1. ASSUME NEW c \in Calls[t], SendRequestPacket(t, c)
      PROVE  TypeOK'
  <2>1. MakeRequest(c) \in Request
    BY MakeRequestType
  <2>2. nreqs' \in Nat
    BY <1>1 DEF SendRequestPacket, TypeOK
  <2>5. pc[t] = "idle" /\ woken' = woken /\ woken = woken \ {t}
    BY <1>1 DEF SendRequestPacket, TypeOK
  <2>3. CASE SendOkay(t, MakeRequest(c)) \/ SendThrows(t, MakeRequest(c))
    BY <2>1, <2>2, <2>3, <2>5, SendType
  <2>4. CASE /\ pc' = [pc EXCEPT ![t] = "wait_buff"]
             /\ cur' = [cur EXCEPT ![t] = <<MakeRequest(c)>>]
             /\ UNCHANGED <<tx_seq_num, buff_occupied, req_queue, resp_queue,
                            wanted_acks, outcome, handler, net, async, words>>
    <3>1. cur' \in [Threads -> Seq(Request)]
      BY <2>1, <2>4 DEF TypeOK
    <3>2. \A u \in Threads : Len(cur'[u]) = IF pc'[u] = "idle" THEN 0 ELSE 1
      BY <2>4 DEF TypeOK
    <3>3. WokenType'
      BY <2>4, <2>5 DEF TypeOK, WokenType
    <3> QED
      BY <2>2, <2>4, <3>1, <3>2, <3>3 DEF TypeOK, WokenType, handler, net, async
  <2> QED
    BY <1>1, <2>3, <2>4 DEF SendRequestPacket
<1>2. ASSUME pc[t] # "idle"
      PROVE  cur[t][1] \in Request
  BY <1>2 DEF TypeOK
<1>3. CASE BuffFree(t)
  <2> DEFINE r == [cur[t][1] EXCEPT !.ofs = words]
  <2>1. r \in Request
    <3>1. cur[t][1] \in Request /\ words \in Nat
      BY <1>2, <1>3 DEF BuffFree, TypeOK
    <3> QED
      BY <3>1 DEF Request
  <2>2. SendOkay(t, r) \/ SendThrows(t, r)
    BY <1>3 DEF BuffFree
  <2>3. nreqs' \in Nat /\ woken' = woken \ {t}
    BY <1>3 DEF BuffFree, TypeOK
  <2> QED
    BY <2>1, <2>2, <2>3, SendType
<1>4. "op_timeout" \in Kinds
  BY DEF Kinds
<1>5. CASE BuffTimeout(t)
  BY <1>4, <1>5, ReturnType
     DEF BuffTimeout, TypeOK, WokenType, handler, net, async, history
<1>8. CASE BuffStillFull(t)
  BY <1>8 DEF BuffStillFull, TypeOK, handler, net, async, history
<1>6. CASE AckReady(t)
  <2>1. TakeResponse(t, cur[t][1], wanted_acks) /\ cur[t][1] \in Request
    BY <1>2, <1>6 DEF AckReady
  <2>2. wanted_acks \in WantedType
    BY DEF TypeOK, WantedType
  <2>3. woken' = woken \ {t}
    BY <1>6 DEF AckReady, TypeOK
  <2> QED
    BY <1>6, <2>1, <2>2, <2>3, TakeResponseType
       DEF AckReady, TypeOK, WantedType, WokenType, handler, net, async, history
<1>7. CASE AckTimeout(t)
  <2>1. woken' = woken \ {t}
    BY <1>7 DEF AckTimeout, TypeOK
  <2> QED
    BY <1>4, <1>7, <2>1, ReturnType
       DEF AckTimeout, TypeOK, WokenType, handler, net, async, history
<1> QED
  BY <1>1, <1>3, <1>5, <1>6, <1>7, <1>8 DEF ThreadStep, Poke32, Peek32, Sleep

\* Every step of handle_recv keeps the types.
LEMMA HandleRecvType ==
    ASSUME TypeOK, HandleRecv
    PROVE  TypeOK'
<1>1. CASE IgnoreAck
  BY <1>1 DEF IgnoreAck, TypeOK, client, handler, async, history
<1>2. CASE AcceptAck
  <2>1. Head(respnet) \in Response /\ Head(req_queue) \in Request
    BY <1>2 DEF AcceptAck, TypeOK
  <2>2. HeadDiff \in Nat
    BY <1>2, <2>1 DEF AcceptAck, HeadDiff, SeqNumDiff, Response, Request
  <2> QED
    BY <1>2, <2>1, <2>2
       DEF AcceptAck, NumDropped, TypeOK, client, async, history
<1>9. ASSUME NotifyOne, UNCHANGED <<pc, cur, outcome>> PROVE WokenType'
  BY <1>9 DEF NotifyOne, WokenType, TypeOK
<1>3. ASSUME PopRequest
      PROVE  /\ req_queue' \in Seq(Request)
             /\ buff_occupied' \in Int
             /\ Head(req_queue) \in Request
  <2>1. Head(req_queue) \in Request
    BY <1>3 DEF PopRequest, TypeOK
  <2>2. GetPayloadSize(Head(req_queue)) \in Nat
    BY <2>1, PayloadSize
  <2> QED
    BY <1>3, <2>1, <2>2 DEF PopRequest, Credits, TypeOK
<1>4. ASSUME NEW m \in Response, NEW k, PushResponse(m, k)
      PROVE  resp_queue' \in Seq(Response) /\ wanted_acks' \in WantedType
  BY <1>4 DEF PushResponse, TypeOK, WantedType
<1>5. CASE ProcessIncorrectResponse
  <2>1. Fabricated(Head(req_queue)) \in Response
    BY <1>3, <1>5
       DEF ProcessIncorrectResponse, Fabricated, Request, Response, Status
  <2>2. skip' \in Nat
    BY <1>5 DEF ProcessIncorrectResponse, TypeOK
  <2>3. WokenType'
    BY <1>5, <1>9 DEF ProcessIncorrectResponse, PopRequest
  <2> QED
    BY <1>3, <1>4, <1>5, <2>1, <2>2, <2>3
       DEF ProcessIncorrectResponse, TypeOK, WantedType, WokenType, net, async,
           history
<1>6. CASE ProcessCorrectResponse
  <2>1. rx[1] \in Response
    BY <1>6 DEF ProcessCorrectResponse, TypeOK
  <2>2. WokenType'
    BY <1>6, <1>9 DEF ProcessCorrectResponse, PopRequest
  <2> QED
    BY <1>3, <1>4, <1>6, <2>1, <2>2
       DEF ProcessCorrectResponse, TypeOK, WantedType, WokenType, net, async,
           history
<1>7. CASE PopPastEnd
  BY <1>7 DEF PopPastEnd, TypeOK, client, net, async, history
<1>8. CASE HandleAsync
  BY <1>8 DEF HandleAsync, TypeOK, client, handler, net, history
<1> QED
  BY <1>1, <1>2, <1>5, <1>6, <1>7, <1>8 DEF HandleRecv, HandleAck

\* Every step of the block and the link keeps the types.
LEMMA EnvironmentType ==
    ASSUME TypeOK, Environment
    PROVE  TypeOK'
<1>1. CASE BlockResponds
  <2>1. Head(reqnet) \in Request
    BY <1>1 DEF BlockResponds, TypeOK
  <2>2. PICK st \in Status :
          respnet' = Append(respnet,
            [id |-> Head(reqnet).id, seq |-> Head(reqnet).seq,
             op |-> Head(reqnet).op, addr |-> Head(reqnet).addr,
             status |-> st, dropped |-> FALSE])
    BY <1>1 DEF BlockResponds, Status
  <2>3. [id |-> Head(reqnet).id, seq |-> Head(reqnet).seq,
         op |-> Head(reqnet).op, addr |-> Head(reqnet).addr,
         status |-> st, dropped |-> FALSE] \in Response
    BY <2>1 DEF Request, Response
  <2>4. respnet' \in Seq(Response)
    BY <2>2, <2>3, AppendProperties DEF TypeOK
  <2> QED
    BY <1>1, <2>4 DEF BlockResponds, TypeOK, client, handler, async, history
<1>2. CASE LoseRequest
  BY <1>2 DEF LoseRequest, TypeOK, client, handler, async, history
<1>3. CASE LoseResponse
  BY <1>3 DEF LoseResponse, TypeOK, client, handler, async, history
<1>4. CASE DuplicateResponse
  BY <1>4 DEF DuplicateResponse, TypeOK, client, handler, async, history
<1>5. CASE BlockSendsAsync
  BY <1>5 DEF BlockSendsAsync, TypeOK, client, handler, net, history
<1>6. CASE BlockTakesAsyncAck
  BY <1>6 DEF BlockTakesAsyncAck, TypeOK, client, handler, net, history
<1> QED
  BY <1>1, <1>2, <1>3, <1>4, <1>5, <1>6 DEF Environment

\* Type correctness: TypeOK holds in every reachable state of the endpoint,
\* for any number of threads, registers, sequence numbers and faults.
THEOREM TypeCorrect == Spec => []TypeOK
<1>1. Init => TypeOK
  <2> SUFFICES ASSUME Init PROVE TypeOK
    OBVIOUS
  <2>1. tx_seq_num \in 0..SeqNums - 1
    BY ConstantsAssumption DEF Init
  <2>2. /\ pc \in [Threads -> {"idle", "wait_buff", "wait_ack"}]
        /\ cur \in [Threads -> Seq(Request)]
        /\ \A t \in Threads : Len(cur[t]) = IF pc[t] = "idle" THEN 0 ELSE 1
    BY DEF Init
  <2>3. outcome \in [Threads -> [kind : Kinds, got : {"none", "own", "other"}]]
    BY DEF Init, Kinds
  <2>4. /\ req_queue \in Seq(Request) /\ reqnet \in Seq(Request)
        /\ resp_queue \in Seq(Response) /\ respnet \in Seq(Response)
        /\ rx \in Seq(Response) /\ Len(rx) <= 1
    BY EmptySeq DEF Init
  <2>5. /\ buff_occupied \in Int /\ skip \in Nat
        /\ async_msgs \in Nat /\ async_acks \in Nat
        /\ nreqs \in Nat /\ words \in Nat
    BY DEF Init
  <2>6. /\ wanted_acks \subseteq (0..SeqNums - 1) \X Ops \X Addrs
        /\ woken \subseteq {t \in Threads : pc[t] = "wait_buff"}
    BY DEF Init
  <2>7. corrupted \in BOOLEAN
    BY DEF Init
  <2> QED
    BY <2>1, <2>2, <2>3, <2>4, <2>5, <2>6, <2>7 DEF TypeOK
<1>2. TypeOK /\ [Next]_vars => TypeOK'
  <2> SUFFICES ASSUME TypeOK, [Next]_vars
               PROVE  TypeOK'
    OBVIOUS
  <2>1. CASE UNCHANGED vars
    BY <2>1 DEF vars, TypeOK, client, handler, net, async, history
  <2> QED
    BY <2>1, ThreadStepType, HandleRecvType, EnvironmentType
       DEF Next, Stopped
<1> QED
  BY <1>1, <1>2, PTL DEF Spec

\* Queueing a request that fits keeps the accounting: the new request starts
\* where the words queued so far end.
LEMMA EnqueueAccounting ==
    ASSUME TypeOK, BufferAccounting, NEW r \in Request, r.ofs = words,
           BuffNotFull(r), Enqueue(r)
    PROVE  BufferAccounting'
<1>1. GetPayloadSize(r) \in 3..5
  BY PayloadSize
<1>2. /\ req_queue' = Append(req_queue, r)
      /\ Len(req_queue') = Len(req_queue) + 1
      /\ req_queue'[Len(req_queue) + 1] = r
      /\ \A i \in 1..Len(req_queue) : req_queue'[i] = req_queue[i]
      /\ Len(req_queue) \in Nat
      /\ req_queue' # <<>>
  <2>1. req_queue \in Seq(Request) /\ req_queue' = Append(req_queue, r)
    BY DEF Enqueue, TypeOK
  <2> QED
    BY <2>1, AppendProperties, LenProperties
<1>3. buff_occupied' = words' - req_queue'[1].ofs
  <2>1. CASE req_queue = <<>>
    BY <1>1, <1>2, <2>1 DEF Enqueue, BufferAccounting, TypeOK
  <2>2. CASE req_queue # <<>>
    <3>1. req_queue'[1] = req_queue[1] /\ req_queue[1] \in Request
      BY <1>2, <2>2, TailFacts DEF TypeOK
    <3>2. req_queue[1].ofs \in Nat
      BY <3>1 DEF Request
    <3>3. /\ buff_occupied = words - req_queue[1].ofs
          /\ buff_occupied' = buff_occupied + GetPayloadSize(r)
          /\ words' = words + GetPayloadSize(r)
          /\ words \in Nat
      BY <2>2 DEF Enqueue, BufferAccounting, TypeOK
    <3> QED
      BY <1>1, <3>1, <3>2, <3>3
  <2> QED
    BY <2>1, <2>2
<1>4. ASSUME NEW i \in 1..Len(req_queue')
      PROVE  req_queue'[i].ofs + GetPayloadSize(req_queue'[i])
                = IF i = Len(req_queue') THEN words' ELSE req_queue'[i + 1].ofs
  <2>1. CASE i = Len(req_queue) + 1
    BY <1>2, <2>1 DEF Enqueue
  <2>2. CASE i = Len(req_queue)
    BY <1>2, <2>2 DEF BufferAccounting
  <2>3. CASE i < Len(req_queue)
    BY <1>2, <2>3 DEF BufferAccounting
  <2> QED
    BY <1>2, <2>1, <2>2, <2>3
<1>5. buff_occupied' <= BuffCapacity - ASYNC_MESSAGE_SIZE * MaxAsync
  BY DEF Enqueue, BuffNotFull
<1> QED
  BY <1>2, <1>3, <1>4, <1>5 DEF BufferAccounting, GetPayloadSize

\* Popping the oldest request returns exactly its credits.
LEMMA PopAccounting ==
    ASSUME TypeOK, BufferAccounting, PopRequest, words' = words
    PROVE  BufferAccounting'
<1> DEFINE q == req_queue
<1>1. /\ q \in Seq(Request) /\ q # <<>> /\ Len(q) \in Nat /\ Len(q) >= 1
      /\ q' = Tail(q)
      /\ Len(q') = Len(q) - 1
      /\ \A i \in 1..Len(q') : q'[i] = q[i + 1]
      /\ \A i \in 1..Len(q) : q[i] \in Request
      /\ Head(q) = q[1]
      /\ q' = <<>> <=> Len(q) = 1
  <2>1. q \in Seq(Request) /\ q # <<>> /\ q' = Tail(q)
    BY DEF PopRequest, TypeOK
  <2> HIDE DEF q
  <2> QED
    BY <2>1, TailFacts
<1>0. \A i \in 1..Len(q) : q[i].ofs \in Nat
  BY <1>1 DEF Request
<1>2. GetPayloadSize(q[1]) \in 3..5 /\ q[1].ofs \in Nat /\ words \in Nat
  BY <1>0, <1>1, PayloadSize DEF TypeOK
<1>3. buff_occupied' = buff_occupied - GetPayloadSize(q[1])
  BY <1>1 DEF PopRequest, Credits
<1>4. q[1].ofs + GetPayloadSize(q[1])
        = IF 1 = Len(q) THEN words ELSE q[2].ofs
  <2>1. 1 \in 1..Len(q)
    BY <1>1
  <2>2. q[1].ofs + GetPayloadSize(q[1])
            = IF 1 = Len(q) THEN words ELSE q[1 + 1].ofs
    BY <2>1 DEF BufferAccounting
  <2> QED
    BY <2>2
<1>5. buff_occupied' = IF q' = <<>> THEN 0 ELSE words' - q'[1].ofs
  <2>1. buff_occupied = words - q[1].ofs
    BY <1>1 DEF BufferAccounting
  <2>2. CASE Len(q) = 1
    <3>1. buff_occupied' = 0
      BY <1>2, <1>3, <1>4, <2>1, <2>2
    <3> QED
      BY <1>1, <2>2, <3>1
  <2>3. CASE Len(q) > 1
    <3>1. q' # <<>> /\ q'[1] = q[2] /\ q[2].ofs \in Nat
      <4>1. 1 \in 1..Len(q') /\ 2 \in 1..Len(q) /\ 1 + 1 = 2
        BY <1>1, <2>3
      <4>2. q'[1] = q[1 + 1]
        BY <1>1, <4>1
      <4> QED
        BY <1>0, <1>1, <2>3, <4>1, <4>2
    <3>2. q[2].ofs = q[1].ofs + GetPayloadSize(q[1])
      BY <1>4, <2>3
    <3>3. buff_occupied' = words - q[2].ofs
      BY <1>2, <1>3, <2>1, <3>2
    <3> QED
      BY <3>1, <3>3
  <2> QED
    BY <1>1, <2>2, <2>3
<1>6. ASSUME NEW i \in 1..Len(q')
      PROVE  q'[i].ofs + GetPayloadSize(q'[i])
                = IF i = Len(q') THEN words' ELSE q'[i + 1].ofs
  <2>1. i + 1 \in 1..Len(q) /\ q'[i] = q[i + 1]
    BY <1>1
  <2>2. q[i + 1].ofs + GetPayloadSize(q[i + 1])
            = IF i + 1 = Len(q) THEN words ELSE q[i + 2].ofs
    BY <2>1 DEF BufferAccounting
  <2>3. i + 1 = Len(q) <=> i = Len(q')
    BY <1>1
  <2>4. ASSUME i # Len(q')
        PROVE  q'[i + 1] = q[i + 2]
    <3>1. i + 1 \in 1..Len(q')
      <4>1. Len(q') \in Nat
        BY <1>1
      <4> QED
        BY <2>4, <4>1
    <3>2. q'[i + 1] = q[(i + 1) + 1]
      BY <1>1, <3>1
    <3> QED
      BY <3>2
  <2> QED
    BY <2>1, <2>2, <2>3, <2>4
<1>7. buff_occupied' <= BuffCapacity - ASYNC_MESSAGE_SIZE * MaxAsync
  <2>1. buff_occupied <= BuffCapacity - ASYNC_MESSAGE_SIZE * MaxAsync
    BY <1>1 DEF BufferAccounting
  <2>2. BuffCapacity - ASYNC_MESSAGE_SIZE * MaxAsync \in Int
    BY ConstantsAssumption DEF ASYNC_MESSAGE_SIZE
  <2> QED
    BY <1>2, <1>3, <2>1, <2>2 DEF TypeOK
<1> QED
  BY <1>5, <1>6, <1>7 DEF BufferAccounting, GetPayloadSize

\* The flow-control accounting of the endpoint is exact in every reachable
\* state, for any number of threads and whatever the link does: words are
\* counted once when a request is queued and returned once when it is popped,
\* and the room kept for async responses is never given to a request.
THEOREM FlowControlAccounting == Spec => []BufferAccounting
<1>1. Init => BufferAccounting
  BY DEF Init, BufferAccounting
<1>2. TypeOK /\ BufferAccounting /\ [Next]_vars => BufferAccounting'
  <2> SUFFICES ASSUME TypeOK, BufferAccounting, [Next]_vars
               PROVE  BufferAccounting'
    OBVIOUS
  <2>1. ASSUME UNCHANGED <<buff_occupied, req_queue, words>>
        PROVE  BufferAccounting'
    BY <2>1 DEF BufferAccounting, GetPayloadSize
  <2>2. ASSUME NEW t \in Threads, ThreadStep(t)
        PROVE  BufferAccounting'
    <3>1. ASSUME NEW c \in Calls[t], SendRequestPacket(t, c)
          PROVE  BufferAccounting'
      <4>1. /\ MakeRequest(c) \in Request
            /\ MakeRequest(c).ofs = words
        BY MakeRequestType DEF MakeRequest
      <4>2. CASE BuffNotFull(MakeRequest(c)) /\ Enqueue(MakeRequest(c))
        BY <4>1, <4>2, EnqueueAccounting
      <4> QED
        BY <2>1, <3>1, <4>2 DEF SendRequestPacket, SendOkay, SendThrows
    <3>2. CASE BuffFree(t)
      <4> DEFINE r == [cur[t][1] EXCEPT !.ofs = words]
      <4>1. cur[t][1] \in Request /\ words \in Nat
        <5>1. cur[t] \in Seq(Request) /\ Len(cur[t]) = 1
          BY <2>2, <3>2 DEF BuffFree, TypeOK
        <5>2. cur[t][1] \in Request
          BY <5>1, LenProperties
        <5> QED
          BY <5>2 DEF TypeOK
      <4>2. r \in Request /\ r.ofs = words /\ r.timed = cur[t][1].timed
        BY <4>1 DEF Request
      <4>3. BuffNotFull(r)
        BY <3>2, <4>2 DEF BuffFree, BuffNotFull, GetPayloadSize
      <4>4. Enqueue(r)
        BY <3>2 DEF BuffFree, SendOkay, SendThrows
      <4> QED
        BY <4>2, <4>3, <4>4, EnqueueAccounting
    <3>3. CASE BuffStillFull(t) \/ BuffTimeout(t) \/ AckReady(t) \/ AckTimeout(t)
      BY <2>1, <3>3 DEF BuffStillFull, BuffTimeout, AckReady, AckTimeout, history
    <3> QED
      BY <2>2, <3>1, <3>2, <3>3 DEF ThreadStep, Poke32, Peek32, Sleep
  <2>3. CASE ProcessIncorrectResponse \/ ProcessCorrectResponse
    BY <2>3, PopAccounting
       DEF ProcessIncorrectResponse, ProcessCorrectResponse, history
  <2>4. CASE IgnoreAck \/ AcceptAck \/ PopPastEnd \/ HandleAsync
    BY <2>1, <2>4 DEF IgnoreAck, AcceptAck, PopPastEnd, HandleAsync, history
  <2>5. CASE Environment
    BY <2>1, <2>5
       DEF Environment, BlockResponds, LoseRequest, LoseResponse,
           DuplicateResponse, BlockSendsAsync, BlockTakesAsyncAck, history
  <2>6. CASE UNCHANGED vars
    BY <2>1, <2>6 DEF vars, history
  <2> QED
    BY <2>2, <2>3, <2>4, <2>5, <2>6 DEF Next, HandleRecv, HandleAck, Stopped
<1> QED
  BY <1>1, <1>2, TypeCorrect, PTL DEF Spec
-----------------------------------------------------------------------------
(* A link that delivers every packet once *)

\* Calls may fail and time out, but nothing is lost, duplicated or not sent.
Reliable == Faults \subseteq {"status", "timeout"}

Answers(m, r) == m.id = r.id /\ Key(m) = Key(r)

\* The requests that wait for their response, the oldest first, are those whose
\* response the handler has, those whose response is on its way, and those on
\* their way to the block.
InOrder ==
    /\ Len(req_queue) = Len(rx) + Len(respnet) + Len(reqnet)
    /\ \A i \in 1 .. Len(rx) : Answers(rx[i], req_queue[i])
    /\ \A i \in 1 .. Len(respnet) : Answers(respnet[i], req_queue[i + Len(rx)])
    /\ \A i \in 1 .. Len(reqnet) : reqnet[i] = req_queue[i + Len(rx) + Len(respnet)]
    /\ skip = 0 /\ ~corrupted

\* Appending adds one element at the end and leaves the others in their places.
LEMMA AppendFacts ==
    ASSUME NEW S, NEW seq \in Seq(S), NEW elt \in S
    PROVE  /\ DOMAIN seq \subseteq DOMAIN Append(seq, elt)
           /\ \A i \in DOMAIN seq : Append(seq, elt)[i] = seq[i]
           /\ Len(seq) + 1 \in DOMAIN Append(seq, elt)
           /\ Append(seq, elt)[Len(seq) + 1] = elt
<1>1. Len(seq) \in Nat /\ DOMAIN seq = 1 .. Len(seq)
  BY LenProperties
<1>2. DOMAIN Append(seq, elt) = 1 .. Len(seq) + 1
  BY <1>1, AppendProperties, LenProperties
<1> QED
  BY <1>1, <1>2, AppendProperties

\* The lengths of the four queues are numbers, and only their elements count.
LEMMA Lengths ==
    ASSUME TypeOK
    PROVE  /\ Len(req_queue) \in Nat /\ Len(rx) \in {0, 1}
           /\ Len(respnet) \in Nat /\ Len(reqnet) \in Nat
<1>1. Len(rx) \in Nat /\ Len(rx) <= 1
  BY LenProperties DEF TypeOK
<1>2. /\ req_queue \in Seq(Request) /\ respnet \in Seq(Response)
      /\ reqnet \in Seq(Request)
  BY DEF TypeOK
<1>3. Len(req_queue) \in Nat /\ Len(respnet) \in Nat /\ Len(reqnet) \in Nat
  BY <1>2
<1>4. ASSUME NEW n \in Nat, n <= 1 PROVE n \in {0, 1}
  BY <1>4
<1> QED
  BY <1>1, <1>3, <1>4

\* A response that arrives answers the oldest request.
LEMMA ArrivesInOrder ==
    ASSUME TypeOK, InOrder, rx = <<>>, respnet # <<>>
    PROVE  /\ req_queue # <<>> /\ HeadDiff = 0
           /\ Answers(Head(respnet), Head(req_queue))
<1>1. Len(respnet) >= 1 /\ Head(respnet) = respnet[1] /\ Len(rx) = 0
  BY TailFacts DEF TypeOK
<1>2. req_queue # <<>>
  BY <1>1, Lengths DEF InOrder
<1>3. Head(req_queue) = req_queue[1] /\ req_queue[1] \in Request /\ Head(respnet) \in Response
  BY <1>1, <1>2, TailFacts DEF TypeOK
<1>4. Answers(Head(respnet), Head(req_queue))
  <2>1. 1 \in 1 .. Len(respnet) /\ 1 + Len(rx) = 1
    BY <1>1, Lengths
  <2> QED
    BY <1>1, <1>3, <2>1 DEF InOrder
<1>5. Head(respnet).seq = Head(req_queue).seq /\ Head(req_queue).seq \in Int
  BY <1>3, <1>4 DEF Answers, Key, Request
<1>6. HeadDiff = 0
  BY <1>5 DEF HeadDiff, SeqNumDiff
<1> QED
  BY <1>2, <1>4, <1>6

\* A request is queued and handed to the link in one step.
LEMMA SendInOrder ==
    ASSUME TypeOK, InOrder, NEW r \in Request, NEW t \in Threads, SendOkay(t, r)
    PROVE  InOrder'
<1>1. /\ req_queue' = Append(req_queue, r) /\ reqnet' = Append(reqnet, r)
      /\ UNCHANGED <<rx, skip, corrupted, respnet>>
  BY DEF SendOkay, Enqueue, handler
<1>2. /\ Len(req_queue') = Len(req_queue) + 1 /\ req_queue'[Len(req_queue) + 1] = r
      /\ \A i \in 1 .. Len(req_queue) : req_queue'[i] = req_queue[i]
  BY <1>1, AppendProperties, LenProperties DEF TypeOK
<1>3. /\ Len(reqnet') = Len(reqnet) + 1 /\ reqnet'[Len(reqnet) + 1] = r
      /\ \A i \in 1 .. Len(reqnet) : reqnet'[i] = reqnet[i]
  BY <1>1, AppendProperties, LenProperties DEF TypeOK
<1>4. Len(req_queue') = Len(rx') + Len(respnet') + Len(reqnet')
  BY <1>1, <1>2, <1>3, Lengths DEF InOrder
<1>5. ASSUME NEW i \in 1 .. Len(rx)
      PROVE  Answers(rx'[i], req_queue'[i])
  BY <1>1, <1>2, Lengths DEF InOrder, Answers, Key
<1>6. ASSUME NEW i \in 1 .. Len(respnet)
      PROVE  Answers(respnet'[i], req_queue'[i + Len(rx)])
  <2>1. i + Len(rx) \in 1 .. Len(req_queue)
    BY Lengths DEF InOrder
  <2> QED
    BY <1>1, <1>2, <2>1 DEF InOrder, Answers, Key
<1>7. ASSUME NEW i \in 1 .. Len(reqnet')
      PROVE  reqnet'[i] = req_queue'[i + Len(rx) + Len(respnet)]
  <2>1. CASE i = Len(reqnet) + 1
    BY <1>2, <1>3, <2>1, Lengths DEF InOrder
  <2>2. CASE i # Len(reqnet) + 1
    <3>1. i \in 1 .. Len(reqnet) /\ i + Len(rx) + Len(respnet) \in 1 .. Len(req_queue)
      BY <1>3, <2>2, Lengths DEF InOrder
    <3> QED
      BY <1>2, <1>3, <3>1 DEF InOrder
  <2> QED
    BY <2>1, <2>2
<1> QED
  BY <1>1, <1>4, <1>5, <1>6, <1>7 DEF InOrder, Answers, Key

\* The block answers the oldest request it has.
LEMMA AnswerInOrder ==
    ASSUME TypeOK, InOrder, BlockResponds
    PROVE  InOrder'
<1>1. reqnet # <<>> /\ reqnet' = Tail(reqnet) /\ UNCHANGED <<rx, skip, corrupted, req_queue>>
  BY DEF BlockResponds, handler
<1>2. PICK st : respnet' = Append(respnet,
            [id |-> Head(reqnet).id, seq |-> Head(reqnet).seq,
             op |-> Head(reqnet).op, addr |-> Head(reqnet).addr,
             status |-> st, dropped |-> FALSE]) /\ st \in Status
  BY DEF BlockResponds, Status
<1>3. /\ Len(reqnet') = Len(reqnet) - 1 /\ Head(reqnet) = reqnet[1] /\ Len(reqnet) >= 1
      /\ \A i \in 1 .. Len(reqnet') : reqnet'[i] = reqnet[i + 1]
      /\ reqnet[1] \in Request
  BY <1>1, TailFacts DEF TypeOK
<1> DEFINE m == [id |-> reqnet[1].id, seq |-> reqnet[1].seq, op |-> reqnet[1].op,
                 addr |-> reqnet[1].addr, status |-> st, dropped |-> FALSE]
<1>4. m \in Response /\ Answers(m, reqnet[1])
  BY <1>2, <1>3 DEF Response, Request, Answers, Key
<1>5. respnet' = Append(respnet, m)
  BY <1>2, <1>3
<1> HIDE DEF m
<1>6. /\ Len(respnet') = Len(respnet) + 1 /\ respnet'[Len(respnet) + 1] = m
      /\ \A i \in 1 .. Len(respnet) : respnet'[i] = respnet[i]
  BY <1>4, <1>5, AppendProperties, LenProperties DEF TypeOK
<1>7. Len(req_queue') = Len(rx') + Len(respnet') + Len(reqnet')
  <2>1. Len(req_queue) = Len(rx) + Len(respnet) + Len(reqnet)
    BY DEF InOrder
  <2>2. req_queue' = req_queue /\ rx' = rx
    BY <1>1
  <2>3. Len(respnet') = Len(respnet) + 1 /\ Len(reqnet') = Len(reqnet) - 1
    BY <1>3, <1>6
  <2> QED
    BY <2>1, <2>2, <2>3, Lengths
<1>8. ASSUME NEW i \in 1 .. Len(respnet')
      PROVE  Answers(respnet'[i], req_queue[i + Len(rx)])
  <2>1. CASE i = Len(respnet) + 1
    <3>1. 1 \in 1 .. Len(reqnet) /\ i + Len(rx) = 1 + Len(rx) + Len(respnet)
      BY <1>3, <2>1, Lengths
    <3>2. reqnet[1] = req_queue[i + Len(rx)]
      BY <3>1 DEF InOrder
    <3> QED
      BY <1>4, <1>6, <2>1, <3>2
  <2>2. CASE i # Len(respnet) + 1
    <3>1. i \in 1 .. Len(respnet)
      BY <1>6, <2>2, Lengths
    <3> QED
      BY <1>6, <3>1 DEF InOrder
  <2> QED
    BY <2>1, <2>2
<1>9. ASSUME NEW i \in 1 .. Len(reqnet')
      PROVE  reqnet'[i] = req_queue[i + Len(rx) + Len(respnet')]
  <2>1. i + 1 \in 1 .. Len(reqnet)
        /\ (i + 1) + Len(rx) + Len(respnet) = i + Len(rx) + Len(respnet')
    BY <1>3, <1>6, Lengths
  <2> QED
    BY <1>3, <2>1 DEF InOrder
<1> QED
  BY <1>1, <1>7, <1>8, <1>9 DEF InOrder, Answers, Key

\* The handler takes the oldest response, for the oldest request.
LEMMA AcceptInOrder ==
    ASSUME TypeOK, InOrder, AcceptAck
    PROVE  InOrder'
<1>1. /\ rx = <<>> /\ respnet # <<>> /\ respnet' = Tail(respnet)
      /\ rx' = <<Head(respnet)>> /\ skip' = HeadDiff
      /\ UNCHANGED <<corrupted, reqnet, req_queue>>
  BY DEF AcceptAck, NumDropped
<1>2. /\ Len(respnet') = Len(respnet) - 1 /\ Len(rx) = 0 /\ Len(rx') = 1
      /\ rx'[1] = Head(respnet) /\ Len(respnet) >= 1
      /\ \A i \in 1 .. Len(respnet') : respnet'[i] = respnet[i + 1]
  BY <1>1, TailFacts DEF TypeOK
<1>3. skip' = 0 /\ Answers(rx'[1], req_queue[1])
  BY <1>1, <1>2, ArrivesInOrder, TailFacts DEF TypeOK
<1>4. Len(req_queue') = Len(rx') + Len(respnet') + Len(reqnet')
  BY <1>1, <1>2, Lengths DEF InOrder
<1>5. ASSUME NEW i \in 1 .. Len(respnet')
      PROVE  Answers(respnet'[i], req_queue[i + Len(rx')])
  <2>1. i + 1 \in 1 .. Len(respnet) /\ (i + 1) + Len(rx) = i + Len(rx')
    BY <1>2, Lengths
  <2> QED
    BY <1>2, <2>1 DEF InOrder
<1>6. ASSUME NEW i \in 1 .. Len(reqnet)
      PROVE  reqnet[i] = req_queue[i + Len(rx') + Len(respnet')]
  <2>1. i + Len(rx) + Len(respnet) = i + Len(rx') + Len(respnet')
    BY <1>2, Lengths
  <2> QED
    BY <2>1 DEF InOrder
<1> QED
  BY <1>1, <1>2, <1>3, <1>4, <1>5, <1>6 DEF InOrder, Answers, Key

\* With its response the oldest request goes.
LEMMA PopInOrder ==
    ASSUME TypeOK, InOrder, ProcessCorrectResponse
    PROVE  InOrder'
<1>1. /\ req_queue # <<>> /\ req_queue' = Tail(req_queue) /\ rx # <<>> /\ rx' = <<>>
      /\ UNCHANGED <<skip, corrupted, reqnet, respnet>>
  BY DEF ProcessCorrectResponse, PopRequest, net
<1>2. /\ Len(req_queue') = Len(req_queue) - 1 /\ Len(rx) = 1 /\ Len(rx') = 0
      /\ \A i \in 1 .. Len(req_queue') : req_queue'[i] = req_queue[i + 1]
  BY <1>1, TailFacts, Lengths DEF TypeOK
<1>3. Len(req_queue') = Len(rx') + Len(respnet') + Len(reqnet')
  BY <1>1, <1>2, Lengths DEF InOrder
<1>4. ASSUME NEW i \in 1 .. Len(respnet)
      PROVE  Answers(respnet[i], req_queue'[i + Len(rx')])
  <2>1. i + Len(rx') \in 1 .. Len(req_queue') /\ i + Len(rx') = i /\ i + Len(rx) = i + 1
    BY <1>2, Lengths DEF InOrder
  <2> QED
    BY <1>2, <2>1 DEF InOrder
<1>5. ASSUME NEW i \in 1 .. Len(reqnet)
      PROVE  reqnet[i] = req_queue'[i + Len(rx') + Len(respnet)]
  <2>1. /\ i + Len(rx') + Len(respnet) \in 1 .. Len(req_queue')
        /\ (i + Len(rx') + Len(respnet)) + 1 = i + Len(rx) + Len(respnet)
    BY <1>2, Lengths DEF InOrder
  <2> QED
    BY <1>2, <2>1 DEF InOrder
<1> QED
  BY <1>1, <1>2, <1>3, <1>4, <1>5 DEF InOrder, Answers, Key

LEMMA NextInOrder ==
    ASSUME Reliable, TypeOK, InOrder, [Next]_vars
    PROVE  InOrder'
<1>1. ASSUME UNCHANGED <<req_queue, rx, skip, corrupted, net>>
      PROVE  InOrder'
  BY <1>1 DEF InOrder, Answers, Key, net
<1>2. ASSUME NEW t \in Threads, ThreadStep(t)
      PROVE  InOrder'
  <2>1. ASSUME NEW c \in Calls[t], SendRequestPacket(t, c)
        PROVE  InOrder'
    BY <1>1, <2>1, MakeRequestType, SendInOrder
       DEF SendRequestPacket, SendThrows, Reliable, handler
  <2>2. CASE BuffFree(t)
    <3>1. cur[t][1] \in Request /\ words \in Nat
      <4>1. cur[t] \in Seq(Request) /\ Len(cur[t]) = 1
        BY <2>2 DEF BuffFree, TypeOK
      <4>2. cur[t][1] \in Request
        BY <4>1, LenProperties
      <4> QED
        BY <4>2 DEF TypeOK
    <3>2. [cur[t][1] EXCEPT !.ofs = words] \in Request
      BY <3>1 DEF Request
    <3> QED
      BY <2>2, <3>2, SendInOrder DEF BuffFree, SendThrows, Reliable
  <2>3. CASE BuffStillFull(t) \/ BuffTimeout(t) \/ AckReady(t) \/ AckTimeout(t)
    BY <1>1, <2>3 DEF BuffStillFull, BuffTimeout, AckReady, AckTimeout, handler
  <2> QED
    BY <1>2, <2>1, <2>2, <2>3 DEF ThreadStep, Poke32, Peek32, Sleep
<1>3. ~IgnoreAck
  BY ArrivesInOrder DEF IgnoreAck
<1>4. ~ProcessIncorrectResponse
  BY DEF ProcessIncorrectResponse, InOrder
<1>5. ~PopPastEnd
  <2>1. rx # <<>> => Len(rx) = 1
    BY Lengths DEF TypeOK
  <2>2. req_queue = <<>> => Len(req_queue) = 0
    OBVIOUS
  <2> QED
    BY <2>1, <2>2, Lengths DEF PopPastEnd, InOrder
<1>6. CASE HandleAsync
  BY <1>1, <1>6 DEF HandleAsync, handler
<1>7. CASE Environment
  <2>1. ~LoseRequest /\ ~LoseResponse /\ ~DuplicateResponse
    BY DEF LoseRequest, LoseResponse, DuplicateResponse, Reliable
  <2> QED
    BY <1>1, <1>7, <2>1, AnswerInOrder DEF Environment, BlockSendsAsync, BlockTakesAsyncAck, handler
<1>8. CASE UNCHANGED vars
  BY <1>1, <1>8 DEF vars, handler
<1> QED
  BY <1>2, <1>3, <1>4, <1>5, <1>6, <1>7, <1>8, AcceptInOrder, PopInOrder
     DEF Next, HandleRecv, HandleAck, Stopped

\* Unless packets are lost or duplicated, every response finds its request,
\* also when threads make requests with the same sequence number, sequence
\* numbers are used again, and calls time out.
THEOREM ReliableMatching ==
    ASSUME Reliable
    PROVE  Spec => []ResponseFindsItsRequest
<1>1. Init => InOrder
  BY DEF Init, InOrder
<1>2. TypeOK /\ InOrder /\ [Next]_vars => InOrder'
  BY NextInOrder
<1>3. TypeOK /\ InOrder => ResponseFindsItsRequest
  <2> SUFFICES ASSUME TypeOK, InOrder PROVE ResponseFindsItsRequest
    OBVIOUS
  <2>1. ASSUME rx # <<>>
        PROVE  skip < Len(req_queue) /\ req_queue[skip + 1].id = rx[1].id
    <3>1. Len(rx) = 1
      BY <2>1, Lengths DEF TypeOK
    <3> QED
      BY <3>1, Lengths DEF InOrder, Answers
  <2> QED
    BY <2>1 DEF InOrder, ResponseFindsItsRequest
<1> QED
  BY <1>1, <1>2, <1>3, TypeCorrect, PTL DEF Spec
-----------------------------------------------------------------------------
(* The block's buffer *)

\* The block has no more async messages outstanding than it announced.
AsyncBound == async_msgs + async_acks <= MaxAsync

Sizes(s) == [i \in DOMAIN s |-> GetPayloadSize(s[i])]

LEMMA SizesType ==
    ASSUME NEW s \in Seq(Request)
    PROVE  /\ Sizes(s) \in Seq(Nat) /\ Len(Sizes(s)) = Len(s) /\ Len(s) \in Nat
           /\ \A i \in 1 .. Len(s) : Sizes(s)[i] = GetPayloadSize(s[i]) /\ s[i] \in Request
           /\ WordsOf(s) = RunningSums(Sizes(s))[Len(s)]
<1>1. Len(s) \in Nat /\ DOMAIN s = 1 .. Len(s) /\ \A i \in 1 .. Len(s) : s[i] \in Request
  BY LenProperties
<1>2. \A i \in 1 .. Len(s) : GetPayloadSize(s[i]) \in Nat
  BY <1>1, PayloadSize
<1>3. Sizes(s) = [i \in 1 .. Len(s) |-> GetPayloadSize(s[i])]
  BY <1>1 DEF Sizes
<1>4. Sizes(s) \in Seq(Nat) /\ Len(Sizes(s)) = Len(s)
  BY <1>1, <1>2, <1>3
<1>5. WordsOf(s) = RunningSums(Sizes(s))[Len(s)]
  BY <1>4 DEF WordsOf, Sizes, Total
<1> QED
  BY <1>1, <1>3, <1>4, <1>5

\* The occupied words are the words of the outstanding requests.
LEMMA QueuedWords ==
    ASSUME TypeOK, BufferAccounting
    PROVE  WordsOf(req_queue) = buff_occupied
<1> DEFINE q == req_queue
           s == Sizes(q)
           ends == [i \in 0 .. Len(q) |-> IF i = Len(q) THEN words ELSE q[i + 1].ofs]
<1>1. q \in Seq(Request) /\ words \in Nat
  BY DEF TypeOK
<1>2. /\ s \in Seq(Nat) /\ Len(s) = Len(q) /\ Len(q) \in Nat
      /\ \A i \in 1 .. Len(q) : s[i] = GetPayloadSize(q[i]) /\ q[i] \in Request
      /\ WordsOf(q) = RunningSums(s)[Len(q)]
  BY <1>1, SizesType
<1>3. ASSUME NEW i \in 1 .. Len(q)
      PROVE  ends[i - 1] \in Nat /\ ends[i] = ends[i - 1] + s[i]
  <2>1. i - 1 \in 0 .. Len(q) /\ i \in 0 .. Len(q) /\ i - 1 # Len(q) /\ (i - 1) + 1 = i
    BY <1>2
  <2>2. ends[i - 1] = q[i].ofs /\ ends[i] = IF i = Len(q) THEN words ELSE q[i + 1].ofs
    BY <2>1
  <2>3. q[i].ofs + s[i] = IF i = Len(q) THEN words ELSE q[i + 1].ofs
    BY <1>2 DEF BufferAccounting
  <2>4. q[i].ofs \in Nat
    BY <1>2 DEF Request
  <2> QED
    BY <2>2, <2>3, <2>4
<1>4. ends[Len(q)] = words
  BY <1>2
<1> HIDE DEF ends, s
<1> DEFINE S == {i \in 0 .. Len(q) : ends[i] = ends[0] + RunningSums(s)[i]}
<1>5. ends[0] \in Nat
  <2>1. CASE Len(q) = 0
    BY <1>1, <1>4, <2>1
  <2>2. CASE Len(q) # 0
    <3>1. 1 \in 1 .. Len(q) /\ 1 - 1 = 0
      BY <1>2, <2>2
    <3> QED
      BY <1>3, <3>1
  <2> QED
    BY <2>1, <2>2
<1>6. 0 \in S
  BY <1>2, <1>5, SumsAt
<1>7. ASSUME NEW n \in 0 .. Len(q) - 1, n \in S PROVE n + 1 \in S
  <2>1. n + 1 \in 1 .. Len(q) /\ (n + 1) - 1 = n /\ n + 1 \in 0 .. Len(q) /\ n \in 0 .. Len(q)
    BY <1>2
  <2>2. ends[n + 1] = ends[n] + s[n + 1]
    BY <1>3, <2>1
  <2>3. RunningSums(s)[n + 1] = RunningSums(s)[n] + s[n + 1]
    BY <1>2, <2>1, SumsAt
  <2>4. RunningSums(s)[n] \in Nat /\ s[n + 1] \in Nat
    BY <1>2, <2>1, SumsAt
  <2>5. ends[n] = ends[0] + RunningSums(s)[n]
    BY <1>7
  <2>6. ends[n + 1] = ends[0] + RunningSums(s)[n + 1]
    BY <1>5, <2>2, <2>3, <2>4, <2>5
  <2> QED
    BY <2>1, <2>6
<1>8. Len(q) \in S
  <2>1. 0 .. Len(q) \subseteq S
    <3> HIDE DEF S
    <3> QED
      BY <1>2, <1>6, <1>7, UpTo
  <2> QED
    BY <1>2, <2>1
<1>9. words = ends[0] + WordsOf(q) /\ WordsOf(q) \in Nat
  <2>1. RunningSums(s)[Len(q)] \in Nat
    <3>1. Len(q) \in 0 .. Len(s)
      BY <1>2
    <3> QED
      BY <1>2, <3>1, SumsAt
  <2> QED
    BY <1>2, <1>4, <1>8, <2>1
<1>10. CASE q = <<>>
  <2>1. Len(q) = 0
    BY <1>10
  <2>2. WordsOf(q) = 0
    BY <1>2, <2>1, SumsAt
  <2> QED
    BY <1>10, <2>2 DEF BufferAccounting
<1>11. CASE q # <<>>
  <2>1. Len(q) # 0
    BY <1>1, <1>11
  <2>2. ends[0] = q[1].ofs
    <3>1. 0 \in 0 .. Len(q) /\ 0 # Len(q) /\ 0 + 1 = 1
      BY <1>2, <2>1
    <3> QED
      BY <3>1 DEF ends
  <2>3. buff_occupied = words - q[1].ofs
    BY <1>11 DEF BufferAccounting
  <2> QED
    BY <1>5, <1>9, <2>2, <2>3
<1> QED
  BY <1>10, <1>11

\* The requests on their way to the block are no larger than all of them.
LEMMA WordsOnTheWay ==
    ASSUME TypeOK, InOrder
    PROVE  /\ WordsOf(reqnet) \in Nat /\ WordsOf(req_queue) \in Nat
           /\ WordsOf(reqnet) <= WordsOf(req_queue)
           /\ reqnet = <<>> => WordsOf(reqnet) = 0
           /\ req_queue = <<>> => reqnet = <<>>
<1> DEFINE s == Sizes(req_queue)
           t == Sizes(reqnet)
           k == Len(rx) + Len(respnet)
           n == Len(reqnet)
<1>1. /\ s \in Seq(Nat) /\ Len(s) = Len(req_queue)
      /\ \A i \in 1 .. Len(req_queue) : s[i] = GetPayloadSize(req_queue[i])
      /\ WordsOf(req_queue) = RunningSums(s)[Len(req_queue)]
  BY SizesType DEF TypeOK
<1>2. /\ t \in Seq(Nat) /\ Len(t) = n
      /\ \A i \in 1 .. n : t[i] = GetPayloadSize(reqnet[i])
      /\ WordsOf(reqnet) = RunningSums(t)[n]
  BY SizesType DEF TypeOK
<1>3. k \in Nat /\ n \in Nat /\ Len(req_queue) = k + n
  BY Lengths DEF InOrder
<1>4. ASSUME NEW i \in 1 .. n PROVE t[i] = s[k + i]
  <2>1. i + Len(rx) + Len(respnet) = k + i /\ k + i \in 1 .. Len(req_queue)
    BY <1>3, Lengths
  <2>2. reqnet[i] = req_queue[k + i]
    BY <2>1 DEF InOrder
  <2> HIDE DEF s, t, k
  <2> QED
    BY <1>1, <1>2, <2>1, <2>2
<1> HIDE DEF s, t, k
<1>5. RunningSums(s)[k + n] = RunningSums(s)[k] + RunningSums(t)[n]
  <2>1. n \in 0 .. Len(t) /\ k + n <= Len(s)
    BY <1>1, <1>2, <1>3
  <2> HIDE DEF n
  <2> QED
    BY <1>1, <1>2, <1>3, <1>4, <2>1, SumsShift
<1>6. RunningSums(s)[k] \in Nat /\ RunningSums(t)[n] \in Nat
  <2>1. k \in 0 .. Len(s) /\ n \in 0 .. Len(t)
    BY <1>1, <1>2, <1>3
  <2> QED
    BY <1>1, <1>2, <2>1, SumsAt
<1>7. reqnet = <<>> => WordsOf(reqnet) = 0
  BY <1>2, SumsAt
<1>8. req_queue = <<>> => reqnet = <<>>
  BY Lengths, EmptySeq DEF InOrder, TypeOK
<1>9. WordsOf(req_queue) = RunningSums(s)[k] + WordsOf(reqnet)
  BY <1>1, <1>2, <1>3, <1>5
<1> HIDE DEF n
<1> QED
  BY <1>2, <1>6, <1>7, <1>8, <1>9

LEMMA NextAsync ==
    ASSUME TypeOK, AsyncBound, [Next]_vars
    PROVE  AsyncBound'
<1>1. ASSUME UNCHANGED async PROVE AsyncBound'
  BY <1>1 DEF AsyncBound, async
<1>2. CASE \E t \in Threads : ThreadStep(t)
  BY <1>1, <1>2 DEF ThreadStep, Poke32, Peek32, Sleep, SendRequestPacket, SendOkay,
     SendThrows, BuffFree, BuffStillFull, BuffTimeout, AckReady, AckTimeout
<1>3. CASE HandleAck
  BY <1>1, <1>3 DEF HandleAck, IgnoreAck, AcceptAck, ProcessIncorrectResponse,
     ProcessCorrectResponse, PopPastEnd
<1>4. CASE HandleAsync \/ BlockSendsAsync \/ BlockTakesAsyncAck
  <2>1. async_msgs \in Nat /\ async_acks \in Nat /\ MaxAsync \in Nat
    BY ConstantsAssumption DEF TypeOK
  <2>2. CASE HandleAsync
    <3>1. /\ async_msgs' = async_msgs - 1
          /\ async_acks' = async_acks + 1 \/ async_acks' = async_acks
      BY <2>2 DEF HandleAsync
    <3>2. async_msgs + async_acks <= MaxAsync
      BY DEF AsyncBound
    <3>3. async_msgs' + async_acks' <= MaxAsync
      BY <2>1, <3>1, <3>2
    <3> QED
      BY <3>3 DEF AsyncBound
  <2>3. CASE BlockSendsAsync
    BY <2>1, <2>3 DEF AsyncBound, BlockSendsAsync
  <2>4. CASE BlockTakesAsyncAck
    BY <2>1, <2>4 DEF AsyncBound, BlockTakesAsyncAck
  <2> QED
    BY <1>4, <2>2, <2>3, <2>4
<1>5. CASE BlockResponds \/ LoseRequest \/ LoseResponse \/ DuplicateResponse \/ UNCHANGED vars
  BY <1>1, <1>5 DEF BlockResponds, LoseRequest, LoseResponse, DuplicateResponse, vars
<1> QED
  BY <1>2, <1>3, <1>4, <1>5 DEF Next, HandleRecv, Environment, Stopped

\* The purpose of the flow control (send_request_packet, handle_recv): as long
\* as the link neither loses nor duplicates packets, the requests and the async
\* responses that can be in the block's buffer fit into it, for any capacity,
\* any number of threads, timed and untimed requests, and expired deadlines.
THEOREM DeviceBufferNeverOverflows ==
    ASSUME Reliable
    PROVE  Spec => []DeviceBufferBound
<1>1. Init => InOrder /\ AsyncBound
  BY ConstantsAssumption DEF Init, InOrder, AsyncBound
<1>2. TypeOK /\ InOrder /\ AsyncBound /\ [Next]_vars => InOrder' /\ AsyncBound'
  BY NextInOrder, NextAsync
<1>3. TypeOK /\ InOrder /\ AsyncBound /\ BufferAccounting => DeviceBufferBound
  <2> SUFFICES ASSUME TypeOK, InOrder, AsyncBound, BufferAccounting
               PROVE  DeviceBufferBound
    OBVIOUS
  <2> DEFINE w == WordsOf(reqnet)
  <2>1. w \in Nat /\ w <= buff_occupied /\ (req_queue = <<>> => w = 0)
    BY QueuedWords, WordsOnTheWay
  <2>2. /\ async_acks \in Nat /\ async_acks <= MaxAsync /\ MaxAsync \in Nat
        /\ BuffCapacity \in Nat /\ 6 * MaxAsync <= BuffCapacity /\ buff_occupied \in Int
    BY ConstantsAssumption DEF TypeOK, AsyncBound, ASYNC_MESSAGE_SIZE
  <2>3. w = 0 \/ w <= BuffCapacity - 6 * MaxAsync
    <3> HIDE DEF w
    <3>1. CASE req_queue = <<>>
      BY <2>1, <3>1
    <3>2. CASE req_queue # <<>>
      BY <2>1, <2>2, <3>2 DEF BufferAccounting, ASYNC_MESSAGE_SIZE
    <3> QED
      BY <3>1, <3>2
  <2> HIDE DEF w
  <2>4. w + 6 * async_acks <= BuffCapacity
    BY <2>1, <2>2, <2>3
  <2> QED
    BY <2>4 DEF w, DeviceBufferBound, ASYNC_MESSAGE_SIZE
<1> QED
  BY <1>1, <1>2, <1>3, TypeCorrect, FlowControlAccounting, PTL DEF Spec
-----------------------------------------------------------------------------
(* Waiting threads *)

\* No two threads use the same opcode and address, as when each block
\* controller is used by one thread.
DistinctCalls ==
    \A t, u \in Threads : t # u =>
        \A c \in Calls[t], d \in Calls[u] : c.op # d.op \/ c.addr # d.addr

\* A thread makes a call of its own.
OwnCalls ==
    \A t \in Threads : pc[t] # "idle" =>
        \E c \in Calls[t] : cur[t][1].op = c.op /\ cur[t][1].addr = c.addr

\* The request of a waiting thread is in the queue, not only its number.
Waits ==
    \A t \in Threads : pc[t] = "wait_ack" =>
        \/ HasResponse(cur[t][1])
        \/ /\ Key(cur[t][1]) \in wanted_acks
           /\ \E i \in 1 .. Len(req_queue) : req_queue[i] = cur[t][1]

\* The keys of two threads' requests differ.
LEMMA KeysDiffer ==
    ASSUME DistinctCalls, OwnCalls, NEW t \in Threads, NEW u \in Threads, t # u,
           pc[u] # "idle", NEW r,
           \E c \in Calls[t] : r.op = c.op /\ r.addr = c.addr
    PROVE  /\ Key(r) # Key(cur[u][1])
           /\ \A m : MeantFor(m, r) => ~MeantFor(m, cur[u][1])
BY DEF DistinctCalls, OwnCalls, Key, MeantFor

\* Removing an element leaves the others.
LEMMA RemoveAtKeeps ==
    ASSUME NEW S, NEW s \in Seq(S), NEW i \in 1 .. Len(s), NEW j \in 1 .. Len(s), i # j
    PROVE  \E k \in 1 .. Len(RemoveAt(s, i)) : RemoveAt(s, i)[k] = s[j]
<1>1. i \in Nat /\ j \in Nat /\ Len(s) \in Nat /\ i >= 1 /\ j >= 1 /\ i <= Len(s) /\ j <= Len(s)
  BY LenProperties
<1> DEFINE a == SubSeq(s, 1, i - 1)
<1> DEFINE b == SubSeq(s, i + 1, Len(s))
<1>2. RemoveAt(s, i) = a \o b
  BY DEF RemoveAt
<1>3. /\ a \in Seq(S) /\ Len(a) = i - 1
      /\ \A k \in 1 .. i - 1 : a[k] = s[k]
  BY <1>1
<1>4. /\ b \in Seq(S) /\ Len(b) = Len(s) - i
      /\ \A k \in 1 .. Len(s) - i : b[k] = s[k + i]
  BY <1>1
<1> HIDE DEF a, b
<1>5. /\ Len(a \o b) = Len(s) - 1
      /\ \A k \in 1 .. Len(s) - 1 : (a \o b)[k] = IF k <= i - 1 THEN a[k] ELSE b[k - (i - 1)]
  <2>1. Len(a \o b) = Len(a) + Len(b)
        /\ \A k \in 1 .. Len(a) + Len(b) :
              (a \o b)[k] = IF k <= Len(a) THEN a[k] ELSE b[k - Len(a)]
    BY <1>3, <1>4, ConcatProperties
  <2>2. Len(a) + Len(b) = Len(s) - 1
    BY <1>1, <1>3, <1>4
  <2> QED
    BY <1>3, <2>1, <2>2
<1>6. CASE j < i
  <2>1. j \in 1 .. Len(s) - 1 /\ j <= i - 1 /\ j \in 1 .. i - 1
    BY <1>1, <1>6
  <2> QED
    BY <1>2, <1>3, <1>5, <2>1
<1>7. CASE j > i
  <2>1. /\ j - 1 \in 1 .. Len(s) - 1 /\ ~(j - 1 <= i - 1)
        /\ (j - 1) - (i - 1) \in 1 .. Len(s) - i /\ ((j - 1) - (i - 1)) + i = j
    BY <1>1, <1>7
  <2>2. (a \o b)[j - 1] = b[(j - 1) - (i - 1)]
    BY <1>5, <2>1
  <2>3. b[(j - 1) - (i - 1)] = s[j]
    BY <1>4, <2>1
  <2> QED
    BY <1>2, <1>5, <2>1, <2>2, <2>3
<1> QED
  BY <1>1, <1>6, <1>7

\* What one thread does leaves the others waiting.
LEMMA OthersWait ==
    ASSUME TypeOK, Waits, OwnCalls, DistinctCalls, NEW t \in Threads, NEW u \in Threads, t # u,
           NEW r, \E c \in Calls[t] : r.op = c.op /\ r.addr = c.addr,
           pc'[u] = "wait_ack", pc'[u] = pc[u], cur'[u] = cur[u],
           resp_queue' = resp_queue \/ \E W : TakeResponse(t, r, W),
           wanted_acks \ {Key(r)} \subseteq wanted_acks',
           \A i \in 1 .. Len(req_queue) : \E j \in 1 .. Len(req_queue') : req_queue'[j] = req_queue[i]
    PROVE  \/ HasResponse(cur[u][1])'
           \/ /\ Key(cur[u][1])' \in wanted_acks'
              /\ \E i \in 1 .. Len(req_queue') : req_queue'[i] = cur'[u][1]
<1> DEFINE q == cur[u][1]
<1>1. /\ Key(r) # Key(q)
      /\ \A m : MeantFor(m, r) => ~MeantFor(m, q)
  BY KeysDiffer
<1>2. CASE HasResponse(q)
  <2>1. CASE resp_queue' = resp_queue
    BY <1>2, <2>1 DEF HasResponse, MeantFor
  <2>2. CASE \E W : TakeResponse(t, r, W)
    <3>1. HasResponse(q)' = \E i \in DOMAIN resp_queue' : MeantFor(resp_queue'[i], q)
      BY DEF HasResponse, MeantFor
    <3>2. \E i \in DOMAIN resp_queue' : MeantFor(resp_queue'[i], q)
      <4>1. PICK W : TakeResponse(t, r, W)
        BY <2>2
      <4>2. PICK j \in DOMAIN resp_queue : MeantFor(resp_queue[j], q)
        BY <1>2 DEF HasResponse
      <4>3. PICK i \in DOMAIN resp_queue :
              MeantFor(resp_queue[i], r) /\ resp_queue' = RemoveAt(resp_queue, i)
        BY <4>1 DEF TakeResponse
      <4>4. i # j
        BY <1>1, <4>2, <4>3
      <4>5. resp_queue \in Seq(Response) /\ DOMAIN resp_queue = 1 .. Len(resp_queue)
        BY LenProperties DEF TypeOK
      <4>6. PICK k \in 1 .. Len(resp_queue') : resp_queue'[k] = resp_queue[j]
        BY <4>3, <4>4, <4>5, RemoveAtKeeps
      <4>7. DOMAIN resp_queue' = 1 .. Len(resp_queue')
        BY <4>3, <4>5, RemoveAtType, LenProperties
      <4> QED
        BY <4>2, <4>6, <4>7
    <3> QED
      BY <3>1, <3>2
  <2> QED
    BY <2>1, <2>2
<1>3. CASE ~HasResponse(q)
  BY <1>1, <1>3 DEF Waits, Key
<1> QED
  BY <1>2, <1>3
\* A thread that returns or waits for its own request leaves the others waiting.
LEMMA SendWaits ==
    ASSUME TypeOK, Waits, OwnCalls, DistinctCalls, NEW t \in Threads,
           NEW r \in Request, \E c \in Calls[t] : r.op = c.op /\ r.addr = c.addr,
           SendOkay(t, r)
    PROVE  Waits' /\ OwnCalls'
<1>1. \A u \in Threads \ {t} : pc'[u] = pc[u] /\ cur'[u] = cur[u]
  BY DEF SendOkay, TakeResponse, Return, TypeOK
<1>2. \/ pc'[t] = "idle"
      \/ pc'[t] = "wait_ack" /\ cur'[t] = <<r>> /\ r.ack /\ wanted_acks' = Wanted(r)
  BY DEF SendOkay, TakeResponse, Return, TypeOK
<1>3. req_queue' = Append(req_queue, r)
  BY DEF SendOkay, Enqueue
<1>4. /\ Len(req_queue') = Len(req_queue) + 1 /\ Len(req_queue) \in Nat
      /\ req_queue'[Len(req_queue) + 1] = r
      /\ \A i \in 1 .. Len(req_queue) : req_queue'[i] = req_queue[i]
  BY <1>3, AppendProperties, LenProperties DEF TypeOK
<1>5. \A i \in 1 .. Len(req_queue) : \E j \in 1 .. Len(req_queue') : req_queue'[j] = req_queue[i]
  BY <1>4
<1>6. OwnCalls'
  BY <1>1, <1>2 DEF OwnCalls
<1>7. wanted_acks \ {Key(r)} \subseteq wanted_acks'
      /\ (resp_queue' = resp_queue \/ \E W : TakeResponse(t, r, W))
  BY DEF SendOkay, TakeResponse, Wanted
<1>8. ASSUME NEW u \in Threads, pc'[u] = "wait_ack"
      PROVE  \/ HasResponse(cur[u][1])'
             \/ /\ Key(cur[u][1])' \in wanted_acks'
                /\ \E i \in 1 .. Len(req_queue') : req_queue'[i] = cur'[u][1]
  <2>1. CASE u = t
    <3>1. Key(r) \in wanted_acks' /\ cur'[u][1] = r
      BY <1>2, <1>8, <2>1 DEF Wanted
    <3>2. Len(req_queue) + 1 \in 1 .. Len(req_queue')
      BY <1>4
    <3> QED
      BY <1>4, <3>1, <3>2 DEF Key
  <2>2. CASE u # t
    BY <1>1, <1>5, <1>7, <1>8, <2>2, OthersWait
  <2> QED
    BY <2>1, <2>2
<1> QED
  BY <1>6, <1>8 DEF Waits

LEMMA ThreadWaits ==
    ASSUME Reliable, TypeOK, Waits, OwnCalls, DistinctCalls, NEW t \in Threads, ThreadStep(t)
    PROVE  Waits' /\ OwnCalls'
<1>1. ASSUME NEW c \in Calls[t], SendRequestPacket(t, c)
      PROVE  Waits' /\ OwnCalls'
  <2>1. MakeRequest(c) \in Request /\ MakeRequest(c).op = c.op /\ MakeRequest(c).addr = c.addr
    BY MakeRequestType DEF MakeRequest
  <2>2. CASE SendOkay(t, MakeRequest(c))
    BY <2>1, <2>2, SendWaits
  <2>3. CASE /\ pc' = [pc EXCEPT ![t] = "wait_buff"]
             /\ cur' = [cur EXCEPT ![t] = <<MakeRequest(c)>>]
             /\ UNCHANGED <<req_queue, resp_queue, wanted_acks>>
    <3>1. \A u \in Threads \ {t} : pc'[u] = pc[u] /\ cur'[u] = cur[u]
      BY <2>3 DEF TypeOK
    <3>2. pc'[t] = "wait_buff" /\ cur'[t][1] = MakeRequest(c)
      BY <2>3 DEF TypeOK
    <3> QED
      BY <2>1, <2>3, <3>1, <3>2 DEF Waits, OwnCalls, HasResponse, MeantFor, Key
  <2> QED
    BY <1>1, <2>2, <2>3 DEF SendRequestPacket, SendThrows, Reliable
<1>2. CASE BuffFree(t)
  <2>1. cur[t][1] \in Request /\ words \in Nat
    <3>1. cur[t] \in Seq(Request) /\ Len(cur[t]) = 1
      BY <1>2 DEF BuffFree, TypeOK
    <3>2. cur[t][1] \in Request
      BY <3>1, LenProperties
    <3> QED
      BY <3>2 DEF TypeOK
  <2> DEFINE r == [cur[t][1] EXCEPT !.ofs = words]
  <2>2. r \in Request /\ r.op = cur[t][1].op /\ r.addr = cur[t][1].addr
    BY <2>1 DEF Request
  <2>3. \E c \in Calls[t] : r.op = c.op /\ r.addr = c.addr
    BY <1>2, <2>2 DEF BuffFree, OwnCalls
  <2>4. SendOkay(t, r)
    BY <1>2 DEF BuffFree, SendThrows, Reliable
  <2> HIDE DEF r
  <2> QED
    BY <2>2, <2>3, <2>4, SendWaits
<1>3. CASE BuffTimeout(t) \/ AckReady(t) \/ AckTimeout(t)
  <2> DEFINE r == cur[t][1]
  <2>1. pc[t] # "idle" /\ pc'[t] = "idle"
    BY <1>3 DEF BuffTimeout, AckReady, AckTimeout, TakeResponse, Return, TypeOK
  <2>2. \A u \in Threads \ {t} : pc'[u] = pc[u] /\ cur'[u] = cur[u]
    BY <1>3 DEF BuffTimeout, AckReady, AckTimeout, TakeResponse, Return, TypeOK
  <2>3. \E c \in Calls[t] : r.op = c.op /\ r.addr = c.addr
    BY <2>1 DEF OwnCalls
  <2>4. /\ wanted_acks \ {Key(r)} \subseteq wanted_acks'
        /\ resp_queue' = resp_queue \/ \E W : TakeResponse(t, r, W)
    BY <1>3 DEF BuffTimeout, AckReady, AckTimeout, TakeResponse
  <2>5. req_queue' = req_queue
    BY <1>3 DEF BuffTimeout, AckReady, AckTimeout
  <2>6. \A u \in Threads : pc'[u] = "wait_ack" =>
            \/ HasResponse(cur[u][1])'
            \/ /\ Key(cur[u][1])' \in wanted_acks'
               /\ \E i \in 1 .. Len(req_queue') : req_queue'[i] = cur'[u][1]
    <3> SUFFICES ASSUME NEW u \in Threads, pc'[u] = "wait_ack"
                 PROVE  \/ HasResponse(cur[u][1])'
                        \/ /\ Key(cur[u][1])' \in wanted_acks'
                           /\ \E i \in 1 .. Len(req_queue') : req_queue'[i] = cur'[u][1]
      OBVIOUS
    <3>1. u # t
      BY <2>1
    <3> HIDE DEF r
    <3> QED
      BY <2>2, <2>3, <2>4, <2>5, <3>1, OthersWait
  <2>7. OwnCalls'
    BY <2>1, <2>2 DEF OwnCalls
  <2> QED
    BY <2>6, <2>7 DEF Waits
<1>4. CASE BuffStillFull(t)
  BY <1>4 DEF BuffStillFull, Waits, OwnCalls, HasResponse
<1> QED
  BY <1>1, <1>2, <1>3, <1>4 DEF ThreadStep, Poke32, Peek32, Sleep

\* The response of a request that is popped is put where the thread looks for it.
LEMMA PopWaits ==
    ASSUME TypeOK, InOrder, Waits, OwnCalls, ProcessCorrectResponse
    PROVE  Waits' /\ OwnCalls'
<1>1. /\ req_queue # <<>> /\ req_queue' = Tail(req_queue) /\ rx # <<>>
      /\ UNCHANGED <<pc, cur>> /\ PushResponse(rx[1], Key(rx[1]))
  BY DEF ProcessCorrectResponse, PopRequest, client
<1>2. /\ Len(req_queue') = Len(req_queue) - 1 /\ Len(req_queue) \in Nat
      /\ \A i \in 1 .. Len(req_queue') : req_queue'[i] = req_queue[i + 1]
  BY <1>1, TailFacts DEF TypeOK
<1>3. Key(rx[1]) = Key(req_queue[1]) /\ rx[1] \in Response
  <2>1. Len(rx) = 1
    BY <1>1, Lengths DEF TypeOK
  <2>2. rx[1] \in Response
    <3>1. rx \in Seq(Response)
      BY DEF TypeOK
    <3> QED
      BY <2>1, <3>1
  <2> QED
    BY <2>1, <2>2 DEF InOrder, Answers
<1>4. ASSUME NEW u \in Threads, pc[u] = "wait_ack"
      PROVE  \/ HasResponse(cur[u][1])'
             \/ /\ Key(cur[u][1])' \in wanted_acks'
                /\ \E i \in 1 .. Len(req_queue') : req_queue'[i] = cur'[u][1]
  <2> DEFINE q == cur[u][1]
  <2>1. HasResponse(q)' <=> \E i \in DOMAIN resp_queue' : MeantFor(resp_queue'[i], q)
    BY <1>1 DEF HasResponse, MeantFor
  <2>2. CASE HasResponse(q)
    <3>1. CASE resp_queue' = resp_queue
      BY <2>1, <2>2, <3>1 DEF HasResponse
    <3>2. CASE resp_queue' = Append(resp_queue, rx[1])
      <4>1. resp_queue \in Seq(Response)
        BY DEF TypeOK
      <4>2. /\ DOMAIN resp_queue \subseteq DOMAIN resp_queue'
            /\ \A i \in DOMAIN resp_queue : resp_queue'[i] = resp_queue[i]
        BY <1>3, <3>2, <4>1, AppendFacts
      <4> QED
        BY <2>1, <2>2, <4>2 DEF HasResponse
    <3> QED
      BY <1>1, <3>1, <3>2 DEF PushResponse
  <2>3. CASE Key(q) \in wanted_acks /\ Key(q) = Key(rx[1])
    <3>1. resp_queue' = Append(resp_queue, rx[1])
      BY <1>1, <2>3 DEF PushResponse
    <3>2. /\ Len(resp_queue) + 1 \in DOMAIN resp_queue'
          /\ resp_queue'[Len(resp_queue) + 1] = rx[1]
      <4>1. resp_queue \in Seq(Response)
        BY DEF TypeOK
      <4> QED
        BY <1>3, <3>1, <4>1, AppendFacts
    <3>3. MeantFor(rx[1], q)
      BY <2>3 DEF MeantFor, Key
    <3> QED
      BY <2>1, <3>2, <3>3
  <2>4. CASE /\ Key(q) \in wanted_acks /\ Key(q) # Key(rx[1])
             /\ \E i \in 1 .. Len(req_queue) : req_queue[i] = q
    <3>1. PICK i \in 1 .. Len(req_queue) : req_queue[i] = q
      BY <2>4
    <3>2. i # 1
      BY <1>3, <2>4, <3>1
    <3>3. i - 1 \in 1 .. Len(req_queue') /\ (i - 1) + 1 = i
      BY <1>2, <3>2
    <3>4. req_queue'[i - 1] = q
      BY <1>2, <3>1, <3>3
    <3>5. Key(q) \in wanted_acks'
      BY <1>1, <2>4 DEF PushResponse
    <3> QED
      BY <1>1, <3>3, <3>4, <3>5 DEF Key
  <2> QED
    BY <1>4, <2>2, <2>3, <2>4 DEF Waits
<1> QED
  BY <1>1, <1>4 DEF Waits, OwnCalls

LEMMA NextWaits ==
    ASSUME Reliable, DistinctCalls, TypeOK, InOrder, Waits, OwnCalls, [Next]_vars
    PROVE  Waits' /\ OwnCalls'
<1>1. ASSUME UNCHANGED <<pc, cur, req_queue, resp_queue, wanted_acks>>
      PROVE  Waits' /\ OwnCalls'
  BY <1>1 DEF Waits, OwnCalls, HasResponse, MeantFor, Key
<1>2. ~ProcessIncorrectResponse
  BY DEF ProcessIncorrectResponse, InOrder
<1>3. CASE IgnoreAck \/ AcceptAck \/ PopPastEnd \/ HandleAsync
  BY <1>1, <1>3 DEF IgnoreAck, AcceptAck, PopPastEnd, HandleAsync, client
<1>4. CASE Environment
  BY <1>1, <1>4 DEF Environment, BlockResponds, LoseRequest, LoseResponse,
     DuplicateResponse, BlockSendsAsync, BlockTakesAsyncAck, client
<1>5. CASE UNCHANGED vars
  BY <1>1, <1>5 DEF vars, client
<1> QED
  BY <1>2, <1>3, <1>4, <1>5, ThreadWaits, PopWaits DEF Next, HandleRecv, HandleAck, Stopped

\* If no packets are lost and no two threads use the same opcode and address,
\* no thread waits in vain: the response it waits for is in the response queue
\* or comes and will be put there (send_request_packet, wait_for_ack,
\* handle_recv), also when sequence numbers are used again and calls time out.
THEOREM NoWaiterForgotten ==
    ASSUME Reliable, DistinctCalls
    PROVE  Spec => []WaiterNotForgotten
<1>1. Init => InOrder /\ Waits /\ OwnCalls
  BY DEF Init, InOrder, Waits, OwnCalls
<1>2. TypeOK /\ InOrder /\ Waits /\ OwnCalls /\ [Next]_vars => InOrder' /\ Waits' /\ OwnCalls'
  BY NextInOrder, NextWaits
<1>3. TypeOK /\ Waits => WaiterNotForgotten
  <2> SUFFICES ASSUME TypeOK, Waits, NEW t \in Threads, pc[t] = "wait_ack",
                      NEW i \in 1 .. Len(req_queue), req_queue[i] = cur[t][1]
               PROVE  cur[t][1].id \in Ids(req_queue)
    BY DEF Waits, WaiterNotForgotten
  <2>1. DOMAIN req_queue = 1 .. Len(req_queue)
    BY LenProperties DEF TypeOK
  <2> QED
    BY <2>1 DEF Ids
<1> QED
  BY <1>1, <1>2, <1>3, TypeCorrect, PTL DEF Spec
-----------------------------------------------------------------------------
(* Sequence numbers before they wrap, on a link that loses and duplicates    *)

\* One thread makes the calls, and its packets are handed to the link.
OneCaller == (\A t, u \in Threads : t = u) /\ "send" \notin Faults

\* Fewer requests have been made than there are sequence numbers.
Unwrapped == nreqs < SeqNums

\* The sequence numbers and the identities of what was sent, wherever it, or the
\* response to it, is.
Marks(s) == {<<s[i].seq, s[i].id>> : i \in DOMAIN s}
Awaited == {<<cur[t][1].seq, cur[t][1].id>> : t \in {u \in Threads : pc[u] = "wait_ack"}}
Sent ==
    Marks(req_queue) \union Marks(resp_queue) \union Marks(rx) \union Marks(respnet)
        \union Marks(reqnet) \union Awaited

\* A sequence number stands for one request; a request that waits for space in
\* the buffer is going to have the next number.
Numbered ==
    /\ tx_seq_num <= nreqs
    /\ \A p \in Sent : p[1] < tx_seq_num /\ p[2] < nreqs
    /\ \A p, q \in Sent : p[1] = q[1] <=> p[2] = q[2]
    /\ \A t \in Threads : pc[t] = "wait_buff" =>
          /\ cur[t][1].seq = tx_seq_num /\ tx_seq_num < nreqs /\ cur[t][1].id = nreqs - 1
          /\ \A p \in Sent : p[2] < nreqs - 1

\* The outstanding requests have the last numbers without a gap.
Consecutive ==
    \A i \in 1 .. Len(req_queue) : req_queue[i].seq = tx_seq_num - Len(req_queue) + i - 1

\* The handler is on its way to the request that its response answers.
Matched ==
    /\ ~corrupted
    /\ rx # <<>> => skip < Len(req_queue) /\ req_queue[skip + 1].seq = rx[1].seq

\* The requests in a queue follow each other.
InTurn(s) ==
    \A i, j \in 1 .. Len(s) : i < j =>
        s[i].seq < s[j].seq /\ s[i].ofs + GetPayloadSize(s[i]) <= s[j].ofs

\* What is on its way to the block is outstanding, in the same order, and newer
\* than all that comes back.
Outstanding == \A i \in 1 .. Len(reqnet) : \E j \in 1 .. Len(req_queue) : reqnet[i] = req_queue[j]
Queued == \A i \in 1 .. Len(req_queue) : req_queue[i].ofs + GetPayloadSize(req_queue[i]) <= words
Newer ==
    \A i \in 1 .. Len(reqnet) : /\ \A j \in 1 .. Len(rx) : rx[j].seq < reqnet[i].seq
                                /\ \A j \in 1 .. Len(respnet) : respnet[j].seq < reqnet[i].seq
Ahead == InTurn(req_queue) /\ InTurn(reqnet) /\ Outstanding /\ Queued /\ Newer

LEMMA MarksAppend ==
    ASSUME NEW S, NEW s \in Seq(S), NEW e \in S
    PROVE  Marks(Append(s, e)) = Marks(s) \union {<<e.seq, e.id>>}
<1>1. /\ DOMAIN Append(s, e) = DOMAIN s \union {Len(s) + 1}
      /\ Append(s, e)[Len(s) + 1] = e /\ \A i \in DOMAIN s : Append(s, e)[i] = s[i]
  OBVIOUS
<1>. DEFINE a == Append(s, e)
<1>. HIDE DEF a
<1>. QED
  BY <1>1 DEF Marks, a

LEMMA MarksTail ==
    ASSUME NEW S, NEW s \in Seq(S), s # <<>>
    PROVE  Marks(Tail(s)) \subseteq Marks(s) /\ <<Head(s).seq, Head(s).id>> \in Marks(s)
<1>1. /\ \A i \in DOMAIN Tail(s) : i + 1 \in DOMAIN s /\ Tail(s)[i] = s[i + 1]
      /\ 1 \in DOMAIN s /\ Head(s) = s[1]
  OBVIOUS
<1>. DEFINE a == Tail(s)
            h == Head(s)
<1>. HIDE DEF a, h
<1>. QED
  BY <1>1 DEF Marks, a, h

LEMMA MarksCons ==
    ASSUME NEW S, NEW s \in Seq(S), NEW e \in S
    PROVE  Marks(<<e>> \o s) = Marks(s) \union {<<e.seq, e.id>>}
<1>1. /\ \A i \in DOMAIN s : i + 1 \in DOMAIN (<<e>> \o s) /\ (<<e>> \o s)[i + 1] = s[i]
      /\ \A i \in DOMAIN (<<e>> \o s) : i # 1 => i - 1 \in DOMAIN s /\ (<<e>> \o s)[i] = s[i - 1]
      /\ 1 \in DOMAIN (<<e>> \o s) /\ (<<e>> \o s)[1] = e
  OBVIOUS
<1>. DEFINE a == <<e>> \o s
<1>. HIDE DEF a
<1>2. \A i \in DOMAIN s : i + 1 \in DOMAIN a /\ a[i + 1] = s[i]
  BY <1>1 DEF a
<1>3. \A i \in DOMAIN a : a[i] = e \/ \E j \in DOMAIN s : a[i] = s[j]
  BY <1>1 DEF a
<1>4. \E i \in DOMAIN a : a[i] = e
  BY <1>1 DEF a
<1>5. Marks(a) \subseteq Marks(s) \union {<<e.seq, e.id>>}
  BY <1>3 DEF Marks
<1>6. Marks(s) \union {<<e.seq, e.id>>} \subseteq Marks(a)
  BY <1>2, <1>4 DEF Marks
<1>. QED
  BY <1>5, <1>6 DEF a

LEMMA MarksRemoveAt ==
    ASSUME NEW S, NEW s \in Seq(S), NEW k \in DOMAIN s
    PROVE  Marks(RemoveAt(s, k)) \subseteq Marks(s)
<1>. DEFINE a == RemoveAt(s, k)
<1>1. \A i \in DOMAIN a : (a[i] = s[i] /\ i \in DOMAIN s) \/ (a[i] = s[i + 1] /\ i + 1 \in DOMAIN s)
  <2>1. Len(s) \in Nat /\ k \in 1 .. Len(s) /\ DOMAIN s = 1 .. Len(s)
    OBVIOUS
  <2>. DEFINE f == SubSeq(s, 1, k - 1)
              g == SubSeq(s, k + 1, Len(s))
  <2>2. \A i \in 1 .. Len(s) : s[i] \in S
    BY <2>1
  <2>3. f \in Seq(S) /\ Len(f) = k - 1 /\ \A i \in 1 .. k - 1 : f[i] = s[i]
    <3>1. \A i \in 1 .. k - 1 : s[i] \in S
      BY <2>1, <2>2
    <3>2. /\ f \in Seq(S) /\ Len(f) = IF 1 <= k - 1 THEN (k - 1) - 1 + 1 ELSE 0
          /\ \A i \in 1 .. (k - 1) - 1 + 1 : f[i] = s[1 + i - 1]
      BY <2>1, <3>1, SubSeqProperties
    <3>. HIDE DEF f
    <3>. QED
      BY <2>1, <3>2
  <2>4. g \in Seq(S) /\ Len(g) = Len(s) - k /\ \A i \in 1 .. Len(s) - k : g[i] = s[i + k]
    <3>1. \A i \in k + 1 .. Len(s) : s[i] \in S
      BY <2>1, <2>2
    <3>2. /\ g \in Seq(S) /\ Len(g) = IF k + 1 <= Len(s) THEN Len(s) - (k + 1) + 1 ELSE 0
          /\ \A i \in 1 .. Len(s) - (k + 1) + 1 : g[i] = s[(k + 1) + i - 1]
      BY <2>1, <3>1, SubSeqProperties
    <3>. HIDE DEF g
    <3>3. Len(g) = Len(s) - k
      BY <2>1, <3>2
    <3>4. ASSUME NEW i \in 1 .. Len(s) - k PROVE g[i] = s[i + k]
      <4>1. i \in 1 .. Len(s) - (k + 1) + 1 /\ (k + 1) + i - 1 = i + k
        BY <2>1
      <4>. QED
        BY <3>2, <4>1
    <3>. QED
      BY <3>2, <3>3, <3>4
  <2>. HIDE DEF f, g
  <2>5. /\ a = f \o g /\ Len(a) = Len(f) + Len(g)
        /\ \A i \in 1 .. Len(f) + Len(g) : a[i] = IF i <= Len(f) THEN f[i] ELSE g[i - Len(f)]
    <3>1. a = f \o g
      BY DEF f, g, RemoveAt
    <3>. QED
      BY <2>3, <2>4, <3>1, ConcatProperties
  <2>6. DOMAIN a = 1 .. Len(s) - 1
    <3>1. a \in Seq(S)
      BY <2>3, <2>4, <2>5, ConcatProperties
    <3>. HIDE DEF a
    <3>2. DOMAIN a = 1 .. Len(a)
      BY <3>1
    <3>3. Len(a) = Len(s) - 1
      BY <2>1, <2>3, <2>4, <2>5
    <3>. QED
      BY <3>2, <3>3
  <2>. HIDE DEF a
  <2>7. SUFFICES ASSUME NEW i \in 1 .. Len(s) - 1
                 PROVE  (a[i] = s[i] /\ i \in DOMAIN s) \/ (a[i] = s[i + 1] /\ i + 1 \in DOMAIN s)
    BY <2>6
  <2>8. CASE i \in 1 .. k - 1
    <3>1. i \in 1 .. Len(f) + Len(g) /\ i <= Len(f)
      BY <2>1, <2>3, <2>4, <2>8
    <3>. QED
      BY <2>1, <2>3, <2>8, <2>5, <3>1
  <2>9. CASE i \notin 1 .. k - 1
    <3>1. /\ i - Len(f) \in 1 .. Len(s) - k /\ (i - Len(f)) + k = i + 1
          /\ i \in 1 .. Len(f) + Len(g) /\ ~(i <= Len(f))
      BY <2>1, <2>3, <2>4, <2>9
    <3>2. a[i] = s[i + 1]
      BY <2>4, <2>5, <3>1
    <3>. QED
      BY <2>1, <3>2
  <2>. QED
    BY <2>8, <2>9
<1>. HIDE DEF a
<1>. QED
  BY <1>1 DEF Marks, a

LEMMA MarksType ==
    ASSUME TypeOK
    PROVE  /\ Sent \subseteq Nat \X Nat
           /\ \A i \in DOMAIN req_queue : req_queue[i] \in Request
           /\ \A i \in DOMAIN resp_queue : resp_queue[i] \in Response
           /\ \A t \in Threads : pc[t] # "idle" => cur[t][1] \in Request
<1>1. /\ \A i \in DOMAIN req_queue : req_queue[i] \in Request
      /\ \A i \in DOMAIN reqnet : reqnet[i] \in Request
      /\ \A i \in DOMAIN resp_queue : resp_queue[i] \in Response
      /\ \A i \in DOMAIN respnet : respnet[i] \in Response
      /\ \A i \in DOMAIN rx : rx[i] \in Response
  BY DEF TypeOK
<1>2. \A t \in Threads : pc[t] # "idle" => cur[t][1] \in Request
  <2>1. SUFFICES ASSUME NEW t \in Threads, pc[t] # "idle" PROVE cur[t][1] \in Request
    OBVIOUS
  <2>2. cur[t] \in Seq(Request) /\ Len(cur[t]) = 1
    BY <2>1 DEF TypeOK
  <2>. QED
    BY <2>2
<1>3. \A m \in Request \union Response : m.seq \in Nat /\ m.id \in Nat
  BY DEF Request, Response
<1>4. Awaited \subseteq Nat \X Nat
  BY <1>2, <1>3 DEF Awaited
<1>5. /\ Marks(req_queue) \subseteq Nat \X Nat /\ Marks(reqnet) \subseteq Nat \X Nat
      /\ Marks(resp_queue) \subseteq Nat \X Nat
  BY <1>1, <1>3 DEF Marks
<1>6. Marks(respnet) \subseteq Nat \X Nat /\ Marks(rx) \subseteq Nat \X Nat
  BY <1>1, <1>3 DEF Marks
<1>. QED
  BY <1>1, <1>2, <1>4, <1>5, <1>6 DEF Sent

\* What was sent may only become less: nothing but sending takes a number.
LEMMA NumberedKept ==
    ASSUME Numbered, Sent' \subseteq Sent, UNCHANGED <<tx_seq_num, nreqs>>,
           \A t \in Threads : pc'[t] = "wait_buff" => pc[t] = "wait_buff" /\ cur'[t] = cur[t]
    PROVE  Numbered'
<1>1. /\ tx_seq_num' <= nreqs' /\ \A p \in Sent' : p[1] < tx_seq_num' /\ p[2] < nreqs'
      /\ \A p, q \in Sent' : p[1] = q[1] <=> p[2] = q[2]
  BY DEF Numbered
<1>2. \A t \in Threads : pc'[t] = "wait_buff" =>
          /\ cur'[t][1].seq = tx_seq_num' /\ tx_seq_num' < nreqs' /\ cur'[t][1].id = nreqs' - 1
          /\ \A p \in Sent' : p[2] < nreqs' - 1
  BY DEF Numbered
<1>. QED
  BY <1>1, <1>2 DEF Numbered

LEMMA AwaitedLess ==
    ASSUME \A t \in Threads : pc'[t] = "wait_ack" => pc[t] = "wait_ack" /\ cur'[t] = cur[t]
    PROVE  Awaited' \subseteq Awaited
BY DEF Awaited

\* The request that is sent takes the next number, and no response has it yet.
LEMMA SendNumbered ==
    ASSUME OneCaller, TypeOK, Numbered, OwnResponse, NEW t \in Threads, NEW r \in Request,
           SendOkay(t, r), r.seq = tx_seq_num, r.id < nreqs', \A p \in Sent : p[2] < r.id,
           nreqs' \in Nat, tx_seq_num < nreqs', Unwrapped'
    PROVE  Numbered' /\ OwnResponse' /\ tx_seq_num' = tx_seq_num + 1
<1>. DEFINE new == <<r.seq, r.id>>
<1>1. tx_seq_num' = tx_seq_num + 1 /\ tx_seq_num \in Nat
  <2>1. SeqNums \in Nat /\ nreqs' < SeqNums /\ tx_seq_num \in Nat
    BY ConstantsAssumption DEF TypeOK, Unwrapped
  <2>2. tx_seq_num + 1 \in 0 .. SeqNums - 1
    BY <2>1
  <2>3. tx_seq_num' = (tx_seq_num + 1) % SeqNums
    BY DEF SendOkay, NextSeqNum
  <2>. QED
    BY <2>1, <2>2, <2>3
<1>2. ~\E i \in DOMAIN resp_queue : MeantFor(resp_queue[i], r)
  <2>1. SUFFICES ASSUME NEW i \in DOMAIN resp_queue PROVE resp_queue[i].seq # r.seq
    BY DEF MeantFor
  <2>2. <<resp_queue[i].seq, resp_queue[i].id>> \in Sent
    BY DEF Sent, Marks
  <2>3. resp_queue[i].seq < tx_seq_num /\ resp_queue[i].seq \in Nat
    BY <2>2, MarksType DEF Numbered
  <2>. QED
    BY <1>1, <2>3
<1>3. /\ UNCHANGED <<rx, respnet, resp_queue>> /\ req_queue' = Append(req_queue, r)
      /\ reqnet' = Append(reqnet, r)
  BY <1>2 DEF SendOkay, TakeResponse, Enqueue, handler
<1>4. \/ Return(t, "sent", "none")
      \/ /\ pc' = [pc EXCEPT ![t] = "wait_ack"] /\ cur' = [cur EXCEPT ![t] = <<r>>]
         /\ UNCHANGED outcome
  BY <1>2 DEF SendOkay, TakeResponse
<1>5. pc'[t] # "wait_buff" /\ (pc'[t] = "wait_ack" => cur'[t][1] = r)
  BY <1>4 DEF Return, TypeOK
<1>6. \A u \in Threads : u = t
  BY DEF OneCaller
<1>7. OwnResponse'
  <2>1. outcome'[t].got # "other"
    BY <1>4 DEF Return, OwnResponse, TypeOK
  <2>. QED
    BY <1>6, <2>1 DEF OwnResponse
<1>8. Sent' \subseteq Sent \union {new}
  <2>1. Awaited' \subseteq {new}
    BY <1>5, <1>6 DEF Awaited
  <2>2. Marks(req_queue') \subseteq Marks(req_queue) \union {new}
    BY <1>3, MarksAppend DEF TypeOK
  <2>3. Marks(reqnet') \subseteq Marks(reqnet) \union {new}
    BY <1>3, MarksAppend DEF TypeOK
  <2>4. Marks(rx') = Marks(rx) /\ Marks(respnet') = Marks(respnet)
        /\ Marks(resp_queue') = Marks(resp_queue)
    BY <1>3
  <2>. HIDE DEF new
  <2>. QED
    BY <2>1, <2>2, <2>3, <2>4 DEF Sent
<1>9. new[1] = tx_seq_num /\ new[2] = r.id /\ r.id \in Nat
  BY DEF Request
<1>. HIDE DEF new
<1>10. ASSUME NEW p \in Sent'
       PROVE  \/ p = new
              \/ /\ p \in Sent /\ p[1] \in Nat /\ p[2] \in Nat
                 /\ p[1] < tx_seq_num /\ p[2] < r.id
  <2>1. CASE p \in Sent
    <3>1. p[1] \in Nat /\ p[2] \in Nat
      BY <2>1, MarksType
    <3>2. p[1] < tx_seq_num /\ p[2] < r.id
      BY <2>1 DEF Numbered
    <3>. QED
      BY <2>1, <3>1, <3>2
  <2>. QED
    BY <1>8, <2>1
<1>11. tx_seq_num' <= nreqs' /\ \A p \in Sent' : p[1] < tx_seq_num' /\ p[2] < nreqs'
  BY <1>1, <1>9, <1>10
<1>12. ASSUME NEW p \in Sent', NEW q \in Sent' PROVE p[1] = q[1] <=> p[2] = q[2]
  <2>1. CASE p \in Sent /\ q \in Sent
    BY <2>1 DEF Numbered
  <2>2. CASE p = new \/ q = new
    BY <1>1, <1>9, <1>10, <2>2
  <2>. QED
    BY <1>10, <2>1, <2>2
<1>13. \A u \in Threads : pc'[u] # "wait_buff"
  BY <1>5, <1>6
<1>. QED
  BY <1>1, <1>7, <1>11, <1>12, <1>13 DEF Numbered

LEMMA CallNumbered ==
    ASSUME OneCaller, TypeOK, TypeOK', Numbered, OwnResponse, Unwrapped', NEW t \in Threads,
           NEW c \in Calls[t], SendRequestPacket(t, c)
    PROVE  /\ Numbered' /\ OwnResponse'
           /\ \/ UNCHANGED <<req_queue, tx_seq_num, words, rx, skip, corrupted, net>>
              \/ SendOkay(t, MakeRequest(c)) /\ tx_seq_num' = tx_seq_num + 1
<1>. DEFINE r == MakeRequest(c)
<1>1. r \in Request /\ r.seq = tx_seq_num /\ r.id = nreqs /\ nreqs \in Nat
  BY MakeRequestType DEF MakeRequest, TypeOK
<1>2. nreqs' = nreqs + 1 /\ tx_seq_num <= nreqs /\ \A p \in Sent : p[2] < nreqs
  BY DEF SendRequestPacket, Numbered
<1>3. tx_seq_num \in Nat /\ Sent \subseteq Nat \X Nat
  <2>1. tx_seq_num \in Nat
    BY DEF TypeOK
  <2>. QED
    BY <2>1, MarksType
<1>. HIDE DEF r
<1>4. CASE SendOkay(t, r)
  <2>1. r.id < nreqs' /\ nreqs' \in Nat /\ tx_seq_num < nreqs'
    BY <1>1, <1>2, <1>3
  <2>. QED
    BY <1>1, <1>2, <1>4, <2>1, SendNumbered DEF r
<1>5. CASE /\ pc' = [pc EXCEPT ![t] = "wait_buff"] /\ cur' = [cur EXCEPT ![t] = <<r>>]
           /\ UNCHANGED <<tx_seq_num, req_queue, resp_queue, outcome, rx, respnet, reqnet>>
           /\ UNCHANGED <<skip, corrupted, words>>
  <2>1. \A u \in Threads : u = t
    BY DEF OneCaller
  <2>2. pc'[t] = "wait_buff" /\ cur'[t][1] = r
    BY <1>5 DEF TypeOK
  <2>3. Awaited' = {}
    BY <2>1, <2>2 DEF Awaited
  <2>4. Sent' \subseteq Sent
    BY <1>5, <2>3 DEF Sent
  <2>5. tx_seq_num' <= nreqs' /\ \A p \in Sent' : p[1] < tx_seq_num' /\ p[2] < nreqs'
    <3>1. \A p \in Sent' : p \in Sent /\ p[1] < tx_seq_num /\ p[2] < nreqs /\ p[2] \in Nat
      BY <1>2, <1>3, <2>4 DEF Numbered
    <3>. QED
      BY <1>1, <1>2, <1>3, <1>5, <3>1
  <2>6. \A p, q \in Sent' : p[1] = q[1] <=> p[2] = q[2]
    BY <2>4 DEF Numbered
  <2>7. /\ cur'[t][1].seq = tx_seq_num' /\ tx_seq_num' < nreqs' /\ cur'[t][1].id = nreqs' - 1
        /\ \A p \in Sent' : p[2] < nreqs' - 1
    BY <1>1, <1>2, <1>3, <1>5, <2>2, <2>4
  <2>8. Numbered'
    BY <2>1, <2>5, <2>6, <2>7 DEF Numbered
  <2>9. OwnResponse'
    BY <1>5 DEF OwnResponse
  <2>. QED
    BY <1>5, <2>8, <2>9 DEF net
<1>6. ~SendThrows(t, r)
  BY DEF SendThrows, OneCaller
<1>. QED
  BY <1>4, <1>5, <1>6 DEF SendRequestPacket, r, handler, net

LEMMA BuffFreeNumbered ==
    ASSUME OneCaller, TypeOK, Numbered, OwnResponse, Unwrapped', NEW t \in Threads, BuffFree(t)
    PROVE  /\ Numbered' /\ OwnResponse' /\ tx_seq_num' = tx_seq_num + 1
           /\ \E r \in Request : SendOkay(t, r) /\ r.ofs = words /\ r.seq = tx_seq_num
<1>. DEFINE r == [cur[t][1] EXCEPT !.ofs = words]
<1>1. cur[t][1] \in Request /\ words \in Nat /\ pc[t] = "wait_buff" /\ UNCHANGED nreqs
  BY MarksType DEF BuffFree, TypeOK
<1>2. r \in Request /\ r.ofs = words /\ r.seq = cur[t][1].seq /\ r.id = cur[t][1].id
  BY <1>1 DEF Request
<1>3. SendOkay(t, r)
  BY DEF BuffFree, SendThrows, OneCaller
<1>. HIDE DEF r
<1>4. /\ r.seq = tx_seq_num /\ tx_seq_num < nreqs /\ r.id = nreqs - 1
      /\ \A p \in Sent : p[2] < nreqs - 1
  BY <1>1, <1>2 DEF Numbered
<1>5. nreqs \in Nat /\ r.id < nreqs' /\ nreqs' \in Nat /\ tx_seq_num < nreqs'
  BY <1>1, <1>4 DEF TypeOK
<1>. QED
  BY <1>2, <1>3, <1>4, <1>5, SendNumbered

\* A call that ends takes its response, or none.
LEMMA ReturnNumbered ==
    ASSUME OneCaller, TypeOK, Numbered, OwnResponse, NEW t \in Threads,
           BuffTimeout(t) \/ AckReady(t) \/ AckTimeout(t)
    PROVE  Numbered' /\ OwnResponse'
<1>1. /\ UNCHANGED <<tx_seq_num, nreqs, req_queue, rx, respnet, reqnet>>
      /\ \E k, g : Return(t, k, g)
  BY DEF BuffTimeout, AckReady, AckTimeout, TakeResponse, handler, net, history
<1>2. pc'[t] = "idle" /\ \A u \in Threads : u = t
  BY <1>1 DEF Return, TypeOK, OneCaller
<1>3. Awaited' = {}
  BY <1>2 DEF Awaited
<1>4. Marks(resp_queue') \subseteq Marks(resp_queue)
  <2>1. CASE AckReady(t)
    <3>1. PICK i \in DOMAIN resp_queue : resp_queue' = RemoveAt(resp_queue, i)
      BY <2>1 DEF AckReady, TakeResponse
    <3>. QED
      BY <3>1, MarksRemoveAt DEF TypeOK
  <2>. QED
    BY <2>1 DEF BuffTimeout, AckTimeout
<1>5. Sent' \subseteq Sent
  BY <1>1, <1>3, <1>4 DEF Sent
<1>6. OwnResponse'
  <2>1. CASE AckReady(t)
    <3>. DEFINE r == cur[t][1]
    <3>1. PICK i \in DOMAIN resp_queue :
            /\ MeantFor(resp_queue[i], r)
            /\ Return(t, ValidateAck(resp_queue[i]), IF resp_queue[i].id = r.id THEN "own" ELSE "other")
      BY <2>1 DEF AckReady, TakeResponse
    <3>2. <<resp_queue[i].seq, resp_queue[i].id>> \in Sent
      BY DEF Sent, Marks
    <3>3. <<r.seq, r.id>> \in Sent
      BY <2>1 DEF AckReady, Sent, Awaited
    <3>4. resp_queue[i].seq = r.seq
      BY <3>1 DEF MeantFor
    <3>5. resp_queue[i].id = r.id
      BY <3>2, <3>3, <3>4 DEF Numbered
    <3>6. outcome'[t].got = "own"
      BY <3>1, <3>5 DEF Return, TypeOK
    <3>. QED
      BY <1>2, <3>6 DEF OwnResponse
  <2>2. CASE BuffTimeout(t) \/ AckTimeout(t)
    <3>1. outcome'[t].got = "none"
      BY <2>2 DEF BuffTimeout, AckTimeout, Return, TypeOK
    <3>. QED
      BY <1>2, <3>1 DEF OwnResponse
  <2>. QED
    BY <2>1, <2>2
<1>7. Numbered'
  <2>1. \A u \in Threads : pc'[u] = "wait_buff" => pc[u] = "wait_buff" /\ cur'[u] = cur[u]
    BY <1>2
  <2>. QED
    BY <1>1, <1>5, <2>1, NumberedKept
<1>. QED
  BY <1>6, <1>7

\* The handler, the block and the link make nothing new.
LEMMA PacketsNumbered ==
    ASSUME TypeOK, Numbered, OwnResponse, UNCHANGED <<pc, cur, outcome, tx_seq_num, nreqs>>,
           Marks(req_queue)' \union Marks(resp_queue)' \union Marks(rx)' \union Marks(respnet)'
               \union Marks(reqnet)' \subseteq Sent
    PROVE  Numbered' /\ OwnResponse'
<1>1. Awaited' = Awaited /\ UNCHANGED <<pc, cur, outcome>>
  BY DEF Awaited, client
<1>2. Awaited \subseteq Sent
  BY DEF Sent
<1>3. Sent' \subseteq Sent
  BY <1>1, <1>2 DEF Sent
<1>. QED
  BY <1>1, <1>3, NumberedKept DEF OwnResponse

LEMMA HandlerNumbered ==
    ASSUME TypeOK, Numbered, OwnResponse, HandleRecv
    PROVE  Numbered' /\ OwnResponse'
<1>1. UNCHANGED <<pc, cur, outcome, tx_seq_num, nreqs, reqnet>>
  BY DEF HandleRecv, HandleAck, IgnoreAck, AcceptAck, ProcessIncorrectResponse,
     ProcessCorrectResponse, PopPastEnd, HandleAsync, client, net, history
<1>2. /\ Marks(req_queue) \subseteq Sent /\ Marks(resp_queue) \subseteq Sent
      /\ Marks(rx) \subseteq Sent /\ Marks(respnet) \subseteq Sent /\ Marks(reqnet) \subseteq Sent
  BY DEF Sent
<1>3. CASE IgnoreAck \/ AcceptAck
  <2>1. /\ UNCHANGED <<req_queue, resp_queue>> /\ respnet # <<>> /\ respnet' = Tail(respnet)
        /\ rx' = rx \/ rx' = <<Head(respnet)>>
    BY <1>3 DEF IgnoreAck, AcceptAck, handler
  <2>2. Marks(respnet)' \subseteq Sent /\ <<Head(respnet).seq, Head(respnet).id>> \in Sent
    BY <1>2, <2>1, MarksTail DEF TypeOK
  <2>3. Marks(<<Head(respnet)>>) = {<<Head(respnet).seq, Head(respnet).id>>}
    BY DEF Marks
  <2>4. Marks(rx)' \subseteq Sent
    BY <1>2, <2>1, <2>2, <2>3
  <2>. QED
    BY <1>1, <1>2, <2>1, <2>2, <2>4, PacketsNumbered
<1>4. CASE ProcessIncorrectResponse \/ ProcessCorrectResponse
  <2>1. /\ req_queue # <<>> /\ req_queue' = Tail(req_queue) /\ UNCHANGED respnet
        /\ rx' = rx \/ rx' = <<>>
    BY <1>4 DEF ProcessIncorrectResponse, ProcessCorrectResponse, PopRequest, net
  <2>2. Marks(req_queue)' \subseteq Sent /\ <<Head(req_queue).seq, Head(req_queue).id>> \in Sent
    BY <1>2, <2>1, MarksTail DEF TypeOK
  <2>3. Marks(rx)' \subseteq Sent
    BY <1>2, <2>1 DEF Marks
  <2>4. PICK m \in Response : /\ resp_queue' \in {resp_queue, Append(resp_queue, m)}
                              /\ <<m.seq, m.id>> \in Sent
    <3>1. CASE ProcessIncorrectResponse
      <4>. DEFINE r == Head(req_queue)
                  m == Fabricated(r)
      <4>1. r \in Request
        BY <2>1 DEF TypeOK
      <4>2. resp_queue' \in {resp_queue, Append(resp_queue, m)}
        BY <3>1 DEF ProcessIncorrectResponse, PushResponse
      <4>3. <<r.seq, r.id>> \in Sent
        BY <2>2
      <4>. HIDE DEF r
      <4>4. m \in Response /\ m.seq = r.seq /\ m.id = r.id
        BY <4>1 DEF Fabricated, Request, Response, Status
      <4>. HIDE DEF m
      <4>. QED
        BY <4>2, <4>3, <4>4
    <3>2. CASE ProcessCorrectResponse
      <4>1. rx # <<>>
        BY <3>2 DEF ProcessCorrectResponse
      <4>2. rx[1] \in Response /\ 1 \in DOMAIN rx
        BY <4>1 DEF TypeOK
      <4>3. <<rx[1].seq, rx[1].id>> \in Sent
        BY <1>2, <4>2 DEF Marks
      <4>. QED
        BY <3>2, <4>2, <4>3 DEF ProcessCorrectResponse, PushResponse
    <3>. QED
      BY <1>4, <3>1, <3>2
  <2>5. Marks(resp_queue)' \subseteq Sent
    <3>1. Marks(Append(resp_queue, m)) = Marks(resp_queue) \union {<<m.seq, m.id>>}
      BY MarksAppend DEF TypeOK
    <3>. QED
      BY <1>2, <2>4, <3>1
  <2>. QED
    BY <1>1, <1>2, <2>1, <2>2, <2>3, <2>5, PacketsNumbered
<1>5. CASE PopPastEnd \/ HandleAsync
  <2>1. UNCHANGED <<req_queue, resp_queue, rx, respnet>>
    BY <1>5 DEF PopPastEnd, HandleAsync, net, handler
  <2>. QED
    BY <1>1, <1>2, <2>1, PacketsNumbered
<1>. QED
  BY <1>3, <1>4, <1>5 DEF HandleRecv, HandleAck

LEMMA LinkNumbered ==
    ASSUME TypeOK, Numbered, OwnResponse, Environment
    PROVE  Numbered' /\ OwnResponse'
<1>1. UNCHANGED <<pc, cur, outcome, tx_seq_num, nreqs, req_queue, resp_queue, rx>>
  BY DEF Environment, BlockResponds, LoseRequest, LoseResponse, DuplicateResponse,
     BlockSendsAsync, BlockTakesAsyncAck, client, handler, history
<1>2. /\ Marks(req_queue) \subseteq Sent /\ Marks(resp_queue) \subseteq Sent
      /\ Marks(rx) \subseteq Sent /\ Marks(respnet) \subseteq Sent /\ Marks(reqnet) \subseteq Sent
  BY DEF Sent
<1>3. Marks(reqnet)' \subseteq Sent
  <2>1. CASE BlockResponds \/ LoseRequest
    BY <1>2, <2>1, MarksTail DEF BlockResponds, LoseRequest, TypeOK
  <2>2. CASE LoseResponse \/ DuplicateResponse \/ BlockSendsAsync \/ BlockTakesAsyncAck
    BY <1>2, <2>2 DEF LoseResponse, DuplicateResponse, BlockSendsAsync, BlockTakesAsyncAck, net
  <2>. QED
    BY <2>1, <2>2 DEF Environment
<1>4. Marks(respnet)' \subseteq Sent
  <2>1. CASE BlockResponds
    <3>1. reqnet # <<>> /\ Head(reqnet) \in Request
      BY <2>1 DEF BlockResponds, TypeOK
    <3>2. PICK st \in Status : respnet' = Append(respnet,
              [id |-> Head(reqnet).id, seq |-> Head(reqnet).seq, op |-> Head(reqnet).op,
               addr |-> Head(reqnet).addr, status |-> st, dropped |-> FALSE])
      BY <2>1 DEF BlockResponds, Status
    <3>. DEFINE m == [id |-> Head(reqnet).id, seq |-> Head(reqnet).seq, op |-> Head(reqnet).op,
                      addr |-> Head(reqnet).addr, status |-> st, dropped |-> FALSE]
    <3>3. m \in Response /\ <<m.seq, m.id>> = <<Head(reqnet).seq, Head(reqnet).id>>
      BY <3>1, <3>2 DEF Request, Response
    <3>4. respnet' = Append(respnet, m)
      BY <3>2
    <3>. HIDE DEF m
    <3>5. Marks(respnet') = Marks(respnet) \union {<<m.seq, m.id>>}
      BY <3>3, <3>4, MarksAppend DEF TypeOK
    <3>6. <<Head(reqnet).seq, Head(reqnet).id>> \in Marks(reqnet)
      BY <3>1, MarksTail DEF TypeOK
    <3>. QED
      BY <1>2, <3>3, <3>5, <3>6
  <2>2. CASE LoseResponse
    BY <1>2, <2>2, MarksTail DEF LoseResponse, TypeOK
  <2>3. CASE DuplicateResponse
    <3>1. respnet # <<>> /\ respnet' = <<Head(respnet)>> \o respnet
      BY <2>3 DEF DuplicateResponse
    <3>2. Head(respnet) \in Response /\ respnet \in Seq(Response)
      BY <3>1 DEF TypeOK
    <3>. DEFINE h == Head(respnet)
    <3>3. <<h.seq, h.id>> \in Marks(respnet)
      BY <3>1, <3>2, MarksTail
    <3>. HIDE DEF h
    <3>4. Marks(respnet') = Marks(respnet) \union {<<h.seq, h.id>>}
      BY <3>1, <3>2, MarksCons DEF h
    <3>. QED
      BY <1>2, <3>3, <3>4
  <2>4. CASE LoseRequest \/ BlockSendsAsync \/ BlockTakesAsyncAck
    BY <1>2, <2>4 DEF LoseRequest, BlockSendsAsync, BlockTakesAsyncAck, net
  <2>. QED
    BY <2>1, <2>2, <2>3, <2>4 DEF Environment
<1>. QED
  BY <1>1, <1>2, <1>3, <1>4, PacketsNumbered

-----------------------------------------------------------------------------
(* Responses count down to their requests *)

\* In an int8_t, numbers below 128 have their difference.
LEMMA Difference ==
    ASSUME NEW a \in 0 .. 127, NEW b \in 0 .. 127
    PROVE  SeqNumDiff(a, b) = a - b
<1>1. a - b + 128 \in 0 .. 255
  OBVIOUS
<1>2. \A n \in 0 .. 255 : n % 256 = n
  OBVIOUS
<1>. QED
  BY <1>1, <1>2 DEF SeqNumDiff

LEMMA HeadDifference ==
    ASSUME TypeOK, Numbered, Consecutive, respnet # <<>>, req_queue # <<>>
    PROVE  /\ HeadDiff = Head(respnet).seq - (tx_seq_num - Len(req_queue))
           /\ HeadDiff \in Int /\ HeadDiff < Len(req_queue)
           /\ Len(req_queue) \in Nat \ {0} /\ tx_seq_num \in Nat /\ Head(respnet).seq \in Nat
<1>1. /\ Head(respnet) \in Response /\ Head(respnet) = respnet[1] /\ 1 \in DOMAIN respnet
      /\ Head(req_queue) \in Request /\ Head(req_queue) = req_queue[1]
      /\ Len(req_queue) \in Nat \ {0} /\ tx_seq_num \in Nat
  BY DEF TypeOK
<1>. DEFINE a == Head(respnet).seq
            b == Head(req_queue).seq
            n == Len(req_queue)
<1>2. a \in 0 .. 127 /\ b \in 0 .. 127
  <2>1. SeqNums \in 1 .. 128 /\ a \in 0 .. SeqNums - 1 /\ b \in 0 .. SeqNums - 1
    BY <1>1, ConstantsAssumption DEF Response, Request
  <2>. HIDE DEF a, b
  <2>. QED
    BY <2>1
<1>3. a < tx_seq_num
  <2>1. <<respnet[1].seq, respnet[1].id>> \in Sent
    BY <1>1 DEF Sent, Marks
  <2>. QED
    BY <1>1, <2>1 DEF Numbered
<1>4. b = tx_seq_num - n
  <2>1. 1 \in 1 .. n
    BY <1>1
  <2>2. req_queue[1].seq = tx_seq_num - n + 1 - 1
    BY <2>1 DEF Consecutive
  <2>3. n \in Nat /\ tx_seq_num \in Nat
    BY <1>1
  <2>4. b = tx_seq_num - n + 1 - 1
    BY <1>1, <2>2
  <2>. HIDE DEF b, n
  <2>. QED
    BY <2>3, <2>4
<1>5. HeadDiff = SeqNumDiff(a, b)
  BY DEF HeadDiff
<1>6. n \in Nat /\ n # 0
  BY <1>1
<1>. HIDE DEF a, b, n
<1>7. HeadDiff = a - b
  BY <1>2, <1>5, Difference
<1>8. HeadDiff = a - (tx_seq_num - n) /\ HeadDiff \in Int /\ HeadDiff < n /\ a \in Nat
  BY <1>1, <1>2, <1>3, <1>4, <1>6, <1>7
<1>. QED
  BY <1>1, <1>8 DEF a, n

LEMMA SendMatched ==
    ASSUME TypeOK, Consecutive, Matched, NEW t, NEW r \in Request, SendOkay(t, r),
           r.seq = tx_seq_num, tx_seq_num' = tx_seq_num + 1
    PROVE  Consecutive' /\ Matched'
<1>. DEFINE n == Len(req_queue)
            q == req_queue'
<1>1. req_queue' = Append(req_queue, r) /\ UNCHANGED <<rx, skip, corrupted>>
  BY DEF SendOkay, Enqueue, handler
<1>2. /\ n \in Nat /\ tx_seq_num \in Nat /\ skip \in Nat /\ Len(q) = n + 1 /\ q[n + 1] = r
      /\ \A i \in 1 .. n : q[i] = req_queue[i]
  BY <1>1 DEF TypeOK
<1>. HIDE DEF q
<1>3. \A i \in 1 .. n : req_queue[i].seq = tx_seq_num - n + i - 1
  BY DEF Consecutive
<1>. HIDE DEF n
<1>4. ASSUME NEW i \in 1 .. n + 1 PROVE q[i].seq = tx_seq_num' - (n + 1) + i - 1
  <2>1. CASE i = n + 1
    BY <1>2, <2>1
  <2>2. CASE i # n + 1
    <3>1. i \in 1 .. n
      BY <1>2, <2>2
    <3>. QED
      BY <1>2, <1>3, <3>1
  <2>. QED
    BY <2>1, <2>2
<1>5. Consecutive'
  <2>1. \A i \in 1 .. Len(q) : q[i].seq = tx_seq_num' - Len(q) + i - 1
    BY <1>2, <1>4
  <2>. QED
    BY <2>1 DEF Consecutive, q
<1>6. rx # <<>> => skip < Len(q) /\ q[skip + 1].seq = rx[1].seq
  <2>1. SUFFICES ASSUME rx # <<>> PROVE skip < Len(q) /\ q[skip + 1].seq = rx[1].seq
    OBVIOUS
  <2>2. skip < n /\ req_queue[skip + 1].seq = rx[1].seq
    BY <2>1 DEF Matched, n
  <2>3. skip + 1 \in 1 .. n
    BY <1>2, <2>2
  <2>. QED
    BY <1>2, <2>2, <2>3
<1>. QED
  BY <1>1, <1>5, <1>6 DEF Matched, q

LEMMA PopMatched ==
    ASSUME TypeOK, Consecutive, Matched, ProcessIncorrectResponse \/ ProcessCorrectResponse
    PROVE  Consecutive' /\ Matched'
<1>. DEFINE n == Len(req_queue)
            q == req_queue'
<1>1. /\ req_queue # <<>> /\ req_queue' = Tail(req_queue) /\ UNCHANGED <<corrupted, tx_seq_num>>
      /\ rx # <<>>
      /\ rx' = <<>> \/ (rx' = rx /\ skip > 0 /\ skip' = skip - 1)
  BY DEF ProcessIncorrectResponse, ProcessCorrectResponse, PopRequest
<1>2. /\ n \in Nat /\ n # 0 /\ tx_seq_num \in Nat /\ skip \in Nat /\ Len(q) = n - 1
      /\ \A i \in 1 .. n - 1 : q[i] = req_queue[i + 1]
  BY <1>1 DEF TypeOK
<1>. HIDE DEF q
<1>3. \A i \in 1 .. n : req_queue[i].seq = tx_seq_num - n + i - 1
  BY DEF Consecutive
<1>4. skip < n /\ req_queue[skip + 1].seq = rx[1].seq
  BY <1>1 DEF Matched
<1>. HIDE DEF n
<1>5. ASSUME NEW i \in 1 .. n - 1 PROVE q[i].seq = tx_seq_num - (n - 1) + i - 1
  <2>1. i + 1 \in 1 .. n
    BY <1>2
  <2>2. req_queue[i + 1].seq = tx_seq_num - n + (i + 1) - 1
    BY <1>3, <2>1
  <2>. QED
    BY <1>2, <2>2
<1>6. Consecutive'
  <2>1. \A i \in 1 .. Len(q) : q[i].seq = tx_seq_num - Len(q) + i - 1
    BY <1>2, <1>5
  <2>. QED
    BY <1>1, <2>1 DEF Consecutive, q
<1>7. rx' # <<>> => skip' < Len(q) /\ q[skip' + 1].seq = rx'[1].seq
  <2>1. SUFFICES ASSUME rx' # <<>> PROVE skip' < Len(q) /\ q[skip' + 1].seq = rx'[1].seq
    OBVIOUS
  <2>2. rx' = rx /\ skip' = skip - 1 /\ skip > 0
    BY <1>1, <2>1
  <2>3. skip' + 1 \in 1 .. n - 1 /\ skip' + 1 + 1 = skip + 1 /\ skip' < n - 1
    BY <1>2, <1>4, <2>2
  <2>. QED
    BY <1>2, <1>4, <2>2, <2>3
<1>. QED
  BY <1>1, <1>6, <1>7 DEF Matched, q

LEMMA HandlerMatched ==
    ASSUME TypeOK, Numbered, Consecutive, Matched, HandleRecv
    PROVE  Consecutive' /\ Matched'
<1>1. CASE AcceptAck
  <2>1. /\ rx' = <<Head(respnet)>> /\ skip' = HeadDiff /\ respnet # <<>> /\ req_queue # <<>>
        /\ HeadDiff >= 0 /\ UNCHANGED <<tx_seq_num, req_queue, corrupted>>
    BY <1>1 DEF AcceptAck, NumDropped
  <2>2. /\ HeadDiff = Head(respnet).seq - (tx_seq_num - Len(req_queue))
        /\ HeadDiff \in Int /\ HeadDiff < Len(req_queue)
        /\ Len(req_queue) \in Nat \ {0} /\ tx_seq_num \in Nat /\ Head(respnet).seq \in Nat
    BY <2>1, HeadDifference
  <2>. DEFINE n == Len(req_queue)
              a == Head(respnet).seq
              d == HeadDiff
  <2>3. rx'[1].seq = a
    BY <2>1
  <2>4. \A i \in 1 .. n : req_queue[i].seq = tx_seq_num - n + i - 1
    BY DEF Consecutive
  <2>5. d = a - (tx_seq_num - n) /\ d \in Int /\ d < n /\ d >= 0 /\ n \in Nat /\ a \in Nat
    BY <2>1, <2>2
  <2>6. skip' = d /\ tx_seq_num \in Nat
    BY <2>1, <2>2
  <2>. HIDE DEF n, a, d
  <2>7. d + 1 \in 1 .. n /\ tx_seq_num - n + (d + 1) - 1 = a
    BY <2>5, <2>6
  <2>8. req_queue[d + 1].seq = a
    BY <2>4, <2>7
  <2>9. skip' < Len(req_queue') /\ req_queue'[skip' + 1].seq = rx'[1].seq
    BY <2>1, <2>3, <2>5, <2>6, <2>8 DEF n
  <2>. QED
    BY <2>1, <2>9 DEF Consecutive, Matched
<1>2. CASE ProcessIncorrectResponse \/ ProcessCorrectResponse
  BY <1>2, PopMatched
<1>3. CASE IgnoreAck \/ HandleAsync
  BY <1>3 DEF IgnoreAck, HandleAsync, handler, Consecutive, Matched
<1>4. ~PopPastEnd
  <2>1. SUFFICES ASSUME rx # <<>>, req_queue = <<>> PROVE FALSE
    BY DEF PopPastEnd
  <2>2. skip < Len(req_queue) /\ skip \in Nat
    BY <2>1 DEF Matched, TypeOK
  <2>3. Len(req_queue) = 0
    BY <2>1
  <2>. QED
    BY <2>2, <2>3
<1>. QED
  BY <1>1, <1>2, <1>3, <1>4 DEF HandleRecv, HandleAck

\* One step keeps the numbers apart until they wrap.
LEMMA NextUnwrapped ==
    ASSUME OneCaller, TypeOK, TypeOK', Numbered, Consecutive, Matched, OwnResponse,
           [Next]_vars, Unwrapped'
    PROVE  Numbered' /\ Consecutive' /\ Matched' /\ OwnResponse'
<1>5. ASSUME UNCHANGED <<pc, cur, outcome, tx_seq_num, nreqs, req_queue, resp_queue, rx, reqnet,
                        respnet, skip, corrupted>>
      PROVE  Numbered' /\ Consecutive' /\ Matched' /\ OwnResponse'
  <2>1. Marks(req_queue)' \union Marks(resp_queue)' \union Marks(rx)' \union Marks(respnet)'
            \union Marks(reqnet)' \subseteq Sent
    BY <1>5 DEF Sent
  <2>. QED
    BY <1>5, <2>1, PacketsNumbered DEF Consecutive, Matched
<1>1. CASE \E t \in Threads : ThreadStep(t)
  <2>1. PICK t \in Threads : ThreadStep(t)
    BY <1>1
  <2>2. ASSUME NEW r \in Request, SendOkay(t, r), r.seq = tx_seq_num,
               tx_seq_num' = tx_seq_num + 1
        PROVE  Consecutive' /\ Matched'
    BY <2>2, SendMatched
  <2>3. ASSUME UNCHANGED <<req_queue, tx_seq_num, rx, skip, corrupted>>
        PROVE  Consecutive' /\ Matched'
    BY <2>3 DEF Consecutive, Matched
  <2>4. CASE Poke32(t) \/ Peek32(t) \/ Sleep(t)
    <3>1. PICK c \in Calls[t] : SendRequestPacket(t, c)
      BY <2>4 DEF Poke32, Peek32, Sleep
    <3>2. Numbered' /\ OwnResponse'
      BY <3>1, CallNumbered
    <3>3. \/ UNCHANGED <<req_queue, tx_seq_num, words, rx, skip, corrupted, net>>
          \/ SendOkay(t, MakeRequest(c)) /\ tx_seq_num' = tx_seq_num + 1
      BY <3>1, CallNumbered
    <3>4. MakeRequest(c) \in Request /\ MakeRequest(c).seq = tx_seq_num
      BY MakeRequestType DEF MakeRequest
    <3>. QED
      BY <2>2, <2>3, <3>2, <3>3, <3>4
  <2>5. CASE BuffFree(t)
    <3>1. Numbered' /\ OwnResponse' /\ tx_seq_num' = tx_seq_num + 1
      BY <2>5, BuffFreeNumbered
    <3>2. PICK r \in Request : SendOkay(t, r) /\ r.seq = tx_seq_num
      BY <2>5, BuffFreeNumbered
    <3>. QED
      BY <2>2, <3>1, <3>2
  <2>6. CASE BuffTimeout(t) \/ AckReady(t) \/ AckTimeout(t)
    <3>1. UNCHANGED <<req_queue, tx_seq_num, rx, skip, corrupted>>
      BY <2>6 DEF BuffTimeout, AckReady, AckTimeout, handler
    <3>. QED
      BY <2>3, <2>6, <3>1, ReturnNumbered
  <2>7. CASE BuffStillFull(t)
    BY <1>5, <2>7 DEF BuffStillFull, handler, net, history
  <2>. QED
    BY <2>1, <2>4, <2>5, <2>6, <2>7 DEF ThreadStep
<1>2. CASE HandleRecv
  BY <1>2, HandlerNumbered, HandlerMatched
<1>3. CASE Environment
  <2>1. UNCHANGED <<req_queue, tx_seq_num, rx, skip, corrupted>>
    BY <1>3 DEF Environment, BlockResponds, LoseRequest, LoseResponse, DuplicateResponse,
       BlockSendsAsync, BlockTakesAsyncAck, handler
  <2>. QED
    BY <1>3, <2>1, LinkNumbered DEF Consecutive, Matched
<1>4. CASE UNCHANGED vars
  BY <1>4, <1>5 DEF vars, client, history, net, handler
<1>. QED
  BY <1>1, <1>2, <1>3, <1>4 DEF Next, Stopped

\* The number of requests only grows.
LEMMA RequestsGrow ==
    ASSUME TypeOK, TypeOK', [Next]_vars, Unwrapped'
    PROVE  Unwrapped
<1>1. nreqs' = nreqs \/ nreqs' = nreqs + 1
  <2>1. ASSUME NEW t \in Threads, ThreadStep(t) PROVE nreqs' = nreqs \/ nreqs' = nreqs + 1
    BY <2>1 DEF ThreadStep, Poke32, Peek32, Sleep, SendRequestPacket, BuffFree, BuffStillFull,
       BuffTimeout, AckReady, AckTimeout, history
  <2>2. ASSUME HandleRecv \/ Environment \/ UNCHANGED vars PROVE nreqs' = nreqs
    BY <2>2 DEF HandleRecv, HandleAck, IgnoreAck, AcceptAck, ProcessIncorrectResponse,
       ProcessCorrectResponse, PopPastEnd, HandleAsync, Environment, BlockResponds,
       LoseRequest, LoseResponse, DuplicateResponse, BlockSendsAsync, BlockTakesAsyncAck,
       vars, history
  <2>. QED
    BY <2>1, <2>2 DEF Next, Stopped
<1>2. nreqs \in Nat /\ SeqNums \in Nat
  BY ConstantsAssumption DEF TypeOK
<1>. QED
  BY <1>1, <1>2 DEF Unwrapped

Ordered == Numbered /\ Consecutive /\ Matched /\ OwnResponse

LEMMA OrderedBeforeWrap ==
    ASSUME OneCaller
    PROVE  Spec => [](TypeOK /\ (Unwrapped => Ordered))
<1>1. Init => Ordered
  BY DEF Init, Ordered, Numbered, Consecutive, Matched, OwnResponse, Sent, Marks, Awaited
<1>2. TypeOK /\ TypeOK' /\ (Unwrapped => Ordered) /\ [Next]_vars => (Unwrapped => Ordered)'
  BY NextUnwrapped, RequestsGrow DEF Ordered
<1>. QED
  BY <1>1, <1>2, TypeCorrect, PTL DEF Spec

\* While the sequence numbers have not wrapped, a thread that makes calls one
\* after the other returns from none of them with the response to another
\* (wait_for_ack), although responses are lost, duplicated and late, and calls
\* that time out leave theirs behind.
THEOREM ResponsesAreOwn ==
    ASSUME OneCaller
    PROVE  Spec => [](Unwrapped => OwnResponse)
<1>1. (Unwrapped => Ordered) => (Unwrapped => OwnResponse)
  BY DEF Ordered
<1>. QED
  BY <1>1, OrderedBeforeWrap, PTL

\* While the sequence numbers have not wrapped, handle_recv takes a response for
\* a reordered one only if its request is not outstanding any more: the sign of
\* the difference in an int8_t tells old from new.
THEOREM OnlySeenAreIgnored ==
    ASSUME OneCaller
    PROVE  Spec => [](Unwrapped => IgnoredOnlyIfSeen)
<1>1. ASSUME TypeOK, Ordered PROVE IgnoredOnlyIfSeen
  <2>1. SUFFICES ASSUME respnet # <<>>, req_queue # <<>>, HeadDiff < 0,
                        NEW i \in DOMAIN req_queue, req_queue[i].id = Head(respnet).id
                 PROVE  FALSE
    BY DEF IgnoredOnlyIfSeen, Ids
  <2>. DEFINE n == Len(req_queue)
              a == Head(respnet).seq
              d == HeadDiff
              b == req_queue[i].seq
  <2>2. /\ d = a - (tx_seq_num - n) /\ n \in Nat \ {0} /\ tx_seq_num \in Nat /\ a \in Nat
    BY <1>1, <2>1, HeadDifference DEF Ordered
  <2>3. b = tx_seq_num - n + i - 1 /\ i \in 1 .. n
    BY <1>1, <2>1 DEF Ordered, Consecutive, TypeOK
  <2>4. a = b
    <3>1. Head(respnet) = respnet[1] /\ 1 \in DOMAIN respnet
      BY <1>1, <2>1 DEF TypeOK
    <3>2. <<a, Head(respnet).id>> \in Sent /\ <<b, req_queue[i].id>> \in Sent
      BY <2>1, <3>1 DEF Sent, Marks
    <3>. QED
      BY <1>1, <2>1, <3>2 DEF Ordered, Numbered
  <2>5. d < 0
    BY <2>1
  <2>. HIDE DEF n, a, d, b
  <2>. QED
    BY <2>2, <2>3, <2>4, <2>5
<1>2. TypeOK /\ (Unwrapped => Ordered) => (Unwrapped => IgnoredOnlyIfSeen)
  BY <1>1
<1>. QED
  BY <1>2, OrderedBeforeWrap, PTL

\* Before they wrap, the response that handle_recv accepts counts down to the
\* request it answers on a link that loses and duplicates packets too.
THEOREM MatchingBeforeWrap ==
    ASSUME OneCaller
    PROVE  Spec => [](Unwrapped => ResponseFindsItsRequest)
<1>1. ASSUME TypeOK, Ordered PROVE ResponseFindsItsRequest
  <2>1. SUFFICES ASSUME rx # <<>>
                 PROVE  skip < Len(req_queue) /\ req_queue[skip + 1].id = rx[1].id
    BY <1>1 DEF ResponseFindsItsRequest, Ordered, Matched
  <2>2. skip < Len(req_queue) /\ req_queue[skip + 1].seq = rx[1].seq
    BY <1>1, <2>1 DEF Ordered, Matched
  <2>3. skip \in Nat /\ Len(req_queue) \in Nat /\ DOMAIN req_queue = 1 .. Len(req_queue)
        /\ 1 \in DOMAIN rx
    BY <1>1, <2>1 DEF TypeOK
  <2>4. skip + 1 \in DOMAIN req_queue
    BY <2>2, <2>3
  <2>5. /\ <<req_queue[skip + 1].seq, req_queue[skip + 1].id>> \in Sent
        /\ <<rx[1].seq, rx[1].id>> \in Sent
    BY <2>3, <2>4 DEF Sent, Marks
  <2>. QED
    BY <1>1, <2>2, <2>5 DEF Ordered, Numbered
<1>2. TypeOK /\ (Unwrapped => Ordered) => (Unwrapped => ResponseFindsItsRequest)
  BY <1>1
<1>. QED
  BY <1>2, OrderedBeforeWrap, PTL

-----------------------------------------------------------------------------
(* The block's buffer on such a link *)

LEMMA InTurnAppend ==
    ASSUME NEW s \in Seq(Request), NEW e \in Request, InTurn(s),
           \A i \in 1 .. Len(s) : s[i].seq < e.seq /\ s[i].ofs + GetPayloadSize(s[i]) <= e.ofs
    PROVE  InTurn(Append(s, e))
<1>. DEFINE a == Append(s, e)
            n == Len(s)
<1>1. n \in Nat /\ Len(a) = n + 1 /\ a[n + 1] = e /\ \A i \in 1 .. n : a[i] = s[i]
  OBVIOUS
<1>. HIDE DEF a
<1>2. ASSUME NEW i \in 1 .. Len(a), NEW j \in 1 .. Len(a), i < j
      PROVE  a[i].seq < a[j].seq /\ a[i].ofs + GetPayloadSize(a[i]) <= a[j].ofs
  <2>1. i \in 1 .. n /\ j \in 1 .. n + 1
    BY <1>1, <1>2
  <2>2. CASE j = n + 1
    BY <1>1, <2>1, <2>2
  <2>3. CASE j # n + 1
    <3>1. j \in 1 .. n
      BY <1>1, <2>1, <2>3
    <3>. QED
      BY <1>1, <1>2, <2>1, <3>1 DEF InTurn
  <2>. QED
    BY <2>2, <2>3
<1>. QED
  BY <1>2 DEF InTurn, a

LEMMA InTurnTail ==
    ASSUME NEW s \in Seq(Request), s # <<>>, InTurn(s)
    PROVE  InTurn(Tail(s))
<1>. DEFINE a == Tail(s)
            n == Len(s)
<1>1. n \in Nat \ {0} /\ Len(a) = n - 1 /\ \A i \in 1 .. n - 1 : a[i] = s[i + 1]
  OBVIOUS
<1>. HIDE DEF a
<1>2. ASSUME NEW i \in 1 .. Len(a), NEW j \in 1 .. Len(a), i < j
      PROVE  a[i].seq < a[j].seq /\ a[i].ofs + GetPayloadSize(a[i]) <= a[j].ofs
  <2>1. i \in 1 .. n - 1 /\ j \in 1 .. n - 1 /\ i + 1 \in 1 .. n /\ j + 1 \in 1 .. n
        /\ i + 1 < j + 1
    BY <1>1, <1>2
  <2>2. /\ s[i + 1].seq < s[j + 1].seq
        /\ s[i + 1].ofs + GetPayloadSize(s[i + 1]) <= s[j + 1].ofs
    BY <2>1 DEF InTurn
  <2>. QED
    BY <1>1, <2>1, <2>2
<1>. QED
  BY <1>2 DEF InTurn, a

\* A request that is sent follows all the others.
LEMMA SendAhead ==
    ASSUME TypeOK, Numbered, Ahead, NEW t, NEW r \in Request, SendOkay(t, r),
           r.seq = tx_seq_num, r.ofs = words
    PROVE  Ahead'
<1>1. /\ req_queue' = Append(req_queue, r) /\ reqnet' = Append(reqnet, r)
      /\ words' = words + GetPayloadSize(r) /\ UNCHANGED <<rx, respnet>>
  BY DEF SendOkay, Enqueue, handler
<1>2. /\ req_queue \in Seq(Request) /\ reqnet \in Seq(Request) /\ words \in Nat
      /\ rx \in Seq(Response) /\ respnet \in Seq(Response)
  BY DEF TypeOK
<1>3. GetPayloadSize(r) \in 3 .. 5
  BY PayloadSize
<1>. DEFINE q == req_queue'
            w == reqnet'
            n == Len(req_queue)
            m == Len(reqnet)
<1>4. n \in Nat /\ Len(q) = n + 1 /\ q[n + 1] = r /\ \A i \in 1 .. n : q[i] = req_queue[i]
  BY <1>1, <1>2
<1>5. m \in Nat /\ Len(w) = m + 1 /\ w[m + 1] = r /\ \A i \in 1 .. m : w[i] = reqnet[i]
  BY <1>1, <1>2
<1>6. \A i \in 1 .. n : /\ req_queue[i].seq < r.seq
                      /\ req_queue[i].ofs + GetPayloadSize(req_queue[i]) <= r.ofs
  <2>1. SUFFICES ASSUME NEW i \in 1 .. n
                 PROVE  req_queue[i].seq < r.seq
                        /\ req_queue[i].ofs + GetPayloadSize(req_queue[i]) <= r.ofs
    OBVIOUS
  <2>2. <<req_queue[i].seq, req_queue[i].id>> \in Sent
    BY <1>2 DEF Sent, Marks
  <2>3. req_queue[i].seq < r.seq
    BY <2>2 DEF Numbered
  <2>4. req_queue[i].ofs + GetPayloadSize(req_queue[i]) <= r.ofs
    BY DEF Ahead, Queued
  <2>. QED
    BY <2>3, <2>4
<1>7. \A i \in 1 .. m : reqnet[i].seq < r.seq /\ reqnet[i].ofs + GetPayloadSize(reqnet[i]) <= r.ofs
  <2>1. SUFFICES ASSUME NEW i \in 1 .. m
                 PROVE  reqnet[i].seq < r.seq /\ reqnet[i].ofs + GetPayloadSize(reqnet[i]) <= r.ofs
    OBVIOUS
  <2>2. PICK j \in 1 .. n : reqnet[i] = req_queue[j]
    BY DEF Ahead, Outstanding
  <2>. QED
    BY <1>6, <2>2
<1>8. InTurn(req_queue') /\ InTurn(reqnet')
  <2>1. InTurn(req_queue) /\ InTurn(reqnet)
    BY DEF Ahead
  <2>2. InTurn(Append(req_queue, r))
    BY <1>2, <1>6, <2>1, InTurnAppend
  <2>3. InTurn(Append(reqnet, r))
    BY <1>2, <1>7, <2>1, InTurnAppend
  <2>. QED
    BY <1>1, <2>2, <2>3
<1>9. \A j \in 1 .. Len(rx) : rx[j].seq < r.seq
  <2>1. SUFFICES ASSUME NEW j \in 1 .. Len(rx) PROVE rx[j].seq < r.seq
    OBVIOUS
  <2>2. <<rx[j].seq, rx[j].id>> \in Sent
    <3>1. j \in DOMAIN rx
      BY <1>2
    <3>2. <<rx[j].seq, rx[j].id>> \in Marks(rx)
      BY <3>1 DEF Marks
    <3>. QED
      BY <3>2 DEF Sent
  <2>. QED
    BY <2>2 DEF Numbered
<1>10. \A j \in 1 .. Len(respnet) : respnet[j].seq < r.seq
  <2>1. SUFFICES ASSUME NEW j \in 1 .. Len(respnet) PROVE respnet[j].seq < r.seq
    OBVIOUS
  <2>2. <<respnet[j].seq, respnet[j].id>> \in Sent
    <3>1. j \in DOMAIN respnet
      BY <1>2
    <3>2. <<respnet[j].seq, respnet[j].id>> \in Marks(respnet)
      BY <3>1 DEF Marks
    <3>. QED
      BY <3>2 DEF Sent
  <2>. QED
    BY <2>2 DEF Numbered
<1>. HIDE DEF q, w
<1>11. Outstanding /\ Queued /\ Newer
  BY DEF Ahead
<1>12. \A i \in 1 .. Len(w) : \E j \in 1 .. Len(q) : w[i] = q[j]
  <2>1. SUFFICES ASSUME NEW i \in 1 .. m + 1 PROVE \E j \in 1 .. n + 1 : w[i] = q[j]
    BY <1>4, <1>5
  <2>2. CASE i = m + 1
    BY <1>4, <1>5, <2>2
  <2>3. CASE i # m + 1
    <3>1. i \in 1 .. m
      BY <1>5, <2>3
    <3>2. PICK j \in 1 .. n : reqnet[i] = req_queue[j]
      BY <1>11, <3>1 DEF Outstanding
    <3>3. j \in 1 .. n + 1 /\ w[i] = q[j]
      BY <1>4, <1>5, <3>1, <3>2
    <3>. QED
      BY <3>3
  <2>. QED
    BY <2>2, <2>3
<1>13. \A i \in 1 .. Len(q) : q[i].ofs + GetPayloadSize(q[i]) <= words'
  <2>1. SUFFICES ASSUME NEW i \in 1 .. n + 1 PROVE q[i].ofs + GetPayloadSize(q[i]) <= words'
    BY <1>4
  <2>2. CASE i = n + 1
    BY <1>1, <1>2, <1>3, <1>4, <2>2
  <2>3. CASE i # n + 1
    <3>1. i \in 1 .. n
      BY <1>4, <2>3
    <3>2. req_queue[i].ofs + GetPayloadSize(req_queue[i]) <= words
      BY <1>11, <3>1 DEF Queued
    <3>3. req_queue[i] \in Request
      BY <1>2, <3>1
    <3>4. req_queue[i].ofs \in Nat /\ GetPayloadSize(req_queue[i]) \in 3 .. 5
      BY <3>3, PayloadSize DEF Request
    <3>. DEFINE o == req_queue[i].ofs
                g == GetPayloadSize(req_queue[i])
    <3>5. q[i].ofs + GetPayloadSize(q[i]) = o + g
      BY <1>4, <3>1
    <3>6. o + g <= words' /\ o \in Nat /\ g \in Nat
      <4>1. o + g <= words /\ o \in Nat /\ g \in Nat
        BY <3>2, <3>4
      <4>2. words' \in Nat /\ words \in Nat /\ words <= words'
        BY <1>1, <1>2, <1>3
      <4>. HIDE DEF o, g
      <4>. QED
        BY <4>1, <4>2
    <3>. QED
      BY <3>5, <3>6
  <2>. QED
    BY <2>2, <2>3
<1>14. \A i \in 1 .. Len(w) : /\ \A j \in 1 .. Len(rx) : rx[j].seq < w[i].seq
                              /\ \A j \in 1 .. Len(respnet) : respnet[j].seq < w[i].seq
  <2>1. SUFFICES ASSUME NEW i \in 1 .. m + 1
                 PROVE  /\ \A j \in 1 .. Len(rx) : rx[j].seq < w[i].seq
                        /\ \A j \in 1 .. Len(respnet) : respnet[j].seq < w[i].seq
    BY <1>5
  <2>2. CASE i = m + 1
    BY <1>5, <1>9, <1>10, <2>2
  <2>3. CASE i # m + 1
    <3>1. i \in 1 .. m
      BY <1>5, <2>3
    <3>. QED
      BY <1>5, <1>11, <3>1 DEF Newer
  <2>. QED
    BY <2>2, <2>3
<1>15. (Outstanding /\ Queued /\ Newer)'
  <2>1. rx' = rx /\ respnet' = respnet
    BY <1>1
  <2>2. Outstanding'
    BY <1>12 DEF Outstanding, q, w
  <2>3. Queued'
    BY <1>13 DEF Queued, q, GetPayloadSize
  <2>4. Newer'
    BY <1>14, <2>1 DEF Newer, w
  <2>. QED
    BY <2>2, <2>3, <2>4
<1>16. InTurn(req_queue)' /\ InTurn(reqnet)'
  BY <1>8 DEF InTurn, GetPayloadSize
<1>. QED
  BY <1>15, <1>16 DEF Ahead

\* The request that is popped is not on its way any more: the response that is
\* applied is to it, or to one after it.
LEMMA PopAhead ==
    ASSUME TypeOK, Consecutive, Matched, Ahead,
           ProcessIncorrectResponse \/ ProcessCorrectResponse
    PROVE  Ahead'
<1>1. /\ req_queue # <<>> /\ req_queue' = Tail(req_queue) /\ rx # <<>>
      /\ rx' = <<>> \/ rx' = rx
      /\ UNCHANGED <<reqnet, respnet, words>>
  BY DEF ProcessIncorrectResponse, ProcessCorrectResponse, PopRequest, net, history
<1>2. /\ req_queue \in Seq(Request) /\ reqnet \in Seq(Request) /\ words \in Nat
      /\ tx_seq_num \in Nat /\ skip \in Nat /\ rx \in Seq(Response)
  BY DEF TypeOK
<1>. DEFINE q == req_queue'
            n == Len(req_queue)
            b == req_queue[1].seq
            a == rx[1].seq
<1>3. /\ n \in Nat \ {0} /\ Len(q) = n - 1 /\ \A i \in 1 .. n - 1 : q[i] = req_queue[i + 1]
      /\ 1 \in 1 .. Len(rx)
  BY <1>1, <1>2
<1>4. \A i \in 1 .. n : req_queue[i].seq = tx_seq_num - n + i - 1
  BY DEF Consecutive
<1>5. skip < n /\ req_queue[skip + 1].seq = a
  BY <1>1 DEF Matched
<1>6. InTurn(req_queue) /\ InTurn(reqnet) /\ Outstanding /\ Queued /\ Newer
  BY DEF Ahead
<1>. HIDE DEF q
<1>7. b <= a /\ a \in Int /\ b \in Int
  <2>1. skip + 1 \in 1 .. n /\ 1 \in 1 .. n
    BY <1>2, <1>3, <1>5
  <2>2. /\ req_queue[skip + 1].seq = tx_seq_num - n + (skip + 1) - 1
        /\ b = tx_seq_num - n + 1 - 1
    BY <1>4, <2>1
  <2>. HIDE DEF n, b, a
  <2>. QED
    BY <1>2, <1>3, <1>5, <2>2
<1>8. ASSUME NEW i \in 1 .. Len(reqnet) PROVE \E j \in 1 .. Len(q) : reqnet[i] = q[j]
  <2>1. PICK j \in 1 .. n : reqnet[i] = req_queue[j]
    BY <1>6 DEF Outstanding
  <2>2. a < reqnet[i].seq
    BY <1>3, <1>6 DEF Newer
  <2>3. j # 1
    <3>1. SUFFICES ASSUME j = 1 PROVE FALSE
      OBVIOUS
    <3>2. reqnet[i].seq = b
      BY <2>1, <3>1
    <3>. HIDE DEF a, b
    <3>. QED
      BY <1>7, <2>2, <3>2
  <2>4. j - 1 \in 1 .. n - 1 /\ (j - 1) + 1 = j
    BY <1>3, <2>3
  <2>5. q[j - 1] = reqnet[i]
    BY <1>3, <2>1, <2>4
  <2>. QED
    BY <1>3, <2>4, <2>5
<1>9. \A i \in 1 .. Len(q) : q[i].ofs + GetPayloadSize(q[i]) <= words
  <2>1. SUFFICES ASSUME NEW i \in 1 .. n - 1 PROVE q[i].ofs + GetPayloadSize(q[i]) <= words
    BY <1>3
  <2>2. i + 1 \in 1 .. n
    BY <1>3
  <2>. QED
    BY <1>3, <1>6, <2>2 DEF Queued
<1>10. InTurn(Tail(req_queue))
  BY <1>1, <1>2, <1>6, InTurnTail
<1>11. Outstanding' /\ Queued' /\ Newer'
  <2>1. Outstanding'
    BY <1>1, <1>8 DEF Outstanding, q
  <2>2. Queued'
    BY <1>1, <1>9 DEF Queued, q, GetPayloadSize
  <2>3. Newer'
    <3>1. rx' = rx \/ Len(rx') = 0
      BY <1>1
    <3>2. \A j \in 1 .. Len(rx') : rx'[j] = rx[j] /\ j \in 1 .. Len(rx)
      BY <3>1
    <3>. QED
      BY <1>1, <1>6, <3>2 DEF Newer
  <2>. QED
    BY <2>1, <2>2, <2>3
<1>12. InTurn(req_queue)' /\ InTurn(reqnet)'
  BY <1>1, <1>6, <1>10 DEF InTurn, GetPayloadSize
<1>. QED
  BY <1>11, <1>12 DEF Ahead

\* What the block and the link do leaves the order.
LEMMA LinkAhead ==
    ASSUME TypeOK, Ahead, Environment
    PROVE  Ahead'
<1>1. UNCHANGED <<req_queue, rx, words>>
  BY DEF Environment, BlockResponds, LoseRequest, LoseResponse, DuplicateResponse,
     BlockSendsAsync, BlockTakesAsyncAck, handler, history
<1>2. /\ reqnet \in Seq(Request) /\ respnet \in Seq(Response)
  BY DEF TypeOK
<1>3. InTurn(req_queue) /\ InTurn(reqnet) /\ Outstanding /\ Queued /\ Newer
  BY DEF Ahead
<1>4. ASSUME InTurn(reqnet'), Outstanding', Newer' PROVE Ahead'
  <2>1. Queued' /\ InTurn(req_queue)'
    BY <1>1, <1>3 DEF Queued, InTurn, GetPayloadSize
  <2>2. InTurn(reqnet)'
    BY <1>4 DEF InTurn, GetPayloadSize
  <2>. QED
    BY <1>4, <2>1, <2>2 DEF Ahead
<1>. DEFINE m == Len(reqnet)
            w == reqnet'
            k == Len(respnet)
            z == respnet'
<1>5. CASE BlockResponds \/ LoseRequest
  <2>1. reqnet # <<>> /\ reqnet' = Tail(reqnet)
    BY <1>5 DEF BlockResponds, LoseRequest
  <2>2. m \in Nat \ {0} /\ Len(w) = m - 1 /\ \A i \in 1 .. m - 1 : w[i] = reqnet[i + 1]
    BY <1>2, <2>1
  <2>3. InTurn(reqnet')
    BY <1>2, <1>3, <2>1, InTurnTail
  <2>. HIDE DEF w
  <2>4. \A i \in 1 .. Len(w) : i + 1 \in 1 .. m /\ w[i] = reqnet[i + 1]
    BY <2>2
  <2>5. Outstanding'
    BY <1>1, <1>3, <2>4 DEF Outstanding, w
  <2>6. ASSUME NEW j \in 1 .. Len(z)
        PROVE  \/ j \in 1 .. k /\ z[j] = respnet[j]
               \/ z[j].seq = reqnet[1].seq
    <3>1. CASE LoseRequest
      BY <2>6, <3>1 DEF LoseRequest
    <3>2. CASE BlockResponds
      <4>1. PICK st \in Status : respnet' = Append(respnet,
                [id |-> Head(reqnet).id, seq |-> Head(reqnet).seq, op |-> Head(reqnet).op,
                 addr |-> Head(reqnet).addr, status |-> st, dropped |-> FALSE])
        BY <3>2 DEF BlockResponds, Status
      <4>. DEFINE e == [id |-> Head(reqnet).id, seq |-> Head(reqnet).seq, op |-> Head(reqnet).op,
                        addr |-> Head(reqnet).addr, status |-> st, dropped |-> FALSE]
      <4>2. e.seq = reqnet[1].seq /\ z = Append(respnet, e)
        BY <1>2, <2>1, <4>1
      <4>. HIDE DEF e
      <4>3. Len(z) = k + 1 /\ z[k + 1] = e /\ k \in Nat /\ \A i \in 1 .. k : z[i] = respnet[i]
        BY <1>2, <4>2
      <4>. HIDE DEF z, k
      <4>. QED
        BY <2>6, <4>2, <4>3
    <3>. QED
      BY <1>5, <3>1, <3>2
  <2>7. ASSUME NEW i \in 1 .. Len(w)
        PROVE  /\ \A j \in 1 .. Len(rx) : rx[j].seq < w[i].seq
               /\ \A j \in 1 .. Len(z) : z[j].seq < w[i].seq
    <3>1. i + 1 \in 1 .. m /\ w[i] = reqnet[i + 1] /\ 1 \in 1 .. m /\ 1 < i + 1
      BY <2>2, <2>4, <2>7
    <3>2. reqnet[1].seq < w[i].seq
      BY <1>3, <3>1 DEF InTurn
    <3>3. /\ \A j \in 1 .. Len(rx) : rx[j].seq < w[i].seq
          /\ \A j \in 1 .. k : respnet[j].seq < w[i].seq
      BY <1>3, <3>1 DEF Newer
    <3>. HIDE DEF z
    <3>. QED
      BY <2>6, <3>2, <3>3
  <2>8. Newer'
    BY <1>1, <2>7 DEF Newer, w
  <2>. QED
    BY <1>4, <2>3, <2>5, <2>8
<1>6. CASE LoseResponse \/ DuplicateResponse \/ BlockSendsAsync \/ BlockTakesAsyncAck
  <2>1. UNCHANGED reqnet
    BY <1>6 DEF LoseResponse, DuplicateResponse, BlockSendsAsync, BlockTakesAsyncAck, net
  <2>2. ASSUME NEW j \in 1 .. Len(z) PROVE \E i \in 1 .. k : z[j] = respnet[i]
    <3>1. CASE LoseResponse
      <4>1. respnet # <<>> /\ z = Tail(respnet)
        BY <3>1 DEF LoseResponse
      <4>2. k \in Nat \ {0} /\ Len(z) = k - 1 /\ \A i \in 1 .. k - 1 : z[i] = respnet[i + 1]
        BY <1>2, <4>1
      <4>. HIDE DEF z, k
      <4>3. j + 1 \in 1 .. k /\ z[j] = respnet[j + 1]
        BY <2>2, <4>2
      <4>. QED
        BY <4>3
    <3>2. CASE DuplicateResponse
      <4>1. respnet # <<>> /\ z = <<Head(respnet)>> \o respnet
        BY <3>2 DEF DuplicateResponse
      <4>2. /\ k \in Nat \ {0} /\ Len(z) = k + 1 /\ z[1] = respnet[1]
            /\ \A i \in 2 .. k + 1 : z[i] = respnet[i - 1]
        BY <1>2, <4>1
      <4>. HIDE DEF z, k
      <4>3. CASE j = 1
        BY <4>2, <4>3
      <4>4. CASE j # 1
        <5>1. j - 1 \in 1 .. k /\ z[j] = respnet[j - 1]
          BY <2>2, <4>2, <4>4
        <5>. QED
          BY <5>1
      <4>. QED
        BY <4>3, <4>4
    <3>3. CASE BlockSendsAsync \/ BlockTakesAsyncAck
      BY <2>2, <3>3 DEF BlockSendsAsync, BlockTakesAsyncAck, net
    <3>. QED
      BY <1>6, <3>1, <3>2, <3>3
  <2>3. Outstanding' /\ InTurn(reqnet')
    BY <1>1, <1>3, <2>1 DEF Outstanding
  <2>. HIDE DEF z
  <2>4. \A i \in 1 .. Len(reqnet) : \A j \in 1 .. Len(z) : z[j].seq < reqnet[i].seq
    BY <1>3, <2>2 DEF Newer
  <2>5. Newer'
    BY <1>1, <1>3, <2>1, <2>4 DEF Newer, z
  <2>. QED
    BY <1>4, <2>3, <2>5
<1>. QED
  BY <1>5, <1>6 DEF Environment

\* So does what the handler does.
LEMMA HandlerAhead ==
    ASSUME TypeOK, Numbered, Consecutive, Matched, Ahead, HandleRecv
    PROVE  Ahead'
<1>1. CASE IgnoreAck \/ AcceptAck
  <2>1. /\ UNCHANGED <<req_queue, reqnet, words>> /\ respnet # <<>> /\ respnet' = Tail(respnet)
        /\ rx' = rx \/ rx' = <<Head(respnet)>>
    BY <1>1 DEF IgnoreAck, AcceptAck, handler, history
  <2>2. /\ Head(respnet) = respnet[1] /\ Len(respnet) \in Nat \ {0}
        /\ Len(respnet') = Len(respnet) - 1
        /\ \A i \in 1 .. Len(respnet) - 1 : respnet'[i] = respnet[i + 1]
    BY <2>1 DEF TypeOK
  <2>3. InTurn(req_queue) /\ InTurn(reqnet) /\ Outstanding /\ Queued /\ Newer
    BY DEF Ahead
  <2>4. ASSUME NEW i \in 1 .. Len(reqnet), NEW j \in 1 .. Len(respnet')
        PROVE  respnet'[j].seq < reqnet[i].seq
    <3>1. j + 1 \in 1 .. Len(respnet) /\ respnet'[j] = respnet[j + 1]
      BY <2>2, <2>4
    <3>. QED
      BY <2>3, <3>1 DEF Newer
  <2>5. ASSUME NEW i \in 1 .. Len(reqnet), NEW j \in 1 .. Len(rx')
        PROVE  rx'[j].seq < reqnet[i].seq
    <3>1. CASE rx' = rx
      BY <2>3, <2>5, <3>1 DEF Newer
    <3>2. CASE rx' = <<Head(respnet)>>
      <4>1. rx'[j] = respnet[1] /\ 1 \in 1 .. Len(respnet)
        BY <2>2, <2>5, <3>2
      <4>. QED
        BY <2>3, <4>1 DEF Newer
    <3>. QED
      BY <2>1, <3>1, <3>2
  <2>6. Newer'
    BY <2>1, <2>4, <2>5 DEF Newer
  <2>7. InTurn(req_queue)' /\ InTurn(reqnet)' /\ Outstanding' /\ Queued'
    BY <2>1, <2>3 DEF InTurn, Outstanding, Queued, GetPayloadSize
  <2>. QED
    BY <2>6, <2>7 DEF Ahead
<1>2. CASE PopPastEnd \/ HandleAsync
  <2>1. UNCHANGED <<req_queue, reqnet, words, rx, respnet>>
    BY <1>2 DEF PopPastEnd, HandleAsync, net, handler, history
  <2>. QED
    BY <2>1 DEF Ahead, InTurn, Outstanding, Queued, Newer, GetPayloadSize
<1>. QED
  BY <1>1, <1>2, PopAhead DEF HandleRecv, HandleAck

\* The words on their way to the block lie between the oldest outstanding request
\* and the newest.
LEMMA WordsAhead ==
    ASSUME TypeOK, BufferAccounting, Ahead
    PROVE  /\ WordsOf(reqnet) \in Nat
           /\ WordsOf(reqnet) = 0 \/ (req_queue # <<>> /\ WordsOf(reqnet) <= buff_occupied)
<1>. DEFINE t == Sizes(reqnet)
            n == Len(reqnet)
            R == RunningSums(t)
            lo == req_queue[1].ofs
            end(i) == reqnet[i].ofs + GetPayloadSize(reqnet[i])
<1>1. /\ t \in Seq(Nat) /\ Len(t) = n /\ n \in Nat
      /\ \A i \in 1 .. n : t[i] = GetPayloadSize(reqnet[i]) /\ reqnet[i] \in Request
      /\ WordsOf(reqnet) = R[n]
  BY SizesType DEF TypeOK
<1>. HIDE DEF t
<1>2. /\ R[0] = 0 /\ \A i \in 1 .. n : R[i] = R[i - 1] + t[i]
      /\ \A i \in 0 .. n : R[i] \in Nat
  BY <1>1, SumsAt
<1>. HIDE DEF R
<1>3. WordsOf(reqnet) \in Nat
  BY <1>1, <1>2
<1>4. CASE n = 0
  BY <1>1, <1>2, <1>4
<1>5. CASE n # 0
  <2>1. InTurn(req_queue) /\ InTurn(reqnet) /\ Outstanding /\ Queued
    BY DEF Ahead
  <2>2. \A i \in 1 .. Len(req_queue) : req_queue[i] \in Request
    BY DEF TypeOK
  <2>3. req_queue # <<>> /\ 1 \in 1 .. Len(req_queue)
    <3>1. PICK j \in 1 .. Len(req_queue) : reqnet[1] = req_queue[j]
      BY <1>1, <1>5, <2>1 DEF Outstanding
    <3>2. Len(req_queue) \in Nat /\ Len(req_queue) # 0
      BY <3>1 DEF TypeOK
    <3>. QED
      BY <3>2
  <2>4. lo \in Nat /\ words \in Nat /\ buff_occupied = words - lo
    BY <2>2, <2>3 DEF BufferAccounting, Request, TypeOK
  <2>5. ASSUME NEW i \in 1 .. n
        PROVE  lo <= reqnet[i].ofs /\ end(i) <= words /\ reqnet[i].ofs \in Nat
    <3>1. PICK j \in 1 .. Len(req_queue) : reqnet[i] = req_queue[j]
      BY <2>1 DEF Outstanding
    <3>2. end(i) <= words /\ reqnet[i].ofs \in Nat
      BY <2>1, <2>2, <3>1 DEF Queued, Request
    <3>3. lo <= reqnet[i].ofs
      <4>1. CASE j = 1
        BY <2>4, <3>1, <4>1
      <4>2. CASE j # 1
        <5>1. 1 < j
          BY <4>2
        <5>2. lo + GetPayloadSize(req_queue[1]) <= req_queue[j].ofs
          BY <2>1, <2>3, <5>1 DEF InTurn
        <5>3. GetPayloadSize(req_queue[1]) \in 3 .. 5
          BY <2>2, <2>3, PayloadSize
        <5>. DEFINE g == GetPayloadSize(req_queue[1])
                    o == reqnet[i].ofs
        <5>4. lo + g <= o /\ g \in Nat
          BY <3>1, <5>2, <5>3
        <5>. HIDE DEF lo, g, o
        <5>5. o \in Nat
          BY <3>2 DEF o
        <5>6. lo <= o
          BY <2>4, <5>4, <5>5
        <5>. QED
          BY <5>6 DEF o
      <4>. QED
        BY <4>1, <4>2
    <3>. QED
      BY <3>2, <3>3
  <2>6. \A i \in 1 .. n : t[i] \in Nat /\ end(i) = reqnet[i].ofs + t[i]
    BY <1>1
  <2>7. ASSUME NEW i \in 1 .. n - 1 PROVE end(i) <= reqnet[i + 1].ofs
    <3>1. i \in 1 .. n /\ i + 1 \in 1 .. n /\ i < i + 1
      BY <1>1
    <3>. QED
      BY <2>1, <3>1 DEF InTurn
  <2>8. \A i \in 1 .. n : end(i) \in Nat
    <3>1. SUFFICES ASSUME NEW i \in 1 .. n PROVE end(i) \in Nat
      OBVIOUS
    <3>2. t[i] \in Nat /\ end(i) = reqnet[i].ofs + t[i] /\ reqnet[i].ofs \in Nat
      BY <2>5, <2>6
    <3>. HIDE DEF end
    <3>. QED
      BY <3>2
  <2>. HIDE DEF end, lo
  <2>. DEFINE S == {i \in 0 .. n : i = 0 \/ lo + R[i] <= end(i)}
  <2>9. 0 \in S
    BY <1>1
  <2>10. ASSUME NEW i \in 0 .. n - 1, i \in S PROVE i + 1 \in S
    <3>. DEFINE o == reqnet[i + 1].ofs
    <3>1. i + 1 \in 1 .. n /\ i \in 0 .. n /\ (i + 1) - 1 = i
      BY <1>1
    <3>2. /\ R[i + 1] = R[i] + t[i + 1] /\ R[i] \in Nat /\ t[i + 1] \in Nat
          /\ end(i + 1) = o + t[i + 1] /\ lo <= o /\ o \in Nat
      <4>1. R[i + 1] = R[(i + 1) - 1] + t[i + 1]
        BY <1>2, <3>1
      <4>. QED
        BY <1>2, <2>5, <2>6, <3>1, <4>1
    <3>3. lo + R[i] <= o
      <4>1. CASE i = 0
        BY <1>2, <2>4, <3>2, <4>1
      <4>2. CASE i # 0
        <5>1. i \in 1 .. n - 1 /\ i \in 1 .. n
          BY <1>1, <4>2
        <5>2. lo + R[i] <= end(i) /\ end(i) <= o /\ end(i) \in Nat
          BY <2>7, <2>8, <2>10, <4>2, <5>1
        <5>. HIDE DEF o
        <5>. QED
          BY <2>4, <3>2, <5>2
      <4>. QED
        BY <4>1, <4>2
    <3>. HIDE DEF o
    <3>4. lo + R[i + 1] <= end(i + 1)
      BY <2>4, <3>2, <3>3
    <3>. QED
      BY <1>1, <3>1, <3>4
  <2>11. lo + R[n] <= end(n)
    <3>1. 0 .. n \subseteq S
      <4>. HIDE DEF S
      <4>. QED
        BY <1>1, <2>9, <2>10, UpTo
    <3>. QED
      BY <1>1, <1>5, <3>1
  <2>12. R[n] <= words - lo
    <3>1. n \in 1 .. n /\ n \in 0 .. n
      BY <1>1, <1>5
    <3>2. end(n) <= words /\ end(n) \in Nat /\ R[n] \in Nat
      BY <1>2, <2>5, <2>8, <3>1
    <3>. QED
      BY <2>4, <2>11, <3>2
  <2>13. words - lo = buff_occupied
    BY <2>4
  <2>14. R[n] <= buff_occupied
    BY <2>12, <2>13
  <2>15. WordsOf(reqnet) = R[n]
    BY <1>1
  <2>16. WordsOf(reqnet) <= buff_occupied
    BY <2>14, <2>15
  <2>. QED
    BY <1>3, <2>3, <2>16
<1>. QED
  BY <1>3, <1>4, <1>5

LEMMA NextAhead ==
    ASSUME OneCaller, TypeOK, TypeOK', Numbered, Consecutive, Matched, OwnResponse, Ahead,
           [Next]_vars, Unwrapped'
    PROVE  Ahead'
<1>1. ASSUME UNCHANGED <<req_queue, reqnet, words, rx, respnet>> PROVE Ahead'
  BY <1>1 DEF Ahead, InTurn, Outstanding, Queued, Newer, GetPayloadSize
<1>2. CASE \E t \in Threads : ThreadStep(t)
  <2>1. PICK t \in Threads : ThreadStep(t)
    BY <1>2
  <2>2. CASE Poke32(t) \/ Peek32(t) \/ Sleep(t)
    <3>1. PICK c \in Calls[t] : SendRequestPacket(t, c)
      BY <2>2 DEF Poke32, Peek32, Sleep
    <3>2. \/ UNCHANGED <<req_queue, tx_seq_num, words, rx, skip, corrupted, net>>
          \/ SendOkay(t, MakeRequest(c)) /\ tx_seq_num' = tx_seq_num + 1
      BY <3>1, CallNumbered
    <3>3. /\ MakeRequest(c) \in Request /\ MakeRequest(c).seq = tx_seq_num
          /\ MakeRequest(c).ofs = words
      BY MakeRequestType DEF MakeRequest
    <3>. QED
      BY <1>1, <3>2, <3>3, SendAhead DEF net
  <2>3. CASE BuffFree(t)
    <3>1. PICK r \in Request : SendOkay(t, r) /\ r.ofs = words /\ r.seq = tx_seq_num
      BY <2>3, BuffFreeNumbered
    <3>. QED
      BY <3>1, SendAhead
  <2>4. CASE BuffStillFull(t) \/ BuffTimeout(t) \/ AckReady(t) \/ AckTimeout(t)
    BY <1>1, <2>4 DEF BuffStillFull, BuffTimeout, AckReady, AckTimeout, handler, net, history
  <2>. QED
    BY <2>1, <2>2, <2>3, <2>4 DEF ThreadStep
<1>3. CASE UNCHANGED vars
  BY <1>1, <1>3 DEF vars, history, net, handler
<1>. QED
  BY <1>2, <1>3, HandlerAhead, LinkAhead DEF Next, Stopped

\* The purpose of the flow control (send_request_packet, handle_recv) on a link
\* that loses and duplicates packets: while the sequence numbers have not
\* wrapped, what the block has not taken from its buffer fits into it, since the
\* handler returns the words of a request only for a response to it or to a
\* later one, and the block answers in order.
THEOREM DeviceBufferBeforeWrap ==
    ASSUME OneCaller
    PROVE  Spec => [](Unwrapped => DeviceBufferBound)
<1>1. Init => Ahead /\ AsyncBound
  BY ConstantsAssumption DEF Init, Ahead, InTurn, Outstanding, Queued, Newer, AsyncBound
<1>2. /\ TypeOK /\ TypeOK' /\ (Unwrapped => Ordered) /\ (Unwrapped => Ahead) /\ [Next]_vars
      => (Unwrapped => Ahead)'
  BY NextAhead, RequestsGrow DEF Ordered
<1>3. TypeOK /\ AsyncBound /\ [Next]_vars => AsyncBound'
  BY NextAsync
<1>4. ASSUME TypeOK, BufferAccounting, AsyncBound, Ahead PROVE DeviceBufferBound
  <2>. DEFINE w == WordsOf(reqnet)
  <2>1. w \in Nat /\ (w = 0 \/ (req_queue # <<>> /\ w <= buff_occupied))
    BY <1>4, WordsAhead
  <2>2. /\ async_acks \in Nat /\ async_acks <= MaxAsync /\ MaxAsync \in Nat
        /\ BuffCapacity \in Nat /\ 6 * MaxAsync <= BuffCapacity /\ buff_occupied \in Int
    BY <1>4, ConstantsAssumption DEF TypeOK, AsyncBound, ASYNC_MESSAGE_SIZE
  <2>3. req_queue # <<>> => buff_occupied <= BuffCapacity - 6 * MaxAsync
    BY <1>4 DEF BufferAccounting, ASYNC_MESSAGE_SIZE
  <2>. HIDE DEF w
  <2>4. w + 6 * async_acks <= BuffCapacity
    BY <2>1, <2>2, <2>3
  <2>. QED
    BY <2>4 DEF w, DeviceBufferBound, ASYNC_MESSAGE_SIZE
<1>5. /\ TypeOK /\ BufferAccounting /\ AsyncBound /\ (Unwrapped => Ahead)
      => (Unwrapped => DeviceBufferBound)
  BY <1>4
<1>. QED
  BY <1>1, <1>2, <1>3, <1>5, TypeCorrect, FlowControlAccounting, OrderedBeforeWrap, PTL DEF Spec
================================================================================

---------------------------- MODULE OffloadIoService ----------------------------
(***************************************************************************)
(* The offload I/O service (offload_io_service.cpp): one thread uses an    *)
(* inline I/O service for clients in other threads.  Two queues per client *)
(* carry frames from and to the thread; a disconnect follows the frames    *)
(* through the same queue.  A third queue carries requests to connect      *)
(* clients and to attach and detach links.                                 *)
(*                                                                         *)
(* The thread is _do_work_polling<true, true>: one client's turn in one of *)
(* its loops is a step, and so is one iteration of a call into the inline  *)
(* I/O service.  The blocking loops do the same for one kind of client,    *)
(* and wait where this one goes on.                                        *)
(*                                                                         *)
(* A frame in a queue is the number of its packet: for a receiver the one  *)
(* that arrived, for a sender the one to send.                             *)
(***************************************************************************)
EXTENDS InlineIoService, FiniteSetsExt

CONSTANTS
    Reserved,   \* Reserved[c]: frames c reserves of its receive link
    Window,     \* packets a sender's destination can hold
    SendFrames, \* frames a sender reserves of its send link, which it alone uses
    Made,       \* bound: the order in which clients are made, a sequence
    MaxPkts     \* bound: MaxPkts[c], packets to a receiver or from a sender

ASSUME OffloadAssumption ==
    /\ IsFiniteSet(Clients) /\ RecvClients \intersect SendClients = {}
    /\ LinkOf \in [Clients -> Links] /\ None \notin Clients
    /\ Reserved \in [Clients -> Nat \ {0}] /\ NumFrames \in [Links -> Nat \ {0}]
    /\ {Window, SendFrames} \subseteq Nat \ {0} /\ MaxPkts \in [Clients -> Nat]

NumPortFrames(c) == IF c \in RecvClients THEN Reserved[c] ELSE SendFrames

VARIABLES
    from_q, to_q, \* client_port_impl_t: _from_offload_thread, _to_offload_thread
    connected,    \* client_port_impl_t: _connected
    in_use,       \* client info: num_frames_in_use
    clients,      \* _recv_clients and _send_clients
    reserved,     \* _reservation_mgr: _recv_tbl
    requests,     \* _client_connect_queue: <<"attach" | "connect" | "detach", whose>>
    phase, turn,  \* the thread's loop, and the position of the client whose turn it is
    user,         \* user[c]: the life of the client in its own thread
    held,         \* held[c]: frames its user holds
    accepted,     \* accepted[c]: packets that arrived for c, or that its user sent
    last          \* last[c]: the last packet its user got, or that was sent

port == <<from_q, to_q, connected>>
thread == <<in_use, clients, reserved, phase, turn>>
users == <<user, held, accepted, last>>
vars == <<inline, port, thread, requests, users>>

Frame == 1        \* what a receiver's user gives back
DISCONNECT == 0

-----------------------------------------------------------------------------
(* The thread *)

Loops == <<"get_recv", "release_recv", "get_send", "release_send">>
Kind(loop) == IF loop \in {"get_recv", "release_recv", "erase_recv"} THEN "recv" ELSE "send"

\* The second half of a disconnect, which a turn in the release loops may be.
EraseIn == [release_recv |-> "erase_recv", release_send |-> "erase_send"]

\* The client whose turn it is.
me == clients[Kind(phase)][turn]

\* The loops follow each other, then a request; those over an empty list do nothing.
From(loop, i, lists) ==
    LET later == {k \in DOMAIN Loops : /\ lists[Kind(Loops[k])] # <<>>
                                       /\ \E n \in 1 .. k - 1 : Loops[n] = loop}
    IN IF i <= Len(lists[Kind(loop)]) THEN phase' = loop /\ turn' = i
       ELSE /\ phase' = IF later = {} THEN "request" ELSE Loops[Min(later)]
            /\ turn' = 1

Advance == From(phase, turn + 1, clients)

Turn(loop) == phase = loop /\ crashed = "no"

\* _get_recv_buff
MayGet_OneMore(c) == in_use[c] <= NumPortFrames(c)
MayGet(c) == in_use[c] < NumPortFrames(c)

GetRecvBuff ==
    /\ Turn("get_recv") /\ call = Idle
    /\ IF MayGet(me)
       THEN /\ Recv(me)
            /\ UNCHANGED <<phase, turn>>
       ELSE /\ Advance
            /\ UNCHANGED inline
    /\ UNCHANGED <<port, in_use, clients, reserved, requests, users>>

HangUp == call' = Idle /\ UNCHANGED <<net, free, table, queues, updates, crashed>>

GotRecvBuff ==
    /\ Turn("get_recv") /\ call.state \in {"done", "none"}
    /\ IF call.state = "done"
       THEN /\ from_q' = [from_q EXCEPT ![me] = Append(@, call.packet)]
            /\ in_use' = [in_use EXCEPT ![me] = @ + 1]
       ELSE UNCHANGED <<from_q, in_use>>
    /\ HangUp
    /\ Advance
    /\ UNCHANGED <<to_q, connected, clients, reserved, requests, users>>

DisconnectNext(c) == to_q[c] # <<>> /\ Head(to_q[c]) = DISCONNECT
FrameNext(c) == to_q[c] # <<>> /\ Head(to_q[c]) # DISCONNECT
PopTo(c) == to_q' = [to_q EXCEPT ![c] = Tail(@)]

ReleaseRecvBuffs ==
    /\ Turn("release_recv")
    /\ ~DisconnectNext(me)
    /\ IF to_q[me] = <<>> THEN UNCHANGED <<free, to_q, in_use>>
       ELSE /\ PopTo(me)
            /\ ReleaseRecvBuff(me)
            /\ in_use' = [in_use EXCEPT ![me] = @ - 1]
    /\ Advance
    /\ UNCHANGED <<net, table, queues, updates, call, crashed, from_q, connected, clients,
                   reserved, requests, users>>

\* _disconnect_recv_client, _disconnect_send_client: frames that the client has
\* not taken are released, unsent, and it may return from its destructor.
\* The next step erases what the thread has of it.
Disconnect(p) ==
    /\ Turn(p) /\ DisconnectNext(me)
    /\ PopTo(me)
    /\ from_q' = [from_q EXCEPT ![me] = <<>>]
    /\ in_use' = [in_use EXCEPT ![me] = @ - Len(from_q[me])]
    /\ free' = IF me \in RecvClients
               THEN [free EXCEPT ![LinkOf[me]] = @ + Len(from_q[me])] ELSE free
    /\ reserved' = [reserved EXCEPT ![LinkOf[me]] = @ - Reserved[me]]
    /\ connected' = connected \ {me}
    /\ phase' = EraseIn[p]
    /\ UNCHANGED <<net, table, queues, updates, call, crashed, clients, turn, requests, users>>

Erase(p) ==
    /\ Turn(EraseIn[p])
    /\ DisconnectReceiver(me)
    /\ clients' = [clients EXCEPT ![Kind(p)] = RemoveAt(@, turn)]
    /\ From(p, turn, clients')
    /\ UNCHANGED <<port, in_use, reserved, requests, users>>

\* _get_send_buff
GetSendBuff ==
    /\ Turn("get_send")
    /\ IF MayGet(me)
       THEN /\ from_q' = [from_q EXCEPT ![me] = Append(@, Frame)]
            /\ in_use' = [in_use EXCEPT ![me] = @ + 1]
       ELSE UNCHANGED <<from_q, in_use>>
    /\ Advance
    /\ UNCHANGED <<inline, to_q, connected, clients, reserved, requests, users>>

\* wait_for_dest_ready: status packets are read until there is room.
DestReady_OneLess(c) == last[c] - updates[c] < Window - 1
DestReady(c) == last[c] - updates[c] < Window

AwaitDest ==
    /\ Turn("release_send") /\ call.state \in {"idle", "done"}
    /\ FrameNext(me) /\ ~DestReady(me)
    /\ RecvFlowCtrl(me)
    /\ UNCHANGED <<port, thread, requests, users>>

ReleaseSendBuff ==
    /\ Turn("release_send") /\ call.state \in {"idle", "done"}
    /\ FrameNext(me) /\ DestReady(me)
    /\ last' = [last EXCEPT ![me] = Head(to_q[me])]
    /\ in_use' = [in_use EXCEPT ![me] = @ - 1]
    /\ PopTo(me)
    /\ HangUp
    /\ Advance
    /\ UNCHANGED <<from_q, connected, clients, reserved, requests, user, held, accepted>>

\* Nothing to send, or the destination is not ready: the frame stays.
NoSend ==
    /\ Turn("release_send")
    /\ IF call = Idle THEN to_q[me] = <<>> ELSE call.state = "none"
    /\ HangUp
    /\ Advance
    /\ UNCHANGED <<port, in_use, clients, reserved, requests, users>>

-----------------------------------------------------------------------------
(* Requests, one in each round of the thread; what one throws ends the program *)

Attach(l) ==
    /\ IF reserved[l] # 0 THEN Crash("register") ELSE AttachRecvLink(l)
    /\ UNCHANGED <<clients, connected, reserved>>

Detach(l) ==
    /\ reserved' = [reserved EXCEPT ![l] = 0]
    /\ DetachRecvLink(l)
    /\ UNCHANGED <<clients, connected>>

MakeClient(c) ==
    LET l == LinkOf[c]
        kind == IF c \in RecvClients THEN "recv" ELSE "send"
    IN IF reserved[l] + Reserved[c] > NumFrames[l]
       THEN Crash("reserve") /\ UNCHANGED <<clients, connected, reserved>>
       ELSE /\ reserved' = [reserved EXCEPT ![l] = @ + Reserved[c]]
            /\ ConnectReceiver(c)
            /\ clients' = [clients EXCEPT ![kind] = Append(@, c)]
            /\ connected' = connected \union {c}

Request ==
    /\ phase = "request" /\ crashed = "no"
    /\ IF requests = <<>> THEN UNCHANGED <<inline, clients, connected, reserved, requests>>
       ELSE /\ LET op == Head(requests)[1]
                   whose == Head(requests)[2]
               IN \/ op = "attach" /\ Attach(whose)
                  \/ op = "detach" /\ Detach(whose)
                  \/ op = "connect" /\ MakeClient(whose)
            /\ requests' = Tail(requests)
    /\ From("get_recv", 1, clients')
    /\ UNCHANGED <<from_q, to_q, in_use, users>>

Thread ==
    \/ GetRecvBuff \/ GotRecvBuff \/ ReleaseRecvBuffs
    \/ GetSendBuff \/ AwaitDest \/ ReleaseSendBuff \/ NoSend
    \/ \E p \in {"release_recv", "release_send"} : Disconnect(p) \/ Erase(p)
    \/ Request
    \/ /\ crashed = "no" /\ InlineStep
       /\ UNCHANGED <<port, thread, requests, users>>

-----------------------------------------------------------------------------
(* The clients.  Frames go through them in threads of their own, but one     *)
(* thread makes and destroys them: io_service_mgr, with which both begin or  *)
(* end, has no lock.                                                         *)

Using == {c \in Clients : user[c] \notin {"new", "gone"}}
OthersOn(c) == {d \in Using \ {c} : LinkOf[d] = LinkOf[c]}

MayMake(c) == \E i \in DOMAIN Made :
    Made[i] = c /\ \A k \in 1 .. i - 1 : user[Made[k]] # "new"
Busy == \E d \in Clients : user[d] \in {"connecting", "closing"}

\* connect_links attaches the link for the first of its clients;
\* make_recv_client and make_send_client then wait.
Connect(c) ==
    /\ user[c] = "new" /\ ~Busy /\ MayMake(c)
    /\ user' = [user EXCEPT ![c] = "connecting"]
    /\ LET attach == IF OthersOn(c) = {} THEN << <<"attach", LinkOf[c]>> >> ELSE <<>>
       IN requests' = requests \o attach \o << <<"connect", c>> >>
    /\ UNCHANGED <<inline, port, thread, held, accepted, last>>

Connected(c) ==
    /\ user[c] = "connecting" /\ c \in connected
    /\ c \in SendClients => Len(from_q[c]) = SendFrames
    /\ user' = [user EXCEPT ![c] = "up"]
    /\ UNCHANGED <<inline, port, thread, requests, held, accepted, last>>

\* get_recv_buff, get_send_buff: client_pop.
Take(c) ==
    /\ user[c] = "up" /\ from_q[c] # <<>>
    /\ c \in SendClients => accepted[c] + held[c] < MaxPkts[c]
    /\ from_q' = [from_q EXCEPT ![c] = Tail(@)]
    /\ held' = [held EXCEPT ![c] = @ + 1]
    /\ last' = IF c \in RecvClients THEN [last EXCEPT ![c] = Head(from_q[c])] ELSE last
    /\ UNCHANGED <<inline, to_q, connected, thread, requests, user, accepted>>

\* release_recv_buff, release_send_buff: client_push.
Give(c) ==
    /\ user[c] = "up" /\ held[c] > 0
    /\ held' = [held EXCEPT ![c] = @ - 1]
    /\ IF c \in SendClients
       THEN /\ accepted' = [accepted EXCEPT ![c] = @ + 1]
            /\ to_q' = [to_q EXCEPT ![c] = Append(@, accepted'[c])]
       ELSE /\ to_q' = [to_q EXCEPT ![c] = Append(@, Frame)]
            /\ UNCHANGED accepted
    /\ UNCHANGED <<inline, from_q, connected, thread, requests, user, last>>

\* ~offload_recv_io, ~offload_send_io: client_disconnect, which waits.
Close(c) ==
    /\ user[c] = "up" /\ held[c] = 0 /\ ~Busy
    /\ user' = [user EXCEPT ![c] = "closing"]
    /\ to_q' = [to_q EXCEPT ![c] = Append(@, DISCONNECT)]
    /\ UNCHANGED <<inline, from_q, connected, thread, requests, held, accepted, last>>

\* disconnect_links detaches the link with the last of its clients.
Detaches_Never(c) == FALSE
Detaches(c) == OthersOn(c) = {}

Closed(c) ==
    /\ user[c] = "closing" /\ c \notin connected
    /\ user' = [user EXCEPT ![c] = "gone"]
    /\ requests' = IF Detaches(c) THEN Append(requests, <<"detach", LinkOf[c]>>) ELSE requests
    /\ UNCHANGED <<inline, port, thread, held, accepted, last>>

User(c) == Connect(c) \/ Connected(c) \/ Take(c) \/ Give(c) \/ Close(c) \/ Closed(c)

-----------------------------------------------------------------------------
(* The other end of the links *)

PacketsOf(c) == LET of_c == Only(net[LinkOf[c]], {c} \X Nat)
                IN [i \in DOMAIN of_c |-> of_c[i][2]]

\* What call has found for the receiver.
InCall(c) == IF call.state = "done" /\ call.op = "recv" /\ call.client = c
             THEN <<call.packet>> ELSE <<>>

\* Frames that the thread has handed out.
GivenBack(c) == Only(to_q[c], Nat \ {DISCONNECT})
FramesOut(c) == Len(from_q[c]) + held[c] + Len(GivenBack(c))

\* Frames of the receive link that have a packet for c.
FramesOf(c) ==
    Len(queues[c]) + Len(InCall(c)) +
    (IF c \in RecvClients THEN FramesOut(c) ELSE 0)

\* Flow control leaves no more packets under way than the receiver has frames,
\* for a stream that is started once the client is made; the device may stream
\* on when it has gone.
Arrive(c) ==
    /\ user[c] \in {"up", "closing", "gone"} /\ accepted[c] < MaxPkts[c]
    /\ Len(PacketsOf(c)) + FramesOf(c) < Reserved[c]
    /\ accepted' = [accepted EXCEPT ![c] = @ + 1]
    /\ net' = [net EXCEPT ![LinkOf[c]] = Append(@, <<c, accepted'[c]>>)]
    /\ UNCHANGED <<free, table, queues, updates, call, crashed, port, thread, requests,
                   user, held, last>>

\* The destination consumes a packet and sends a stream status packet.
Answer(c) ==
    /\ updates[c] + Len(PacketsOf(c)) < last[c]
    /\ net' = [net EXCEPT ![LinkOf[c]] = Append(@, <<c, 0>>)]
    /\ UNCHANGED <<free, table, queues, updates, call, crashed, port, thread, requests, users>>

Init ==
    /\ InlineInit
    /\ from_q = [c \in Clients |-> <<>>] /\ to_q = [c \in Clients |-> <<>>]
    /\ connected = {}
    /\ in_use = [c \in Clients |-> 0]
    /\ clients = [recv |-> <<>>, send |-> <<>>]
    /\ reserved = [l \in Links |-> 0]
    /\ requests = <<>>
    /\ phase = "request" /\ turn = 1
    /\ user = [c \in Clients |-> "new"]
    /\ held = [c \in Clients |-> 0]
    /\ accepted = [c \in Clients |-> 0] /\ last = [c \in Clients |-> 0]

Next ==
    \/ Thread
    \/ \E c \in Clients : User(c)
    \/ \E c \in RecvClients : Arrive(c)
    \/ \E c \in SendClients : Answer(c)

Spec == Init /\ [][Next]_vars

\* The thread runs, the user returns from a wait, and the destination goes on consuming.
FairSpec ==
    /\ Spec
    /\ WF_vars(Thread)
    /\ WF_vars(\E c \in Clients : Connected(c) \/ Closed(c))
    /\ \A c \in SendClients : WF_vars(Answer(c))

-----------------------------------------------------------------------------
(* Properties *)

\* None of the fixed-size queues, which push overwrites without a check, is ever
\* over its size ("add one for disconnect command"; "Should not overflow, by
\* construction"), whoever else is served in between.
QueuesFit ==
    \A c \in Clients :
        /\ Len(from_q[c]) <= NumPortFrames(c)
        /\ Len(to_q[c]) <= NumPortFrames(c) + 1
        /\ Len(queues[c]) <= NumFrames[LinkOf[c]]

frames == [c \in Clients |-> FramesOf(c)]
ClientsOn(l) == {c \in Clients : LinkOf[c] = l}
Sum(f, S) == MapThenSumSet(LAMBDA c : f[c], S)

\* Every frame of a receive link is in its pool or with a client or its user, so
\* that none is lost when clients disconnect, and the thread's counts agree.
FramesAccounted ==
    /\ \A l \in Links :
          free[l] + Sum(frames, ClientsOn(l)) = NumFrames[l]
    /\ \A c \in ToSet(clients.recv) \union ToSet(clients.send) : in_use[c] = FramesOut(c)

\* No operation runs into what the code leaves undefined or throws in the
\* thread: a pool without frames, a callback of a client that has gone, ...
NoUndefined == crashed = "no"

\* Each client has a channel of its own (PerClientFifo): from the link to a
\* receiver's user, and from a sender's user to the link.
channel == [c \in Clients |->
    IF c \in SendClients THEN GivenBack(c)
    ELSE from_q[c] \o InCall(c) \o queues[c] \o PacketsOf(c)]

Promise == INSTANCE PerClientFifo
    WITH In <- RecvClients, Out <- SendClients, chan <- channel,
         open <- {c \in RecvClients : user[c] = "up"}
DeliversInOrder == Promise!Spec

\* A destructor, which waits for the thread, returns: there is at most one.
Closing == \E c \in Clients : user[c] = "closing"
DisconnectReturns == Closing ~> ~Closing
=============================================================================

---------------------------- MODULE InlineIoService ----------------------------
(***************************************************************************)
(* The inline I/O service (inline_io_service.cpp): receivers that share a  *)
(* link, and the multiplexer that gives each its packets.                  *)
(*                                                                         *)
(* One thread uses the service.  A call of recv or recv_flow_ctrl loops    *)
(* over packets of the link until it has one for its caller; each          *)
(* iteration is a step, and packets arrive in between.  A receive client   *)
(* keeps the packets that are for it, a send client reads its stream       *)
(* status packets in its callback and releases them at once.               *)
(*                                                                         *)
(* What the code does not check ends in undefined behaviour, and what it   *)
(* checks, in an exception that nobody catches: crashed says which.  The   *)
(* service then takes no further step.                                     *)
(***************************************************************************)
EXTENDS Integers, Sequences, SequencesExt

CONSTANTS
    RecvClients, SendClients, \* the objects made by make_recv_client, make_send_client
    Links,                    \* receive links
    LinkOf,                   \* LinkOf[c]: the link c receives from
    NumFrames,                \* NumFrames[l]: frames of a link
    None                      \* no receiver

Idle == [op |-> "none", client |-> None, state |-> "idle", packet |-> 0]

Clients == RecvClients \union SendClients

VARIABLES
    net,       \* net[l]: packets that wait in the link, as <<client, number>>
    free,      \* free[l]: _free_recv_buffs of the link, their number
    attached,  \* links in _recv_tbl
    mux,       \* links for which _recv_tbl has a multiplexer
    rcvr,      \* rcvr[l]: the single receiver in _recv_tbl
    callbacks, \* callbacks[l]: the multiplexer's _callbacks
    queues,    \* queues[c]: the multiplexer's queue for c, packet numbers
    alive,     \* clients that exist
    updates,   \* updates[c]: status packets that the callback of send client c has read
    call,      \* the call being made: [op, client, state, packet]
    crashed    \* "no", or what went wrong

table == <<attached, mux, rcvr, callbacks, alive>>
inline == <<net, free, table, queues, updates, call, crashed>>

InlineInit ==
    /\ net = [l \in Links |-> <<>>]
    /\ free = NumFrames
    /\ attached = {} /\ mux = {} /\ alive = {}
    /\ rcvr = [l \in Links |-> None]
    /\ callbacks = [l \in Links |-> <<>>]
    /\ queues = [c \in Clients |-> <<>>]
    /\ updates = [c \in SendClients |-> 0]
    /\ call = Idle
    /\ crashed = "no"

Crash(what) ==
    /\ crashed' = what
    /\ UNCHANGED <<net, free, table, queues, updates, call>>

-----------------------------------------------------------------------------
(* Links and receivers come and go *)

AttachRecvLink(l) ==
    IF l \in attached THEN Crash("attached")
    ELSE /\ attached' = attached \union {l}
         /\ UNCHANGED <<net, free, mux, rcvr, callbacks, alive, queues, updates, call, crashed>>

DetachRecvLink(l) ==
    IF l \notin attached THEN Crash("unattached")
    ELSE /\ attached' = attached \ {l}
         /\ mux' = mux \ {l}
         /\ rcvr' = [rcvr EXCEPT ![l] = None]
         /\ callbacks' = [callbacks EXCEPT ![l] = <<>>]
         /\ UNCHANGED <<net, free, alive, queues, updates, call, crashed>>

ConnectReceiver(c) ==
    LET l == LinkOf[c] IN
    IF l \notin attached THEN Crash("unattached")
    ELSE /\ alive' = alive \union {c}
         /\ IF l \in mux
            THEN /\ callbacks' = [callbacks EXCEPT ![l] = Append(@, c)]
                 /\ UNCHANGED <<mux, rcvr>>
            ELSE IF rcvr[l] # None
            THEN /\ mux' = mux \union {l}
                 /\ callbacks' = [callbacks EXCEPT ![l] = <<rcvr[l], c>>]
                 /\ rcvr' = [rcvr EXCEPT ![l] = None]
            ELSE /\ rcvr' = [rcvr EXCEPT ![l] = c]
                 /\ UNCHANGED <<mux, callbacks>>
         /\ UNCHANGED <<net, free, attached, queues, updates, call, crashed>>

\* The elements of a sequence that are in a set: SelectSeq as a recursive
\* function, which can be reasoned about.
Only(s, S) ==
    LET only[i \in 0 .. Len(s)] ==
            IF i = 0 THEN <<>>
            ELSE IF s[i] \in S THEN Append(only[i - 1], s[i]) ELSE only[i - 1]
    IN  only[Len(s)]

\* The multiplexer, if there is one, has a queue for each of its callbacks.
HasQueue(c) == LinkOf[c] \in mux => c \in ToSet(callbacks[LinkOf[c]])

\* The multiplexer releases what it has for the client.  A client that was
\* alone on its link stays in the table.
FramesBack_Forgotten(c) == 0
FramesBack(c) == Len(queues[c])

DisconnectReceiver(c) ==
    LET l == LinkOf[c] IN
    IF ~HasQueue(c) THEN Crash("no queue")
    ELSE /\ alive' = alive \ {c}
         /\ attached' = attached \union {l}
         /\ IF l \in mux
            THEN /\ free' = [free EXCEPT ![l] = @ + FramesBack(c)]
                 /\ queues' = [queues EXCEPT ![c] = <<>>]
                 /\ callbacks' = [callbacks EXCEPT ![l] = Only(@, Clients \ {c})]
                 /\ mux' = IF callbacks[l] = <<c>> THEN mux \ {l} ELSE mux
            ELSE UNCHANGED <<free, queues, callbacks, mux>>
         /\ UNCHANGED <<net, rcvr, updates, call, crashed>>

-----------------------------------------------------------------------------
(* recv and recv_flow_ctrl *)

Calls(op, c, state, packet) ==
    call' = [op |-> op, client |-> c, state |-> state, packet |-> packet]

Returns(state, packet) == Calls(call.op, call.client, state, packet)

\* A packet that another client's call has found comes first.
HasQueued_Never(c) == FALSE
HasQueued(c) == LinkOf[c] \in mux /\ queues[c] # <<>>

Recv(c) ==
    IF LinkOf[c] \notin attached THEN Crash("unattached")
    ELSE IF ~HasQueue(c) THEN Crash("no queue")
    ELSE /\ IF HasQueued(c)
            THEN /\ queues' = [queues EXCEPT ![c] = Tail(@)]
                 /\ Calls("recv", c, "done", Head(queues[c]))
            ELSE /\ Calls("recv", c, "loop", 0)
                 /\ UNCHANGED queues
         /\ UNCHANGED <<net, free, table, updates, crashed>>

RecvFlowCtrl(c) ==
    IF LinkOf[c] \notin attached THEN Crash("unattached")
    ELSE /\ Calls("fc", c, "loop", 0)
         /\ UNCHANGED <<net, free, table, queues, updates, crashed>>

Looping(l) == call.state = "loop" /\ LinkOf[call.client] = l

\* The link takes a frame from its pool before it looks for a packet.
LoopTimeout(l) ==
    /\ Looping(l) /\ net[l] = <<>>
    /\ IF free[l] = 0 THEN Crash("pool")
       ELSE /\ Returns("none", 0)
            /\ UNCHANGED <<net, free, table, queues, updates, crashed>>

\* The callbacks are asked in turn until one says that the packet is its own.
Asked(l) == IF l \in mux THEN callbacks[l] ELSE <<rcvr[l]>>
Found(l, c) == c \in ToSet(Asked(l))

\* Objects that have been deleted are asked, or, as recv_flow_ctrl goes on
\* after a packet it has given away, one is asked with no packet.
AsksTheDead(l, c) ==
    \E i \in DOMAIN Asked(l) :
        Asked(l)[i] \notin alive /\ c \notin ToSet(SubSeq(Asked(l), 1, i - 1))
AsksWithout(l, c) ==
    /\ call.op = "fc" /\ l \in mux /\ c # call.client /\ c \in RecvClients
    /\ Last(Asked(l)) # c

LoopPacket(l) ==
    /\ Looping(l) /\ net[l] # <<>>
    /\ LET c == Head(net[l])[1]
           packet == Head(net[l])[2]
           taken == [net EXCEPT ![l] = Tail(@)]
       IN IF free[l] = 0 THEN Crash("pool")
          ELSE IF AsksTheDead(l, c) THEN Crash("stale")
          ELSE IF Found(l, c) /\ AsksWithout(l, c) THEN Crash("null")
          ELSE /\ net' = taken
               /\ \/ \* for the caller
                     /\ Found(l, c) /\ c = call.client /\ c \in RecvClients
                     /\ free' = [free EXCEPT ![l] = @ - 1]
                     /\ Returns("done", packet)
                     /\ UNCHANGED <<queues, updates>>
                  \/ \* status packet, read and released in the callback
                     /\ Found(l, c) /\ c \in SendClients
                     /\ updates' = [updates EXCEPT ![c] = @ + 1]
                     /\ IF call.op = "fc" /\ c = call.client THEN Returns("done", 0)
                        ELSE UNCHANGED call
                     /\ UNCHANGED <<free, queues>>
                  \/ \* for another receiver
                     /\ Found(l, c) /\ c # call.client /\ c \in RecvClients
                     /\ queues' = [queues EXCEPT ![c] = Append(@, packet)]
                     /\ free' = [free EXCEPT ![l] = @ - 1]
                     /\ UNCHANGED <<updates, call>>
                  \/ \* "Dropping packet with no receiver"
                     /\ ~Found(l, c)
                     /\ UNCHANGED <<free, queues, updates, call>>
               /\ UNCHANGED <<table, crashed>>

InlineStep == \E l \in Links : LoopTimeout(l) \/ LoopPacket(l)

ReleaseRecvBuff(c) == free' = [free EXCEPT ![LinkOf[c]] = @ + 1]
=============================================================================

----------------------------- MODULE IoServiceMgr -----------------------------
(***************************************************************************)
(* Which I/O service serves which links: io_service_mgr.cpp.  One manager  *)
(* dispatches to three: inline services, one blocking offload service per  *)
(* streamer and adapter, and a number of polling offload services.         *)
(*                                                                         *)
(* The callers are the transports.  A data transport connects its links as *)
(* a control link while it configures the stream, disconnects them again   *)
(* (mpmd_mb_iface.cpp:294-336), connects them as data links, and           *)
(* disconnects them in its destructor.  An exception leaves a destructor   *)
(* there, so it ends the program: failed records it.                       *)
(***************************************************************************)
EXTENDS Integers, FiniteSets

CONSTANTS
    Transports,    \* control and data transports; a data transport is one channel
    KindOf,        \* KindOf[t]: "CTRL", "RX_DATA" or "TX_DATA"
    LinksOf,       \* LinksOf[t]: its pair of links
    Streamer,      \* Streamer[t]: the streamer it belongs to
    Adapter,       \* Adapter[t]: the transport adapter of its links
    Service,       \* Service[t]: "inline", "block" or "poll", from the stream args
    NumPoll        \* num_poll_offload_threads

LinkPairs == {LinksOf[t] : t \in Transports}

ASSUME ManagerAssumption ==
    /\ IsFiniteSet(Transports)
    /\ KindOf \in [Transports -> {"CTRL", "RX_DATA", "TX_DATA"}]
    /\ Service \in [Transports -> {"inline", "block", "poll"}]
    /\ NumPoll \in Nat \ {0}
    \* Links that are shared are shared by control transports.
    /\ \A t, u \in Transports :
          t # u /\ LinksOf[t] = LinksOf[u] => KindOf[t] = "CTRL" /\ KindOf[u] = "CTRL"

VARIABLES
    stage,       \* where each transport is in its life
    srv,         \* the service each transport was given
    link_info,   \* io_service_mgr_impl::_link_info_map: kind of service of some links
    inline_info, \* inline: records [links, srv, ref]
    block_links, \* blocking, _link_info_map: pairs <<links, streamer>>
    block_info,  \* blocking, _streamer_info_map: records [streamer, adapter, srv, count]
    poll_links,  \* polling, _link_info_map: records [links, srv, ref]
    poll_info,   \* polling, _io_srv_info_map: records [srv, count]
    served,      \* pairs <<srv, links>> of services and the links attached to them
    failed       \* an exception or a failed assertion has ended the program

managers == <<link_info, inline_info, block_links, block_info, poll_links, poll_info>>
mgr_vars == <<stage, srv, managers, served, failed>>

ManagerInit ==
    /\ stage = [t \in Transports |-> "new"]
    /\ srv = [t \in Transports |-> 0]
    /\ link_info = {} /\ inline_info = {} /\ block_links = {} /\ block_info = {}
    /\ poll_links = {} /\ poll_info = {}
    /\ served = {} /\ failed = FALSE

-----------------------------------------------------------------------------
(* The managers: connect_links *)

\* A service that nothing refers to any more is gone, and its number free.
NewService ==
    LET used == {p[1] : p \in served} \union {srv[t] : t \in Transports}
                \union {e.srv : e \in block_info \union poll_info}
    IN CHOOSE n \in 1 .. Cardinality(used) + 1 :
          n \notin used /\ \A m \in 1 .. n - 1 : m \in used

Joins(t, s, next) ==
    /\ srv' = [srv EXCEPT ![t] = s]
    /\ stage' = [stage EXCEPT ![t] = next]

\* inline_io_service_mgr: one service for each pair of links, counted if shared.
InlineConnect(t, next) ==
    LET l == LinksOf[t]
        known == {i \in inline_info : i.links = l}
    IN /\ IF known # {}
          THEN \E i \in known :
                 /\ inline_info' = (inline_info \ {i}) \union {[i EXCEPT !.ref = @ + 1]}
                 /\ Joins(t, i.srv, next)
                 /\ UNCHANGED served
          ELSE /\ inline_info' = inline_info \union
                    {[links |-> l, srv |-> NewService, ref |-> 1]}
               /\ served' = served \union {<<NewService, l>>}
               /\ Joins(t, NewService, next)
       /\ UNCHANGED <<block_links, block_info, poll_links, poll_info, failed>>

\* blocking_io_service_mgr: one service for each streamer and adapter.  The
\* links are entered in the map only with the first links of a streamer.
BlockEntries_AnyStreamer(t) == {e \in block_info : e.adapter = Adapter[t]}
BlockEntries(t) == {e \in block_info : e.streamer = Streamer[t] /\ e.adapter = Adapter[t]}

BlockConnect(t, next) ==
    LET l == LinksOf[t]
        known == \E e \in block_info : e.streamer = Streamer[t]
    IN /\ block_links' = IF known THEN block_links
                         ELSE block_links \union {<<l, Streamer[t]>>}
       /\ IF BlockEntries(t) # {}
          THEN \E e \in BlockEntries(t) :
                 /\ block_info' = (block_info \ {e}) \union {[e EXCEPT !.count = @ + 1]}
                 /\ served' = served \union {<<e.srv, l>>}
                 /\ Joins(t, e.srv, next)
          ELSE /\ block_info' = block_info \union
                    {[streamer |-> Streamer[t], adapter |-> Adapter[t],
                      srv |-> NewService, count |-> 1]}
               /\ served' = served \union {<<NewService, l>>}
               /\ Joins(t, NewService, next)
       /\ UNCHANGED <<inline_info, poll_links, poll_info, failed>>

\* polling_io_service_mgr: a new service until there are NumPoll of them, then
\* the one with the fewest connections.  Only the first case enters the links.
PollConnect(t, next) ==
    LET l == LinksOf[t] IN
    /\ IF Cardinality(poll_info) < NumPoll
       THEN /\ poll_links' = poll_links \union {[links |-> l, srv |-> NewService, ref |-> 1]}
            /\ poll_info' = poll_info \union {[srv |-> NewService, count |-> 1]}
            /\ served' = served \union {<<NewService, l>>}
            /\ Joins(t, NewService, next)
       ELSE \E i \in poll_info :
              /\ \A j \in poll_info : i.count <= j.count
              /\ poll_info' = (poll_info \ {i}) \union {[i EXCEPT !.count = @ + 1]}
              /\ served' = served \union {<<i.srv, l>>}
              /\ Joins(t, i.srv, next)
              /\ UNCHANGED poll_links
    /\ UNCHANGED <<inline_info, block_links, block_info, failed>>

\* io_service_mgr_impl::connect_links.  Links that are known stay with their
\* manager; control links are served inline.
ConnectLinks(t, kind, next) ==
    LET l == LinksOf[t]
        known == {i \in link_info : i.links = l}
        type == IF known # {} THEN (CHOOSE i \in known : TRUE).type
                ELSE IF kind = "CTRL" THEN "inline" ELSE Service[t]
    IN /\ CASE type = "inline" -> InlineConnect(t, next)
            [] type = "block" -> BlockConnect(t, next)
            [] type = "poll" -> PollConnect(t, next)
       /\ link_info' = (link_info \ known) \union {[links |-> l, type |-> type]}

-----------------------------------------------------------------------------
(* The managers: disconnect_links *)

Detached_Kept(s, l) == {}
Detached(s, l) == {<<s, l>>}

Fails ==
    /\ failed' = TRUE
    /\ UNCHANGED <<stage, srv, managers, served>>

Leaves(t, next) ==
    /\ stage' = [stage EXCEPT ![t] = next]
    /\ srv' = [srv EXCEPT ![t] = 0]
    /\ link_info' = {i \in link_info : i.links # LinksOf[t]}
    /\ UNCHANGED failed

LastUse_Any(i) == TRUE
LastUse(i) == i.ref = 1

InlineDisconnect(t, next) ==
    \E i \in inline_info :
        /\ i.links = LinksOf[t]
        /\ IF LastUse(i)
           THEN /\ inline_info' = inline_info \ {i}
                /\ served' = served \ Detached(i.srv, i.links)
           ELSE /\ inline_info' = (inline_info \ {i}) \union {[i EXCEPT !.ref = @ - 1]}
                /\ UNCHANGED served
        /\ Leaves(t, next)
        /\ UNCHANGED <<block_links, block_info, poll_links, poll_info>>

\* The streamer is looked up by its links; a streamer goes when all its
\* connections are gone.
BlockDisconnect(t, next) ==
    LET l == LinksOf[t]
        known == {p \in block_links : p[1] = l}
    IN IF known = {} THEN Fails
       ELSE \E e \in BlockEntries(t) :
              LET others == {f \in block_info : f.streamer = Streamer[t] /\ f # e}
                  left == [e EXCEPT !.count = @ - 1]
              IN /\ block_info' = IF left.count = 0 /\ \A f \in others : f.count = 0
                                  THEN block_info \ ({e} \union others)
                                  ELSE (block_info \ {e}) \union {left}
                 /\ served' = served \ Detached(e.srv, l)
                 /\ block_links' = block_links \ known
                 /\ Leaves(t, next)
                 /\ UNCHANGED <<inline_info, poll_links, poll_info>>

\* With the links goes the count of their service, whoever else uses it.
PollDisconnect(t, next) ==
    LET known == {i \in poll_links : i.links = LinksOf[t]}
    IN IF known = {} THEN Fails
       ELSE \E i \in known :
              /\ served' = served \ Detached(i.srv, i.links)
              /\ poll_links' = poll_links \ {i}
              /\ poll_info' = {j \in poll_info : j.srv # i.srv}
              /\ Leaves(t, next)
              /\ UNCHANGED <<inline_info, block_links, block_info>>

DisconnectLinks(t, next) ==
    LET known == {i \in link_info : i.links = LinksOf[t]}
    IN IF known = {} THEN Fails
       ELSE \E i \in known :
              CASE i.type = "inline" -> InlineDisconnect(t, next)
                [] i.type = "block" -> BlockDisconnect(t, next)
                [] i.type = "poll" -> PollDisconnect(t, next)

-----------------------------------------------------------------------------
(* The transports *)

\* A streamer gets all its channels before any of them goes.
StreamerWhole(t) ==
    \A u \in Transports : Streamer[u] = Streamer[t] => stage[u] # "gone"

ConnectTransport(t) ==
    /\ ~failed
    /\ \/ /\ KindOf[t] = "CTRL" /\ stage[t] = "new"
          /\ ConnectLinks(t, "CTRL", "up")
       \/ /\ KindOf[t] # "CTRL" /\ stage[t] = "new" /\ StreamerWhole(t)
          /\ ConnectLinks(t, "CTRL", "configure")
       \/ /\ stage[t] = "configured" /\ StreamerWhole(t)
          /\ ConnectLinks(t, KindOf[t], "up")

DisconnectTransport(t) ==
    /\ ~failed
    /\ \/ /\ stage[t] = "configure"
          /\ DisconnectLinks(t, "configured")
       \/ /\ stage[t] = "up"
          /\ DisconnectLinks(t, "gone")

\* make_rx_data_transport and make_tx_data_transport run from configuration to
\* connection in the thread that connects the graph.
MayStep(t) ==
    \A u \in Transports \ {t} : stage[u] \notin {"configure", "configured"}

ManagerNext ==
    \E t \in Transports : MayStep(t) /\ (ConnectTransport(t) \/ DisconnectTransport(t))

ManagerSpec == ManagerInit /\ [][ManagerNext]_mgr_vars

-----------------------------------------------------------------------------
(* Properties *)

InUse(t) == stage[t] \in {"configure", "up"}

\* A transport never loses its service: while it has not disconnected, its
\* links stay attached to the service it was given (the detach calls of the
\* three disconnect_links).
AttachedWhileUsed ==
    \A t \in Transports : InUse(t) => <<srv[t], LinksOf[t]>> \in served

\* connect_links, "links can only be connected to one I/O service at any given
\* a time": a service that configured a stream has let go of the links before
\* another one, with a thread of its own, gets them.
LinksInOneService ==
    \A p, q \in served : p[2] = q[2] => p = q

\* Offload services that block never serve two streamers, of which one would
\* hold up the other (blocking_io_service_mgr groups links by streamer).
StreamersApart ==
    \A t, u \in Transports :
        /\ stage[t] = "up" /\ KindOf[t] # "CTRL" /\ Service[t] = "block"
        /\ stage[u] = "up" /\ srv[u] = srv[t]
        => Streamer[u] = Streamer[t]

\* The assertions of disconnect_links (io_service_mgr.cpp:363, and at() at 229):
\* links that a transport connected can be disconnected by its destructor.
DisconnectSucceeds == ~failed
=============================================================================

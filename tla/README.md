# TLA+ models of the UHD host driver

The USRP Hardware Driver (UHD) is the host software of a family of software-defined radios. The host
talks to the FPGA of a radio in CHDR packets: control transactions (register reads and writes), data
streams in both directions, and stream commands and stream status packets for flow control. On top of
that the host keeps a graph of block controllers (RFNoC) that exchange properties and actions.

This directory models the parts whose correctness depends on interleavings, lost packets, limits and
wrapping counters: what the unit tests of the repository hardly reach.

## Inventory

| Part | State | Operations | How it interacts | What makes it correct |
|---|---|---|---|---|
| Control port endpoint (`host/lib/rfnoc/ctrlport_endpoint.cpp`) | sequence number, occupied words, queue of requests, queue of responses, set of wanted ACKs; one mutex, two condition variables | `poke32`, `peek32`, `sleep` (through `send_request_packet`, `wait_for_ack`), `handle_recv` | called by client threads and by the receive thread of the control endpoint | the block's buffer never overflows; a response is matched with its own request; a waiting call ends |
| Transmit flow control (`chdr_tx_data_xport.hpp`, `tx_flow_ctrl_state.hpp`, `chdr_stream_input.v`) | counts of bytes sent and consumed, resync state; in the FPGA count, accumulated count, posted responses | get and release a buffer, status packets, resync, reinitialisation | packets through a link that may lose them; callbacks of the I/O service | the ingress buffer never overflows; the stream does not stand still |
| Receive flow control (`chdr_rx_data_xport.hpp`, `rx_flow_ctrl_state.hpp`, `chdr_stream_output.v`) | FPGA: counts sent and acknowledged, pipelined comparison; host: counts received, released and reported | words of data and of stream commands; receive, release, resynchronise | as above | the host's buffer never overflows; credits are returned exactly once; the stream does not stand still |
| Graph actions (`host/lib/rfnoc/graph.cpp`, `node.cpp`) | queue of actions, busy flag, exception, shutdown flag, release count; two mutexes, one condition variable | `enqueue_action`, `sync_actions`, handler thread, `commit`, `release`, `shutdown`, destructor | any thread posts; one handler thread delivers | a synchronous call ends, after its action was handled; failures reach a caller; the thread ends |
| Offload I/O service (`host/lib/transport/offload_io_service.cpp`) | queues between clients and one thread, frames in use, reservations | connect, disconnect, polling and blocking loops | runs the flow-control callbacks for the streams | frames are neither lost nor given twice; clients get away |
| Inline I/O service (`host/lib/transport/inline_io_service.cpp`) | table of receivers per link, multiplexer queues | connect, disconnect, `recv`, `recv_flow_ctrl` | as above, in the caller's thread | packets reach the receiver they are for |
| I/O service manager (`host/lib/usrp/common/io_service_mgr.cpp`) | maps from links to streamers and services, with counts | `connect_links`, `disconnect_links` of four managers | called by the transports of a device, which get their I/O service from it | links are attached to one service, for as long as somebody uses them |
| Streamers (`get_aligned_buffs.hpp`, `rx_streamer_impl.hpp`, transmit side) | packets held per channel, times | receive and align | data transports below | channels are aligned in time; no more is dropped than necessary |
| Overrun handling (`rfnoc_rx_streamer.cpp`, `rx_streamer_zero_copy.hpp`, `radio_control_impl.cpp`, `radio_rx_core.v`) | overrun mode, flags, actions; the radio's command FIFO and state | stream commands, overrun event, stop, restart | four threads; actions in the graph, asynchronous messages | channels restart together and once; a stop ends it; nothing stays silent |
| Property propagation (`graph.cpp`, `node.cpp`) | dirty properties, forwarding edges | resolve all properties | under the graph's mutex | resolution ends and leaves connected properties equal |
| MPM claims (`mpm/python/usrp_mpm/rpc_server.py`) | claim, token, timer | claim, reclaim, unclaim, timeout | remote sessions | one session at a time owns the device |
| Stream managers, block controllers, experts, device drivers, firmware, other FPGA code, conversion, tools | | | | sequential set-up, register layouts and numerical code; see *Not modelled* |

What is hard: two threads in one endpoint whose mutex is released in the middle of a call; losses that
are discovered only by counting; a count that is read in one clock cycle and used in a later one; byte
counters and sequence numbers that wrap; an action that is neither queued nor finished; a notification
between a test and a sleep; reinitialisation while old packets are under way. `PROJECT.json` lists each
of these hazards at its line, with the properties that cover it.

## Modules

### `CtrlportEndpoint`
One endpoint with any number of client threads. A step is what happens while the mutex is held:
`SendRequestPacket` up to the first wait, `BuffFree`/`BuffTimeout` after the wait for buffer space,
`AckReady`/`AckTimeout` after the wait for the ACK. A request that leaves the queue wakes one of the threads
that wait for space, and no other (`NotifyOne`); a woken thread that finds too little space waits again
(`BuffStillFull`) and the notification is used up. Threads may also look at the condition without having been
woken, as the standard allows, but no property relies on it. `handle_recv` is split into `AcceptAck` or
`IgnoreAck`, one `ProcessIncorrectResponse` for every response found missing, and
`ProcessCorrectResponse`; no other step of the endpoint is possible in between, because the mutex is
held. A pop of the empty request queue is undefined behaviour: `PopPastEnd` records it and the model
follows the endpoint no further. Sequence numbers are counted modulo `SeqNums` and compared in an
`int8_t`, as in the code. A request is its opcode, register, timestamp flag and ACK flag; its data word
is not modelled. `poke32`, `peek32` and `sleep` differ in the ACKs they want. The block and the link
are external: the block answers in order; the link loses and duplicates packets.

### `TxFlowControl`
The host's counts and the FPGA's counts of one transmit stream with the packets between them.
`SendReturns` is `_send_callback` with everything it does: the packet is sent, counted in whole words,
and a pending resync follows if there is room for it. If the link has no frame for the resync,
`send_strc_resync` throws: `SendThrows`. A resync asks for the room of the largest stream command
(`MaxStrcSize`), as `_send_strc_packet` does. `ResendInit`, `SleepDone`, `DrainStrs` and `InitDone` are
`resend_init`: the init packet is sent, which may throw and then ends the call; it sleeps; it reads status
packets as long as there are any and no room for `UINT_MAX` bytes. The init packet and its answer may be
lost. That the sleep is long enough for the answer to an init packet that is not lost is an assumption
(`SleepDone`). The history variable `cut_short` says that a reinitialisation has ended without the FPGA's
answer. The FPGA counts words when they leave its buffer, posts a response at the threshold (`FcRespDue`),
reads the count (`DevSendStrs`) and clears the accumulated count when the packet is done (`DevRefresh`); the
input does not wait for the responder, and `uncounted` records that words passed in between. On an init
command it clears its counts and flushes what it has and what is about to arrive (`DevInit`).
Responses because of sequence errors are left out; they only add status packets.

### `RxFlowControl`
The FPGA sends word by word (`DataWord`, `StrcWord`, `IdleCycle` are clock cycles) as the comparison
made `OkLatency` cycles before allows. The host takes packets (`RecvData`, `RecvStrc`) and releases
them (`ReleaseRecvBuff`), and answers when a threshold is passed; a response for which no frame is
available is lost by an exception. Both bytes and packets are counted. The counters have 64 bits and do
not wrap in practice; they are naturals here. `Sums` gives the flow controls their sums over packets, as
a recursive function and not an operator, so that `Sums_proofs` can reason about it.

### `GraphActions`
`_action_queue_mutex` makes steps atomic. The wait of the handler thread is split at the one place where
it matters: `HandlerCheck` evaluates the predicate, `HandlerSleep` goes to sleep, and the mutex is held
from one to the other, which `shutdown()` and the destructor do not look at. `sync_actions` polls, so it
needs no notification. An action is abstracted to what its delivery does: nothing, throw, post another
one, or post itself again for ever. Which node gets it is not modelled.

### `RxOverrun`
The overrun protocol of a streamer with its radios. The graph is a queue of actions and a handler that
executes one at a time (`GraphActions` has the details); `DecideRestart` and `SetStoppedDueToOverrun` are
the rest of `_handle_rx_event_action`, during which the flags can change under it. recv() is a thread of
its own, and so is the user who gives stream commands. `radio_rx_core` is its state machine with the FIFO
of start commands. A packet is the start time of its stream. Two assumptions: a message of an overrun
reaches the host before the host restarts the radios (`MessagesKeepUp`), and start times are far enough
ahead for all radios to have their commands and for `recv()` to have finished with its report (`Begin`). So
the radio's answer to a late command (`radio_rx_core.v:533`) is not modelled, nor the race of that report with
an overrun right after the restart (`rx_streamer_zero_copy.hpp:236`).

### `RxAlign`, `AlignedDelivery`
`RxAlign` is `get_aligned_buffs::operator()` one iteration at a time: `NewTime`, `SameTime`, `OlderTime`,
`NoTime` and `AlignmentFailure` are its branches. `_frame_buffs` and `_prev_tsf` survive from call to
call. A packet is the number of its instant; its time restarts once if the device time is set back.
`AlignedDelivery` is the promise of the class comment, and `RxAlign` is shown to implement it: a delivery
has packets of one instant, and only instants that some channel has lost are skipped. Two exceptions are
part of the promise because the code makes them: after the time was set back a complete instant is
dropped once for each channel with time but the first (`Restart`), since each channel in turn restarts the
alignment, and a loss next to that change makes packets of equal times ambiguous.

### `IoServiceMgr`
The maps of the four managers as sets of records, `connect_links` and `disconnect_links` as the transports
call them: inline for the configuration of a stream, then its final service, then the destructor. The
creation of services, their parameters and the DPDK manager are left out. An exception in a destructor
ends the program (`failed`). Its `ManagerInit`, `ManagerNext` and `ManagerSpec` are named so that the proofs
about it and about the services it hands out can share a module.

### `InlineIoService`, `OffloadIoService`, `PerClientFifo`
`InlineIoService` is the table of receivers of each link and the multiplexer, with the frame pool of
`link_base.hpp`; a call of recv or recv_flow_ctrl takes one step per packet it looks at.
`OffloadIoService` EXTENDS it with the thread that makes these calls: `phase` and `turn` are the loop of
`_do_work_polling` and its iterator, `from_q` and `to_q` are the two queues of a client port, `requests`
is the third queue. `Disconnect` and `Erase` are two steps, since the client may go on as soon as it is
told that it is disconnected. What the code leaves undefined or throws in the thread ends in `crashed`; that
includes the assertions of the inline service about attached links and the lookups (`at()`) of its table and
of the multiplexer's queues.
`PerClientFifo` is what the services promise: whoever shares a link or the thread, each client has a FIFO
of its own. The channel of a receiver is, from its user back, the port's queue, the packet in the call,
the multiplexer's queue and its packets in the link; that of a sender is its port's queue. Timeouts are
zero, as the polling loop uses them. Assumptions: one thread makes and destroys clients
(`io_service_mgr` has no lock), and flow control leaves no more packets under way than a receiver has
frames.

## Runs

| Run | What it asks | Size |
|---|---|---|
| `ctrlport_reliable` | two threads, distinct registers, reliable link, async messages, 3 sequence numbers that wrap: the buffer bound, matching of responses, no forgotten waiter; every call ends without any deadline, although only one waiter is woken at a time | fair, 145 000 states |
| `ctrlport_lossy` | one thread; requests and responses lost, responses duplicated, failing commands, deadlines; fewer requests than sequence numbers: losses and duplicates are told apart exactly | safety, 522 000 states |
| `ctrlport_faults` | two threads on one register, all link faults, sends that throw, only 2 sequence numbers: accounting stays exact even when responses are confused, and calls end | fair, 121 000 states |
| `txflow` | packets of 3 and 4 bytes in words of 2, up to 2 losses in either direction, missing frames, one reinitialisation whose packet or answer may be lost and which may throw or stop at an old count, a buffer of an odd number of bytes (`chdr_stream_input.v:63`), a counter that wraps at 16 | fair, 645 000 states |
| `rxflow` | up to 3 losses or missing frames; the headroom of zero that the drivers configure (`x300_mb_iface.cpp:237`, `mpmd_mb_iface.cpp:292`): by how much the buffer is exceeded, exact accounting | fair, 1 081 000 states |
| `graph_actions` | two threads, two calls of each kind, a limit of 3, commit, release, shutdown and destruction at any moment | fair |
| `graph_join` | violation: the destructor's notification is lost and its join never returns | fair |
| `rx_overrun` | two channels, start and stop by the user, three overruns | fair, 116 000 states |
| `rx_align` | three timed channels and one without time, five packets each, one loss and one change of time, one attempt at alignment | fair, 63 000 states |
| `io_mgr` | control transports that share links, receive and transmit streamers on blocking services, two streamers on one polling service | safety, 140 000 states |
| `io_mgr_channels` | violation: a streamer's second channel cannot be disconnected | safety |
| `offload_io` | two receivers on one link of three frames, a sender with a window of one packet, each made and destroyed once | fair, 312 000 states |

## What the models show of the code

Two disagreements are runs: `graph_join` (the destructor of the graph) and `io_mgr_channels` (links of a
second channel). The others can be seen by changing a run as said; no run of their own asks for them.

- *Sequence numbers of control transactions* (`ctrlport_endpoint.cpp:273`). `ctrlport_lossy` with
  `SeqNums = 3` and `IgnoredOnlyIfSeen` as the only invariant: it is violated. Numbers count modulo 64 but their
  difference is taken in an `int8_t`, so after the last one is lost number 0 looks old and is ignored.
- *Waiters with one sequence number* (`ctrlport_endpoint.cpp:448`). `ctrlport_reliable` with one register for
  both threads (`SharedCalls`), `SeqNums = 4`, `BuffCapacity = 5`, `MaxAsync = 0`, `MaxReqs = 3`: `WaiterNotForgotten` is violated. The
  number is read before the wait for space releases the mutex, and two threads send the same one.
- *A reinitialisation that is cut short* (`chdr_tx_data_xport.hpp:281`). `resend_init` may end without having
  read the FPGA's answer: the loop over the status packets ends at an old count that leaves room for
  `UINT_MAX` bytes; the resync that follows the init packet has no frame, and `send_strc_resync` throws before
  the sleep; the init packet is lost; its answer is lost. The host then goes on with counts from zero while old
  counts are still under way, so that what it believes to be received runs ahead of what it has sent.
  `NoOverflow` and `NeverAhead` exempt this (`cut_short`). Without the exemption `txflow` finds both violated
  with `Faults = {}` (the first way), and, with `UintMax = 15`, with `Faults` of `{"no_frame"}`,
  `{"lose_down"}` or `{"lose_up"}`.
- *What the loop of a reinitialisation promises* (`chdr_tx_data_xport.hpp:292`). The comment says that the loop
  will "process the STRS packet that the FPGA will send in response to the init packet" (`AnswerProcessed`):
  `txflow` with `Faults = {}` and this property is violated, in the first of the four ways. `KeepsMoving` exempts `cut_short` too: after the exception the host sends without having
  waited, and the FPGA flushes data together with what preceded its init command, which no count makes up for.
- *Refresh of the ingress buffer's count* (`chdr_stream_input.v:474`). Words that pass while a status packet is
  being sent are cleared with the rest and count for no response. `KeepsMoving` exempts this (`uncounted`).
  Without the exemption `txflow` with `Faults = {}`, `PktSizes = {4}` and `MaxInits = 0` finds a stream that
  stands still although nothing was lost.
- *Headroom 0 of receive streams* (`chdr_stream_output.v:165`). The buffer that the host announces is exceeded
  by the words that pass while the comparison is late: `rxflow` with the invariant `NoOverflow`,
  `PktSizes = {6}` and `Faults = {}`. The drivers configure this headroom for all devices. What the run and
  `OverflowsByLatency` show instead is the bound of the excess (`OverflowBounded`).
- *Old exceptions of actions* (`graph.cpp:620`). `graph_actions` with the invariant `OnlyNewFailures`:
  `_action_eptr` is never cleared, so each later synchronous call throws the first exception again.
- *A stop that does not hold* (`rfnoc_rx_streamer.cpp:349`). `rx_overrun` with the invariant `StopHolds`: a
  restart that is under way when the user stops starts the radios again, although `last_stop` was
  checked, and nothing looks at it when the start command comes back.
- *A mode without an end* (`rfnoc_rx_streamer.cpp:181`). A stop that comes after the action handler has decided
  to restart and before `recv()` looks at `last_stop` leaves the overrun handling mode on: nothing is under way
  that would end it. `ModeHasEnd` exempts stops that come while the mode is on (`raced`); without the exemption
  `rx_overrun` finds it violated. The next item is the consequence.
- *Silence after stop and start* (`rfnoc_rx_streamer.cpp:306`). `rx_overrun` with `UserCmds <- StartStopStart`, `MaxOverruns = 2`
  and `OverrunNotSilent`: if the user stops while an overrun is handled and starts again, the mode may still
  be on, and the next overrun is taken for a duplicate.
- *Two threads that make and destroy streams* (`inline_io_service.cpp:459`). Without `Busy` in `Connect` and `Close`, `offload_io`
  reports a call of a deleted receiver: a new one joins the link before the old one's link is detached.
- *Receivers and a sender on one link* (`inline_io_service.cpp:153`). `recv_flow_ctrl` does not leave its loop
  after it has put a packet into a receiver's queue; the next callback is asked about a packet that is gone.
  `offload_io` with the sender on the receivers' link (four frames, made last) and `NoUndefined` shows it; the
  transports of a device do not share links in this way.
- *Start again.* `rx_overrun` and its theorems are for a user who starts the stream once. With `UserCmds` of
  start, stop, start, two restarts may be under way (`OneRestart`) and the mode may stay on (`ModeHasEnd`);
  of start, start, the mode may stay on; of start, start, stop, radios stream from different times
  (`StreamTogether`): a start cancels neither the overrun that is being handled nor its restart.
- *Frames that are not whole words* (`chdr_tx_data_xport.hpp:443`). "No need to round num_bytes since the
  transport always checks for enough space for a full frame" holds only for frames of whole words, which the
  usual frame sizes are. `txflow` with `FrameSize = 3` and `PktSizes = {3}`: `data_sent` counts four bytes where
  `dest_has_space` was asked for three, so the host may be one byte beyond the capacity; from then on the unsigned
  difference in `dest_has_space` wraps and there is always space (`NoOverflow` is violated).
- *Instants lost after a change of time* (`get_aligned_buffs.hpp:97`). When the device time is set back, each
  channel in turn is the first to see it and restarts the alignment; up to one complete instant for each channel
  with time but the first is dropped (`CatchesUp` and `AlignedDelivery` allow for it). With three such channels
  and no allowance but for one instant, TLC finds the second.
- *The recursion limit.* At the limit the graph drops the queue and logs, and a synchronous call returns
  normally (`SyncMeansHandled` therefore admits dropped actions), although `graph.hpp:244` announces an
  exception.
- *Lost windows.* `KeepsMoving` is stated for streams that lose nothing: the resync that would repair
  the counts needs room in the window that the losses have used up.

**Bounds.** Every bound is a constant named `Max...` and appears in a guard. They are chosen so that the
interesting case happens: sequence numbers and byte counters wrap (except in `ctrlport_lossy`, which asks
what holds before they do), windows hold two or three packets so that they fill, a resync happens at
least once, and the recursion limit is reached. `ctrlport_faults` has three requests: enough for a
duplicate to meet a request one round of sequence numbers later. `txflow` counts bytes modulo 16 with a
buffer of 11, so that counts wrap between two resyncs; `UintMax = 12` stands for `UINT_MAX` and is larger than
the buffer, so that, as in the code, there is room for it only if the received count is far enough ahead of the
sent one for the unsigned subtraction to wrap; two losses
are enough for an init packet, or its answer, and another packet to be lost. `rx_overrun` has a third overrun because
the second may be ignored as a duplicate and the third must not be; one waiting packet per channel is
enough for channels to differ. `rx_align` has more channels than attempts at alignment, so that
`AlignmentFailure` happens, and three with time, so that a change of time drops more than one instant. In `offload_io` one receiver has two frames, so that order matters, and the
other one, so that its queue is at its limit; `Made` fixes the order in which clients are made (the one
with fewer frames first), since all clients are alike otherwise. `io_mgr` has one polling service, so
that its two transports share it; the program ends at the first exception, and the behaviours without one go
on. The MC modules contain only constants.
`CHECK_DEADLOCK FALSE` is used for the graph, where everybody may be done.

**Fairness.** Weak fairness of steps that a running thread or a clock takes by itself: the receive thread
polls for ever, a thread that was notified or whose deadline has passed runs (a waiter that was not is never
assumed to wake up; the waits for ACKs are notified with `notify_all`), the FPGA's state machines run,
packets that are not lost arrive, a client sends or releases what it holds, the handler thread and the
offload thread run, a user who waits in a constructor or destructor returns when it can, a destination
consumes what it gets, recv() is called again and again (`RecvStep`, `Aligner`). No
fairness is assumed for what users do (post, commit, release, shut down) or for faults. `KeepsMoving`
assumes in addition that the client wants to send and the source has data: otherwise it says nothing. For
`txflow` it exempts what the code does not do: repair losses, count what passes while a status packet is being
sent, and recover from a reinitialisation that was cut short (see above).
`DisconnectReturns` needs no user who reads or gives back frames: a destructor runs when all are given back.

**Mutants.** For each property of a passing run `PROJECT.json` names a plausible mistake in the code
(an operator with a suffix, defined before the one it would replace) under which TLC finds the property
violated.

## Proofs

Each theorem holds for all values of the constants that satisfy the module's named assumption, which TLC
evaluates in every run; a theorem that needs more says so in its statement. The inductive invariants were
checked with TLC before they were proved.

`CtrlportEndpoint_proofs`
- `TypeCorrect`: `Spec => []TypeOK`, which includes that only threads that wait are woken. One lemma per group of steps. `ConstantsAssumption` is used for the range
  of sequence numbers and the calls of the threads.
- `FlowControlAccounting`: `Spec => []BufferAccounting`. The invariant is inductive together with `TypeOK`: each
  request carries, as history, the number of words queued before it, so that "the occupied words are the sizes
  of the queued requests" becomes a statement about neighbours in the queue and needs no sum. Appending and
  popping keep it, whatever order responses come in.
- `ReliableMatching`: `Spec => []ResponseFindsItsRequest`, under `Reliable`: the only faults are failing
  commands and calls that time out. `InOrder` is the invariant: the request queue is, from its front, the
  response the handler holds, the responses under way and the requests under way.
- `DeviceBufferNeverOverflows`: `Spec => []DeviceBufferBound`, under `Reliable`. By `InOrder` the requests on
  their way are the end of the request queue, so their words are a part of what `BufferAccounting` counts
  (`WordsOnTheWay`). `AsyncBound` bounds the acknowledgements of asynchronous messages, for which the code sets
  room aside; `ConstantsAssumption` says that the buffer is large enough for that.
- `NoWaiterForgotten`: `Spec => []WaiterNotForgotten`, under `Reliable` and `DistinctCalls` (no two threads use
  the same opcode and register; without it the property fails, see above). `Waits` is `WaiterNotForgotten` with
  the request itself in the queue and not only its number, `OwnCalls` says that a thread's request is one of its
  calls, and a response meant for one thread is therefore never taken, or its entry in `_wanted_acks` erased, by
  another.
- `MatchingBeforeWrap`, `OnlySeenAreIgnored`, `ResponsesAreOwn`, `DeviceBufferBeforeWrap`: what `ctrlport_lossy`
  checks, for any link that loses and duplicates packets: `Spec => [](Unwrapped => P)` for
  `ResponseFindsItsRequest`, `IgnoredOnlyIfSeen`, `OwnResponse` and `DeviceBufferBound`. `Unwrapped` says that
  fewer requests were made than there are sequence numbers; after that `IgnoredOnlyIfSeen` fails (see above).
  `OneCaller`: one thread makes the calls, one after the other, and sends do not throw; otherwise a number may
  be used twice before they wrap. The invariant: a sequence number stands for one request wherever it, or a
  response to it, is (`Numbered`); the queue holds the last numbers without a gap (`Consecutive`), so that a
  difference of numbers is a distance in the queue; the handler counts down to the request it is to answer
  (`Matched`); and what is on its way to the block is outstanding and newer than all that comes back (`Ahead`),
  so that no pop returns the words of a request that the block has not taken (`WordsAhead`).

`TxFlowControl_proofs`
- `TypeCorrect`: `Spec => []TypeOK`.
- `NeverOverflows`, `HostNeverAhead`: `Spec => []NoOverflow` and `Spec => []NeverAhead`, under `WholeFrames`
  (frames are whole words; otherwise both fail, see above). Counts wrap, so nothing can be compared directly.
  Instead every count has a lag, its distance modulo `CountMod` behind what the host has sent, and the lags are
  ordered along the path that counts take: packets in the buffer and on the link (`InSequence`), the FPGA's
  count (`Behind`), status packets and the count the host has received (`Running`). `Fits` closes the circle:
  the largest of them, the host's, is at most the capacity. Sending checks it, and a loss only widens the
  distance between a packet and those behind it. The lag of a resync is not larger than that of the count it
  replaces. `Initializing` is what remains while the counts are set to zero, and `Draining` says that the last status packet
  is then the answer. All this (`Sound`) is claimed until
  a reinitialisation is cut short, which both properties exempt (see above). What is to be shown at the end of
  one is that the loop leaves with the answer: it leaves with status packets unread only if there is room
  for `UINT_MAX` bytes, which sets `cut_short`.

`RxFlowControl_proofs`
- `TypeCorrect`, `HeldExactly`, `ResyncsExactly`: `TypeOK`, `HeldAccounting` and `ResyncExact`, for any sizes
  and losses. `Received` is the invariant: what was received and what is on the link is at most what was sent,
  and exactly that while `insync`. It is kept by `StrcOnLink`: the counts in a stream command are those of what
  was sent before it, so a resync finds what was lost up to itself. That the unsigned counts of the host never
  fall below zero follows: type correctness is not independent of the rest.
- `OverflowsByLatency`: `Spec => []OverflowBounded`, for every headroom, the drivers' zero included: what is in
  use stays within the adjusted capacity and the words of `OkLatency` cycles, and in packets half as many, since
  a packet takes two words. `Pipeline` is the invariant for the comparison, which is used `OkLatency` cycles after
  it was made: one that was made i cycles ago allows at most i words more than it compared. `Released` orders
  the counts that come back. The corollary `HeadroomSuffices` adds what headroom would keep what is in use
  within the buffer; no driver configures one.

`Sums_proofs`: running sums of a sequence, and what appending, removing the first element, concatenation and a
shift do to them. A recursive function is defined only if a function that satisfies its equation exists, which
`SumsExist` shows; `UpTo` is induction over the length as the absence of a least counterexample, since the
library's induction rules cannot be instantiated.

`GraphActions_proofs`
- `TypeCorrect`: `Spec => []TypeOK`.
- `HandlerExclusive`: `Spec => []BusyWhileDelivering`.
- `SyncCallsHandled`: `Spec => []SyncMeansHandled`. `SyncMeansHandled` speaks of calls that have ended and is
  not inductive. `InHand` says where the action of a call that still waits is (queued, in the handler's hands,
  handled or dropped), `Locks` ties the handler's hands to its place in the loop, `BusyWhileDelivering` ties
  that place to the busy flag, and `NoResultYet` separates waiting calls from ended ones. When a caller sees an
  empty queue and no work, these leave only "handled or dropped". The lemmas `IdsHeadTail` and `IdsAppend` say
  what taking from and appending to the queue do to the numbers in it.
- `FailuresReported`: `Spec => []FailureReported`. `FInv` adds to the above that a stored exception is never
  cleared, that actions are numbered in the order of their calls, and that a call that has returned has left
  nothing to handle: an action cannot fail after its caller got away.

`RxOverrun_proofs`
- `RestartsOnce`, `ModeComesToAnEnd`, `AllStreamTogether`: `OneRestart`, `ModeHasEnd` and `StreamTogether` for
  any number of channels, overruns and stop commands, under `StartedOnce`: the user starts the stream at most
  once (see *Start again* above). None is inductive. The invariant is the protocol as a circle of six phases:
  the radios get their first start commands (`Starting`), stream (`Flowing`), one overrun is being handled
  (`Deciding`), recv() is to find out (`Halting`), a restart is requested behind all stop commands
  (`Requested`), and it is answered behind all events (`Answered`), from where the start commands lead back to
  `Starting`. The order of the queue is what makes it a circle: a restart that overtook a stop command would
  start a radio that is then stopped. After the user has stopped the stream no phase holds any more; what remains
  is `AtMostOne` and `Declined`: an overrun turns the mode on only until the action handler has decided not to
  restart, unless the stop came while the mode was on (`raced`).

`RxAlign_proofs`
- `Aligned`: `Spec => []AlignedToOneTime`. The invariant adds that packets that are held or wait were sent,
  which a change of the device time does not touch, and that the loop goes on only while channels are left.
  `FirstExists`: the channel the loop looks at next is a minimum, which exists because the naturals are
  well-founded.
- `KeepsPromise`: `Spec => DeliversAligned`, the refinement of `AlignedDelivery`, for any number of channels,
  losses, interrupted calls and one change of time. `SuccessDelivers` shows that a delivery is allowed, all
  other steps are losses, the change of time, or nothing. What is to be shown is that no complete instant is
  skipped. By `Ordered` and `Kept` what a channel has released is what was delivered, what was lost before it,
  or what the loop gave up; without losses (`NoLoss`) `Together` says that channels are at most one packet
  apart, except around the change of time. There `Joined` is the set of channels that have seen the new time,
  and each of them that joins costs the others one packet: the bound `Restart` of `AlignedDelivery`, one less
  than the channels with time, is this count.

`IoServices_proofs`, the manager
- `ServiceKept`, `OneService`, `StreamersNotMixed`: `AttachedWhileUsed`, `LinksInOneService` and
  `StreamersApart` hold for any number of transports, adapters and services. None is inductive alone, since the
  managers look at their maps and not at the transports. `ManagerInv` ties them together: an entry of the inline
  and of the blocking manager counts exactly the transports that use its service (so the last one that leaves,
  and no other, removes it), links that a manager knows are in use, and a service has users of one manager only.
  `Fresh` shows that a new service differs from all that are used (pigeonhole, then the least free number);
  `Unshared` that only control transports have links in common (`ManagerAssumption`). One lemma per manager and
  direction; what joining and leaving do to the managers that are not concerned is proved once.

`IoServices_proofs`, the offload service with the inline service it drives
- `ServiceInvariance`: `Spec => []ServiceInv`, for any links, clients, frames and order in which clients are
  made. It has three parts. `Core` is about who is where: the thread's lists (`Listed`) and whose turn it is,
  its call into the inline service (`Calling`), the stages of a client's life (`Life`), and a client that has
  been told that it is disconnected and is still to be erased (`Erased`). `Accounts` is about frames: those that
  are free and those of the clients are the frames of the link (`Pools`), the thread counts those that are out
  (`Counted`), and what is under way to a client fits into what it has reserved (`Room`). `Table` is about
  requests and the table of receivers: the order of requests (`RequestOrder`, `Pending`), reservations as the
  sum over connected clients (`Reservations`), callbacks that are those of live receivers (`Receivers`), except
  the one that is left until its link is detached (`LeftBehind`). An exception in the thread may leave the table
  half changed, so `Table` is claimed until `crashed`; the other two do not need it.
- `QueuesNeverOverflow`, `FramesAreAccounted`: `QueuesFit` and `FramesAccounted` follow from `Accounts`. Sums
  over the clients of a link are folds over sets; the lemmas at the start of the module say what changing one
  summand, or moving one frame from a link's pool to a client, does to them (`Sum`).
- `NeverUndefined`: `Spec => []NoUndefined`, under two hypotheses. `EnoughFrames`: the links have the frames
  that clients reserve (`frame_reservation_mgr.hpp` throws otherwise, and it does so in the thread).
  `LinksApart`: receivers and senders do not share a receive link; without it the property fails (`AsksWithout`,
  see above). It covers the assertions and lookups of the inline service: a link is attached once (`OneDetach`,
  `Attached`), and whoever is called is in the table. With `Accounts` and `Table`, each of the places that the code leaves undefined is excluded in a
  lemma of its own.
- `ClientsAreServedInOrder`: `Spec => DeliversInOrder`, the refinement of `PerClientFifo`. The channel of a
  client is the concatenation of the places it passes through, so most steps move an element across a boundary
  and leave the channel as it is: one lemma per kind of step. What is to be shown is that packets never overtake
  at a boundary: a call that looks at the link is one for which the multiplexer has nothing (`Queued`). Only
  packets of a receiver that is not `"up"` are ever thrown away.

Only model-checked: liveness (fairness and ENABLED are out of the prover's reach), that is `CallsReturn`, the
`KeepsMoving`, `CatchesUp` and `StreamResumes` of the streams, `SyncCallsReturn` of the graph and
`DisconnectReturns` of the offload service. Every other property of a passing run is stated by a theorem.

## Plan

Written so far: the modules above. Next:

1. `GraphResolve`: property resolution as a fixed point. `MpmClaim`: claim, reclaim and timeout.
2. An abstract credit counter that `CtrlportEndpoint` and `RxFlowControl` implement.
3. The blocking loops of the offload service; multiplexed data links in `IoServiceMgr`.

## Not modelled

`PROJECT.json` lists every part with its reason. In short: links and frame pools are input and output,
seen as delay and loss (the frame pool is in `InlineIoService`); stream managers, the management portal and the graph session are sequential
set-up; block controllers, experts and device drivers are register layouts and arithmetic; conversion is
numerical; firmware and most FPGA code are board support. In the modelled parts: the parsing of packets,
log messages, user callbacks, custom register spaces and `poll32` of the control port, the configuration
of a new stream, and the removal of nodes from a graph are left out; so are the blocking loops of the
offload service, its reservation of send frames, the DPDK manager, fragments of packets over several
recv() calls, and the transmit streamer (it has no alignment and no restart).

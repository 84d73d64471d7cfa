------------------------------ MODULE RxOverrun ------------------------------
(***************************************************************************)
(* The overrun protocol between a receive streamer and its radios          *)
(* (rfnoc_rx_streamer.cpp, rx_streamer_zero_copy.hpp,                      *)
(* radio_control_impl.cpp, radio_rx_core.v).                               *)
(*                                                                         *)
(* A radio that cannot get rid of its samples ends its stream and tells    *)
(* the host.  The streamer stops all radios, lets the user read what is    *)
(* left, reports the overrun and asks the radio that overran first to      *)
(* start all of them again.  Four threads take part: the user's thread     *)
(* that gives stream commands, the one that calls recv(), the control      *)
(* endpoint's receive thread that delivers asynchronous messages, and the  *)
(* graph's action handler, which executes one action at a time.  What they *)
(* share are atomic flags and the queue of actions (see GraphActions).     *)
(***************************************************************************)
EXTENDS Integers, Sequences, FiniteSets

CONSTANTS
    NumChans,    \* channels of the streamer, one radio for each
    UserCmds,    \* the stream commands the user gives, in order
    MaxOverruns, \* bound: overruns
    MaxData      \* bound: packets that wait in the transport of a channel

ASSUME OverrunAssumption ==
    /\ {NumChans, MaxData} \subseteq Nat \ {0}
    /\ MaxOverruns \in Nat
    /\ UserCmds \in Seq({"start", "stop"})

VARIABLES
    queue,       \* actions that wait in the graph
    handler,     \* where the action handler is in _handle_rx_event_action
    cont_mode,   \* the flag of the event it handles
    mode,        \* _overrun_handling_mode
    last_stop,   \* _last_stream_cmd_stop
    overrun_channel, \* _overrun_channel
    stopped,     \* _stopped_due_to_overrun
    recv,        \* where the thread in recv() is
    data,        \* packets in each channel's transport, as the start time of their stream
    last_cmd,    \* _last_stream_cmd of each radio, its mode
    state,       \* radio_rx_core: state
    fifo,        \* radio_rx_core: start times in the command FIFO, the one in execution first
    user,        \* where the thread that gives stream commands is
    ntimes,      \* start times used
    noverruns,   \* counter for the bound
    ended,       \* history: the overrun that ended a radio's stream is not reported yet
    raced        \* history: the user stopped the stream in overrun handling mode

streamer == <<mode, last_stop, overrun_channel, stopped>>
thread == <<handler, cont_mode>>
radios == <<last_cmd, state, fifo>>
history == <<ended, raced>>
vars == <<queue, thread, streamer, recv, data, radios, user, ntimes, noverruns, history>>

Chans == 0 .. NumChans - 1

\* Actions at the edges between streamer and radio: a stream command and a
\* restart request go up to the radio; an event and a stream command come down.
Stop(c) == [kind |-> "stop", chan |-> c, time |-> 0, cont |-> FALSE]
Start(c, t) == [kind |-> "start", chan |-> c, time |-> t, cont |-> FALSE]
Restart(c) == [kind |-> "restart", chan |-> c, time |-> 0, cont |-> FALSE]
StartDown(c, t) == [kind |-> "start_down", chan |-> c, time |-> t, cont |-> FALSE]
Event(c, cont) == [kind |-> "event", chan |-> c, time |-> 0, cont |-> cont]

Handles(kind, c) ==
    /\ handler = "idle" /\ queue # <<>>
    /\ Head(queue).kind = kind /\ Head(queue).chan = c

QueueEmpty == queue = <<>> /\ handler = "idle"

-----------------------------------------------------------------------------
(* The streamer's action handlers, in the action handler's thread *)

\* _handle_rx_event_action: a second overrun before the restart is ignored.
StopActions(c) == [i \in 1..NumChans |-> Stop(i - 1)]

Duplicate_Never == FALSE
Duplicate == mode

HandleRxEvent(c) ==
    /\ Handles("event", c)
    /\ mode' = TRUE
    /\ IF Duplicate
       THEN /\ queue' = Tail(queue)
            /\ UNCHANGED <<overrun_channel, thread>>
       ELSE /\ overrun_channel' = c
            /\ queue' = Tail(queue) \o StopActions(c)
            /\ handler' = "decide"
            /\ cont_mode' = Head(queue).cont
    /\ UNCHANGED <<last_stop, stopped, recv, data, radios, user, ntimes, noverruns, history>>

\* The mode is left again if there is nothing to restart.
DecideRestart ==
    /\ handler = "decide"
    /\ mode' = (mode /\ cont_mode /\ ~last_stop)
    /\ handler' = "flag"
    /\ UNCHANGED <<queue, cont_mode, last_stop, overrun_channel, stopped, recv, data,
                   radios, user, ntimes, noverruns, history>>

SetStoppedDueToOverrun ==
    /\ handler = "flag"
    /\ stopped' = TRUE
    /\ handler' = "idle"
    /\ UNCHANGED <<queue, cont_mode, mode, last_stop, overrun_channel, recv, data,
                   radios, user, ntimes, noverruns, history>>

\* _handle_stream_cmd_action: a radio's start command is sent to all radios.
ModeAfterStart_Kept == mode
ModeAfterStart == FALSE

StartActions_Own(c, t) == <<Start(c, t)>>
StartActions(c, t) == [i \in 1..NumChans |-> Start(i - 1, t)]

HandleStreamCmd(c) ==
    /\ Handles("start_down", c)
    /\ queue' = Tail(queue) \o StartActions(c, Head(queue).time)
    /\ mode' = ModeAfterStart
    /\ UNCHANGED <<thread, last_stop, overrun_channel, stopped, recv, data, radios, user,
                   ntimes, noverruns, history>>

-----------------------------------------------------------------------------
(* The radio controller and the radio core *)

\* Assumption: messages of overruns reach the host before it restarts the radios.
MessagesKeepUp == \A c \in Chans : state[c] # "report"

\* The restart request comes back as a start command for a time ahead.
RestartRequest(c) ==
    /\ Handles("restart", c)
    /\ MessagesKeepUp
    /\ queue' = Append(Tail(queue), StartDown(c, ntimes + 1))
    /\ ntimes' = ntimes + 1
    /\ UNCHANGED <<thread, streamer, recv, data, radios, user, noverruns, history>>

\* issue_stream_cmd: a stop empties the command FIFO and ends what is executed,
\* unless the core still waits for the answer to its error message.
RadioStop(c) ==
    /\ Handles("stop", c)
    /\ queue' = Tail(queue)
    /\ last_cmd' = [last_cmd EXCEPT ![c] = "stop"]
    /\ fifo' = [fifo EXCEPT ![c] = <<>>]
    /\ state' = [state EXCEPT ![c] = IF @ = "report" THEN @ ELSE "idle"]
    /\ UNCHANGED <<thread, streamer, recv, data, user, ntimes, noverruns, history>>

RadioStart(c) ==
    /\ Handles("start", c)
    /\ queue' = Tail(queue)
    /\ last_cmd' = [last_cmd EXCEPT ![c] = "continuous"]
    /\ fifo' = [fifo EXCEPT ![c] = Append(@, Head(queue).time)]
    /\ state' = [state EXCEPT ![c] = IF @ = "idle" THEN "time_check" ELSE @]
    /\ ended' = [ended EXCEPT ![c] = FALSE]
    /\ UNCHANGED <<thread, streamer, recv, data, user, ntimes, noverruns, raced>>

\* The start time is far enough ahead for all radios to have their commands and
\* for recv() to have finished with the report (OVERRUN_RESTART_DELAY).
Begin(c) ==
    /\ state[c] = "time_check"
    /\ recv # "clear"
    /\ \A i \in DOMAIN queue : queue[i] # Start(queue[i].chan, Head(fifo[c]))
    /\ user.step = "idle" \/ user.time # Head(fifo[c])
    /\ state' = [state EXCEPT ![c] = "running"]
    /\ UNCHANGED <<queue, thread, streamer, recv, data, last_cmd, fifo, user, ntimes,
                   noverruns, history>>

Packet(c) ==
    /\ state[c] = "running"
    /\ Len(data[c]) < MaxData
    /\ data' = [data EXCEPT ![c] = Append(@, Head(fifo[c]))]
    /\ UNCHANGED <<queue, thread, streamer, recv, radios, user, ntimes, noverruns, history>>

\* Without room for its samples the core ends the command and reports it.
Overrun(c) ==
    /\ state[c] = "running"
    /\ noverruns < MaxOverruns
    /\ state' = [state EXCEPT ![c] = "report"]
    /\ ended' = [ended EXCEPT ![c] = TRUE]
    /\ noverruns' = noverruns + 1
    /\ UNCHANGED <<queue, thread, streamer, recv, data, last_cmd, fifo, user, ntimes,
                   raced>>

\* async_message_handler; the message was acknowledged before, and with the
\* acknowledgement the core takes the ended command out of its FIFO.
ContMode_OfEvent(c) == last_cmd[c] = "continuous" /\ state[c] = "running"
ContMode(c) == last_cmd[c] = "continuous"

AsyncMessage(c) ==
    /\ state[c] = "report"
    /\ LET rest == IF fifo[c] = <<>> THEN <<>> ELSE Tail(fifo[c])
       IN  /\ fifo' = [fifo EXCEPT ![c] = rest]
           /\ state' = [state EXCEPT ![c] = IF rest = <<>> THEN "idle" ELSE "time_check"]
    /\ queue' = Append(queue, Event(c, ContMode(c)))
    /\ UNCHANGED <<thread, streamer, recv, data, last_cmd, user, ntimes, noverruns, history>>

-----------------------------------------------------------------------------
(* The thread in recv() *)

AllHaveData == \A c \in Chans : data[c] # <<>>

\* Channels are aligned in time: packets of an older stream are discarded.
RecvData ==
    /\ recv = "recv" /\ AllHaveData
    /\ LET newest == CHOOSE t \in {Head(data[c]) : c \in Chans} :
                        \A c \in Chans : Head(data[c]) <= t
           aligned == \A c \in Chans : Head(data[c]) = newest
       IN  data' = [c \in Chans |-> IF aligned \/ Head(data[c]) < newest
                                    THEN Tail(data[c]) ELSE data[c]]
    /\ UNCHANGED <<queue, thread, streamer, recv, radios, user, ntimes, noverruns, history>>

RecvTimeout ==
    /\ recv = "recv" /\ ~AllHaveData
    /\ recv' = "timeout"
    /\ UNCHANGED <<queue, thread, streamer, data, radios, user, ntimes, noverruns, history>>

CheckStopped ==
    /\ recv = "timeout"
    /\ recv' = IF stopped THEN "handle" ELSE "recv"
    /\ UNCHANGED <<queue, thread, streamer, data, radios, user, ntimes, noverruns, history>>

\* _handle_overrun: what is left is dropped, then a restart is requested, unless
\* the user has stopped the stream.
HandleOverrun ==
    /\ recv = "handle"
    /\ data' = [c \in Chans |-> <<>>]
    /\ recv' = IF mode /\ ~last_stop THEN "post" ELSE "clear"
    /\ UNCHANGED <<queue, thread, streamer, radios, user, ntimes, noverruns, history>>

PostRestart ==
    /\ recv = "post"
    /\ queue' = Append(queue, Restart(overrun_channel))
    /\ recv' = "clear"
    /\ UNCHANGED <<thread, streamer, data, radios, user, ntimes, noverruns, history>>

\* The user gets ERROR_CODE_OVERFLOW.
ReportOverrun ==
    /\ recv = "clear"
    /\ stopped' = FALSE
    /\ recv' = "recv"
    /\ ended' = [c \in Chans |-> FALSE]
    /\ UNCHANGED <<queue, thread, mode, last_stop, overrun_channel, data, radios, user,
                   ntimes, noverruns, raced>>

-----------------------------------------------------------------------------
(* The thread that gives stream commands (issue_stream_cmd) *)

IssueStreamCmd ==
    /\ user.step = "idle" /\ user.next <= Len(UserCmds)
    /\ last_stop' = (UserCmds[user.next] = "stop")
    /\ user' = [user EXCEPT !.step = "post", !.chan = 0, !.time = ntimes + 1]
    /\ ntimes' = IF UserCmds[user.next] = "start" THEN ntimes + 1 ELSE ntimes
    /\ raced' = (raced \/ (mode /\ last_stop'))
    /\ UNCHANGED <<queue, thread, mode, overrun_channel, stopped, recv, data, radios,
                   noverruns, ended>>

\* post_action, synchronous: one channel after the other.
PostStreamCmd ==
    /\ user.step = "post"
    /\ queue' = Append(queue, IF UserCmds[user.next] = "stop" THEN Stop(user.chan)
                              ELSE Start(user.chan, user.time))
    /\ user' = [user EXCEPT !.step = "sync"]
    /\ UNCHANGED <<thread, streamer, recv, data, radios, ntimes, noverruns, history>>

SyncStreamCmd ==
    /\ user.step = "sync" /\ QueueEmpty
    /\ user' = IF user.chan + 1 < NumChans
               THEN [user EXCEPT !.step = "post", !.chan = @ + 1]
               ELSE [user EXCEPT !.step = "idle", !.next = @ + 1]
    /\ UNCHANGED <<queue, thread, streamer, recv, data, radios, ntimes, noverruns, history>>

-----------------------------------------------------------------------------
Init ==
    /\ queue = <<>> /\ handler = "idle" /\ cont_mode = FALSE
    /\ mode = FALSE /\ last_stop = FALSE /\ overrun_channel = 0 /\ stopped = FALSE
    /\ recv = "recv"
    /\ data = [c \in Chans |-> <<>>]
    /\ last_cmd = [c \in Chans |-> "stop"]
    /\ state = [c \in Chans |-> "idle"]
    /\ fifo = [c \in Chans |-> <<>>]
    /\ user = [step |-> "idle", next |-> 1, chan |-> 0, time |-> 0]
    /\ ntimes = 0 /\ noverruns = 0
    /\ ended = [c \in Chans |-> FALSE]
    /\ raced = FALSE

HandlerStep ==
    \/ DecideRestart
    \/ SetStoppedDueToOverrun
    \/ \E c \in Chans : \/ HandleRxEvent(c) \/ HandleStreamCmd(c)
                        \/ RestartRequest(c) \/ RadioStop(c) \/ RadioStart(c)

RecvStep ==
    \/ RecvData \/ RecvTimeout \/ CheckStopped
    \/ HandleOverrun \/ PostRestart \/ ReportOverrun

UserStep == IssueStreamCmd \/ PostStreamCmd \/ SyncStreamCmd

Next ==
    \/ HandlerStep
    \/ RecvStep
    \/ UserStep
    \/ \E c \in Chans : Begin(c) \/ Packet(c) \/ Overrun(c) \/ AsyncMessage(c)

Spec == Init /\ [][Next]_vars

\* The handler thread and the control endpoint's thread run, the user reads, a
\* command once begun is posted to all channels, and time passes.
FairSpec ==
    /\ Spec
    /\ WF_vars(HandlerStep) /\ WF_vars(RecvStep)
    /\ WF_vars(PostStreamCmd) /\ WF_vars(SyncStreamCmd)
    /\ \A c \in Chans : WF_vars(Begin(c)) /\ WF_vars(AsyncMessage(c))

-----------------------------------------------------------------------------
(* Properties *)

Streaming(c) == state[c] \in {"time_check", "running"}

\* Nobody is about to start or stop a radio.
Settled ==
    /\ QueueEmpty /\ user.step = "idle" /\ recv \in {"recv", "timeout"} /\ ~stopped
    /\ \A c \in Chans : state[c] # "report"

\* When nothing is under way and the user has not stopped them, the radios
\* stream all together, started for the same time, or not at all.
StreamTogether ==
    (Settled /\ ~last_stop) => \A c, d \in Chans :
        Streaming(c) => Streaming(d) /\ Head(fifo[d]) = Head(fifo[c])

\* Overruns of several radios, and overruns that are noticed late, lead to one
\* restart at a time.
Restarts == {i \in DOMAIN queue : queue[i].kind \in {"restart", "start_down"}}
OneRestart == Cardinality(Restarts) + (IF recv = "post" THEN 1 ELSE 0) <= 1

\* Overrun handling mode is on only while something is under way that ends it,
\* whether or not the user has stopped the stream before the overrun.  But a stop
\* that comes while the mode is on may leave it on for ever, between the action
\* handler's decision and that of recv(): see the README, as below.
ModeHasEnd ==
    mode /\ ~raced => handler # "idle" \/ stopped \/ Restarts # {}

\* A stream that an overrun has ended starts again unless the user stops it.
StreamResumes ==
    \A c \in Chans : (ended[c] /\ ~last_stop) ~> (Streaming(c) \/ last_stop)

\* A stream that an overrun has ended does not just stay silent.  This does not
\* hold when the user stops and starts again: see the README, "What the models
\* show of the code".
OverrunNotSilent ==
    \A c \in Chans : (ended[c] /\ ~last_stop) ~> (~ended[c] \/ last_stop)

\* After the user's last command, a stop, the radios stay stopped.  This does not
\* hold if a restart is under way: see the README, as above.
StopHolds ==
    (Settled /\ last_stop) => \A c \in Chans : ~Streaming(c)

=============================================================================

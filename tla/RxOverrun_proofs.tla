--------------------------- MODULE RxOverrun_proofs ---------------------------
(***************************************************************************)
(* Proofs about RxOverrun: for any number of channels, of overruns and of  *)
(* stop commands, overruns lead to one restart at a time, overrun handling *)
(* mode comes to an end, and the radios stream all together or not at all, *)
(* as long as the user starts the stream once.                             *)
(*                                                                         *)
(* The argument follows the protocol.  Once the user has started the       *)
(* radios, and until he stops them, streamer, action handler, queue and    *)
(* radios are together in one of six phases, which follow each other in a  *)
(* circle: Starting, Flowing, Deciding, Halting, Requested, Answered.      *)
(* After a stop only what is under way can still cause a restart, and an   *)
(* overrun that comes later is not answered with one.                      *)
(***************************************************************************)
EXTENDS RxOverrun, SequenceTheorems, FiniteSetTheorems, TLAPS

\* The user starts the stream at most once; he stops it as often as he likes.
\* A start that comes while an overrun is handled, or after a stop, disturbs the
\* circle: TLC then finds behaviours that violate the invariants.
StartedOnce ==
    \A i, j \in DOMAIN UserCmds :
        UserCmds[i] = "start" /\ UserCmds[j] = "start" => i = j

Action == [kind : {"stop", "start", "restart", "start_down", "event"}, chan : Chans,
           time : Nat, cont : BOOLEAN]

Typed ==
    /\ queue \in Seq(Action)
    /\ handler \in {"idle", "decide", "flag"} /\ cont_mode \in BOOLEAN
    /\ mode \in BOOLEAN /\ last_stop \in BOOLEAN /\ stopped \in BOOLEAN
    /\ overrun_channel \in Chans
    /\ recv \in {"recv", "timeout", "handle", "post", "clear"}
    /\ last_cmd \in [Chans -> {"stop", "continuous"}]
    /\ state \in [Chans -> {"idle", "time_check", "running", "report"}]
    /\ fifo \in [Chans -> Seq(Nat)]
    /\ user \in [step : {"idle", "post", "sync"}, next : Nat \ {0}, chan : Chans, time : Nat]
    /\ ntimes \in Nat

\* What the user has done so far.
Issued ==
    {i \in DOMAIN UserCmds : i < user.next \/ (i = user.next /\ user.step # "idle")}
NotStarted == \A i \in Issued : UserCmds[i] = "stop"

User ==
    user.step # "idle" =>
        /\ user.next \in DOMAIN UserCmds
        /\ last_stop = (UserCmds[user.next] = "stop")

-----------------------------------------------------------------------------
(* The phases of the protocol *)

Reading == recv \in {"recv", "timeout"} /\ ~stopped

\* recv() has no report left to make, or is about to make it.
Reported == Reading \/ (recv = "clear" /\ stopped)

\* Before the first start no radio has anything to do.
Quiet ==
    /\ ~mode /\ handler = "idle" /\ Reading
    /\ \A i \in DOMAIN queue : queue[i].kind = "stop"
    /\ user.step # "sync" => queue = <<>>
    /\ \A c \in Chans : state[c] = "idle" /\ fifo[c] = <<>>

\* A start command for the channel is in the queue, or the user has yet to post it.
ToCome(c) ==
    \/ \E i \in DOMAIN queue : queue[i].chan = c
    \/ user.step = "post" /\ user.chan <= c
    \/ user.step = "sync" /\ user.chan < c

StartedFor(c, t) == \A k \in DOMAIN fifo[c] : fifo[c][k] = t

\* All radios get a start command for one time.
StartingAt(t) ==
    /\ \A i \in DOMAIN queue : queue[i] = Start(queue[i].chan, t)
    /\ \A c \in Chans :
          /\ StartedFor(c, t)
          /\ \/ state[c] = "idle" /\ fifo[c] = <<>> /\ ToCome(c)
             \/ state[c] = "time_check" /\ fifo[c] # <<>> /\ last_cmd[c] = "continuous"
    /\ user.step # "idle" => user.time = t
Starting ==
    /\ ~mode /\ handler = "idle" /\ Reported
    /\ \E t \in 0..ntimes : StartingAt(t)

\* The radios stream, and overruns come as events that ask for a restart.
FlowingAt(t) ==
    \A c \in Chans :
        /\ StartedFor(c, t)
        /\ state[c] \in {"time_check", "running"} => fifo[c] # <<>>
        /\ state[c] = "idle" => queue # <<>>
        /\ state[c] # "idle" => last_cmd[c] = "continuous"
Flowing ==
    /\ ~mode /\ handler = "idle" /\ Reading /\ user.step = "idle"
    /\ \A i \in DOMAIN queue : queue[i].kind = "event" /\ queue[i].cont
    /\ \E t \in 0..ntimes : FlowingAt(t)

\* A radio has been stopped, or its stop command is in the queue.
Pending(c) == \E i \in DOMAIN queue : queue[i].kind = "stop" /\ queue[i].chan = c
Halted(c) == state[c] \in {"idle", "report"} /\ fifo[c] = <<>>
AllHalt == \A c \in Chans : Halted(c) \/ Pending(c)

OnlyStops == \A i \in DOMAIN queue : queue[i].kind \in {"event", "stop"}

\* The action handler has sent the stop commands.
Deciding ==
    /\ mode /\ handler \in {"decide", "flag"} /\ cont_mode /\ Reading /\ user.step = "idle"
    /\ OnlyStops /\ AllHalt

\* recv() is to find out that the stream was stopped.
Halting ==
    /\ mode /\ handler = "idle" /\ stopped /\ recv # "clear" /\ user.step = "idle"
    /\ OnlyStops /\ AllHalt

\* A restart is requested, behind all stop commands.
RequestedAt(r) ==
    /\ queue[r].kind = "restart"
    /\ \A i \in DOMAIN queue \ {r} :
          queue[i].kind = "event" \/ (queue[i].kind = "stop" /\ i < r)
Requested ==
    /\ mode /\ handler = "idle" /\ Reported /\ user.step = "idle"
    /\ \E r \in DOMAIN queue : RequestedAt(r)
    /\ AllHalt

\* The request has been answered, behind all events.
AnsweredAt(r) ==
    /\ queue[r].kind = "start_down" /\ queue[r].time \in 0..ntimes
    /\ \A i \in DOMAIN queue \ {r} : queue[i].kind = "event" /\ i < r
Answered ==
    /\ mode /\ handler = "idle" /\ Reported /\ user.step = "idle"
    /\ \E r \in DOMAIN queue : AnsweredAt(r)
    /\ \A c \in Chans : state[c] = "idle" /\ fifo[c] = <<>>

InPhase == Starting \/ Flowing \/ Deciding \/ Halting \/ Requested \/ Answered

\* OneRestart without the cardinality.
AtMostOne ==
    /\ \A i, j \in Restarts : i = j
    /\ recv = "post" => Restarts = {}

IInv ==
    /\ Typed /\ User /\ AtMostOne
    /\ NotStarted => Quiet
    /\ ~NotStarted /\ ~last_stop => InPhase

-----------------------------------------------------------------------------
(* The queue *)

LEMMA TailOf ==
    ASSUME NEW S, NEW s \in Seq(S), s # <<>>
    PROVE  /\ Tail(s) \in Seq(S) /\ 1 \in DOMAIN s /\ Head(s) = s[1] /\ Head(s) \in S
           /\ \A i \in DOMAIN Tail(s) : i + 1 \in DOMAIN s /\ Tail(s)[i] = s[i + 1]
           /\ \A i \in DOMAIN s \ {1} : i - 1 \in DOMAIN Tail(s) /\ Tail(s)[i - 1] = s[i]
           /\ DOMAIN s \subseteq Nat \ {0} /\ DOMAIN Tail(s) \subseteq Nat \ {0}
<1>1. /\ Head(s) \in S /\ Tail(s) \in Seq(S)
      /\ Head(s) = s[1] /\ Len(s) \in Nat \ {0} /\ Len(Tail(s)) = Len(s) - 1
      /\ DOMAIN s = 1..Len(s) /\ DOMAIN Tail(s) = 1..Len(s) - 1
      /\ \A i \in 1..Len(s) - 1 : Tail(s)[i] = s[i + 1]
  BY HeadTailProperties, LenProperties, EmptySeq
<1> QED
  BY <1>1

LEMMA AppendOf ==
    ASSUME NEW S, NEW s \in Seq(S), NEW a \in S
    PROVE  /\ Append(s, a) \in Seq(S) /\ Append(s, a) # <<>>
           /\ DOMAIN Append(s, a) = DOMAIN s \cup {Len(s) + 1}
           /\ Len(s) + 1 \in Nat \ {0}
           /\ \A i \in DOMAIN s : i \in Nat \ {0} /\ i < Len(s) + 1
           /\ \A i \in DOMAIN s : Append(s, a)[i] = s[i]
           /\ Append(s, a)[Len(s) + 1] = a
<1>1. /\ Append(s, a) \in Seq(S)
      /\ DOMAIN s = 1..Len(s) /\ DOMAIN Append(s, a) = 1..Len(s) + 1
      /\ Len(s) \in Nat
      /\ \A i \in 1..Len(s) : Append(s, a)[i] = s[i]
      /\ Append(s, a)[Len(s) + 1] = a
  BY AppendProperties, LenProperties
<1> QED
  BY <1>1

LEMMA AppendSame ==
    ASSUME NEW s \in Seq(Nat), NEW t \in Nat, \A k \in DOMAIN s : s[k] = t
    PROVE  Append(s, t) # <<>> /\ \A k \in DOMAIN Append(s, t) : Append(s, t)[k] = t
<1>1. /\ Append(s, t) # <<>> /\ DOMAIN Append(s, t) = DOMAIN s \cup {Len(s) + 1}
      /\ \A i \in DOMAIN s : Append(s, t)[i] = s[i]
      /\ Append(s, t)[Len(s) + 1] = t
  BY AppendOf
<1> QED
  BY <1>1

\* What one command for each channel adds to a queue.
LEMMA ConcatOf ==
    ASSUME NEW S, NEW s \in Seq(S), NEW f \in Seq(S)
    PROVE  /\ s \o f \in Seq(S)
           /\ \A i \in DOMAIN s : i \in DOMAIN (s \o f) /\ (s \o f)[i] = s[i]
           /\ \A i \in DOMAIN (s \o f) \ DOMAIN s :
                 \E k \in DOMAIN f : (s \o f)[i] = f[k]
           /\ \A k \in DOMAIN f : \E i \in DOMAIN (s \o f) : (s \o f)[i] = f[k]
<1>1. PICK q \in Seq(S) : q = s \o f
  BY ConcatProperties
<1>2. /\ Len(q) = Len(s) + Len(f)
      /\ \A i \in 1..Len(s) + Len(f) :
            q[i] = IF i <= Len(s) THEN s[i] ELSE f[i - Len(s)]
  BY <1>1, ConcatProperties
<1>3. /\ Len(s) \in Nat /\ Len(f) \in Nat
      /\ DOMAIN s = 1..Len(s) /\ DOMAIN f = 1..Len(f) /\ DOMAIN q = 1..Len(s) + Len(f)
  BY <1>2, LenProperties
<1>4. \A k \in DOMAIN f : Len(s) + k \in 1..Len(s) + Len(f) /\ ~(Len(s) + k <= Len(s))
                          /\ (Len(s) + k) - Len(s) = k
  BY <1>3
<1>5. \A i \in DOMAIN q \ DOMAIN s : i - Len(s) \in DOMAIN f /\ ~(i <= Len(s))
  BY <1>3
<1>6. \A i \in DOMAIN s : i \in DOMAIN q /\ q[i] = s[i]
  BY <1>2, <1>3
<1>7. ASSUME NEW i \in DOMAIN q \ DOMAIN s
      PROVE  \E k \in DOMAIN f : q[i] = f[k]
  BY <1>2, <1>3, <1>5
<1>8. ASSUME NEW k \in DOMAIN f
      PROVE  \E i \in DOMAIN q : q[i] = f[k]
  <2>1. Len(s) + k \in DOMAIN q /\ q[Len(s) + k] = f[k]
    BY <1>2, <1>3, <1>4
  <2> QED
    BY <2>1
<1> QED
  BY <1>1, <1>6, <1>7, <1>8

LEMMA Commands ==
    /\ NumChans \in Nat
    /\ \A c \in Chans : Stop(c) \in Action /\ Restart(c) \in Action
    /\ \A c \in Chans, t \in Nat : Start(c, t) \in Action /\ StartDown(c, t) \in Action
    /\ \A c \in Chans, b \in BOOLEAN : Event(c, b) \in Action
    /\ \A c \in Chans : StopActions(c) \in Seq(Action)
    /\ \A c \in Chans, t \in Nat : StartActions(c, t) \in Seq(Action)
<1>1. NumChans \in Nat /\ \A i \in 1..NumChans : i - 1 \in Chans
  BY OverrunAssumption DEF OverrunAssumption, Chans
<1>2. \A c \in Chans : StopActions(c) \in Seq(Action)
  <2>1. \A c \in Chans : StopActions(c) \in [1..NumChans -> Action]
    BY <1>1 DEF Action, Stop, StopActions
  <2> QED
    BY <1>1, <2>1, SeqDef
<1>3. \A c \in Chans, t \in Nat : StartActions(c, t) \in Seq(Action)
  <2>1. \A c \in Chans, t \in Nat : StartActions(c, t) \in [1..NumChans -> Action]
    BY <1>1 DEF Action, Start, StartActions
  <2> QED
    BY <1>1, <2>1, SeqDef
<1> QED
  BY <1>1, <1>2, <1>3 DEF Action, Stop, Restart, Start, StartDown, Event

\* Stop commands behind a queue: one for each channel, nothing else.
LEMMA StopsBehind ==
    ASSUME NEW s \in Seq(Action), NEW c \in Chans
    PROVE  /\ s \o StopActions(c) \in Seq(Action)
           /\ \A i \in DOMAIN (s \o StopActions(c)) :
                 \/ i \in DOMAIN s /\ (s \o StopActions(c))[i] = s[i]
                 \/ \E d \in Chans : (s \o StopActions(c))[i] = Stop(d)
           /\ \A d \in Chans :
                 \E i \in DOMAIN (s \o StopActions(c)) : (s \o StopActions(c))[i] = Stop(d)
<1>1. /\ NumChans \in Nat
      /\ \A d \in Chans : d + 1 \in 1..NumChans /\ (d + 1) - 1 = d
      /\ \A k \in 1..NumChans : k - 1 \in Chans
  BY Commands DEF Chans
<1>2. PICK f \in Seq(Action) : f = StopActions(c)
  BY Commands
<1>3. DOMAIN f = 1..NumChans /\ \A k \in 1..NumChans : f[k] = Stop(k - 1)
  BY <1>2 DEF StopActions
<1>4. PICK q : q = s \o f
  OBVIOUS
<1>5. /\ q \in Seq(Action)
      /\ \A i \in DOMAIN s : i \in DOMAIN q /\ q[i] = s[i]
      /\ \A i \in DOMAIN q \ DOMAIN s : \E k \in DOMAIN f : q[i] = f[k]
      /\ \A k \in DOMAIN f : \E i \in DOMAIN q : q[i] = f[k]
  BY <1>4, ConcatOf
<1>6. \A i \in DOMAIN q : \/ i \in DOMAIN s /\ q[i] = s[i]
                          \/ \E d \in Chans : q[i] = Stop(d)
  BY <1>1, <1>3, <1>5
<1>7. \A d \in Chans : \E i \in DOMAIN q : q[i] = Stop(d)
  BY <1>1, <1>3, <1>5
<1> QED
  BY <1>2, <1>4, <1>5, <1>6, <1>7

\* Start commands behind a queue, likewise.
LEMMA StartsBehind ==
    ASSUME NEW s \in Seq(Action), NEW c \in Chans, NEW t \in Nat
    PROVE  /\ s \o StartActions(c, t) \in Seq(Action)
           /\ \A i \in DOMAIN (s \o StartActions(c, t)) :
                 \/ i \in DOMAIN s /\ (s \o StartActions(c, t))[i] = s[i]
                 \/ \E d \in Chans : (s \o StartActions(c, t))[i] = Start(d, t)
           /\ \A d \in Chans :
                 \E i \in DOMAIN (s \o StartActions(c, t)) :
                     (s \o StartActions(c, t))[i] = Start(d, t)
<1>1. /\ NumChans \in Nat
      /\ \A d \in Chans : d + 1 \in 1..NumChans /\ (d + 1) - 1 = d
      /\ \A k \in 1..NumChans : k - 1 \in Chans
  BY Commands DEF Chans
<1>2. PICK f \in Seq(Action) : f = StartActions(c, t)
  BY Commands
<1>3. DOMAIN f = 1..NumChans /\ \A k \in 1..NumChans : f[k] = Start(k - 1, t)
  BY <1>2 DEF StartActions
<1>4. PICK q : q = s \o f
  OBVIOUS
<1>5. /\ q \in Seq(Action)
      /\ \A i \in DOMAIN s : i \in DOMAIN q /\ q[i] = s[i]
      /\ \A i \in DOMAIN q \ DOMAIN s : \E k \in DOMAIN f : q[i] = f[k]
      /\ \A k \in DOMAIN f : \E i \in DOMAIN q : q[i] = f[k]
  BY <1>4, ConcatOf
<1>6. \A i \in DOMAIN q : \/ i \in DOMAIN s /\ q[i] = s[i]
                          \/ \E d \in Chans : q[i] = Start(d, t)
  BY <1>1, <1>3, <1>5
<1>7. \A d \in Chans : \E i \in DOMAIN q : q[i] = Start(d, t)
  BY <1>1, <1>3, <1>5
<1> QED
  BY <1>2, <1>4, <1>5, <1>6, <1>7

-----------------------------------------------------------------------------
(* Types *)

\* Every step but the user's leaves the user and his last command alone.
Env ==
    \/ HandlerStep
    \/ RecvStep
    \/ \E c \in Chans : Begin(c) \/ Packet(c) \/ Overrun(c) \/ AsyncMessage(c)

LEMMA TypedEnv ==
    ASSUME Typed, Env
    PROVE  Typed' /\ user' = user /\ last_stop' = last_stop
<1> USE DEF Typed
<1>0. \A c \in Chans : Stop(c) \in Action /\ Restart(c) \in Action
  BY Commands
<1>1. ASSUME NEW c \in Chans, HandleRxEvent(c)
      PROVE  Typed' /\ user' = user /\ last_stop' = last_stop
  <2>1. Head(queue) \in Action /\ Tail(queue) \in Seq(Action)
    BY <1>1, TailOf DEF HandleRxEvent, Handles
  <2>2. Tail(queue) \o StopActions(c) \in Seq(Action)
    BY <2>1, StopsBehind
  <2>3. Head(queue).cont \in BOOLEAN
    BY <2>1 DEF Action
  <2> QED
    BY <1>1, <2>1, <2>2, <2>3 DEF HandleRxEvent, thread, radios
<1>2. ASSUME DecideRestart \/ SetStoppedDueToOverrun
      PROVE  Typed' /\ user' = user /\ last_stop' = last_stop
  BY <1>2 DEF DecideRestart, SetStoppedDueToOverrun, radios
<1>3. ASSUME NEW c \in Chans, HandleStreamCmd(c)
      PROVE  Typed' /\ user' = user /\ last_stop' = last_stop
  <2>1. Head(queue) \in Action /\ Tail(queue) \in Seq(Action)
    BY <1>3, TailOf DEF HandleStreamCmd, Handles
  <2>2. Head(queue).time \in Nat
    BY <2>1 DEF Action
  <2>4. Tail(queue) \o StartActions(c, Head(queue).time) \in Seq(Action)
    BY <2>1, <2>2, StartsBehind
  <2> QED
    BY <1>3, <2>4 DEF HandleStreamCmd, ModeAfterStart, thread, radios
<1>4. ASSUME NEW c \in Chans, RestartRequest(c)
      PROVE  Typed' /\ user' = user /\ last_stop' = last_stop
  <2>1. Tail(queue) \in Seq(Action)
    BY <1>4, TailOf DEF RestartRequest, Handles
  <2>2. StartDown(c, ntimes + 1) \in Action /\ ntimes + 1 \in Nat
    BY Commands
  <2>3. Append(Tail(queue), StartDown(c, ntimes + 1)) \in Seq(Action)
    BY <2>1, <2>2
  <2> QED
    BY <1>4, <2>2, <2>3 DEF RestartRequest, thread, streamer, radios
<1>5. ASSUME NEW c \in Chans, RadioStop(c) \/ RadioStart(c)
      PROVE  Typed' /\ user' = user /\ last_stop' = last_stop
  <2>1. Head(queue) \in Action /\ Tail(queue) \in Seq(Action)
    BY <1>5, TailOf DEF RadioStop, RadioStart, Handles
  <2>2. Head(queue).time \in Nat
    BY <2>1 DEF Action
  <2>3. fifo[c] \in Seq(Nat) /\ Append(fifo[c], Head(queue).time) \in Seq(Nat)
        /\ <<>> \in Seq(Nat)
    BY <2>2
  <2>4. /\ queue' = Tail(queue)
        /\ \E k \in {"stop", "continuous"} : last_cmd' = [last_cmd EXCEPT ![c] = k]
        /\ \E f \in Seq(Nat) : fifo' = [fifo EXCEPT ![c] = f]
        /\ \E s \in {"idle", "time_check", "running", "report"} :
              state' = [state EXCEPT ![c] = s]
    BY <1>5, <2>3 DEF RadioStop, RadioStart
  <2>5. UNCHANGED <<thread, streamer, recv, user, ntimes>>
    BY <1>5 DEF RadioStop, RadioStart
  <2> QED
    BY <2>1, <2>4, <2>5 DEF thread, streamer
<1>6. ASSUME RecvStep
      PROVE  Typed' /\ user' = user /\ last_stop' = last_stop
  <2>1. Append(queue, Restart(overrun_channel)) \in Seq(Action)
    BY <1>0
  <2> QED
    BY <1>6, <2>1 DEF RecvStep, RecvData, RecvTimeout, CheckStopped, HandleOverrun,
         PostRestart, ReportOverrun, thread, streamer, radios
<1>7. ASSUME NEW c \in Chans, Begin(c) \/ Packet(c) \/ Overrun(c)
      PROVE  Typed' /\ user' = user /\ last_stop' = last_stop
  <2>1. CASE Begin(c)
    BY <2>1 DEF Begin, thread, streamer, radios
  <2>2. CASE Packet(c)
    BY <2>2 DEF Packet, thread, streamer, radios
  <2>3. CASE Overrun(c)
    BY <2>3 DEF Overrun, thread, streamer, radios
  <2> QED
    BY <1>7, <2>1, <2>2, <2>3
<1>8. ASSUME NEW c \in Chans, AsyncMessage(c)
      PROVE  Typed' /\ user' = user /\ last_stop' = last_stop
  <2>1. ContMode(c) \in BOOLEAN
    BY DEF ContMode
  <2>2. Append(queue, Event(c, ContMode(c))) \in Seq(Action)
    BY <2>1, Commands
  <2>3. (IF fifo[c] = <<>> THEN <<>> ELSE Tail(fifo[c])) \in Seq(Nat)
    BY TailOf
  <2> DEFINE rest == IF fifo[c] = <<>> THEN <<>> ELSE Tail(fifo[c])
  <2>4. /\ fifo' = [fifo EXCEPT ![c] = rest]
        /\ state' = [state EXCEPT ![c] = IF rest = <<>> THEN "idle" ELSE "time_check"]
        /\ queue' = Append(queue, Event(c, ContMode(c)))
        /\ UNCHANGED <<thread, streamer, recv, last_cmd, user, ntimes>>
    BY <1>8 DEF AsyncMessage
  <2>5. rest \in Seq(Nat)
    BY <2>3
  <2> HIDE DEF rest
  <2> QED
    BY <2>2, <2>4, <2>5 DEF thread, streamer
<1> QED
  BY <1>1, <1>2, <1>3, <1>4, <1>5, <1>6, <1>7, <1>8 DEF Env, HandlerStep

LEMMA TypedUser ==
    ASSUME Typed, User, UserStep
    PROVE  Typed' /\ User'
<1> USE DEF Typed
<1>0. /\ DOMAIN UserCmds = 1..Len(UserCmds)
      /\ \A i \in DOMAIN UserCmds : UserCmds[i] \in {"start", "stop"}
      /\ Len(UserCmds) \in Nat
  BY OverrunAssumption DEF OverrunAssumption
<1>00. NumChans \in Nat \ {0} /\ 0 \in Chans
  BY OverrunAssumption DEF OverrunAssumption, Chans
<1>1. CASE IssueStreamCmd
  <2>1. /\ user' \in [step : {"idle", "post", "sync"}, next : Nat \ {0}, chan : Chans, time : Nat]
        /\ user'.step = "post" /\ user'.next = user.next
    <3> DEFINE t == ntimes + 1
    <3>1. user' = [user EXCEPT !.step = "post", !.chan = 0, !.time = t]
      BY <1>1 DEF IssueStreamCmd
    <3>2. t \in Nat
      OBVIOUS
    <3> HIDE DEF t
    <3> QED
      BY <3>1, <3>2, <1>00
  <2>2. user.next \in DOMAIN UserCmds
    BY <1>0, <1>1 DEF IssueStreamCmd
  <2>3. last_stop' = (UserCmds[user.next] = "stop") /\ ntimes' \in Nat
    BY <1>1 DEF IssueStreamCmd
  <2>4. UNCHANGED <<queue, thread, mode, overrun_channel, stopped, recv, radios>>
    BY <1>1 DEF IssueStreamCmd
  <2> QED
    BY <2>1, <2>2, <2>3, <2>4 DEF User, thread, radios
<1>2. CASE PostStreamCmd
  <2>1. /\ user' \in [step : {"idle", "post", "sync"}, next : Nat \ {0}, chan : Chans, time : Nat]
        /\ user'.next = user.next /\ user.step # "idle"
    BY <1>2 DEF PostStreamCmd
  <2>2. /\ Stop(user.chan) \in Action /\ Start(user.chan, user.time) \in Action
    BY Commands
  <2>3. queue' \in Seq(Action)
    BY <1>2, <2>2 DEF PostStreamCmd
  <2> QED
    BY <1>2, <2>1, <2>3 DEF PostStreamCmd, User, thread, streamer, radios
<1>3. CASE SyncStreamCmd
  <2>1. /\ user' \in [step : {"idle", "post", "sync"}, next : Nat \ {0}, chan : Chans, time : Nat]
        /\ user'.step # "idle" => user'.next = user.next
        /\ user.step # "idle"
    <3>1. CASE user.chan + 1 < NumChans
      <4>1. user.chan + 1 \in Chans
        BY <3>1, <1>00 DEF Chans
      <4>2. user' = [user EXCEPT !.step = "post", !.chan = user.chan + 1]
        BY <1>3, <3>1 DEF SyncStreamCmd
      <4> QED
        BY <1>3, <4>1, <4>2 DEF SyncStreamCmd
    <3>2. CASE ~(user.chan + 1 < NumChans)
      <4>1. user' = [user EXCEPT !.step = "idle", !.next = user.next + 1]
        BY <1>3, <3>2 DEF SyncStreamCmd
      <4> DEFINE n == user.next + 1
      <4>2. user' = [user EXCEPT !.step = "idle", !.next = n] /\ user.step # "idle"
        BY <1>3, <4>1 DEF SyncStreamCmd
      <4>3. n \in Nat \ {0}
        OBVIOUS
      <4> HIDE DEF n
      <4> QED
        BY <4>2, <4>3
    <3> QED
      BY <3>1, <3>2
  <2> QED
    BY <1>3, <2>1 DEF SyncStreamCmd, User, thread, streamer, radios
<1> QED
  BY <1>1, <1>2, <1>3 DEF UserStep

-----------------------------------------------------------------------------
(* Before the first start *)

\* As long as all commands were stops, nothing happens but that they are
\* handled.
LEMMA QuietEnv ==
    ASSUME Typed, Quiet, Env
    PROVE  Quiet'
<1> USE DEF Typed
<1>1. \A c \in Chans : /\ ~Handles("event", c) /\ ~Handles("start_down", c)
                       /\ ~Handles("restart", c) /\ ~Handles("start", c)
  <2>1. queue # <<>> => Head(queue).kind = "stop"
    BY TailOf DEF Quiet
  <2> QED
    BY <2>1 DEF Handles
<1>2. ASSUME NEW c \in Chans, RadioStop(c)
      PROVE  Quiet'
  <2>1. /\ \A i \in DOMAIN queue' : queue'[i].kind = "stop"
        /\ queue # <<>>
    BY <1>2, TailOf DEF RadioStop, Handles, Quiet
  <2>2. user'.step = "sync"
    BY <1>2, <2>1 DEF RadioStop, Quiet
  <2>3. \A d \in Chans : state'[d] = "idle" /\ fifo'[d] = <<>>
    BY <1>2 DEF RadioStop, Quiet
  <2> QED
    BY <1>2, <2>1, <2>2, <2>3 DEF RadioStop, Quiet, Reading, thread, streamer
<1>3. CASE DecideRestart \/ SetStoppedDueToOverrun
  BY <1>3 DEF DecideRestart, SetStoppedDueToOverrun, Quiet
<1>4. CASE HandlerStep
  BY <1>1, <1>2, <1>3, <1>4 DEF HandlerStep, HandleRxEvent, HandleStreamCmd,
     RestartRequest, RadioStart
<1>5. CASE RecvStep
  BY <1>5 DEF RecvStep, RecvData, RecvTimeout, CheckStopped, HandleOverrun, PostRestart,
     ReportOverrun, Quiet, Reading, thread, streamer, radios
<1>6. ASSUME NEW c \in Chans, Begin(c) \/ Packet(c) \/ Overrun(c) \/ AsyncMessage(c)
      PROVE  FALSE
  BY <1>6 DEF Begin, Packet, Overrun, AsyncMessage, Quiet
<1> QED
  BY <1>4, <1>5, <1>6 DEF Env

\* The user starts the stream out of the quiet, and what he posts until the
\* command is complete belongs to the start.
LEMMA IssuedUser ==
    ASSUME Typed, User, UserStep
    PROVE  /\ IssueStreamCmd => Issued' = Issued \cup {user.next} /\ user.next \notin Issued
           /\ ~IssueStreamCmd => Issued' = Issued
           /\ ~IssueStreamCmd => user.next \in Issued
<1> USE DEF Typed
<1>0. DOMAIN UserCmds = 1..Len(UserCmds) /\ Len(UserCmds) \in Nat
  BY OverrunAssumption DEF OverrunAssumption
<1>1. CASE IssueStreamCmd
  <2>1. user'.next = user.next /\ user'.step = "post" /\ user.step = "idle"
        /\ user.next \in DOMAIN UserCmds
    BY <1>0, <1>1 DEF IssueStreamCmd
  <2> QED
    BY <1>0, <1>1, <2>1 DEF Issued
<1>2. CASE PostStreamCmd
  <2>1. user'.next = user.next /\ user'.step = "sync" /\ user.step = "post"
    BY <1>2 DEF PostStreamCmd
  <2> QED
    BY <1>0, <1>2, <2>1 DEF Issued, IssueStreamCmd, User
<1>3. CASE SyncStreamCmd
  <2>1. CASE user.chan + 1 < NumChans
    <3>1. user'.next = user.next /\ user'.step = "post" /\ user.step = "sync"
      BY <1>3, <2>1 DEF SyncStreamCmd
    <3> QED
      BY <1>0, <1>3, <3>1 DEF Issued, IssueStreamCmd, User
  <2>2. CASE ~(user.chan + 1 < NumChans)
    <3>1. user'.next = user.next + 1 /\ user'.step = "idle" /\ user.step = "sync"
      BY <1>3, <2>2 DEF SyncStreamCmd
    <3>2. \A i \in DOMAIN UserCmds : i < user.next + 1 <=> (i < user.next \/ i = user.next)
      BY <1>0
    <3>3. Issued' = {i \in DOMAIN UserCmds : i < user'.next}
      BY <3>1 DEF Issued
    <3>4. Issued = {i \in DOMAIN UserCmds : i < user.next \/ i = user.next}
      BY <3>1 DEF Issued
    <3>5. Issued' = Issued
      BY <3>1, <3>2, <3>3, <3>4
    <3> QED
      BY <1>3, <3>1, <3>4, <3>5 DEF IssueStreamCmd, User
  <2> QED
    BY <2>1, <2>2
<1> QED
  BY <1>1, <1>2, <1>3 DEF UserStep

LEMMA UserPhase ==
    ASSUME StartedOnce, Typed, User, UserStep,
           NotStarted => Quiet,
           ~NotStarted /\ ~last_stop => InPhase
    PROVE  /\ NotStarted' => Quiet'
           /\ ~NotStarted' /\ ~last_stop' => InPhase'
<1> USE DEF Typed
<1>0. /\ DOMAIN UserCmds = 1..Len(UserCmds)
      /\ \A i \in DOMAIN UserCmds : UserCmds[i] \in {"start", "stop"}
      /\ Len(UserCmds) \in Nat
      /\ Issued \subseteq DOMAIN UserCmds
  BY OverrunAssumption DEF OverrunAssumption, Issued
<1>1. CASE IssueStreamCmd
  <2>1. /\ user'.step = "post" /\ user.step = "idle" /\ user.next \in DOMAIN UserCmds
        /\ UNCHANGED <<queue, handler, mode, stopped, recv, state, fifo>>
        /\ last_stop' = (UserCmds[user.next] = "stop")
    BY <1>0, <1>1 DEF IssueStreamCmd, thread, radios
  <2>2. Issued' = Issued \cup {user.next} /\ user.next \notin Issued
    BY <1>1, IssuedUser
  <2>3. CASE UserCmds[user.next] = "stop"
    <3>1. NotStarted' <=> NotStarted
      BY <2>2, <2>3 DEF NotStarted
    <3>2. Quiet => Quiet'
      BY <2>1 DEF Quiet, Reading
    <3> QED
      BY <2>1, <2>3, <3>1, <3>2
  <2>4. CASE UserCmds[user.next] = "start"
    <3>1. ~NotStarted'
      BY <2>2, <2>4 DEF NotStarted
    <3>2. NotStarted
      BY <1>0, <2>1, <2>2, <2>4 DEF NotStarted, StartedOnce
    <3>3. Quiet /\ queue = <<>>
      BY <2>1, <3>2 DEF Quiet
    <3>4. ntimes' = ntimes + 1 /\ user'.time = ntimes + 1
      BY <1>1, <2>4 DEF IssueStreamCmd
    <3>0. PICK t \in Nat : t = ntimes + 1
      OBVIOUS
    <3>5. StartingAt(t)'
      <4>1. user'.chan = 0
        BY <1>1 DEF IssueStreamCmd
      <4>2. \A c \in Chans : ToCome(c)'
        BY <2>1, <4>1 DEF ToCome, Chans
      <4>3. \A c \in Chans : state'[c] = "idle" /\ fifo'[c] = <<>> /\ StartedFor(c, t)'
        BY <2>1, <3>3 DEF Quiet, StartedFor
      <4> QED
        BY <2>1, <3>0, <3>3, <3>4, <4>2, <4>3 DEF StartingAt
    <3>6. t \in 0..ntimes'
      BY <3>0, <3>4
    <3>7. Starting'
      BY <2>1, <3>3, <3>5, <3>6 DEF Starting, Quiet, Reported, Reading
    <3> QED
      BY <3>1, <3>7 DEF InPhase
  <2> QED
    BY <1>0, <2>1, <2>3, <2>4
<1>2. CASE ~IssueStreamCmd
  <2>1. /\ UNCHANGED <<handler, mode, stopped, last_stop, recv, state, fifo, last_cmd, ntimes>>
        /\ user.step # "idle" /\ user'.time = user.time
    BY <1>2 DEF UserStep, PostStreamCmd, SyncStreamCmd, thread, streamer, radios
  <2>2. Issued' = Issued /\ user.next \in Issued
    BY <1>2, IssuedUser
  <2>3. NotStarted' <=> NotStarted
    BY <2>2 DEF NotStarted
  <2>4. ASSUME Quiet, NotStarted
        PROVE  Quiet'
    <3>1. CASE PostStreamCmd
      <4>1. queue = <<>> /\ user'.step = "sync"
        BY <2>4, <3>1 DEF PostStreamCmd, Quiet
      <4>2. UserCmds[user.next] = "stop"
        BY <2>2, <2>4 DEF NotStarted
      <4>3. queue' = Append(queue, Stop(user.chan)) /\ Stop(user.chan) \in Action
        BY <3>1, <4>2, Commands DEF PostStreamCmd
      <4>4. \A i \in DOMAIN queue' : queue'[i].kind = "stop"
        BY <4>1, <4>3, AppendOf DEF Stop
      <4> QED
        BY <2>1, <2>4, <4>1, <4>4 DEF Quiet, Reading
    <3>2. CASE SyncStreamCmd
      <4>1. queue = <<>> /\ queue' = <<>>
        BY <3>2 DEF SyncStreamCmd, QueueEmpty
      <4> QED
        BY <2>1, <2>4, <4>1 DEF Quiet, Reading
    <3> QED
      BY <1>2, <3>1, <3>2 DEF UserStep
  <2>5. ASSUME ~NotStarted, ~last_stop
        PROVE  InPhase'
    <3>1. Starting
      BY <2>1, <2>5 DEF InPhase, Flowing, Deciding, Halting, Requested, Answered
    <3>2. PICK t \in 0..ntimes : StartingAt(t)
      BY <3>1 DEF Starting
    <3>3. user.time = t /\ t \in Nat
      BY <2>1, <3>2 DEF StartingAt
    <3>4. \A i \in DOMAIN queue' : queue'[i] = Start(queue'[i].chan, t)
      <4>1. CASE PostStreamCmd
        <5>1. queue' = Append(queue, Start(user.chan, t))
          BY <1>0, <2>1, <2>2, <2>5, <3>3, <4>1 DEF PostStreamCmd, User
        <5>2. Start(user.chan, t) \in Action /\ Start(user.chan, t).chan = user.chan
          BY <3>3, Commands DEF Start
        <5> QED
          BY <3>2, <5>1, <5>2, AppendOf DEF StartingAt
      <4>2. CASE SyncStreamCmd
        BY <3>2, <4>2 DEF SyncStreamCmd, StartingAt
      <4> QED
        BY <1>2, <4>1, <4>2 DEF UserStep
    <3>5. \A c \in Chans : ToCome(c) => ToCome(c)'
      <4> SUFFICES ASSUME NEW c \in Chans, ToCome(c)
                   PROVE  ToCome(c)'
        OBVIOUS
      <4>0. NumChans \in Nat /\ user.chan \in Nat /\ c \in Nat /\ c < NumChans
        BY Commands DEF Chans
      <4>1. CASE PostStreamCmd
        <5>1. PICK a \in Action : a = Start(user.chan, t)
          BY <3>3, Commands
        <5>2. queue' = Append(queue, a)
          BY <1>0, <2>1, <2>2, <2>5, <3>3, <4>1, <5>1 DEF PostStreamCmd, User
        <5>3. /\ DOMAIN queue' = DOMAIN queue \cup {Len(queue) + 1}
              /\ \A i \in DOMAIN queue : queue'[i] = queue[i]
              /\ queue'[Len(queue) + 1].chan = user.chan
          BY <5>1, <5>2, AppendOf DEF Start
        <5>4. user.step = "post" /\ user'.step = "sync" /\ user'.chan = user.chan
          BY <4>1 DEF PostStreamCmd
        <5>5. (\E i \in DOMAIN queue : queue[i].chan = c) \/ c = user.chan \/ user.chan < c
          BY <4>0, <5>4 DEF ToCome
        <5> QED
          BY <5>3, <5>4, <5>5 DEF ToCome
      <4>2. CASE SyncStreamCmd
        <5>1. DOMAIN queue = {} /\ user.step = "sync"
          BY <4>2 DEF SyncStreamCmd, QueueEmpty
        <5>2. user.chan < c
          BY <5>1 DEF ToCome
        <5>3. user.chan + 1 < NumChans
          BY <4>0, <5>2
        <5>4. user'.step = "post" /\ user'.chan = user.chan + 1
          BY <4>2, <5>3 DEF SyncStreamCmd
        <5>5. user'.chan <= c
          BY <4>0, <5>2, <5>4
        <5> QED
          BY <5>4, <5>5 DEF ToCome
      <4> QED
        BY <1>2, <4>1, <4>2 DEF UserStep
    <3>6. \A c \in Chans : StartedFor(c, t)'
      BY <2>1, <3>2 DEF StartedFor, StartingAt
    <3>7. StartingAt(t)'
      BY <2>1, <3>2, <3>3, <3>4, <3>5, <3>6 DEF StartingAt
    <3>8. Starting'
      BY <2>1, <3>1, <3>2, <3>7 DEF Starting, Reported, Reading
    <3> QED
      BY <3>8 DEF InPhase
  <2> QED
    BY <2>1, <2>3, <2>4, <2>5
<1> QED
  BY <1>1, <1>2

-----------------------------------------------------------------------------
(* Steps that leave the phase as it is *)

RadioStep(c) == Begin(c) \/ Packet(c) \/ Overrun(c) \/ AsyncMessage(c)

\* A radio of its own accord does no more than to send an event.
LEMMA RadioSteps ==
    ASSUME Typed, NEW c \in Chans, RadioStep(c)
    PROVE  /\ \/ queue' = queue
              \/ /\ queue' = Append(queue, Event(c, ContMode(c))) /\ state[c] = "report"
                 /\ Event(c, ContMode(c)) \in Action
           /\ UNCHANGED <<handler, cont_mode, mode, stopped, recv, last_cmd, user, ntimes>>
           /\ Halted(c) => Halted(c)'
           /\ \A d \in Chans \ {c} : state'[d] = state[d] /\ fifo'[d] = fifo[d]
<1> USE DEF Typed
<1>1. CASE AsyncMessage(c)
  <2>1. ContMode(c) \in BOOLEAN /\ Event(c, ContMode(c)) \in Action
    BY Commands DEF ContMode
  <2> DEFINE rest == IF fifo[c] = <<>> THEN <<>> ELSE Tail(fifo[c])
  <2>2. /\ fifo' = [fifo EXCEPT ![c] = rest]
        /\ state' = [state EXCEPT ![c] = IF rest = <<>> THEN "idle" ELSE "time_check"]
        /\ queue' = Append(queue, Event(c, ContMode(c)))
        /\ UNCHANGED <<thread, streamer, recv, last_cmd, user, ntimes>>
    BY <1>1 DEF AsyncMessage
  <2>3. Halted(c) => rest = <<>>
    BY DEF Halted
  <2> HIDE DEF rest
  <2>4. Halted(c) => Halted(c)'
    BY <2>2, <2>3 DEF Halted
  <2> QED
    BY <1>1, <2>1, <2>2, <2>4 DEF AsyncMessage, thread, streamer
<1>2. CASE Begin(c) \/ Packet(c) \/ Overrun(c)
  BY <1>2 DEF Begin, Packet, Overrun, Halted, thread, streamer, radios
<1> QED
  BY <1>1, <1>2 DEF RadioStep

LEMMA RadioQueue ==
    ASSUME Typed, NEW c \in Chans, RadioStep(c)
    PROVE  /\ \A i \in DOMAIN queue : i \in DOMAIN queue' /\ queue'[i] = queue[i]
           /\ \A i \in DOMAIN queue' \ DOMAIN queue :
                 queue'[i] = Event(c, ContMode(c)) /\ state[c] = "report"
<1>1. CASE queue' = queue
  BY <1>1
<1>2. CASE queue' # queue
  <2> DEFINE e == Event(c, ContMode(c))
  <2>1. queue' = Append(queue, e) /\ e \in Action /\ state[c] = "report"
    BY <1>2, RadioSteps
  <2>2. queue \in Seq(Action)
    BY DEF Typed
  <2> HIDE DEF e
  <2>3. /\ DOMAIN Append(queue, e) = DOMAIN queue \cup {Len(queue) + 1}
        /\ \A i \in DOMAIN queue : Append(queue, e)[i] = queue[i]
        /\ Append(queue, e)[Len(queue) + 1] = e
    BY <2>1, <2>2, AppendOf
  <2>4. /\ \A i \in DOMAIN queue : i \in DOMAIN queue' /\ queue'[i] = queue[i]
        /\ \A i \in DOMAIN queue' \ DOMAIN queue : queue'[i] = e
    BY <2>1, <2>3
  <2> QED
    BY <2>1, <2>4 DEF e
<1> QED
  BY <1>1, <1>2

\* The thread in recv() has nothing to do with the phase while it has no report
\* to make.
LEMMA RecvSteps ==
    ASSUME Typed, RecvStep, Reported
    PROVE  /\ Reported' /\ (Reading => Reading')
           /\ UNCHANGED <<queue, handler, cont_mode, mode, last_cmd, state, fifo, user, ntimes>>
BY DEF Typed, RecvStep, RecvData, RecvTimeout, CheckStopped, HandleOverrun, PostRestart,
   ReportOverrun, Reported, Reading, thread, streamer, radios

\* All radios are still stopped, or going to be, after each step that is not a
\* start.
LEMMA HaltTail ==
    ASSUME Typed, AllHalt, queue # <<>>, Head(queue).kind # "stop",
           UNCHANGED <<state, fifo>>,
           \A i \in DOMAIN Tail(queue) :
              \E j \in DOMAIN queue' : queue'[j] = Tail(queue)[i]
    PROVE  AllHalt'
<1> SUFFICES ASSUME NEW c \in Chans, Pending(c)
             PROVE  Pending(c)'
  BY DEF AllHalt, Halted
<1>1. PICK i \in DOMAIN queue : queue[i].kind = "stop" /\ queue[i].chan = c
  BY DEF Pending
<1>2. i # 1 /\ i - 1 \in DOMAIN Tail(queue) /\ Tail(queue)[i - 1] = queue[i]
  BY <1>1, TailOf DEF Typed
<1> QED
  BY <1>1, <1>2 DEF Pending

LEMMA HaltStop ==
    ASSUME Typed, AllHalt, NEW c \in Chans, RadioStop(c)
    PROVE  AllHalt'
<1> SUFFICES ASSUME NEW d \in Chans
             PROVE  Halted(d)' \/ Pending(d)'
  BY DEF AllHalt
<1>1. CASE d = c
  BY <1>1 DEF RadioStop, Halted, Typed
<1>2. CASE d # c
  <2>1. CASE Halted(d)
    BY <1>2, <2>1 DEF RadioStop, Halted, Typed
  <2>2. CASE Pending(d)
    <3>1. PICK i \in DOMAIN queue : queue[i].kind = "stop" /\ queue[i].chan = d
      BY <2>2 DEF Pending
    <3>2. queue' = Tail(queue) /\ queue # <<>> /\ Head(queue).chan = c
      BY DEF RadioStop, Handles
    <3>3. i - 1 \in DOMAIN Tail(queue) /\ Tail(queue)[i - 1] = queue[i]
      BY <1>2, <3>1, <3>2, TailOf DEF Typed
    <3> QED
      BY <3>1, <3>2, <3>3 DEF Pending
  <2> QED
    BY <2>1, <2>2 DEF AllHalt
<1> QED
  BY <1>1, <1>2

LEMMA HaltRadio ==
    ASSUME Typed, AllHalt, NEW c \in Chans, RadioStep(c)
    PROVE  AllHalt'
<1>1. \A d \in Chans : Halted(d) => Halted(d)'
  BY RadioSteps DEF Halted
<1>2. \A d \in Chans : Pending(d) => Pending(d)'
  BY RadioQueue DEF Pending
<1> QED
  BY <1>1, <1>2 DEF AllHalt

\* Events and stop commands in front of the queue are dealt with in every phase
\* of overrun handling.
LEMMA OnlyStopsRadio ==
    ASSUME Typed, OnlyStops, NEW c \in Chans, RadioStep(c)
    PROVE  OnlyStops'
BY RadioQueue DEF OnlyStops, Event

-----------------------------------------------------------------------------
(* From phase to phase *)

\* The radios take their start commands; the first that begins finds the queue
\* empty, the user done and the report made.
LEMMA StartingEnv ==
    ASSUME Typed, Starting, Env
    PROVE  Starting' \/ Flowing'
<1> USE DEF Typed
<1>1. PICK t \in 0..ntimes : StartingAt(t)
  BY DEF Starting
<1>2. t \in Nat
  BY <1>1
<1>3. queue # <<>> => Head(queue) = Start(Head(queue).chan, t) /\ Head(queue).kind = "start"
  BY <1>1, TailOf DEF StartingAt, Start
<1>4. ASSUME NEW c \in Chans, RadioStart(c)
      PROVE  Starting'
  <2>1. /\ queue # <<>> /\ queue' = Tail(queue) /\ Head(queue).time = t
        /\ last_cmd' = [last_cmd EXCEPT ![c] = "continuous"]
        /\ state' = [state EXCEPT ![c] = IF state[c] = "idle" THEN "time_check" ELSE state[c]]
        /\ UNCHANGED <<handler, mode, stopped, recv, user, ntimes>>
    BY <1>3, <1>4 DEF RadioStart, Handles, Start, thread, streamer
  <2>2. fifo' = [fifo EXCEPT ![c] = Append(fifo[c], t)]
    BY <1>4, <2>1 DEF RadioStart
  <2>3. \A i \in DOMAIN queue' : queue'[i] = Start(queue'[i].chan, t)
    BY <1>1, <2>1, TailOf DEF StartingAt
  <2>4. Append(fifo[c], t) # <<>> /\ \A k \in DOMAIN Append(fifo[c], t) : Append(fifo[c], t)[k] = t
    <3>1. PICK f \in Seq(Nat) : f = fifo[c]
      OBVIOUS
    <3>2. \A k \in DOMAIN f : f[k] = t
      BY <1>1, <3>1 DEF StartingAt, StartedFor
    <3>3. Append(f, t) # <<>> /\ \A k \in DOMAIN Append(f, t) : Append(f, t)[k] = t
      BY <1>2, <3>2, AppendSame
    <3> QED
      BY <3>1, <3>3
  <2>5. \A d \in Chans : StartedFor(d, t)'
    BY <1>1, <2>2, <2>4 DEF StartingAt, StartedFor
  <2>6. \A d \in Chans \ {c} : ToCome(d) => ToCome(d)'
    <3> SUFFICES ASSUME NEW d \in Chans \ {c}, NEW i \in DOMAIN queue, queue[i].chan = d
                 PROVE  \E j \in DOMAIN queue' : queue'[j].chan = d
      BY <2>1 DEF ToCome
    <3>1. Head(queue).chan = c
      BY <1>4 DEF RadioStart, Handles
    <3>2. i - 1 \in DOMAIN queue' /\ queue'[i - 1] = queue[i]
      BY <2>1, <3>1, TailOf
    <3> QED
      BY <3>2
  <2>7. \A d \in Chans :
           \/ state'[d] = "idle" /\ fifo'[d] = <<>> /\ ToCome(d)'
           \/ state'[d] = "time_check" /\ fifo'[d] # <<>> /\ last_cmd'[d] = "continuous"
    BY <1>1, <2>1, <2>2, <2>4, <2>6 DEF StartingAt
  <2>8. StartingAt(t)'
    BY <1>1, <2>1, <2>3, <2>5, <2>7 DEF StartingAt
  <2> QED
    BY <1>1, <2>1, <2>8 DEF Starting, Reported, Reading
<1>5. CASE HandlerStep
  <2>1. ~DecideRestart /\ ~SetStoppedDueToOverrun
    BY DEF Starting, DecideRestart, SetStoppedDueToOverrun
  <2> QED
    BY <1>3, <1>4, <1>5, <2>1 DEF HandlerStep, HandleRxEvent, HandleStreamCmd,
       RestartRequest, RadioStop, Handles
<1>6. CASE RecvStep
  <2>1. Reported' /\ UNCHANGED <<queue, handler, mode, last_cmd, state, fifo, user, ntimes>>
    BY <1>6, RecvSteps DEF Starting
  <2>2. StartingAt(t)'
    BY <1>1, <2>1 DEF StartingAt, StartedFor, ToCome
  <2> QED
    BY <1>1, <2>1, <2>2 DEF Starting
<1>7. ASSUME NEW c \in Chans, RadioStep(c)
      PROVE  Flowing'
  <2>1. \A d \in Chans : state[d] \in {"idle", "time_check"}
    BY <1>1 DEF StartingAt
  <2>2. Begin(c)
    BY <1>7, <2>1 DEF RadioStep, Packet, Overrun, AsyncMessage
  <2>3. Head(fifo[c]) = t
    <3>1. fifo[c] \in Seq(Nat) /\ fifo[c] # <<>> /\ \A k \in DOMAIN fifo[c] : fifo[c][k] = t
      BY <1>1, <2>2 DEF StartingAt, StartedFor, Begin
    <3> QED
      BY <3>1, TailOf
  <2>4. DOMAIN queue = {}
    BY <1>1, <2>2, <2>3 DEF StartingAt, Begin
  <2>5. user.step = "idle"
    BY <1>1, <2>2, <2>3 DEF StartingAt, Begin
  <2>6. Reading
    BY <2>2 DEF Begin, Starting, Reported
  <2>7. \A d \in Chans : ~ToCome(d)
    BY <2>4, <2>5 DEF ToCome
  <2>8. UNCHANGED <<queue, handler, mode, stopped, recv, fifo, last_cmd, user, ntimes>>
        /\ state' = [state EXCEPT ![c] = "running"]
    BY <2>2 DEF Begin, thread, streamer
  <2>9. FlowingAt(t)'
    BY <1>1, <2>7, <2>8 DEF StartingAt, StartedFor, FlowingAt
  <2> QED
    BY <1>1, <2>4, <2>5, <2>6, <2>8, <2>9 DEF Flowing, Starting, Reading
<1> QED
  BY <1>5, <1>6, <1>7 DEF Env, RadioStep

\* A first event finds overrun handling mode off and sends all stop commands.
LEMMA FlowingEnv ==
    ASSUME Typed, Flowing, Env
    PROVE  Flowing' \/ Deciding'
<1> USE DEF Typed
<1>1. queue # <<>> => Head(queue).kind = "event" /\ Head(queue).cont
  BY TailOf DEF Flowing
<1>2. ASSUME NEW c \in Chans, HandleRxEvent(c)
      PROVE  Deciding'
  <2>1. /\ queue # <<>> /\ queue' = Tail(queue) \o StopActions(c)
        /\ mode' = TRUE /\ handler' = "decide" /\ cont_mode' = Head(queue).cont
        /\ UNCHANGED <<recv, stopped, user>>
    BY <1>2 DEF HandleRxEvent, Handles, Duplicate, Flowing, radios
  <2>2. PICK s \in Seq(Action) : s = Tail(queue)
    BY <2>1, TailOf
  <2>3. \A i \in DOMAIN s : s[i].kind = "event"
    BY <2>1, <2>2, TailOf DEF Flowing
  <2>4. PICK q : q = s \o StopActions(c)
    OBVIOUS
  <2>5. /\ \A i \in DOMAIN q : \/ i \in DOMAIN s /\ q[i] = s[i]
                               \/ \E d \in Chans : q[i] = Stop(d)
        /\ \A d \in Chans : \E i \in DOMAIN q : q[i] = Stop(d)
    <3> HIDE DEF Typed
    <3> QED
      BY <2>4, StopsBehind
  <2>6. /\ \A i \in DOMAIN q : q[i].kind \in {"event", "stop"}
        /\ \A d \in Chans : \E i \in DOMAIN q : q[i].kind = "stop" /\ q[i].chan = d
    <3> HIDE DEF Typed
    <3>1. \A d \in Chans : Stop(d).kind = "stop" /\ Stop(d).chan = d
      BY DEF Stop
    <3> QED
      BY <2>3, <2>5, <3>1
  <2>7. q = queue'
    BY <2>1, <2>2, <2>4
  <2>8. OnlyStops' /\ \A d \in Chans : Pending(d)'
    BY <2>6, <2>7 DEF OnlyStops, Pending
  <2> QED
    BY <1>1, <2>1, <2>8 DEF Deciding, AllHalt, Flowing, Reading
<1>3. CASE HandlerStep
  <2>1. ~DecideRestart /\ ~SetStoppedDueToOverrun
    BY DEF Flowing, DecideRestart, SetStoppedDueToOverrun
  <2> QED
    BY <1>1, <1>2, <1>3, <2>1 DEF HandlerStep, HandleStreamCmd,
       RestartRequest, RadioStop, RadioStart, Handles
<1>4. CASE RecvStep
  <2>1. /\ Reading'
        /\ UNCHANGED <<queue, handler, mode, last_cmd, state, fifo, user, ntimes>>
    BY <1>4, RecvSteps DEF Flowing, Reported
  <2>2. \A t : FlowingAt(t) => FlowingAt(t)'
    BY <2>1 DEF FlowingAt, StartedFor
  <2> QED
    BY <2>1, <2>2 DEF Flowing
<1>5. ASSUME NEW c \in Chans, RadioStep(c)
      PROVE  Flowing'
  <2>1. /\ UNCHANGED <<handler, mode, stopped, recv, last_cmd, user, ntimes>>
        /\ \A d \in Chans \ {c} : state'[d] = state[d] /\ fifo'[d] = fifo[d]
    BY <1>5, RadioSteps
  <2>2. state[c] # "idle"
    BY <1>5 DEF RadioStep, Begin, Packet, Overrun, AsyncMessage
  <2>3. PICK t \in 0..ntimes : FlowingAt(t)
    BY DEF Flowing
  <2>4. ContMode(c)
    BY <2>2, <2>3 DEF FlowingAt, ContMode
  <2>5. \A i \in DOMAIN queue' : queue'[i].kind = "event" /\ queue'[i].cont
    BY <1>5, <2>4, RadioQueue DEF Flowing, Event
  <2>6. /\ StartedFor(c, t)'
        /\ state'[c] \in {"time_check", "running"} => fifo'[c] # <<>>
        /\ state'[c] = "idle" => queue' # <<>>
    <3>1. CASE AsyncMessage(c)
      <4> DEFINE rest == IF fifo[c] = <<>> THEN <<>> ELSE Tail(fifo[c])
      <4>1. /\ fifo' = [fifo EXCEPT ![c] = rest]
            /\ state' = [state EXCEPT ![c] = IF rest = <<>> THEN "idle" ELSE "time_check"]
            /\ queue' = Append(queue, Event(c, ContMode(c)))
        BY <3>1 DEF AsyncMessage
      <4>2. \A k \in DOMAIN rest : rest[k] = t
        <5>1. fifo[c] \in Seq(Nat) /\ \A k \in DOMAIN fifo[c] : fifo[c][k] = t
          BY <2>3 DEF FlowingAt, StartedFor
        <5> QED
          BY <5>1, TailOf
      <4>3. Event(c, ContMode(c)) \in Action
        BY <2>4, Commands
      <4>4. queue' # <<>>
        BY <4>1, <4>3, AppendOf
      <4> HIDE DEF rest
      <4>5. fifo'[c] = rest /\ (state'[c] # "idle" => rest # <<>>)
        BY <4>1
      <4> QED
        BY <4>2, <4>4, <4>5 DEF StartedFor
    <3>2. CASE Begin(c) \/ Packet(c) \/ Overrun(c)
      <4>1. fifo'[c] = fifo[c] /\ state'[c] # "idle"
            /\ (state'[c] \in {"time_check", "running"} => state[c] \in {"time_check", "running"})
        BY <3>2 DEF Begin, Packet, Overrun, radios
      <4> QED
        BY <2>3, <4>1 DEF FlowingAt, StartedFor
    <3> QED
      BY <1>5, <3>1, <3>2 DEF RadioStep
  <2>7. queue # <<>> => queue' # <<>>
    <3>1. queue = <<>> <=> DOMAIN queue = {}
      BY EmptySeq, LenProperties
    <3>2. queue' = <<>> => DOMAIN queue' = {}
      OBVIOUS
    <3> QED
      BY <1>5, <3>1, <3>2, RadioQueue
  <2>8. FlowingAt(t)'
    BY <2>1, <2>2, <2>3, <2>6, <2>7 DEF FlowingAt, StartedFor
  <2> QED
    BY <2>1, <2>3, <2>5, <2>8 DEF Flowing, Reading
<1> QED
  BY <1>3, <1>4, <1>5 DEF Env, RadioStep

\* While the handler is at it no other action is handled.
LEMMA DecidingEnv ==
    ASSUME Typed, Deciding, ~last_stop, Env
    PROVE  Deciding' \/ Halting'
<1>1. \A c \in Chans : /\ ~HandleRxEvent(c) /\ ~HandleStreamCmd(c) /\ ~RestartRequest(c)
                       /\ ~RadioStop(c) /\ ~RadioStart(c)
  BY DEF Deciding, HandleRxEvent, HandleStreamCmd, RestartRequest, RadioStop, RadioStart,
     Handles
<1>2. CASE DecideRestart
  <2>1. OnlyStops' /\ AllHalt'
    BY <1>2 DEF DecideRestart, Deciding, OnlyStops, AllHalt, Halted, Pending, radios
  <2> QED
    BY <1>2, <2>1 DEF DecideRestart, Deciding, Reading
<1>3. CASE SetStoppedDueToOverrun
  <2>1. OnlyStops' /\ AllHalt'
    BY <1>3 DEF SetStoppedDueToOverrun, Deciding, OnlyStops, AllHalt, Halted, Pending, radios
  <2> QED
    BY <1>3, <2>1 DEF SetStoppedDueToOverrun, Deciding, Halting, Reading
<1>4. CASE RecvStep
  <2>1. /\ Reading'
        /\ UNCHANGED <<queue, handler, cont_mode, mode, state, fifo, user>>
    BY <1>4, RecvSteps DEF Deciding, Reported
  <2> QED
    BY <2>1 DEF Deciding, OnlyStops, AllHalt, Halted, Pending
<1>5. ASSUME NEW c \in Chans, RadioStep(c)
      PROVE  Deciding'
  <2>1. OnlyStops' /\ AllHalt'
    BY <1>5, HaltRadio, OnlyStopsRadio DEF Deciding
  <2>2. UNCHANGED <<handler, cont_mode, mode, stopped, recv, user>>
    BY <1>5, RadioSteps
  <2> QED
    BY <2>1, <2>2 DEF Deciding, Reading
<1> QED
  BY <1>1, <1>2, <1>3, <1>4, <1>5 DEF Env, HandlerStep, RadioStep

\* The restart request is posted behind all stop commands.
LEMMA HaltingEnv ==
    ASSUME Typed, Halting, ~last_stop, Env
    PROVE  Halting' \/ Requested'
<1> USE DEF Typed
<1>1. queue # <<>> => Head(queue).kind \in {"event", "stop"}
  BY TailOf DEF Halting, OnlyStops
<1>2. ASSUME NEW c \in Chans, HandleRxEvent(c) \/ RadioStop(c)
      PROVE  Halting'
  <2>1. queue # <<>> /\ queue' = Tail(queue)
        /\ UNCHANGED <<handler, mode, stopped, recv, user>>
    BY <1>2 DEF HandleRxEvent, RadioStop, Handles, Duplicate, Halting, thread, streamer
  <2>2. OnlyStops'
    BY <2>1, TailOf DEF OnlyStops, Halting
  <2>3. HandleRxEvent(c) => AllHalt'
    BY <2>1, HaltTail DEF HandleRxEvent, Handles, Halting, radios
  <2>4. RadioStop(c) => AllHalt'
    BY HaltStop DEF Halting
  <2> QED
    BY <1>2, <2>1, <2>2, <2>3, <2>4 DEF Halting
<1>3. CASE HandlerStep
  <2>1. ~DecideRestart /\ ~SetStoppedDueToOverrun
    BY DEF Halting, DecideRestart, SetStoppedDueToOverrun
  <2> QED
    BY <1>1, <1>2, <1>3, <2>1 DEF HandlerStep, HandleStreamCmd,
       RestartRequest, RadioStart, Handles
<1>4. ASSUME RecvData \/ RecvTimeout \/ CheckStopped \/ HandleOverrun
      PROVE  Halting'
  <2>1. UNCHANGED <<queue, thread, streamer, radios, user>> /\ recv' # "clear"
    BY <1>4 DEF RecvData, RecvTimeout, CheckStopped, HandleOverrun, Halting
  <2> QED
    BY <2>1 DEF Halting, OnlyStops, AllHalt, Halted, Pending, thread, streamer, radios
<1>5. ASSUME PostRestart
      PROVE  Requested'
  <2> DEFINE a == Restart(overrun_channel)
  <2>1. a \in Action /\ queue' = Append(queue, a) /\ a.kind = "restart"
    BY <1>5, Commands DEF PostRestart, Restart
  <2>2. /\ recv' = "clear"
        /\ UNCHANGED <<handler, mode, stopped, state, fifo, user>>
    BY <1>5 DEF PostRestart, thread, streamer, radios
  <2>3. queue \in Seq(Action)
    OBVIOUS
  <2> HIDE DEF a
  <2>4. /\ DOMAIN queue' = DOMAIN queue \cup {Len(queue) + 1}
        /\ \A i \in DOMAIN queue : i < Len(queue) + 1
        /\ \A i \in DOMAIN queue : queue'[i] = queue[i]
        /\ queue'[Len(queue) + 1] = a
    BY <2>1, <2>3, AppendOf
  <2>5. PICK r \in DOMAIN queue' : r = Len(queue) + 1
    BY <2>4
  <2>6. RequestedAt(r)'
    BY <2>1, <2>4, <2>5 DEF RequestedAt, Halting, OnlyStops
  <2>7. AllHalt'
    <3>1. \A d \in Chans : Pending(d) => Pending(d)'
      BY <2>4 DEF Pending
    <3>2. \A d \in Chans : Halted(d) => Halted(d)'
      BY <2>2 DEF Halted
    <3> QED
      BY <3>1, <3>2 DEF AllHalt, Halting
  <2> QED
    BY <2>2, <2>5, <2>6, <2>7 DEF Requested, Reported, Halting
<1>6. ~ReportOverrun
  BY DEF ReportOverrun, Halting
<1>7. ASSUME NEW c \in Chans, RadioStep(c)
      PROVE  Halting'
  <2>1. OnlyStops' /\ AllHalt'
    BY <1>7, HaltRadio, OnlyStopsRadio DEF Halting
  <2>2. UNCHANGED <<handler, mode, stopped, recv, user>>
    BY <1>7, RadioSteps
  <2> QED
    BY <2>1, <2>2 DEF Halting
<1> QED
  BY <1>3, <1>4, <1>5, <1>6, <1>7 DEF Env, RecvStep, RadioStep

\* When the request is handled all radios have handled their stop commands, and
\* none has an overrun to report: the answer is behind all events.
LEMMA RequestedEnv ==
    ASSUME Typed, Requested, Env
    PROVE  Requested' \/ Answered'
<1> USE DEF Typed
<1>1. PICK r \in DOMAIN queue : RequestedAt(r)
  BY DEF Requested
<1>2. queue # <<>> /\ DOMAIN queue \subseteq Nat \ {0}
      /\ Head(queue).kind \in {"event", "stop", "restart"}
  <2>1. queue # <<>>
    BY <1>1, EmptySeq
  <2> QED
    BY <1>1, <2>1, TailOf DEF RequestedAt
<1>3. ASSUME NEW c \in Chans, HandleRxEvent(c) \/ RadioStop(c)
      PROVE  Requested'
  <2>1. queue' = Tail(queue) /\ UNCHANGED <<handler, mode, stopped, recv, user>>
    BY <1>3 DEF HandleRxEvent, RadioStop, Duplicate, Requested, thread, streamer
  <2>2. Head(queue).kind # "restart"
    BY <1>3 DEF HandleRxEvent, RadioStop, Handles
  <2>3. r # 1
    BY <1>1, <1>2, <2>2, TailOf DEF RequestedAt
  <2>4. PICK s \in DOMAIN queue' : s = r - 1 /\ queue'[s] = queue[r]
    BY <1>1, <1>2, <2>1, <2>3, TailOf
  <2>5. RequestedAt(s)'
    <3> SUFFICES ASSUME NEW i \in DOMAIN queue' \ {s}
                 PROVE  queue'[i].kind = "event" \/ (queue'[i].kind = "stop" /\ i < s)
      BY <1>1, <2>4 DEF RequestedAt
    <3>1. i + 1 \in DOMAIN queue /\ queue'[i] = queue[i + 1] /\ i \in Nat
      BY <1>2, <2>1, TailOf
    <3>2. i + 1 # r
      BY <1>2, <2>4, <3>1
    <3> QED
      BY <1>1, <1>2, <2>4, <3>1, <3>2 DEF RequestedAt
  <2>6. HandleRxEvent(c) => AllHalt'
    BY <1>2, <2>1, HaltTail DEF HandleRxEvent, Handles, Requested, radios
  <2>7. RadioStop(c) => AllHalt'
    BY HaltStop DEF Requested
  <2> QED
    BY <1>3, <2>1, <2>5, <2>6, <2>7 DEF Requested, Reported, Reading
<1>4. ASSUME NEW c \in Chans, RestartRequest(c)
      PROVE  Answered'
  <2> DEFINE q == Tail(queue)
             a == StartDown(c, ntimes + 1)
  <2>1. queue' = Append(q, a) /\ ntimes' = ntimes + 1
        /\ UNCHANGED <<handler, mode, stopped, recv, state, fifo, user>>
    BY <1>4 DEF RestartRequest, thread, streamer, radios
  <2>2. r = 1
    BY <1>1, <1>2, <1>4, TailOf DEF RequestedAt, RestartRequest, Handles
  <2>3. \A i \in DOMAIN queue \ {1} : queue[i].kind = "event"
    BY <1>1, <1>2, <2>2 DEF RequestedAt
  <2>4. q \in Seq(Action) /\ \A i \in DOMAIN q : q[i].kind = "event"
    <3>1. \A i \in DOMAIN q : i + 1 \in DOMAIN queue \ {1} /\ q[i] = queue[i + 1]
      BY <1>2, TailOf
    <3> QED
      BY <1>2, <2>3, <3>1, TailOf
  <2>5. a \in Action /\ a.kind = "start_down" /\ a.time \in 0..ntimes'
    BY <2>1, Commands DEF StartDown
  <2>6. \A d \in Chans : state'[d] = "idle" /\ fifo'[d] = <<>>
    <3> SUFFICES ASSUME NEW d \in Chans
                 PROVE  state[d] = "idle" /\ fifo[d] = <<>>
      BY <2>1
    <3>1. ~Pending(d)
      BY <1>1, <2>2, <2>3 DEF Pending, RequestedAt
    <3>2. Halted(d) /\ state[d] # "report"
      BY <1>4, <3>1 DEF Requested, AllHalt, RestartRequest, MessagesKeepUp
    <3> QED
      BY <3>2 DEF Halted
  <2> HIDE DEF q, a
  <2>7. /\ DOMAIN queue' = DOMAIN q \cup {Len(q) + 1}
        /\ \A i \in DOMAIN q : i < Len(q) + 1
        /\ \A i \in DOMAIN q : queue'[i] = q[i]
        /\ queue'[Len(q) + 1] = a
    BY <2>1, <2>4, <2>5, AppendOf
  <2>8. PICK s \in DOMAIN queue' : s = Len(q) + 1
    BY <2>7
  <2>9. AnsweredAt(s)'
    BY <2>4, <2>5, <2>7, <2>8 DEF AnsweredAt
  <2> QED
    BY <2>1, <2>6, <2>9 DEF Answered, Requested, Reported, Reading
<1>5. CASE HandlerStep
  <2>1. ~DecideRestart /\ ~SetStoppedDueToOverrun
    BY DEF Requested, DecideRestart, SetStoppedDueToOverrun
  <2> QED
    BY <1>2, <1>3, <1>4, <1>5, <2>1 DEF HandlerStep, HandleStreamCmd, RadioStart, Handles
<1>6. CASE RecvStep
  <2>1. Reported' /\ UNCHANGED <<queue, handler, mode, state, fifo, user>>
    BY <1>6, RecvSteps DEF Requested
  <2>2. RequestedAt(r)' /\ AllHalt'
    BY <1>1, <2>1 DEF RequestedAt, Requested, AllHalt, Halted, Pending
  <2> QED
    BY <1>1, <2>1, <2>2 DEF Requested
<1>7. ASSUME NEW c \in Chans, RadioStep(c)
      PROVE  Requested'
  <2>1. AllHalt'
    BY <1>7, HaltRadio DEF Requested
  <2>2. r \in DOMAIN queue' /\ RequestedAt(r)'
    BY <1>1, <1>7, RadioQueue DEF RequestedAt, Event
  <2>3. UNCHANGED <<handler, mode, stopped, recv, user>>
    BY <1>7, RadioSteps
  <2> QED
    BY <2>1, <2>2, <2>3 DEF Requested, Reported, Reading
<1> QED
  BY <1>5, <1>6, <1>7 DEF Env, RadioStep

\* The answer is the last action in the queue, so all radios start together.
LEMMA AnsweredEnv ==
    ASSUME Typed, Answered, Env
    PROVE  Answered' \/ Starting'
<1>0. /\ queue \in Seq(Action)
      /\ mode /\ handler = "idle" /\ Reported /\ user.step = "idle"
      /\ \A c \in Chans : state[c] = "idle" /\ fifo[c] = <<>>
  BY DEF Typed, Answered
<1>1. PICK r \in DOMAIN queue : AnsweredAt(r)
  BY DEF Answered
<1>2. queue # <<>> /\ DOMAIN queue \subseteq Nat \ {0}
      /\ Head(queue).kind \in {"event", "start_down"}
  <2>1. queue # <<>>
    BY <1>1, EmptySeq
  <2> QED
    BY <1>0, <1>1, <2>1, TailOf DEF AnsweredAt
<1>3. ASSUME NEW c \in Chans, HandleRxEvent(c)
      PROVE  Answered'
  <2>1. queue' = Tail(queue)
        /\ UNCHANGED <<handler, stopped, recv, user, state, fifo, ntimes>>
    BY <1>0, <1>3 DEF HandleRxEvent, Duplicate, thread, radios
  <2>2. Head(queue).kind # "start_down" /\ mode' = TRUE
    BY <1>3 DEF HandleRxEvent, Handles
  <2>3. r # 1
    BY <1>0, <1>1, <1>2, <2>2, TailOf DEF AnsweredAt
  <2>4. PICK s \in DOMAIN queue' : s = r - 1 /\ queue'[s] = queue[r]
    BY <1>0, <1>1, <1>2, <2>1, <2>3, TailOf
  <2>5. AnsweredAt(s)'
    <3> SUFFICES ASSUME NEW i \in DOMAIN queue' \ {s}
                 PROVE  queue'[i].kind = "event" /\ i < s
      BY <1>1, <2>1, <2>4 DEF AnsweredAt
    <3>1. i + 1 \in DOMAIN queue /\ queue'[i] = queue[i + 1] /\ i \in Nat
      BY <1>0, <1>2, <2>1, TailOf
    <3>2. i + 1 # r
      BY <1>2, <2>4, <3>1
    <3> QED
      BY <1>1, <1>2, <2>4, <3>1, <3>2 DEF AnsweredAt
  <2> QED
    BY <1>0, <2>1, <2>2, <2>5 DEF Answered, Reported, Reading
<1>4. ASSUME NEW c \in Chans, HandleStreamCmd(c)
      PROVE  Starting'
  <2>1. /\ queue' = Tail(queue) \o StartActions(c, Head(queue).time) /\ mode' = FALSE
        /\ UNCHANGED <<handler, stopped, recv, user, state, fifo, last_cmd, ntimes>>
    BY <1>4 DEF HandleStreamCmd, ModeAfterStart, thread, radios
  <2>2. r = 1
    BY <1>0, <1>1, <1>2, <1>4, TailOf DEF AnsweredAt, HandleStreamCmd, Handles
  <2>3. PICK t \in 0..ntimes : t = Head(queue).time
    BY <1>0, <1>1, <1>2, <2>2, TailOf DEF AnsweredAt
  <2>4. PICK s \in Seq(Action) : s = Tail(queue)
    BY <1>0, <1>2, TailOf
  <2>5. DOMAIN s = {}
    <3>1. \A i \in DOMAIN s : i + 1 \in DOMAIN queue /\ i \in Nat \ {0}
      BY <1>0, <1>2, <2>4, TailOf
    <3> QED
      BY <1>1, <1>2, <2>2, <3>1 DEF AnsweredAt
  <2>6. PICK q : q = s \o StartActions(c, t)
    OBVIOUS
  <2>7. t \in Nat
    BY <2>3
  <2>8. /\ \A i \in DOMAIN q : \E d \in Chans : q[i] = Start(d, t)
        /\ \A d \in Chans : \E i \in DOMAIN q : q[i] = Start(d, t)
    <3>1. /\ \A i \in DOMAIN q : \/ i \in DOMAIN s /\ q[i] = s[i]
                                \/ \E d \in Chans : q[i] = Start(d, t)
          /\ \A d \in Chans : \E i \in DOMAIN q : q[i] = Start(d, t)
      <4>1. t \in Nat /\ c \in Chans /\ s \in Seq(Action)
        BY <2>7
      <4> QED
        BY <2>6, <4>1, StartsBehind, Zenon
    <3> QED
      BY <2>5, <3>1
  <2>9. \A d \in Chans : Start(d, t).chan = d
    BY DEF Start
  <2>10. \A i \in DOMAIN q : q[i] = Start(q[i].chan, t)
    BY <2>8, <2>9
  <2>11. q = queue'
    BY <2>1, <2>3, <2>4, <2>6
  <2>12. \A d \in Chans : ToCome(d)' /\ StartedFor(d, t)'
    <3>1. \A d \in Chans : fifo'[d] = <<>>
      BY <1>0, <2>1
    <3>2. \A d \in Chans : StartedFor(d, t)'
      BY <3>1 DEF StartedFor
    <3>3. \A d \in Chans : \E i \in DOMAIN queue' : queue'[i].chan = d
      BY <2>8, <2>9, <2>11
    <3> QED
      BY <3>2, <3>3 DEF ToCome
  <2>13. StartingAt(t)'
    BY <1>0, <2>1, <2>10, <2>11, <2>12 DEF StartingAt
  <2> QED
    BY <1>0, <2>1, <2>3, <2>13 DEF Starting, Reported, Reading
<1>5. CASE HandlerStep
  <2>1. ~DecideRestart /\ ~SetStoppedDueToOverrun
    BY <1>0 DEF DecideRestart, SetStoppedDueToOverrun
  <2> QED
    BY <1>2, <1>3, <1>4, <1>5, <2>1 DEF HandlerStep, RestartRequest, RadioStop, RadioStart,
       Handles
<1>6. CASE RecvStep
  <2>1. Reported' /\ UNCHANGED <<queue, handler, mode, state, fifo, user, ntimes>>
    BY <1>0, <1>6, RecvSteps
  <2>2. AnsweredAt(r)'
    BY <1>1, <2>1 DEF AnsweredAt
  <2> QED
    BY <1>0, <1>1, <2>1, <2>2 DEF Answered
<1>7. \A c \in Chans : ~RadioStep(c)
  BY <1>0 DEF RadioStep, Begin, Packet, Overrun, AsyncMessage
<1> QED
  BY <1>5, <1>6, <1>7 DEF Env, RadioStep

LEMMA PhaseEnv ==
    ASSUME Typed, InPhase, ~last_stop, Env
    PROVE  InPhase'
BY StartingEnv, FlowingEnv, DecidingEnv, HaltingEnv, RequestedEnv, AnsweredEnv DEF InPhase

-----------------------------------------------------------------------------
(* One restart at a time *)

IsRestart(a) == a.kind \in {"restart", "start_down"}

LEMMA PhaseAtMostOne ==
    ASSUME Quiet \/ InPhase
    PROVE  AtMostOne
<1>1. CASE Quiet
  BY <1>1 DEF Quiet, AtMostOne, Restarts, Reading
<1>2. CASE Starting
  BY <1>2 DEF Starting, StartingAt, AtMostOne, Restarts, Start, Reported, Reading
<1>3. CASE Flowing
  BY <1>3 DEF Flowing, AtMostOne, Restarts, Reading
<1>4. CASE Deciding \/ Halting
  BY <1>4 DEF Deciding, Halting, OnlyStops, AtMostOne, Restarts
<1>5. CASE Requested
  BY <1>5 DEF Requested, RequestedAt, AtMostOne, Restarts, Reported, Reading
<1>6. CASE Answered
  BY <1>6 DEF Answered, AnsweredAt, AtMostOne, Restarts, Reported, Reading
<1> QED
  BY <1>1, <1>2, <1>3, <1>4, <1>5, <1>6 DEF InPhase

\* Once the user has stopped the stream no restart is requested any more, and
\* what is under way does not multiply.
LEMMA AtMostOneStopped ==
    ASSUME Typed, AtMostOne, last_stop, Env
    PROVE  AtMostOne'
<1>0. queue \in Seq(Action) /\ overrun_channel \in Chans /\ ntimes \in Nat
  BY DEF Typed
<1>1. Restarts = {i \in DOMAIN queue : IsRestart(queue[i])}
  BY DEF Restarts, IsRestart
<1>2. Restarts' = {i \in DOMAIN queue' : IsRestart(queue'[i])}
  BY DEF Restarts, IsRestart
<1>3. \A i, j \in DOMAIN queue : IsRestart(queue[i]) /\ IsRestart(queue[j]) => i = j
  BY <1>1 DEF AtMostOne
<1>4. recv = "post" => \A i \in DOMAIN queue : ~IsRestart(queue[i])
  BY <1>1 DEF AtMostOne
<1>6. ASSUME queue # <<>>
      PROVE  LET s == Tail(queue) IN
             /\ s \in Seq(Action)
             /\ \A i, j \in DOMAIN s : IsRestart(s[i]) /\ IsRestart(s[j]) => i = j
             /\ recv = "post" => \A i \in DOMAIN s : ~IsRestart(s[i])
             /\ IsRestart(Head(queue)) => recv # "post" /\ \A i \in DOMAIN s : ~IsRestart(s[i])
  <2>1. PICK s \in Seq(Action) : s = Tail(queue)
    BY <1>0, <1>6, TailOf
  <2>2. /\ \A i \in DOMAIN s : i + 1 \in DOMAIN queue /\ s[i] = queue[i + 1] /\ i \in Nat \ {0}
        /\ 1 \in DOMAIN queue /\ Head(queue) = queue[1]
    BY <1>0, <1>6, <2>1, TailOf
  <2>3. \A i, j \in DOMAIN s : IsRestart(s[i]) /\ IsRestart(s[j]) => i = j
    <3> SUFFICES ASSUME NEW i \in DOMAIN s, NEW j \in DOMAIN s,
                        IsRestart(s[i]), IsRestart(s[j])
                 PROVE  i = j
      OBVIOUS
    <3>1. i + 1 = j + 1
      BY <1>3, <2>2
    <3> QED
      BY <2>2, <3>1
  <2>4. recv = "post" => \A i \in DOMAIN s : ~IsRestart(s[i])
    BY <1>4, <2>2
  <2>5. ASSUME IsRestart(Head(queue)), NEW i \in DOMAIN s
        PROVE  ~IsRestart(s[i])
    <3>1. i + 1 # 1
      BY <2>2
    <3> QED
      BY <1>3, <2>2, <2>5, <3>1
  <2>6. IsRestart(Head(queue)) => recv # "post"
    BY <1>4, <2>2
  <2> QED
    BY <2>1, <2>3, <2>4, <2>5, <2>6
<1>7. ASSUME queue # <<>>, queue' = Tail(queue), recv' = recv
      PROVE  AtMostOne'
  BY <1>2, <1>6, <1>7 DEF AtMostOne
<1>8. ASSUME NEW c \in Chans, HandleRxEvent(c)
      PROVE  AtMostOne'
  <2>1. queue # <<>> /\ recv' = recv
    BY <1>8 DEF HandleRxEvent, Handles
  <2>2. CASE Duplicate
    BY <1>7, <1>8, <2>1, <2>2 DEF HandleRxEvent
  <2>3. CASE ~Duplicate
    <3>1. PICK s \in Seq(Action) : s = Tail(queue)
      BY <1>6, <2>1
    <3>2. PICK q : q = s \o StopActions(c)
      OBVIOUS
    <3>3. \A i \in DOMAIN q : \/ i \in DOMAIN s /\ q[i] = s[i]
                              \/ \E d \in Chans : q[i] = Stop(d)
      BY <3>2, StopsBehind
    <3>4. \A d \in Chans : ~IsRestart(Stop(d))
      BY DEF IsRestart, Stop
    <3>5. q = queue'
      BY <1>8, <2>3, <3>1, <3>2 DEF HandleRxEvent
    <3> QED
      BY <1>2, <1>6, <2>1, <3>1, <3>3, <3>4, <3>5 DEF AtMostOne
  <2> QED
    BY <2>2, <2>3
<1>9. ASSUME NEW c \in Chans, HandleStreamCmd(c)
      PROVE  AtMostOne'
  <2>1. queue # <<>> /\ recv' = recv
    BY <1>9 DEF HandleStreamCmd, Handles
  <2>2. PICK s \in Seq(Action) : s = Tail(queue)
    BY <1>6, <2>1
  <2>3. PICK t \in Nat : t = Head(queue).time
    <3>1. Head(queue) \in Action
      BY <1>0, <2>1, TailOf
    <3> QED
      BY <3>1 DEF Action
  <2>4. PICK q : q = s \o StartActions(c, t)
    OBVIOUS
  <2>5. \A i \in DOMAIN q : \/ i \in DOMAIN s /\ q[i] = s[i]
                            \/ \E d \in Chans : q[i] = Start(d, t)
    BY <2>4, StartsBehind
  <2>6. \A d \in Chans : ~IsRestart(Start(d, t))
    BY DEF IsRestart, Start
  <2>7. q = queue'
    BY <1>9, <2>2, <2>3, <2>4 DEF HandleStreamCmd
  <2> QED
    BY <1>2, <1>6, <2>1, <2>2, <2>5, <2>6, <2>7 DEF AtMostOne
<1>10. ASSUME NEW c \in Chans, RestartRequest(c)
       PROVE  AtMostOne'
  <2>1. queue # <<>> /\ recv' = recv /\ IsRestart(Head(queue))
    BY <1>10 DEF RestartRequest, Handles, IsRestart
  <2>2. PICK s \in Seq(Action) : s = Tail(queue)
    BY <1>6, <2>1
  <2>3. recv # "post" /\ \A i \in DOMAIN s : ~IsRestart(s[i])
    BY <1>6, <2>1, <2>2
  <2>4. PICK a \in Action : a = StartDown(c, ntimes + 1)
    BY <1>0, Commands
  <2>5. queue' = Append(s, a)
    BY <1>10, <2>2, <2>4 DEF RestartRequest
  <2>6. /\ DOMAIN queue' = DOMAIN s \cup {Len(s) + 1}
        /\ \A i \in DOMAIN s : queue'[i] = s[i]
    BY <2>5, AppendOf
  <2> QED
    BY <1>2, <2>1, <2>3, <2>6 DEF AtMostOne
<1>11. ASSUME NEW c \in Chans, RadioStop(c) \/ RadioStart(c)
       PROVE  AtMostOne'
  BY <1>7, <1>11 DEF RadioStop, RadioStart, Handles
<1>12. CASE HandlerStep
  <2>1. ASSUME DecideRestart \/ SetStoppedDueToOverrun
        PROVE  AtMostOne'
    BY <2>1 DEF DecideRestart, SetStoppedDueToOverrun, AtMostOne, Restarts
  <2> QED
    BY <1>8, <1>9, <1>10, <1>11, <1>12, <2>1 DEF HandlerStep
<1>13. CASE RecvStep
  <2>1. CASE PostRestart
    <3>1. recv = "post" /\ recv' = "clear"
      BY <2>1 DEF PostRestart
    <3>2. PICK a \in Action : a = Restart(overrun_channel)
      BY <1>0, Commands
    <3>3. queue' = Append(queue, a)
      BY <2>1, <3>2 DEF PostRestart
    <3>4. /\ DOMAIN queue' = DOMAIN queue \cup {Len(queue) + 1}
          /\ \A i \in DOMAIN queue : queue'[i] = queue[i]
      BY <1>0, <3>3, AppendOf
    <3> QED
      BY <1>2, <1>4, <3>1, <3>4 DEF AtMostOne
  <2>2. CASE ~PostRestart
    <3>1. queue' = queue /\ recv' # "post"
      BY <1>13, <2>2 DEF RecvStep, RecvData, RecvTimeout, CheckStopped, HandleOverrun,
         ReportOverrun
    <3> QED
      BY <1>1, <1>2, <1>3, <3>1 DEF AtMostOne
  <2> QED
    BY <2>1, <2>2
<1>14. ASSUME NEW c \in Chans, RadioStep(c)
       PROVE  AtMostOne'
  <2>1. recv' = recv
    BY <1>14, RadioSteps
  <2>2. ~IsRestart(Event(c, ContMode(c)))
    BY DEF IsRestart, Event
  <2>3. /\ \A i \in DOMAIN queue : i \in DOMAIN queue' /\ queue'[i] = queue[i]
        /\ \A i \in DOMAIN queue' \ DOMAIN queue : ~IsRestart(queue'[i])
    BY <1>14, <2>2, RadioQueue
  <2> QED
    BY <1>2, <1>3, <1>4, <2>1, <2>3 DEF AtMostOne
<1> QED
  BY <1>12, <1>13, <1>14 DEF Env, RadioStep

\* Nor does the user ask for restarts.
LEMMA AtMostOneUser ==
    ASSUME Typed, AtMostOne, UserStep
    PROVE  AtMostOne'
<1>0. queue \in Seq(Action) /\ user.chan \in Chans /\ user.time \in Nat
  BY DEF Typed
<1>1. recv' = recv
  BY DEF UserStep, IssueStreamCmd, PostStreamCmd, SyncStreamCmd
<1>2. CASE PostStreamCmd
  <2>1. PICK a \in Action :
           /\ a = (IF UserCmds[user.next] = "stop" THEN Stop(user.chan)
                   ELSE Start(user.chan, user.time))
           /\ ~IsRestart(a)
    <3>1. Stop(user.chan) \in Action /\ Start(user.chan, user.time) \in Action
      BY <1>0, Commands
    <3>2. ~IsRestart(Stop(user.chan)) /\ ~IsRestart(Start(user.chan, user.time))
      BY DEF IsRestart, Stop, Start
    <3> QED
      BY <3>1, <3>2
  <2>2. queue' = Append(queue, a)
    BY <1>2, <2>1 DEF PostStreamCmd
  <2>3. /\ DOMAIN queue' = DOMAIN queue \cup {Len(queue) + 1}
        /\ \A i \in DOMAIN queue : queue'[i] = queue[i]
        /\ queue'[Len(queue) + 1] = a
    BY <1>0, <2>2, AppendOf
  <2> QED
    BY <1>1, <2>1, <2>3 DEF AtMostOne, Restarts, IsRestart
<1>3. CASE ~PostStreamCmd
  <2>1. queue' = queue
    BY <1>3 DEF UserStep, IssueStreamCmd, SyncStreamCmd
  <2> QED
    BY <1>1, <2>1 DEF AtMostOne, Restarts
<1> QED
  BY <1>2, <1>3

-----------------------------------------------------------------------------
(* The inductive invariant *)

LEMMA IInvInit == Init => IInv
<1> SUFFICES ASSUME Init
             PROVE  IInv
  OBVIOUS
<1>1. 0 \in Chans /\ <<>> \in Seq(Action) /\ <<>> \in Seq(Nat)
  BY OverrunAssumption DEF OverrunAssumption, Chans
<1>2. Typed
  <2>1. user \in [step : {"idle", "post", "sync"}, next : Nat \ {0}, chan : Chans, time : Nat]
    BY <1>1 DEF Init
  <2> QED
    BY <1>1, <2>1 DEF Init, Typed
<1>3. User /\ Quiet
  BY DEF Init, User, Quiet, Reading
<1>4. NotStarted
  <2>1. DOMAIN UserCmds = 1..Len(UserCmds)
    BY OverrunAssumption DEF OverrunAssumption
  <2>2. user.next = 1 /\ user.step = "idle"
    BY DEF Init
  <2> QED
    BY <2>1, <2>2 DEF NotStarted, Issued
<1> QED
  BY <1>2, <1>3, <1>4, PhaseAtMostOne DEF IInv

\* The steps of everybody but the user leave open only what PhaseEnv decides.
LEMMA IInvEnv ==
    ASSUME IInv, Env
    PROVE  IInv'
<1>1. Typed' /\ user' = user /\ last_stop' = last_stop
  BY TypedEnv DEF IInv
<1>2. User' /\ (NotStarted' <=> NotStarted)
  BY <1>1 DEF IInv, User, NotStarted, Issued
<1>3. NotStarted' => Quiet'
  BY <1>2, QuietEnv DEF IInv
<1>4. ~NotStarted' /\ ~last_stop' => InPhase'
  BY <1>1, <1>2, PhaseEnv DEF IInv
<1>5. (Quiet \/ InPhase)' => AtMostOne'
  BY PhaseAtMostOne, PTL
<1>6. AtMostOne'
  <2>1. CASE last_stop
    BY <2>1, AtMostOneStopped DEF IInv
  <2>2. CASE ~last_stop
    BY <1>1, <1>3, <1>4, <1>5, <2>2
  <2> QED
    BY <2>1, <2>2
<1> QED
  BY <1>1, <1>2, <1>3, <1>4, <1>6 DEF IInv

LEMMA IInvUser ==
    ASSUME StartedOnce, IInv, UserStep
    PROVE  IInv'
BY TypedUser, UserPhase, AtMostOneUser DEF IInv

LEMMA IInvStutter ==
    ASSUME IInv, UNCHANGED vars
    PROVE  IInv'
<1>1. UNCHANGED <<queue, handler, cont_mode, mode, last_stop, overrun_channel, stopped, recv,
                  last_cmd, state, fifo, user, ntimes>>
  BY DEF vars, thread, streamer, radios
<1>2. Typed' /\ User' /\ AtMostOne' /\ (NotStarted' <=> NotStarted)
  BY <1>1 DEF IInv, Typed, User, AtMostOne, Restarts, NotStarted, Issued
<1>3. Reported' <=> Reported
  BY <1>1 DEF Reported, Reading
<1>4. AllHalt' <=> AllHalt
  BY <1>1 DEF AllHalt, Halted, Pending
<1>5. Quiet => Quiet'
  BY <1>1 DEF Quiet, Reading
<1>6. Starting => Starting'
  <2>1. \A t : StartingAt(t) => StartingAt(t)'
    BY <1>1 DEF StartingAt, StartedFor, ToCome
  <2> QED
    BY <1>1, <1>3, <2>1 DEF Starting
<1>7. Flowing => Flowing'
  <2>1. \A t : FlowingAt(t) => FlowingAt(t)'
    BY <1>1 DEF FlowingAt, StartedFor
  <2> QED
    BY <1>1, <2>1 DEF Flowing, Reading
<1>8. (Deciding => Deciding') /\ (Halting => Halting')
  BY <1>1, <1>4 DEF Deciding, Halting, OnlyStops, Reading
<1>9. Requested => Requested'
  BY <1>1, <1>3, <1>4 DEF Requested, RequestedAt
<1>10. Answered => Answered'
  BY <1>1, <1>3 DEF Answered, AnsweredAt
<1> QED
  BY <1>1, <1>2, <1>5, <1>6, <1>7, <1>8, <1>9, <1>10 DEF IInv, InPhase

LEMMA Invariant ==
    ASSUME StartedOnce
    PROVE  Spec => []IInv
<1>1. IInv /\ [Next]_vars => IInv'
  <2>1. Next => Env \/ UserStep
    BY DEF Next, Env
  <2> QED
    BY <2>1, IInvEnv, IInvUser, IInvStutter
<1> QED
  BY <1>1, IInvInit, PTL DEF Spec

\* Overruns of several radios, and overruns that are noticed late, lead to one
\* restart at a time, however many channels there are, whenever their events
\* come and whenever the user stops the stream.
THEOREM RestartsOnce ==
    ASSUME StartedOnce
    PROVE  Spec => []OneRestart
<1>1. IInv => OneRestart
  <2> SUFFICES ASSUME AtMostOne
               PROVE  OneRestart
    BY DEF IInv
  <2>1. CASE Restarts = {}
    BY <2>1, FS_EmptySet DEF OneRestart
  <2>2. CASE Restarts # {}
    <3>1. PICK i \in Restarts : Restarts = {i}
      BY <2>2 DEF AtMostOne
    <3>2. Cardinality(Restarts) = 1
      BY <3>1, FS_Singleton
    <3> QED
      BY <2>2, <3>2 DEF OneRestart, AtMostOne
  <2> QED
    BY <2>1, <2>2
<1> QED
  BY <1>1, Invariant, PTL

\* After a stop that did not come in overrun handling mode, an overrun turns the
\* mode on only until the action handler has decided not to restart.
Declined == last_stop /\ ~raced /\ mode => handler = "decide"

LEMMA DeclinedAlways == Spec => []Declined
<1>1. Init => Declined
  BY DEF Init, Declined
<1>2. ASSUME Declined, [Next]_vars
      PROVE  Declined'
  <2>1. CASE HandlerStep
    <3>1. CASE DecideRestart \/ SetStoppedDueToOverrun
      BY <1>2, <3>1 DEF DecideRestart, SetStoppedDueToOverrun, history, Declined
    <3>2. ASSUME NEW c \in Chans,
                 HandleRxEvent(c) \/ HandleStreamCmd(c) \/ RestartRequest(c)
                    \/ RadioStop(c) \/ RadioStart(c)
          PROVE  Declined'
      BY <1>2, <3>2 DEF HandleRxEvent, Duplicate, HandleStreamCmd, ModeAfterStart,
         RestartRequest, RadioStop, RadioStart, Handles, thread, streamer, history, Declined
    <3> QED
      BY <2>1, <3>1, <3>2 DEF HandlerStep
  <2>2. CASE RecvStep
    BY <1>2, <2>2 DEF RecvStep, RecvData, RecvTimeout, CheckStopped, HandleOverrun,
       PostRestart, ReportOverrun, thread, streamer, history, Declined
  <2>3. CASE UserStep
    BY <1>2, <2>3 DEF UserStep, IssueStreamCmd, PostStreamCmd, SyncStreamCmd,
       thread, streamer, history, Declined
  <2>4. ASSUME NEW c \in Chans, Begin(c) \/ Packet(c) \/ Overrun(c) \/ AsyncMessage(c)
        PROVE  Declined'
    BY <1>2, <2>4 DEF Begin, Packet, Overrun, AsyncMessage, thread, streamer, history,
       Declined
  <2>5. CASE UNCHANGED vars
    BY <1>2, <2>5 DEF vars, thread, streamer, history, Declined
  <2> QED
    BY <1>2, <2>1, <2>2, <2>3, <2>4, <2>5 DEF Next
<1> QED
  BY <1>1, <1>2, PTL DEF Spec

\* Overrun handling mode never stays on with nothing under way that ends it,
\* whether or not the user has stopped the stream, unless his stop came in the
\* middle of the handling: a streamer that is left in the mode would ignore all
\* later overruns.
THEOREM ModeComesToAnEnd ==
    ASSUME StartedOnce
    PROVE  Spec => []ModeHasEnd
<1>1. IInv /\ Declined => ModeHasEnd
  <2> SUFFICES ASSUME IInv, Declined, mode, ~raced
               PROVE  handler # "idle" \/ stopped \/ Restarts # {}
    BY DEF ModeHasEnd
  <2>1. CASE last_stop
    BY <2>1 DEF Declined
  <2>2. CASE ~last_stop
    <3>1. Deciding \/ Halting \/ Requested \/ Answered
      BY <2>2 DEF IInv, Quiet, InPhase, Starting, Flowing
    <3>2. Requested => Restarts # {}
      BY DEF Requested, RequestedAt, Restarts
    <3>3. Answered => Restarts # {}
      BY DEF Answered, AnsweredAt, Restarts
    <3> QED
      BY <3>1, <3>2, <3>3 DEF Deciding, Halting
  <2> QED
    BY <2>1, <2>2
<1> QED
  BY <1>1, Invariant, DeclinedAlways, PTL

\* When nothing is under way and the user has not stopped them, all radios stream,
\* started for the same time, or none does: no overrun leaves part of the
\* channels behind, or channels that can not be aligned.
THEOREM AllStreamTogether ==
    ASSUME StartedOnce
    PROVE  Spec => []StreamTogether
<1>1. IInv => StreamTogether
  <2> SUFFICES ASSUME IInv, Settled, ~last_stop, NEW c \in Chans, NEW d \in Chans, Streaming(c)
               PROVE  Streaming(d) /\ Head(fifo[d]) = Head(fifo[c])
    BY DEF StreamTogether
  <2>1. /\ queue = <<>> /\ DOMAIN queue = {} /\ handler = "idle" /\ user.step = "idle"
        /\ ~stopped /\ state[c] # "report" /\ state[d] # "report"
    BY DEF Settled, QueueEmpty
  <2>2. Starting \/ Flowing
    BY <2>1 DEF IInv, Quiet, InPhase, Deciding, Halting, Requested, Answered, Streaming
  <2>3. PICK t \in 0..ntimes : StartingAt(t) \/ FlowingAt(t)
    BY <2>2 DEF Starting, Flowing
  <2>4. ASSUME NEW e \in Chans, state[e] # "report"
        PROVE  Streaming(e) /\ Head(fifo[e]) = t
    <3>1. ~ToCome(e)
      BY <2>1 DEF ToCome
    <3>2. /\ state[e] \in {"time_check", "running"} /\ fifo[e] # <<>>
          /\ StartedFor(e, t)
      BY <2>1, <2>3, <2>4, <3>1 DEF StartingAt, FlowingAt, IInv, Typed
    <3>3. fifo[e] \in Seq(Nat)
      BY DEF IInv, Typed
    <3> QED
      BY <3>2, <3>3, TailOf DEF Streaming, StartedFor
  <2> QED
    BY <2>1, <2>4
<1> QED
  BY <1>1, Invariant, PTL

=============================================================================

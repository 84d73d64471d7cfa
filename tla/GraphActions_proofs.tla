-------------------------- MODULE GraphActions_proofs --------------------------
(***************************************************************************)
(* Proofs about GraphActions: what a synchronous call of post_action may   *)
(* rely on, for any number of clients, actions and iterations.             *)
(***************************************************************************)
EXTENDS GraphActions, SequenceTheorems, TLAPS

\* While the graph is not shut down, the action of a synchronous call is
\* queued, being delivered, or dealt with.
InHand ==
    ~shutdown =>
        \A c \in Clients :
            client[c] = "sync"
                => call[c].id \in Ids(queue) \cup Ids(current) \cup handled \cup dropped

\* A call that is under way has no result yet.
NoResultYet == \A c \in Clients : client[c] # "idle" => call[c].result = "none"

\* The owner keeps _graph_mutex while it shuts the graph down, and an action
\* is in the handler's hands only while it is being delivered.
Locks ==
    /\ owner = "shutting_down" => graph_mutex = "owner"
    /\ current # <<>> => handler = "deliver"
    /\ handler = "deliver" => Len(current) = 1

IInv == TypeOK /\ BusyWhileDelivering /\ Locks /\ InHand /\ NoResultYet /\ SyncMeansHandled

-----------------------------------------------------------------------------
(* Sequences of actions and their numbers *)

LEMMA IdsMember ==
    ASSUME NEW s \in Seq(Action)
    PROVE  Ids(s) = {s[i].id : i \in DOMAIN s}
BY DEF Ids, ToSet

LEMMA IdsEmpty == Ids(<<>>) = {}
BY DEF Ids, ToSet

\* A queue has the numbers of its first action and of the rest.
LEMMA IdsHeadTail ==
    ASSUME NEW s \in Seq(Action), s # <<>>
    PROVE  /\ Head(s) \in Action /\ Tail(s) \in Seq(Action)
           /\ Ids(s) = {Head(s).id} \cup Ids(Tail(s))
<1>1. /\ Head(s) \in Action /\ Tail(s) \in Seq(Action)
      /\ Head(s) = s[1] /\ Len(s) \in Nat \ {0} /\ Len(Tail(s)) = Len(s) - 1
      /\ DOMAIN s = 1..Len(s) /\ DOMAIN Tail(s) = 1..Len(s) - 1
      /\ \A i \in 1..Len(s) - 1 : Tail(s)[i] = s[i + 1]
  BY HeadTailProperties, LenProperties, EmptySeq
<1>2. Ids(s) \subseteq {Head(s).id} \cup Ids(Tail(s))
  <2> SUFFICES ASSUME NEW i \in 1..Len(s)
               PROVE  s[i].id \in {Head(s).id} \cup Ids(Tail(s))
    BY <1>1, IdsMember
  <2>1. CASE i = 1
    BY <1>1, <2>1
  <2>2. CASE i # 1
    <3>1. i - 1 \in DOMAIN Tail(s) /\ Tail(s)[i - 1] = s[i]
      BY <1>1, <2>2
    <3> QED
      BY <1>1, <3>1, IdsMember
  <2> QED
    BY <2>1, <2>2
<1>3. {Head(s).id} \cup Ids(Tail(s)) \subseteq Ids(s)
  <2>1. Head(s).id \in Ids(s)
    <3>1. 1 \in DOMAIN s
      BY <1>1
    <3> QED
      BY <1>1, <3>1, IdsMember
  <2>2. ASSUME NEW i \in DOMAIN Tail(s)
        PROVE  Tail(s)[i].id \in Ids(s)
    <3>1. i + 1 \in DOMAIN s /\ Tail(s)[i] = s[i + 1]
      BY <1>1
    <3> QED
      BY <3>1, IdsMember
  <2>3. Ids(Tail(s)) = {Tail(s)[i].id : i \in DOMAIN Tail(s)}
    BY <1>1, IdsMember
  <2> QED
    BY <2>1, <2>2, <2>3
<1> QED
  BY <1>1, <1>2, <1>3

\* Appending an action adds its number.
LEMMA IdsAppend ==
    ASSUME NEW s \in Seq(Action), NEW a \in Action
    PROVE  Append(s, a) \in Seq(Action) /\ Ids(Append(s, a)) = Ids(s) \cup {a.id}
<1>1. /\ Append(s, a) \in Seq(Action)
      /\ DOMAIN s = 1..Len(s) /\ DOMAIN Append(s, a) = 1..Len(s) + 1
      /\ Len(s) \in Nat
      /\ \A i \in 1..Len(s) : Append(s, a)[i] = s[i]
      /\ Append(s, a)[Len(s) + 1] = a
  BY AppendProperties, LenProperties
<1>2. Ids(Append(s, a)) \subseteq Ids(s) \cup {a.id}
  <2>0. Ids(Append(s, a)) = {Append(s, a)[i].id : i \in 1..Len(s) + 1}
    BY <1>1, IdsMember
  <2> SUFFICES ASSUME NEW i \in 1..Len(s) + 1
               PROVE  Append(s, a)[i].id \in Ids(s) \cup {a.id}
    BY <2>0
  <2>1. CASE i = Len(s) + 1
    BY <1>1, <2>1
  <2>2. CASE i # Len(s) + 1
    <3>1. i \in DOMAIN s /\ Append(s, a)[i] = s[i]
      BY <1>1, <2>2
    <3> QED
      BY <3>1, IdsMember
  <2> QED
    BY <2>1, <2>2
<1>3. Ids(s) \cup {a.id} \subseteq Ids(Append(s, a))
  <2>1. a.id \in Ids(Append(s, a))
    <3>1. Len(s) + 1 \in DOMAIN Append(s, a)
      BY <1>1
    <3> QED
      BY <1>1, <3>1, IdsMember
  <2>2. ASSUME NEW i \in DOMAIN s
        PROVE  s[i].id \in Ids(Append(s, a))
    <3>1. i \in DOMAIN Append(s, a) /\ Append(s, a)[i] = s[i]
      BY <1>1
    <3> QED
      BY <1>1, <3>1, IdsMember
  <2> QED
    BY <2>1, <2>2, IdsMember
<1> QED
  BY <1>1, <1>2, <1>3

-----------------------------------------------------------------------------
(* One step *)

\* Steps of a client keep the invariant.
LEMMA ClientKeeps ==
    ASSUME IInv, ClientStep
    PROVE  IInv'
<1>1. TypeOK /\ BusyWhileDelivering /\ Locks /\ InHand /\ NoResultYet /\ SyncMeansHandled
  BY DEF IInv
<1>2. ASSUME NEW c \in Clients, PostAction(c)
      PROVE  IInv'
  <2>1. PICK kind \in AllKinds, mode \in {"SYNC", "ASYNC"} :
          call' = [call EXCEPT ![c] = [id |-> nposts + 1, kind |-> kind,
                                       mode |-> mode, failures |-> {},
                                       result |-> "none"]]
    BY <1>2, GraphAssumption DEF PostAction
  <2>2. TypeOK'
    <3>1. nposts' \in Nat /\ nposts + 1 \in Nat
      BY <1>1, <1>2 DEF PostAction, TypeOK
    <3>2. client' \in [Clients -> {"idle", "enqueue", "sync"}]
      BY <1>1, <1>2 DEF PostAction, TypeOK
    <3>3. call' \in [Clients -> [id : Nat, kind : AllKinds, mode : {"SYNC", "ASYNC"},
                                 failures : SUBSET Nat,
                                 result : {"none", "throws", "shut_down", "returns"}]]
      BY <1>1, <2>1, <3>1 DEF TypeOK
    <3> QED
      BY <1>1, <1>2, <3>1, <3>2, <3>3 DEF PostAction, TypeOK, work, life, history
  <2>3. \A d \in Clients : d # c => client'[d] = client[d] /\ call'[d] = call[d]
    BY <1>1, <1>2, <2>1 DEF PostAction, TypeOK
  <2>4. client'[c] = "enqueue" /\ call'[c].result = "none"
    BY <1>1, <1>2, <2>1 DEF PostAction, TypeOK
  <2>5. InHand' /\ NoResultYet' /\ SyncMeansHandled'
    BY <1>1, <1>2, <2>3, <2>4
       DEF PostAction, InHand, NoResultYet, SyncMeansHandled, work, life, history
  <2> QED
    BY <1>1, <1>2, <2>2, <2>5
       DEF PostAction, IInv, BusyWhileDelivering, Locks, work, life
<1>3. ASSUME NEW c \in Clients, EnqueueAction(c)
      PROVE  IInv'
  <2> DEFINE a == [id |-> call[c].id, kind |-> call[c].kind]
  <2>1. a \in Action /\ queue \in Seq(Action)
    BY <1>1 DEF TypeOK, Action
  <2>2. queue' \in Seq(Action) /\ Ids(queue') = Ids(queue) \cup {call[c].id}
    BY <1>3, <2>1, IdsAppend DEF EnqueueAction
  <2>3. /\ handler' = "sleeping" => handler = "sleeping"
        /\ handler' # handler => handler = "sleeping" /\ handler' = "check"
        /\ handler' \in {"check", "before_sleep", "sleeping", "lock_graph", "next",
                         "deliver", "leave", "ended"}
    BY <1>1, <1>3 DEF EnqueueAction, Wakened, TypeOK
  <2>4. client' \in [Clients -> {"idle", "enqueue", "sync"}]
    BY <1>1, <1>3 DEF EnqueueAction, TypeOK
  <2>5. TypeOK'
    BY <1>1, <1>3, <2>2, <2>3, <2>4 DEF EnqueueAction, TypeOK, work, life, history
  <2>6. \A d \in Clients : d # c => client'[d] = client[d]
    BY <1>1, <1>3 DEF EnqueueAction, TypeOK
  <2>7. client[c] = "enqueue" /\ call' = call /\ shutdown' = shutdown
        /\ handled' = handled /\ dropped' = dropped /\ current' = current
    BY <1>3 DEF EnqueueAction, work, life, history
  <2>8. InHand'
    BY <1>1, <2>2, <2>6, <2>7 DEF InHand
  <2>9. NoResultYet'
    <3>1. call[c].result = "none"
      BY <1>1, <2>7 DEF NoResultYet
    <3> QED
      BY <1>1, <2>6, <2>7, <3>1 DEF NoResultYet
  <2>10. BusyWhileDelivering' /\ Locks'
    BY <1>1, <1>3, <2>3 DEF EnqueueAction, BusyWhileDelivering, Locks, work, life
  <2> QED
    BY <1>1, <2>5, <2>7, <2>8, <2>9, <2>10 DEF IInv, SyncMeansHandled
<1>4. ASSUME NEW c \in Clients, SyncActions(c)
      PROVE  IInv'
  <2>1. /\ client' = [client EXCEPT ![c] = "idle"]
        /\ call' = [call EXCEPT ![c].result = IF eptr THEN "throws"
                                              ELSE IF shutdown THEN "shut_down"
                                              ELSE "returns",
                                ![c].failures = failed \ reported]
        /\ client[c] = "sync" /\ ExitCondition
        /\ reported' = IF eptr THEN failed ELSE reported
    BY <1>4 DEF SyncActions
  <2>2. UNCHANGED <<queue, work, life, release_count, graph_mutex, handler, handled,
                    failed, dropped, nposts, nreleases>>
    BY <1>4 DEF SyncActions
  <2>3. /\ client' \in [Clients -> {"idle", "enqueue", "sync"}]
        /\ reported' \subseteq Nat
    BY <1>1, <2>1 DEF TypeOK
  <2>4. call' \in [Clients -> [id : Nat, kind : AllKinds, mode : {"SYNC", "ASYNC"},
                               failures : SUBSET Nat,
                               result : {"none", "throws", "shut_down", "returns"}]]
    <3>1. PICK res \in {"none", "throws", "shut_down", "returns"}, f \in SUBSET Nat :
            call' = [call EXCEPT ![c].result = res, ![c].failures = f]
      <4>1. failed \ reported \in SUBSET Nat
        BY <1>1 DEF TypeOK
      <4>2. CASE eptr
        BY <2>1, <4>1, <4>2
      <4>3. CASE ~eptr /\ shutdown
        BY <2>1, <4>1, <4>3
      <4>4. CASE ~eptr /\ ~shutdown
        BY <2>1, <4>1, <4>4
      <4> QED
        BY <4>2, <4>3, <4>4
    <3>2. call[c] \in [id : Nat, kind : AllKinds, mode : {"SYNC", "ASYNC"},
                       failures : SUBSET Nat,
                       result : {"none", "throws", "shut_down", "returns"}]
      BY <1>1 DEF TypeOK
    <3> DEFINE r == [[call[c] EXCEPT !.result = res] EXCEPT !.failures = f]
    <3>3. call' = [call EXCEPT ![c] = r]
      BY <1>1, <3>1 DEF TypeOK
    <3>4. r \in [id : Nat, kind : AllKinds, mode : {"SYNC", "ASYNC"},
                 failures : SUBSET Nat,
                 result : {"none", "throws", "shut_down", "returns"}]
      BY <3>2
    <3> HIDE DEF r
    <3> QED
      BY <1>1, <3>3, <3>4 DEF TypeOK
  <2>5. TypeOK'
    BY <1>1, <2>2, <2>3, <2>4 DEF TypeOK, work, life
  <2>6. \A d \in Clients : d # c => client'[d] = client[d] /\ call'[d] = call[d]
    BY <1>1, <2>1 DEF TypeOK
  <2>7. client'[c] = "idle" /\ call'[c].id = call[c].id
    BY <1>1, <2>1 DEF TypeOK
  <2>8. ~shutdown => call[c].id \in handled \cup dropped
    <3> SUFFICES ASSUME ~shutdown PROVE call[c].id \in handled \cup dropped
      OBVIOUS
    <3>1. queue = <<>> /\ ~processing
      BY <2>1 DEF ExitCondition
    <3>2. current = <<>>
      BY <1>1, <3>1 DEF BusyWhileDelivering, Locks
    <3> QED
      BY <1>1, <2>1, <3>1, <3>2, IdsEmpty DEF InHand
  <2>9. SyncMeansHandled'
    BY <1>1, <2>2, <2>6, <2>7, <2>8 DEF SyncMeansHandled, life
  <2>10. InHand' /\ NoResultYet'
    BY <1>1, <2>2, <2>6, <2>7 DEF InHand, NoResultYet, life, work
  <2> QED
    BY <1>1, <2>2, <2>5, <2>9, <2>10 DEF IInv, BusyWhileDelivering, Locks, life, work
<1>5. CASE Commit
  BY <1>1, <1>5 DEF Commit, IInv, TypeOK, BusyWhileDelivering, Locks, InHand,
     NoResultYet, SyncMeansHandled, work, life, clients, history
<1>6. CASE Release
  BY <1>1, <1>6 DEF Release, IInv, TypeOK, BusyWhileDelivering, Locks, InHand,
     NoResultYet, SyncMeansHandled, work, life, clients, history
<1> QED
  BY <1>2, <1>3, <1>4, <1>5, <1>6 DEF ClientStep

\* Steps that leave the clients, the queue and the history alone keep what
\* is known of the calls.
LEMMA CallsKept ==
    ASSUME IInv, UNCHANGED <<queue, current, clients, handled, dropped>>,
           shutdown => shutdown'
    PROVE  InHand' /\ NoResultYet' /\ SyncMeansHandled'
BY DEF IInv, InHand, NoResultYet, SyncMeansHandled, clients

\* Steps of the handler thread keep the invariant.
LEMMA HandlerKeeps ==
    ASSUME IInv, HandlerStep
    PROVE  IInv'
<1>1. TypeOK /\ BusyWhileDelivering /\ Locks /\ InHand /\ NoResultYet /\ SyncMeansHandled
  BY DEF IInv
<1>2. CASE HandlerCheck \/ HandlerSleep \/ HandlerEnd
  <2>1. UNCHANGED <<queue, current, clients, handled, dropped>> /\ shutdown' = shutdown
    BY <1>2 DEF HandlerCheck, HandlerSleep, HandlerEnd, work, history, life
  <2>2. InHand' /\ NoResultYet' /\ SyncMeansHandled'
    BY <2>1, CallsKept
  <2>3. TypeOK' /\ BusyWhileDelivering' /\ Locks'
    BY <1>1, <1>2 DEF HandlerCheck, HandlerSleep, HandlerEnd, TypeOK,
       BusyWhileDelivering, Locks, work, life, clients, history
  <2> QED
    BY <2>2, <2>3 DEF IInv
<1>3. CASE HandlerStart
  <2>1. InHand' /\ NoResultYet' /\ SyncMeansHandled'
    BY <1>3, CallsKept DEF HandlerStart, history, life
  <2>2. iterations' \in 0..Limit
    BY <1>3, GraphAssumption DEF HandlerStart
  <2>3. TypeOK' /\ BusyWhileDelivering' /\ Locks'
    BY <1>1, <1>3, <2>2 DEF HandlerStart, StartProcessing, TypeOK,
       BusyWhileDelivering, Locks, life, clients, history
  <2> QED
    BY <2>1, <2>3 DEF IInv
<1>4. CASE HandlerDone
  <2>1. InHand' /\ NoResultYet' /\ SyncMeansHandled'
    BY <1>4, CallsKept DEF HandlerDone, history, life
  <2>2. TypeOK' /\ BusyWhileDelivering' /\ Locks'
    BY <1>1, <1>4 DEF HandlerDone, KeepException, TypeOK,
       BusyWhileDelivering, Locks, life, clients, history
  <2> QED
    BY <2>1, <2>2 DEF IInv
<1>5. CASE HandlerLeave
  <2>1. Ids(queue) \subseteq Nat
    <3>1. queue \in Seq(Action) /\ Ids(queue) = {queue[i].id : i \in DOMAIN queue}
      BY <1>1, IdsMember DEF TypeOK
    <3>2. ASSUME NEW i \in DOMAIN queue
          PROVE  queue[i].id \in Nat
      <4>1. queue[i] \in Action
        BY <3>1
      <4> QED
        BY <4>1 DEF Action
    <3> QED
      BY <3>1, <3>2
  <2>2. queue' \in Seq(Action) /\ dropped' \subseteq Nat
    <3>1. <<>> \in Seq(Action)
      OBVIOUS
    <3>2. CASE shutdown
      BY <1>1, <1>5, <3>2 DEF HandlerLeave, TypeOK
    <3>3. CASE ~shutdown
      <4>1. queue' = <<>> /\ dropped' = dropped \cup Ids(queue)
        BY <1>5, <3>3 DEF HandlerLeave
      <4> QED
        BY <1>1, <2>1, <3>1, <4>1 DEF TypeOK
    <3> QED
      BY <3>2, <3>3
  <2>3. TypeOK'
    BY <1>1, <1>5, <2>2 DEF HandlerLeave, TypeOK, work, life, clients
  <2>4. BusyWhileDelivering' /\ Locks'
    BY <1>1, <1>5 DEF HandlerLeave, BusyWhileDelivering, Locks, work, life
  <2>5. InHand' /\ NoResultYet' /\ SyncMeansHandled'
    BY <1>1, <1>5 DEF HandlerLeave, InHand, NoResultYet, SyncMeansHandled, work, life,
       clients
  <2> QED
    BY <2>3, <2>4, <2>5 DEF IInv
<1>6. CASE HandlerPop
  <2>1. /\ Head(queue) \in Action /\ queue' \in Seq(Action)
        /\ Ids(queue) = {Head(queue).id} \cup Ids(queue')
    BY <1>1, <1>6, IdsHeadTail DEF HandlerPop, TypeOK
  <2>2. current = <<>>
    BY <1>1, <1>6 DEF HandlerPop, Locks
  <2>3. iterations' \in 0..Limit
    BY <1>1, <1>6, GraphAssumption DEF HandlerPop, LimitReached, TypeOK
  <2>4. CASE release_count # 0
    <3>1. handled' = handled \cup {Head(queue).id} /\ handler' = handler /\ current' = current
      BY <1>6, <2>4 DEF HandlerPop
    <3>2. handled' \subseteq Nat
      BY <1>1, <2>1, <3>1 DEF TypeOK, Action
    <3>3. TypeOK' /\ BusyWhileDelivering' /\ Locks'
      BY <1>1, <1>6, <2>1, <2>3, <3>1, <3>2 DEF HandlerPop, TypeOK,
         BusyWhileDelivering, Locks, life, clients
    <3>4. InHand' /\ NoResultYet' /\ SyncMeansHandled'
      BY <1>1, <1>6, <2>1, <3>1 DEF HandlerPop, InHand, NoResultYet,
         SyncMeansHandled, life, clients
    <3> QED
      BY <3>3, <3>4 DEF IInv
  <2>5. CASE release_count = 0
    <3>1. handled' = handled /\ handler' = "deliver" /\ current' = <<Head(queue)>>
      BY <1>6, <2>5 DEF HandlerPop
    <3>2. current' \in Seq(Action) /\ Len(current') = 1 /\ Head(queue).id \in Ids(current')
      <4>1. <<Head(queue)>> = Append(<<>>, Head(queue)) /\ <<>> \in Seq(Action)
        OBVIOUS
      <4>2. Ids(current') = Ids(<<>>) \cup {Head(queue).id}
        BY <2>1, <3>1, <4>1, IdsAppend
      <4> QED
        BY <2>1, <3>1, <4>2
    <3>3. TypeOK' /\ BusyWhileDelivering' /\ Locks'
      BY <1>1, <1>6, <2>1, <2>3, <3>1, <3>2 DEF HandlerPop, TypeOK,
         BusyWhileDelivering, Locks, life, clients
    <3>4. InHand' /\ NoResultYet' /\ SyncMeansHandled'
      BY <1>1, <1>6, <2>1, <2>2, <3>1, <3>2, IdsEmpty DEF HandlerPop, InHand,
         NoResultYet, SyncMeansHandled, life, clients
    <3> QED
      BY <3>3, <3>4 DEF IInv
  <2> QED
    BY <2>4, <2>5
<1>7. ASSUME handler = "deliver"
      PROVE  current[1] \in Action /\ Ids(current) = {current[1].id}
  <2>1. current \in Seq(Action) /\ Len(current) = 1 /\ DOMAIN current = {1}
    BY <1>1, <1>7, LenProperties DEF TypeOK, Locks
  <2> QED
    BY <2>1, IdsMember
<1>8. <<>> \in Seq(Action)
  OBVIOUS
<1>9. CASE Deliver
  <2>1. current[1] \in Action /\ Ids(current) = {current[1].id} /\ current' = <<>>
    BY <1>7, <1>9 DEF Deliver
  <2>2. handled' = handled \cup {current[1].id} /\ handled' \subseteq Nat
    BY <1>1, <1>9, <2>1 DEF Deliver, TypeOK, Action
  <2>3. TypeOK' /\ BusyWhileDelivering' /\ Locks'
    BY <1>1, <1>8, <1>9, <2>2 DEF Deliver, TypeOK, BusyWhileDelivering, Locks, life,
       clients
  <2>4. InHand' /\ NoResultYet' /\ SyncMeansHandled'
    BY <1>1, <1>9, <2>1, <2>2, IdsEmpty DEF Deliver, InHand, NoResultYet,
       SyncMeansHandled, life, clients
  <2> QED
    BY <2>3, <2>4 DEF IInv
<1>10. CASE DeliverPosts
  <2> DEFINE a == [id |-> current[1].id,
                   kind |-> IF current[1].kind = "cycle" THEN "cycle" ELSE "plain"]
  <2>1. current[1] \in Action /\ Ids(current) = {current[1].id} /\ current' = <<>>
    BY <1>7, <1>10 DEF DeliverPosts
  <2>2. a \in Action /\ a.id = current[1].id
    BY <2>1 DEF Action, AllKinds
  <2>3. queue' = Append(queue, a)
    BY <1>10 DEF DeliverPosts
  <2> HIDE DEF a
  <2>4. queue' \in Seq(Action) /\ Ids(queue') = Ids(queue) \cup {current[1].id}
    BY <1>1, <2>2, <2>3, IdsAppend DEF TypeOK
  <2>5. TypeOK' /\ BusyWhileDelivering' /\ Locks'
    BY <1>1, <1>8, <1>10, <2>4 DEF DeliverPosts, TypeOK, BusyWhileDelivering, Locks,
       life, clients, history
  <2>6. InHand' /\ NoResultYet' /\ SyncMeansHandled'
    BY <1>1, <1>10, <2>1, <2>4, IdsEmpty DEF DeliverPosts, InHand, NoResultYet,
       SyncMeansHandled, life, clients, history
  <2> QED
    BY <2>5, <2>6 DEF IInv
<1>11. CASE DeliverNothing
  <2>1. TypeOK' /\ BusyWhileDelivering' /\ Locks'
    BY <1>1, <1>8, <1>11 DEF DeliverNothing, TypeOK, BusyWhileDelivering, Locks, life,
       clients, history
  <2>2. InHand' /\ NoResultYet' /\ SyncMeansHandled'
    BY <1>1, <1>11 DEF DeliverNothing, InHand, NoResultYet, SyncMeansHandled, life,
       clients, history
  <2> QED
    BY <2>1, <2>2 DEF IInv
<1>12. CASE DeliverThrows
  <2>1. current[1] \in Action /\ Ids(current) = {current[1].id} /\ current' = <<>>
    BY <1>7, <1>12 DEF DeliverThrows
  <2>2. /\ handled' = handled \cup {current[1].id} /\ handled' \subseteq Nat
        /\ failed' \subseteq Nat
    BY <1>1, <1>12, <2>1 DEF DeliverThrows, TypeOK, Action
  <2>3. TypeOK' /\ BusyWhileDelivering' /\ Locks'
    BY <1>1, <1>8, <1>12, <2>2 DEF DeliverThrows, TypeOK, BusyWhileDelivering, Locks,
       life, clients
  <2>4. InHand' /\ NoResultYet' /\ SyncMeansHandled'
    BY <1>1, <1>12, <2>1, <2>2, IdsEmpty DEF DeliverThrows, InHand, NoResultYet,
       SyncMeansHandled, life, clients
  <2> QED
    BY <2>3, <2>4 DEF IInv
<1> QED
  BY <1>2, <1>3, <1>4, <1>5, <1>6, <1>9, <1>10, <1>11, <1>12 DEF HandlerStep

\* Steps of the owner keep the invariant.
LEMMA OwnerKeeps ==
    ASSUME IInv, OwnerStep
    PROVE  IInv'
<1>1. TypeOK /\ BusyWhileDelivering /\ Locks
  BY DEF IInv
<1>2. InHand' /\ NoResultYet' /\ SyncMeansHandled'
  <2>1. UNCHANGED <<queue, current, clients, handled, dropped>> /\ (shutdown => shutdown')
    BY DEF OwnerStep, Shutdown, ShutdownNotify, Destroy, DestroyNotify, Join, work,
       history
  <2> QED
    BY <2>1, CallsKept
<1>3. TypeOK'
  <2>1. CASE Shutdown
    BY <1>1, <2>1 DEF Shutdown, TypeOK, work, clients, history
  <2>2. Wakened \in {"check", "before_sleep", "sleeping", "lock_graph", "next",
                     "deliver", "leave", "ended"}
    BY <1>1 DEF TypeOK, Wakened
  <2>3. CASE ShutdownNotify
    BY <1>1, <2>2, <2>3 DEF ShutdownNotify, TypeOK, work, clients, history
  <2>4. CASE Destroy
    BY <1>1, <2>4 DEF Destroy, TypeOK, work, clients, history
  <2>5. CASE DestroyNotify
    BY <1>1, <2>2, <2>5 DEF DestroyNotify, TypeOK, work, clients, history
  <2>6. CASE Join
    BY <1>1, <2>6 DEF Join, TypeOK, work, clients, history
  <2> QED
    BY <2>1, <2>3, <2>4, <2>5, <2>6 DEF OwnerStep
<1>4. BusyWhileDelivering' /\ Locks'
  BY <1>1 DEF OwnerStep, Shutdown, ShutdownNotify, Destroy, DestroyNotify, Join,
     BusyWhileDelivering, Locks, Wakened, work
<1> QED
  BY <1>2, <1>3, <1>4 DEF IInv

-----------------------------------------------------------------------------
LEMMA InitEstablishes == Init => IInv
<1> SUFFICES ASSUME Init PROVE IInv
  OBVIOUS
<1>1. NoCall \in [id : Nat, kind : AllKinds, mode : {"SYNC", "ASYNC"},
                  failures : SUBSET Nat,
                  result : {"none", "throws", "shut_down", "returns"}]
  BY DEF NoCall, AllKinds
<1>2. iterations \in 0..Limit /\ release_count \in Int
  BY GraphAssumption DEF Init
<1>3. TypeOK
  <2>1. <<>> \in Seq(Action)
    OBVIOUS
  <2>2. /\ client \in [Clients -> {"idle", "enqueue", "sync"}]
        /\ call \in [Clients -> [id : Nat, kind : AllKinds, mode : {"SYNC", "ASYNC"},
                                 failures : SUBSET Nat,
                                 result : {"none", "throws", "shut_down", "returns"}]]
    BY <1>1 DEF Init
  <2> QED
    BY <1>2, <2>1, <2>2 DEF Init, TypeOK
<1>4. BusyWhileDelivering /\ Locks /\ InHand /\ NoResultYet /\ SyncMeansHandled
  BY DEF Init, BusyWhileDelivering, Locks, InHand, NoResultYet, SyncMeansHandled, NoCall
<1> QED
  BY <1>3, <1>4 DEF IInv

LEMMA NextKeeps == IInv /\ [Next]_vars => IInv'
<1> SUFFICES ASSUME IInv, [Next]_vars PROVE IInv'
  OBVIOUS
<1>1. CASE UNCHANGED vars
  BY <1>1 DEF vars, work, life, clients, history, IInv, TypeOK, BusyWhileDelivering,
     Locks, InHand, NoResultYet, SyncMeansHandled
<1>2. CASE Next
  BY <1>2, ClientKeeps, HandlerKeeps, OwnerKeeps DEF Next
<1> QED
  BY <1>1, <1>2

\* The handler thread delivers only while it owns the graph's mutex and while
\* synchronous callers see it busy, in every reachable state.
THEOREM HandlerExclusive == Spec => []BusyWhileDelivering
<1>1. IInv => BusyWhileDelivering
  BY DEF IInv
<1> QED
  BY <1>1, InitEstablishes, NextKeeps, PTL DEF Spec

\* What sync_actions promises: when a synchronous call has returned and the
\* graph is not shut down, its action and all that it caused were handled or
\* dropped at the recursion limit, whatever other threads post meanwhile.
THEOREM SyncCallsHandled == Spec => []SyncMeansHandled
<1>1. IInv => SyncMeansHandled
  BY DEF IInv
<1> QED
  BY <1>1, InitEstablishes, NextKeeps, PTL DEF Spec
-----------------------------------------------------------------------------
(* Failures *)

\* The exception of a failure is kept, as long as the graph exists.
FailuresKept == failed # {} => eptr

\* Each call has a number of its own.
Numbered ==
    \A c \in Clients :
        /\ call[c].id <= nposts
        /\ client[c] # "idle" => call[c].id > 0
        /\ \A d \in Clients \ {c} : call[c].id > 0 => call[d].id # call[c].id

\* When a call has returned nothing is left to do for its action.
ReturnedIsDone ==
    \A c \in Clients :
        call[c].result = "returns" => call[c].id \notin Ids(queue) \cup Ids(current)

FInv == FailuresKept /\ Numbered /\ ReturnedIsDone /\ FailureReported

\* Steps that are not a client's make no work for other actions, and only the
\* action that is delivered fails.
LEMMA OthersKeepFailures ==
    ASSUME FInv, UNCHANGED <<clients, nposts>>,
           Ids(queue') \cup Ids(current') \subseteq Ids(queue) \cup Ids(current),
           \/ failed' = failed /\ (eptr => eptr')
           \/ failed' \subseteq failed \cup Ids(current) /\ eptr'
    PROVE  FInv'
BY DEF FInv, FailuresKept, Numbered, ReturnedIsDone, FailureReported, clients

\* Steps of the handler thread.
LEMMA HandlerKeepsFailures ==
    ASSUME IInv, FInv, HandlerStep
    PROVE  FInv'
<1>1. TypeOK /\ Locks
  BY DEF IInv
<1>2. CASE HandlerCheck \/ HandlerSleep \/ HandlerEnd \/ HandlerStart \/ HandlerDone
  BY <1>2, OthersKeepFailures DEF HandlerCheck, HandlerSleep, HandlerEnd, HandlerStart,
     HandlerDone, KeepException, work, history
<1>3. CASE HandlerLeave
  BY <1>3, OthersKeepFailures, IdsEmpty DEF HandlerLeave, work
<1>4. CASE HandlerPop
  <2>1. /\ Head(queue) \in Action /\ Ids(queue) = {Head(queue).id} \cup Ids(queue')
    BY <1>1, <1>4, IdsHeadTail DEF HandlerPop, TypeOK
  <2>2. current' = current \/ Ids(current') = {Head(queue).id}
    <3>1. <<Head(queue)>> = Append(<<>>, Head(queue)) /\ <<>> \in Seq(Action)
      OBVIOUS
    <3>2. Ids(<<Head(queue)>>) = {Head(queue).id}
      BY <2>1, <3>1, IdsAppend, IdsEmpty
    <3> QED
      BY <1>4, <3>2 DEF HandlerPop
  <2> QED
    BY <1>4, <2>1, <2>2, OthersKeepFailures DEF HandlerPop
<1>5. ASSUME handler = "deliver"
      PROVE  current[1] \in Action /\ Ids(current) = {current[1].id}
  <2>1. current \in Seq(Action) /\ Len(current) = 1 /\ DOMAIN current = {1}
    BY <1>1, <1>5, LenProperties DEF TypeOK, Locks
  <2> QED
    BY <2>1, IdsMember
<1>6. CASE Deliver \/ DeliverNothing
  BY <1>6, OthersKeepFailures, IdsEmpty DEF Deliver, DeliverNothing, history
<1>7. CASE DeliverPosts
  <2> DEFINE a == [id |-> current[1].id,
                   kind |-> IF current[1].kind = "cycle" THEN "cycle" ELSE "plain"]
  <2>1. current[1] \in Action /\ Ids(current) = {current[1].id} /\ current' = <<>>
    BY <1>5, <1>7 DEF DeliverPosts
  <2>2. a \in Action /\ a.id = current[1].id
    BY <2>1 DEF Action, AllKinds
  <2>3. queue' = Append(queue, a)
    BY <1>7 DEF DeliverPosts
  <2> HIDE DEF a
  <2>4. Ids(queue') = Ids(queue) \cup {current[1].id}
    BY <1>1, <2>2, <2>3, IdsAppend DEF TypeOK
  <2> QED
    BY <1>7, <2>1, <2>4, OthersKeepFailures, IdsEmpty DEF DeliverPosts, history
<1>8. CASE DeliverThrows
  <2>1. Ids(current) = {current[1].id} /\ current' = <<>>
    BY <1>5, <1>8 DEF DeliverThrows
  <2> QED
    BY <1>8, <2>1, OthersKeepFailures, IdsEmpty DEF DeliverThrows
<1> QED
  BY <1>2, <1>3, <1>4, <1>6, <1>7, <1>8 DEF HandlerStep

\* Steps of a client: a new call has a new number, and a call returns without
\* an exception only if nothing has failed and nothing is left to do.
LEMMA ClientKeepsFailures ==
    ASSUME IInv, FInv, ClientStep
    PROVE  FInv'
<1>1. TypeOK /\ BusyWhileDelivering /\ Locks /\ NoResultYet
  BY DEF IInv
<1>2. ASSUME NEW c \in Clients, PostAction(c)
      PROVE  FInv'
  <2>1. /\ call'[c].id = nposts + 1 /\ call'[c].result = "none"
        /\ client'[c] = "enqueue" /\ nposts' = nposts + 1 /\ nposts \in Nat
    BY <1>1, <1>2 DEF PostAction, TypeOK
  <2>2. \A d \in Clients \ {c} : client'[d] = client[d] /\ call'[d] = call[d]
    BY <1>1, <1>2 DEF PostAction, TypeOK
  <2>3. \A d \in Clients : call[d].id \in Nat
    BY <1>1 DEF TypeOK
  <2>4. Numbered'
    BY <2>1, <2>2, <2>3 DEF FInv, Numbered
  <2>5. UNCHANGED <<queue, current, failed, eptr>>
    BY <1>2 DEF PostAction, work, history
  <2>6. ReturnedIsDone' /\ FailureReported' /\ FailuresKept'
    BY <2>1, <2>2, <2>5 DEF FInv, ReturnedIsDone, FailureReported, FailuresKept
  <2> QED
    BY <2>4, <2>6 DEF FInv
<1>3. ASSUME NEW c \in Clients, EnqueueAction(c)
      PROVE  FInv'
  <2> DEFINE a == [id |-> call[c].id, kind |-> call[c].kind]
  <2>1. a \in Action /\ queue \in Seq(Action)
    BY <1>1 DEF TypeOK, Action
  <2>2. Ids(queue') = Ids(queue) \cup {call[c].id}
    BY <1>3, <2>1, IdsAppend DEF EnqueueAction
  <2>3. client[c] = "enqueue" /\ UNCHANGED <<call, current, failed, eptr, nposts>>
        /\ \A d \in Clients : client'[d] # "idle" => client[d] # "idle"
    BY <1>1, <1>3 DEF EnqueueAction, TypeOK, work, history
  <2>4. call[c].id > 0 /\ call[c].result = "none"
    BY <1>1, <2>3 DEF FInv, Numbered, NoResultYet
  <2>5. ReturnedIsDone'
    BY <2>2, <2>3, <2>4 DEF FInv, ReturnedIsDone, Numbered
  <2> QED
    BY <2>3, <2>5 DEF FInv, Numbered, FailureReported, FailuresKept
<1>4. ASSUME NEW c \in Clients, SyncActions(c)
      PROVE  FInv'
  <2>1. /\ ExitCondition /\ client'[c] = "idle"
        /\ call'[c].id = call[c].id
        /\ call'[c].result = IF eptr THEN "throws" ELSE IF shutdown THEN "shut_down"
                             ELSE "returns"
    BY <1>1, <1>4 DEF SyncActions, TypeOK
  <2>2. \A d \in Clients \ {c} : client'[d] = client[d] /\ call'[d] = call[d]
    BY <1>1, <1>4 DEF SyncActions, TypeOK
  <2>3. UNCHANGED <<queue, current, failed, eptr, nposts>>
    BY <1>4 DEF SyncActions, work
  <2>4. Numbered'
    BY <2>1, <2>2, <2>3 DEF FInv, Numbered
  <2>5. call'[c].result = "returns"
            => queue = <<>> /\ current = <<>> /\ failed = {}
    BY <1>1, <2>1 DEF ExitCondition, BusyWhileDelivering, Locks, FInv, FailuresKept
  <2>6. ReturnedIsDone' /\ FailureReported' /\ FailuresKept'
    BY <2>2, <2>3, <2>5, IdsEmpty DEF FInv, ReturnedIsDone, FailureReported, FailuresKept
  <2> QED
    BY <2>4, <2>6 DEF FInv
<1>5. CASE Commit \/ Release
  BY <1>5, OthersKeepFailures DEF Commit, Release, work, history
<1> QED
  BY <1>2, <1>3, <1>4, <1>5 DEF ClientStep

\* In every reachable state variables have their types.
THEOREM TypeCorrect == Spec => []TypeOK
<1>1. IInv => TypeOK
  BY DEF IInv
<1> QED
  BY <1>1, InitEstablishes, NextKeeps, PTL DEF Spec

\* No failure is lost: no synchronous call returns normally if the handling of
\* its action threw, or throws later, whichever thread the exception reaches
\* first (sync_actions, _process_action_queue).
THEOREM FailuresReported == Spec => []FailureReported
<1>1. Init => IInv /\ FInv
  <2>1. Init => FInv
    BY IdsEmpty DEF Init, NoCall, FInv, FailuresKept, Numbered, ReturnedIsDone,
       FailureReported
  <2> QED
    BY <2>1, InitEstablishes
<1>2. IInv /\ FInv /\ [Next]_vars => IInv' /\ FInv'
  <2> SUFFICES ASSUME IInv, FInv, [Next]_vars PROVE FInv'
    BY NextKeeps
  <2>1. CASE OwnerStep
    BY <2>1, OthersKeepFailures DEF OwnerStep, Shutdown, ShutdownNotify, Destroy,
       DestroyNotify, Join, work, history
  <2>2. CASE UNCHANGED vars
    BY <2>2, OthersKeepFailures DEF vars, work, history
  <2> QED
    BY <2>1, <2>2, ClientKeepsFailures, HandlerKeepsFailures DEF Next
<1>3. FInv => FailureReported
  BY DEF FInv
<1> QED
  BY <1>1, <1>2, <1>3, PTL DEF Spec
================================================================================

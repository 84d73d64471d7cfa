----------------------------- MODULE GraphActions -----------------------------
(***************************************************************************)
(* The action handling of an RFNoC graph (graph.cpp).                      *)
(*                                                                         *)
(* Any thread posts actions (enqueue_action); one handler thread takes     *)
(* them from a queue and delivers them to nodes, which may post further    *)
(* actions or throw.  A synchronous call waits until the queue is empty    *)
(* and nothing is handled.  _action_queue_mutex guards the queue; the      *)
(* handler holds _graph_mutex while it works, so commit, release and       *)
(* shutdown wait for it.                                                   *)
(*                                                                         *)
(* A step is atomic when it holds _action_queue_mutex and does not block.  *)
(* The wait of the handler is split where its predicate has been evaluated *)
(* and the thread does not sleep yet: it still owns _action_queue_mutex,   *)
(* which shutdown() and the destructor do not take before they notify.     *)
(***************************************************************************)
EXTENDS Integers, Sequences, SequencesExt

CONSTANTS
    Clients,    \* threads that call post_action
    Kinds,      \* what the actions of the clients do, a subset of AllKinds
    Limit,      \* MAX_ACTION_ITERATIONS
    MaxPosts,   \* bound: calls of post_action
    MaxRelease  \* bound: calls of release

\* A node handles the action; throws; posts one further action; or posts the
\* same action again, for ever.
AllKinds == {"plain", "throw", "forward", "cycle"}

ASSUME GraphAssumption ==
    /\ Kinds \subseteq AllKinds
    /\ Limit \in Nat \ {0}
    /\ {MaxPosts, MaxRelease} \subseteq Nat

VARIABLES
    queue,         \* _action_queue
    processing,    \* _action_processing
    eptr,          \* _action_eptr is set
    shutdown,      \* _shutdown
    release_count, \* _release_count; -1 stands for the largest size_t
    graph_mutex,   \* the owner of _graph_mutex
    handler,       \* where the handler thread is
    current,       \* the action being delivered, as a sequence
    iterations,    \* iteration_count
    owner,         \* what the owner of the graph does: shuts it down, destroys it
    client,        \* where each client is
    call,          \* the action, the mode and what is known of a client's call
    handled,       \* actions whose consequences have all been handled
    failed,        \* actions whose handling threw
    reported,      \* failures that a synchronous call has thrown
    dropped,       \* actions dropped at the recursion limit
    nposts, nreleases  \* counters for the bounds

life == <<shutdown, owner>>
work == <<processing, eptr, current, iterations>>
history == <<handled, failed, reported, dropped>>
clients == <<client, call>>
vars == <<queue, work, life, release_count, graph_mutex, handler, clients,
          history, nposts, nreleases>>

Action == [id : Nat, kind : AllKinds]

\* notify_all wakes the handler if it sleeps.
Wakened_Lost == handler
Wakened == IF handler = "sleeping" THEN "check" ELSE handler

\* The handler owns _action_queue_mutex until it sleeps.
QueueMutexFree == handler # "before_sleep"

-----------------------------------------------------------------------------
(* Threads that post actions *)

\* enqueue_action: the shutdown flag is read before the queue is locked.
PostAction(c) ==
    /\ client[c] = "idle" /\ ~shutdown
    /\ nposts < MaxPosts
    /\ \E kind \in Kinds, mode \in {"SYNC", "ASYNC"} :
        call' = [call EXCEPT ![c] =
                    [id |-> nposts + 1, kind |-> kind, mode |-> mode,
                     failures |-> {}, result |-> "none"]]
    /\ client' = [client EXCEPT ![c] = "enqueue"]
    /\ nposts' = nposts + 1
    /\ UNCHANGED <<queue, work, life, release_count, graph_mutex, handler,
                   history, nreleases>>

EnqueueAction(c) ==
    /\ client[c] = "enqueue" /\ QueueMutexFree
    /\ queue' = Append(queue, [id |-> call[c].id, kind |-> call[c].kind])
    /\ handler' = Wakened
    /\ client' = [client EXCEPT ![c] = IF call[c].mode = "SYNC" THEN "sync" ELSE "idle"]
    /\ UNCHANGED <<work, life, release_count, graph_mutex, call, history, nposts,
                   nreleases>>

\* sync_actions: the condition is polled, so no wake-up is needed.
ExitCondition_QueueOnly == queue = <<>> \/ shutdown
ExitCondition == (queue = <<>> /\ ~processing) \/ shutdown

SyncActions(c) ==
    /\ client[c] = "sync" /\ QueueMutexFree
    /\ ExitCondition
    /\ call' = [call EXCEPT ![c].result = IF eptr THEN "throws"
                                          ELSE IF shutdown THEN "shut_down"
                                          ELSE "returns",
                            ![c].failures = failed \ reported]
    /\ reported' = IF eptr THEN failed ELSE reported
    /\ client' = [client EXCEPT ![c] = "idle"]
    /\ UNCHANGED <<queue, work, life, release_count, graph_mutex, handler, handled,
                   failed, dropped, nposts, nreleases>>

\* From the largest value the count is never brought back to zero.
Commit ==
    /\ graph_mutex = "free" /\ owner \in {"running", "shut_down"}
    /\ release_count > 0
    /\ release_count' = release_count - 1
    /\ UNCHANGED <<queue, work, life, graph_mutex, handler, clients, history,
                   nposts, nreleases>>

Release ==
    /\ graph_mutex = "free" /\ owner \in {"running", "shut_down"}
    /\ nreleases < MaxRelease
    /\ release_count' = release_count + 1
    /\ nreleases' = nreleases + 1
    /\ UNCHANGED <<queue, work, life, graph_mutex, handler, clients, history, nposts>>

-----------------------------------------------------------------------------
(* The handler thread: _action_handler, _process_action_queue *)

\* The predicate of the wait.
HandlerCheck ==
    /\ handler = "check"
    /\ handler' = IF queue # <<>> \/ shutdown THEN "lock_graph" ELSE "before_sleep"
    /\ UNCHANGED <<queue, work, life, release_count, graph_mutex, clients, history,
                   nposts, nreleases>>

HandlerSleep ==
    /\ handler = "before_sleep"
    /\ handler' = "sleeping"
    /\ UNCHANGED <<queue, work, life, release_count, graph_mutex, clients, history,
                   nposts, nreleases>>

StartProcessing_Forgotten == processing
StartProcessing == TRUE

HandlerStart ==
    /\ handler = "lock_graph" /\ graph_mutex = "free" /\ ~shutdown
    /\ graph_mutex' = "handler"
    /\ processing' = StartProcessing
    /\ iterations' = 0
    /\ handler' = "next"
    /\ UNCHANGED <<queue, eptr, current, life, release_count, clients, history, nposts,
                   nreleases>>

HandlerEnd ==
    /\ handler = "lock_graph" /\ graph_mutex = "free" /\ shutdown
    /\ handler' = "ended"
    /\ UNCHANGED <<queue, work, life, release_count, graph_mutex, clients, history,
                   nposts, nreleases>>

LimitReached_OneLate == iterations = Limit + 1
LimitReached == iterations = Limit

Ids(actions) == {a.id : a \in ToSet(actions)}

\* The loop ends: the queue is empty, the graph was shut down, or the limit
\* is reached and all that is queued is dropped.
HandlerLeave ==
    /\ handler = "next"
    /\ queue = <<>> \/ shutdown \/ LimitReached
    /\ queue' = IF shutdown THEN queue ELSE <<>>
    /\ dropped' = IF shutdown THEN dropped ELSE dropped \cup Ids(queue)
    /\ handler' = "leave"
    /\ UNCHANGED <<work, life, release_count, graph_mutex, clients, handled, failed,
                   reported, nposts, nreleases>>

\* An action is taken; unless the graph is committed it is not delivered.
HandlerPop ==
    /\ handler = "next"
    /\ queue # <<>> /\ ~shutdown /\ ~LimitReached
    /\ queue' = Tail(queue)
    /\ iterations' = iterations + 1
    /\ \/ /\ release_count # 0
          /\ handled' = handled \cup {Head(queue).id}
          /\ UNCHANGED <<handler, current>>
       \/ /\ release_count = 0
          /\ handler' = "deliver"
          /\ current' = <<Head(queue)>>
          /\ UNCHANGED handled
    /\ UNCHANGED <<processing, eptr, life, release_count, graph_mutex, clients, failed,
                   reported, dropped, nposts, nreleases>>

\* _process_action: the node handles the action,
Deliver ==
    /\ handler = "deliver" /\ ~shutdown
    /\ current[1].kind = "plain"
    /\ handled' = handled \cup {current[1].id}
    /\ current' = <<>>
    /\ handler' = "next"
    /\ UNCHANGED <<queue, processing, eptr, iterations, life, release_count,
                   graph_mutex, clients, failed, reported, dropped, nposts,
                   nreleases>>

\* or posts another one, which the handler thread does not wait for,
DeliverPosts ==
    /\ handler = "deliver" /\ ~shutdown
    /\ current[1].kind \in {"forward", "cycle"}
    /\ queue' = Append(queue,
                  [id |-> current[1].id,
                   kind |-> IF current[1].kind = "cycle" THEN "cycle" ELSE "plain"])
    /\ current' = <<>>
    /\ handler' = "next"
    /\ UNCHANGED <<processing, eptr, iterations, life, release_count, graph_mutex,
                   clients, history, nposts, nreleases>>

\* or does not get it, because the graph was shut down.
DeliverNothing ==
    /\ handler = "deliver" /\ shutdown
    /\ current' = <<>>
    /\ handler' = "next"
    /\ UNCHANGED <<queue, processing, eptr, iterations, life, release_count,
                   graph_mutex, clients, history, nposts, nreleases>>

\* The exception ends the loop; the rest of the queue is handled in the next
\* round.
DeliverThrows ==
    /\ handler = "deliver"
    /\ current[1].kind = "throw" /\ ~shutdown
    /\ eptr' = TRUE
    /\ failed' = failed \cup {current[1].id}
    /\ handled' = handled \cup {current[1].id}
    /\ current' = <<>>
    /\ handler' = "leave"
    /\ UNCHANGED <<queue, processing, iterations, life, release_count, graph_mutex,
                   clients, reported, dropped, nposts, nreleases>>

\* The exception is kept until the graph is destroyed.
KeepException_UntilNext == FALSE
KeepException == eptr

HandlerDone ==
    /\ handler = "leave"
    /\ processing' = FALSE
    /\ eptr' = KeepException
    /\ graph_mutex' = "free"
    /\ handler' = "check"
    /\ UNCHANGED <<queue, current, iterations, life, release_count, clients, history,
                   nposts, nreleases>>

-----------------------------------------------------------------------------
(* The owner of the graph *)

Shutdown ==
    /\ owner = "running" /\ graph_mutex = "free"
    /\ owner' = "shutting_down"
    /\ shutdown' = TRUE
    /\ release_count' = -1
    /\ graph_mutex' = "owner"
    /\ UNCHANGED <<queue, work, handler, clients, history, nposts, nreleases>>

ShutdownNotify ==
    /\ owner = "shutting_down"
    /\ owner' = "shut_down"
    /\ handler' = Wakened
    /\ graph_mutex' = "free"
    /\ UNCHANGED <<queue, work, shutdown, release_count, clients, history, nposts,
                   nreleases>>

\* ~impl, once no call of a client is under way.
Destroy ==
    /\ owner \in {"running", "shut_down"}
    /\ \A c \in Clients : client[c] = "idle"
    /\ owner' = "destroyed"
    /\ shutdown' = TRUE
    /\ UNCHANGED <<queue, work, release_count, graph_mutex, handler, clients, history,
                   nposts, nreleases>>

DestroyNotify ==
    /\ owner = "destroyed"
    /\ owner' = "joining"
    /\ handler' = Wakened
    /\ UNCHANGED <<queue, work, shutdown, release_count, graph_mutex, clients, history,
                   nposts, nreleases>>

Join ==
    /\ owner = "joining" /\ handler = "ended"
    /\ owner' = "joined"
    /\ UNCHANGED <<queue, work, shutdown, release_count, graph_mutex, handler, clients,
                   history, nposts, nreleases>>

-----------------------------------------------------------------------------
NoCall == [id |-> 0, kind |-> "plain", mode |-> "SYNC", failures |-> {},
           result |-> "none"]

Init ==
    /\ queue = <<>> /\ processing = FALSE /\ eptr = FALSE /\ shutdown = FALSE
    /\ release_count = 1
    /\ graph_mutex = "free"
    /\ handler = "check" /\ current = <<>> /\ iterations = 0
    /\ owner = "running"
    /\ client = [c \in Clients |-> "idle"]
    /\ call = [c \in Clients |-> NoCall]
    /\ handled = {} /\ failed = {} /\ reported = {} /\ dropped = {}
    /\ nposts = 0 /\ nreleases = 0

ClientStep ==
    \/ \E c \in Clients : PostAction(c) \/ EnqueueAction(c) \/ SyncActions(c)
    \/ Commit \/ Release

HandlerStep ==
    \/ HandlerCheck \/ HandlerSleep \/ HandlerStart \/ HandlerEnd
    \/ HandlerPop \/ HandlerLeave \/ HandlerDone
    \/ Deliver \/ DeliverPosts \/ DeliverNothing \/ DeliverThrows

OwnerStep == Shutdown \/ ShutdownNotify \/ Destroy \/ DestroyNotify \/ Join

Next == ClientStep \/ HandlerStep \/ OwnerStep

Spec == Init /\ [][Next]_vars

\* Threads that can run do run.  Nobody has to post, commit, release, shut
\* down or destroy.
FairSpec ==
    /\ Spec
    /\ WF_vars(HandlerStep)
    /\ \A c \in Clients : WF_vars(EnqueueAction(c)) /\ WF_vars(SyncActions(c))
    /\ WF_vars(ShutdownNotify) /\ WF_vars(DestroyNotify) /\ WF_vars(Join)

-----------------------------------------------------------------------------
(* Properties *)

TypeOK ==
    /\ queue \in Seq(Action) /\ current \in Seq(Action)
    /\ processing \in BOOLEAN /\ eptr \in BOOLEAN /\ shutdown \in BOOLEAN
    /\ release_count \in Int
    /\ graph_mutex \in {"free", "handler", "owner"}
    /\ handler \in {"check", "before_sleep", "sleeping", "lock_graph", "next",
                    "deliver", "leave", "ended"}
    /\ iterations \in 0..Limit
    /\ owner \in {"running", "shutting_down", "shut_down", "destroyed", "joining",
                  "joined"}
    /\ client \in [Clients -> {"idle", "enqueue", "sync"}]
    /\ call \in [Clients -> [id : Nat, kind : AllKinds, mode : {"SYNC", "ASYNC"},
                             failures : SUBSET Nat,
                             result : {"none", "throws", "shut_down", "returns"}]]
    /\ handled \subseteq Nat /\ failed \subseteq Nat
    /\ reported \subseteq Nat /\ dropped \subseteq Nat
    /\ nposts \in Nat /\ nreleases \in Nat

\* A synchronous call returns only when its action and all actions that were
\* posted because of it have been handled, or dropped at the recursion limit,
\* although the handler takes an action out of the queue before it delivers
\* it, and other threads post at the same time (sync_actions).
SyncMeansHandled ==
    \A c \in Clients :
        call[c].result \in {"returns", "throws"} /\ ~shutdown
            => call[c].id \in handled \cup dropped

\* The handler delivers an action only while it owns _graph_mutex and nobody
\* changes the graph, and a synchronous caller never sees it idle meanwhile.
BusyWhileDelivering ==
    handler \in {"next", "deliver", "leave"} => graph_mutex = "handler" /\ processing

\* No failure is lost: if the handling of an action throws, so does the
\* synchronous call that posted it (sync_actions rethrows _action_eptr).
FailureReported ==
    \A c \in Clients : call[c].result = "returns" => call[c].id \notin failed

\* Every synchronous call ends, also when several threads wait, when actions
\* cause each other for ever, and when the graph is shut down meanwhile.
SyncCallsReturn == \A c \in Clients : client[c] = "sync" ~> client[c] = "idle"

\* A synchronous call throws an exception that has occurred in the action
\* handler thread and that no call has thrown before.  This does not hold: see
\* the README, "What the models show of the code".
OnlyNewFailures ==
    \A c \in Clients : call[c].result = "throws" => call[c].failures # {}

\* The destructor properly shuts down the action handler thread.
DestructorReturns == owner = "destroyed" ~> owner = "joined"
=============================================================================

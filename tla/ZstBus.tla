-------------------------------- MODULE ZstBus --------------------------------
(***************************************************************************)
(* zst_bus_t (src/zst_bus.c): the pipeline's notification channel.         *)
(*                                                                         *)
(* Elements post events to a queue under a mutex.  The application polls   *)
(* it with zst_bus_pop, or installs a handler: zst_bus_set_handler starts  *)
(* a dispatch thread that pops events and calls the handler.  To replace   *)
(* the thread, set_handler raises bus->flushing, wakes everybody, joins    *)
(* the old thread outside the lock and lowers the flag again; while it is  *)
(* up every post and every pop fails.                                      *)
(*                                                                         *)
(* One action is one critical section of bus->lock, or the step a thread   *)
(* takes between two of them.                                              *)
(***************************************************************************)
EXTENDS Integers, Sequences, FiniteSets, SequencesExt

CONSTANTS
    Posters,      \* element threads, which call zst_bus_post
    Poppers,      \* application threads, which call zst_bus_pop
    Controller,   \* the thread that calls zst_bus_set_handler and destroy
    Dispatchers,  \* identities of the dispatch threads set_handler creates
    Handlers,     \* handlers an application installs
    NoHandler,    \* the NULL handler
    NoThread,
    Timeouts,     \* what pop is given: subset of {"zero", "timed", "inf"}
    CreateFails,  \* whether pthread_create can fail
    MayDestroy,   \* whether the bus is destroyed
    MaxPosts      \* bound: calls of zst_bus_post per poster

Threads == Posters \cup Poppers \cup {Controller} \cup Dispatchers
Consumers == Poppers \cup Dispatchers
Events == Posters \X (1..MaxPosts)

ASSUME BusConstants ==
    /\ Posters \cap Poppers = {} /\ Dispatchers \cap (Posters \cup Poppers) = {}
    /\ Controller \notin Posters \cup Poppers \cup Dispatchers
    /\ NoThread \notin Threads /\ NoHandler \notin Handlers
    /\ Timeouts \subseteq {"zero", "timed", "inf"}
    /\ CreateFails \in BOOLEAN /\ MayDestroy \in BOOLEAN /\ MaxPosts \in Nat
    /\ IsFiniteSet(Poppers) /\ IsFiniteSet(Dispatchers)

VARIABLES
    queue,      \* bus->head .. bus->tail
    flushing,   \* bus->flushing
    thread,     \* bus->thread when bus->has_thread, else NoThread
    handler,    \* bus->handler
    freed,      \* the bus itself was freed
    pc,         \* where a thread is
    event,      \* per consumer: the event it took, <<>> when none
    arg,        \* per thread: its timeout, its handler, the thread it joins
    posts,      \* per poster: calls made
    accepted,   \* history: the events posted successfully, in order
    refused,    \* history: events whose post returned an error
    taken,      \* history: the events dequeued, in order
    dispatched, \* history: those of them a dispatch thread dequeued, in order
    handled     \* history: the events a handler was called with, in order

bus == <<queue, flushing, thread, handler>>
history == <<accepted, refused, taken, dispatched, handled>>
busVars == <<bus, freed, pc, event, arg, posts, history>>

NoEvent == <<>>
NoArg == "none"

BusInit ==
    /\ queue = <<>> /\ flushing = FALSE
    /\ thread = NoThread /\ handler = NoHandler /\ freed = FALSE
    /\ pc = [t \in Threads |-> IF t \in Dispatchers THEN "none" ELSE "run"]
    /\ event = [t \in Consumers |-> NoEvent]
    /\ arg = [t \in Threads |-> NoArg]
    /\ posts = [t \in Posters |-> 0]
    /\ accepted = <<>> /\ refused = {} /\ taken = <<>>
    /\ dispatched = <<>> /\ handled = <<>>

Waiting == {t \in Consumers : pc[t] = "wait"}

Goto(t, l) == pc' = [pc EXCEPT ![t] = l]

\* pthread_cond_signal: one waiter, if any, goes back to the top of pop's loop.
Signal ==
    \/ Waiting = {} /\ UNCHANGED pc
    \/ \E u \in Waiting : Goto(u, "pop")

\* pthread_cond_broadcast by a thread that goes to l.
Broadcast(t, l) ==
    pc' = [u \in Threads |-> IF u = t THEN l
                             ELSE IF u \in Waiting THEN "pop" ELSE pc[u]]

-----------------------------------------------------------------------------
(* zst_bus_post.                                                            *)

Post_NoSignal(t) ==
    LET e == <<t, posts[t] + 1>> IN
    /\ pc[t] = "run" /\ posts[t] < MaxPosts
    /\ posts' = [posts EXCEPT ![t] = @ + 1]
    /\ IF flushing
       THEN refused' = refused \cup {e} /\ UNCHANGED <<queue, accepted>>
       ELSE /\ queue' = Append(queue, e)
            /\ accepted' = Append(accepted, e)
            /\ UNCHANGED refused
    /\ UNCHANGED <<flushing, thread, handler, freed, pc, event, arg, taken, dispatched, handled>>

\* The caller drops a refused event: no element looks at the result.
Post(t) ==
    LET e == <<t, posts[t] + 1>> IN
    /\ pc[t] = "run" /\ posts[t] < MaxPosts
    /\ posts' = [posts EXCEPT ![t] = @ + 1]
    /\ IF flushing
       THEN refused' = refused \cup {e} /\ UNCHANGED <<queue, accepted, pc>>
       ELSE /\ queue' = Append(queue, e)
            /\ accepted' = Append(accepted, e)
            /\ Signal
            /\ UNCHANGED refused
    /\ UNCHANGED <<flushing, thread, handler, freed, event, arg, taken, dispatched, handled>>

-----------------------------------------------------------------------------
(* zst_bus_pop, for an application thread and for the dispatch thread, which *)
(* passes no timeout.  After the call an application is back in "run" and a  *)
(* dispatcher at "took" or "check".                                          *)

PopCall(t, w) ==
    /\ pc[t] = "run"
    /\ Goto(t, "pop")
    /\ arg' = [arg EXCEPT ![t] = w]
    /\ event' = [event EXCEPT ![t] = NoEvent]
    /\ UNCHANGED <<bus, freed, posts, history>>

AfterOk(t) == IF t \in Dispatchers THEN "took" ELSE "run"
AfterError(t) == IF t \in Dispatchers THEN "check" ELSE "run"

PopBlocks(t) ==
    /\ pc[t] = "pop" /\ queue = <<>> /\ ~flushing
    /\ Goto(t, IF arg[t] = "zero" THEN "run" ELSE "wait")
    /\ UNCHANGED <<bus, freed, event, arg, posts, history>>

SpuriousWakeup(t) ==
    /\ pc[t] = "wait"
    /\ Goto(t, "pop")
    /\ UNCHANGED <<bus, freed, event, arg, posts, history>>

\* A timeout returns without another look at the queue.
Deadline(t) ==
    /\ pc[t] = "wait" /\ arg[t] = "timed"
    /\ Goto(t, "run")
    /\ UNCHANGED <<bus, freed, event, arg, posts, history>>

\* A flushing bus hands out nothing, and keeps what it holds.
PopFails(t) ==
    /\ pc[t] = "pop" /\ flushing
    /\ Goto(t, AfterError(t))
    /\ UNCHANGED <<bus, freed, event, arg, posts, history>>

PopEvent(t) ==
    /\ pc[t] = "pop" /\ ~flushing /\ queue # <<>>
    /\ queue' = Tail(queue)
    /\ event' = [event EXCEPT ![t] = Head(queue)]
    /\ taken' = Append(taken, Head(queue))
    /\ dispatched' = IF t \in Dispatchers THEN Append(dispatched, Head(queue)) ELSE dispatched
    /\ Goto(t, AfterOk(t))
    /\ UNCHANGED <<flushing, thread, handler, freed, arg, posts,
                   accepted, refused, handled>>

-----------------------------------------------------------------------------
(* bus_dispatch_loop.                                                       *)

\* The handler is read under the lock and called outside it.
ReadHandler(d) ==
    /\ pc[d] = "took"
    /\ arg' = [arg EXCEPT ![d] = handler]
    /\ Goto(d, "handle")
    /\ UNCHANGED <<bus, freed, event, posts, history>>

\* handler(bus, event, user_data), unless it is NULL; the event is destroyed.
CallHandler(d) ==
    /\ pc[d] = "handle"
    /\ handled' = IF arg[d] = NoHandler THEN handled ELSE Append(handled, event[d])
    /\ event' = [event EXCEPT ![d] = NoEvent]
    /\ arg' = [arg EXCEPT ![d] = "inf"]
    /\ Goto(d, "pop")
    /\ UNCHANGED <<bus, freed, posts, accepted, refused, taken, dispatched>>

CheckExit_Never(d) ==
    /\ pc[d] = "check"
    /\ Goto(d, "pop")
    /\ UNCHANGED <<bus, freed, event, arg, posts, history>>

\* After a failed pop the thread ends when the bus is still flushing.
CheckExit(d) ==
    /\ pc[d] = "check"
    /\ Goto(d, IF flushing THEN "exited" ELSE "pop")
    /\ UNCHANGED <<bus, freed, event, arg, posts, history>>

-----------------------------------------------------------------------------
(* zst_bus_set_handler.  The dispatch thread starts at pop's loop.          *)

\* Bound: as many threads are created as there are identities for them.
Unused == {d \in Dispatchers : pc[d] = "none"}
InBound(h) == h = NoHandler \/ Unused # {}

Install(t, h) ==
    /\ handler' = h
    /\ \/ h = NoHandler /\ thread' = NoThread /\ Goto(t, "run")
          /\ arg' = [arg EXCEPT ![t] = NoArg]
       \/ /\ h # NoHandler
          /\ \E d \in Unused :
                /\ thread' = d
                /\ pc' = [pc EXCEPT ![t] = "run", ![d] = "pop"]
                /\ arg' = [arg EXCEPT ![t] = NoArg, ![d] = "inf"]
       \/ /\ h # NoHandler /\ CreateFails
          /\ thread' = NoThread /\ Goto(t, "run")
          /\ arg' = [arg EXCEPT ![t] = NoArg]

\* No dispatch thread runs: everything happens in one critical section.
SetHandler(h) ==
    /\ pc[Controller] = "run" /\ thread = NoThread /\ InBound(h)
    /\ Install(Controller, h)
    /\ UNCHANGED <<queue, flushing, freed, event, posts, history>>

\* Otherwise it is told to stop.
StopThread(h) ==
    /\ pc[Controller] = "run" /\ thread # NoThread /\ InBound(h)
    /\ flushing' = TRUE
    /\ Broadcast(Controller, "join")
    /\ arg' = [arg EXCEPT ![Controller] = h]
    /\ UNCHANGED <<queue, thread, handler, freed, event, posts, history>>

SwapHandler_NoJoin ==
    /\ pc[Controller] = "join"
    /\ flushing' = FALSE
    /\ Install(Controller, arg[Controller])
    /\ UNCHANGED <<queue, freed, event, posts, history>>

\* pthread_join returns, the flag is lowered and the new handler installed.
SwapHandler ==
    /\ pc[Controller] = "join" /\ pc[thread] = "exited"
    /\ flushing' = FALSE
    /\ Install(Controller, arg[Controller])
    /\ UNCHANGED <<queue, freed, event, posts, history>>

-----------------------------------------------------------------------------
(* zst_bus_destroy, called when nobody else uses the bus any more but the   *)
(* dispatch thread.                                                         *)

Destroy ==
    /\ MayDestroy /\ pc[Controller] = "run"
    /\ \A t \in Posters : posts[t] = MaxPosts
    /\ \A t \in Poppers : pc[t] = "run"
    /\ flushing' = TRUE
    /\ Broadcast(Controller, "destroy")
    /\ UNCHANGED <<queue, thread, handler, freed, event, arg, posts, history>>

\* The dispatch thread is joined, queued events are freed with the bus.
FreeBus ==
    /\ pc[Controller] = "destroy"
    /\ thread # NoThread => pc[thread] = "exited"
    /\ queue' = <<>> /\ freed' = TRUE
    /\ Goto(Controller, "gone")
    /\ UNCHANGED <<flushing, thread, handler, event, arg, posts, history>>

-----------------------------------------------------------------------------
Control ==
    \/ \E h \in Handlers \cup {NoHandler} : SetHandler(h) \/ StopThread(h)
    \/ Destroy

Finish == SwapHandler \/ FreeBus

Dispatch(d) == ReadHandler(d) \/ CallHandler(d) \/ CheckExit(d)
Pop(t) == PopBlocks(t) \/ PopFails(t) \/ PopEvent(t)

BusNext ==
    \/ \E t \in Posters : Post(t)
    \/ \E t \in Poppers, w \in Timeouts : pc[Controller] \notin {"destroy", "gone"} /\ PopCall(t, w)
    \/ \E t \in Consumers : Pop(t) \/ SpuriousWakeup(t) \/ Deadline(t)
    \/ \E d \in Dispatchers : Dispatch(d)
    \/ Control \/ Finish

BusSpec == BusInit /\ [][BusNext]_busVars

\* Threads run, handlers return, and set_handler and destroy proceed when the
\* join does.
Fairness ==
    /\ \A t \in Consumers : WF_busVars(Pop(t))
    /\ \A d \in Dispatchers : WF_busVars(Dispatch(d))
    /\ WF_busVars(Finish)

FairSpec == BusSpec /\ Fairness

-----------------------------------------------------------------------------
(* Properties.                                                              *)

\* Every variable has its type.
BusTypeOK ==
    /\ queue \in Seq(Events) /\ flushing \in BOOLEAN /\ freed \in BOOLEAN
    /\ thread \in Dispatchers \cup {NoThread}
    /\ handler \in Handlers \cup {NoHandler}
    /\ pc \in [Threads -> {"none", "run", "pop", "wait", "took", "handle", "check",
                           "exited", "join", "destroy", "gone"}]
    /\ event \in [Consumers -> Events \cup {NoEvent}]
    /\ posts \in [Posters -> 0..MaxPosts]
    /\ accepted \in Seq(Events) /\ taken \in Seq(Events) /\ handled \in Seq(Events)
    /\ dispatched \in Seq(Events) /\ refused \subseteq Events

\* Nothing posted successfully is lost or reordered while handlers come and
\* go: what was dequeued and what is queued are together the accepted events
\* in posting order (zst_bus.c:141-150, 188-199).  Only zst_bus_destroy drops
\* events.
NothingLost == ~freed => taken \o queue = accepted

\* Handlers run one at a time and in order over every replacement of the
\* dispatch thread, because it is joined first (zst_bus.c:217-221): at most
\* one dispatch thread is alive, and it runs the installed handler.
OneDispatcher ==
    \A d \in Dispatchers :
        /\ pc[d] \notin {"none", "exited"} => d = thread
        /\ pc[d] = "handle" => arg[d] = handler /\ handler # NoHandler

\* An event the dispatch thread took reaches a handler before the thread ends,
\* also when the bus started flushing in between, and the handlers see these
\* events in posting order (zst_bus.c:56-66): what they were called with is
\* what dispatch threads took, but for the event in the current one's hands.
EveryTakenHandled ==
    \/ handled = dispatched
    \/ /\ dispatched # <<>> /\ handled = Front(dispatched)
       /\ thread # NoThread /\ event[thread] = Last(dispatched)

\* When no call is in progress, nobody sleeps in pop beside a queued event.
NoStuckPop ==
    (\A t \in Threads : pc[t] \in {"none", "run", "wait", "exited"}) =>
        (Waiting # {} => queue = <<>>)

\* set_handler and destroy return: the dispatch thread, sleeping or in a
\* handler, notices the flag (zst_bus.c:68-74, 170).
ControlReturns == pc[Controller] \in {"join", "destroy"} ~> pc[Controller] \in {"run", "gone"}

\* A queued event is dequeued as long as a dispatch thread stays.
Delivered ==
    \A e \in Events :
        (e \in Range(queue) /\ thread # NoThread)
            ~> (e \notin Range(queue) \/ thread = NoThread \/ flushing)

\* Setting a handler and popping exclude each other: "once a handler callback
\* is set, zst_bus_pop() no longer returns events" (wiki/api-design-notes.md:397).
PopOrHandler ==
    [][\A t \in Poppers : PopEvent(t) => handler = NoHandler]_busVars

\* No event is lost, reordered, handled twice or handled by a handler that was
\* replaced, while dispatch threads are stopped and started: types,
\* NothingLost, OneDispatcher and EveryTakenHandled.
EventsAccounted == BusTypeOK /\ NothingLost /\ OneDispatcher /\ EveryTakenHandled
=============================================================================

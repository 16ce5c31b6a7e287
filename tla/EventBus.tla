------------------------------ MODULE EventBus ------------------------------
(***************************************************************************)
(* The category event publisher of the observability subsystem             *)
(* (internal/observability/publisher/publisher.go).                        *)
(*                                                                         *)
(* Every event is one call of Publish, made by some request handler.  The  *)
(* call takes a snapshot of the subscribers under the read lock and then,  *)
(* without the lock, starts one goroutine per subscriber.  Shutdown closes *)
(* the bus under the write lock, waits for the goroutines it can see and   *)
(* closes the subscribers.  A critical section of p.mu is one action; what *)
(* happens outside the lock is split where another goroutine can get in.   *)
(***************************************************************************)
EXTENDS FiniteSets

CONSTANTS
    Subscribers,    \* subscriber instances (each has a UUID of its own)
    Events,         \* the events that may be published, one Publish call each
    Categories,     \* event categories, CategoryAll included
    CategoryAll,    \* event.CategoryAll
    Category,       \* [Events -> Categories], event.GetCategory
    Interests,      \* [Subscribers -> SUBSET Categories], sub.GetCategories
    Closers         \* callers of Shutdown

ASSUME CategoryAssumption ==
    /\ CategoryAll \in Categories
    /\ Category \in [Events -> Categories \ {CategoryAll}]
    /\ Interests \in [Subscribers -> SUBSET Categories]

VARIABLES
    subscribers,    \* keys of p.subscribers
    byCategory,     \* p.subscribersByCategory, each list as the set of its IDs
    isShutdown,     \* p.isShutdown; p.ctx is cancelled in the same section
    publish,        \* where each Publish call is
    pending,        \* snapshot entries a Publish call has not spawned yet
    task,           \* the goroutine that delivers event e to subscriber s
    wg,             \* goroutines the WaitGroup counts
    closer,         \* where each Shutdown call is
    toClose,        \* Shutdown's copy of the subscribers, not closed yet
    closed          \* subscribers whose Close was called

busVars == <<subscribers, byCategory, isShutdown, publish, pending, task, wg,
             closer, toClose, closed>>

Deliveries == Events \X Subscribers

TypeOK ==
    /\ subscribers \in SUBSET Subscribers
    /\ byCategory \in [Categories -> SUBSET Subscribers]
    /\ isShutdown \in BOOLEAN
    /\ publish \in [Events -> {"idle", "spawning", "returned"}]
    /\ pending \in [Events -> SUBSET Subscribers]
    /\ task \in [Deliveries -> {"none", "spawned", "handling", "handled", "skipped"}]
    /\ wg \in SUBSET Deliveries
    /\ closer \in [Closers -> {"idle", "waiting", "closing", "returned"}]
    /\ toClose \in SUBSET Subscribers
    /\ closed \in SUBSET Subscribers

Init ==
    /\ subscribers = {}
    /\ byCategory = [c \in Categories |-> {}]
    /\ isShutdown = FALSE
    /\ publish = [e \in Events |-> "idle"]
    /\ pending = [e \in Events |-> {}]
    /\ task = [d \in Deliveries |-> "none"]
    /\ wg = {}
    /\ closer = [c \in Closers |-> "idle"]
    /\ toClose = {}
    /\ closed = {}

-----------------------------------------------------------------------------
(* Subscribe and Unsubscribe, under the write lock.  Neither looks at      *)
(* isShutdown.                                                             *)

Subscribe(s) ==
    /\ s \notin subscribers
    /\ subscribers' = subscribers \cup {s}
    /\ byCategory' = [c \in Categories |->
                        IF c \in Interests[s] THEN byCategory[c] \cup {s}
                                              ELSE byCategory[c]]
    /\ UNCHANGED <<isShutdown, publish, pending, task, wg, closer, toClose, closed>>

Unsubscribe(s) ==
    /\ s \in subscribers
    /\ subscribers' = subscribers \ {s}
    /\ byCategory' = [c \in Categories |-> byCategory[c] \ {s}]
    /\ UNCHANGED <<isShutdown, publish, pending, task, wg, closer, toClose, closed>>

-----------------------------------------------------------------------------
(* Publish.                                                                *)

\* "Check if anyone cares about this category".
HasSubscribers(c) == byCategory[c] \cup byCategory[CategoryAll] # {}

\* The bus is shut down, or nobody cares: the call returns at once.
PublishIgnored(e) ==
    /\ publish[e] = "idle"
    /\ isShutdown \/ ~HasSubscribers(Category[e])
    /\ publish' = [publish EXCEPT ![e] = "returned"]
    /\ UNCHANGED <<subscribers, byCategory, isShutdown, pending, task, wg,
                   closer, toClose, closed>>

\* All subscribers are copied, those of other categories too.
PublishAccepted(e) ==
    /\ publish[e] = "idle"
    /\ ~isShutdown
    /\ HasSubscribers(Category[e])
    /\ publish' = [publish EXCEPT ![e] = "spawning"]
    /\ pending' = [pending EXCEPT ![e] = subscribers]
    /\ UNCHANGED <<subscribers, byCategory, isShutdown, task, wg, closer, toClose, closed>>

\* Fault: the loop ends after its first turn.
SpawnFirstHandler(e, s) ==
    /\ publish[e] = "spawning"
    /\ s \in pending[e]
    /\ pending' = [pending EXCEPT ![e] = @ \ {s}]
    /\ publish' = [publish EXCEPT ![e] = "returned"]
    /\ wg' = wg \cup {<<e, s>>}
    /\ task' = [task EXCEPT ![<<e, s>>] = "spawned"]
    /\ UNCHANGED <<subscribers, byCategory, isShutdown, closer, toClose, closed>>

\* One turn of the broadcast loop, after the lock was released: p.wg.Add(1)
\* and go.  The call returns after the last one.
SpawnHandler(e, s) ==
    /\ publish[e] = "spawning"
    /\ s \in pending[e]
    /\ pending' = [pending EXCEPT ![e] = @ \ {s}]
    /\ publish' = [publish EXCEPT ![e] = IF pending'[e] = {} THEN "returned" ELSE @]
    /\ wg' = wg \cup {<<e, s>>}
    /\ task' = [task EXCEPT ![<<e, s>>] = "spawned"]
    /\ UNCHANGED <<subscribers, byCategory, isShutdown, closer, toClose, closed>>

\* The goroutine looks at p.ctx.Done() before it calls OnEvent.
StartHandler(e, s) ==
    /\ task[<<e, s>>] = "spawned"
    /\ ~isShutdown
    /\ task' = [task EXCEPT ![<<e, s>>] = "handling"]
    /\ UNCHANGED <<subscribers, byCategory, isShutdown, publish, pending, wg,
                   closer, toClose, closed>>

\* Fault: the early return of the goroutine comes before its defer wg.Done.
SkipHandlerWithoutDone(e, s) ==
    /\ task[<<e, s>>] = "spawned"
    /\ isShutdown
    /\ task' = [task EXCEPT ![<<e, s>>] = "skipped"]
    /\ UNCHANGED <<subscribers, byCategory, isShutdown, publish, pending, wg,
                   closer, toClose, closed>>

SkipHandler(e, s) ==
    /\ task[<<e, s>>] = "spawned"
    /\ isShutdown
    /\ task' = [task EXCEPT ![<<e, s>>] = "skipped"]
    /\ wg' = wg \ {<<e, s>>}
    /\ UNCHANGED <<subscribers, byCategory, isShutdown, publish, pending,
                   closer, toClose, closed>>

\* OnEvent returns, with or without an error, or panics and is recovered:
\* the deferred wg.Done runs in all three cases.
FinishHandler(e, s) ==
    /\ task[<<e, s>>] = "handling"
    /\ task' = [task EXCEPT ![<<e, s>>] = "handled"]
    /\ wg' = wg \ {<<e, s>>}
    /\ UNCHANGED <<subscribers, byCategory, isShutdown, publish, pending,
                   closer, toClose, closed>>

-----------------------------------------------------------------------------
(* Shutdown.                                                               *)

BeginShutdown(c) ==
    /\ closer[c] = "idle"
    /\ ~isShutdown
    /\ isShutdown' = TRUE
    /\ toClose' = subscribers
    /\ closer' = [closer EXCEPT ![c] = "waiting"]
    /\ UNCHANGED <<subscribers, byCategory, publish, pending, task, wg, closed>>

\* Somebody shut the bus down already: return, even if that call still waits.
RepeatedShutdown(c) ==
    /\ closer[c] = "idle"
    /\ isShutdown
    /\ closer' = [closer EXCEPT ![c] = "returned"]
    /\ UNCHANGED <<subscribers, byCategory, isShutdown, publish, pending, task, wg,
                   toClose, closed>>

\* Fault: the subscribers are closed without p.wg.Wait().
HandlersNotAwaited(c) ==
    /\ closer[c] = "waiting"
    /\ closer' = [closer EXCEPT ![c] = "closing"]
    /\ UNCHANGED <<subscribers, byCategory, isShutdown, publish, pending, task, wg,
                   toClose, closed>>

\* p.wg.Wait() returns.
HandlersDrained(c) ==
    /\ closer[c] = "waiting"
    /\ wg = {}
    /\ closer' = [closer EXCEPT ![c] = "closing"]
    /\ UNCHANGED <<subscribers, byCategory, isShutdown, publish, pending, task, wg,
                   toClose, closed>>

CloseSubscriber(c, s) ==
    /\ closer[c] = "closing"
    /\ s \in toClose
    /\ closed' = closed \cup {s}
    /\ toClose' = toClose \ {s}
    /\ UNCHANGED <<subscribers, byCategory, isShutdown, publish, pending, task, wg, closer>>

ShutdownReturns(c) ==
    /\ closer[c] = "closing"
    /\ toClose = {}
    /\ closer' = [closer EXCEPT ![c] = "returned"]
    /\ UNCHANGED <<subscribers, byCategory, isShutdown, publish, pending, task, wg,
                   toClose, closed>>

-----------------------------------------------------------------------------
Deliver(e, s) ==
    SpawnHandler(e, s) \/ StartHandler(e, s) \/ SkipHandler(e, s) \/ FinishHandler(e, s)

Shutdown(c) ==
    \/ BeginShutdown(c) \/ RepeatedShutdown(c)
    \/ HandlersDrained(c) \/ ShutdownReturns(c)
    \/ \E s \in Subscribers : CloseSubscriber(c, s)

Next ==
    \/ \E s \in Subscribers : Subscribe(s) \/ Unsubscribe(s)
    \/ \E e \in Events : PublishIgnored(e) \/ PublishAccepted(e)
    \/ \E e \in Events, s \in Subscribers : Deliver(e, s)
    \/ \E c \in Closers : Shutdown(c)

\* Goroutines that have started keep running (the Go scheduler) and OnEvent
\* and Close return.  Nobody has to publish, to subscribe or to shut down.
Fairness ==
    /\ \A e \in Events, s \in Subscribers : WF_busVars(Deliver(e, s))
    /\ \A c \in Closers :
        /\ WF_busVars(HandlersDrained(c))
        /\ WF_busVars(ShutdownReturns(c))
        /\ WF_busVars(\E s \in Subscribers : CloseSubscriber(c, s))

Spec == Init /\ [][Next]_busVars /\ Fairness

-----------------------------------------------------------------------------
(* Properties.                                                             *)

\* The two maps Subscribe and Unsubscribe maintain agree: a category lists
\* exactly the registered subscribers that asked for it.
CategoryIndexAgrees ==
    \A c \in Categories : byCategory[c] = {s \in subscribers : c \in Interests[s]}

\* No subscriber is inside OnEvent once its Close was called, although
\* Publish spawns its goroutines after it released the lock, and may do so
\* after Shutdown's wg.Wait() has returned.
NoHandlingOnceClosed ==
    \A e \in Events, s \in Subscribers :
        task[<<e, s>>] = "handling" => s \notin closed

\* Shutdown closes no subscriber twice, however many calls are made and
\* whatever is subscribed meanwhile (publisher.go's isShutdown early return).
NoDoubleClose ==
    \A c \in Closers : closer[c] \in {"waiting", "closing"} => toClose \cap closed = {}

\* A Shutdown call that has begun returns, whatever the publishers do.
ShutdownTerminates ==
    \A c \in Closers : closer[c] = "waiting" ~> closer[c] = "returned"

\* Every copy of an accepted event is handled, unless the bus shuts down.
AcceptedIsHandled ==
    \A e \in Events, s \in Subscribers :
        s \in pending[e] ~> (task[<<e, s>>] = "handled" \/ isShutdown)

\* Each copy of an event as EventDelivery sees it: owed from the moment Publish
\* copied the subscriber until its goroutine calls OnEvent or gives up.
DeliveryOf(d) ==
    CASE task[d] = "none" -> IF d[2] \in pending[d[1]] THEN "owed" ELSE "none"
      [] task[d] = "spawned" -> "owed"
      [] OTHER -> task[d]

Promise == INSTANCE EventDelivery WITH
    delivery <- [d \in Deliveries |-> DeliveryOf(d)],
    accepting <- ~isShutdown

\* The publisher keeps the promise of EventDelivery, fairness included: once
\* accepted, each copy is settled exactly once, and Close of a subscriber is
\* never concurrent with a delivery nor repeated.
KeepsPromise == Promise!Spec

=============================================================================

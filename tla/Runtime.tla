------------------------------ MODULE Runtime ------------------------------
(***************************************************************************)
(* A run of the server from its start to its end (cmd/server): main sets   *)
(* up the subscribers of the observability service, serves requests until  *)
(* a signal arrives, and then stops the HTTP server, the observability     *)
(* service and the database clients, in that order.  Stopping the HTTP     *)
(* server waits for the requests in progress, but not forever: requests    *)
(* may still run while everything else is taken down.  Each request uses a *)
(* database and publishes one event, through the service                   *)
(* (internal/observability/service.go) onto the bus of module EventBus.    *)
(***************************************************************************)
EXTENDS EventBus, FileLog, DBProvider, ResourceFiles

CONSTANTS
    FileSub,    \* the subscriber that writes to the file
    Main,       \* the goroutine of main, who shuts the bus down
    Strict      \* FailureMode is "strict"

ASSUME RuntimeAssumption ==
    /\ FileSub \in Subscribers
    /\ Closers = {Main}
    /\ Requests = Events
    /\ Strict \in BOOLEAN

VARIABLES
    phase,      \* how far main is
    toInit,     \* enabled subscribers that Initialize has not come to
    active,     \* those it has initialized
    failedFast, \* an error ended Initialize
    publisher,  \* s.publisher is not nil
    request,    \* where each request is
    toCloseDB,  \* databases that Close of the provider has not come to
    timedOut    \* the HTTP server was stopped with requests in progress

configVars == <<graphVars, fileVars>>
partVars == <<busVars, logVars, poolVars, configVars>>
setupVars == <<toInit, active, failedFast>>
serverVars == <<phase, toInit, active, failedFast, publisher, request,
                toCloseDB, timedOut>>
vars == <<busVars, logVars, poolVars, graphVars, fileVars, serverVars>>

RuntimeInit ==
    /\ Init /\ LogInit /\ PoolsInit /\ GraphsInit /\ FilesInit
    /\ phase = "starting"
    /\ publisher \in BOOLEAN
    /\ toInit \in IF publisher THEN SUBSET Subscribers ELSE {{}}
    /\ active = {}
    /\ failedFast = FALSE
    /\ request = [r \in Requests |-> "none"]
    /\ toCloseDB = Databases
    /\ timedOut = FALSE

-----------------------------------------------------------------------------
(* The start.                                                              *)

InitSubscriber(s) ==
    /\ phase = "starting" /\ s \in toInit
    /\ toInit' = toInit \ {s}
    /\ active' = active \cup {s}
    /\ IF s = FileSub THEN OpenFile ELSE UNCHANGED logVars
    /\ UNCHANGED <<busVars, poolVars, configVars, phase, failedFast, publisher, request,
                   toCloseDB, timedOut>>

\* A subscriber cannot be initialized: in strict mode none is used, in lenient mode
\* the others are.
InitSubscriberFails(s) ==
    /\ phase = "starting" /\ s \in toInit
    /\ failedFast' = Strict
    /\ toInit' = IF Strict THEN {} ELSE toInit \ {s}
    /\ UNCHANGED <<partVars, phase, active, publisher, request, toCloseDB, timedOut>>

Register(s) ==
    /\ phase = "starting" /\ toInit = {} /\ ~failedFast
    /\ s \in active
    /\ Subscribe(s)
    /\ UNCHANGED <<logVars, poolVars, configVars, serverVars>>

\* The packages are initialized one after the other; in immutable mode four of them load
\* their files then, and the server gives up if it cannot.  The graphs come before the
\* applications.
LoadResources ==
    /\ phase \in {"starting", "loaded"} /\ toInit = {}
    /\ failedFast \/ subscribers = active
    /\ \/ ReadDirectory /\ (kindsLeft = <<"application">> => phase = "loaded")
       \/ \E f \in toLoad : LoadFile(f)
    /\ phase' = IF refused' THEN "fatal" ELSE phase
    /\ UNCHANGED <<busVars, logVars, poolVars, graphVars, setupVars, publisher, request,
                   toCloseDB, timedOut>>

LoadGraphs ==
    /\ phase = "starting"
    /\ kindsLeft = <<"application">> /\ toLoad = {}
    /\ phase' = "loading"
    /\ ReadGraphs
    /\ UNCHANGED <<busVars, logVars, poolVars, fileVars, setupVars, publisher, request,
                   toCloseDB, timedOut>>

LoadGraph(id) ==
    /\ phase = "loading"
    /\ RegisterGraph(id)
    /\ UNCHANGED <<busVars, logVars, poolVars, fileVars, serverVars>>

\* Without the default flow the server gives up.
GraphsLoaded ==
    /\ phase = "loading" /\ configured = << >>
    /\ phase' = IF DefaultFlow \in DOMAIN graphs THEN "loaded" ELSE "fatal"
    /\ UNCHANGED <<partVars, setupVars, publisher, request, toCloseDB, timedOut>>

Serve ==
    /\ phase = "loaded" /\ kindsLeft = <<>> /\ toLoad = {}
    /\ phase' = "serving"
    /\ UNCHANGED <<partVars, setupVars, publisher, request, toCloseDB, timedOut>>

-----------------------------------------------------------------------------
(* A request.                                                              *)

Becomes(r, from, to) == request[r] = from /\ request' = [request EXCEPT ![r] = to]

Arrive(r) ==
    /\ phase = "serving"
    /\ Becomes(r, "none", "working")
    /\ UNCHANGED <<partVars, phase, setupVars, publisher, toCloseDB, timedOut>>

GetDatabase(r) ==
    /\ phase # "stopped"
    /\ request[r] = "working"
    /\ \E d \in Databases : GetClient(r, d) \/ InitClient(r, d) \/ InitClientFails(r, d)
    /\ request' = [request EXCEPT ![r] =
                      IF missed'[r] # None THEN "working"
                      ELSE IF held'[r] # None THEN "connected" ELSE "failed"]
    /\ UNCHANGED <<busVars, logVars, configVars, phase, setupVars, publisher, toCloseDB, timedOut>>

\* The pool refuses once it is closed, with or without the knowledge of the request.
Query(r) ==
    /\ phase # "stopped"
    /\ Becomes(r, "connected", IF held[r] \in open THEN "queried" ELSE "refused")
    /\ UNCHANGED <<partVars, phase, setupVars, publisher, toCloseDB, timedOut>>

\* IsEnabled and the first line of PublishEvent.
LookAtPublisher(r) ==
    /\ phase # "stopped"
    /\ Becomes(r, "queried", IF publisher THEN "enabled" ELSE "done")
    /\ UNCHANGED <<partVars, phase, setupVars, publisher, toCloseDB, timedOut>>

\* PublishEvent reads the publisher again, to call it.
CallPublisher(r) ==
    /\ phase # "stopped"
    /\ \/ publisher /\ PublishIgnored(r) /\ Becomes(r, "enabled", "done")
       \/ publisher /\ PublishAccepted(r) /\ Becomes(r, "enabled", "publishing")
       \/ ~publisher /\ Becomes(r, "enabled", "panicked") /\ UNCHANGED busVars
    /\ UNCHANGED <<logVars, poolVars, configVars, phase, setupVars, publisher, toCloseDB,
                   timedOut>>

\* The loop of Publish that starts goroutines.
Broadcast(r, s) ==
    /\ phase # "stopped"
    /\ SpawnHandler(r, s)
    /\ request' = [request EXCEPT ![r] = IF publish'[r] = "returned" THEN "done" ELSE @]
    /\ UNCHANGED <<logVars, poolVars, configVars, phase, setupVars, publisher, toCloseDB,
                   timedOut>>

-----------------------------------------------------------------------------
(* Goroutines: those that deliver events, and the flusher of the adapter.  *)

\* processEvent: the event is formatted, which may fail, and written.
Handle(r, s) ==
    /\ phase # "stopped"
    /\ \/ (StartHandler(r, s) \/ SkipHandler(r, s)) /\ UNCHANGED logVars
       \/ FinishHandler(r, s) /\ UNCHANGED logVars
       \/ FinishHandler(r, s) /\ s = FileSub /\ WriteLine(r)
    /\ UNCHANGED <<poolVars, configVars, serverVars>>

FlusherTicks ==
    /\ phase # "stopped"
    /\ PeriodicFlush
    /\ UNCHANGED <<busVars, poolVars, configVars, serverVars>>

-----------------------------------------------------------------------------
(* The end: gracefulShutdown.                                              *)

InProgress == {r \in Requests :
                request[r] \in {"working", "connected", "queried", "enabled", "publishing"}}

Signal ==
    /\ phase = "serving"
    /\ phase' = "draining"
    /\ UNCHANGED <<partVars, setupVars, publisher, request, toCloseDB, timedOut>>

\* Fault: server.Close instead of server.Shutdown.
CloseServerAtOnce ==
    /\ phase = "draining"
    /\ phase' = "unregistering"
    /\ UNCHANGED <<partVars, setupVars, publisher, request, toCloseDB, timedOut>>

\* server.Shutdown returns when no request is left, or after its five seconds, with an
\* error that is only logged.
ShutdownServer ==
    /\ phase = "draining"
    /\ phase' = "unregistering"
    /\ timedOut' = (InProgress # {})
    /\ UNCHANGED <<partVars, setupVars, publisher, request, toCloseDB>>

\* One step of the publisher's Shutdown; closing the file subscriber takes three more.
ShutdownPublisher ==
    /\ phase = "unregistering" /\ publisher
    /\ adapter \notin {"flushed", "marked"}
    /\ \/ BeginShutdown(Main) \/ HandlersDrained(Main)
       \/ \E s \in Subscribers \ {FileSub} : CloseSubscriber(Main, s)
    /\ UNCHANGED <<logVars, poolVars, configVars, serverVars>>

CloseFileSubscriber ==
    /\ phase = "unregistering" /\ publisher
    /\ \/ CloseSubscriber(Main, FileSub) /\ FlushBeforeClose
       \/ (MarkClosed \/ CloseFile) /\ UNCHANGED busVars
    /\ UNCHANGED <<poolVars, configVars, serverVars>>

\* Service.Shutdown ends: the publisher is set to nil.
ShutdownService ==
    /\ phase = "unregistering"
    /\ IF publisher
       THEN adapter \notin {"flushed", "marked"} /\ ShutdownReturns(Main)
       ELSE UNCHANGED busVars
    /\ publisher' = FALSE
    /\ phase' = "closing"
    /\ UNCHANGED <<logVars, poolVars, configVars, setupVars, request, toCloseDB, timedOut>>

\* One call of closeClient; the databases are closed one after the other.
CloseDatabase(d) ==
    /\ phase = "closing"
    /\ d \in toCloseDB
    /\ toCloseDB' = toCloseDB \ {d}
    /\ CloseClient(d)
    /\ UNCHANGED <<busVars, logVars, configVars, phase, setupVars, publisher, request, timedOut>>

\* main returns, and all goroutines end with it.
Exit ==
    /\ phase = "closing" /\ toCloseDB = {}
    /\ phase' = "stopped"
    /\ UNCHANGED <<partVars, setupVars, publisher, request, toCloseDB, timedOut>>

-----------------------------------------------------------------------------
Stop ==
    \/ Signal \/ ShutdownServer \/ ShutdownPublisher \/ CloseFileSubscriber
    \/ ShutdownService \/ Exit
    \/ \E d \in Databases : CloseDatabase(d)

Work(r) ==
    \/ Arrive(r) \/ GetDatabase(r) \/ Query(r) \/ LookAtPublisher(r) \/ CallPublisher(r)
    \/ \E s \in Subscribers : Broadcast(r, s)

RuntimeNext ==
    \/ \E s \in Subscribers : InitSubscriber(s) \/ InitSubscriberFails(s) \/ Register(s)
    \/ LoadResources \/ LoadGraphs \/ GraphsLoaded \/ Serve
    \/ \E id \in DOMAIN configured : LoadGraph(id)
    \/ \E r \in Requests : Work(r)
    \/ \E r \in Events, s \in Subscribers : Handle(r, s)
    \/ FlusherTicks
    \/ Stop

\* main and the goroutines that deliver events go on, OnEvent and the calls that close
\* things return.  A request may take for ever, and no signal has to arrive.
RuntimeFairness ==
    /\ WF_vars(phase # "serving" /\ Stop)
    /\ \A r \in Events, s \in Subscribers : WF_vars(Handle(r, s))

RuntimeSpec == RuntimeInit /\ [][RuntimeNext]_vars /\ RuntimeFairness

-----------------------------------------------------------------------------
(* Properties.                                                             *)

\* A request meets a publisher that is gone, or a database that was closed under it,
\* only if it outlasted the time the HTTP server had for stopping: the order in which
\* gracefulShutdown takes things down protects all others.
OnlyLateRequestsSuffer ==
    \A r \in Requests : request[r] \in {"panicked", "refused"} => timedOut

\* Every open pool belongs to the client of a database, so that Close finds it, however
\* many requests miss the client at the same time and whatever could not be reached.
NoPoolLost ==
    \A p \in open : \E d \in Databases : client[d] = p

\* What the file subscriber has written is in the file when the server has stopped,
\* requests that came too late included, although the adapter's own Close flushes
\* nothing; and without such requests no pool is open and every subscriber in use is
\* closed.
CleanExit ==
    phase = "stopped" =>
        /\ written \subseteq file
        /\ timedOut \/ open = {}
        /\ failedFast \/ active \subseteq closed

\* When requests are served, the graphs are complete: nobody registers past the
\* provisioning node of an inferred graph (RegistrationsProvision), and every graph of
\* the configuration is there as its file has it (ConfiguredStands).
NoWayPastProvisioning ==
    phase = "loading" =>
        /\ RegistrationsProvision
        /\ configured = << >> => ConfiguredStands

\* What files say is what is served: exported resources come back (ExportsComeBack), and
\* those of any files refer to what is there (LoadedHolds).
ServesWhatFilesSay == ExportsComeBack /\ LoadedHolds

\* After a signal the server stops, whatever requests are doing.
SignalStops == phase = "draining" ~> phase = "stopped"
=============================================================================

------------------------------ MODULE Lifecycle ------------------------------
(***************************************************************************)
(* The life of the server process: cmd/serve.go boots the kernel, starts   *)
(* the HTTP server and the daemons in goroutines of their own and shuts    *)
(* everything down on a signal (internal/app/kernel.go,                    *)
(* internal/app/daemons.go, internal/daemon/daemon.go).                    *)
(*                                                                         *)
(* The goroutines are: main (runServer, graceful, Shutdown), the listener  *)
(* (Kernel.Listen), the starter (Kernel.StartDaemons), one manager per     *)
(* daemon (Manager.Start) and the waiter that Shutdown starts.  Main and   *)
(* the listener share Kernel.state and Kernel.server without a lock: main  *)
(* may read server before its write of state can be seen by others, so the *)
(* write goes through a store buffer.                                      *)
(*                                                                         *)
(* External: http.Server (its Shutdown closes the listener, then waits     *)
(* until no request is active; a connection that was hijacked, as those of *)
(* the websockets at /backend/query are, it neither closes nor waits for), *)
(* context, sync.WaitGroup, backoff.Ticker.                                *)
(***************************************************************************)
EXTENDS Integers, FiniteSets

CONSTANTS
    Daemons,     \* the daemons that are started
    MaxActive,   \* bound: HTTP requests active and websockets open at once
    StoreBuffer, \* does main's write of Kernel.state pass through a buffer?
    Panics       \* may a daemon panic?

ASSUME LifecycleAssumption ==
    /\ IsFiniteSet(Daemons)
    /\ MaxActive \in Nat /\ StoreBuffer \in BOOLEAN /\ Panics \in BOOLEAN

VARIABLES
    main,      \* where main is
    state,     \* Kernel.state, as other goroutines see it
    buffered,  \* main's write of StateStopping has not left its store buffer
    server,    \* is Kernel.server set?
    listener,  \* where Listen is
    http,      \* http.Server: "new", "listening" or "closed" (by Shutdown)
    active,    \* HTTP requests in their handlers
    sockets,   \* websockets: requests whose connection is no longer http's
    starter,   \* daemons that StartDaemons still has to start
    manager,   \* where Manager.Start is, for each daemon
    wg,        \* the counter of Kernel.wg
    canceled,  \* the application's context is canceled
    signaled,  \* a signal has arrived after signal.Notify
    expired,   \* the 30 seconds of the shutdown are over
    waiter,    \* the goroutine that waits for wg: "none", "waiting", "done"
    logOpen,   \* the access log is open
    dbOpen,    \* the database connection is open
    \* history
    missed     \* main found no server while its write was in the buffer

shared == <<state, buffered, server, missed>>
web    == <<listener, http, active, sockets>>
jobs   == <<starter, manager, wg>>
stop   == <<canceled, signaled, expired, waiter, logOpen, dbOpen>>
vars   == <<main, shared, web, jobs, stop>>

MainLabels == {"migrate", "wait", "shutdown", "stopServer", "cancel", "cleanup",
               "select", "close", "exited", "crashed"}
ListenerLabels == {"none", "setServer", "check", "serve", "serving", "sleep", "done"}
ManagerLabels == {"none", "add", "tick", "running", "done"}

Alive == main \notin {"exited", "crashed"}

(* New has returned (its single goroutine took the kernel from             *)
(* StateStarting to StateRunning): main is about to migrate.               *)
Init ==
    /\ main = "migrate"
    /\ state = "running" /\ buffered = FALSE /\ server = FALSE /\ missed = FALSE
    /\ listener = "none" /\ http = "new" /\ active = 0 /\ sockets = 0
    /\ starter = {} /\ manager = [d \in Daemons |-> "none"] /\ wg = 0
    /\ canceled = FALSE /\ signaled = FALSE /\ expired = FALSE
    /\ waiter = "none" /\ logOpen = TRUE /\ dbOpen = TRUE

-----------------------------------------------------------------------------
(* main                                                                    *)

(* Migrate succeeds; Listen and StartDaemons get goroutines; graceful      *)
(* registers for signals.  A failing Migrate exits the process.            *)
MigrateAndStart ==
    /\ main = "migrate"
    /\ \/ /\ main' = "wait"
          /\ listener' = "setServer"
          /\ starter' = Daemons
       \/ /\ main' = "exited"
          /\ UNCHANGED <<listener, starter>>
    /\ UNCHANGED <<shared, http, active, sockets, manager, wg, stop>>

Signal ==
    /\ main = "wait" /\ ~ signaled
    /\ signaled' = TRUE
    /\ UNCHANGED <<main, shared, web, jobs, canceled, expired, waiter, logOpen, dbOpen>>

(* Shutdown: state is Running, so it becomes Stopping.                     *)
BeginShutdown ==
    /\ main = "wait" /\ signaled
    /\ main' = "shutdown"
    /\ IF StoreBuffer THEN buffered' = TRUE /\ UNCHANGED state
                      ELSE state' = "stopping" /\ UNCHANGED buffered
    /\ UNCHANGED <<server, missed, web, jobs, stop>>

Flush ==
    /\ buffered
    /\ buffered' = FALSE
    /\ state' = "stopping"
    /\ UNCHANGED <<main, server, missed, web, jobs, stop>>

(* server.Shutdown, if Listen has set the server: no new requests ...      *)
ReadServer ==
    /\ main = "shutdown"
    /\ IF server THEN main' = "stopServer" /\ http' = "closed" /\ ~ buffered
                 ELSE main' = "cancel" /\ UNCHANGED http
    /\ missed' = (~ server /\ buffered)
    /\ UNCHANGED <<state, buffered, server, listener, active, sockets, jobs, stop>>

(* Mutants: active requests are cut off; the wait has no deadline.         *)
StopServerAtOnce ==
    /\ main = "stopServer"
    /\ main' = "cancel"
    /\ UNCHANGED <<shared, web, jobs, stop>>

StopServerPatiently ==
    /\ main = "stopServer"
    /\ active = 0
    /\ main' = "cancel"
    /\ UNCHANGED <<shared, web, jobs, stop>>

(* ... and a wait for those that are active, or for the deadline; not for  *)
(* the websockets.                                                         *)
StopServer ==
    /\ main = "stopServer"
    /\ active = 0 \/ expired
    /\ main' = "cancel"
    /\ UNCHANGED <<shared, web, jobs, stop>>

(* The deadline of the shutdown context.                                   *)
Expire ==
    /\ main \in {"stopServer", "cancel", "cleanup", "select"}
    /\ ~ expired
    /\ expired' = TRUE
    /\ UNCHANGED <<main, shared, web, jobs, canceled, signaled, waiter, logOpen, dbOpen>>

(* Cancel the application's context (its mutex flushes the buffer) and     *)
(* start the goroutine that waits for wg.                                  *)
Cancel ==
    /\ main = "cancel" /\ ~ buffered
    /\ canceled' = TRUE
    /\ waiter' = "waiting"
    /\ main' = "cleanup"
    /\ UNCHANGED <<shared, web, jobs, signaled, expired, logOpen, dbOpen>>

(* The shutdown functions: the access log is closed.                       *)
RunShutdownFns ==
    /\ main = "cleanup"
    /\ logOpen' = FALSE
    /\ main' = "select"
    /\ UNCHANGED <<shared, web, jobs, canceled, signaled, expired, waiter, dbOpen>>

(* select: the deadline returns an error, the waiter lets Shutdown go on;  *)
(* if both are ready, either may be taken.  At the end the process exits.  *)
Select ==
    /\ main = "select"
    /\ \/ expired /\ main' = "exited" /\ state' = "stopped"
       \/ waiter = "done" /\ main' = "close" /\ UNCHANGED state
    /\ UNCHANGED <<buffered, server, missed, web, jobs, stop>>

CloseDB ==
    /\ main = "close"
    /\ \/ dbOpen /\ dbOpen' = FALSE /\ UNCHANGED <<main, state>>
       \/ ~ dbOpen /\ main' = "exited" /\ state' = "stopped" /\ UNCHANGED dbOpen
    /\ UNCHANGED <<buffered, server, missed, web, jobs, canceled, signaled, expired, waiter, logOpen>>

Main == MigrateAndStart \/ BeginShutdown \/ ReadServer \/ StopServer
        \/ Cancel \/ RunShutdownFns \/ Select \/ CloseDB

(* close(done), once the counter of wg is zero.                            *)
Wait ==
    /\ Alive /\ waiter = "waiting" /\ wg = 0
    /\ waiter' = "done"
    /\ UNCHANGED <<main, shared, web, jobs, canceled, signaled, expired, logOpen, dbOpen>>

-----------------------------------------------------------------------------
(* Listen                                                                  *)

SetServer ==
    /\ Alive /\ listener = "setServer"
    /\ server' = TRUE
    /\ listener' = "check"
    /\ UNCHANGED <<main, state, buffered, missed, http, active, sockets, jobs, stop>>

(* Mutant: the loop restarts the server whatever the state.                *)
CheckNothing ==
    /\ Alive /\ listener = "check"
    /\ listener' = "serve"
    /\ UNCHANGED <<main, shared, http, active, sockets, jobs, stop>>

(* The top of the retry loop.                                              *)
CheckState ==
    /\ Alive /\ listener = "check"
    /\ listener' = IF state \in {"stopping", "stopped"} THEN "done" ELSE "serve"
    /\ UNCHANGED <<main, shared, http, active, sockets, jobs, stop>>

(* ListenAndServe returns ErrServerClosed after a Shutdown; otherwise the  *)
(* address may be taken, which is an error, or the server listens.         *)
ListenAndServe ==
    /\ Alive /\ listener = "serve"
    /\ IF http = "closed"
       THEN listener' = "done" /\ UNCHANGED http
       ELSE \/ listener' = "sleep" /\ UNCHANGED http
            \/ listener' = "serving" /\ http' = "listening"
    /\ UNCHANGED <<main, shared, active, sockets, jobs, stop>>

(* Serve returns: ErrServerClosed after a Shutdown, or another error.      *)
ServeReturns ==
    /\ Alive /\ listener = "serving"
    /\ IF http = "closed"
       THEN listener' = "done" /\ UNCHANGED http
       ELSE listener' = "sleep" /\ http' = "new"
    /\ UNCHANGED <<main, shared, active, sockets, jobs, stop>>

(* Two seconds of sleep, then the next round.                              *)
Retry ==
    /\ Alive /\ listener = "sleep"
    /\ listener' = "check"
    /\ UNCHANGED <<main, shared, http, active, sockets, jobs, stop>>

Listen == SetServer \/ CheckState \/ ListenAndServe \/ Retry

Request ==
    /\ Alive /\ http = "listening" /\ active + sockets < MaxActive
    /\ active' = active + 1
    /\ UNCHANGED <<main, shared, listener, http, sockets, jobs, stop>>

Respond ==
    /\ Alive /\ active > 0
    /\ active' = active - 1
    /\ UNCHANGED <<main, shared, listener, http, sockets, jobs, stop>>

(* The request for a websocket has its connection hijacked.  It goes on    *)
(* running operations, on what Shutdown closes as well as before, until    *)
(* the client closes it or the process ends.                               *)
Hijack ==
    /\ Alive /\ active > 0
    /\ active' = active - 1 /\ sockets' = sockets + 1
    /\ UNCHANGED <<main, shared, listener, http, jobs, stop>>

CloseSocket ==
    /\ Alive /\ sockets > 0
    /\ sockets' = sockets - 1
    /\ UNCHANGED <<main, shared, listener, http, active, jobs, stop>>

Connections == Request \/ Respond \/ Hijack \/ CloseSocket

-----------------------------------------------------------------------------
(* StartDaemons and Manager.Start                                          *)

StartDaemon(d) ==
    /\ Alive /\ d \in starter
    /\ starter' = starter \ {d}
    /\ manager' = [manager EXCEPT ![d] = "add"]
    /\ UNCHANGED <<main, shared, web, wg, stop>>

(* wg.Add(1) is the first thing the manager's goroutine does.              *)
Register(d) ==
    /\ Alive /\ manager[d] = "add"
    /\ wg' = wg + 1
    /\ manager' = [manager EXCEPT ![d] = "tick"]
    /\ UNCHANGED <<main, shared, web, starter, stop>>

(* Mutant: the manager runs the daemon without a look at the context.      *)
TickAnyway(d) ==
    /\ Alive /\ manager[d] = "tick"
    /\ manager' = [manager EXCEPT ![d] = "running"]
    /\ UNCHANGED <<main, shared, web, starter, wg, stop>>

(* A tick of the backoff ticker: the context is canceled and the manager   *)
(* leaves (wg.Done), or the daemon is run.                                 *)
Tick(d) ==
    /\ Alive /\ manager[d] = "tick"
    /\ IF canceled THEN wg' = wg - 1 /\ manager' = [manager EXCEPT ![d] = "done"]
                   ELSE manager' = [manager EXCEPT ![d] = "running"] /\ UNCHANGED wg
    /\ UNCHANGED <<main, shared, web, starter, stop>>

(* Run returns: it always does once the context is canceled, and it may    *)
(* return an error before that.  Either way the next tick follows.         *)
RunReturns(d) ==
    /\ Alive /\ manager[d] = "running"
    /\ manager' = [manager EXCEPT ![d] = "tick"]
    /\ UNCHANGED <<main, shared, web, starter, wg, stop>>

(* A panic in Run unwinds the goroutine of Start, in which no deferred     *)
(* function recovers: recoverPanic ran, once, in a goroutine of its own.   *)
Panic(d) ==
    /\ Alive /\ Panics /\ manager[d] = "running"
    /\ main' = "crashed"
    /\ UNCHANGED <<shared, web, jobs, stop>>

Manage(d) == StartDaemon(d) \/ Register(d) \/ Tick(d)

Next ==
    \/ Main \/ Signal \/ Flush \/ Expire \/ Wait
    \/ Listen \/ ServeReturns \/ Connections
    \/ \E d \in Daemons : Manage(d) \/ RunReturns(d) \/ Panic(d)

Spec == Init /\ [][Next]_vars

(* Goroutines that can run do run, the deadline passes, the buffer is      *)
(* flushed, a daemon returns once its context is canceled.  Nothing makes  *)
(* requests arrive or end, or Serve fail.                                  *)
FairSpec ==
    /\ Spec
    /\ WF_vars(Main) /\ WF_vars(Flush) /\ WF_vars(Expire) /\ WF_vars(Wait)
    /\ WF_vars(Listen) /\ WF_vars(http = "closed" /\ ServeReturns)
    /\ \A d \in Daemons : WF_vars(Manage(d)) /\ WF_vars(canceled /\ RunReturns(d))

-----------------------------------------------------------------------------
TypeOK ==
    /\ main \in MainLabels
    /\ state \in {"running", "stopping", "stopped"}
    /\ buffered \in BOOLEAN /\ server \in BOOLEAN /\ missed \in BOOLEAN
    /\ listener \in ListenerLabels
    /\ http \in {"new", "listening", "closed"}
    /\ active \in 0..MaxActive /\ sockets \in 0..(MaxActive - active)
    /\ starter \subseteq Daemons
    /\ manager \in [Daemons -> ManagerLabels]
    /\ wg \in 0..Cardinality(Daemons)
    /\ canceled \in BOOLEAN /\ signaled \in BOOLEAN /\ expired \in BOOLEAN
    /\ waiter \in {"none", "waiting", "done"}
    /\ logOpen \in BOOLEAN /\ dbOpen \in BOOLEAN

(* Once the database is closed no daemon runs any more, wherever its       *)
(* manager was when the signal came: even one whose wg.Add came too late   *)
(* for wg.Wait has seen the canceled context instead.                      *)
NoDaemonWithoutDB == ~ dbOpen => \A d \in Daemons : manager[d] # "running"

(* The wait group counts the managers between Add and Done.                *)
WaitGroupCounts == wg = Cardinality({d \in Daemons : manager[d] \in {"tick", "running"}})

(* While an HTTP request is active the access log and the database stay    *)
(* open, unless the deadline of the shutdown has passed or main missed the *)
(* server that took the request.  A websocket has no such promise.         *)
OpenWhileActive == active > 0 /\ ~ expired /\ ~ missed => logOpen /\ dbOpen

(* The same of websockets, which does not hold: Shutdown goes on to close  *)
(* the database under the operations of a websocket.                       *)
OpenWhileConnected == sockets > 0 /\ ~ expired /\ ~ missed => dbOpen

StoppedListening ==
    main \in {"cancel", "cleanup", "select", "close"} => http # "listening"

(* Once Shutdown has dealt with the server it does not listen, wherever    *)
(* Listen was in its retry loop, unless main missed it: main's write of    *)
(* state had not been seen yet, nor had Listen's write of server.          *)
ListensOnlyIfMissed == ~ missed => StoppedListening

(* kernel.go: "If the app is stopped or stopping, don't retry to start the *)
(* server."  Once Shutdown has dealt with the server, it does not listen.  *)
NotListeningOnceStopped == StoppedListening

(* A signal ends the process, whatever daemons and requests do.            *)
SignalEndsProcess == signaled ~> ~ Alive

(* daemon.go: "recoverPanic recovers a crashed daemon and restarts it."    *)
PanicIsRecovered == main # "crashed"
=============================================================================

--------------------------- MODULE Lifecycle_proofs ---------------------------
(***************************************************************************)
(* What is proved of the life of the server process, for any finite set of *)
(* daemons and any number of active requests, with and without a buffer    *)
(* for main's writes and with and without panics; and at the end of one of *)
(* its daemons, that of backups, for days and minutes of any length.       *)
(***************************************************************************)
EXTENDS Lifecycle, Backup, FiniteSetTheorems, TLAPS

(* The managers that the wait group counts.                                *)
Counted == {d \in Daemons : manager[d] \in {"tick", "running"}}

(* StartDaemons starts a manager once.                                     *)
StartedOnce ==
    /\ \A d \in starter : manager[d] = "none"
    /\ main = "migrate" => starter = {} /\ \A d \in Daemons : manager[d] = "none"

(* Behind Cancel the context is canceled, so no manager starts its daemon  *)
(* again; behind wg.Wait none runs it; the database is closed after that.  *)
DaemonsStop ==
    /\ main \notin {"cleanup", "select", "close", "exited", "crashed"} => waiter = "none"
    /\ waiter # "none" => canceled
    /\ waiter = "done" => \A d \in Daemons : manager[d] # "running"
    /\ main = "close" \/ ~ dbOpen => waiter = "done"

Dealt == {"cancel", "cleanup", "select", "close"} \* behind ReadServer and StopServer
Downwards == Dealt \cup {"shutdown", "stopServer"}

(* Main's write of StateStopping is in its buffer or seen by Listen, and it*)
(* stays in the buffer only if main missed the server.                     *)
StoppingSeen ==
    /\ main \in Downwards /\ ~ buffered => state # "running"
    /\ main \in Downwards \ {"shutdown"} /\ buffered => missed

(* The server has been shut down, or Listen will not use it.               *)
ServerStops ==
    /\ main = "migrate" => listener = "none"
    /\ http = "listening" => listener = "serving"
    /\ ~ server => listener \in {"none", "setServer"} /\ http = "new" /\ active = 0
    /\ main = "stopServer" => http = "closed"
    /\ main \in Dealt /\ ~ missed =>
         \/ http = "closed"
         \/ http = "new" /\ listener \in {"none", "setServer", "check", "done"}

(* Main leaves no request behind, and keeps everything open for it.        *)
RequestsServed ==
    /\ main \notin Dealt \cup {"exited", "crashed"} => logOpen /\ dbOpen
    /\ active > 0 /\ ~ expired /\ ~ missed => main \notin Dealt /\ logOpen /\ dbOpen

IInv == /\ TypeOK /\ WaitGroupCounts /\ StartedOnce /\ DaemonsStop
        /\ StoppingSeen /\ ServerStops /\ RequestsServed

-----------------------------------------------------------------------------
(* The wait group                                                          *)

LEMMA DaemonsFinite ==
  ASSUME NEW S \in SUBSET Daemons
  PROVE  IsFiniteSet(S) /\ Cardinality(S) \in 0..Cardinality(Daemons)
<1>1. IsFiniteSet(Daemons)
  BY LifecycleAssumption
<1>2. IsFiniteSet(S) /\ Cardinality(S) <= Cardinality(Daemons)
  BY <1>1, FS_Subset
<1>3. Cardinality(S) \in Nat /\ Cardinality(Daemons) \in Nat
  BY <1>1, <1>2, FS_CardinalityType
<1> QED
  BY <1>2, <1>3

LEMMA CountedFinite == Counted \in SUBSET Daemons /\ IsFiniteSet(Counted)
BY DaemonsFinite DEF Counted

(* A step of one manager changes the set by that manager at most.          *)
LEMMA ManagerMoves ==
  ASSUME TypeOK, NEW d \in Daemons, NEW to,
         manager' = [manager EXCEPT ![d] = to]
  PROVE  Counted' = IF to \in {"tick", "running"} THEN Counted \cup {d} ELSE Counted \ {d}
BY DEF TypeOK, Counted

LEMMA WaitGroupPreserved ==
  TypeOK /\ StartedOnce /\ WaitGroupCounts /\ [Next]_vars => WaitGroupCounts'
<1> SUFFICES ASSUME TypeOK, StartedOnce, WaitGroupCounts, [Next]_vars
             PROVE  WaitGroupCounts'
  OBVIOUS
<1>0. wg = Cardinality(Counted) /\ (WaitGroupCounts' <=> wg' = Cardinality(Counted'))
  BY DEF WaitGroupCounts, Counted
<1>1. ASSUME wg' = wg, Counted' = Counted
      PROVE  WaitGroupCounts'
  BY <1>0, <1>1
<1>2. ASSUME UNCHANGED <<manager, wg>>
      PROVE  WaitGroupCounts'
  BY <1>1, <1>2 DEF Counted
<1>3. ASSUME NEW d \in Daemons, Manage(d) \/ RunReturns(d) \/ Panic(d)
      PROVE  WaitGroupCounts'
  <2>1. CASE StartDaemon(d)
    <3>1. wg' = wg /\ manager' = [manager EXCEPT ![d] = "add"] /\ manager[d] = "none"
      BY <2>1 DEF StartDaemon, StartedOnce
    <3>2. Counted' = Counted \ {d} /\ d \notin Counted
      BY <3>1, ManagerMoves DEF Counted
    <3> QED
      BY <1>1, <3>1, <3>2
  <2>2. CASE Register(d)
    <3>1. wg' = wg + 1 /\ manager' = [manager EXCEPT ![d] = "tick"] /\ manager[d] = "add"
      BY <2>2 DEF Register
    <3>2. Counted' = Counted \cup {d} /\ d \notin Counted
      BY <3>1, ManagerMoves DEF Counted
    <3>3. Cardinality(Counted') = Cardinality(Counted) + 1
      BY <3>2, CountedFinite, FS_AddElement
    <3> QED
      BY <1>0, <3>1, <3>3
  <2>3. CASE Tick(d) /\ canceled
    <3>1. wg' = wg - 1 /\ manager' = [manager EXCEPT ![d] = "done"] /\ manager[d] = "tick"
      BY <2>3 DEF Tick
    <3>2. Counted' = Counted \ {d} /\ d \in Counted
      BY <3>1, ManagerMoves DEF Counted
    <3>3. Cardinality(Counted') = Cardinality(Counted) - 1
      BY <3>2, CountedFinite, FS_RemoveElement
    <3> QED
      BY <1>0, <3>1, <3>3
  <2>4. CASE (Tick(d) /\ ~ canceled) \/ RunReturns(d)
    <3>1. /\ wg' = wg /\ manager[d] \in {"tick", "running"}
          /\ \E to \in {"tick", "running"} : manager' = [manager EXCEPT ![d] = to]
      BY <2>4 DEF Tick, RunReturns
    <3>2. Counted' = Counted \cup {d} /\ d \in Counted
      BY <3>1, ManagerMoves DEF Counted
    <3> QED
      BY <1>1, <3>1, <3>2
  <2>5. CASE Panic(d)
    BY <1>2, <2>5 DEF Panic, jobs
  <2> QED
    BY <1>3, <2>1, <2>2, <2>3, <2>4, <2>5 DEF Manage
<1>4. CASE Main
  BY <1>2, <1>4 DEF Main, MigrateAndStart, BeginShutdown, ReadServer, StopServer, Cancel,
                    RunShutdownFns, Select, CloseDB, jobs
<1>5. CASE Signal \/ Flush \/ Expire \/ Wait
  BY <1>2, <1>5 DEF Signal, Flush, Expire, Wait, jobs
<1>6. CASE Listen \/ ServeReturns \/ Connections
  BY <1>2, <1>6 DEF Listen, SetServer, CheckState, ListenAndServe, Retry, ServeReturns,
                    Connections, Request, Respond, Hijack, CloseSocket, jobs
<1>7. CASE UNCHANGED vars
  BY <1>2, <1>7 DEF vars, jobs
<1> QED
  BY <1>3, <1>4, <1>5, <1>6, <1>7 DEF Next

-----------------------------------------------------------------------------
(* Types                                                                   *)

Flags ==
    /\ buffered \in BOOLEAN /\ server \in BOOLEAN /\ missed \in BOOLEAN
    /\ canceled \in BOOLEAN /\ signaled \in BOOLEAN /\ expired \in BOOLEAN
    /\ logOpen \in BOOLEAN /\ dbOpen \in BOOLEAN

Places ==
    /\ main \in MainLabels /\ state \in {"running", "stopping", "stopped"}
    /\ listener \in ListenerLabels /\ http \in {"new", "listening", "closed"}
    /\ active \in 0..MaxActive /\ sockets \in 0..(MaxActive - active)
    /\ starter \subseteq Daemons /\ manager \in [Daemons -> ManagerLabels]
    /\ waiter \in {"none", "waiting", "done"}

LEMMA FlagsStay == TypeOK /\ [Next]_vars => Flags'
<1> SUFFICES ASSUME TypeOK, [Next]_vars
             PROVE  Flags'
  OBVIOUS
<1>0. Flags
  BY DEF TypeOK, Flags
<1> USE <1>0 DEF Flags
<1>1. CASE MigrateAndStart \/ BeginShutdown
  BY <1>1, Zenon DEF MigrateAndStart, BeginShutdown, shared, stop
<1>2. CASE ReadServer \/ StopServer
  BY <1>2, Zenon DEF ReadServer, StopServer, shared, stop
<1>3. CASE Cancel \/ RunShutdownFns
  BY <1>3, Zenon DEF Cancel, RunShutdownFns, shared
<1>4. CASE Select \/ CloseDB
  BY <1>4, Zenon DEF Select, CloseDB, stop
<1>5. CASE Signal \/ Flush \/ Expire \/ Wait
  BY <1>5, Zenon DEF Signal, Flush, Expire, Wait, shared, stop
<1>6. CASE Listen \/ ServeReturns \/ Connections
  BY <1>6, Zenon DEF Listen, SetServer, CheckState, ListenAndServe, Retry, ServeReturns,
                     Connections, Request, Respond, Hijack, CloseSocket, shared, stop
<1>7. ASSUME NEW d \in Daemons, Manage(d) \/ RunReturns(d) \/ Panic(d)
      PROVE  Flags'
  BY <1>7, Zenon DEF Manage, StartDaemon, Register, Tick, RunReturns, Panic, shared, stop
<1>8. CASE UNCHANGED vars
  BY <1>8, Zenon DEF vars, shared, stop
<1> QED
  BY <1>1, <1>2, <1>3, <1>4, <1>5, <1>6, <1>7, <1>8, Zenon DEF Next, Main

LEMMA InitTypes == Init => TypeOK
<1> SUFFICES ASSUME Init
             PROVE  TypeOK
  OBVIOUS
<1>1. Flags
  BY Zenon DEF Init, Flags
<1>2. Places
  BY LifecycleAssumption DEF Init, Places, MainLabels, ListenerLabels, ManagerLabels
<1>3. wg \in 0..Cardinality(Daemons)
  <2>1. Cardinality({}) \in 0..Cardinality(Daemons) /\ Cardinality({}) = 0
    BY DaemonsFinite, FS_EmptySet
  <2> QED
    BY <2>1 DEF Init
<1> QED
  BY <1>1, <1>2, <1>3 DEF TypeOK, Flags, Places

LEMMA NextTypes ==
  TypeOK /\ StartedOnce /\ WaitGroupCounts /\ [Next]_vars => TypeOK'
<1> SUFFICES ASSUME TypeOK, StartedOnce, WaitGroupCounts, [Next]_vars
             PROVE  TypeOK'
  OBVIOUS
<1>0. Flags'
  BY FlagsStay
<1>1. Places'
  <2> USE LifecycleAssumption DEF TypeOK, Places, MainLabels, ListenerLabels, ManagerLabels
  <2>1. CASE Main
    BY <2>1 DEF Main, MigrateAndStart, BeginShutdown, ReadServer, StopServer, Cancel,
                RunShutdownFns, Select, CloseDB, shared, web, jobs, stop
  <2>2. CASE Signal \/ Flush \/ Expire \/ Wait
    BY <2>2 DEF Signal, Flush, Expire, Wait, shared, web, jobs, stop
  <2>3. CASE Listen \/ ServeReturns \/ Connections
    BY <2>3 DEF Listen, SetServer, CheckState, ListenAndServe, Retry, ServeReturns,
                Connections, Request, Respond, Hijack, CloseSocket, shared, jobs, stop
  <2>4. ASSUME NEW d \in Daemons, Manage(d) \/ RunReturns(d) \/ Panic(d)
        PROVE  Places'
    BY <2>4 DEF Manage, StartDaemon, Register, Tick, RunReturns, Panic,
                shared, web, jobs, stop
  <2>5. CASE UNCHANGED vars
    BY <2>5 DEF vars, shared, web, jobs, stop
  <2> QED
    BY <2>1, <2>2, <2>3, <2>4, <2>5 DEF Next
<1>2. wg' \in 0..Cardinality(Daemons)
  <2>1. WaitGroupCounts'
    BY WaitGroupPreserved
  <2>2. Cardinality(Counted') \in 0..Cardinality(Daemons)
    <3>1. Counted' \in SUBSET Daemons
      BY DEF Counted
    <3> QED
      BY <3>1, DaemonsFinite
  <2> QED
    BY <2>1, <2>2 DEF WaitGroupCounts, Counted
<1> QED
  BY <1>0, <1>1, <1>2 DEF TypeOK, Flags, Places

-----------------------------------------------------------------------------
(* The invariant                                                           *)

LEMMA InitEstablishes == Init => IInv
<1> SUFFICES ASSUME Init
             PROVE  IInv
  OBVIOUS
<1>1. TypeOK
  BY InitTypes
<1>2. WaitGroupCounts
  <2>1. Counted = {} /\ wg = 0
    BY DEF Init, Counted
  <2> QED
    BY <2>1, FS_EmptySet DEF WaitGroupCounts, Counted
<1>3. StartedOnce
  BY DEF Init, StartedOnce
<1>4. DaemonsStop
  BY DEF Init, DaemonsStop
<1>5. StoppingSeen /\ ServerStops
  BY DEF Init, StoppingSeen, ServerStops, Dealt, Downwards
<1>6. RequestsServed
  BY DEF Init, RequestsServed
<1> QED
  BY <1>1, <1>2, <1>3, <1>4, <1>5, <1>6 DEF IInv

LEMMA StartedOncePreserved == TypeOK /\ StartedOnce /\ [Next]_vars => StartedOnce'
<1> SUFFICES ASSUME TypeOK, StartedOnce, [Next]_vars
             PROVE  StartedOnce'
  OBVIOUS
<1> USE DEF StartedOnce
<1>1. CASE Main
  BY <1>1 DEF Main, MigrateAndStart, BeginShutdown, ReadServer, StopServer, Cancel,
              RunShutdownFns, Select, CloseDB, jobs
<1>2. CASE Signal \/ Flush \/ Expire \/ Wait
  BY <1>2 DEF Signal, Flush, Expire, Wait, jobs
<1>3. CASE Listen \/ ServeReturns \/ Connections
  BY <1>3 DEF Listen, SetServer, CheckState, ListenAndServe, Retry, ServeReturns,
              Connections, Request, Respond, Hijack, CloseSocket, jobs
<1>4. ASSUME NEW d \in Daemons, StartDaemon(d)
      PROVE  StartedOnce'
  <2>1. d \in starter /\ starter' = starter \ {d} /\ main' = main
        /\ manager' = [manager EXCEPT ![d] = "add"]
    BY <1>4 DEF StartDaemon
  <2> QED
    BY <2>1 DEF TypeOK
<1>5. ASSUME NEW d \in Daemons, Register(d) \/ Tick(d) \/ RunReturns(d) \/ Panic(d)
      PROVE  StartedOnce'
  <2>1. /\ manager[d] # "none" /\ starter' = starter
        /\ \A e \in Daemons \ {d} : manager'[e] = manager[e]
        /\ main' = main \/ main' = "crashed"
    BY <1>5 DEF Register, Tick, RunReturns, Panic, jobs, TypeOK
  <2> QED
    BY <2>1 DEF TypeOK
<1>6. CASE UNCHANGED vars
  BY <1>6 DEF vars, jobs
<1> QED
  BY <1>1, <1>2, <1>3, <1>4, <1>5, <1>6 DEF Next, Manage

LEMMA DaemonsStopPreserved ==
  TypeOK /\ WaitGroupCounts /\ DaemonsStop /\ [Next]_vars => DaemonsStop'
<1> SUFFICES ASSUME TypeOK, WaitGroupCounts, DaemonsStop, [Next]_vars
             PROVE  DaemonsStop'
  OBVIOUS
<1> USE DEF DaemonsStop
<1>1. CASE Main
  <2>1. CASE MigrateAndStart
    BY <2>1 DEF MigrateAndStart, jobs, stop
  <2>2. CASE BeginShutdown
    BY <2>2 DEF BeginShutdown, jobs, stop
  <2>3. CASE ReadServer
    BY <2>3 DEF ReadServer, jobs, stop
  <2>4. CASE StopServer
    BY <2>4 DEF StopServer, jobs, stop
  <2>5. CASE Cancel
    BY <2>5 DEF Cancel, jobs, stop
  <2>6. CASE RunShutdownFns
    BY <2>6 DEF RunShutdownFns, jobs, stop
  <2>7. CASE Select
    BY <2>7 DEF Select, jobs, stop
  <2>8. CASE CloseDB
    BY <2>8 DEF CloseDB, jobs, stop
  <2> QED
    BY <1>1, <2>1, <2>2, <2>3, <2>4, <2>5, <2>6, <2>7, <2>8 DEF Main
<1>2. CASE Signal \/ Flush \/ Expire
  BY <1>2 DEF Signal, Flush, Expire, jobs, stop
<1>3. CASE Wait
  <2>1. waiter = "waiting" /\ wg = 0 /\ UNCHANGED <<main, manager, canceled, dbOpen>>
    BY <1>3 DEF Wait, jobs
  <2>2. Counted = {}
    BY <2>1, CountedFinite, FS_EmptySet DEF WaitGroupCounts, Counted
  <2>3. \A d \in Daemons : manager'[d] # "running"
    BY <2>1, <2>2 DEF Counted
  <2> QED
    BY <1>3, <2>1, <2>3 DEF Wait
<1>4. CASE Listen \/ ServeReturns \/ Connections
  BY <1>4 DEF Listen, SetServer, CheckState, ListenAndServe, Retry, ServeReturns,
              Connections, Request, Respond, Hijack, CloseSocket, jobs, stop
<1>5. ASSUME NEW d \in Daemons, Manage(d) \/ RunReturns(d)
      PROVE  DaemonsStop'
  <2>1. UNCHANGED <<main, canceled, waiter, dbOpen>>
    BY <1>5 DEF Manage, StartDaemon, Register, Tick, RunReturns, stop
  <2>2. canceled => \A e \in Daemons : manager'[e] = "running" => manager[e] = "running"
    BY <1>5 DEF Manage, StartDaemon, Register, Tick, RunReturns, TypeOK
  <2> QED
    BY <2>1, <2>2
<1>6. ASSUME NEW d \in Daemons, Panic(d)
      PROVE  DaemonsStop'
  BY <1>6 DEF Panic, jobs, stop
<1>7. CASE UNCHANGED vars
  BY <1>7 DEF vars, jobs, stop
<1> QED
  BY <1>1, <1>2, <1>3, <1>4, <1>5, <1>6, <1>7 DEF Next

LEMMA StoppingSeenPreserved == TypeOK /\ StoppingSeen /\ [Next]_vars => StoppingSeen'
<1> SUFFICES ASSUME TypeOK, StoppingSeen, [Next]_vars
             PROVE  StoppingSeen'
  OBVIOUS
<1> USE DEF StoppingSeen, Downwards, Dealt
<1>1. CASE Main
  <2>1. CASE MigrateAndStart
    BY <2>1 DEF MigrateAndStart, shared
  <2>2. CASE BeginShutdown
    BY <2>2 DEF BeginShutdown, shared
  <2>3. CASE ReadServer
    BY <2>3 DEF ReadServer, shared
  <2>4. CASE StopServer
    BY <2>4 DEF StopServer, shared
  <2>5. CASE Cancel
    BY <2>5 DEF Cancel, shared
  <2>6. CASE RunShutdownFns
    BY <2>6 DEF RunShutdownFns, shared
  <2>7. CASE Select
    BY <2>7 DEF Select, shared
  <2>8. CASE CloseDB
    BY <2>8 DEF CloseDB, shared
  <2> QED
    BY <1>1, <2>1, <2>2, <2>3, <2>4, <2>5, <2>6, <2>7, <2>8 DEF Main
<1>2. CASE Signal \/ Flush \/ Expire \/ Wait
  BY <1>2 DEF Signal, Flush, Expire, Wait, shared
<1>3. CASE Listen \/ ServeReturns \/ Connections
  BY <1>3 DEF Listen, SetServer, CheckState, ListenAndServe, Retry, ServeReturns,
              Connections, Request, Respond, Hijack, CloseSocket, shared
<1>4. ASSUME NEW d \in Daemons, Manage(d) \/ RunReturns(d) \/ Panic(d)
      PROVE  StoppingSeen'
  BY <1>4 DEF Manage, StartDaemon, Register, Tick, RunReturns, Panic, shared
<1>5. CASE UNCHANGED vars
  BY <1>5 DEF vars, shared
<1> QED
  BY <1>1, <1>2, <1>3, <1>4, <1>5 DEF Next

LEMMA ServerStopsPreserved ==
  TypeOK /\ StoppingSeen /\ ServerStops /\ [Next]_vars => ServerStops'
<1> SUFFICES ASSUME TypeOK, StoppingSeen, ServerStops, [Next]_vars
             PROVE  ServerStops'
  OBVIOUS
<1> USE DEF ServerStops, Downwards, Dealt
<1>1. CASE MigrateAndStart \/ BeginShutdown
  <2>1. CASE MigrateAndStart
    BY <2>1 DEF MigrateAndStart, shared
  <2>2. CASE BeginShutdown
    BY <2>2 DEF BeginShutdown, web
  <2> QED
    BY <1>1, <2>1, <2>2
<1>2. CASE ReadServer
  <2>1. /\ main = "shutdown" /\ UNCHANGED <<server, listener, active>>
        /\ \/ server /\ main' = "stopServer" /\ http' = "closed"
           \/ ~ server /\ main' = "cancel" /\ http' = http
    BY <1>2 DEF ReadServer
  <2> QED
    BY <2>1
<1>3. CASE StopServer \/ Cancel \/ RunShutdownFns \/ Select \/ CloseDB
  BY <1>3 DEF StopServer, Cancel, RunShutdownFns, Select, CloseDB, shared, web
<1>4. CASE Signal \/ Flush \/ Expire \/ Wait
  BY <1>4 DEF Signal, Flush, Expire, Wait, shared, web
<1>5. CASE SetServer \/ ListenAndServe \/ Retry \/ ServeReturns
  BY <1>5 DEF SetServer, ListenAndServe, Retry, ServeReturns, shared
<1>6. CASE CheckState
  <2>1. main \in Dealt /\ ~ missed => state \in {"stopping", "stopped"}
    BY DEF StoppingSeen, TypeOK
  <2> QED
    BY <1>6, <2>1 DEF CheckState, shared
<1>7. CASE Connections
  BY <1>7 DEF Connections, Request, Respond, Hijack, CloseSocket, shared, TypeOK
<1>8. ASSUME NEW d \in Daemons, Manage(d) \/ RunReturns(d) \/ Panic(d)
      PROVE  ServerStops'
  BY <1>8 DEF Manage, StartDaemon, Register, Tick, RunReturns, Panic, shared, web
<1>9. CASE UNCHANGED vars
  BY <1>9 DEF vars, shared, web
<1> QED
  BY <1>1, <1>2, <1>3, <1>4, <1>5, <1>6, <1>7, <1>8, <1>9 DEF Next, Main, Listen

LEMMA RequestsServedPreserved ==
  TypeOK /\ ServerStops /\ RequestsServed /\ [Next]_vars => RequestsServed'
<1> SUFFICES ASSUME TypeOK, ServerStops, RequestsServed, [Next]_vars
             PROVE  RequestsServed'
  OBVIOUS
<1> USE DEF RequestsServed, Dealt
<1>1. CASE MigrateAndStart \/ BeginShutdown
  BY <1>1 DEF MigrateAndStart, BeginShutdown, shared, web, stop
<1>2. CASE ReadServer
  <2>1. /\ main = "shutdown" /\ UNCHANGED <<active, expired, logOpen, dbOpen>>
        /\ \/ main' = "stopServer"
           \/ ~ server /\ main' = "cancel"
    BY <1>2 DEF ReadServer, stop
  <2>2. ~ server => active = 0
    BY DEF ServerStops
  <2> QED
    BY <2>1, <2>2
<1>3. CASE StopServer \/ Cancel \/ RunShutdownFns
  BY <1>3 DEF StopServer, Cancel, RunShutdownFns, shared, web, stop, TypeOK
<1>4. CASE Select \/ CloseDB
  BY <1>4 DEF Select, CloseDB, web, stop
<1>5. CASE Signal \/ Flush \/ Expire \/ Wait
  BY <1>5 DEF Signal, Flush, Expire, Wait, shared, web, stop
<1>6. CASE Listen \/ ServeReturns
  BY <1>6 DEF Listen, SetServer, CheckState, ListenAndServe, Retry, ServeReturns,
              shared, stop
<1>7. CASE Request
  <2>1. main \in Dealt /\ ~ missed => http # "listening"
    BY DEF ServerStops
  <2> QED
    BY <1>7, <2>1 DEF Request, shared, stop, Alive
<1>8. CASE Respond \/ Hijack \/ CloseSocket
  BY <1>8 DEF Respond, Hijack, CloseSocket, shared, stop, TypeOK
<1>9. ASSUME NEW d \in Daemons, Manage(d) \/ RunReturns(d) \/ Panic(d)
      PROVE  RequestsServed'
  BY <1>9 DEF Manage, StartDaemon, Register, Tick, RunReturns, Panic, shared, web, stop
<1>10. CASE UNCHANGED vars
  BY <1>10 DEF vars, shared, web, stop
<1> QED
  BY <1>1, <1>2, <1>3, <1>4, <1>5, <1>6, <1>7, <1>8, <1>9, <1>10
     DEF Next, Main, Connections

THEOREM Invariance == Spec => []IInv
<1>1. IInv /\ [Next]_vars => IInv'
  BY NextTypes, WaitGroupPreserved, StartedOncePreserved, DaemonsStopPreserved,
     StoppingSeenPreserved, ServerStopsPreserved, RequestsServedPreserved DEF IInv
<1> QED
  BY <1>1, InitEstablishes, PTL DEF Spec

-----------------------------------------------------------------------------
(* TypeOK: among others the counter of the wait group never goes below zero*)
(* (sync.WaitGroup panics then) nor beyond the number of daemons.          *)
THEOREM TypeCorrect == Spec => []TypeOK
<1>1. IInv => TypeOK
  BY DEF IInv
<1> QED
  BY <1>1, Invariance, PTL

(* WaitGroupCounts: Manager.Start calls Add and Done in step with its life,*)
(* whatever its daemon returns.                                            *)
THEOREM WaitGroupIsHonest == Spec => []WaitGroupCounts
<1>1. IInv => WaitGroupCounts
  BY DEF IInv
<1> QED
  BY <1>1, Invariance, PTL

(* NoDaemonWithoutDB: Kernel.Shutdown closes the database behind the last  *)
(* run of the last daemon, although a manager may call wg.Add after        *)
(* wg.Wait has returned.                                                   *)
THEOREM DaemonsEndBeforeDB == Spec => []NoDaemonWithoutDB
<1>1. IInv => NoDaemonWithoutDB
  BY DEF IInv, DaemonsStop, NoDaemonWithoutDB
<1> QED
  BY <1>1, Invariance, PTL

(* OpenWhileActive: requests that Shutdown waits for find the access log   *)
(* and the database open.                                                  *)
THEOREM RequestsFindDB == Spec => []OpenWhileActive
<1>1. IInv => OpenWhileActive
  BY DEF IInv, RequestsServed, OpenWhileActive
<1> QED
  BY <1>1, Invariance, PTL

(* ListensOnlyIfMissed: only a main that read Kernel.server too early, and *)
(* whose write of Kernel.state was seen too late, leaves a server running. *)
THEOREM ServerStaysStopped == Spec => []ListensOnlyIfMissed
<1>1. IInv => ListensOnlyIfMissed
  BY DEF IInv, ServerStops, ListensOnlyIfMissed, StoppedListening, Dealt
<1> QED
  BY <1>1, Invariance, PTL

-----------------------------------------------------------------------------
(* The backup daemon                                                       *)

(* What a dump takes at most does not lead it out of its day: the date in  *)
(* its name is that of the minute it was scheduled for.                    *)
EndsTheSameDay == (Scheduled + 1) * Minute + MaxDump <= DayLength * Minute

(* The scheduled minute of a day, and the day.                             *)
Beginning(d) == (d * DayLength + Scheduled) * Minute
Dawn(d)      == d * (DayLength * Minute)

(* A dump that was begun keeps the next wake-ups out of its minute.        *)
Apart ==
    \A d \in dumped : /\ Beginning(d) <= now
                      /\ loop = "waiting" => Beginning(d) + Minute <= wake
(* Files are those of days in which a dump was begun.                      *)
Named == \A d \in Days : file[d] # "none" => d \in dumped

(* The file that is about to be created is not there, and will be created  *)
(* before the day ends.                                                    *)
Ahead ==
    loop = "create" =>
        \E d \in dumped : file[d] = "none" /\ Dawn(d) <= now /\ deadline < Dawn(d + 1)
                          /\ now <= deadline
Truncated == loop \in {"start", "wait"} => file[day] = "partial"

BackupInv == BackupTypeOK /\ Apart /\ Named /\ Ahead /\ Truncated

(* Division, for any divisor.                                              *)
LEMMA Quotient ==
  ASSUME NEW a \in Nat, NEW b \in Nat \ {0}
  PROVE  /\ a \div b \in Nat /\ a % b \in 0..(b - 1)
         /\ b * (a \div b) <= a /\ a < b * (a \div b) + b
         /\ a = b * (a \div b) + (a % b)
OBVIOUS

LEMMA QuotientIs ==
  ASSUME NEW a \in Nat, NEW b \in Nat \ {0}, NEW q \in Nat, b * q <= a, a < b * q + b
  PROVE  a \div b = q
OBVIOUS

LEMMA ConstantsFit ==
  /\ Minute \in Nat \ {0} /\ DayLength \in Nat \ {0} /\ DayLength * Minute \in Nat \ {0}
  /\ Scheduled \in Nat /\ Scheduled < DayLength
  /\ LastDay \in Nat /\ MaxDelay \in Nat /\ MaxDump \in Nat /\ MaxRestarts \in Nat
<1>1. Minute \in Nat \ {0} /\ DayLength \in Nat \ {0} => DayLength * Minute \in Nat \ {0}
  OBVIOUS
<1> QED
  BY <1>1, BackupAssumption

LEMMA EndIs == End \in Nat /\ End + 1 = (LastDay + 1) * (DayLength * Minute)
<1>1. /\ DayLength * Minute \in Nat \ {0} /\ LastDay \in Nat /\ Minute \in Nat
      /\ DayLength \in Nat
  BY ConstantsFit
<1>2. ASSUME NEW n \in Nat \ {0}, NEW k \in Nat PROVE (k + 1) * n \in Nat /\ (k + 1) * n >= 1
  OBVIOUS
<1>3. /\ (LastDay + 1) * (DayLength * Minute) \in Nat
      /\ (LastDay + 1) * (DayLength * Minute) >= 1
  BY <1>1, <1>2
<1>4. (LastDay + 1) * DayLength * Minute = (LastDay + 1) * (DayLength * Minute)
  BY <1>1
<1> QED
  BY <1>3, <1>4 DEF End

LEMMA DawnIs ==
  ASSUME NEW d \in Nat
  PROVE  Dawn(d) \in Nat /\ Dawn(d + 1) = Dawn(d) + DayLength * Minute
BY ConstantsFit DEF Dawn

LEMMA DayOfIs ==
  ASSUME NEW t \in Nat, NEW d \in Nat, Dawn(d) <= t, t < Dawn(d + 1)
  PROVE  DayOf(t) = d
<1>1. Dawn(d) = (DayLength * Minute) * d
  BY ConstantsFit DEF Dawn
<1> QED
  BY <1>1, DawnIs, ConstantsFit, QuotientIs DEF DayOf

LEMMA DayInDays ==
  ASSUME NEW t \in 0..End
  PROVE  DayOf(t) \in Days
<1>1. PICK d \in Nat : d = DayOf(t) /\ (DayLength * Minute) * d <= t
  BY ConstantsFit, EndIs, Quotient DEF DayOf
<1>2. (DayLength * Minute) * d < (DayLength * Minute) * (LastDay + 1)
  BY <1>1, EndIs, ConstantsFit
<1>3. ASSUME NEW n \in Nat, NEW k \in Nat, NEW m \in Nat, n * k < n * m PROVE k < m
  <2> SUFFICES ASSUME k >= m PROVE FALSE
    BY <1>3
  <2>1. PICK j \in Nat : k = m + j
    OBVIOUS
  <2>2. n * k = n * m + n * j /\ n * j \in Nat /\ n * m \in Nat
    BY <2>1
  <2> QED
    BY <1>3, <2>2
<1>4. d < LastDay + 1
  BY <1>2, <1>3, ConstantsFit
<1> QED
  BY <1>1, <1>4, ConstantsFit DEF Days

(* The scheduled minute of the day that a moment belongs to.               *)
LEMMA ScheduledIs ==
  ASSUME NEW t \in Nat, MinuteOf(t) = Scheduled
  PROVE  /\ DayOf(t) \in Nat
         /\ Beginning(DayOf(t)) <= t /\ t < Beginning(DayOf(t)) + Minute
<1>1. PICK q \in Nat : q = t \div Minute /\ Minute * q <= t /\ t < Minute * q + Minute
  BY ConstantsFit, Quotient
<1>2. PICK e \in Nat : e = q \div DayLength /\ q = DayLength * e + Scheduled
  BY <1>1, ConstantsFit, Quotient DEF MinuteOf
<1>3. DayOf(t) = e
  <2>1. DayLength * e \in Nat /\ Dawn(e) = Minute * (DayLength * e)
    BY ConstantsFit DEF Dawn
  <2>2. Minute * (DayLength * e) <= Minute * q
    BY <1>2, <2>1, ConstantsFit
  <2>3. Dawn(e) <= t
    BY <1>1, <2>1, <2>2, ConstantsFit
  <2>4. Dawn(e + 1) = Minute * (DayLength * e + DayLength)
    BY <2>1, DawnIs, ConstantsFit
  <2>5. q + 1 <= DayLength * e + DayLength
    BY <1>2, <2>1, ConstantsFit
  <2>6. Minute * (q + 1) <= Minute * (DayLength * e + DayLength)
    BY <2>1, <2>5, ConstantsFit
  <2>7. Minute * (q + 1) = Minute * q + Minute /\ Minute * q \in Nat
    BY ConstantsFit
  <2>8. t < Dawn(e + 1)
    BY <1>1, <2>4, <2>6, <2>7, ConstantsFit, DawnIs
  <2> QED
    BY <2>3, <2>8, DayOfIs
<1>4. Beginning(e) = Minute * q
  <2>1. e * DayLength + Scheduled = q
    BY <1>2, ConstantsFit
  <2> QED
    BY <2>1, ConstantsFit DEF Beginning
<1> QED
  BY <1>1, <1>3, <1>4

(* Within the bound a dump that is begun then is over on the same day.     *)
LEMMA BeginsInDay ==
  ASSUME NEW d \in Nat
  PROVE  /\ Beginning(d) \in Nat /\ Dawn(d) <= Beginning(d)
         /\ EndsTheSameDay => Beginning(d) + Minute + MaxDump <= Dawn(d + 1)
<1>1. Beginning(d) = Dawn(d) + Scheduled * Minute /\ Dawn(d) \in Nat
  <2>1. ASSUME NEW a \in Nat, NEW b \in Nat, NEW m \in Nat
        PROVE  (a + b) * m = a * m + b * m
    OBVIOUS
  <2>2. d * DayLength \in Nat /\ (d * DayLength) * Minute = d * (DayLength * Minute)
    BY ConstantsFit
  <2> QED
    BY <2>1, <2>2, ConstantsFit, DawnIs DEF Beginning, Dawn
<1>2. Scheduled * Minute \in Nat /\ (Scheduled + 1) * Minute = Scheduled * Minute + Minute
  BY ConstantsFit
<1> QED
  BY <1>1, <1>2, ConstantsFit, DawnIs DEF EndsTheSameDay

-----------------------------------------------------------------------------
(* The loop, its timer and its processes keep their types, and no moment   *)
(* lies outside of the days.                                               *)
THEOREM BackupTypeCorrect == BackupSpec => []BackupTypeOK
<1>1. BackupInit => BackupTypeOK
  BY EndIs, ConstantsFit DEF BackupInit, BackupTypeOK, Days
<1>2. BackupTypeOK /\ [BackupNext]_backupVars => BackupTypeOK'
  <2> SUFFICES ASSUME BackupTypeOK, [BackupNext]_backupVars PROVE BackupTypeOK'
    OBVIOUS
  <2>0. DayOf(now) \in Days /\ now \in Nat
    BY DayInDays, EndIs DEF BackupTypeOK
  <2>1. ASSUME Sleep, now' = now PROVE
          /\ loop' = "waiting" /\ wake' \in 0..(End + Minute)
          /\ deadline' \in 0..(End + Minute + MaxDelay + MaxDump)
    BY <2>1, EndIs, ConstantsFit DEF Sleep, Interval, BackupTypeOK
  <2>2. CASE Elapse
    BY <2>2, EndIs DEF Elapse, BackupTypeOK
  <2>3. CASE Wake
    <3>1. CASE Sleep /\ UNCHANGED dumped
      BY <2>1, <2>3, <3>1 DEF Wake, BackupTypeOK
    <3>2. CASE loop' = "create" /\ deadline' = now + MaxDump
               /\ dumped' = dumped \cup {DayOf(now)} /\ UNCHANGED wake
      BY <2>0, <2>3, <3>2, EndIs, ConstantsFit DEF Wake, BackupTypeOK
    <3> QED
      BY <2>3, <3>1, <3>2 DEF Wake
  <2>4. CASE CreateFile
    BY <2>0, <2>1, <2>4 DEF CreateFile, BackupTypeOK
  <2>5. CASE StartDump
    BY <2>1, <2>5 DEF StartDump, BackupTypeOK
  <2>6. CASE DumpExits
    BY <2>6 DEF DumpExits, BackupTypeOK
  <2>7. CASE GzipExits
    BY <2>1, <2>7 DEF GzipExits, BackupTypeOK
  <2>8. CASE Shutdown
    BY <2>8, ConstantsFit DEF Shutdown, BackupTypeOK
  <2>9. CASE Run
    BY <2>1, <2>9 DEF Run, BackupTypeOK
  <2>10. CASE UNCHANGED backupVars
    BY <2>10 DEF backupVars, BackupTypeOK
  <2> QED
    BY <2>2, <2>3, <2>4, <2>5, <2>6, <2>7, <2>8, <2>9, <2>10 DEF BackupNext
<1> QED
  BY <1>1, <1>2, PTL DEF BackupSpec


(* Wake-ups that begin a dump are never in the minute of an earlier dump.  *)
LEMMA WakesApart ==
  ASSUME BackupTypeOK, Apart, loop = "waiting", now >= wake, MinuteOf(now) = Scheduled
  PROVE  DayOf(now) \notin dumped
<1>1. now \in Nat /\ wake \in Nat
  BY EndIs, ConstantsFit DEF BackupTypeOK
<1>2. now < Beginning(DayOf(now)) + Minute /\ Beginning(DayOf(now)) \in Nat
  BY <1>1, ScheduledIs, BeginsInDay
<1> QED
  BY <1>1, <1>2, ConstantsFit DEF Apart

LEMMA SleepApart ==
  ASSUME BackupTypeOK, Apart, Sleep, now' = now, dumped' = dumped
  PROVE  Apart'
<1>1. now \in Nat /\ wake' = now + Minute /\ wake' \in Nat
  BY EndIs, ConstantsFit DEF BackupTypeOK, Sleep, Interval
<1>2. \A d \in dumped : d \in Nat
  BY ConstantsFit DEF BackupTypeOK, Days
<1>3. ASSUME NEW d \in dumped PROVE Beginning(d) + Minute <= wake'
  BY <1>1, <1>2, BeginsInDay, ConstantsFit DEF Apart
<1> QED
  BY <1>3 DEF Apart, Beginning

LEMMA BackupInvInit == BackupInit => BackupInv
<1> SUFFICES ASSUME BackupInit PROVE BackupInv
  OBVIOUS
<1>1. BackupTypeOK
  BY EndIs, ConstantsFit DEF BackupInit, BackupTypeOK, Days
<1>2. Apart /\ Named /\ Ahead /\ Truncated
  BY DEF BackupInit, Apart, Named, Ahead, Truncated
<1> QED
  BY <1>1, <1>2 DEF BackupInv

LEMMA BackupInvNext ==
  ASSUME EndsTheSameDay, BackupInv, BackupTypeOK', [BackupNext]_backupVars
  PROVE  /\ BackupInv'
         /\ \A d \in Days : file[d] = "complete" => file'[d] = "complete"
<1>0. /\ BackupTypeOK /\ Apart /\ Named /\ Ahead /\ Truncated
      /\ now \in Nat /\ wake \in Nat /\ deadline \in Nat
      /\ file \in [Days -> {"none", "partial", "complete"}]
      /\ \A d \in dumped : d \in Days /\ d \in Nat
      /\ Days \subseteq Nat
  BY EndIs, ConstantsFit DEF BackupInv, BackupTypeOK, Days
<1> DEFINE Stay == \A d \in Days : file[d] = "complete" => file'[d] = "complete"
<1>1. CASE Elapse
  <2>1. /\ now' = now + 1
        /\ loop # "down" => now < deadline
        /\ UNCHANGED <<loop, wake, deadline, day, dump, file, restarts, dumped, succeeded>>
    BY <1>1 DEF Elapse
  <2>2. Apart'
    <3>1. ASSUME NEW d \in dumped PROVE Beginning(d) <= now + 1
      BY <1>0, BeginsInDay DEF Apart
    <3> QED
      BY <1>0, <2>1, <3>1 DEF Apart, Beginning
  <2>3. Ahead'
    <3>1. ASSUME NEW d \in dumped, Dawn(d) <= now PROVE Dawn(d) <= now + 1
      BY <1>0, <3>1, DawnIs
    <3>2. ASSUME loop = "create", now <= deadline PROVE now + 1 <= deadline
      BY <1>0, <2>1, <3>2
    <3> QED
      BY <1>0, <2>1, <3>1, <3>2 DEF Ahead, Dawn
  <2>4. Named' /\ Truncated' /\ Stay
    BY <1>0, <2>1 DEF Named, Truncated
  <2> QED
    BY <2>2, <2>3, <2>4 DEF BackupInv
<1>2. CASE Wake
  <2>0. /\ loop = "waiting" /\ now >= wake
        /\ UNCHANGED <<now, day, dump, file, restarts, succeeded>>
    BY <1>2 DEF Wake
  <2>1. CASE Sleep /\ UNCHANGED dumped
    <3>1. loop' = "waiting"
      BY <2>1 DEF Sleep
    <3> QED
      BY <1>0, <2>0, <2>1, <3>1, SleepApart DEF BackupInv, Named, Ahead, Truncated
  <2>2. CASE /\ MinuteOf(now) = Scheduled /\ loop' = "create" /\ deadline' = now + MaxDump
             /\ dumped' = dumped \cup {DayOf(now)} /\ UNCHANGED wake
    <3>1. PICK d \in Nat : d = DayOf(now)
      BY <1>0, <2>2, ScheduledIs
    <3>2. Beginning(d) <= now /\ now < Beginning(d) + Minute /\ d \notin dumped
      BY <1>0, <2>0, <2>2, <3>1, ScheduledIs, WakesApart
    <3>3. d \in Days
      BY <3>1, DayInDays DEF BackupInv, BackupTypeOK
    <3>4. file[d] = "none"
      BY <1>0, <3>2, <3>3 DEF Named
    <3>5. Dawn(d) <= now /\ deadline' < Dawn(d + 1) /\ now <= deadline'
      BY <1>0, <2>2, <3>2, BeginsInDay, DawnIs, ConstantsFit
    <3>6. Apart'
      BY <1>0, <2>0, <2>2, <3>1, <3>2 DEF Apart, Beginning
    <3>7. Ahead'
      BY <2>0, <2>2, <3>1, <3>4, <3>5 DEF Ahead, Dawn
    <3>8. Named' /\ Truncated' /\ Stay
      BY <1>0, <2>0, <2>2 DEF Named, Truncated
    <3> QED
      BY <3>6, <3>7, <3>8 DEF BackupInv
  <2> QED
    BY <1>2, <2>1, <2>2 DEF Wake
<1>3. CASE CreateFile
  <2>0. loop = "create" /\ UNCHANGED <<now, dump, restarts, dumped, succeeded>>
    BY <1>3 DEF CreateFile
  <2>1. CASE Sleep /\ UNCHANGED <<day, file>>
    <3>1. loop' = "waiting"
      BY <2>1 DEF Sleep
    <3> QED
      BY <1>0, <2>0, <2>1, <3>1, SleepApart DEF BackupInv, Named, Ahead, Truncated
  <2>2. CASE /\ day' = DayOf(now) /\ file' = [file EXCEPT ![day'] = "partial"]
             /\ loop' = "start" /\ UNCHANGED <<wake, deadline>>
    <3>1. PICK d \in dumped : file[d] = "none" /\ Dawn(d) <= now /\ deadline < Dawn(d + 1)
                              /\ now <= deadline
      BY <1>0, <2>0 DEF Ahead
    <3>2. day' = d /\ d \in Days
      BY <1>0, <2>2, <3>1, DayOfIs, DawnIs
    <3>3. file' = [file EXCEPT ![d] = "partial"]
      BY <2>2, <3>2
    <3>4. Named' /\ Truncated' /\ Stay
      BY <1>0, <2>0, <2>2, <3>1, <3>2, <3>3 DEF Named, Truncated
    <3>5. Apart' /\ Ahead'
      BY <1>0, <2>0, <2>2 DEF Apart, Ahead, Beginning
    <3> QED
      BY <3>4, <3>5 DEF BackupInv
  <2> QED
    BY <1>3, <2>1, <2>2 DEF CreateFile
<1>4. CASE StartDump
  <2>0. loop = "start" /\ UNCHANGED <<now, day, file, restarts, dumped, succeeded>>
    BY <1>4 DEF StartDump
  <2>1. CASE loop' = "wait" /\ UNCHANGED <<wake, deadline>>
    BY <1>0, <2>0, <2>1 DEF BackupInv, Apart, Named, Ahead, Truncated, Beginning
  <2>2. CASE Sleep
    <3>1. loop' = "waiting"
      BY <2>2 DEF Sleep
    <3> QED
      BY <1>0, <2>0, <2>2, <3>1, SleepApart DEF BackupInv, Named, Ahead, Truncated
  <2> QED
    BY <1>4, <2>1, <2>2 DEF StartDump
<1>5. CASE DumpExits
  BY <1>0, <1>5 DEF DumpExits, BackupInv, Apart, Named, Ahead, Truncated, Beginning
<1>6. CASE GzipExits
  <2>0. loop = "wait" /\ Sleep /\ loop' = "waiting" /\ UNCHANGED <<now, day, restarts, dumped>>
    BY <1>6 DEF GzipExits, Sleep
  <2>1. \A d \in Days : file'[d] = file[d] \/ (d = day /\ file'[d] # "none")
    BY <1>0, <1>6 DEF GzipExits
  <2>2. Named' /\ Stay
    BY <1>0, <2>0, <2>1 DEF Named, Truncated
  <2> QED
    BY <1>0, <2>0, <2>2, SleepApart DEF BackupInv, Ahead, Truncated
<1>7. CASE Shutdown
  BY <1>0, <1>7 DEF Shutdown, BackupInv, Apart, Named, Ahead, Truncated, Beginning
<1>8. CASE Run
  <2>1. loop' = "waiting" /\ Sleep /\ UNCHANGED <<now, day, dump, file, restarts, dumped>>
    BY <1>8 DEF Run, Sleep
  <2> QED
    BY <1>0, <2>1, SleepApart DEF BackupInv, Named, Ahead, Truncated
<1>9. CASE UNCHANGED backupVars
  BY <1>0, <1>9 DEF backupVars, BackupInv, Apart, Named, Ahead, Truncated, Beginning
<1> QED
  BY <1>1, <1>2, <1>3, <1>4, <1>5, <1>6, <1>7, <1>8, <1>9 DEF BackupNext

(* For any minute, day, delay of a timer and number of restarts: a dump    *)
(* that is complete is not truncated by another, provided that dumps do    *)
(* not last into the next day.                                             *)
THEOREM DumpsStay ==
  ASSUME EndsTheSameDay
  PROVE  BackupSpec => CompleteDumpsStay
<1>1. BackupInit => BackupInv
  BY BackupInvInit
<1>2. BackupInv /\ BackupTypeOK' /\ [BackupNext]_backupVars
        => BackupInv' /\ [\A d \in Days : file[d] = "complete" => file'[d] = "complete"]_backupVars
  BY BackupInvNext
<1> QED
  BY <1>1, <1>2, BackupTypeCorrect, PTL DEF BackupSpec, CompleteDumpsStay
=============================================================================

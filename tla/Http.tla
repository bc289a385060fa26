--------------------------------- MODULE Http ---------------------------------
(***************************************************************************)
(* A request on its way through the middlewares (internal/app/router.go,   *)
(* graphql.go) to its handler and back.                                    *)
(*                                                                         *)
(* A middleware is a function around the next one: the request enters one  *)
(* behind the other and leaves them in the opposite order, or unwinds them *)
(* in a panic, when only what was deferred is run.  The handler writes its *)
(* answer in several steps, between which it may panic and the deadline    *)
(* may pass.  Requests share nothing here but the log, so one is enough.   *)
(*                                                                         *)
(* What is written to the connection is the server's; the client gets it   *)
(* as long as the connection takes writes, which ends 15 s into a request  *)
(* (serve.go:39), before the deadline of 30 s is there (router.go:73, 97). *)
(*                                                                         *)
(* External: scs's LoadAndSave, which keeps what is written below it in a  *)
(* buffer until the session is saved; net/http's writer, http.Error and    *)
(* FileServer; cors, which answers a preflight by itself; the transports   *)
(* of gqlgen.  Left out: RequestID, RealIP and the version header, which   *)
(* change nothing that is read here; websockets that are really opened;    *)
(* what the handlers do (modules Accounts and Execution).                  *)
(***************************************************************************)
EXTENDS Naturals, SequencesExt

CONSTANTS
    Requests,  \* what clients send
    MaxFaults  \* bound: panics and failures of the session's store

VARIABLES
    req,       \* the request
    at,        \* the middleware it is in, by its number; 0 when it is answered
    going,     \* "in", "out", or "panic"
    todo,      \* what the handler has still to write
    said,      \* what it has decided to write, each time it was called
    writers,   \* who is written to: the connection, and the buffers on top of it
    type,      \* the header Content-Type, which all writers share
    deadline,  \* of the context: "none", "ahead" or "passed"
    served,    \* how often timeoutMiddleware has called the next handler
    log,       \* the statuses that loggerMiddleware has logged
    faults,
    open,      \* does the connection still take writes?
    client,    \* what has come to the client
    finished   \* net/http is done with the request

wire == <<open, client, finished>>
vars == <<req, at, going, todo, said, writers, type, deadline, served, log, faults, wire>>

Routes == {"index", "files", "login", "logout", "locale", "query", "playground"}

ASSUME HttpAssumption ==
    /\ Requests \subseteq [route : Routes, upgrade : BOOLEAN, preflight : BOOLEAN]
    /\ MaxFaults \in Nat

(* Requests for TLC: those to open a websocket are sent where no websocket *)
(* is, preflights to one route.                                            *)
AllRequests ==
    [route : Routes, upgrade : {FALSE}, preflight : {FALSE}]
    \cup [route : {"index", "login", "locale"}, upgrade : {TRUE}, preflight : {FALSE}]
    \cup [route : {"logout"}, upgrade : {FALSE}, preflight : {TRUE}]

-----------------------------------------------------------------------------
(* The order of the middlewares.                                           *)
(* Mutants: the log is written below the recovery from panics; sessions    *)
(* are there in the groups that use them only.                             *)
LoggerBelow == <<"recoverer", "logger", "session", "cors">>
Sessionless == <<"logger", "recoverer", "cors">>

Global == <<"logger", "recoverer", "session", "cors">>

(* graphql.New wraps from the inside out.                                  *)
GraphQL == [query |-> <<"loaders", "locale", "auth">>, playground |-> <<"auth">>]

Group(route) ==
    CASE route \in {"index", "files"} -> <<"timeout">>
      [] route \in {"login", "logout", "locale"} -> <<"timeout", "session">>
      [] OTHER -> GraphQL[route]

Chain == Global \o Group(req.route) \o <<"handler">>
Here  == Chain[at]

(* What a handler may write, in order.                                     *)
Status(c) == [op |-> "status", arg |-> c]
Type(t)   == [op |-> "type", arg |-> t]
Body(b)   == [op |-> "body", arg |-> b]

JSON(status) == <<Type("json"), Status(status), Body("answer")>>
Error == JSON(500)

LoginHandler  == {JSON(200), JSON(422)}
LogoutHandler == {JSON(200), JSON(500)}
LocaleHandler == {<<Status(200), Type("json"), Body("answer")>>, Error}
IndexHandler  == {<<Body("answer")>>, Error}
FileServer    == {<<Type("file"), Status(200), Body("answer")>>,
                  <<Type("text"), Status(404), Body("answer")>>}
QueryHandler  == {<<Type("json"), Body("answer")>>, JSON(422)}
Playground    == {<<Type("html"), Body("answer")>>}

Writes(route) ==
    CASE route = "login"  -> LoginHandler
      [] route = "logout" -> LogoutHandler
      [] route = "locale" -> LocaleHandler
      [] route = "index"  -> IndexHandler
      [] route = "files"  -> FileServer
      [] route = "query"  -> QueryHandler
      [] OTHER            -> Playground

-----------------------------------------------------------------------------
(* Writers.  The first status counts; the connection sends the headers as  *)
(* they are when it gets a status, or its first bytes without one.         *)
Empty == [code |-> 0, body |-> <<>>, type |-> "none"]
IsConnection(ws) == Len(ws) = 1

WithStatus(ws, c, t) ==
    IF Last(ws).code # 0 THEN ws
    ELSE [ws EXCEPT ![Len(ws)].code = c,
                    ![Len(ws)].type = IF IsConnection(ws) THEN t ELSE @]
WithBody(ws, b, t) ==
    LET begun == IF IsConnection(ws) THEN WithStatus(ws, 200, t) ELSE ws
    IN [begun EXCEPT ![Len(ws)].body = @ \o b]
WithError(ws) == WithBody(WithStatus(ws, 500, "text"), <<"error">>, "text")

(* A buffer is written to the writer below it.                             *)
PassedOn(ws, t) ==
    LET top  == Last(ws)
        rest == Front(ws)
    IN WithBody(IF top.code # 0 THEN WithStatus(rest, top.code, t) ELSE rest, top.body, t)

Fault == faults < MaxFaults /\ faults' = faults + 1

-----------------------------------------------------------------------------
(* On the way in.                                                          *)
Pass(name) == at > 0 /\ Here = name /\ going = "in"

(* These put something into the context, or remember the time.             *)
EnterPlain ==
    /\ \E name \in {"logger", "recoverer", "loaders", "locale", "auth"} : Pass(name)
    /\ at' = at + 1
    /\ UNCHANGED <<req, going, todo, said, writers, type, deadline, served, log, faults, wire>>

(* scs loads the session, or answers with an error of its own.             *)
EnterSession ==
    /\ Pass("session")
    /\ \/ /\ at' = at + 1
          /\ writers' = Append(writers, Empty)
          /\ UNCHANGED <<going, type, faults>>
       \/ /\ Fault
          /\ at' = at - 1 /\ going' = "out"
          /\ writers' = WithError(writers) /\ type' = "text"
    /\ UNCHANGED <<req, todo, said, deadline, served, log, wire>>

EnterCors ==
    /\ Pass("cors")
    /\ IF req.preflight
       THEN /\ at' = at - 1 /\ going' = "out"
            /\ writers' = WithStatus(writers, 200, type)
       ELSE at' = at + 1 /\ UNCHANGED <<going, writers>>
    /\ UNCHANGED <<req, todo, said, type, deadline, served, log, faults, wire>>

(* A request to open a websocket is served without a deadline first.       *)
IsServedFirst == req.upgrade /\ served = 0

EnterTimeout ==
    /\ Pass("timeout")
    /\ at' = at + 1
    /\ served' = served + 1
    /\ deadline' = IF IsServedFirst THEN "none" ELSE "ahead"
    /\ UNCHANGED <<req, going, todo, said, writers, type, log, faults, wire>>

-----------------------------------------------------------------------------
(* In the handler.                                                         *)
Call ==
    /\ Pass("handler")
    /\ \E ops \in Writes(req.route) :
         todo' = ops /\ said' = Append(said, ops)
    /\ going' = "working"
    /\ UNCHANGED <<req, at, writers, type, deadline, served, log, faults, wire>>

WriteNext ==
    /\ going = "working" /\ todo # <<>>
    /\ LET op == Head(todo)
       IN /\ writers' = CASE op.op = "status" -> WithStatus(writers, op.arg, type)
                          [] op.op = "body"   -> WithBody(writers, <<op.arg>>, type)
                          [] OTHER            -> writers
          /\ type' = IF op.op = "type" THEN op.arg ELSE type
    /\ todo' = Tail(todo)
    /\ UNCHANGED <<req, at, going, said, deadline, served, log, faults, wire>>

Return ==
    /\ going = "working" /\ todo = <<>>
    /\ going' = "out" /\ at' = at - 1
    /\ UNCHANGED <<req, todo, said, writers, type, deadline, served, log, faults, wire>>

Panic ==
    /\ going = "working" /\ Fault
    /\ going' = "panic" /\ at' = at - 1 /\ todo' = <<>>
    /\ UNCHANGED <<req, said, writers, type, deadline, served, log, wire>>

(* Mutant: the connection takes writes for longer than the deadline.       *)
MissDeadlineInTime ==
    /\ deadline = "ahead"
    /\ deadline' = "passed"
    /\ UNCHANGED <<req, at, going, todo, said, writers, type, served, log, faults, wire>>

(* Of 30 s, when the connection has long been closed to writes.  A context *)
(* that net/http cancels before has no deadline to miss.                   *)
MissDeadline ==
    /\ deadline = "ahead" /\ ~ open
    /\ deadline' = "passed"
    /\ UNCHANGED <<req, at, going, todo, said, writers, type, served, log, faults, wire>>

-----------------------------------------------------------------------------
(* On the way out.                                                         *)
Back(name) == at > 0 /\ Here = name /\ going \in {"out", "panic"}

(* What was deferred: the status of a timeout, which nobody gets.  A       *)
(* context that is canceled in time stays without an error.                *)
TimedOut(ws) == WithStatus(ws, 504, type)

LeaveTimeout ==
    /\ Back("timeout")
    /\ IF going = "out" /\ deadline = "none"
       THEN /\ going' = "in"      \* a websocket: served again
            /\ UNCHANGED <<at, writers, deadline>>
       ELSE /\ at' = at - 1
            /\ deadline' = IF deadline = "ahead" THEN "none" ELSE deadline
            /\ writers' = IF deadline = "passed" THEN TimedOut(writers) ELSE writers
            /\ UNCHANGED going
    /\ UNCHANGED <<req, todo, said, type, served, log, faults, wire>>

(* Mutants: what was written before a panic is sent; it stays.             *)
Sent(ws) == PassedOn(ws, type)
Kept(ws) == ws

Dropped(ws) == Front(ws)

(* scs saves the session and sends what is in its buffer.                  *)
LeaveSession ==
    /\ Back("session")
    /\ at' = at - 1
    /\ \/ /\ writers' = IF going = "out" THEN PassedOn(writers, type) ELSE Dropped(writers)
          /\ UNCHANGED <<type, faults>>
       \/ /\ going = "out" /\ Fault
          /\ writers' = WithError(Front(writers)) /\ type' = "text"
    /\ UNCHANGED <<req, going, todo, said, deadline, served, log, wire>>

Recover ==
    /\ Back("recoverer")
    /\ at' = at - 1 /\ going' = "out"
    /\ IF going = "panic"
       THEN writers' = WithError(writers) /\ type' = "text"
       ELSE UNCHANGED <<writers, type>>
    /\ UNCHANGED <<req, todo, said, deadline, served, log, faults, wire>>

LeavePlain ==
    /\ \E name \in {"cors", "loaders", "locale", "auth"} : Back(name)
    /\ at' = at - 1
    /\ UNCHANGED <<req, going, todo, said, writers, type, deadline, served, log, faults, wire>>

Log ==
    /\ Back("logger")
    /\ at' = at - 1
    /\ log' = IF req.upgrade THEN log ELSE Append(log, writers[1].code)
    /\ UNCHANGED <<req, going, todo, said, writers, type, deadline, served, faults, wire>>

-----------------------------------------------------------------------------
(* The connection.                                                         *)
HeadOf(answer) == [answer EXCEPT !.body = <<>>]

(* The deadline that net/http has set for writes when it read the request. *)
WriteTimeout ==
    /\ open /\ ~ finished
    /\ open' = FALSE
    /\ UNCHANGED <<req, at, going, todo, said, writers, type, deadline, served, log, faults,
                   client, finished>>

(* A buffer of net/http runs full: the client has the headers, and some of *)
(* the body (which is a body cut off, <<>> here) or all of it.             *)
Deliver ==
    /\ open /\ ~ finished
    /\ writers[1].code # 0 /\ client # writers[1]
    /\ client' \in {HeadOf(writers[1]), writers[1]} \ {client}
    /\ UNCHANGED <<req, at, going, todo, said, writers, type, deadline, served, log, faults,
                   open, finished>>

(* Behind the chain net/http sends what is left, if it still can.          *)
Finish ==
    /\ at = 0 /\ ~ finished
    /\ finished' = TRUE
    /\ client' = IF open THEN writers[1] ELSE client
    /\ UNCHANGED <<req, at, going, todo, said, writers, type, deadline, served, log, faults, open>>

-----------------------------------------------------------------------------
Init ==
    /\ req \in Requests
    /\ at = 1 /\ going = "in"
    /\ todo = <<>> /\ said = <<>>
    /\ writers = <<Empty>> /\ type = "none"
    /\ deadline = "none" /\ served = 0
    /\ log = <<>> /\ faults = 0
    /\ open = TRUE /\ client = Empty /\ finished = FALSE

Next ==
    \/ EnterPlain \/ EnterSession \/ EnterCors \/ EnterTimeout
    \/ Call \/ WriteNext \/ Return \/ Panic \/ MissDeadline
    \/ LeaveTimeout \/ LeaveSession \/ Recover \/ LeavePlain \/ Log
    \/ WriteTimeout \/ Deliver \/ Finish

Spec == Init /\ [][Next]_vars

-----------------------------------------------------------------------------
Answers == [code : {0, 200, 404, 422, 500, 504}, body : Seq({"answer", "error"}),
            type : {"none", "json", "file", "text", "html"}]
(* The session middlewares that the request is in.                         *)
Buffering == {i \in 1..at : Chain[i] = "session" /\ (i = at => going # "in")}

TypeOK ==
    /\ req \in [route : Routes, upgrade : BOOLEAN, preflight : BOOLEAN]
    /\ at \in 0..Len(Chain) /\ going \in {"in", "working", "out", "panic"}
    /\ writers \in Seq(Answers) /\ type \in {"none", "json", "file", "text", "html"}
    /\ Len(writers) = 1 + Cardinality(Buffering)
    /\ deadline \in {"none", "ahead", "passed"} /\ served \in 0..2
    /\ log \in Seq({0, 200, 404, 422, 500, 504}) /\ faults \in 0..MaxFaults
    /\ open \in BOOLEAN /\ client \in Answers /\ finished \in BOOLEAN

Connection == writers[1]
IsAnswered == finished

(* What a client gets of an answer: all of it while the connection takes   *)
(* writes, and else nothing, or as much as it had got by then.             *)
Gets(answer) ==
    /\ open => client = answer
    /\ client \in {Empty, HeadOf(answer), answer}

(* Each request but a websocket's is logged once, whatever failed.  The    *)
(* status that is logged is the one that the client got, if it got any; in *)
(* time it did.                                                            *)
LoggedAsAnswered ==
    IsAnswered => /\ Len(log) = IF req.upgrade THEN 0 ELSE 1
                  /\ open => client # Empty
                  /\ ~ req.upgrade /\ client # Empty => log[1] = client.code

(* What fails, be it the handler in the middle of its answer or the        *)
(* session's store behind it, is said in full: the client gets the error   *)
(* and nothing of the answer, neither its status nor a status of a timeout.*)
FailureIsSaid ==
    IsAnswered /\ faults > 0 /\ ~ req.upgrade =>
        Gets([code |-> 500, body |-> <<"error">>, type |-> "text"])

StatusOf(ops) == {ops[i].arg : i \in {k \in DOMAIN ops : ops[k].op = "status"}}
TypeOf(ops)   == {ops[i].arg : i \in {k \in DOMAIN ops : ops[k].op = "type"}}

(* The client gets what the handler said, once: its status (or 200, but    *)
(* never that of a timeout) and its type of content, be it set before the  *)
(* status or after it.  Behind the deadline it gets nothing.               *)
AnsweredAsSaid ==
    IsAnswered /\ faults = 0 /\ ~ req.upgrade /\ ~ req.preflight =>
        /\ Len(said) = 1
        /\ client.body = <<"answer">> \/ (~ open /\ client.body = <<>>)
        /\ client # Empty =>
              /\ deadline # "passed"
              /\ client.code \in IF StatusOf(said[1]) # {} THEN StatusOf(said[1]) ELSE {200}
              /\ TypeOf(said[1]) # {} => client.type \in TypeOf(said[1])

(* An answer is sent in one piece: no middleware adds to what was sent.    *)
SentInOnePiece == [][Connection.code # 0 => Connection' = Connection]_vars

-----------------------------------------------------------------------------
(* What does not hold.                                                     *)

(* router.go: websocket requests "never time out".                         *)
WebsocketsNeverTimeOut == req.upgrade => deadline # "passed"

(* A request is handled once.                                              *)
HandledOnce == Len(said) <= 1

(* What is logged as an answer has come to the client: behind the deadline *)
(* the log has the handler's status, or 504, and the client nothing.       *)
LoggedIsReceived == IsAnswered /\ log # <<>> => client.code = log[1]
=============================================================================

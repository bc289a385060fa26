------------------------------ MODULE Accounts ------------------------------
(***************************************************************************)
(* Users' columns, sessions and connections: login, logout, an update of a *)
(* user's name and password, and any other visit, each on its way through  *)
(* the session middleware of internal/app/router.go and pkg/session, the   *)
(* handlers of internal/pkg/auth and the stores of internal/pkg/user and   *)
(* internal/pkg/audit.                                                     *)
(*                                                                         *)
(* A request is a process: the middleware LOADS the session that the       *)
(* browser's cookie names, the handler runs statement by statement, the    *)
(* middleware SAVES the session at the end, and the answer with its cookie *)
(* travels to the browser.  Requests of one browser may overlap.  Sessions *)
(* keep an idle timeout, so that a session is saved again by every request *)
(* that found it.                                                          *)
(*                                                                         *)
(* A statement needs a connection; MySQL grants MaxConnections.  A         *)
(* transaction keeps its connection until it ends.  The audit entry of a   *)
(* login is written in a transaction that LoginHandler has no handle on.   *)
(*                                                                         *)
(* Not here: lifetimes of sessions, creation and deletion of users (see    *)
(* Membership), and what a session permits: auth.Middleware asks no        *)
(* session in this version, as its first branch is "if true".              *)
(***************************************************************************)
EXTENDS Naturals, FiniteSets

CONSTANTS
    Proc,           \* the requests that may be in flight at once
    Browsers,       \* browsers, each with one cookie
    Users,          \* users; their ids never change here
    Names,          \* names; nothing keeps two users from having the same
    Passwords,      \* passwords of at least four characters
    Blank,          \* an input that was left empty
    Nobody,         \* no user
    Unknown,        \* what a browser knows after overlapping requests
    InitialRows,    \* the table users at the start, with plain passwords
    Requests,       \* the requests browsers may send
    MaxConnections, \* MySQL's max_connections
    MaxRequests,    \* bound: requests sent in one behaviour
    MaxRestarts,    \* bound: restarts of the server in one behaviour
    AllowFailure    \* may a statement fail for no reason visible here?

Ops == {"login", "logout", "update", "visit"}

Request == [op : Ops, browser : Browsers, user : Users,
            name : Names \cup {Blank}, password : Passwords \cup {Blank}]

ASSUME AccountsAssumption ==
    /\ IsFiniteSet(Proc)
    /\ Blank \notin Names \cup Passwords
    /\ {Nobody, Unknown} \cap Users = {} /\ Nobody # Unknown
    /\ InitialRows \in [Users -> [name : Names, password : Passwords]]
    /\ Requests \subseteq Request
    /\ MaxConnections \in Nat \ {0} /\ MaxRequests \in Nat /\ MaxRestarts \in Nat
    /\ AllowFailure \in BOOLEAN

VARIABLES
    users,     \* the committed rows of users
    logged,    \* per user and column, the newest value_new in auditlogs
    sessions,  \* the table sessions: whom a token's row names
    cookie,    \* the session cookie of each browser
    open,      \* transactions that hold a connection
    job,       \* each request in flight
    served,    \* bounds
    restarts,
    told,      \* history: as whom each browser was told that it is logged in
    ended,     \* history: tokens given up while no other request had them
    stale      \* history: users overwritten by an update that read an older row

vars == <<users, logged, sessions, cookie, open, job, served, restarts,
          told, ended, stale>>

-----------------------------------------------------------------------------
(* Requests are numbered; a random token is as good as the number of the   *)
(* login that drew it.  0 is no token.                                     *)
Serials == 1..MaxRequests
Tokens  == Serials
None    == 0

(* bcrypt salts each hash anew: hashes of one password differ.             *)
HashOf(password, salt) == [of |-> password, salt |-> salt]
Hash == [of : Passwords, salt : Serials \cup {None}]
Row  == [name : Names, password : Hash]

Steps == {"load", "find", "renew", "audit", "destroy", "read", "begin", "write",
          "log", "commit", "save", "saveRoot", "respond"}

Idle == [pc |-> "idle"]

(* sent: the token the request came with.  token, user, status: the        *)
(* session as scs keeps it in the request's context.  setsCookie: does     *)
(* the answer carry a cookie?  found: whom FindByName returned; row: what  *)
(* Find returned.  alone: has no request of the same browser overlapped?   *)
Job == [pc : Steps, req : Requests, serial : Serials, sent : Tokens \cup {None},
        token : Tokens \cup {None}, user : Users \cup {Nobody},
        status : {"unmodified", "modified", "destroyed"}, setsCookie : BOOLEAN,
        found : Users \cup {Nobody}, row : Row \cup {Nobody},
        answer : {"none", "ok", "refused", "error"}, alone : BOOLEAN]

Busy == {p \in Proc : job[p] # Idle}
At(p, pc) == p \in Busy /\ job[p].pc = pc
Set(p, j) == job' = [job EXCEPT ![p] = j]

Init ==
    /\ users = [u \in Users |-> [name     |-> InitialRows[u].name,
                                 password |-> HashOf(InitialRows[u].password, None)]]
    /\ logged = users
    /\ sessions = [t \in Tokens |-> Nobody]
    /\ cookie = [b \in Browsers |-> None]
    /\ open = {}
    /\ job = [p \in Proc |-> Idle]
    /\ served = 0 /\ restarts = 0
    /\ told = [b \in Browsers |-> Nobody]
    /\ ended = {} /\ stale = {}

-----------------------------------------------------------------------------
(* Connections.  A statement outside a transaction borrows one for its     *)
(* duration; the pool sets no limit of its own.                            *)
Free == Cardinality(open) < MaxConnections

(* A statement fails without a connection, and for reasons not modelled:   *)
(* the deadline that timeoutMiddleware puts on a request is one of them.   *)
Fails == AllowFailure \/ ~Free

Transaction(j) == <<j.req.op, j.serial>>

(* Mutant: an early return that forgets the transaction.                   *)
Forgotten(j) == open

(* RollbackError, and Commit: the connection is given back.                *)
Ended(j) == open \ {Transaction(j)}

(* login and logout pass the session middleware twice: it is registered    *)
(* for the whole router and again for the group of the backend routes.     *)
Answered(j, a) ==
    [j EXCEPT !.answer = a,
              !.pc = IF j.req.op \in {"login", "logout"} THEN "save" ELSE "saveRoot"]

(* ValidateAuthRequest, ValidateUpdateRequest.                             *)
Valid(r) == /\ r.op \in {"login", "update"} => r.name # Blank
            /\ r.op = "login" => r.password # Blank

FirstStep == [login |-> "find", logout |-> "destroy", update |-> "read"]

Entered(j) ==
    IF j.req.op = "visit" THEN Answered(j, "ok")
    ELSE IF ~Valid(j.req) THEN Answered(j, "refused")
    ELSE [j EXCEPT !.pc = FirstStep[j.req.op]]

-----------------------------------------------------------------------------
(* The way in.                                                             *)
Arrive(p, r) ==
    LET others == {q \in Busy : job[q].req.browser = r.browser}
        new == [pc |-> "load", req |-> r, serial |-> served + 1,
                sent |-> cookie[r.browser], token |-> None, user |-> Nobody,
                status |-> "unmodified", setsCookie |-> FALSE,
                found |-> Nobody, row |-> Nobody, answer |-> "none",
                alone |-> others = {}]
    IN  /\ p \notin Busy /\ served < MaxRequests
        /\ served' = served + 1
        /\ job' = [q \in Proc |->
                     IF q = p THEN new
                     ELSE IF q \in others THEN [job[q] EXCEPT !.alone = FALSE]
                     ELSE job[q]]
        /\ UNCHANGED <<users, logged, sessions, cookie, open, restarts, told, ended, stale>>

(* The middleware loads the session before any handler.  One that is       *)
(* found counts as modified at once, as its idle timeout is to be moved.   *)
Load(p) ==
    LET j == job[p]
        known == j.sent # None /\ sessions[j.sent] # Nobody
    IN  /\ At(p, "load")
        /\ \/ /\ j.sent = None \/ Free
              /\ Set(p, Entered(IF known THEN [j EXCEPT !.token = j.sent,
                                                        !.user = sessions[j.sent],
                                                        !.status = "modified"]
                                         ELSE j))
           \/ /\ j.sent # None /\ Fails
              /\ Set(p, [j EXCEPT !.pc = "respond", !.answer = "error"])
        /\ UNCHANGED <<users, logged, sessions, cookie, open, served, restarts,
                       told, ended, stale>>

-----------------------------------------------------------------------------
(* LoginHandler.  Every error of the look-up reads as an unknown user.     *)
Find(p) ==
    LET j == job[p]
        named == {u \in Users : users[u].name = j.req.name}
    IN  /\ At(p, "find")
        /\ \/ \E u \in named :   \* LIMIT 1 without an order: any of them
                 /\ Free
                 /\ Set(p, IF users[u].password.of = j.req.password
                           THEN [j EXCEPT !.found = u, !.pc = "renew"]
                           ELSE Answered(j, "refused"))
           \/ /\ Fails \/ named = {}
              /\ Set(p, Answered(j, "refused"))
        /\ UNCHANGED <<users, logged, sessions, cookie, open, served, restarts,
                       told, ended, stale>>

(* Mutant: the session keeps the token that it has.                        *)
KeptToken(j) == IF j.token = None THEN j.serial ELSE j.token

(* generateToken                                                           *)
NewToken(j) == j.serial

Deleted(t) == [sessions EXCEPT ![t] = Nobody]

(* RenewToken deletes the row of the old token and draws a new one; only   *)
(* then Put stores the user in the session.                                *)
Renew(p) ==
    LET j == job[p]
    IN  /\ At(p, "renew")
        /\ \/ /\ Free
              /\ sessions' = IF j.token = None THEN sessions ELSE Deleted(j.token)
              /\ Set(p, [j EXCEPT !.pc = "audit", !.token = NewToken(j),
                                  !.user = j.found, !.status = "modified"])
           \/ /\ Fails
              /\ Set(p, Answered(j, "refused"))
              /\ UNCHANGED sessions
        /\ UNCHANGED <<users, logged, cookie, open, served, restarts, told, ended, stale>>

(* auditService.Create without a transaction: ensureTx begins one, the     *)
(* INSERT runs in it or fails, and it is never ended.  The handler does    *)
(* not look at the error.                                                  *)
AuditLogin(p) ==
    LET j == job[p]
    IN  /\ At(p, "audit")
        /\ \/ Free  /\ open' = open \cup {Transaction(j)}
           \/ Fails /\ UNCHANGED open
        /\ Set(p, Answered(j, "ok"))
        /\ UNCHANGED <<users, logged, sessions, cookie, served, restarts, told, ended, stale>>

(* Mutant: the session outlives its row.                                   *)
RowGone(j) == j

(* Destroy leaves an empty session that clears the cookie.                 *)
Destroyed(j) == [j EXCEPT !.token = None, !.user = Nobody, !.status = "destroyed"]

(* LogoutHandler                                                           *)
Destroy(p) ==
    LET j == job[p]
    IN  /\ At(p, "destroy")
        /\ \/ /\ Free
              /\ sessions' = IF j.token = None THEN sessions ELSE Deleted(j.token)
              /\ Set(p, Answered(Destroyed(j), "ok"))
           \/ /\ Fails
              /\ Set(p, Answered(j, "error"))
              /\ UNCHANGED sessions
        /\ UNCHANGED <<users, logged, cookie, open, served, restarts, told, ended, stale>>

-----------------------------------------------------------------------------
(* UpdateUser: Find runs before the transaction.                           *)
Read(p) ==
    LET j == job[p]
    IN  /\ At(p, "read")
        /\ \/ Free  /\ Set(p, [j EXCEPT !.pc = "begin", !.row = users[j.req.user]])
           \/ Fails /\ Set(p, Answered(j, "refused"))
        /\ UNCHANGED <<users, logged, sessions, cookie, open, served, restarts,
                       told, ended, stale>>

BeginUpdate(p) ==
    LET j == job[p]
    IN  /\ At(p, "begin")
        /\ \/ /\ Free
              /\ open' = open \cup {Transaction(j)}
              /\ Set(p, [j EXCEPT !.pc = "write"])
           \/ /\ Fails
              /\ Set(p, Answered(j, "refused"))
              /\ UNCHANGED open
        /\ UNCHANGED <<users, logged, sessions, cookie, served, restarts, told, ended, stale>>

(* Another transaction wrote the row and has not ended.                    *)
Locked(p) == \E q \in Busy \ {p} : /\ job[q].pc \in {"log", "commit"}
                                   /\ job[q].req.user = job[p].req.user

(* Any statement of the transaction, and its COMMIT, may fail; a wait for  *)
(* the lock may be given up.                                               *)
FailInside(p) ==
    LET j == job[p]
    IN  /\ AllowFailure
        /\ \E pc \in {"write", "log", "commit"} : At(p, pc)
        /\ open' = Ended(j)
        /\ Set(p, Answered(j, "refused"))
        /\ UNCHANGED <<users, logged, sessions, cookie, served, restarts, told, ended, stale>>

Write(p) ==
    /\ At(p, "write") /\ ~Locked(p)
    /\ Set(p, [job[p] EXCEPT !.pc = "log"])
    /\ UNCHANGED <<users, logged, sessions, cookie, open, served, restarts,
                   told, ended, stale>>

LogUpdate(p) ==
    /\ At(p, "log")
    /\ Set(p, [job[p] EXCEPT !.pc = "commit"])
    /\ UNCHANGED <<users, logged, sessions, cookie, open, served, restarts,
                   told, ended, stale>>

(* The row that UPDATE writes: a blank password stands for the one read.   *)
Updated(j) ==
    [name     |-> j.req.name,
     password |-> IF j.req.password = Blank THEN j.row.password
                  ELSE HashOf(j.req.password, j.serial)]

(* Mutant: only the first change gets an entry.                            *)
FirstChange(known, from, to) ==
    IF to.name # from.name THEN [known EXCEPT !.name = to.name]
    ELSE [known EXCEPT !.password = to.password]

(* LogUpdate writes an entry for each column in which what was read and    *)
(* what is written differ.                                                 *)
Entries(known, from, to) ==
    [c \in {"name", "password"} |-> IF to[c] # from[c] THEN to[c] ELSE known[c]]

Commit(p) ==
    LET j == job[p]
        u == j.req.user
    IN  /\ At(p, "commit")
        /\ users' = [users EXCEPT ![u] = Updated(j)]
        /\ logged' = [logged EXCEPT ![u] = Entries(logged[u], j.row, Updated(j))]
        /\ stale' = IF users[u] = j.row THEN stale ELSE stale \cup {u}
        /\ open' = Ended(j)
        /\ Set(p, Answered(j, "ok"))
        /\ UNCHANGED <<sessions, cookie, served, restarts, told, ended>>

-----------------------------------------------------------------------------
(* Mutant: an error of the store is not told.                              *)
Silent(j) == j

(* scs answers an error of the store itself, with status 500.              *)
Unsaved(j) == [j EXCEPT !.answer = "error"]

(* The way out: scs saves a modified session, whether or not its row has   *)
(* been deleted since it was loaded.                                       *)
Save(p) ==
    LET j == job[p]
        next == IF j.pc = "save" THEN "saveRoot" ELSE "respond"
    IN  /\ At(p, "save") \/ At(p, "saveRoot")
        /\ \/ /\ j.status = "modified" /\ Free
              /\ sessions' = [sessions EXCEPT ![j.token] = j.user]
              /\ Set(p, [j EXCEPT !.pc = next, !.setsCookie = TRUE])
           \/ /\ j.status = "modified" /\ Fails
              /\ Set(p, [Unsaved(j) EXCEPT !.pc = next])
              /\ UNCHANGED sessions
           \/ /\ j.status # "modified"
              /\ Set(p, [j EXCEPT !.pc = next, !.setsCookie = (j.status = "destroyed")])
              /\ UNCHANGED sessions
        /\ UNCHANGED <<users, logged, cookie, open, served, restarts, told, ended, stale>>

(* What a browser may take from an answer to a request it sent alone.      *)
ToldBy(j, before) ==
    IF ~j.alone THEN Unknown
    ELSE CASE j.req.op = "login"  /\ j.answer = "ok"    -> j.found
           [] j.req.op = "login"  /\ j.answer = "error" -> Unknown
           [] j.req.op = "logout" /\ j.answer = "ok"    -> Nobody
           [] OTHER                                     -> before

(* The browser gets the answer.                                            *)
Respond(p) ==
    LET j == job[p]
        b == j.req.browser
    IN  /\ At(p, "respond")
        /\ cookie' = IF j.setsCookie THEN [cookie EXCEPT ![b] = j.token] ELSE cookie
        /\ told' = [told EXCEPT ![b] = ToldBy(j, @)]
        /\ ended' = IF /\ j.alone /\ j.answer = "ok" /\ j.sent # None
                       /\ j.req.op \in {"login", "logout"}
                    THEN ended \cup {j.sent} ELSE ended
        /\ Set(p, Idle)
        /\ UNCHANGED <<users, logged, sessions, open, served, restarts, stale>>

(* The server stops and starts again: MySQL rolls back what was open and   *)
(* the requests in flight get no answer.                                   *)
Restart ==
    /\ restarts < MaxRestarts
    /\ restarts' = restarts + 1
    /\ open' = {}
    /\ job' = [p \in Proc |-> Idle]
    /\ told' = [b \in Browsers |->
                  IF \E p \in Busy : job[p].req.browser = b THEN Unknown ELSE told[b]]
    /\ UNCHANGED <<users, logged, sessions, cookie, served, ended, stale>>

(* MySQL closes a connection that was idle for its wait_timeout, hours     *)
(* later: only a transaction that nobody ends waits so long.               *)
Expire ==
    /\ \E n \in Serials :
          /\ <<"login", n>> \in open
          /\ open' = open \ {<<"login", n>>}
    /\ UNCHANGED <<users, logged, sessions, cookie, job, served, restarts,
                   told, ended, stale>>

Next ==
    \/ \E p \in Proc :
          \/ \E r \in Requests : Arrive(p, r)
          \/ Load(p) \/ Find(p) \/ Renew(p) \/ AuditLogin(p) \/ Destroy(p)
          \/ Read(p) \/ BeginUpdate(p) \/ Write(p) \/ LogUpdate(p) \/ Commit(p)
          \/ FailInside(p) \/ Save(p) \/ Respond(p)
    \/ Restart \/ Expire

Spec == Init /\ [][Next]_vars

-----------------------------------------------------------------------------
(* Every variable keeps to its type; a stored password is never blank.     *)
TypeOK ==
    /\ users \in [Users -> Row]
    /\ logged \in [Users -> Row]
    /\ sessions \in [Tokens -> Users \cup {Nobody}]
    /\ cookie \in [Browsers -> Tokens \cup {None}]
    /\ open \subseteq {"login", "update"} \X Serials
    /\ job \in [Proc -> Job \cup {Idle}]
    /\ served \in 0..MaxRequests /\ restarts \in 0..MaxRestarts
    /\ told \in [Browsers -> Users \cup {Nobody, Unknown}]
    /\ ended \subseteq Tokens /\ stale \subseteq Users

(* A connection that a transaction holds belongs to an update which is     *)
(* still inside of it, or to the audit entry of a login: no other path of  *)
(* a handler, with whatever failure, leaves a transaction open             *)
(* (user/store.go, audit/store.go).                                        *)
OnlyLoginsForget ==
    \A x \in open :
       \/ x[1] = "login"
       \/ \E p \in Busy : /\ job[p].pc \in {"write", "log", "commit"}
                          /\ x = Transaction(job[p])

(* A session's token never passes from one user to another, however        *)
(* requests with the old token overlap: a login draws a new token before   *)
(* it raises the privileges (user/service.go, Login).                      *)
TokensKeepTheirUser ==
    [][\A t \in Tokens :
          (sessions[t] # Nobody /\ sessions'[t] # Nobody) => sessions'[t] = sessions[t]]_vars

(* What a browser that sends one request after the other was told is so:   *)
(* after a login its cookie names a session of that user, after a logout   *)
(* it has no cookie, whatever failed in between and whatever other         *)
(* browsers did.                                                           *)
AnswersHold ==
    \A b \in Browsers :
       (\A p \in Busy : job[p].req.browser # b) =>
          /\ told[b] \in Users => /\ cookie[b] # None
                                  /\ sessions[cookie[b]] = told[b]
          /\ told[b] = Nobody => cookie[b] = None

(* A token that was given up, by a logout or by a new login, without any   *)
(* other request of its browser in flight is of no use ever after          *)
(* (LogoutHandler, "invalidates the current session").                     *)
EndedStayEnded == \A t \in ended : sessions[t] = Nobody

(* auditlogs tells what users hold: the newest entry of each column is the *)
(* column's value, except for a user of whom one update overwrote what     *)
(* another had written since it read the row.                              *)
LogMatchesRows == \A u \in Users \ stale : logged[u] = users[u]

-----------------------------------------------------------------------------
(* Not true: a request that found the session before the logout saves it   *)
(* again after.                                                            *)
LogoutInvalidates ==
    \A p \in Busy :
       (job[p].pc = "respond" /\ job[p].req.op = "logout" /\ job[p].answer = "ok")
          => job[p].sent = None \/ sessions[job[p].sent] = Nobody

(* Not true: the audit entry of a login stays in an open transaction.      *)
NothingForgotten == Busy = {} => open = {}

(* Not true: an update that leaves the password alone undoes a change of   *)
(* the password that was committed after the update had read the row.      *)
PasswordsStay ==
    [][\A p \in Proc :
          (At(p, "commit") /\ ~At(p, "commit")' /\ job[p].req.password = Blank)
             => users'[job[p].req.user].password = users[job[p].req.user].password]_vars
=============================================================================

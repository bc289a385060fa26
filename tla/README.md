# Models of go-webapp-example

TLA+ modules of the backend in `src/` (Go: chi router, gqlgen, casbin, MySQL),
configurations with which TLC checks them on small instances, and proofs for
TLAPS. Every definition is translated from the code; what a module takes as
given of a library is marked *External* in its header.

    tlc -workers 2 -config MCMembership_mixed.cfg MCMembership   # a run
    tlapm Membership_proofs.tla                                 # a proof

## Inventory

| Component (code) | State | Operations | Correct if | Module |
|---|---|---|---|---|
| users, roles, memberships (`internal/pkg/user`, `internal/pkg/role`, resolvers) | tables `users`, `roles`, `role_user` | create, update, delete, `SyncRoles`, `SyncUsers`, `SyncPermissions` | the enforcer grants what `role_user` says; deletions take all or nothing; no request is left waiting for a transaction that nobody ends | `Membership` |
| access-control enforcer (`pkg/auth`, `internal/app/auth.go`) | casbin's links `g` and policies `p`, saved one by one | `AddRoleForUser`, `RemoveRoleForUser`, `DeleteRole`, `AddRolePermission`, load at start | with a level come the levels below it; the admin stays admin | `Membership` |
| audit log (`internal/pkg/audit`) | table `auditlogs` | `LogCreate`, `LogUpdate`, `LogDelete`, `LogSync` | it tells the truth about rows, across failures | `LifeLog`, in `Membership` and `QuoteStore` |
| sessions, login, logout, users' columns (`internal/pkg/auth`, `pkg/session`, `internal/app/router.go`, `internal/pkg/user`, `internal/pkg/audit`) | `users`, `auditlogs`, scs's `sessions`, the browsers' cookies, MySQL's connections | `LoginHandler`, `LogoutHandler`, `UpdateUser`, the session middleware around each request | the answer a browser got is true; a token stays with its user; every transaction ends | `Accounts` |
| quotes (`internal/pkg/quote`, resolver) | table `quotes` | create, update, delete | log and table agree under concurrency | `QuoteStore` |
| kernel, serve command (`internal/app/kernel.go`, `daemons.go`, `cmd/serve.go`) | `Kernel.state`, `server`, `wg`, context | `New`, `Listen`, `StartDaemons`, `Shutdown`, `graceful` | resources outlive their users; a signal ends the process | `Lifecycle` |
| daemon manager (`internal/daemon/daemon.go`, `example.go`) | ticker, wait group | `Start`, `Run`, `recoverPanic` | no daemon runs without a database | `Lifecycle` |
| backup daemon (`internal/daemon/backup.go`) | timer, two processes, a file per day | `Run`, `createBackupDump` | a dump per day, never overwritten | `Backup` |
| access-log writer (`pkg/log/buffered.go`) | `bufio.Writer`, timer, `flushPending` | `Write`, `delayedFlush`, `Stop`, cleanup | every line reaches the file in time | `LatencyWriter`, `WriteBehind` |
| migrations, updates, seeds (`pkg/db/migration.go`, `internal/app/update.go`, `cmd/`) | `schema_migrations`, `systemparams`, tables | `Up`, `Down`, `Fresh`, `Run`, `seed` | the stored versions are true after any interruption | `Updates` |
| data loaders (`internal/graphql/gqldataloaders`) | cache and batch per request | `Load`, `LoadThunk`, `keyIndex`, `startTimer`, `end` | each load returns its own key's rows, once | `Loader`; what a loader reads and how long it is remembered, `Execution` |
| GraphQL server, directive, resolvers (`internal/graphql/gqlserver`, `gqldirectives`, `gqlresolvers`, `gqlmodels`) | the fields of an operation that run, the caches of a request | executors of queries and mutations, objects and lists; `Restricted`; every resolver | an answer shows what was true, in the order of the fields; what a mutation answers with is done; every operation is answered | `Schema`, `Execution` |
| permissions (`internal/pkg/permission`) | tables `role_user` and `policies`, read only | `GetByUserIDs`, `GetByRoleIDs` | as the loaders | `Execution` |
| router, middlewares (`internal/app/router.go`, `pkg/router`, `internal/graphql/graphql.go`, `pkg/render`) | the request, its deadline, the buffer of its session, the header and status that are sent | each middleware in, out and in a panic; the handlers' writes | the client gets what the handler said or an error, in one piece, and the log says which | `Http` |
| database wrapper (`pkg/db/db.go`), `pkg/util`, locales (`pkg/i18n`) | none of their own | `Begin`, `Commit`, `Rollback`; `UniqueInts` | as their callers | in `Membership`, `Accounts`, `Execution`, `Http` where they are called |
| validation, parameters, clock, cache, configuration, prefixed log | see `PROJECT.json` | | | not modelled: no state, or wording |

How they interact: a request passes a chain of middlewares, which give it a
deadline, its session, new data loaders, its locale and its user, and which
answer for it if it panics. The GraphQL server calls resolvers concurrently, one
goroutine per request and several per query; the operations of one websocket
share the data loaders of the request that opened it. A resolver begins a transaction or
lets a store do it; stores call the audit service with the same transaction, and
the user and role stores call the enforcer *between* statements, with no
transaction around it. Before and after each request's handler, the session
middleware loads and saves the session that the cookie names; the login handler
is outside of GraphQL and calls the audit service without a transaction. The kernel owns the database connection, the context, the
wait group of the daemons and the shutdown functions (among them the access
log's cleanup). `serve` migrates and updates before it listens.

What is hard here: changes of the enforcer inside a transaction that may roll
back; reads on other connections than the transaction's; the unlocked fields of
`Kernel`; a shutdown with a deadline against requests, daemons, retries; a timer
that races the calls it serves; commands that are killed between an effect and
the version that records it. `PROJECT.json` lists each at its line under
`hazards`, with the properties that watch it.

## Modules

* **`Membership`** - one action per statement (or indivisible call) of the
  handlers. A request is a process with a program counter named after the
  statement that comes next (`prepare` ... `commit`), the locals of the handler
  (`req`, `target`, `cur`, `todo`, `grants`) and its transaction (`tx`: rows
  written, rows locked, log entries), which `Commit` applies in one step. A
  handler that returns (`Leave`) does not end its transaction by that: `Fail`
  rolls back exactly at the points of `RollsBack`, whose error paths call
  `RollbackError`, and elsewhere leaves the transaction as it is, with its
  locks. `SyncRoles` is taken apart up to the read of the current roles on
  another connection (`ReadCurrent`) and the audit entry (`LogSync`), which takes
  its id from `nextEntry` before the commit shows it. InnoDB is external:
  committed reads, row and gap locks of
  DELETE, lock waits that may be given up, foreign keys. Each call of the
  enforcer is one step that is saved at once. `Restart` drops what is in
  flight, loads the enforcer again and runs `setupAuth`. The history variable
  `suspect` collects the cells of the membership matrix that an interrupted
  request or two overlapping requests have touched: outside of them the
  enforcer must be right; what happens inside is the subject of the violated
  runs and of the observations below. The history variable `unlogged` has the
  rows that `SyncUsers` wrote last: it logs nothing, so no entry tells of them.
  A user's columns are left to `Accounts`.
* **`Accounts`** - the users' columns, sessions and connections. A request is a
  process again: `Load` (scs reads the session of the cookie), the handler
  (`Find`, `Renew`, `AuditLogin` of the login; `Destroy` of the logout; `Read`,
  `BeginUpdate`, `Write`, `LogUpdate`, `Commit` of an update), `Save` (scs
  commits the session; twice on the way out of login and logout, as the
  middleware is registered twice there) and `Respond`, when the browser gets the
  cookie. `open` is the transactions that hold one of MySQL's connections: the
  INSERT of a login's audit entry leaves one there until MySQL gives up on it
  (`Expire`) or the server restarts. Every statement may fail. The history
  variables say what a browser was `told`, which tokens were `ended` while no
  other request of their browser was on its way, and which users an update
  overwrote on a `stale` reading. scs, its MySQL store, bcrypt and MySQL are
  external; a hash is the password with a salt. Lifetimes of sessions are left
  out, and so is what a session permits: `auth.Middleware` starts with `if true`
  and asks none. The deadline of a request is a statement that fails.
* **`QuoteStore`** - the same style for quotes, with field-wise log entries. It
  implements **`LifeLog`**, the abstract specification of an audit log: a row
  comes or goes in the same step in which the log says so, and so the newest
  entry about its life says whether it exists (`LogTellsLife`). `Fail`
  rolls back on every error path but one: `quote/store.go:74` returns with an
  open transaction if `ToSql` fails, which it does for a statement without a
  table or values only, and that `INSERT` has both.
* **`Lifecycle`** - main, the listener, the starter, one manager per daemon, the
  waiter. Main's write of `Kernel.state`, which nothing orders before the reads
  of `Listen`, goes through a store buffer (`buffered`, `Flush`), so that the
  data race of the code is a choice of the model. A request for a websocket has
  its connection hijacked (`Hijack`, `sockets`): from then on
  `http.Server.Shutdown` does not wait for it.
* **`LatencyWriter`** - bytes are counted, not stored. A write to the file may
  fail, in part too, and `bufio.Writer` then refuses all others (`broken`), as
  nothing looks at the error of `Flush`. It implements **`WriteBehind`**, the
  promise of a writer with a bounded latency, which holds until the cleanup or
  the first failure.
* **`Updates`** - the commands `serve`, `seed`, `migrate up|down|fresh`, one
  process at a time, with kills and failures at every step; what is in the
  database survives them. `tables` says which tables there are, apart from the
  `schema` version that is stored: `Down` takes them away migration by
  migration, and `Drop` one by one (those of one migration together), with a kill
  or an error between any two. `rows` says which tables hold the base rows, and
  `ran` counts how often an update has succeeded on the present tables; when a
  table of `base.yml` goes, so does the success of update 0. `torn` is history:
  a down or drop was broken off and no later one has finished its work.
* **`Backup`** - discrete time, several units to a minute; timers fire late and
  dumps take time, both within bounds.
* **`Schema`** - tables of the generated server: for every field of the root the
  permissions it asks for, what it takes and answers with; for every field of an
  entity whether a data loader has to be asked; which fields an object cannot do
  without. Five thousand generated lines repeat a few functions over them.
  `Extended` joins two of the tables.
* **`Execution`** - those functions. An operation is a tree of fields, each
  named by its path and in a state of its own: `running` its calls of services
  one by one, `asked` for a key, `waiting` for a batch, `fetched`, `done` or
  `null`. Root fields of a mutation run one behind the other (`First`), all
  other fields at once. Caches belong to a request, which is one operation's or
  a websocket's. `hist` keeps the database as it was, so that properties may ask
  when an answer was true. A call of a service is one step, as `Membership`
  takes the calls apart; a batch is one step, as `Loader` does. Of a row only
  its id is kept. `IsValid` says which documents reach the executors: gqlgen has
  checked them against the schema.
* **`Http`** - one request in its chain: `at` is the middleware it is in,
  `going` says whether it enters, leaves, or unwinds in a panic. A handler's
  writes are steps between which it panics or the deadline passes. `writers` is
  the stack of response writers, as the session middleware puts a buffer on top
  and the routes of login and logout have that middleware twice. `open` says
  whether the connection still takes writes: `WriteTimeout` (15 s, `serve.go:39`)
  may end that at any moment and always comes before the deadline of the timeout
  middleware (30 s), so a 504 is written and logged but never received. `client`
  is what the client has got, which is less than what was written if the timeout
  came between (`Deliver`, `Finish`).
* **`Loader`** - resolvers, the timer goroutine and the `end` goroutines of each
  batch. A change of the table between fetches is possible.
* `MCMembership`, `MCAccounts`, `MCQuoteStore`, `MCExecution` hold the
  requests, operations and tables of the runs,
  `*_proofs` the theorems. `Lifecycle_proofs` is also about `Backup`, and
  `Http_proofs` about `LatencyWriter`: the specifications of these two carry the
  component in their names (`BackupSpec`, `WriterSpec`), so that a module can
  extend them beside another. `LifeLog` and `WriteBehind` are abstract
  specifications and translate no lines; they have no `map` entries.

## Runs

Deadlock is not checked where the system may stop: when the bounds on requests,
loads, bytes, time or restarts are used up, or the process has ended. `Updates`
has no such end (an operator may always run another command) and is checked for
deadlock.

| Run | What it shows | Bounds, and why they are enough |
|---|---|---|
| `http` | `LoggedAsAnswered`, `FailureIsSaid`, `AnsweredAsSaid`, `SentInOnePiece`: what the client gets, if the connection takes it, is what the handler said or an error, whole, and the log has its status | every route, preflights and requests to open a websocket where none is; two faults, so that the answer to a failure can fail; the write timeout at any moment, the deadline at any moment behind it |
| `execution` | `ShownWasTrue`, `FieldsInOrder`, `GivenIsDone`, `AnsweredAtLast` | two operations at once, with a request each or on one websocket: mutations of up to three fields, each kind at least once and some of them refused, against queries that go two levels deep; two rows of each kind and two that can be created, one foreign change of a membership, one failing call. 79,000 states |
| `membership` | `LinksAgree`, `LogMatchesUsers`, `LowerLevelsPresent`, `DeleteIsWhole` under failures at any statement and a restart | two requests at once out of three, tables of up to three rows: an original, an admin and a created row of each kind. 391,000 states |
| `membership_sides` | `LastSyncRecorded` (the newest log entry of a user is what the user has, but for rows that `SyncUsers` wrote later), `RequestsReturn` (no error path leaves a transaction that keeps later requests waiting for ever) | as above, two users and two roles; requests that change memberships from either side and deletions, so that a transaction left behind meets someone who needs its rows. 423,000 states |
| `accounts` | answers are true (`AnswersHold`), ended sessions stay ended (`EndedStayEnded`), tokens keep their user, the log matches the rows, only logins forget a transaction | two browsers, two users of one name or another, two connections (fewer than the logins can take), three requests of which two overlap, one restart, any statement may fail. 715,000 states |
| `quotes` | the store implements `LifeLog`; no entry says a value that the row did not get | two rows, two texts, two at once out of three requests: a writer and a deleter of one row and one that comes later |
| `lifecycle` | `NoDaemonWithoutDB`, `OpenWhileActive` (of requests that no websocket has taken over), `ListensOnlyIfMissed`, `SignalEndsProcess`, with store buffer and panics | two daemons and two requests or websockets; the proofs lift both bounds for the invariants |
| `writer` | `FlushIsComing`, refinement of `WriteBehind`, with writes to the file that fail | a buffer of 3 bytes, writes of up to 5 (less than, equal to and more than the buffer), 9 bytes, three callbacks waiting |
| `updates` | `VersionHonest`, `AppliedInOrder`, `ServingUpToDate`, `FailedAreRetried`; the first three but for a database that a broken-off down or drop has left (`torn`) | three migrations (before, with and after the one that creates `systemparams`, of which the first and last hold base rows), three updates, three faults, between two tables that are dropped too |
| `backup` | a complete dump is never truncated by another of the same day | a day of three minutes of two units, three days, delays of up to half a minute, dumps of up to a minute, two restarts |
| `loader` | batches are ended once and not changed afterwards; a load returns its own key's rows and always returns | three resolvers, two keys, batches of two, three loads: a full batch, a shared key and a timer that meets a full batch |
| `membership_race` | **violated**: `RolesAreSet` ("SyncRoles sets the provided role IDs for a user") | two updates of one user |

The violated run states what a comment says; `PROJECT.json` quotes it under
`findings`. All type invariants are proved, and most are not repeated in the runs.
`Http`, `Backup` and `Execution` check theirs as well, as they say more than
types: how many writers are on the stack, how far the timer is ahead, and that the
foreign keys hold. Their mutants show that they notice a
buffer that is left on the stack, memberships of a deleted user and a timer that
is set too late.

### Fairness

* `Membership`: weak fairness of each request's statements, which return with
  their result or with an error that the state forces (`Refused`). No other
  failure is counted on, and not that a wait for a lock is given up: were a
  transaction left behind, its locks would keep others waiting for ever. Two
  deletions that lock each other out (`DeletionsCross`) are the exception, which
  MySQL resolves. Nothing makes clients send requests or servers restart.
* `Accounts`, `QuoteStore`, `Backup`, `Http`: none; they have safety properties
  only.
* `Execution`: weak fairness of each operation: some field of it, or some batch
  of its request, goes on. That goroutines run, statements return and batches
  end is what `Loader` and `Membership` are about. An operation has finitely many
  steps, so nothing is asked of a single field. Clients need not send operations,
  others need not change memberships, and nothing has to fail.
* `Lifecycle`: weak fairness of main, `Listen`, the managers, the waiter, the
  store buffer and the deadline: goroutines that can run do. A daemon's `Run`
  returns once the context is canceled, as both daemons select on it. Requests
  and websockets need not end, and the server need not fail.
* `LatencyWriter`: the timer expires, its callback gets the mutex.
* `Updates`: a command that runs goes on; the operator starts the server again
  and again (strong fairness, as other commands come between).
* `Loader`: batches' timers fire, fetches return, thunks are called.

### Observations

Configurations that are not among the runs reproduce further behaviour worth a
maintainer's look; each gives a counterexample to the property it names.

| Configuration | Behaviour |
|---|---|
| `MCMembership_rollback.cfg` | one `SyncRoles` fails behind calls of the enforcer: the rows are rolled back, the enforcer is not |
| `MCMembership_levels.cfg` | two `SyncPermissions` of one role at once leave a level without the levels below it |
| `MCMembership_admin.cfg` | `updateUser` takes the admin role from the admin; it comes back at the next start only, and only in the enforcer |
| `MCAccounts_logout.cfg` | a request that found the session before the logout saves it again after: the token that the logout ended is good again |
| `MCAccounts_forgotten.cfg` | with no request in flight, the audit entry of a login is still in an open transaction, and never in `auditlogs` |
| `MCAccounts_passwords.cfg` | an update that leaves the password blank undoes a change of the password committed since it read the row |
| `LatencyWriter_cleanup.cfg` | the cleanup is commented "Flush the log file, stop the latency timer": `Stop` flushes nothing |
| `MCQuoteStore_unlogged.cfg` | two updates of one quote at once: one finds nothing to log although it changes the row back |
| `MCExecution_null.cfg` | an operation that answers `null` has changed the database: a field that may not be missing is missing behind a change that succeeded |
| `MCExecution_elements.cfg` | a list of `[User!]!` shows an element that is `null`: the lists of the generated server do not pass it on |
| `MCExecution_own.cfg` | the second field of a mutation shows memberships from before its own change, as the loaders remember what the first one showed |
| `MCExecution_users.cfg` | `updateRole` drops the users it is given when no permissions are given, and takes all users away when permissions are given without users |
| `Http_websocket.cfg` | websocket requests "never time out" (router.go): the middleware has no return behind the call of the next handler, so they are served again, with a deadline |
| `Http_late.cfg` | a status is logged that no client received: with `WriteTimeout` (15 s) before the deadline (30 s), a 504 or a late answer is logged and never sent |
| `Lifecycle_socket.cfg` | the shutdown does not wait for websockets, whose connections are hijacked, and closes the database under their operations |
| `Lifecycle_race.cfg` | the exception in `ListensOnlyIfMissed`: main reads `server` before it is set, `Listen` reads `state` before it is seen, and the server keeps listening during the shutdown |
| `Updates_once.cfg` | an update that ran before a kill runs again, as its version was not stored |
| `Updates_seed.cfg` | the README's `seed`, then `serve`: `seed` stores no version, and the server fails to seed again |
| `Updates_down.cfg` | a `migrate down` that is killed behind its first step drops the table that update 0 has filled and leaves `update_version`: the next `serve` creates the table again, runs nothing, and serves without the base rows |
| `Backup_midnight.cfg` | the scheduled minute is the day's last: a dump gets the name of the next day, and the next dump truncates it |
| `Backup_skips.cfg` | late timers and a dump's duration shift the wake-ups past the scheduled minute: a day has no dump |

Two more comments do not hold and are stated without a configuration, as a step
shows it: `PanicIsRecovered` of `Lifecycle` ("recoverPanic recovers a crashed
daemon and restarts it": it runs in a goroutine of its own, so the panic ends the
process) and `SuccessIsComplete` of `Backup` (`mysqldump` fails, gzip ends well,
and "created successfully" is logged).

## Proofs

TLAPS checks these for every value of the constants that the named assumptions
allow (`BoundsAssumption` and so on, all of them only about types, finiteness and
the order of bounds). One theorem assumes more and says so: `DumpsStay`. Each
property of a passing run that is not about liveness is stated by a
theorem. Fairness and thus liveness (`SignalEndsProcess`,
`RequestsReturn`, `FailedAreRetried`, `LoadsReturn`, `AnsweredAtLast`, the
fairness half of `KeepsPromise`) stay with TLC.

* **`Membership_proofs`**, for any number of requests at once. `OthersKept` and
  `FitsKept` reduce a step of one request to that request. Each theorem adds a
  layer to the invariants of those before:
  - `TypeCorrect` and `DeletionIsWhole`. `DeleteIsWhole` alone is not inductive:
    a commit is right only if the transaction holds exactly what the handler has
    gone through. `LeaveReturns` is what the error paths have to be for: no step
    returns with a transaction open, as it either ends it or there is none where
    it stands. `DeletionFits` says it of each place of the two handlers,
    `PlaceFits` ties places to mutations, and `SyncFits` is what the type of the
    log needs (that only ids which passed the foreign key get into an entry).
  - `LevelsComeWhole` (`LowerLevelsPresent`). In the middle of the loop of
    `SyncPermissions` the policies are *not* closed downwards, as Go runs through
    its map in any order; closed are the policies together with those the request
    has still to add (`Held`, `HeldDownwards`), and `OverlapsAreSuspect` keeps two
    requests from sharing a role.
  - `LogTellsUsers` (`LogMatchesUsers`). `LogFits`: the entries of an open
    transaction name the users it deletes, all of which were there once;
    `UsersIn` carries that through the concatenation at the commit.
  - `EnforcerGrantsMemberships` (`LinksAgree`). `Place` says for each place of
    each handler how far links and rows of a cell have drifted apart, `TxFits`
    that the commit brings the rest, and `NewIsNew` that an id which is given out
    has left nothing behind, in the enforcer either.
  - `NewestEntryIsTrue` (`LastSyncRecorded`), whichever requests are sent. Two
    `SyncRoles` of one user may overlap, and suspect cells are no exception here;
    the rows that a `SyncUsers` wrote last are, as it logs nothing. `LocksApart`
    and `HoldsFits` say what orders them: whoever has written rows of a user has
    locked all of them until the commit that writes rows and entry, so that the
    entry with the greater id is committed later (`Newer`). `OneAtATime`
    says that two such entries of one user never wait for their commits together.
    Nobody deletes a role that is about to be inserted. `CommitOfSync` and
    `CommitOfOthers` are the commit of the entry and all the others.
* **`Accounts_proofs`**, for any number of requests, browsers and users:
  - `TypeCorrect`, `LogTellsRows`, `ForgottenByLoginsOnly`. `PlaceFits` says what a
    handler has found at each of its places.
  - `TokensStayWithUser`. An action property whose reason is spread over requests:
    any of them may save its copy of the session again. `UsersAgree` says that all
    copies of a token and its row have the same user; a new token enters as one
    that nothing uses (`Fresh`), which is where the draw of a token before the
    user is put into the session is needed. `HonestStep` and `AgreeStep` reduce a
    step of one request to that request.
  - `AnswersAreTrue` (`AnswersHold`) and `GivenUpForGood` (`EndedStayEnded`). The
    reason is that a token in use is one browser's (`Owned`): its cookie and its
    requests name it, those of others do not. A request without another of its
    browser beside it keeps the session it found (`Keeps`), has drawn a new token
    (`Renewed`) or destroyed the old one (`Left`); what it has not yet answered is
    then known at every place (`BrowserFits`). A token that was given up is named
    by nothing (`EndedGone`), so nothing can save it.
* **`Updates_proofs`** - `StoredVersionIsHonest`, `UpdatesAreOrdered`,
  `ServedDatabaseIsUpToDate`, of every database that no broken-off down or drop has
  left (`torn`; for the others they are false, `Updates_down.cfg`). The
  strengthening is `RunHonest`: what `Run` holds in its variables is true of the
  database all along, so that `Store` may write it after a success and after an
  error; `SchemaComplete`: once `Up` is over, nothing moves the schema before the
  process ends; `TablesFit`: outside of a migration the stored schema version
  tells which tables there are; and `ContentFits`: the stored version and the
  success of the first update go with the tables they are kept in.
* **`Lifecycle_proofs`** - `WaitGroupIsHonest` (with the library's facts on
  finite sets), `DaemonsEndBeforeDB`, `RequestsFindDB`, `ServerStaysStopped`.
  A manager may call `wg.Add` after `wg.Wait` returned; `DaemonsStop` says why
  this is harmless: the context was canceled before. `RequestsFindDB` is about
  the requests that `http.Server` knows of, not about websockets. `StoppingSeen` and
  `ServerStops` follow main's write of `state` through its buffer.
  About `Backup` it proves `BackupTypeCorrect` and `DumpsStay`
  (`CompleteDumpsStay`), for every length of a minute and a day and any delays:
  - `EndsTheSameDay` is the assumption: a dump that is begun at the end of the
    scheduled minute is over before midnight. It is exact: with one unit less, TLC
    finds a dump truncated (`Backup_midnight.cfg` is such a case). The code needs
    it because `createBackupDump` asks for the date again, behind the comparison
    with the scheduled minute.
  - `CompleteDumpsStay` speaks of a file that is truncated; the reason is that no
    day has a second dump. `Apart` says that the wake-ups behind a dump lie beyond
    its minute, `Named` that a file belongs to a day with a dump, `Ahead` that the
    file about to be created is not there yet and comes before the day ends.
  - Days and minutes are quotients and remainders by constants that are not fixed,
    which the SMT solver cannot divide by. `Quotient` and `QuotientIs` turn them
    into products, `DayOfIs` and `ScheduledIs` into bounds; `WakesApart` is why a
    timer of a whole minute never meets the same scheduled minute twice.
* **`Http_proofs`**, first of a request in its chain, for all requests and any
  number of faults: `TypeCorrect`, `LogTellsAnswer` (`LoggedAsAnswered`),
  `FailuresAreSaid` (`FailureIsSaid`), `AnswersAreSaid` (`AnsweredAsSaid`) and
  `AnswerIsWhole` (`SentInOnePiece`). The properties speak of the request that has
  been answered; `HttpInv` says for each middleware, on the way in, out and in a
  panic, what the writer on top of the stack (`Top`) holds:
  - `Placed` and `Unsent`: the connection gets nothing before the session
    middleware lets go of its buffer or the recoverer answers, and the log nothing
    before the logger is left.
  - `Timing`: within the timeout middleware there is a deadline, except for the
    first serving of a request to open a websocket, which is served again with
    one. A first version did not say that this second serving is of a timed route
    only, and was not inductive.
  - `Fresh`, `Failed`, `Working`, `Answered`: an empty writer on the way in, an
    error with its text on top after a fault, and in between what the handler has
    said so far and has still to write. That the status is not 0 where the handler
    set one had to be added, as a 504 may otherwise take its place.
  - `WireInv` ties the connection to the client: it has got nothing or what was
    written, the head of it or all, and a deadline that has passed finds a
    connection that takes nothing any more. So the deadline's own status is in the
    log and never with the client.
  - `ChainIs` names the middlewares by their place, so that the steps need no
    concatenations; `Passes` is what a writer hands to the one below it.

  Then of the access log's writer: `WriterTypeCorrect`, `FlushComes` and
  `WriterImplements`, the safety half of the refinement of `WriteBehind`.
  `FlushIsComing` is not inductive: a `Write` that finds `flushPending` set relies
  on an earlier flush which may have nothing left to do; `Armed` says that a
  pending flush always has a timer or a callback. `Fits` and `DrainedBounds` are the
  arithmetic of `bufio.Writer`, which the proof needs: what waits fits into the
  buffer as long as no write has failed.
* **`Loader_proofs`**, for any number of resolvers, keys and loads and any limit
  of a batch - `BatchesEndOnce`, `LoadsGetOwnValue`, `BatchesStay`. The timer and
  the load that fills a batch may both set out to end it; `EndsLeaveTraces` says
  what each leaves behind that stops the other, `Collecting` that the batch still
  open has room and a timer, and `Untouched` that a new batch starts clean.
  `PlacesFit` and `ValuesFit` carry the key of a load to its place and from
  there to the row; `KeyIndex` is what `keyIndex` does to the list of keys.
* **`QuoteStore_proofs`**, for any number of requests at once:
  - `EntriesAreTrue` (`EntriesSayWhatWasWritten`), an action property of the
    commit: `Honest` says already of the open transaction that an entry names the
    value which the transaction has for the row.
  - `Implements` (`ImplementsLifeLog`): every step is one of `LifeLog` or leaves
    rows and log as they are. A commit is `Create`, `Erase` or `Describe` because
    of `TxFits`, which knows a transaction by its kind (`Creates`, `Changes`,
    `Deletes`) and says that its entries are those of the rows it has written, and
    because of `LocksApart`: no other transaction has written the same row, so the
    row is still there or still gone.
  - `NewestEntryTellsLife` (`LogTellsLife` of `LifeLog`) follows from the
    refinement and an invariant of `LifeLog` alone, `LifeTold`.
* **`Execution_proofs`**, for all documents that pass the schema
  (`ExecutionAssumption`), any number of operations and requests, and any
  consistent rows to begin with. The inductive invariant is built in layers, which
  TLC went through on the run's 79,000 states before they were proved:
  - `ListsWereTrue` (`ShownWasTrue`), with `Shape` (a field stands below a root
    field that is shown, and asks a loader) and `ValuesFit`: the property says
    nothing of what a batch has fetched and nobody has shown yet, nor of the
    cache, and these are what is shown next.
  - `MutationsGoInOrder` (`FieldsInOrder`), with `Ordered` (the root fields that run
    are the first ones, and those before another are finished with all that is
    below them) and `Led`: as long as the first field of a mutation runs, its
    loaders have not been asked; what they remember later is not older than it.
  - `StatesAreTyped` (`TypeOK`) and `MutationsDoAsGiven` (`GivenIsDone`), with
    `FieldsTyped`, `HistoryFits` (each change of a service keeps the database
    consistent, and no id is given out twice) and `RootsFit`. `Progress` says for
    each place between the calls of a resolver what is left to do and which ids it
    has got, `Result` what the whole has done. What others do between two calls
    does no harm: a list is set by the last call, and an id is new for good.
    The argument that `UniqueInts`, which works in the slice of its caller, keeps
    all ids (`UniqueIntsAre`) needs the first place an id occurs at; `Least` finds
    it by the library's well-founded ordering of finite sets, as induction is out
    of reach.

Only model-checked:

* Liveness, as said above, and the fairness half of the refinement of
  `WriteBehind`.
* What recursive definitions compute for every input, beyond what follows from a
  least or a greatest element.

## Not modelled

* **The libraries**: casbin, sqlx, golang-migrate, polluter, scs, gqlgen's
  runtime and MySQL are modelled by how the code uses them, and marked so. This
  version of casbin is not synchronized, and requests use it at once
  (`pkg/auth/auth.go:90`): a data race inside the library, of which the code in
  `src/` shows no step that could be told apart. Its calls are atomic here.
  `Drop` of the migrator (`pkg/db/migration.go:78`) is a loop of the library over
  the tables it finds; here the tables of one migration come and go together.
* **The policies table** is created by casbin's adapter and not by a migration
  (`pkg/auth/auth.go:50`). `migrate down` leaves it with the roles of a database
  that is gone; `Updates` does not know it (see the plan).
* **Of the GraphQL server**: introspection answers constant data, the table of
  complexities is never asked for since no limit is set, `UploadResult` has no
  field that uses it, and the marshalling of values is layout.
* **Formatting and wording**: the prefixed log formatter, messages and
  translations, the layout of JSON.
* **Stateless helpers**: validation (what passes is an input of the models),
  parameters, configuration, `pkg/fs`, the clock, `magefile.go`, the helpers on
  strings in `pkg/util`. The cache of `pkg/cache` is created and never used.
* **Methods without a caller**, for example `WithTx`, `LoadAll`, `Prime`, `Clear`,
  `AllowUser`, and all of the permission store but its two reads.
* **The frontend, tests, build and deployment files.**

The run of `Backup` schedules a minute before the day's last: for the last one
`CompleteDumpsStay` is false, which is `Backup_midnight.cfg` and what
`EndsTheSameDay`, the assumption of the theorem, excludes.

## Plan

Done in this order, the most important behaviour first: `Membership`,
`QuoteStore` with `LifeLog`, `Lifecycle`, `LatencyWriter` with `WriteBehind`,
`Updates`, `Backup`, `Loader`, `Accounts`; their proofs; `Schema` with
`Execution`; `Http`; the proofs of `LinksAgree`, `LowerLevelsPresent`,
`LogMatchesUsers`, `LastSyncRecorded`, `AnswersHold`, `EndedStayEnded` and those
of `Loader` and `QuoteStore`, at last that it implements `LifeLog`; the proofs of
`Execution`, `Backup` and `Http`. What is left is the **composition** of `Membership`
and `Updates`: casbin's table survives `migrate down`, and identifiers start again.

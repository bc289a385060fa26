-------------------------- MODULE Accounts_proofs --------------------------
(***************************************************************************)
(* What holds of Accounts for any number of requests, browsers, users and  *)
(* connections.                                                            *)
(***************************************************************************)
EXTENDS Accounts, TLAPS

-----------------------------------------------------------------------------
(* Where a handler is says what it has found so far.                       *)
PlaceFits(j) ==
    /\ j.pc \in {"find", "renew", "audit"} => j.req.op = "login"
    /\ j.pc = "destroy" => j.req.op = "logout"
    /\ j.pc \in {"read", "begin", "write", "log", "commit"} =>
          j.req.op = "update" /\ j.req.name # Blank
    /\ j.pc \in {"renew", "audit"} => j.found \in Users
    /\ j.pc \in {"begin", "write", "log", "commit"} => j.row \in Row
    /\ j.status = "modified" => j.token \in Tokens /\ j.user \in Users

PlacesFit == \A p \in Busy : PlaceFits(job[p])

Typed == TypeOK /\ PlacesFit

(* A step of one request leaves the others as they are.                    *)
LEMMA SetKeeps ==
    ASSUME Typed, NEW p \in Proc, NEW j \in Job, PlaceFits(j), Set(p, j)
    PROVE  /\ job' \in [Proc -> Job \cup {Idle}] /\ PlacesFit'
           /\ Busy' = Busy \cup {p}
           /\ job'[p] = j /\ \A q \in Proc \ {p} : job'[q] = job[q]
  <1>1. job' \in [Proc -> Job \cup {Idle}] /\ job'[p] = j /\ \A q \in Proc \ {p} : job'[q] = job[q]
    BY DEF Typed, TypeOK, Set
  <1>2. j # Idle
    BY DEF Job, Steps, Idle
  <1>. QED BY <1>1, <1>2 DEF Typed, PlacesFit, Busy

(* A request in flight has all its fields.                                 *)
LEMMA BusyJob ==
    ASSUME Typed, NEW p \in Busy
    PROVE  p \in Proc /\ job[p] \in Job /\ PlaceFits(job[p])
  BY DEF Typed, TypeOK, PlacesFit, Busy

(* What an answer looks like.                                              *)
LEMMA AnsweredFits ==
    ASSUME NEW j \in Job, PlaceFits(j), NEW a \in {"ok", "refused", "error"}
    PROVE  Answered(j, a) \in Job /\ PlaceFits(Answered(j, a))
  <1>1. Answered(j, a) \in Job
    <2>1. CASE j.req.op \in {"login", "logout"}
      <3>1. Answered(j, a) = [j EXCEPT !.answer = a, !.pc = "save"]
        BY <2>1 DEF Answered
      <3>. QED BY <3>1 DEF Job, Steps
    <2>2. CASE j.req.op \notin {"login", "logout"}
      <3>1. Answered(j, a) = [j EXCEPT !.answer = a, !.pc = "saveRoot"]
        BY <2>2 DEF Answered
      <3>. QED BY <3>1 DEF Job, Steps
    <2>. QED BY <2>1, <2>2
  <1>2. /\ Answered(j, a).pc \in {"save", "saveRoot"}
        /\ Answered(j, a).status = j.status
        /\ Answered(j, a).token = j.token
        /\ Answered(j, a).user = j.user
    BY DEF Answered, Job, Steps
  <1>. QED BY <1>1, <1>2 DEF PlaceFits

LEMMA EnteredFits ==
    ASSUME NEW j \in Job, PlaceFits(j)
    PROVE  Entered(j) \in Job /\ PlaceFits(Entered(j))
  <1>0. j.req \in Requests /\ j.req.op \in Ops
    BY AccountsAssumption DEF Job, Request
  <1>1. CASE j.req.op = "visit"
    BY <1>1, AnsweredFits DEF Entered
  <1>2. CASE j.req.op # "visit" /\ ~Valid(j.req)
    BY <1>2, AnsweredFits DEF Entered
  <1>3. CASE j.req.op # "visit" /\ Valid(j.req)
    <2>1. Entered(j) = [j EXCEPT !.pc = FirstStep[j.req.op]]
      BY <1>3 DEF Entered
    <2>2. j.req.op \in {"login", "logout", "update"}
      BY <1>0, <1>3 DEF Ops
    <2>3. CASE j.req.op = "login"
      <3>1. Entered(j) = [j EXCEPT !.pc = "find"]
        BY <2>1, <2>3 DEF FirstStep
      <3>. QED BY <3>1, <2>3 DEF Job, Steps, PlaceFits
    <2>4. CASE j.req.op = "logout"
      <3>1. Entered(j) = [j EXCEPT !.pc = "destroy"]
        BY <2>1, <2>4 DEF FirstStep
      <3>. QED BY <3>1, <2>4 DEF Job, Steps, PlaceFits
    <2>5. CASE j.req.op = "update"
      <3>1. Entered(j) = [j EXCEPT !.pc = "read"] /\ j.req.name # Blank
        BY <2>1, <2>5, <1>3 DEF FirstStep, Valid
      <3>. QED BY <3>1, <2>5 DEF Job, Steps, PlaceFits
    <2>. QED BY <2>2, <2>3, <2>4, <2>5
  <1>. QED BY <1>1, <1>2, <1>3

-----------------------------------------------------------------------------
LEMMA TypedInit == Init => Typed
  <1>. SUFFICES ASSUME Init PROVE Typed
    OBVIOUS
  <1>1. \A u \in Users : users[u] \in Row
    BY AccountsAssumption DEF Init, Row, Hash, HashOf
  <1>2. users \in [Users -> Row] /\ logged \in [Users -> Row]
    BY <1>1 DEF Init
  <1>3. TypeOK
    BY <1>2, AccountsAssumption DEF Init, TypeOK, Tokens, Serials, None
  <1>4. PlacesFit
    BY DEF Init, PlacesFit, Busy
  <1>. QED BY <1>3, <1>4 DEF Typed

(* The row that an update writes is a row.                                 *)
LEMMA UpdatedIsRow ==
    ASSUME NEW j \in Job, PlaceFits(j), j.pc = "commit"
    PROVE  Updated(j) \in Row
  <1>1. j.req \in Requests /\ j.req.name \in Names
    BY AccountsAssumption DEF Job, Request, PlaceFits
  <1>2. j.req.password # Blank => HashOf(j.req.password, j.serial) \in Hash
    BY AccountsAssumption DEF Job, Request, HashOf, Hash
  <1>3. j.row.password \in Hash
    BY DEF PlaceFits, Row
  <1>. QED BY <1>1, <1>2, <1>3 DEF Updated, Row

LEMMA EntriesAreRow ==
    ASSUME NEW known \in Row, NEW from \in Row, NEW to \in Row
    PROVE  Entries(known, from, to) \in Row
  <1>1. Entries(known, from, to) =
          [name |-> IF to.name # from.name THEN to.name ELSE known.name,
           password |-> IF to.password # from.password THEN to.password ELSE known.password]
    BY DEF Entries
  <1>. QED BY <1>1 DEF Row

LEMMA TypedNext == Typed /\ [Next]_vars => Typed'
  <1>. SUFFICES ASSUME Typed, [Next]_vars PROVE Typed'
    OBVIOUS
  <1>. USE DEF At
  <1>0. CASE UNCHANGED vars
    BY <1>0 DEF Typed, TypeOK, PlacesFit, Busy, vars
  <1>1. ASSUME NEW p \in Proc, NEW r \in Requests, Arrive(p, r) PROVE Typed'
    <2>. DEFINE others == {q \in Busy : job[q].req.browser = r.browser}
                new == [pc |-> "load", req |-> r, serial |-> served + 1,
                        sent |-> cookie[r.browser], token |-> None, user |-> Nobody,
                        status |-> "unmodified", setsCookie |-> FALSE,
                        found |-> Nobody, row |-> Nobody, answer |-> "none",
                        alone |-> others = {}]
    <2>1. served + 1 \in Serials /\ served' \in 0..MaxRequests
      BY <1>1, AccountsAssumption DEF Arrive, Typed, TypeOK, Serials
    <2>2. new \in Job /\ PlaceFits(new)
      BY <2>1, AccountsAssumption DEF Typed, TypeOK, Job, Steps, Request, PlaceFits, None
    <2>3. ASSUME NEW q \in Busy
          PROVE  [job[q] EXCEPT !.alone = FALSE] \in Job /\ PlaceFits([job[q] EXCEPT !.alone = FALSE])
      BY BusyJob DEF Job, PlaceFits
    <2>4. job' = [q \in Proc |-> IF q = p THEN new
                                 ELSE IF q \in others THEN [job[q] EXCEPT !.alone = FALSE]
                                 ELSE job[q]]
      BY <1>1 DEF Arrive
    <2>. HIDE DEF new, others
    <2>5. others \subseteq Busy
      BY DEF others
    <2>6. job' \in [Proc -> Job \cup {Idle}]
      BY <2>2, <2>3, <2>4, <2>5 DEF Typed, TypeOK
    <2>7. \A q \in Proc : job'[q] # Idle => PlaceFits(job'[q])
      BY <2>2, <2>3, <2>4, <2>5 DEF Typed, PlacesFit, Busy
    <2>8. TypeOK'
      BY <1>1, <2>1, <2>6 DEF Arrive, Typed, TypeOK
    <2>. QED BY <2>7, <2>8 DEF Typed, PlacesFit, Busy
  <1>2. ASSUME NEW p \in Proc, Load(p) PROVE Typed'
    <2>. DEFINE j == job[p]
    <2>1. j \in Job /\ PlaceFits(j)
      BY <1>2, BusyJob DEF Load
    <2>2. j.sent # None /\ sessions[j.sent] # Nobody
             => LET k == [j EXCEPT !.token = j.sent, !.user = sessions[j.sent],
                                   !.status = "modified"]
                IN  k \in Job /\ PlaceFits(k)
      <3>1. j.pc = "load"
        BY <1>2 DEF Load
      <3>. QED BY <2>1, <3>1 DEF Job, PlaceFits, Typed, TypeOK
    <2>3. [j EXCEPT !.pc = "respond", !.answer = "error"] \in Job
      BY <2>1 DEF Job, Steps
    <2>4. PlaceFits([j EXCEPT !.pc = "respond", !.answer = "error"])
      BY <2>1 DEF Job, PlaceFits
    <2>5. \E k \in Job : PlaceFits(k) /\ Set(p, k)
      BY <1>2, <2>1, <2>2, <2>3, <2>4, EnteredFits DEF Load
    <2>. QED BY <1>2, <2>5, SetKeeps DEF Load, Typed, TypeOK
  <1>3. ASSUME NEW p \in Proc, Find(p) PROVE Typed'
    <2>. DEFINE j == job[p]
    <2>1. j \in Job /\ PlaceFits(j) /\ j.pc = "find"
      BY <1>3, BusyJob DEF Find
    <2>2. \A u \in Users : /\ [j EXCEPT !.found = u, !.pc = "renew"] \in Job
                           /\ PlaceFits([j EXCEPT !.found = u, !.pc = "renew"])
      BY <2>1 DEF Job, Steps, PlaceFits
    <2>3. \E k \in Job : PlaceFits(k) /\ Set(p, k)
      BY <1>3, <2>1, <2>2, AnsweredFits DEF Find
    <2>. QED BY <1>3, <2>3, SetKeeps DEF Find, Typed, TypeOK
  <1>4. ASSUME NEW p \in Proc, Renew(p) PROVE Typed'
    <2>. DEFINE j == job[p]
                k == [j EXCEPT !.pc = "audit", !.token = NewToken(j),
                               !.user = j.found, !.status = "modified"]
    <2>1. j \in Job /\ PlaceFits(j) /\ j.pc = "renew"
      BY <1>4, BusyJob DEF Renew
    <2>2. k \in Job /\ PlaceFits(k)
      BY <2>1 DEF Job, Steps, PlaceFits, NewToken, Tokens
    <2>3. \E l \in Job : PlaceFits(l) /\ Set(p, l)
      BY <1>4, <2>1, <2>2, AnsweredFits DEF Renew
    <2>4. sessions' \in [Tokens -> Users \cup {Nobody}]
      BY <1>4 DEF Renew, Typed, TypeOK, Deleted
    <2>. QED BY <1>4, <2>3, <2>4, SetKeeps DEF Renew, Typed, TypeOK
  <1>5. ASSUME NEW p \in Proc, AuditLogin(p) PROVE Typed'
    <2>. DEFINE j == job[p]
    <2>1. j \in Job /\ PlaceFits(j) /\ j.pc = "audit"
      BY <1>5, BusyJob DEF AuditLogin
    <2>2. Transaction(j) \in {"login", "update"} \X Serials
      BY <2>1 DEF Transaction, PlaceFits, Job
    <2>3. open' \subseteq {"login", "update"} \X Serials
      BY <1>5, <2>2 DEF AuditLogin, Typed, TypeOK
    <2>. QED BY <1>5, <2>1, <2>3, SetKeeps, AnsweredFits DEF AuditLogin, Typed, TypeOK
  <1>6. ASSUME NEW p \in Proc, Destroy(p) PROVE Typed'
    <2>. DEFINE j == job[p]
    <2>1. j \in Job /\ PlaceFits(j) /\ j.pc = "destroy"
      BY <1>6, BusyJob DEF Destroy
    <2>2. Destroyed(j) \in Job /\ PlaceFits(Destroyed(j))
      BY <2>1 DEF Job, PlaceFits, Destroyed
    <2>3. \E l \in Job : PlaceFits(l) /\ Set(p, l)
      BY <1>6, <2>1, <2>2, AnsweredFits DEF Destroy
    <2>4. sessions' \in [Tokens -> Users \cup {Nobody}]
      BY <1>6 DEF Destroy, Typed, TypeOK, Deleted
    <2>. QED BY <1>6, <2>3, <2>4, SetKeeps DEF Destroy, Typed, TypeOK
  <1>7. ASSUME NEW p \in Proc, Read(p) PROVE Typed'
    <2>. DEFINE j == job[p]
    <2>1. j \in Job /\ PlaceFits(j) /\ j.pc = "read"
      BY <1>7, BusyJob DEF Read
    <2>2. users[j.req.user] \in Row
      BY <2>1, AccountsAssumption DEF Typed, TypeOK, Job, Request
    <2>3. LET k == [j EXCEPT !.pc = "begin", !.row = users[j.req.user]]
          IN  k \in Job /\ PlaceFits(k)
      BY <2>1, <2>2 DEF Job, Steps, PlaceFits
    <2>4. \E l \in Job : PlaceFits(l) /\ Set(p, l)
      BY <1>7, <2>1, <2>3, AnsweredFits DEF Read
    <2>. QED BY <1>7, <2>4, SetKeeps DEF Read, Typed, TypeOK
  <1>8. ASSUME NEW p \in Proc, BeginUpdate(p) PROVE Typed'
    <2>. DEFINE j == job[p]
    <2>1. j \in Job /\ PlaceFits(j) /\ j.pc = "begin"
      BY <1>8, BusyJob DEF BeginUpdate
    <2>2. Transaction(j) \in {"login", "update"} \X Serials
      BY <2>1 DEF Transaction, PlaceFits, Job
    <2>3. open' \subseteq {"login", "update"} \X Serials
      BY <1>8, <2>2 DEF BeginUpdate, Typed, TypeOK
    <2>4. LET k == [j EXCEPT !.pc = "write"] IN k \in Job /\ PlaceFits(k)
      BY <2>1 DEF Job, Steps, PlaceFits
    <2>5. \E l \in Job : PlaceFits(l) /\ Set(p, l)
      BY <1>8, <2>1, <2>4, AnsweredFits DEF BeginUpdate
    <2>. QED BY <1>8, <2>3, <2>5, SetKeeps DEF BeginUpdate, Typed, TypeOK
  <1>9. ASSUME NEW p \in Proc, Write(p) \/ LogUpdate(p) PROVE Typed'
    <2>. DEFINE j == job[p]
    <2>1. j \in Job /\ PlaceFits(j) /\ j.pc \in {"write", "log"}
      BY <1>9, BusyJob DEF Write, LogUpdate
    <2>2. \A pc \in {"log", "commit"} :
             [j EXCEPT !.pc = pc] \in Job /\ PlaceFits([j EXCEPT !.pc = pc])
      BY <2>1 DEF Job, Steps, PlaceFits
    <2>3. \E l \in Job : PlaceFits(l) /\ Set(p, l)
      BY <1>9, <2>2 DEF Write, LogUpdate
    <2>. QED BY <1>9, <2>3, SetKeeps DEF Write, LogUpdate, Typed, TypeOK
  <1>10. ASSUME NEW p \in Proc, FailInside(p) PROVE Typed'
    <2>. DEFINE j == job[p]
    <2>1. j \in Job /\ PlaceFits(j)
      BY <1>10, BusyJob DEF FailInside
    <2>2. open' \subseteq {"login", "update"} \X Serials
      BY <1>10 DEF FailInside, Ended, Typed, TypeOK
    <2>. QED BY <1>10, <2>1, <2>2, SetKeeps, AnsweredFits DEF FailInside, Typed, TypeOK
  <1>11. ASSUME NEW p \in Proc, Commit(p) PROVE Typed'
    <2>. DEFINE j == job[p]
                u == j.req.user
    <2>1. j \in Job /\ PlaceFits(j) /\ j.pc = "commit"
      BY <1>11, BusyJob DEF Commit
    <2>2. u \in Users /\ j.row \in Row /\ Updated(j) \in Row
      BY <2>1, UpdatedIsRow, AccountsAssumption DEF Job, Request, PlaceFits
    <2>3. users' \in [Users -> Row] /\ stale' \subseteq Users
      BY <1>11, <2>2 DEF Commit, Typed, TypeOK
    <2>4. Entries(logged[u], j.row, Updated(j)) \in Row
      BY <2>2, EntriesAreRow DEF Typed, TypeOK
    <2>5. logged' \in [Users -> Row]
      BY <1>11, <2>2, <2>4 DEF Commit, Typed, TypeOK
    <2>6. open' \subseteq {"login", "update"} \X Serials
      BY <1>11 DEF Commit, Ended, Typed, TypeOK
    <2>. QED BY <1>11, <2>1, <2>3, <2>5, <2>6, SetKeeps, AnsweredFits DEF Commit, Typed, TypeOK
  <1>12. ASSUME NEW p \in Proc, Save(p) PROVE Typed'
    <2>. DEFINE j == job[p]
    <2>1. j \in Job /\ PlaceFits(j) /\ j.pc \in {"save", "saveRoot"}
      BY <1>12, BusyJob DEF Save
    <2>2. \A pc \in {"saveRoot", "respond"} : \A b \in BOOLEAN :
             LET k == [j EXCEPT !.pc = pc, !.setsCookie = b] IN k \in Job /\ PlaceFits(k)
      <3>. TAKE pc \in {"saveRoot", "respond"}
      <3>. TAKE b \in BOOLEAN
      <3>. DEFINE k == [j EXCEPT !.pc = pc, !.setsCookie = b]
      <3>1. k \in Job
        BY <2>1 DEF Job, Steps
      <3>2. k.pc = pc /\ k.status = j.status /\ k.token = j.token /\ k.user = j.user
        BY <2>1 DEF Job
      <3>. QED BY <2>1, <3>1, <3>2 DEF PlaceFits
    <2>3. \A pc \in {"saveRoot", "respond"} :
             LET k == [Unsaved(j) EXCEPT !.pc = pc] IN k \in Job /\ PlaceFits(k)
      BY <2>1 DEF Job, Steps, PlaceFits, Unsaved
    <2>4. \E l \in Job : PlaceFits(l) /\ Set(p, l)
      <3>. DEFINE next == IF j.pc = "save" THEN "saveRoot" ELSE "respond"
      <3>1. next \in {"saveRoot", "respond"}
        OBVIOUS
      <3>2. \E b \in BOOLEAN : \/ Set(p, [j EXCEPT !.pc = next, !.setsCookie = b])
                               \/ Set(p, [Unsaved(j) EXCEPT !.pc = next])
        BY <1>12 DEF Save
      <3>. HIDE DEF next
      <3>. QED BY <2>2, <2>3, <3>1, <3>2
    <2>5. j.status = "modified" => j.token \in Tokens /\ j.user \in Users
      BY <2>1 DEF PlaceFits
    <2>6. sessions' \in [Tokens -> Users \cup {Nobody}]
      BY <1>12, <2>5 DEF Save, Typed, TypeOK
    <2>. QED BY <1>12, <2>4, <2>6, SetKeeps DEF Save, Typed, TypeOK
  <1>13. ASSUME NEW p \in Proc, Respond(p) PROVE Typed'
    <2>. DEFINE j == job[p]
                b == j.req.browser
    <2>1. j \in Job /\ PlaceFits(j)
      BY <1>13, BusyJob DEF Respond
    <2>2. b \in Browsers
      BY <2>1, AccountsAssumption DEF Job, Request
    <2>3. cookie' \in [Browsers -> Tokens \cup {None}]
      BY <1>13, <2>1, <2>2 DEF Respond, Typed, TypeOK, Job
    <2>4. ToldBy(j, told[b]) \in Users \cup {Nobody, Unknown}
      BY <2>1, <2>2 DEF ToldBy, Typed, TypeOK, Job
    <2>5. told' = [told EXCEPT ![b] = ToldBy(j, told[b])]
      BY <1>13, <2>2 DEF Respond, Typed, TypeOK
    <2>6. told' \in [Browsers -> Users \cup {Nobody, Unknown}]
      BY <2>2, <2>4, <2>5 DEF Typed, TypeOK
    <2>7. ended' \subseteq Tokens
      BY <1>13, <2>1 DEF Respond, Typed, TypeOK, Job
    <2>8. job' \in [Proc -> Job \cup {Idle}] /\ job'[p] = Idle
          /\ \A q \in Proc \ {p} : job'[q] = job[q]
      BY <1>13 DEF Respond, Set, Typed, TypeOK
    <2>9. PlacesFit'
      BY <2>8 DEF Typed, PlacesFit, Busy
    <2>. QED BY <1>13, <2>3, <2>6, <2>7, <2>8, <2>9 DEF Respond, Typed, TypeOK
  <1>14. CASE Restart
    <2>1. \A q \in Proc : job'[q] = Idle
      BY <1>14 DEF Restart
    <2>2. PlacesFit'
      BY <2>1 DEF PlacesFit, Busy
    <2>3. told' \in [Browsers -> Users \cup {Nobody, Unknown}]
      BY <1>14 DEF Restart, Typed, TypeOK
    <2>4. restarts' \in 0..MaxRestarts
      BY <1>14, AccountsAssumption DEF Restart, Typed, TypeOK
    <2>. QED BY <1>14, <2>2, <2>3, <2>4 DEF Restart, Typed, TypeOK
  <1>15. CASE Expire
    BY <1>15 DEF Expire, Typed, TypeOK, PlacesFit, Busy
  <1>. QED
    BY <1>0, <1>1, <1>2, <1>3, <1>4, <1>5, <1>6, <1>7, <1>8, <1>9, <1>10, <1>11,
       <1>12, <1>13, <1>14, <1>15 DEF Next

(* Rows, sessions, cookies, transactions and requests keep their types: in *)
(* particular no path of an update stores a blank password                 *)
(* (user/service.go, user/store.go).                                       *)
THEOREM TypeCorrect == Spec => []TypeOK
  <1>1. Typed => TypeOK
    BY DEF Typed
  <1>. QED BY TypedInit, TypedNext, <1>1, PTL DEF Spec

-----------------------------------------------------------------------------
(* The audit log and the rows of users only change together, in Commit.    *)
LEMMA LogMatchesNext == Typed /\ LogMatchesRows /\ [Next]_vars => LogMatchesRows'
  <1>. SUFFICES ASSUME Typed, LogMatchesRows, [Next]_vars PROVE LogMatchesRows'
    OBVIOUS
  <1>1. ASSUME NEW p \in Proc, Commit(p) PROVE LogMatchesRows'
    <2>. DEFINE j == job[p]
                u == j.req.user
    <2>1. j \in Job /\ PlaceFits(j) /\ j.pc = "commit"
      BY <1>1, BusyJob DEF Commit, At
    <2>2. u \in Users /\ j.row \in Row /\ Updated(j) \in Row
      BY <2>1, UpdatedIsRow, AccountsAssumption DEF Job, Request, PlaceFits
    <2>3. /\ users' = [users EXCEPT ![u] = Updated(j)]
          /\ logged' = [logged EXCEPT ![u] = Entries(logged[u], j.row, Updated(j))]
          /\ stale' = IF users[u] = j.row THEN stale ELSE stale \cup {u}
      BY <1>1 DEF Commit
    <2>4. ASSUME u \notin stale' PROVE logged'[u] = users'[u]
      <3>1. logged[u] = j.row
        BY <2>2, <2>3, <2>4 DEF LogMatchesRows
      <3>2. Entries(j.row, j.row, Updated(j)) = Updated(j)
        <4>1. Entries(j.row, j.row, Updated(j)) =
                [name |-> Updated(j).name, password |-> Updated(j).password]
          BY DEF Entries
        <4>. QED BY <4>1, <2>2 DEF Row
      <3>. QED BY <2>2, <2>3, <3>1, <3>2 DEF Typed, TypeOK
    <2>5. ASSUME NEW v \in Users \ stale', v # u PROVE logged'[v] = users'[v]
      BY <2>2, <2>3, <2>5 DEF Typed, TypeOK, LogMatchesRows
    <2>. QED BY <2>4, <2>5 DEF LogMatchesRows
  <1>2. CASE UNCHANGED <<users, logged, stale>>
    BY <1>2 DEF LogMatchesRows
  <1>. QED
    BY <1>1, <1>2 DEF Next, vars, Arrive, Load, Find, Renew, AuditLogin, Destroy, Read,
       BeginUpdate, FailInside, Write, LogUpdate, Save, Respond, Restart, Expire

(* auditlogs tells the name and the password of each user whom no update   *)
(* has overwritten with what it had read before another (user/store.go,    *)
(* audit/service.go).                                                      *)
THEOREM LogTellsRows == Spec => []LogMatchesRows
  <1>1. Init => LogMatchesRows
    BY DEF Init, LogMatchesRows
  <1>. QED BY TypedInit, TypedNext, LogMatchesNext, <1>1, PTL DEF Spec

-----------------------------------------------------------------------------
LEMMA OwnersNext == Typed /\ OnlyLoginsForget /\ [Next]_vars => OnlyLoginsForget'
  <1>. SUFFICES ASSUME Typed, OnlyLoginsForget, [Next]_vars PROVE OnlyLoginsForget'
    OBVIOUS
  <1>. DEFINE Inside == {"write", "log", "commit"}
  <1>0. CASE UNCHANGED vars
    BY <1>0 DEF OnlyLoginsForget, Busy, vars
  \* Steps outside of the transaction: the owners stay.
  <1>1. ASSUME NEW p \in Proc, p \in Busy => job[p].pc \notin Inside,
               \A q \in Busy \ {p} : /\ q \in Busy'
                                     /\ job'[q].pc = job[q].pc
                                     /\ job'[q].req = job[q].req
                                     /\ job'[q].serial = job[q].serial,
               \A x \in open' : x \in open \/ x[1] = "login"
        PROVE  OnlyLoginsForget'
    BY <1>1 DEF OnlyLoginsForget, Transaction
  <1>2. ASSUME NEW p \in Proc, NEW r \in Requests, Arrive(p, r) PROVE OnlyLoginsForget'
    <2>1. \A q \in Busy \ {p} : job'[q] = job[q] \/ job'[q] = [job[q] EXCEPT !.alone = FALSE]
      BY <1>2 DEF Arrive, Busy
    <2>2. ASSUME NEW q \in Busy \ {p}
          PROVE  /\ q \in Busy' /\ job'[q].pc = job[q].pc
                 /\ job'[q].req = job[q].req /\ job'[q].serial = job[q].serial
      BY <2>1, BusyJob DEF Job, Steps, Idle, Busy
    <2>. QED BY <1>1, <1>2, <2>2 DEF Arrive
  <1>3. ASSUME NEW p \in Proc, NEW pc \in {"load", "find", "renew", "destroy", "read",
                                           "begin", "save", "saveRoot", "respond"},
               At(p, pc), open' = open,
               \A q \in Proc \ {p} : job'[q] = job[q]
        PROVE  OnlyLoginsForget'
    BY <1>1, <1>3 DEF At, Busy
  <1>4. ASSUME NEW p \in Proc,
               Load(p) \/ Find(p) \/ Renew(p) \/ Destroy(p) \/ Read(p) \/ Save(p) \/ Respond(p)
        PROVE  OnlyLoginsForget'
    <2>1. open' = open /\ \A q \in Proc \ {p} : job'[q] = job[q]
      BY <1>4 DEF Load, Find, Renew, Destroy, Read, Save, Respond, Set, Typed, TypeOK
    <2>2. \E pc \in {"load", "find", "renew", "destroy", "read", "save", "saveRoot",
                       "respond"} : At(p, pc)
      BY <1>4 DEF Load, Find, Renew, Destroy, Read, Save, Respond
    <2>. QED BY <1>3, <2>1, <2>2
  <1>5. ASSUME NEW p \in Proc, AuditLogin(p) PROVE OnlyLoginsForget'
    <2>1. job[p].req.op = "login" /\ job[p].pc = "audit"
      BY <1>5, BusyJob DEF AuditLogin, At, PlaceFits
    <2>2. \A q \in Proc \ {p} : job'[q] = job[q]
      BY <1>5 DEF AuditLogin, Set, Typed, TypeOK
    <2>3. \A x \in open' : x \in open \/ x[1] = "login"
      BY <1>5, <2>1 DEF AuditLogin, Transaction
    <2>. QED BY <1>1, <2>1, <2>2, <2>3 DEF Busy
  <1>6. ASSUME NEW p \in Proc, BeginUpdate(p) PROVE OnlyLoginsForget'
    <2>1. CASE open' = open
      <3>1. \A q \in Proc \ {p} : job'[q] = job[q]
        BY <1>6 DEF BeginUpdate, Set, Typed, TypeOK
      <3>. QED BY <1>3, <1>6, <2>1, <3>1 DEF BeginUpdate
    <2>2. CASE /\ open' = open \cup {Transaction(job[p])}
               /\ Set(p, [job[p] EXCEPT !.pc = "write"])
      <3>1. job[p] \in Job /\ job[p].pc = "begin"
        BY <1>6, BusyJob DEF BeginUpdate, At
      <3>2. /\ job'[p] = [job[p] EXCEPT !.pc = "write"]
            /\ \A q \in Proc \ {p} : job'[q] = job[q]
        BY <2>2 DEF Set, Typed, TypeOK
      <3>3. job'[p].pc = "write" /\ Transaction(job'[p]) = Transaction(job[p])
        BY <3>1, <3>2 DEF Transaction, Job
      <3>4. p \in Busy'
        BY <3>3 DEF Busy, Idle
      <3>5. ASSUME NEW x \in open', x[1] # "login"
            PROVE  \E q \in Busy' : job'[q].pc \in Inside /\ x = Transaction(job'[q])
        <4>1. CASE x = Transaction(job[p])
          BY <3>3, <3>4, <4>1
        <4>2. CASE x \in open
          <5>1. PICK q \in Busy : job[q].pc \in Inside /\ x = Transaction(job[q])
            BY <3>5, <4>2 DEF OnlyLoginsForget
          <5>2. q # p /\ q \in Proc
            BY <3>1, <5>1 DEF Busy
          <5>3. job'[q] = job[q]
            BY <3>2, <5>2
          <5>4. q \in Busy' /\ Transaction(job'[q]) = Transaction(job[q])
            BY <5>3 DEF Busy, Transaction
          <5>. QED BY <5>1, <5>3, <5>4
        <4>. QED BY <2>2, <3>5, <4>1, <4>2
      <3>. QED BY <3>5 DEF OnlyLoginsForget
    <2>. QED BY <1>6, <2>1, <2>2 DEF BeginUpdate
  <1>7. ASSUME NEW p \in Proc, Write(p) \/ LogUpdate(p) PROVE OnlyLoginsForget'
    <2>1. job[p] \in Job /\ p \in Busy
      BY <1>7, BusyJob DEF Write, LogUpdate, At
    <2>2. \E pc \in Inside : Set(p, [job[p] EXCEPT !.pc = pc])
      BY <1>7 DEF Write, LogUpdate
    <2>3. /\ job'[p].pc \in Inside /\ Transaction(job'[p]) = Transaction(job[p])
          /\ \A q \in Proc \ {p} : job'[q] = job[q]
      BY <2>1, <2>2 DEF Set, Typed, TypeOK, Transaction, Job
    <2>4. p \in Busy'
      BY <2>3 DEF Busy, Idle
    <2>5. open' = open
      BY <1>7 DEF Write, LogUpdate
    <2>. QED BY <2>3, <2>4, <2>5 DEF OnlyLoginsForget, Busy
  <1>8. ASSUME NEW p \in Proc, FailInside(p) \/ Commit(p) PROVE OnlyLoginsForget'
    <2>1. open' = open \ {Transaction(job[p])} /\ \A q \in Proc \ {p} : job'[q] = job[q]
      BY <1>8 DEF FailInside, Commit, Ended, Set, Typed, TypeOK
    <2>2. ASSUME NEW x \in open', x[1] # "login"
          PROVE  \E q \in Busy' : job'[q].pc \in Inside /\ x = Transaction(job'[q])
      <3>1. PICK q \in Busy : job[q].pc \in Inside /\ x = Transaction(job[q])
        BY <2>1, <2>2 DEF OnlyLoginsForget
      <3>2. q # p
        BY <2>1, <2>2, <3>1
      <3>. QED BY <2>1, <3>1, <3>2 DEF Busy
    <2>. QED BY <2>2 DEF OnlyLoginsForget
  <1>9. CASE Restart
    BY <1>9 DEF Restart, OnlyLoginsForget
  <1>10. CASE Expire
    BY <1>10 DEF Expire, OnlyLoginsForget, Busy
  <1>. QED BY <1>0, <1>2, <1>4, <1>5, <1>6, <1>7, <1>8, <1>9, <1>10 DEF Next

(* No path of a handler leaves a transaction open, but for the login's     *)
(* audit entry (user/store.go, audit/store.go).                            *)
THEOREM ForgottenByLoginsOnly == Spec => []OnlyLoginsForget
  <1>1. Init => OnlyLoginsForget
    BY DEF Init, OnlyLoginsForget
  <1>. QED BY TypedInit, TypedNext, OwnersNext, <1>1, PTL DEF Spec

-----------------------------------------------------------------------------
(* Tokens.  A token is in use if anything names it.                        *)
Used(t) ==
    \/ sessions[t] # Nobody
    \/ \E b \in Browsers : cookie[b] = t
    \/ \E p \in Busy : job[p].sent = t \/ job[p].token = t

(* The number of a login is nobody's token until it draws it.              *)
Fresh ==
    /\ \A p \in Busy : job[p].serial <= served
    /\ \A p, q \in Busy : p # q => job[p].serial # job[q].serial
    /\ \A t \in Tokens : t > served => ~Used(t)
    /\ \A p \in Busy, t \in Tokens :
          (job[p].pc \in {"load", "find", "renew"} /\ job[p].serial = t) => ~Used(t)

(* All that hold a token hold it for the same user.                        *)
UsersAgree ==
    \A p \in Busy : job[p].status = "modified" =>
       /\ sessions[job[p].token] \in {Nobody, job[p].user}
       /\ \A q \in Busy : (job[q].status = "modified" /\ job[q].token = job[p].token)
             => job[q].user = job[p].user

Honest == Typed /\ Fresh /\ UsersAgree

(* A step of one request that draws no token: what it leaves in use was in *)
(* use, and its session is as good as before.                              *)
LEMMA HonestStep ==
    ASSUME Honest, Typed', NEW p \in Busy, served' = served,
           \A q \in Proc \ {p} : job'[q] = job[q],
           \A t \in Tokens : Used(t)' => Used(t),
           p \in Busy' => /\ job'[p].serial = job[p].serial
                          /\ job'[p].pc \in {"load", "find", "renew"}
                                => job[p].pc \in {"load", "find", "renew"},
           UsersAgree'
    PROVE  Honest'
  <1>1. Busy' \subseteq Busy
    BY DEF Busy
  <1>2. \A q \in Busy' : job'[q].serial = job[q].serial /\ job'[q].serial \in Tokens
    <2>1. \A q \in Busy : job[q].serial \in Tokens
      BY BusyJob DEF Honest, Job, Tokens
    <2>2. \A q \in Busy' : job'[q].serial = job[q].serial
      BY <1>1 DEF Busy
    <2>. QED BY <1>1, <2>1, <2>2
  <1>3. \A q \in Busy' : job'[q].pc \in {"load", "find", "renew"}
                            => job[q].pc \in {"load", "find", "renew"}
    BY <1>1 DEF Busy
  <1>4. Fresh'
    BY <1>1, <1>2, <1>3 DEF Honest, Fresh
  <1>. QED BY <1>4 DEF Honest

(* One request's step keeps the agreement if it agrees with the others.     *)
LEMMA AgreeStep ==
    ASSUME Honest, NEW p \in Proc,
           \A q \in Proc \ {p} : job'[q] = job[q],
           \A q \in Busy \ {p} : job[q].status = "modified" =>
              sessions'[job[q].token] \in {Nobody, job[q].user},
           (p \in Busy' /\ job'[p].status = "modified") =>
              /\ sessions'[job'[p].token] \in {Nobody, job'[p].user}
              /\ \A q \in Busy \ {p} :
                    (job[q].status = "modified" /\ job[q].token = job'[p].token)
                       => job[q].user = job'[p].user
    PROVE  UsersAgree'
  <1>1. \A q \in Busy' : q # p => q \in Busy \ {p} /\ job'[q] = job[q]
    BY DEF Busy
  <1>2. ASSUME NEW q \in Busy', job'[q].status = "modified"
        PROVE  /\ sessions'[job'[q].token] \in {Nobody, job'[q].user}
               /\ \A r \in Busy' : (job'[r].status = "modified" /\ job'[r].token = job'[q].token)
                     => job'[r].user = job'[q].user
    <2>1. CASE q = p
      BY <1>1, <1>2, <2>1
    <2>2. CASE q # p
      <3>1. \A r \in Busy \ {p} : (job[r].status = "modified" /\ job[r].token = job[q].token)
                     => job[r].user = job[q].user
        BY <1>1, <1>2, <2>2 DEF Honest, UsersAgree
      <3>. QED BY <1>1, <1>2, <2>2, <3>1
    <2>. QED BY <2>1, <2>2
  <1>. QED BY <1>2 DEF UsersAgree

(* The same for a step that does not touch session or cookie either.       *)
LEMMA HonestPlain ==
    ASSUME Honest, Typed', NEW p \in Busy, NEW l \in Job, Set(p, l),
           UNCHANGED <<sessions, cookie, served>>,
           l.serial = job[p].serial, l.sent = job[p].sent, l.token = job[p].token,
           l.user = job[p].user, l.status = job[p].status,
           l.pc \in {"load", "find", "renew"} => job[p].pc \in {"load", "find", "renew"}
    PROVE  Honest'
  <1>1. Typed
    BY DEF Honest
  <1>2. job'[p] = l /\ \A q \in Proc \ {p} : job'[q] = job[q]
    BY <1>1, BusyJob DEF Set, Typed, TypeOK
  <1>3. Busy' = Busy
    BY <1>2 DEF Busy, Job, Steps, Idle
  <1>4. \A q \in Busy : /\ job'[q].sent = job[q].sent /\ job'[q].token = job[q].token
                        /\ job'[q].user = job[q].user /\ job'[q].status = job[q].status
    BY <1>2 DEF Busy
  <1>5. \A t \in Tokens : Used(t)' => Used(t)
    BY <1>3, <1>4 DEF Used
  <1>6. UsersAgree'
    BY <1>3, <1>4 DEF Honest, UsersAgree
  <1>. QED BY <1>2, <1>5, <1>6, HonestStep

LEMMA AnsweredSame ==
    ASSUME NEW j \in Job, NEW a \in {"ok", "refused", "error"}
    PROVE  LET l == Answered(j, a)
           IN  /\ l.serial = j.serial /\ l.sent = j.sent /\ l.token = j.token
               /\ l.user = j.user /\ l.status = j.status
               /\ l.pc \in {"save", "saveRoot"}
  BY DEF Answered, Job

LEMMA EnteredSame ==
    ASSUME NEW j \in Job
    PROVE  LET l == Entered(j)
           IN  /\ l.serial = j.serial /\ l.sent = j.sent /\ l.token = j.token
               /\ l.user = j.user /\ l.status = j.status
  <1>1. CASE j.req.op = "visit" \/ ~Valid(j.req)
    BY <1>1, AnsweredSame DEF Entered
  <1>2. CASE ~(j.req.op = "visit" \/ ~Valid(j.req))
    <2>1. Entered(j) = [j EXCEPT !.pc = FirstStep[j.req.op]]
      BY <1>2 DEF Entered
    <2>. QED BY <2>1 DEF Job
  <1>. QED BY <1>1, <1>2

LEMMA HonestNext == Honest /\ [Next]_vars => Honest'
  <1>. SUFFICES ASSUME Honest, [Next]_vars PROVE Honest'
    OBVIOUS
  <1>t. Typed /\ Typed'
    BY TypedNext DEF Honest
  <1>0. CASE UNCHANGED vars
    BY <1>0, <1>t DEF Honest, Fresh, UsersAgree, Used, Busy, vars
  <1>1. ASSUME NEW p \in Proc, NEW r \in Requests, Arrive(p, r) PROVE Honest'
    <2>1. /\ p \notin Busy /\ served' = served + 1
          /\ job'[p].pc = "load" /\ job'[p].serial = served + 1
          /\ job'[p].sent = cookie[r.browser] /\ job'[p].token = None
          /\ job'[p].status = "unmodified"
          /\ UNCHANGED <<sessions, cookie>>
      BY <1>1 DEF Arrive
    <2>2. \A q \in Proc \ {p} : job'[q] = job[q] \/ (q \in Busy /\ job'[q] = [job[q] EXCEPT !.alone = FALSE])
      BY <1>1 DEF Arrive
    <2>3. ASSUME NEW q \in Busy
          PROVE  /\ q \in Busy' /\ q # p /\ job'[q].pc = job[q].pc
                 /\ job'[q].serial = job[q].serial /\ job'[q].sent = job[q].sent
                 /\ job'[q].token = job[q].token /\ job'[q].user = job[q].user
                 /\ job'[q].status = job[q].status
      <3>1. q \in Proc /\ q # p /\ job[q] \in Job
        BY <1>t, <2>1, BusyJob
      <3>2. CASE job'[q] = job[q]
        BY <3>1, <3>2 DEF Busy
      <3>3. CASE job'[q] = [job[q] EXCEPT !.alone = FALSE]
        <4>1. job'[q] \in Job
          BY <3>1, <3>3 DEF Job
        <4>2. job'[q] # Idle
          BY <4>1 DEF Job, Steps, Idle
        <4>. QED BY <3>1, <3>3, <4>2 DEF Busy, Job
      <3>. QED BY <2>2, <3>1, <3>2, <3>3
    <2>4. Busy' = Busy \cup {p}
      BY <2>1, <2>2, <2>3 DEF Busy, Idle
    <2>5. r.browser \in Browsers
      BY AccountsAssumption DEF Request
    <2>6. \A t \in Tokens : Used(t)' => Used(t)
      BY <2>1, <2>3, <2>4, <2>5 DEF Used, Tokens, Serials, None
    <2>7. served \in Nat /\ served + 1 \in Tokens
      BY <1>1, AccountsAssumption, <1>t DEF Arrive, Typed, TypeOK, Tokens, Serials
    <2>8. \A q \in Busy : job[q].serial \in Tokens
      BY <1>t, BusyJob DEF Job, Tokens
    <2>9. Fresh'
      <3>1. \A q \in Busy' : job'[q].serial <= served'
        BY <2>1, <2>3, <2>4, <2>7, <2>8 DEF Honest, Fresh, Tokens, Serials
      <3>2. \A q, s \in Busy' : q # s => job'[q].serial # job'[s].serial
        BY <2>1, <2>3, <2>4, <2>7, <2>8 DEF Honest, Fresh, Tokens, Serials
      <3>3. \A t \in Tokens : t > served' => ~Used(t)'
        BY <2>1, <2>6, <2>7 DEF Honest, Fresh, Tokens, Serials
      <3>4. \A q \in Busy', t \in Tokens :
               (job'[q].pc \in {"load", "find", "renew"} /\ job'[q].serial = t) => ~Used(t)'
        <4>1. \A t \in Tokens : t = served + 1 => ~Used(t)'
          BY <2>6, <2>7 DEF Honest, Fresh
        <4>2. \A t \in Tokens : \A q \in Busy :
                 (job[q].pc \in {"load", "find", "renew"} /\ job[q].serial = t) => ~Used(t)'
          BY <2>6, <2>8 DEF Honest, Fresh
        <4>. QED BY <2>1, <2>3, <2>4, <4>1, <4>2
      <3>. QED BY <3>1, <3>2, <3>3, <3>4 DEF Fresh
    <2>10. UsersAgree'
      BY <2>1, <2>3, <2>4 DEF Honest, UsersAgree
    <2>. QED BY <1>t, <2>9, <2>10 DEF Honest
  <1>2. ASSUME NEW p \in Proc, Load(p) PROVE Honest'
    <2>. DEFINE j == job[p]
                k == [j EXCEPT !.token = j.sent, !.user = sessions[j.sent],
                               !.status = "modified"]
    <2>1. /\ p \in Busy /\ j \in Job /\ PlaceFits(j) /\ j.pc = "load"
          /\ UNCHANGED <<sessions, cookie, served>>
      BY <1>2, <1>t, BusyJob DEF Load, At
    <2>2. CASE Set(p, Entered(j))
      BY <1>t, <2>1, <2>2, EnteredFits, EnteredSame, HonestPlain
    <2>3. CASE Set(p, [j EXCEPT !.pc = "respond", !.answer = "error"])
      <3>1. [j EXCEPT !.pc = "respond", !.answer = "error"] \in Job
        BY <2>1 DEF Job, Steps
      <3>. QED BY <1>t, <2>1, <2>3, <3>1, HonestPlain DEF Job
    <2>4. CASE j.sent # None /\ sessions[j.sent] # Nobody /\ Set(p, Entered(k))
      <3>1. k \in Job
        BY <2>1, <2>4, <1>t DEF Job, Typed, TypeOK
      <3>2. job'[p] = Entered(k) /\ \A q \in Proc \ {p} : job'[q] = job[q]
        BY <1>t, <2>4 DEF Set, Typed, TypeOK
      <3>3. /\ job'[p].serial = j.serial /\ job'[p].sent = j.sent /\ job'[p].token = j.sent
            /\ job'[p].user = sessions[j.sent] /\ job'[p].status = "modified"
        BY <2>1, <3>1, <3>2, EnteredSame DEF Job
      <3>4. Busy' \subseteq Busy
        BY <2>1, <3>2 DEF Busy
      <3>5. \A t \in Tokens : Used(t)' => Used(t)
        BY <2>1, <3>2, <3>3, <3>4 DEF Used, Busy
      <3>6. UsersAgree'
        <4>1. ASSUME NEW q \in Busy', job'[q].status = "modified"
              PROVE  sessions'[job'[q].token] \in {Nobody, job'[q].user}
          BY <2>1, <3>2, <3>3, <3>4, <4>1 DEF Honest, UsersAgree, Busy
        <4>2. ASSUME NEW q \in Busy, NEW r \in Busy, q # p, r # p,
                     job'[q].status = "modified", job'[r].status = "modified",
                     job'[q].token = job'[r].token
              PROVE  job'[q].user = job'[r].user
          BY <3>2, <4>2 DEF Honest, UsersAgree, Busy
        <4>3. ASSUME NEW q \in Busy, q # p, job'[q].status = "modified",
                     job'[q].token = job'[p].token
              PROVE  job'[q].user = job'[p].user
          BY <2>4, <3>2, <3>3, <4>3 DEF Honest, UsersAgree, Busy
        <4>. QED BY <3>4, <4>1, <4>2, <4>3 DEF UsersAgree
      <3>. QED BY <1>t, <2>1, <3>2, <3>3, <3>5, <3>6, HonestStep
    <2>. QED BY <1>2, <2>2, <2>3, <2>4 DEF Load
  <1>3. ASSUME NEW p \in Proc, Find(p) PROVE Honest'
    <2>. DEFINE j == job[p]
    <2>1. /\ p \in Busy /\ j \in Job /\ PlaceFits(j) /\ j.pc = "find"
          /\ UNCHANGED <<sessions, cookie, served>>
      BY <1>3, <1>t, BusyJob DEF Find, At
    <2>2. CASE Set(p, Answered(j, "refused"))
      BY <1>t, <2>1, <2>2, AnsweredFits, AnsweredSame, HonestPlain
    <2>3. ASSUME NEW u \in Users, Set(p, [j EXCEPT !.found = u, !.pc = "renew"])
          PROVE  Honest'
      <3>1. [j EXCEPT !.found = u, !.pc = "renew"] \in Job
        BY <2>1 DEF Job, Steps
      <3>. QED BY <1>t, <2>1, <2>3, <3>1, HonestPlain DEF Job
    <2>. QED BY <1>3, <2>2, <2>3 DEF Find
  <1>4. ASSUME NEW p \in Proc, Renew(p) PROVE Honest'
    <2>. DEFINE j == job[p]
                k == [j EXCEPT !.pc = "audit", !.token = NewToken(j),
                               !.user = j.found, !.status = "modified"]
    <2>1. /\ p \in Busy /\ j \in Job /\ PlaceFits(j) /\ j.pc = "renew"
          /\ UNCHANGED <<cookie, served>>
      BY <1>4, <1>t, BusyJob DEF Renew, At
    <2>2. CASE Set(p, Answered(j, "refused")) /\ UNCHANGED sessions
      BY <1>t, <2>1, <2>2, AnsweredFits, AnsweredSame, HonestPlain
    <2>3. CASE /\ sessions' = IF j.token = None THEN sessions ELSE Deleted(j.token)
               /\ Set(p, k)
      <3>1. \A q \in Proc \ {p} : job'[q] = job[q]
        BY <1>t, <2>3 DEF Set, Typed, TypeOK
      <3>2. /\ job'[p].pc = "audit" /\ job'[p].serial = j.serial /\ job'[p].sent = j.sent
            /\ job'[p].token = j.serial /\ job'[p].status = "modified"
        <4>1. job'[p] = k
          BY <1>t, <2>3 DEF Set, Typed, TypeOK
        <4>2. /\ k.pc = "audit" /\ k.serial = j.serial /\ k.sent = j.sent
              /\ k.token = j.serial /\ k.status = "modified"
          BY <2>1 DEF Job, NewToken
        <4>. QED BY <4>1, <4>2
      <3>. HIDE DEF k
      <3>3. Busy' = Busy /\ \A q \in Busy : job[q].serial \in Tokens
        <4>1. \A q \in Busy : job[q].serial \in Tokens
          BY <1>t, BusyJob DEF Job, Tokens
        <4>2. job'[p] # Idle
          BY <3>2 DEF Idle
        <4>. QED BY <2>1, <3>1, <4>1, <4>2 DEF Busy
      <3>4. \A t \in Tokens : sessions'[t] \in {Nobody, sessions[t]}
        BY <2>3, <1>t DEF Deleted, Typed, TypeOK
      <3>5. ASSUME NEW t \in Tokens, Used(t)' PROVE Used(t) \/ t = j.serial
        <4>1. CASE sessions'[t] # Nobody
          BY <3>4, <4>1 DEF Used
        <4>2. CASE \E b \in Browsers : cookie'[b] = t
          BY <2>1, <4>2 DEF Used
        <4>3. ASSUME NEW q \in Busy, job'[q].sent = t \/ job'[q].token = t
              PROVE  Used(t) \/ t = j.serial
          <5>1. CASE q = p
            BY <2>1, <3>1, <3>2, <4>3, <5>1 DEF Used
          <5>2. CASE q # p
            BY <3>1, <4>3, <5>2 DEF Used, Busy
          <5>. QED BY <5>1, <5>2
        <4>. QED BY <3>3, <3>5, <4>1, <4>2, <4>3 DEF Used
      <3>6. /\ j.serial \in Tokens /\ j.serial <= served
            /\ \A q \in Busy \ {p} : job[q].serial # j.serial
            /\ ~Used(j.serial)
        BY <2>1, <3>3 DEF Honest, Fresh
      <3>7. Fresh'
        <4>1. \A t \in Tokens : t > served' => ~Used(t)'
          BY <2>1, <3>5, <3>6, <1>t DEF Honest, Fresh, Typed, TypeOK, Tokens, Serials
        <4>2. \A q \in Busy', t \in Tokens :
                 (job'[q].pc \in {"load", "find", "renew"} /\ job'[q].serial = t) => ~Used(t)'
          BY <3>1, <3>2, <3>3, <3>5, <3>6 DEF Honest, Fresh, Busy
        <4>3. \A q \in Busy' : job'[q].serial = job[q].serial
          BY <3>1, <3>2, <3>3 DEF Busy
        <4>. QED BY <2>1, <3>3, <4>1, <4>2, <4>3 DEF Honest, Fresh
      <3>8. UsersAgree'
        <4>1. sessions[j.serial] = Nobody /\ \A q \in Busy : job[q].token # j.serial
          BY <2>1, <3>6 DEF Used
        <4>2. sessions'[j.serial] = Nobody
          BY <3>4, <3>6, <4>1
        <4>3. ASSUME NEW q \in Busy, job[q].status = "modified"
              PROVE  sessions'[job[q].token] \in {Nobody, job[q].user}
          BY <1>t, <3>4, <4>3, BusyJob DEF PlaceFits, Honest, UsersAgree
        <4>. QED BY <2>1, <3>1, <3>2, <4>1, <4>2, <4>3, AgreeStep
      <3>. QED BY <1>t, <3>7, <3>8 DEF Honest
    <2>. QED BY <1>4, <2>2, <2>3 DEF Renew
  <1>5. ASSUME NEW p \in Proc, AuditLogin(p) PROVE Honest'
    BY <1>5, <1>t, BusyJob, AnsweredFits, AnsweredSame, HonestPlain DEF AuditLogin, At
  <1>6. ASSUME NEW p \in Proc, Destroy(p) PROVE Honest'
    <2>. DEFINE j == job[p]
    <2>1. /\ p \in Busy /\ j \in Job /\ PlaceFits(j)
          /\ UNCHANGED <<cookie, served>>
      BY <1>6, <1>t, BusyJob DEF Destroy, At
    <2>2. CASE Set(p, Answered(j, "error")) /\ UNCHANGED sessions
      BY <1>t, <2>1, <2>2, AnsweredFits, AnsweredSame, HonestPlain
    <2>3. CASE /\ sessions' = IF j.token = None THEN sessions ELSE Deleted(j.token)
               /\ Set(p, Answered(Destroyed(j), "ok"))
      <3>1. /\ Destroyed(j) \in Job /\ Destroyed(j).serial = j.serial
            /\ Destroyed(j).sent = j.sent /\ Destroyed(j).token = None
            /\ Destroyed(j).status = "destroyed"
        BY <2>1 DEF Destroyed, Job
      <3>2. job'[p] = Answered(Destroyed(j), "ok") /\ \A q \in Proc \ {p} : job'[q] = job[q]
        BY <1>t, <2>3 DEF Set, Typed, TypeOK
      <3>3. /\ job'[p].serial = j.serial /\ job'[p].sent = j.sent /\ job'[p].token = None
            /\ job'[p].status = "destroyed" /\ job'[p].pc \in {"save", "saveRoot"}
        BY <3>1, <3>2, AnsweredSame
      <3>4. \A t \in Tokens : sessions'[t] \in {Nobody, sessions[t]}
        BY <2>3, <1>t DEF Deleted, Typed, TypeOK
      <3>5. \A t \in Tokens : Used(t)' => Used(t)
        BY <2>1, <3>2, <3>3, <3>4 DEF Used, Busy, Tokens, Serials, None
      <3>6. UsersAgree'
        <4>1. ASSUME NEW q \in Busy, job[q].status = "modified"
              PROVE  sessions'[job[q].token] \in {Nobody, job[q].user}
          BY <1>t, <3>4, <4>1, BusyJob DEF PlaceFits, Honest, UsersAgree
        <4>. QED BY <3>2, <3>3, <4>1, AgreeStep
      <3>. QED BY <1>t, <2>1, <3>2, <3>3, <3>5, <3>6, HonestStep
    <2>. QED BY <1>6, <2>2, <2>3 DEF Destroy
  <1>7. ASSUME NEW p \in Proc, Read(p) PROVE Honest'
    <2>. DEFINE j == job[p]
    <2>1. /\ p \in Busy /\ j \in Job /\ PlaceFits(j) /\ j.pc = "read"
          /\ UNCHANGED <<sessions, cookie, served>>
      BY <1>7, <1>t, BusyJob DEF Read, At
    <2>2. CASE Set(p, Answered(j, "refused"))
      BY <1>t, <2>1, <2>2, AnsweredFits, AnsweredSame, HonestPlain
    <2>3. CASE Set(p, [j EXCEPT !.pc = "begin", !.row = users[j.req.user]])
      <3>1. users[j.req.user] \in Row
        BY <1>t, <2>1, AccountsAssumption DEF Typed, TypeOK, Job, Request
      <3>2. [j EXCEPT !.pc = "begin", !.row = users[j.req.user]] \in Job
        BY <2>1, <3>1 DEF Job, Steps
      <3>. QED BY <1>t, <2>1, <2>3, <3>2, HonestPlain DEF Job
    <2>. QED BY <1>7, <2>2, <2>3 DEF Read
  <1>8. ASSUME NEW p \in Proc, BeginUpdate(p) PROVE Honest'
    <2>. DEFINE j == job[p]
    <2>1. /\ p \in Busy /\ j \in Job /\ PlaceFits(j) /\ j.pc = "begin"
          /\ UNCHANGED <<sessions, cookie, served>>
      BY <1>8, <1>t, BusyJob DEF BeginUpdate, At
    <2>2. CASE Set(p, Answered(j, "refused"))
      BY <1>t, <2>1, <2>2, AnsweredFits, AnsweredSame, HonestPlain
    <2>3. CASE Set(p, [j EXCEPT !.pc = "write"])
      <3>1. [j EXCEPT !.pc = "write"] \in Job
        BY <2>1 DEF Job, Steps
      <3>. QED BY <1>t, <2>1, <2>3, <3>1, HonestPlain DEF Job
    <2>. QED BY <1>8, <2>2, <2>3 DEF BeginUpdate
  <1>9. ASSUME NEW p \in Proc, Write(p) \/ LogUpdate(p) PROVE Honest'
    <2>1. /\ p \in Busy /\ job[p] \in Job
          /\ UNCHANGED <<sessions, cookie, served>>
      BY <1>9, <1>t, BusyJob DEF Write, LogUpdate, At
    <2>2. PICK pc \in {"log", "commit"} : Set(p, [job[p] EXCEPT !.pc = pc])
      BY <1>9 DEF Write, LogUpdate
    <2>3. [job[p] EXCEPT !.pc = pc] \in Job
      BY <2>1 DEF Job, Steps
    <2>. QED BY <1>t, <2>1, <2>2, <2>3, HonestPlain DEF Job
  <1>10. ASSUME NEW p \in Proc, FailInside(p) \/ Commit(p) PROVE Honest'
    <2>1. /\ p \in Busy /\ job[p] \in Job /\ PlaceFits(job[p])
          /\ UNCHANGED <<sessions, cookie, served>>
      BY <1>10, <1>t, BusyJob DEF FailInside, Commit, At
    <2>2. PICK a \in {"ok", "refused"} : Set(p, Answered(job[p], a))
      BY <1>10 DEF FailInside, Commit
    <2>. QED BY <1>t, <2>1, <2>2, AnsweredFits, AnsweredSame, HonestPlain
  <1>11. ASSUME NEW p \in Proc, Save(p) PROVE Honest'
    <2>. DEFINE j == job[p]
    <2>1. /\ p \in Busy /\ j \in Job /\ PlaceFits(j) /\ j.pc \in {"save", "saveRoot"}
          /\ UNCHANGED <<cookie, served>>
      BY <1>11, <1>t, BusyJob DEF Save, At
    <2>2. ASSUME NEW pc \in {"saveRoot", "respond"}, NEW c \in BOOLEAN,
                 NEW l \in {[j EXCEPT !.pc = pc, !.setsCookie = c],
                            [Unsaved(j) EXCEPT !.pc = pc]}
          PROVE  /\ l \in Job /\ l.serial = j.serial /\ l.sent = j.sent
                 /\ l.token = j.token /\ l.user = j.user /\ l.status = j.status
                 /\ l.pc \in {"saveRoot", "respond"}
      <3>1. CASE l = [j EXCEPT !.pc = pc, !.setsCookie = c]
        BY <2>1, <3>1 DEF Job, Steps
      <3>2. CASE l = [Unsaved(j) EXCEPT !.pc = pc]
        BY <2>1, <3>2 DEF Job, Steps, Unsaved
      <3>. QED BY <3>1, <3>2
    <2>3. ASSUME NEW l \in Job, Set(p, l), l.serial = j.serial, l.sent = j.sent,
                 l.token = j.token, l.user = j.user, l.status = j.status,
                 l.pc \in {"saveRoot", "respond"}, UNCHANGED sessions
          PROVE  Honest'
      BY <1>t, <2>1, <2>3, HonestPlain
    <2>4. ASSUME NEW l \in Job, Set(p, l), l.serial = j.serial, l.sent = j.sent,
                 l.token = j.token, l.user = j.user, l.status = j.status,
                 l.pc \in {"saveRoot", "respond"}, j.status = "modified",
                 sessions' = [sessions EXCEPT ![j.token] = j.user]
          PROVE  Honest'
      <3>1. job'[p] = l /\ \A q \in Proc \ {p} : job'[q] = job[q]
        BY <1>t, <2>4 DEF Set, Typed, TypeOK
      <3>2. /\ j.token \in Tokens /\ sessions'[j.token] = j.user
            /\ \A t \in Tokens \ {j.token} : sessions'[t] = sessions[t]
        BY <1>t, <2>1, <2>4 DEF PlaceFits, Typed, TypeOK
      <3>3. \A t \in Tokens : Used(t)' => Used(t)
        BY <2>1, <2>4, <3>1, <3>2 DEF Used, Busy
      <3>4. ASSUME NEW q \in Busy, job[q].status = "modified"
            PROVE  sessions'[job[q].token] \in {Nobody, job[q].user}
        <4>1. job[q].token \in Tokens
          BY <1>t, <3>4, BusyJob DEF PlaceFits
        <4>2. CASE job[q].token = j.token
          BY <2>1, <2>4, <3>2, <3>4, <4>2 DEF Honest, UsersAgree
        <4>3. CASE job[q].token # j.token
          BY <3>2, <3>4, <4>1, <4>3 DEF Honest, UsersAgree
        <4>. QED BY <4>2, <4>3
      <3>5. \A q \in Busy : (job[q].status = "modified" /\ job[q].token = j.token)
                 => job[q].user = j.user
        BY <2>1, <2>4 DEF Honest, UsersAgree
      <3>6. UsersAgree'
        BY <2>4, <3>1, <3>2, <3>4, <3>5, AgreeStep
      <3>. QED BY <1>t, <2>1, <2>4, <3>1, <3>3, <3>6, HonestStep
    <2>5. PICK pc \in {"saveRoot", "respond"} : pc = IF j.pc = "save" THEN "saveRoot" ELSE "respond"
      OBVIOUS
    <2>6. CASE /\ j.status = "modified"
               /\ sessions' = [sessions EXCEPT ![j.token] = j.user]
               /\ Set(p, [j EXCEPT !.pc = pc, !.setsCookie = TRUE])
      BY <2>2, <2>4, <2>6
    <2>7. CASE Set(p, [Unsaved(j) EXCEPT !.pc = pc]) /\ UNCHANGED sessions
      BY <2>2, <2>3, <2>7
    <2>8. CASE /\ Set(p, [j EXCEPT !.pc = pc, !.setsCookie = (j.status = "destroyed")])
               /\ UNCHANGED sessions
      <3>1. (j.status = "destroyed") \in BOOLEAN
        OBVIOUS
      <3>. QED BY <2>2, <2>3, <2>8, <3>1
    <2>. QED BY <1>11, <2>5, <2>6, <2>7, <2>8 DEF Save
  <1>12. ASSUME NEW p \in Proc, Respond(p) PROVE Honest'
    <2>. DEFINE j == job[p]
    <2>1. /\ p \in Busy /\ j \in Job
          /\ UNCHANGED <<sessions, served>>
          /\ cookie' = IF j.setsCookie THEN [cookie EXCEPT ![j.req.browser] = j.token] ELSE cookie
      BY <1>12, <1>t, BusyJob DEF Respond, At
    <2>2. job'[p] = Idle /\ \A q \in Proc \ {p} : job'[q] = job[q]
      BY <1>12, <1>t DEF Respond, Set, Typed, TypeOK
    <2>3. Busy' \subseteq Busy /\ p \notin Busy'
      BY <2>2 DEF Busy
    <2>4. \A b \in Browsers : cookie'[b] = cookie[b] \/ cookie'[b] = j.token
      BY <1>t, <2>1 DEF Typed, TypeOK
    <2>5. \A t \in Tokens : Used(t)' => Used(t)
      BY <2>1, <2>2, <2>3, <2>4 DEF Used, Busy
    <2>6. UsersAgree'
      BY <2>1, <2>2, <2>3, AgreeStep DEF Honest, UsersAgree
    <2>. QED BY <1>t, <2>1, <2>2, <2>3, <2>5, <2>6, HonestStep
  <1>13. CASE Restart
    <2>1. Busy' = {} /\ UNCHANGED <<sessions, cookie, served>>
      BY <1>13 DEF Restart, Busy
    <2>2. \A t \in Tokens : Used(t)' => Used(t)
      BY <2>1 DEF Used
    <2>. QED BY <1>t, <2>1, <2>2 DEF Honest, Fresh, UsersAgree
  <1>14. CASE Expire
    <2>1. UNCHANGED <<sessions, cookie, served, job>>
      BY <1>14 DEF Expire
    <2>. QED BY <1>t, <2>1 DEF Honest, Fresh, UsersAgree, Used, Busy
  <1>. QED BY <1>0, <1>1, <1>2, <1>3, <1>4, <1>5, <1>6, <1>7, <1>8, <1>9, <1>10,
              <1>11, <1>12, <1>13, <1>14 DEF Next

LEMMA HonestInit == Init => Honest
  <1>. SUFFICES ASSUME Init PROVE Honest
    OBVIOUS
  <1>1. Busy = {}
    BY DEF Init, Busy
  <1>2. \A t \in Tokens : ~Used(t)
    BY <1>1 DEF Init, Used, Tokens, Serials, None
  <1>. QED BY <1>1, <1>2, TypedInit DEF Honest, Fresh, UsersAgree

(* A token never passes from one user to another (user/service.go, Login;  *)
(* scs, RenewToken).                                                       *)
TokensKeep ==
    \A t \in Tokens :
       (sessions[t] # Nobody /\ sessions'[t] # Nobody) => sessions'[t] = sessions[t]

LEMMA TokensKeepNext == Honest /\ [Next]_vars => TokensKeep
  <1>. SUFFICES ASSUME Honest, [Next]_vars PROVE TokensKeep
    OBVIOUS
  <1>t. sessions \in [Tokens -> Users \cup {Nobody}]
    BY DEF Honest, Typed, TypeOK
  <1>1. ASSUME NEW p \in Proc, Renew(p) \/ Destroy(p) PROVE TokensKeep
    BY <1>t, <1>1 DEF Renew, Destroy, Deleted, TokensKeep
  <1>2. ASSUME NEW p \in Proc, Save(p) PROVE TokensKeep
    <2>1. p \in Busy
      BY <1>2 DEF Save, At
    <2>2. job[p].status = "modified" => sessions[job[p].token] \in {Nobody, job[p].user}
      BY <2>1 DEF Honest, UsersAgree
    <2>. QED BY <1>t, <1>2, <2>2 DEF Save, TokensKeep
  <1>3. CASE UNCHANGED sessions
    BY <1>3 DEF TokensKeep
  <1>. QED
    BY <1>1, <1>2, <1>3
    DEF Next, vars, Arrive, Load, Find, AuditLogin, Read, BeginUpdate, Write, LogUpdate,
        Commit, FailInside, Respond, Restart, Expire

(* However requests overlap, a session's token stays with its user.        *)
THEOREM TokensStayWithUser == Spec => TokensKeepTheirUser
  <1>1. Honest /\ Honest' /\ [Next]_vars => [TokensKeep]_vars
    BY TokensKeepNext
  <1>2. [TokensKeep]_vars => [\A t \in Tokens :
          (sessions[t] # Nobody /\ sessions'[t] # Nobody) => sessions'[t] = sessions[t]]_vars
    BY DEF TokensKeep
  <1>. QED BY HonestInit, HonestNext, <1>1, <1>2, PTL DEF Spec, TokensKeepTheirUser

-----------------------------------------------------------------------------
(* What a browser was told.  A token in use is of one browser: the cookie  *)
(* and the requests of one browser name it, those of others do not.        *)
Of(b) == {p \in Busy : job[p].req.browser = b}
Holds(b, t) == cookie[b] = t \/ \E p \in Of(b) : job[p].sent = t \/ job[p].token = t
Owned == \A b, c \in Browsers, t \in Tokens : Holds(b, t) /\ Holds(c, t) => b = c

(* The session that a request came with is gone.                           *)
Gone(j) == j.sent # None => sessions[j.sent] = Nobody

(* What a request does to its session while no other of its browser is in  *)
(* flight.  Most keep it: either they have none, or they save it again.    *)
Keeps(j) ==
    /\ told[j.req.browser] \in Users =>
          j.sent # None /\ sessions[j.sent] = told[j.req.browser]
    /\ j.req.op \in {"login", "logout"} => j.answer # "ok"
    /\ j.pc # "audit"
    /\ \/ /\ j.token = None /\ j.status = "unmodified" /\ ~j.setsCookie
          /\ j.pc = "load" \/ Gone(j) \/ (j.pc = "respond" /\ j.answer = "error")
       \/ /\ j.pc # "load"
          /\ j.token = j.sent /\ j.sent # None /\ j.status = "modified"
          /\ told[j.req.browser] \in Users => j.user = told[j.req.browser]

(* A login has drawn a new token, and has the user only under that one.    *)
Renewed(j) ==
    /\ j.req.op = "login" /\ Gone(j)
    /\ j.token = j.serial /\ j.user = j.found /\ j.found \in Users /\ j.status = "modified"
    /\ \/ j.pc = "audit"
       \/ j.pc \in {"save", "saveRoot", "respond"} /\ j.answer \in {"ok", "error"}
    /\ j.pc = "respond" /\ j.answer = "ok" =>
          j.setsCookie /\ sessions[j.token] = j.found

(* A logout has destroyed the session and will clear the cookie.           *)
Left(j) ==
    /\ j.req.op = "logout" /\ Gone(j)
    /\ j.token = None /\ j.status = "destroyed" /\ j.answer = "ok"
    /\ j.pc \in {"save", "saveRoot", "respond"}
    /\ j.pc = "respond" => j.setsCookie

AloneFits(j) ==
    /\ j.sent = cookie[j.req.browser] /\ j.sent # j.serial
    /\ told[j.req.browser] = Nobody => j.sent = None
    /\ Keeps(j) \/ Renewed(j) \/ Left(j)

AnswerHolds(b) ==
    /\ told[b] \in Users => cookie[b] # None /\ sessions[cookie[b]] = told[b]
    /\ told[b] = Nobody => cookie[b] = None

BrowserFits(b) ==
    /\ Of(b) = {} => AnswerHolds(b)
    /\ \A p \in Of(b) : job[p].alone => Of(b) = {p} /\ AloneFits(job[p])

(* A token that was given up is drawn, and nothing names it any more.      *)
EndedGone ==
    \A t \in ended :
       /\ ~Used(t) /\ t <= served
       /\ \A p \in Busy : job[p].pc \in {"load", "find", "renew"} => job[p].serial # t

AnswersInv == Honest /\ Owned /\ EndedGone /\ \A b \in Browsers : BrowserFits(b)

(* What a step of a request p in flight may change.                        *)
Drawing == {"load", "find", "renew"}
Touches(p) ==
    /\ p \in Busy /\ job[p].req.browser \in Browsers /\ UNCHANGED served
    /\ \A q \in Proc \ {p} : job'[q] = job[q]
    /\ \A t \in Tokens \ {job[p].token} : sessions'[t] = sessions[t]
    /\ \A c \in Browsers \ {job[p].req.browser} : cookie'[c] = cookie[c] /\ told'[c] = told[c]
    /\ cookie'[job[p].req.browser] \in {cookie[job[p].req.browser], job[p].token}
    /\ job'[p] = Idle => job[p].pc = "respond"
    /\ job'[p] # Idle =>
          /\ job'[p].req = job[p].req /\ job'[p].serial = job[p].serial
          /\ job'[p].sent = job[p].sent /\ job'[p].alone = job[p].alone
          /\ \/ job'[p].token \in {job[p].token, job[p].sent, None}
             \/ job'[p].token = job[p].serial /\ job[p].pc = "renew"
          /\ job'[p].pc \in Drawing => job[p].pc \in Drawing

LEMMA BrowserOf ==
    ASSUME Typed, NEW p \in Busy
    PROVE  job[p].req.browser \in Browsers /\ p \in Proc /\ p \in Of(job[p].req.browser)
  BY BusyJob, AccountsAssumption DEF Job, Request, Of

(* All but an arrival and a restart only touch what their request holds.   *)
LEMMA StepTouches ==
    ASSUME Typed, NEW p \in Proc,
           \/ Load(p) \/ Find(p) \/ Renew(p) \/ AuditLogin(p) \/ Destroy(p)
           \/ Read(p) \/ BeginUpdate(p) \/ Write(p) \/ LogUpdate(p) \/ Commit(p)
           \/ FailInside(p) \/ Save(p) \/ Respond(p)
    PROVE  Touches(p)
  <1>. DEFINE j == job[p]
  <1>0. p \in Busy
    BY DEF Load, Find, Renew, AuditLogin, Destroy, Read, BeginUpdate, Write, LogUpdate, Commit,
           FailInside, Save, Respond, At
  <1>1. j \in Job /\ PlaceFits(j) /\ j.req.browser \in Browsers
    BY <1>0, BusyJob, BrowserOf
  <1>2. ASSUME NEW l, Set(p, l) PROVE job'[p] = l /\ \A q \in Proc \ {p} : job'[q] = job[q]
    BY <1>2 DEF Set, Typed, TypeOK
  <1>3. ASSUME NEW l \in Job, Set(p, l), UNCHANGED <<cookie, told, served>>,
               \A t \in Tokens \ {j.token} : sessions'[t] = sessions[t],
               l.req = j.req, l.serial = j.serial, l.sent = j.sent, l.alone = j.alone,
               l.token \in {j.token, j.sent, None} \/ (l.token = j.serial /\ j.pc = "renew"),
               l.pc \in Drawing => j.pc \in Drawing
        PROVE  Touches(p)
    <2>1. l # Idle
      BY DEF Job, Steps, Idle
    <2>. QED BY <1>0, <1>1, <1>2, <1>3, <2>1 DEF Touches
  <1>4. ASSUME NEW l \in Job, NEW a \in {"ok", "refused", "error"}, Set(p, Answered(l, a)),
               UNCHANGED <<cookie, told, served>>,
               \A t \in Tokens \ {j.token} : sessions'[t] = sessions[t],
               l.req = j.req, l.serial = j.serial, l.sent = j.sent, l.alone = j.alone,
               l.token \in {j.token, None}
        PROVE  Touches(p)
    <2>1. LET k == Answered(l, a)
          IN  /\ k.req = l.req /\ k.serial = l.serial /\ k.sent = l.sent /\ k.alone = l.alone
              /\ k.token = l.token /\ k.pc \in {"save", "saveRoot"} /\ k # Idle
      BY DEF Answered, Job, Idle
    <2>. QED BY <1>0, <1>1, <1>2, <1>4, <2>1 DEF Touches, Drawing
  <1>5. CASE Load(p)
    <2>1. UNCHANGED <<cookie, told, served, sessions>> /\ j.pc = "load"
      BY <1>5 DEF Load, At
    <2>2. ASSUME NEW l \in Job, Set(p, Entered(l)),
                 l.req = j.req, l.serial = j.serial, l.sent = j.sent, l.alone = j.alone,
                 l.token \in {j.token, j.sent}
          PROVE  Touches(p)
      <3>1. LET k == Entered(l)
            IN  /\ k.req = l.req /\ k.serial = l.serial /\ k.sent = l.sent /\ k.alone = l.alone
                /\ k.token = l.token /\ k # Idle
        <4>1. CASE l.req.op = "visit" \/ ~Valid(l.req)
          BY <4>1 DEF Entered, Answered, Job, Idle
        <4>2. CASE ~(l.req.op = "visit" \/ ~Valid(l.req))
          <5>1. Entered(l) = [l EXCEPT !.pc = FirstStep[l.req.op]]
            BY <4>2 DEF Entered
          <5>2. l.req.op \in {"login", "logout", "update"}
            BY <4>2, AccountsAssumption DEF Job, Request, Ops
          <5>3. FirstStep[l.req.op] # "idle"
            BY <5>2 DEF FirstStep
          <5>. QED BY <5>1, <5>3 DEF Job, Idle
        <4>. QED BY <4>1, <4>2
      <3>. QED BY <1>0, <1>1, <1>2, <2>1, <2>2, <3>1 DEF Touches, Drawing
    <2>3. CASE Set(p, Entered(j))
      BY <1>1, <2>2, <2>3
    <2>4. CASE /\ j.sent # None /\ sessions[j.sent] # Nobody
               /\ Set(p, Entered([j EXCEPT !.token = j.sent, !.user = sessions[j.sent],
                                           !.status = "modified"]))
      <3>. DEFINE k == [j EXCEPT !.token = j.sent, !.user = sessions[j.sent], !.status = "modified"]
      <3>1. k \in Job
        BY <1>1, <2>4 DEF Job, Typed, TypeOK
      <3>2. /\ k.req = j.req /\ k.serial = j.serial /\ k.sent = j.sent /\ k.alone = j.alone
            /\ k.token = j.sent
        BY <1>1 DEF Job
      <3>. HIDE DEF k
      <3>3. Set(p, Entered(k))
        BY <2>4 DEF k
      <3>. QED BY <2>2, <3>1, <3>2, <3>3
    <2>5. CASE Set(p, [j EXCEPT !.pc = "respond", !.answer = "error"])
      <3>1. [j EXCEPT !.pc = "respond", !.answer = "error"] \in Job
        BY <1>1 DEF Job, Steps
      <3>. QED BY <1>1, <1>3, <2>1, <2>5, <3>1 DEF Job, Drawing
    <2>. QED BY <1>5, <2>3, <2>4, <2>5 DEF Load
  <1>6. CASE Find(p)
    <2>1. UNCHANGED <<cookie, told, served, sessions>> /\ j.pc = "find"
      BY <1>6 DEF Find, At
    <2>2. CASE Set(p, Answered(j, "refused"))
      BY <1>1, <1>4, <2>1, <2>2
    <2>3. ASSUME NEW u \in Users, Set(p, [j EXCEPT !.found = u, !.pc = "renew"])
          PROVE  Touches(p)
      <3>1. [j EXCEPT !.found = u, !.pc = "renew"] \in Job
        BY <1>1 DEF Job, Steps
      <3>. QED BY <1>1, <1>3, <2>1, <2>3, <3>1 DEF Job, Drawing
    <2>. QED BY <1>6, <2>2, <2>3 DEF Find
  <1>7. CASE Renew(p)
    <2>1. UNCHANGED <<cookie, told, served>> /\ j.pc = "renew"
      BY <1>7 DEF Renew, At
    <2>2. \A t \in Tokens \ {j.token} : sessions'[t] = sessions[t]
      BY <1>7 DEF Renew, Deleted, Typed, TypeOK
    <2>3. CASE Set(p, Answered(j, "refused"))
      BY <1>1, <1>4, <2>1, <2>2, <2>3
    <2>4. CASE Set(p, [j EXCEPT !.pc = "audit", !.token = NewToken(j),
                                !.user = j.found, !.status = "modified"])
      <3>1. [j EXCEPT !.pc = "audit", !.token = NewToken(j),
                      !.user = j.found, !.status = "modified"] \in Job
        BY <1>1 DEF Job, Steps, NewToken, Tokens
      <3>. QED BY <1>1, <1>3, <2>1, <2>2, <2>4, <3>1 DEF Job, Drawing, NewToken
    <2>. QED BY <1>7, <2>3, <2>4 DEF Renew
  <1>8. CASE Destroy(p)
    <2>1. UNCHANGED <<cookie, told, served>> /\ j.pc = "destroy"
      BY <1>8 DEF Destroy, At
    <2>2. \A t \in Tokens \ {j.token} : sessions'[t] = sessions[t]
      BY <1>8 DEF Destroy, Deleted, Typed, TypeOK
    <2>3. CASE Set(p, Answered(j, "error"))
      BY <1>1, <1>4, <2>1, <2>2, <2>3
    <2>4. CASE Set(p, Answered(Destroyed(j), "ok"))
      <3>1. /\ Destroyed(j) \in Job /\ Destroyed(j).req = j.req
            /\ Destroyed(j).serial = j.serial /\ Destroyed(j).sent = j.sent
            /\ Destroyed(j).alone = j.alone /\ Destroyed(j).token = None
        BY <1>1 DEF Job, Destroyed
      <3>. QED BY <1>4, <2>1, <2>2, <2>4, <3>1
    <2>. QED BY <1>8, <2>3, <2>4 DEF Destroy
  <1>9. CASE AuditLogin(p) \/ FailInside(p) \/ Commit(p)
    <2>1. UNCHANGED <<cookie, told, served, sessions>>
      BY <1>9 DEF AuditLogin, FailInside, Commit
    <2>2. PICK a \in {"ok", "refused"} : Set(p, Answered(j, a))
      BY <1>9 DEF AuditLogin, FailInside, Commit
    <2>. QED BY <1>1, <1>4, <2>1, <2>2
  <1>10. CASE Read(p) \/ BeginUpdate(p) \/ Write(p) \/ LogUpdate(p)
    <2>1. UNCHANGED <<cookie, told, served, sessions>>
      BY <1>10 DEF Read, BeginUpdate, Write, LogUpdate
    <2>2. CASE Set(p, Answered(j, "refused"))
      BY <1>1, <1>4, <2>1, <2>2
    <2>3. CASE Read(p) /\ Set(p, [j EXCEPT !.pc = "begin", !.row = users[j.req.user]])
      <3>1. [j EXCEPT !.pc = "begin", !.row = users[j.req.user]] \in Job
        BY <1>1, AccountsAssumption DEF Job, Request, Steps, Typed, TypeOK
      <3>. QED BY <1>1, <1>3, <2>1, <2>3, <3>1 DEF Job, Drawing
    <2>4. ASSUME NEW pc \in {"write", "log", "commit"}, Set(p, [j EXCEPT !.pc = pc])
          PROVE  Touches(p)
      <3>1. [j EXCEPT !.pc = pc] \in Job
        BY <1>1 DEF Job, Steps
      <3>. QED BY <1>1, <1>3, <2>1, <2>4, <3>1 DEF Job, Drawing
    <2>. QED BY <1>10, <2>2, <2>3, <2>4 DEF Read, BeginUpdate, Write, LogUpdate
  <1>11. CASE Save(p)
    <2>1. UNCHANGED <<cookie, told, served>>
      BY <1>11 DEF Save
    <2>2. \A t \in Tokens \ {j.token} : sessions'[t] = sessions[t]
      BY <1>11 DEF Save, Typed, TypeOK
    <2>3. ASSUME NEW pc \in {"saveRoot", "respond"}, NEW c \in BOOLEAN,
                 NEW l \in {[j EXCEPT !.pc = pc, !.setsCookie = c],
                            [Unsaved(j) EXCEPT !.pc = pc]},
                 Set(p, l)
          PROVE  Touches(p)
      <3>1. /\ l \in Job /\ l.req = j.req /\ l.serial = j.serial /\ l.sent = j.sent
            /\ l.alone = j.alone /\ l.token = j.token /\ l.pc = pc
        <4>1. CASE l = [j EXCEPT !.pc = pc, !.setsCookie = c]
          BY <1>1, <4>1 DEF Job, Steps
        <4>2. CASE l = [Unsaved(j) EXCEPT !.pc = pc]
          BY <1>1, <4>2 DEF Job, Steps, Unsaved
        <4>. QED BY <2>3, <4>1, <4>2
      <3>. QED BY <1>3, <2>1, <2>2, <2>3, <3>1 DEF Drawing
    <2>4. PICK pc \in {"saveRoot", "respond"} : pc = IF j.pc = "save" THEN "saveRoot" ELSE "respond"
      OBVIOUS
    <2>5. \E c \in BOOLEAN : \/ Set(p, [j EXCEPT !.pc = pc, !.setsCookie = c])
                             \/ Set(p, [Unsaved(j) EXCEPT !.pc = pc])
      BY <1>11, <2>4 DEF Save
    <2>. QED BY <2>3, <2>5
  <1>12. CASE Respond(p)
    <2>1. /\ job'[p] = Idle /\ j.pc = "respond"
          /\ \A q \in Proc \ {p} : job'[q] = job[q]
      BY <1>2, <1>12 DEF Respond, At
    <2>2. /\ UNCHANGED <<served, sessions>>
          /\ cookie' = IF j.setsCookie THEN [cookie EXCEPT ![j.req.browser] = j.token] ELSE cookie
          /\ told' = [told EXCEPT ![j.req.browser] = ToldBy(j, @)]
      BY <1>12 DEF Respond
    <2>3. /\ \A c \in Browsers \ {j.req.browser} : cookie'[c] = cookie[c] /\ told'[c] = told[c]
          /\ cookie'[j.req.browser] \in {cookie[j.req.browser], j.token}
      BY <1>1, <2>2 DEF Typed, TypeOK
    <2>. QED BY <1>0, <1>1, <2>1, <2>2, <2>3 DEF Touches
  <1>. QED BY <1>5, <1>6, <1>7, <1>8, <1>9, <1>10, <1>11, <1>12

LEMMA HoldsStep ==
    ASSUME AnswersInv, NEW p \in Proc, Touches(p), NEW c \in Browsers, NEW t \in Tokens,
           Holds(c, t)'
    PROVE  \/ Holds(c, t)
           \/ c = job[p].req.browser /\ t = job[p].serial /\ job[p].pc = "renew"
  <1>. DEFINE b == job[p].req.browser
  <1>0. t # None
    BY AccountsAssumption DEF Tokens, Serials, None
  <1>1. p \in Of(b) /\ b \in Browsers
    BY BrowserOf DEF AnswersInv, Honest, Touches
  <1>2. CASE cookie'[c] = t
    <2>1. cookie[c] = t \/ (c = b /\ job[p].token = t)
      BY <1>2 DEF Touches
    <2>. QED BY <1>1, <2>1 DEF Holds
  <1>3. ASSUME NEW q \in Of(c)', job'[q].sent = t \/ job'[q].token = t
        PROVE  \/ Holds(c, t)
               \/ c = b /\ t = job[p].serial /\ job[p].pc = "renew"
    <2>1. CASE q # p
      <3>1. q \in Of(c) /\ job'[q] = job[q]
        BY <2>1 DEF Of, Busy, Touches
      <3>. QED BY <1>3, <3>1 DEF Holds
    <2>2. CASE q = p
      <3>1. job'[p] # Idle /\ c = b
        BY <1>3, <2>2 DEF Of, Busy, Touches
      <3>2. \/ job[p].sent = t \/ job[p].token = t
            \/ t = job[p].serial /\ job[p].pc = "renew"
        BY <1>0, <1>3, <2>2, <3>1 DEF Touches
      <3>. QED BY <1>1, <3>1, <3>2 DEF Holds
    <2>. QED BY <2>1, <2>2
  <1>. QED BY <1>2, <1>3 DEF Holds

(* A token that anything holds is used, and no login will draw it.         *)
LEMMA HeldIsUsed ==
    ASSUME Honest, NEW c \in Browsers, NEW t \in Tokens, Holds(c, t)
    PROVE  /\ Used(t) /\ t <= served
           /\ \A p \in Busy : job[p].pc \in Drawing => job[p].serial # t
  <1>1. Used(t)
    BY DEF Holds, Of, Used
  <1>2. t \in Nat /\ served \in Nat
    BY DEF Honest, Typed, TypeOK, Tokens, Serials
  <1>. QED BY <1>1, <1>2 DEF Honest, Fresh, Drawing

LEMMA OwnedStep ==
    ASSUME AnswersInv, NEW p \in Proc, Touches(p)
    PROVE  Owned'
  <1>. SUFFICES ASSUME NEW b \in Browsers, NEW c \in Browsers, NEW t \in Tokens,
                       Holds(b, t)', Holds(c, t)'
                PROVE  b = c
    BY DEF Owned
  <1>1. ASSUME t = job[p].serial, job[p].pc = "renew", NEW d \in Browsers
        PROVE  ~Holds(d, t)
    BY <1>1, HeldIsUsed DEF AnswersInv, Touches, Drawing
  <1>2. CASE Holds(b, t) /\ Holds(c, t)
    BY <1>2 DEF AnswersInv, Owned
  <1>. QED BY <1>1, <1>2, HoldsStep

LEMMA EndedStep ==
    ASSUME AnswersInv, NEW p \in Proc, Touches(p), NEW t \in ended
    PROVE  /\ ~Used(t)' /\ t <= served'
           /\ \A q \in Busy' : job'[q].pc \in Drawing => job'[q].serial # t
  <1>0. t \in Tokens /\ ~Used(t) /\ t <= served
        /\ \A q \in Busy : job[q].pc \in Drawing => job[q].serial # t
    BY DEF AnswersInv, EndedGone, Honest, Typed, TypeOK, Drawing
  <1>1. job[p].token # t /\ t # None /\ p \in Busy /\ job[p].req.browser \in Browsers
    BY <1>0, AccountsAssumption DEF Used, Touches, Tokens, Serials, None
  <1>2. sessions'[t] = Nobody
    BY <1>0, <1>1 DEF Used, Touches
  <1>3. ASSUME NEW c \in Browsers PROVE ~Holds(c, t)'
    <2>1. ~Holds(c, t)
      BY <1>0 DEF Holds, Of, Used
    <2>2. ~(t = job[p].serial /\ job[p].pc = "renew")
      BY <1>0, <1>1 DEF Drawing
    <2>. QED BY <1>0, <2>1, <2>2, HoldsStep
  <1>4. \A q \in Busy' : /\ q \in Busy /\ job'[q].serial = job[q].serial
                         /\ job'[q].pc \in Drawing => job[q].pc \in Drawing
                         /\ job'[q].req.browser \in Browsers
    <2>1. ASSUME NEW q \in Busy', q # p
          PROVE  /\ q \in Busy /\ job'[q] = job[q] /\ job[q].req.browser \in Browsers
      <3>1. q \in Busy /\ job'[q] = job[q]
        BY <2>1 DEF Busy, Touches
      <3>. QED BY <3>1, BrowserOf DEF AnswersInv, Honest
    <2>2. p \in Busy' => job'[p] # Idle
      BY DEF Busy
    <2>. QED BY <1>1, <2>1, <2>2 DEF Touches
  <1>5. ~Used(t)'
    BY <1>2, <1>3, <1>4 DEF Used, Holds, Of
  <1>. QED BY <1>0, <1>4, <1>5 DEF Touches

(* What a browser holds and was told stays: it fits again.                 *)
LEMMA BrowserKept ==
    ASSUME Honest, NEW c \in Browsers, BrowserFits(c), Of(c)' = Of(c),
           \A q \in Of(c) : job'[q] = job[q],
           cookie'[c] = cookie[c], told'[c] = told[c],
           \A t \in Tokens : Holds(c, t) => sessions'[t] = sessions[t]
    PROVE  BrowserFits(c)'
  <1>0. Typed /\ cookie[c] \in Tokens \cup {None}
    BY DEF Honest, Typed, TypeOK
  <1>1. CASE Of(c) = {}
    <2>1. cookie[c] # None => sessions'[cookie[c]] = sessions[cookie[c]]
      BY <1>0 DEF Holds
    <2>. QED BY <1>1, <2>1 DEF BrowserFits, AnswerHolds
  <1>2. ASSUME NEW q \in Of(c), job[q].alone
        PROVE  Of(c) = {q} /\ AloneFits(job[q])'
    <2>1. Of(c) = {q} /\ AloneFits(job[q])
      BY <1>2 DEF BrowserFits
    <2>2. job'[q] = job[q] /\ job[q] \in Job /\ job[q].req.browser = c
      BY <1>0, BusyJob DEF Of
    <2>3. /\ job[q].sent # None => sessions'[job[q].sent] = sessions[job[q].sent]
          /\ job[q].token # None => sessions'[job[q].token] = sessions[job[q].token]
      BY <2>2 DEF Holds, Job
    <2>4. Gone(job[q])' <=> Gone(job[q])
      BY <2>2, <2>3 DEF Gone
    <2>5. CASE Keeps(job[q])
      BY <2>1, <2>2, <2>3, <2>4, <2>5 DEF AloneFits, Keeps
    <2>6. CASE Renewed(job[q])
      <3>1. job[q].token # None
        BY <2>2, <2>6, AccountsAssumption DEF Renewed, Job, Serials, None
      <3>. QED BY <2>1, <2>2, <2>3, <2>4, <2>6, <3>1 DEF AloneFits, Renewed
    <2>7. CASE Left(job[q])
      BY <2>1, <2>2, <2>4, <2>7 DEF AloneFits, Left
    <2>. QED BY <2>1, <2>5, <2>6, <2>7 DEF AloneFits
  <1>. QED BY <1>1, <1>2 DEF BrowserFits

LEMMA OthersFit ==
    ASSUME AnswersInv, NEW p \in Proc, Touches(p),
           NEW c \in Browsers, c # job[p].req.browser
    PROVE  BrowserFits(c)'
  <1>0. job[p].req.browser \in Browsers /\ p \in Of(job[p].req.browser) /\ p \in Busy
    BY BrowserOf DEF AnswersInv, Honest, Touches
  <1>1. \A q \in Of(c) : q # p /\ job'[q] = job[q]
    BY DEF Of, Busy, Touches
  <1>2. Of(c)' = Of(c)
    <2>1. p \notin Of(c)'
      BY DEF Of, Busy, Touches
    <2>. QED BY <1>1, <2>1 DEF Of, Busy, Touches
  <1>3. ASSUME NEW t \in Tokens, Holds(c, t) PROVE sessions'[t] = sessions[t]
    <2>1. Holds(job[p].req.browser, job[p].token)
      BY <1>0 DEF Holds
    <2>2. t # job[p].token
      BY <1>0, <1>3, <2>1 DEF AnswersInv, Owned
    <2>. QED BY <2>2 DEF Touches
  <1>. QED BY <1>1, <1>2, <1>3, BrowserKept DEF AnswersInv, Touches

(* The browser of a request that goes on.                                  *)
LEMMA OwnFits ==
    ASSUME AnswersInv, NEW p \in Proc, Touches(p), job'[p] # Idle,
           job[p].alone => AloneFits(job[p])'
    PROVE  BrowserFits(job[p].req.browser)'
  <1>. DEFINE b == job[p].req.browser
  <1>0. b \in Browsers /\ p \in Of(b) /\ BrowserFits(b)
    BY BrowserOf DEF AnswersInv, Honest, Touches
  <1>1. job'[p].req.browser = b /\ p \in Of(b)' /\ job'[p].alone = job[p].alone
    BY DEF Of, Busy, Touches
  <1>2. \A q \in Proc \ {p} : (q \in Of(b)' <=> q \in Of(b)) /\ job'[q] = job[q]
    BY DEF Of, Busy, Touches
  <1>3. Of(b)' = Of(b)
    BY <1>0, <1>1, <1>2 DEF Of, Busy
  <1>4. ASSUME NEW q \in Of(b), job'[q].alone
        PROVE  Of(b) = {q} /\ AloneFits(job[q])'
    <2>1. job[q].alone
      BY <1>1, <1>2, <1>4 DEF Of, Busy
    <2>2. Of(b) = {q} /\ q = p
      BY <1>0, <2>1 DEF BrowserFits
    <2>. QED BY <2>1, <2>2
  <1>. QED BY <1>0, <1>3, <1>4 DEF BrowserFits

(* The browser has no other request in flight: each step of the handler.   *)
LEMMA AloneStep ==
    ASSUME Typed, NEW p \in Busy, NEW l, Set(p, l), AloneFits(job[p]),
           UNCHANGED <<cookie, told>>,
           l.req = job[p].req, l.sent = job[p].sent, l.serial = job[p].serial,
           Keeps(l)' \/ Renewed(l)' \/ Left(l)'
    PROVE  AloneFits(job[p])'
  <1>1. job'[p] = l
    BY BusyJob DEF Set, Typed, TypeOK
  <1>. QED BY <1>1 DEF AloneFits, Keeps, Renewed, Left, Gone

(* A request that keeps its session goes on without a look at it.          *)
LEMMA AloneKeeps ==
    ASSUME Typed, NEW p \in Busy, NEW l \in Job, Set(p, l), AloneFits(job[p]), Keeps(job[p]),
           UNCHANGED <<cookie, told, sessions>>,
           l.req = job[p].req, l.sent = job[p].sent, l.serial = job[p].serial,
           l.token = job[p].token, l.user = job[p].user, l.status = job[p].status,
           l.setsCookie = job[p].setsCookie,
           job[p].pc \notin {"load", "respond"}, l.pc \notin {"load", "audit"},
           l.req.op \in {"login", "logout"} => l.answer # "ok"
    PROVE  AloneFits(job[p])'
  <1>1. Gone(job[p]) => Gone(l)'
    BY DEF Gone
  <1>2. Keeps(l)'
    BY <1>1 DEF Keeps
  <1>. QED BY <1>2, AloneStep

LEMMA AnsweredAll ==
    ASSUME NEW j \in Job, NEW a \in {"ok", "refused", "error"}
    PROVE  LET l == Answered(j, a)
           IN  /\ l.req = j.req /\ l.serial = j.serial /\ l.sent = j.sent /\ l.token = j.token
               /\ l.user = j.user /\ l.status = j.status /\ l.setsCookie = j.setsCookie
               /\ l.found = j.found /\ l.answer = a /\ l.pc \in {"save", "saveRoot"}
  BY DEF Answered, Job

LEMMA AloneAnswered ==
    ASSUME Typed, NEW p \in Busy, NEW a \in {"ok", "refused", "error"},
           Set(p, Answered(job[p], a)), AloneFits(job[p]), Keeps(job[p]),
           UNCHANGED <<cookie, told, sessions>>, job[p].pc \notin {"load", "respond"},
           job[p].req.op \in {"login", "logout"} => a # "ok"
    PROVE  AloneFits(job[p])'
  <1>1. job[p] \in Job /\ Answered(job[p], a) \in Job
    BY BusyJob, AnsweredFits
  <1>. QED BY <1>1, AnsweredAll, AloneKeeps

LEMMA AloneLoad ==
    ASSUME Typed, NEW p \in Proc, Load(p), AloneFits(job[p])
    PROVE  AloneFits(job[p])'
  <1>. DEFINE j == job[p]
              b == j.req.browser
  <1>1. /\ p \in Busy /\ j \in Job /\ j.pc = "load" /\ UNCHANGED <<cookie, told, sessions>>
    BY BusyJob DEF Load, At
  <1>2. /\ j.token = None /\ j.status = "unmodified" /\ ~j.setsCookie
        /\ told[b] \in Users => j.sent # None /\ sessions[j.sent] = told[b]
        /\ j.req.op \in {"login", "logout"} => j.answer # "ok"
    BY <1>1 DEF AloneFits, Keeps, Renewed, Left
  <1>3. ASSUME NEW k \in Job, k.req.op \in {"login", "logout"} => k.answer # "ok"
        PROVE  LET l == Entered(k)
               IN  /\ l.req = k.req /\ l.serial = k.serial /\ l.sent = k.sent /\ l.token = k.token
                   /\ l.user = k.user /\ l.status = k.status /\ l.setsCookie = k.setsCookie
                   /\ l.pc \notin {"load", "audit"}
                   /\ l.req.op \in {"login", "logout"} => l.answer # "ok"
    <2>1. CASE k.req.op = "visit" \/ ~Valid(k.req)
      <3>1. PICK a \in {"ok", "refused"} :
              Entered(k) = Answered(k, a) /\ (a = "ok" => k.req.op = "visit")
        BY <2>1 DEF Entered
      <3>. QED BY <3>1, AnsweredAll
    <2>2. CASE ~(k.req.op = "visit" \/ ~Valid(k.req))
      <3>1. Entered(k) = [k EXCEPT !.pc = FirstStep[k.req.op]]
        BY <2>2 DEF Entered
      <3>2. k.req.op \in {"login", "logout", "update"}
        BY <2>2, AccountsAssumption DEF Job, Request, Ops
      <3>3. FirstStep[k.req.op] \notin {"load", "audit"}
        BY <3>2 DEF FirstStep
      <3>. QED BY <1>3, <3>1, <3>3 DEF Job
    <2>. QED BY <2>1, <2>2
  <1>4. CASE ~(j.sent # None /\ sessions[j.sent] # Nobody) /\ Set(p, Entered(j))
    <2>1. told[b] \notin Users
      BY <1>2, <1>4, AccountsAssumption
    <2>2. PICK l : l = Entered(j)
      OBVIOUS
    <2>3. /\ l.req = j.req /\ l.serial = j.serial /\ l.sent = j.sent /\ l.token = j.token
          /\ l.status = j.status /\ l.setsCookie = j.setsCookie
          /\ l.pc \notin {"load", "audit"}
          /\ l.req.op \in {"login", "logout"} => l.answer # "ok"
      BY <1>1, <1>2, <1>3, <2>2
    <2>4. told'[l.req.browser] \notin Users /\ Gone(l)'
      BY <1>1, <1>4, <2>1, <2>3 DEF Gone
    <2>5. Keeps(l)'
      BY <1>2, <2>3, <2>4 DEF Keeps
    <2>. QED BY <1>1, <1>4, <2>2, <2>3, <2>5, AloneStep
  <1>5. CASE /\ j.sent # None /\ sessions[j.sent] # Nobody
             /\ Set(p, Entered([j EXCEPT !.token = j.sent, !.user = sessions[j.sent],
                                         !.status = "modified"]))
    <2>. DEFINE k == [j EXCEPT !.token = j.sent, !.user = sessions[j.sent], !.status = "modified"]
    <2>1. k \in Job
      BY <1>1, <1>5 DEF Job, Typed, TypeOK
    <2>2. /\ k.req = j.req /\ k.serial = j.serial /\ k.sent = j.sent /\ k.token = j.sent
          /\ k.user = sessions[j.sent] /\ k.status = "modified" /\ k.answer = j.answer
      BY <1>1 DEF Job
    <2>3. PICK l : l = Entered(k)
      OBVIOUS
    <2>4. Set(p, l)
      BY <1>5, <2>3
    <2>. HIDE DEF k
    <2>5. /\ l.req = j.req /\ l.serial = j.serial /\ l.sent = j.sent /\ l.token = j.sent
          /\ l.user = sessions[j.sent] /\ l.status = "modified"
          /\ l.pc \notin {"load", "audit"}
          /\ l.req.op \in {"login", "logout"} => l.answer # "ok"
      BY <1>2, <1>3, <2>1, <2>2, <2>3
    <2>6. Keeps(l)'
      BY <1>1, <1>2, <1>5, <2>5 DEF Keeps
    <2>. QED BY <1>1, <2>4, <2>5, <2>6, AloneStep
  <1>6. CASE Set(p, [j EXCEPT !.pc = "respond", !.answer = "error"])
    <2>. DEFINE k == [j EXCEPT !.pc = "respond", !.answer = "error"]
    <2>0. PICK l : l = k
      OBVIOUS
    <2>1. /\ l.req = j.req /\ l.serial = j.serial /\ l.sent = j.sent /\ l.token = j.token
          /\ l.status = j.status /\ l.setsCookie = j.setsCookie
          /\ l.pc = "respond" /\ l.answer = "error"
      BY <1>1, <2>0 DEF Job
    <2>2. Set(p, l)
      BY <1>6, <2>0
    <2>. HIDE DEF k
    <2>3. Keeps(l)'
      BY <1>1, <1>2, <2>1 DEF Keeps
    <2>. QED BY <1>1, <2>1, <2>2, <2>3, AloneStep
  <1>. QED BY <1>4, <1>5, <1>6 DEF Load

(* Before a login draws its token and a logout destroys its session, each  *)
(* request keeps the session that it came with.                            *)
LEMMA StillKeeps ==
    ASSUME Typed, NEW p \in Busy, AloneFits(job[p]),
           job[p].pc \notin {"audit", "save", "saveRoot", "respond"}
    PROVE  Keeps(job[p])
  BY DEF AloneFits, Renewed, Left

LEMMA AloneFind ==
    ASSUME Typed, NEW p \in Proc, AloneFits(job[p]),
           \/ Find(p) \/ Read(p) \/ BeginUpdate(p) \/ Write(p) \/ LogUpdate(p)
           \/ Commit(p) \/ FailInside(p)
    PROVE  AloneFits(job[p])'
  <1>. DEFINE j == job[p]
  <1>1. /\ p \in Busy /\ j \in Job /\ PlaceFits(j) /\ UNCHANGED <<cookie, told, sessions>>
        /\ j.pc \in {"find", "read", "begin", "write", "log", "commit"}
    BY BusyJob DEF Find, Read, BeginUpdate, Write, LogUpdate, Commit, FailInside, At
  <1>2. Keeps(j) /\ (j.req.op \in {"login", "logout"} => j.answer # "ok")
    BY <1>1, StillKeeps DEF Keeps
  <1>3. ASSUME NEW a \in {"ok", "refused"}, a = "ok" => j.req.op = "update", Set(p, Answered(j, a))
        PROVE  AloneFits(job[p])'
    BY <1>1, <1>2, <1>3, AloneAnswered
  <1>4. CASE Commit(p) \/ FailInside(p)
    <2>1. \E a \in {"ok", "refused"} : Set(p, Answered(j, a)) /\ (a = "ok" => j.pc = "commit")
      BY <1>4 DEF Commit, FailInside, At
    <2>. QED BY <1>1, <1>3, <2>1 DEF PlaceFits
  <1>5. ASSUME NEW u \in Users, Set(p, [j EXCEPT !.found = u, !.pc = "renew"])
        PROVE  AloneFits(job[p])'
    <2>. DEFINE k == [j EXCEPT !.found = u, !.pc = "renew"]
    <2>1. PICK l : l = k
      OBVIOUS
    <2>2. l \in Job
      BY <1>1, <2>1 DEF Job, Steps
    <2>3. /\ l.req = j.req /\ l.serial = j.serial /\ l.sent = j.sent /\ l.token = j.token
          /\ l.user = j.user /\ l.status = j.status /\ l.setsCookie = j.setsCookie
          /\ l.answer = j.answer /\ l.pc = "renew"
      BY <1>1, <2>1 DEF Job
    <2>4. Set(p, l)
      BY <1>5, <2>1
    <2>. QED BY <1>1, <1>2, <2>2, <2>3, <2>4, AloneKeeps
  <1>6. CASE Read(p) /\ Set(p, [j EXCEPT !.pc = "begin", !.row = users[j.req.user]])
    <2>. DEFINE k == [j EXCEPT !.pc = "begin", !.row = users[j.req.user]]
    <2>1. PICK l : l = k
      OBVIOUS
    <2>2. l \in Job
      BY <1>1, <2>1, AccountsAssumption DEF Job, Request, Steps, Typed, TypeOK
    <2>3. /\ l.req = j.req /\ l.serial = j.serial /\ l.sent = j.sent /\ l.token = j.token
          /\ l.user = j.user /\ l.status = j.status /\ l.setsCookie = j.setsCookie
          /\ l.answer = j.answer /\ l.pc = "begin"
      BY <1>1, <2>1 DEF Job
    <2>4. Set(p, l)
      BY <1>6, <2>1
    <2>. QED BY <1>1, <1>2, <2>2, <2>3, <2>4, AloneKeeps
  <1>7. ASSUME NEW pc \in {"write", "log", "commit"}, Set(p, [j EXCEPT !.pc = pc])
        PROVE  AloneFits(job[p])'
    <2>. DEFINE k == [j EXCEPT !.pc = pc]
    <2>1. PICK l : l = k
      OBVIOUS
    <2>2. l \in Job
      BY <1>1, <2>1 DEF Job, Steps
    <2>3. /\ l.req = j.req /\ l.serial = j.serial /\ l.sent = j.sent /\ l.token = j.token
          /\ l.user = j.user /\ l.status = j.status /\ l.setsCookie = j.setsCookie
          /\ l.answer = j.answer /\ l.pc = pc
      BY <1>1, <2>1 DEF Job
    <2>4. Set(p, l)
      BY <1>7, <2>1
    <2>. QED BY <1>1, <1>2, <2>2, <2>3, <2>4, AloneKeeps
  <1>8. CASE Find(p)
    BY <1>3, <1>5, <1>8 DEF Find
  <1>9. CASE Read(p) \/ BeginUpdate(p) \/ Write(p) \/ LogUpdate(p)
    BY <1>3, <1>6, <1>7, <1>9 DEF Read, BeginUpdate, Write, LogUpdate
  <1>. QED BY <1>4, <1>8, <1>9

LEMMA AloneRenew ==
    ASSUME Typed, NEW p \in Proc, AloneFits(job[p]), Renew(p) \/ AuditLogin(p)
    PROVE  AloneFits(job[p])'
  <1>. DEFINE j == job[p]
  <1>1. /\ p \in Busy /\ j \in Job /\ PlaceFits(j) /\ UNCHANGED <<cookie, told>>
        /\ j.pc \in {"renew", "audit"} /\ j.req.op = "login"
    BY BusyJob DEF Renew, AuditLogin, At, PlaceFits
  <1>2. CASE Renew(p)
    <2>1. Keeps(j) /\ j.pc = "renew" /\ j.found \in Users
      BY <1>1, <1>2, StillKeeps DEF Renew, At, PlaceFits
    <2>2. CASE Set(p, Answered(j, "refused")) /\ UNCHANGED sessions
      BY <1>1, <2>1, <2>2, AloneAnswered
    <2>3. CASE /\ sessions' = IF j.token = None THEN sessions ELSE Deleted(j.token)
               /\ Set(p, [j EXCEPT !.pc = "audit", !.token = NewToken(j),
                                   !.user = j.found, !.status = "modified"])
      <3>0. PICK l : l = [j EXCEPT !.pc = "audit", !.token = NewToken(j),
                                   !.user = j.found, !.status = "modified"]
        OBVIOUS
      <3>1. /\ l.req = j.req /\ l.serial = j.serial /\ l.sent = j.sent /\ l.token = j.serial
            /\ l.user = j.found /\ l.found = j.found /\ l.status = "modified" /\ l.pc = "audit"
        BY <1>1, <3>0 DEF Job, NewToken
      <3>2. Set(p, l)
        BY <2>3, <3>0
      <3>3. j.sent # None => sessions'[j.sent] = Nobody
        <4>1. CASE j.token = None
          BY <2>1, <2>3, <4>1 DEF Keeps, Gone
        <4>2. CASE j.token # None
          BY <1>1, <2>1, <2>3, <4>2 DEF Keeps, Deleted, Job, Typed, TypeOK
        <4>. QED BY <4>1, <4>2
      <3>4. Renewed(l)'
        BY <1>1, <2>1, <3>1, <3>3 DEF Renewed, Gone
      <3>. QED BY <1>1, <3>1, <3>2, <3>4, AloneStep
    <2>. QED BY <1>2, <2>2, <2>3 DEF Renew
  <1>3. CASE AuditLogin(p)
    <2>1. Set(p, Answered(j, "ok")) /\ UNCHANGED sessions /\ j.pc = "audit"
      BY <1>3 DEF AuditLogin, At
    <2>2. Renewed(j)
      BY <1>1, <2>1 DEF AloneFits, Keeps, Left
    <2>3. PICK l : l = Answered(j, "ok")
      OBVIOUS
    <2>4. /\ l.req = j.req /\ l.serial = j.serial /\ l.sent = j.sent /\ l.token = j.token
          /\ l.user = j.user /\ l.status = j.status /\ l.found = j.found
          /\ l.answer = "ok" /\ l.pc \in {"save", "saveRoot"}
      BY <1>1, <2>3, AnsweredAll
    <2>5. Renewed(l)'
      BY <1>1, <2>1, <2>2, <2>4 DEF Renewed, Gone
    <2>. QED BY <1>1, <2>1, <2>3, <2>4, <2>5, AloneStep
  <1>. QED BY <1>2, <1>3

LEMMA AloneDestroy ==
    ASSUME Typed, NEW p \in Proc, AloneFits(job[p]), Destroy(p)
    PROVE  AloneFits(job[p])'
  <1>. DEFINE j == job[p]
  <1>1. /\ p \in Busy /\ j \in Job /\ UNCHANGED <<cookie, told>>
        /\ j.pc = "destroy" /\ j.req.op = "logout"
    BY BusyJob DEF Destroy, At, PlaceFits
  <1>2. Keeps(j)
    BY <1>1, StillKeeps
  <1>3. CASE Set(p, Answered(j, "error")) /\ UNCHANGED sessions
    BY <1>1, <1>2, <1>3, AloneAnswered
  <1>4. CASE /\ sessions' = IF j.token = None THEN sessions ELSE Deleted(j.token)
             /\ Set(p, Answered(Destroyed(j), "ok"))
    <2>1. /\ Destroyed(j) \in Job /\ Destroyed(j).req = j.req
          /\ Destroyed(j).serial = j.serial /\ Destroyed(j).sent = j.sent
          /\ Destroyed(j).token = None /\ Destroyed(j).status = "destroyed"
      BY <1>1 DEF Job, Destroyed
    <2>2. j.sent # None => sessions'[j.sent] = Nobody
      <3>1. CASE j.token = None
        BY <1>1, <1>2, <1>4, <3>1 DEF Keeps, Gone
      <3>2. CASE j.token # None
        BY <1>1, <1>2, <1>4, <3>2 DEF Keeps, Deleted, Job, Typed, TypeOK
      <3>. QED BY <3>1, <3>2
    <2>3. PICK l : l = Answered(Destroyed(j), "ok")
      OBVIOUS
    <2>4. /\ l.req = j.req /\ l.serial = j.serial /\ l.sent = j.sent /\ l.token = None
          /\ l.status = "destroyed" /\ l.answer = "ok" /\ l.pc \in {"save", "saveRoot"}
      BY <2>1, <2>3, AnsweredAll
    <2>5. Left(l)'
      BY <1>1, <2>2, <2>4 DEF Left, Gone
    <2>. QED BY <1>1, <1>4, <2>3, <2>4, <2>5, AloneStep
  <1>. QED BY <1>3, <1>4 DEF Destroy

LEMMA AloneSave ==
    ASSUME Typed, NEW p \in Proc, AloneFits(job[p]), Save(p)
    PROVE  AloneFits(job[p])'
  <1>. DEFINE j == job[p]
  <1>1. /\ p \in Busy /\ j \in Job /\ UNCHANGED <<cookie, told>>
        /\ j.pc \in {"save", "saveRoot"}
        /\ j.status = "modified" => j.token \in Tokens
    BY BusyJob DEF Save, At, PlaceFits
  <1>2. PICK pc \in {"saveRoot", "respond"} : pc = IF j.pc = "save" THEN "saveRoot" ELSE "respond"
    OBVIOUS
  <1>3. CASE /\ j.status = "modified" /\ sessions' = [sessions EXCEPT ![j.token] = j.user]
             /\ Set(p, [j EXCEPT !.pc = pc, !.setsCookie = TRUE])
    <2>1. PICK l : l = [j EXCEPT !.pc = pc, !.setsCookie = TRUE]
      OBVIOUS
    <2>2. /\ l.req = j.req /\ l.serial = j.serial /\ l.sent = j.sent /\ l.token = j.token
          /\ l.user = j.user /\ l.status = j.status /\ l.found = j.found
          /\ l.answer = j.answer /\ l.pc = pc /\ l.setsCookie
      BY <1>1, <2>1 DEF Job
    <2>3. sessions'[j.token] = j.user /\ \A t \in Tokens \ {j.token} : sessions'[t] = sessions[t]
      BY <1>1, <1>3 DEF Typed, TypeOK
    <2>4. CASE Keeps(j)
      <3>1. Keeps(l)'
        BY <1>1, <1>2, <1>3, <2>2, <2>3, <2>4 DEF Keeps
      <3>. QED BY <1>1, <1>3, <2>1, <2>2, <3>1, AloneStep
    <2>5. CASE Renewed(j)
      <3>1. j.sent # j.token /\ (j.sent # None => j.sent \in Tokens)
        BY <1>1, <2>5 DEF AloneFits, Renewed, Job
      <3>2. Gone(l)'
        BY <2>2, <2>3, <2>5, <3>1 DEF Renewed, Gone
      <3>3. Renewed(l)'
        BY <1>1, <1>2, <2>2, <2>3, <2>5, <3>2 DEF Renewed
      <3>. QED BY <1>1, <1>3, <2>1, <2>2, <3>3, AloneStep
    <2>. QED BY <1>3, <2>4, <2>5 DEF AloneFits, Left
  <1>4. CASE /\ j.status = "modified" /\ UNCHANGED sessions
             /\ Set(p, [Unsaved(j) EXCEPT !.pc = pc])
    <2>1. PICK l : l = [Unsaved(j) EXCEPT !.pc = pc]
      OBVIOUS
    <2>2. /\ l.req = j.req /\ l.serial = j.serial /\ l.sent = j.sent /\ l.token = j.token
          /\ l.user = j.user /\ l.status = j.status /\ l.found = j.found
          /\ l.answer = "error" /\ l.pc = pc
      BY <1>1, <2>1 DEF Job, Unsaved
    <2>3. CASE Keeps(j)
      <3>1. Keeps(l)'
        BY <1>1, <1>2, <1>4, <2>2, <2>3 DEF Keeps
      <3>. QED BY <1>1, <1>4, <2>1, <2>2, <3>1, AloneStep
    <2>4. CASE Renewed(j)
      <3>1. Renewed(l)'
        BY <1>1, <1>2, <1>4, <2>2, <2>4 DEF Renewed, Gone
      <3>. QED BY <1>1, <1>4, <2>1, <2>2, <3>1, AloneStep
    <2>. QED BY <1>4, <2>3, <2>4 DEF AloneFits, Left
  <1>5. CASE /\ j.status # "modified" /\ UNCHANGED sessions
             /\ Set(p, [j EXCEPT !.pc = pc, !.setsCookie = (j.status = "destroyed")])
    <2>1. PICK l : l = [j EXCEPT !.pc = pc, !.setsCookie = (j.status = "destroyed")]
      OBVIOUS
    <2>2. /\ l.req = j.req /\ l.serial = j.serial /\ l.sent = j.sent /\ l.token = j.token
          /\ l.status = j.status /\ l.answer = j.answer /\ l.pc = pc
          /\ l.setsCookie = (j.status = "destroyed")
      BY <1>1, <2>1 DEF Job
    <2>3. CASE Keeps(j)
      <3>1. /\ j.token = None /\ j.status = "unmodified" /\ Gone(j)
        BY <1>1, <1>5, <2>3 DEF Keeps
      <3>2. Gone(l)' /\ ~l.setsCookie
        BY <1>5, <2>2, <3>1 DEF Gone
      <3>3. Keeps(l)'
        BY <1>1, <1>2, <1>5, <2>2, <2>3, <3>1, <3>2 DEF Keeps
      <3>. QED BY <1>1, <1>5, <2>1, <2>2, <3>3, AloneStep
    <2>4. CASE Left(j)
      <3>1. Left(l)'
        BY <1>1, <1>2, <1>5, <2>2, <2>4 DEF Left, Gone
      <3>. QED BY <1>1, <1>5, <2>1, <2>2, <3>1, AloneStep
    <2>. QED BY <1>5, <2>3, <2>4 DEF AloneFits, Renewed
  <1>. QED BY <1>2, <1>3, <1>4, <1>5 DEF Save

(* The answer of a request that was alone all the time is true.            *)
LEMMA AnswerIsTrue ==
    ASSUME Typed, NEW p \in Proc, Respond(p), AloneFits(job[p]), job[p].alone,
           NEW b, b = job[p].req.browser
    PROVE  AnswerHolds(b)'
  <1>. DEFINE j == job[p]
  <1>1. /\ j \in Job /\ j.pc = "respond" /\ b \in Browsers /\ b = j.req.browser
    BY BusyJob, BrowserOf DEF Respond, At
  <1>2. /\ sessions' = sessions
        /\ cookie'[b] = IF j.setsCookie THEN j.token ELSE cookie[b]
        /\ told'[b] = ToldBy(j, told[b])
    BY <1>1 DEF Respond, Typed, TypeOK
  <1>3. Unknown \notin Users /\ Unknown # Nobody /\ Nobody \notin Users
    BY AccountsAssumption
  <1>4. j.sent = cookie[b] /\ (told[b] = Nobody => j.sent = None)
    BY DEF AloneFits
  <1>5. CASE Keeps(j)
    <2>1. told'[b] \in {told[b], Unknown}
      BY <1>2, <1>5 DEF Keeps, ToldBy
    <2>2. cookie'[b] = cookie[b]
      BY <1>2, <1>4, <1>5 DEF Keeps
    <2>3. told[b] \in Users => cookie[b] # None /\ sessions[cookie[b]] = told[b]
      BY <1>4, <1>5 DEF Keeps
    <2>. QED BY <1>2, <1>3, <1>4, <2>1, <2>2, <2>3 DEF AnswerHolds
  <1>6. CASE Renewed(j)
    <2>1. CASE j.answer = "ok"
      <3>1. told'[b] = j.found /\ cookie'[b] = j.token /\ sessions[j.token] = j.found
        BY <1>1, <1>2, <1>6, <2>1 DEF Renewed, ToldBy
      <3>2. j.found \in Users /\ j.token # None
        BY <1>1, <1>6, AccountsAssumption DEF Renewed, Job, Serials, None
      <3>. QED BY <1>2, <1>3, <3>1, <3>2 DEF AnswerHolds
    <2>2. CASE j.answer = "error"
      <3>1. told'[b] = Unknown
        BY <1>2, <1>6, <2>2 DEF Renewed, ToldBy
      <3>. QED BY <1>3, <3>1 DEF AnswerHolds
    <2>. QED BY <1>1, <1>6, <2>1, <2>2 DEF Renewed
  <1>7. CASE Left(j)
    <2>1. told'[b] = Nobody /\ cookie'[b] = None
      BY <1>1, <1>2, <1>7 DEF Left, ToldBy
    <2>. QED BY <1>3, <2>1 DEF AnswerHolds
  <1>. QED BY <1>5, <1>6, <1>7 DEF AloneFits

LEMMA RespondFits ==
    ASSUME AnswersInv, NEW p \in Proc, Respond(p), NEW b, b = job[p].req.browser
    PROVE  BrowserFits(b)'
  <1>. DEFINE j == job[p]
  <1>1. /\ Typed /\ p \in Of(b) /\ b \in Browsers /\ BrowserFits(b) /\ b = j.req.browser
    BY BrowserOf DEF AnswersInv, Honest, Respond, At
  <1>2. job'[p] = Idle /\ \A q \in Proc \ {p} : job'[q] = job[q]
    BY <1>1 DEF Respond, Set, Typed, TypeOK
  <1>3. Of(b)' = Of(b) \ {p} /\ \A q \in Of(b)' : job'[q] = job[q]
    BY <1>2 DEF Of, Busy
  <1>4. CASE j.alone
    <2>1. Of(b) = {p} /\ AloneFits(j)
      BY <1>1, <1>4 DEF BrowserFits
    <2>2. Of(b)' = {}
      BY <1>3, <2>1
    <2>3. AnswerHolds(b)'
      BY <1>1, <1>4, <2>1, AnswerIsTrue
    <2>. QED BY <2>2, <2>3 DEF BrowserFits
  <1>5. CASE ~j.alone
    <2>1. told'[b] = Unknown
      BY <1>1, <1>5 DEF Respond, ToldBy, Typed, TypeOK
    <2>2. AnswerHolds(b)'
      BY <2>1, AccountsAssumption DEF AnswerHolds
    <2>3. ASSUME NEW q \in Of(b)' PROVE ~job'[q].alone
      <3>1. q \in Of(b) /\ q # p /\ job'[q] = job[q]
        BY <1>3, <2>3
      <3>. QED BY <1>1, <3>1 DEF BrowserFits
    <2>. QED BY <2>2, <2>3 DEF BrowserFits
  <1>. QED BY <1>4, <1>5

(* The token that a login or a logout gives up.                            *)
LEMMA GivenUp ==
    ASSUME AnswersInv, NEW p \in Proc, Respond(p), job[p].alone, job[p].answer = "ok",
           job[p].req.op \in {"login", "logout"}, NEW t \in Tokens, t = job[p].sent
    PROVE  /\ ~Used(t)' /\ t <= served'
           /\ \A q \in Busy' : job'[q].pc \in Drawing => job'[q].serial # t
  <1>. DEFINE j == job[p]
              b == j.req.browser
  <1>1. /\ Typed /\ p \in Busy /\ p \in Of(b) /\ b \in Browsers /\ BrowserFits(b)
        /\ j \in Job /\ j.pc = "respond" /\ t # None
    BY BrowserOf, BusyJob DEF AnswersInv, Honest, Respond, At, Tokens, Serials, None
  <1>2. Of(b) = {p} /\ AloneFits(j)
    BY <1>1 DEF BrowserFits
  <1>3. Holds(b, t)
    BY <1>1 DEF Holds
  <1>4. t <= served /\ \A q \in Busy : job[q].pc \in Drawing => job[q].serial # t
    BY <1>1, <1>3, HeldIsUsed DEF AnswersInv
  <1>5. /\ job'[p] = Idle /\ \A q \in Proc \ {p} : job'[q] = job[q]
        /\ sessions' = sessions /\ served' = served
        /\ cookie' = IF j.setsCookie THEN [cookie EXCEPT ![b] = j.token] ELSE cookie
    BY <1>1 DEF Respond, Set, Typed, TypeOK
  <1>6. Renewed(j) \/ Left(j)
    BY <1>2 DEF AloneFits, Keeps
  <1>7. sessions[t] = Nobody /\ j.setsCookie /\ j.token # t
    BY <1>1, <1>2, <1>6 DEF AloneFits, Renewed, Left, Gone
  <1>8. ASSUME NEW c \in Browsers PROVE cookie'[c] # t
    <2>1. CASE c = b
      BY <1>1, <1>5, <1>7, <2>1 DEF Typed, TypeOK
    <2>2. CASE c # b
      <3>1. cookie'[c] = cookie[c]
        BY <1>1, <1>5, <2>2 DEF Typed, TypeOK
      <3>. QED BY <1>1, <1>3, <2>2, <3>1 DEF AnswersInv, Owned, Holds
    <2>. QED BY <2>1, <2>2
  <1>9. ASSUME NEW q \in Busy'
        PROVE  /\ job'[q].sent # t /\ job'[q].token # t
               /\ q \in Busy /\ job'[q] = job[q]
    <2>1. q \in Busy /\ q # p /\ job'[q] = job[q]
      BY <1>5, <1>9 DEF Busy
    <2>2. job[q].req.browser \in Browsers /\ q \in Of(job[q].req.browser)
      BY <1>1, <2>1, BrowserOf
    <2>3. job[q].req.browser # b
      BY <1>2, <2>1, <2>2
    <2>. QED BY <1>1, <1>3, <2>1, <2>2, <2>3 DEF AnswersInv, Owned, Holds
  <1>10. ~Used(t)'
    BY <1>5, <1>7, <1>8, <1>9 DEF Used
  <1>. QED BY <1>4, <1>5, <1>9, <1>10

(* A request that arrives alone, and one that is no longer alone.          *)
LEMMA ArriveFits ==
    ASSUME AnswersInv, NEW p \in Proc, NEW r \in Requests, Arrive(p, r)
    PROVE  Owned' /\ EndedGone' /\ \A c \in Browsers : BrowserFits(c)'
  <1>. DEFINE b == r.browser
              others == {q \in Busy : job[q].req.browser = b}
  <1>1. /\ Honest /\ Typed /\ b \in Browsers /\ p \notin Busy /\ p \notin others
        /\ UNCHANGED <<sessions, cookie, told, ended>> /\ served' = served + 1
    BY AccountsAssumption DEF AnswersInv, Honest, Arrive, Request
  <1>2. /\ job'[p].pc = "load" /\ job'[p].req = r /\ job'[p].serial = served + 1
        /\ job'[p].sent = cookie[b] /\ job'[p].token = None /\ job'[p].answer = "none"
        /\ job'[p].status = "unmodified" /\ ~job'[p].setsCookie
        /\ job'[p].alone <=> others = {}
    BY DEF Arrive
  <1>3. p \in Busy'
    BY <1>2 DEF Busy, Idle
  <1>4. ASSUME NEW q \in Proc, q # p
        PROVE  /\ q \in others => job'[q] = [job[q] EXCEPT !.alone = FALSE]
               /\ q \notin others => job'[q] = job[q]
    BY <1>4 DEF Arrive
  <1>5. ASSUME NEW q \in Busy', q # p
        PROVE  /\ q \in Busy /\ job'[q].req = job[q].req /\ job'[q].pc = job[q].pc
               /\ job'[q].sent = job[q].sent /\ job'[q].token = job[q].token
               /\ job'[q].serial = job[q].serial
               /\ q \in others => ~job'[q].alone
    <2>1. q \in Proc /\ job'[q] # Idle
      BY <1>5 DEF Busy
    <2>2. q \in Busy
      BY <1>4, <1>5, <2>1 DEF Busy
    <2>3. job[q] \in Job
      BY <1>1, <2>2, BusyJob
    <2>. QED BY <1>4, <1>5, <2>1, <2>2, <2>3 DEF Job
  <1>6. ASSUME NEW q \in Busy PROVE q # p /\ q \in Busy'
    <2>1. q # p /\ job[q] \in Job
      BY <1>1, BusyJob
    <2>2. job'[q] = [job[q] EXCEPT !.alone = FALSE] \/ job'[q] = job[q]
      BY <1>4, <2>1 DEF Busy
    <2>3. job'[q].pc = job[q].pc
      BY <2>1, <2>2 DEF Job
    <2>4. job'[q] # Idle
      BY <2>1, <2>3 DEF Job, Steps, Idle
    <2>. QED BY <2>1, <2>4 DEF Busy
  <1>7. ASSUME NEW c \in Browsers, NEW t \in Tokens, Holds(c, t)' PROVE Holds(c, t)
    <2>0. t # None
      BY DEF Tokens, Serials, None
    <2>1. ASSUME NEW q \in Of(c)', job'[q].sent = t \/ job'[q].token = t PROVE Holds(c, t)
      <3>1. CASE q = p
        BY <1>2, <2>0, <2>1, <3>1 DEF Of, Holds
      <3>2. CASE q # p
        <4>1. q \in Of(c) /\ (job[q].sent = t \/ job[q].token = t)
          BY <1>5, <2>1, <3>2 DEF Of
        <4>. QED BY <4>1 DEF Holds
      <3>. QED BY <3>1, <3>2
    <2>. QED BY <1>1, <1>7, <2>1 DEF Holds
  <1>8. Owned'
    BY <1>7 DEF AnswersInv, Owned
  <1>9. EndedGone'
    <2>1. ASSUME NEW t \in ended
          PROVE  /\ ~Used(t)' /\ t <= served'
                 /\ \A q \in Busy' : job'[q].pc \in Drawing => job'[q].serial # t
      <3>1. t \in Tokens /\ t \in Nat /\ served \in Nat /\ t # None
        BY <1>1 DEF Typed, TypeOK, Tokens, Serials, None
      <3>2. /\ ~Used(t) /\ t <= served
            /\ \A q \in Busy : job[q].pc \in Drawing => job[q].serial # t
        BY DEF AnswersInv, EndedGone, Drawing
      <3>3. ~Used(t)'
        <4>1. \A c \in Browsers : cookie[c] # t
          BY <3>2 DEF Used
        <4>2. \A q \in Busy' : job'[q].sent # t /\ job'[q].token # t
          BY <1>1, <1>2, <1>5, <3>1, <3>2, <4>1 DEF Used
        <4>. QED BY <1>1, <3>2, <4>1, <4>2 DEF Used
      <3>. QED BY <1>1, <1>2, <1>5, <3>1, <3>2, <3>3
    <2>. QED BY <1>1, <2>1 DEF EndedGone, Drawing
  <1>10. ASSUME NEW c \in Browsers, c # b PROVE BrowserFits(c)'
    <2>1. \A q \in Of(c) : q # p /\ q \notin others /\ job'[q] = job[q]
      BY <1>4, <1>6, <1>10 DEF Of, Busy
    <2>2. Of(c)' = Of(c)
      BY <1>2, <1>5, <1>6, <1>10, <2>1 DEF Of
    <2>. QED BY <1>1, <2>1, <2>2, BrowserKept DEF AnswersInv
  <1>11. BrowserFits(b)'
    <2>1. p \in Of(b)'
      BY <1>2, <1>3 DEF Of
    <2>2. ASSUME NEW q \in Of(b)', job'[q].alone PROVE Of(b)' = {q} /\ AloneFits(job[q])'
      <3>1. q = p
        BY <1>5, <2>2 DEF Of
      <3>2. others = {} /\ Of(b) = {}
        BY <1>2, <2>2, <3>1 DEF Of
      <3>3. Of(b)' = {p}
        BY <1>5, <2>1, <3>2 DEF Of
      <3>4. AnswerHolds(b)
        BY <1>1, <3>2 DEF AnswersInv, BrowserFits
      <3>5. cookie[b] # served + 1
        <4>1. cookie[b] \in Tokens \cup {None} /\ served \in Nat
          BY <1>1 DEF Typed, TypeOK
        <4>2. CASE cookie[b] \in Tokens
          <5>1. Used(cookie[b])
            BY <1>1 DEF Used
          <5>2. ~(cookie[b] > served)
            BY <1>1, <4>2, <5>1 DEF Honest, Fresh
          <5>. QED BY <4>1, <4>2, <5>2 DEF Tokens, Serials
        <4>. QED BY <4>1, <4>2 DEF None
      <3>6. Keeps(job[p])'
        BY <1>1, <1>2, <3>4 DEF Keeps, AnswerHolds
      <3>7. AloneFits(job[p])'
        BY <1>1, <1>2, <3>4, <3>5, <3>6 DEF AloneFits, AnswerHolds
      <3>. QED BY <3>1, <3>3, <3>7
    <2>. QED BY <2>1, <2>2 DEF BrowserFits
  <1>. QED BY <1>8, <1>9, <1>10, <1>11

LEMMA RestartFits ==
    ASSUME AnswersInv, Restart
    PROVE  Owned' /\ EndedGone' /\ \A c \in Browsers : BrowserFits(c)'
  <1>1. /\ Busy' = {} /\ UNCHANGED <<sessions, cookie, served, ended>>
        /\ \A c \in Browsers : /\ Of(c)' = {}
                               /\ told'[c] = IF Of(c) # {} THEN Unknown ELSE told[c]
    BY DEF Restart, Busy, Of
  <1>2. Owned'
    BY <1>1 DEF AnswersInv, Owned, Holds
  <1>3. EndedGone'
    BY <1>1 DEF AnswersInv, EndedGone, Used
  <1>4. ASSUME NEW c \in Browsers PROVE BrowserFits(c)'
    <2>1. AnswerHolds(c)'
      BY <1>1, AccountsAssumption DEF AnswersInv, BrowserFits, AnswerHolds
    <2>. QED BY <1>1, <2>1 DEF BrowserFits
  <1>. QED BY <1>2, <1>3, <1>4

(* Every other step of a request.                                          *)
LEMMA HandlerFits ==
    ASSUME AnswersInv, NEW p \in Proc,
           \/ Load(p) \/ Find(p) \/ Renew(p) \/ AuditLogin(p) \/ Destroy(p)
           \/ Read(p) \/ BeginUpdate(p) \/ Write(p) \/ LogUpdate(p) \/ Commit(p)
           \/ FailInside(p) \/ Save(p) \/ Respond(p)
    PROVE  Owned' /\ EndedGone' /\ \A c \in Browsers : BrowserFits(c)'
  <1>0. Typed
    BY DEF AnswersInv, Honest
  <1>1. Touches(p)
    BY <1>0, StepTouches
  <1>2. Owned'
    BY <1>1, OwnedStep
  <1>3. PICK b \in Browsers : b = job[p].req.browser
    BY <1>1 DEF Touches
  <1>4. ASSUME NEW t \in ended'
        PROVE  /\ ~Used(t)' /\ t <= served'
               /\ \A q \in Busy' : job'[q].pc \in Drawing => job'[q].serial # t
    <2>1. CASE t \in ended
      BY <1>1, <2>1, EndedStep
    <2>2. CASE t \notin ended
      <3>1. /\ Respond(p) /\ job[p].alone /\ job[p].answer = "ok" /\ job[p].sent # None
            /\ job[p].req.op \in {"login", "logout"} /\ t = job[p].sent
        BY <1>4, <2>2 DEF Load, Find, Renew, AuditLogin, Destroy, Read, BeginUpdate, Write,
                          LogUpdate, Commit, FailInside, Save, Respond
      <3>2. t \in Tokens
        BY <1>0, <1>1, <3>1, BusyJob DEF Touches, Job
      <3>. QED BY <3>1, <3>2, GivenUp
    <2>. QED BY <2>1, <2>2
  <1>5. EndedGone'
    BY <1>4 DEF EndedGone, Drawing
  <1>6. BrowserFits(b)'
    <2>1. CASE Respond(p)
      BY <1>3, <2>1, RespondFits
    <2>2. CASE ~Respond(p)
      <3>1. job'[p] # Idle
        BY <1>1, <2>2 DEF Touches, Load, Find, Renew, AuditLogin, Destroy, Read, BeginUpdate,
                          Write, LogUpdate, Commit, FailInside, Save, At
      <3>2. BrowserFits(b) /\ p \in Of(b)
        BY <1>0, <1>1, <1>3, BrowserOf DEF AnswersInv, Touches
      <3>3. job[p].alone => AloneFits(job[p])
        BY <3>2 DEF BrowserFits
      <3>4. job[p].alone => AloneFits(job[p])'
        BY <1>0, <2>2, <3>3, AloneLoad, AloneFind, AloneRenew, AloneDestroy, AloneSave
      <3>5. job'[p].req.browser = b
        BY <1>1, <1>3, <3>1 DEF Touches
      <3>. QED BY <1>1, <3>1, <3>4, <3>5, OwnFits
    <2>. QED BY <2>1, <2>2
  <1>7. ASSUME NEW c \in Browsers, c # b PROVE BrowserFits(c)'
    BY <1>1, <1>3, <1>7, OthersFit
  <1>. QED BY <1>2, <1>5, <1>6, <1>7

LEMMA AnswersNext == AnswersInv /\ [Next]_vars => AnswersInv'
  <1>. SUFFICES ASSUME AnswersInv, [Next]_vars PROVE AnswersInv'
    OBVIOUS
  <1>1. Honest'
    BY HonestNext DEF AnswersInv
  <1>2. CASE UNCHANGED vars \/ Expire
    <2>1. UNCHANGED <<job, sessions, cookie, told, served, ended>>
      BY <1>2 DEF Expire, vars
    <2>2. UNCHANGED Busy /\ \A b \in Browsers : UNCHANGED Of(b)
      BY <2>1 DEF Busy, Of
    <2>3. Owned' /\ EndedGone'
      BY <2>1, <2>2 DEF AnswersInv, Owned, Holds, EndedGone, Used
    <2>4. ASSUME NEW c \in Browsers PROVE BrowserFits(c)'
      BY <2>1, <2>2, BrowserKept DEF AnswersInv
    <2>. QED BY <1>1, <2>3, <2>4 DEF AnswersInv
  <1>3. CASE Next /\ ~Expire
    <2>1. Owned' /\ EndedGone' /\ \A c \in Browsers : BrowserFits(c)'
      BY <1>3, ArriveFits, RestartFits, HandlerFits DEF Next
    <2>. QED BY <1>1, <2>1 DEF AnswersInv
  <1>. QED BY <1>2, <1>3

LEMMA AnswersInit == Init => AnswersInv
  <1>. SUFFICES ASSUME Init PROVE AnswersInv
    OBVIOUS
  <1>1. Busy = {} /\ (\A b \in Browsers : Of(b) = {}) /\ Honest
    BY HonestInit DEF Init, Busy, Of
  <1>2. Owned
    BY <1>1 DEF Init, Owned, Holds, Tokens, Serials, None
  <1>3. \A b \in Browsers : BrowserFits(b)
    BY <1>1, AccountsAssumption DEF Init, BrowserFits, AnswerHolds
  <1>. QED BY <1>1, <1>2, <1>3 DEF Init, EndedGone, AnswersInv

(* What a browser that sends one request after the other was told is so,   *)
(* whatever fails and whatever other browsers do (pkg/session).            *)
THEOREM AnswersAreTrue == Spec => []AnswersHold
  <1>1. AnswersInv => AnswersHold
    BY DEF AnswersInv, AnswersHold, BrowserFits, AnswerHolds, Of
  <1>. QED BY AnswersInit, AnswersNext, <1>1, PTL DEF Spec

(* A token given up while its browser had no other request in flight is of *)
(* no use ever after (LogoutHandler, RenewToken).                          *)
THEOREM GivenUpForGood == Spec => []EndedStayEnded
  <1>1. AnswersInv => EndedStayEnded
    BY DEF AnswersInv, EndedGone, EndedStayEnded, Used
  <1>. QED BY AnswersInit, AnswersNext, <1>1, PTL DEF Spec
=============================================================================

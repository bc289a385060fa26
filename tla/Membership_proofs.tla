-------------------------- MODULE Membership_proofs --------------------------
(***************************************************************************)
(* What is proved of the requests that change users and roles, for any     *)
(* tables, any number of concurrent requests and any failures and restarts:*)
(* their types, that a deletion takes all or nothing, that a level of a    *)
(* permission comes with those below it, that the log tells of every user  *)
(* who came or went, that the enforcer grants the memberships that         *)
(* role_user holds, and that the newest entry of a user says its roles.    *)
(***************************************************************************)
EXTENDS Membership, SequenceTheorems, TLAPS

DeleteOps == {"deleteUsers", "deleteRoles"}

(* Where a handler has a transaction open.                                 *)
InTransaction == {"current", "unlink", "clear", "insert", "link", "log",
                  "delete", "revoke", "commit"}

(* The request returns and leaves no transaction behind.                   *)
Return(p) == Leave(p) /\ tx' = [tx EXCEPT ![p] = NoTx]

(* Where a request is in its handler fits what it asked for.               *)
PlaceFits(p) ==
    /\ pc[p] # "idle" => req[p] \in Requests
    /\ pc[p] \in {"reset", "grant"} => RoleSide(req[p]) /\ target[p] \in RoleIds
    /\ pc[p] = "prepare" /\ req[p].op = "updateRole" => target[p] \in RoleIds
    /\ pc[p] \in {"prepare", "begin", "current", "unlink", "clear", "insert", "link", "log"} =>
         req[p].op \notin DeleteOps
    /\ pc[p] = "log" => UserSide(req[p])
    /\ pc[p] \in {"read", "delete"} => req[p].op \in DeleteOps
    /\ pc[p] = "revoke" => req[p].op = "deleteRoles"
    /\ pc[p] \notin InTransaction => tx[p] = NoTx

(* SyncRoles logs roles: what it has read, and what it has inserted.       *)
SyncFits(p) ==
    UserSide(req[p]) =>
      /\ pc[p] \in {"unlink", "clear", "insert", "link", "log", "commit"} => cur[p] \subseteq RoleIds
      /\ pc[p] \in {"insert", "link", "log", "commit"} => req[p].ids \ todo[p] \subseteq RoleIds
      /\ pc[p] \in {"log", "commit"} => todo[p] = {}

(* What a deletion has removed in its transaction is what it has gone      *)
(* through of its list, and the admin is not in it.                        *)
DeletionFits(p) ==
    /\ pc[p] \in {"delete", "commit"} /\ req[p].op = "deleteUsers" =>
         /\ tx[p].gone = cur[p] \ todo[p]
         /\ 1 \notin tx[p].gone
         /\ todo[p] \subseteq cur[p]
         /\ pc[p] = "commit" => todo[p] = {}
    /\ pc[p] \in {"delete", "revoke", "commit"} /\ req[p].op = "deleteRoles" =>
         /\ 1 \notin req[p].ids
         /\ pc[p] # "delete" => tx[p].gone = req[p].ids

Fits(p) == PlaceFits(p) /\ SyncFits(p) /\ DeletionFits(p)

IInv == TypeOK /\ \A p \in Proc : Fits(p)

(* All that Fits(p) speaks of.                                             *)
Own(p) == <<pc[p], req[p], target[p], cur[p], todo[p], tx[p]>>

-----------------------------------------------------------------------------
(* Types                                                                   *)

TablesTyped ==
    /\ users \subseteq UserIds /\ roles \subseteq RoleIds
    /\ roleUser \subseteq Pairs
    /\ audit \in Seq(AuditEntry)
    /\ nextUser \in 1..(MaxUser + 1) /\ nextRole \in 1..(MaxRole + 1)
    /\ nextEntry \in Nat \ {0}
    /\ links \subseteq Pairs
    /\ policies \subseteq RoleIds \X Codes \X Levels
    /\ served \in 0..MaxRequests /\ restarts \in 0..MaxRestarts
    /\ suspect \subseteq Cells
    /\ unlogged \subseteq Pairs

LocalsTyped ==
    /\ pc \in [Proc -> Labels]
    /\ req \in [Proc -> Requests \cup {NoRequest}]
    /\ target \in [Proc -> Nat]
    /\ cur \in [Proc -> SUBSET (UserIds \cup RoleIds)]
    /\ todo \in [Proc -> SUBSET (UserIds \cup RoleIds)]
    /\ grants \in [Proc -> SUBSET (RoleIds \X Codes \X Levels)]
    /\ tx \in [Proc -> Transaction]

LEMMA Split == TypeOK <=> TablesTyped /\ LocalsTyped
BY DEF TypeOK, TablesTyped, LocalsTyped

LEMMA Together == TablesTyped' /\ LocalsTyped' => TypeOK'
BY DEF TypeOK, TablesTyped, LocalsTyped

LEMMA NoTxTyped == NoTx \in Transaction /\ Begin \in Transaction
<1>1. <<>> \in Seq(AuditEntry)
  OBVIOUS
<1> QED
  BY <1>1 DEF NoTx, Begin, Transaction

LEMMA EntryTyped ==
  ASSUME NEW id \in Nat, NEW action \in {"created", "deleted", "roles"}, NEW u \in Nat,
         NEW new \in SUBSET RoleIds, NEW old \in SUBSET RoleIds
  PROVE  Entry(id, action, u, new, old) \in AuditEntry
BY DEF Entry, AuditEntry

LEMMA RequestTyped ==
  ASSUME NEW r \in Requests
  PROVE  /\ r \in Request /\ r.op \in Ops /\ r.id \in Nat
         /\ r.ids \subseteq UserIds \cup RoleIds
         /\ r.perms \subseteq Codes \X LevelInputs
         /\ r.op = "updateRole" => r.id \in RoleIds
BY RequestsAssumption, BoundsAssumption DEF Request, UserIds, RoleIds

LEMMA FootprintTyped ==
  ASSUME NEW r, NEW t
  PROVE  Footprint(r, t) \subseteq Cells
BY DEF Footprint

(* SyncPermissions adds policies of its role, whatever level was given.    *)
LEMMA ExpandTyped ==
  ASSUME NEW r \in RoleIds, NEW perms \in SUBSET (Codes \X LevelInputs)
  PROVE  Expand(r, perms) \subseteq RoleIds \X Codes \X Levels
BY DEF Expand, LevelsUpTo, Levels

(* A request that returns leaves its locals in order.                      *)
LEMMA ReturnFits ==
  ASSUME LocalsTyped, NEW p \in Proc, Return(p)
  PROVE  LocalsTyped' /\ Fits(p)'
<1>1. LocalsTyped'
  BY NoTxTyped DEF LocalsTyped, Return, Leave, Labels
<1>2. pc'[p] = "idle" /\ req'[p] = NoRequest /\ tx'[p] = NoTx
  BY DEF LocalsTyped, Return, Leave
<1> QED
  BY <1>1, <1>2 DEF Fits, PlaceFits, SyncFits, DeletionFits, UserSide, NoRequest

(* No step returns with its transaction open: either it ends it, or there  *)
(* is none where it stands.                                                *)
LEMMA LeaveReturns ==
  ASSUME IInv, NEW p \in Proc, Receive(p) \/ Step(p), Leave(p)
  PROVE  Return(p)
<1>0. LocalsTyped /\ (pc[p] \notin InTransaction => tx[p] = NoTx)
  BY Split DEF IInv, Fits, PlaceFits
<1>1. CASE pc[p] \notin InTransaction /\ UNCHANGED tx
  BY <1>0, <1>1 DEF Return, LocalsTyped
<1>2. CASE Receive(p)
  BY <1>1, <1>2 DEF Receive, InTransaction
<1>3. CASE InsertUser(p) \/ UpdateUser(p) \/ InsertRole(p) \/ UpdateRole(p)
  BY <1>1, <1>3 DEF InsertUser, UpdateUser, InsertRole, UpdateRole, InTransaction
<1>4. CASE ResetRole(p) \/ AddRolePermission(p)
  BY <1>1, <1>4 DEF ResetRole, AddRolePermission, InTransaction
<1>5. pc'[p] = "idle"
  BY <1>0 DEF Leave, LocalsTyped
<1>6. ~ (BeginSync(p) \/ ReadCurrent(p) \/ RemoveRoleForUser(p))
  BY <1>0, <1>5 DEF BeginSync, ReadCurrent, RemoveRoleForUser, LocalsTyped
<1>6a. ~ DeleteRows(p)
  BY <1>0, <1>5 DEF DeleteRows, AllInserted, LocalsTyped
<1>7. ~ (InsertRow(p) \/ AddRoleForUser(p) \/ LogSync(p))
  BY <1>0, <1>5 DEF InsertRow, AddRoleForUser, LogSync, AllInserted, LocalsTyped
<1>8. CASE ReadUsers(p) \/ ReadRoles(p)
  <2>1. pc[p] = "read" /\ UNCHANGED tx
    BY <1>0, <1>5, <1>8 DEF ReadUsers, ReadRoles, LocalsTyped
  <2> QED
    BY <1>1, <2>1 DEF InTransaction
<1>9. ~ (DeleteUser(p) \/ DeleteRoles(p) \/ RevokeRole(p))
  BY <1>0, <1>5 DEF DeleteUser, DeleteRoles, RevokeRole, LocalsTyped
<1>10. CASE Commit(p)
  BY <1>10 DEF Commit, Return
<1>11. CASE Fail(p)
  <2>1. CASE pc[p] \in RollsBack
    BY <1>11, <2>1 DEF Fail, Return
  <2>2. CASE pc[p] \notin RollsBack
    <3>1. pc[p] \notin InTransaction
      BY <1>11, <2>2 DEF Fail, Fallible, RollsBack, InTransaction
    <3>2. UNCHANGED tx
      BY <1>0, <1>11, <2>2 DEF Fail, LocalsTyped
    <3> QED
      BY <1>1, <3>1, <3>2
  <2> QED
    BY <2>1, <2>2
<1> QED
  BY <1>2, <1>3, <1>4, <1>6, <1>6a, <1>7, <1>8, <1>9, <1>10, <1>11 DEF Step, Advance

(* A step of one request leaves the locals of the others alone.            *)
LEMMA OthersKept ==
  ASSUME IInv, NEW p \in Proc, NEW q \in Proc \ {p}, Receive(p) \/ Step(p)
  PROVE  Own(q)' = Own(q)
<1>0. LocalsTyped
  BY Split DEF IInv
<1> USE <1>0 DEF LocalsTyped, Own
<1>1. CASE Receive(p)
  BY <1>1 DEF Receive
<1>2. CASE Leave(p)
  <2>1. Return(p)
    BY <1>2, LeaveReturns
  <2> QED
    BY <2>1 DEF Return, Leave
<1>3. CASE ~ Leave(p) /\ (InsertUser(p) \/ UpdateUser(p) \/ InsertRole(p) \/ UpdateRole(p))
  BY <1>3 DEF InsertUser, UpdateUser, InsertRole, UpdateRole, Prepared
<1>4. CASE ~ Leave(p) /\ (ResetRole(p) \/ AddRolePermission(p))
  BY <1>4 DEF ResetRole, AddRolePermission
<1>5. CASE BeginSync(p) \/ ReadCurrent(p) \/ RemoveRoleForUser(p) \/ DeleteRows(p)
  BY <1>5 DEF BeginSync, ReadCurrent, RemoveRoleForUser, DeleteRows
<1>6. CASE InsertRow(p) \/ AddRoleForUser(p) \/ LogSync(p)
  BY <1>6 DEF InsertRow, AddRoleForUser, LogSync
<1>7. CASE ~ Leave(p) /\ (ReadUsers(p) \/ ReadRoles(p))
  BY <1>7 DEF ReadUsers, ReadRoles
<1>8. CASE DeleteUser(p) \/ DeleteRoles(p) \/ RevokeRole(p)
  BY <1>8 DEF DeleteUser, DeleteRoles, RevokeRole
<1>9. CASE Commit(p) \/ Fail(p)
  BY <1>2, <1>9 DEF Commit, Fail
<1> QED
  BY <1>1, <1>2, <1>3, <1>4, <1>5, <1>6, <1>7, <1>8, <1>9 DEF Step, Advance

LEMMA FitsKept ==
  ASSUME NEW q \in Proc, Fits(q), Own(q)' = Own(q)
  PROVE  Fits(q)'
BY DEF Own, Fits, PlaceFits, SyncFits, DeletionFits

-----------------------------------------------------------------------------
(* Each step keeps the types, and its request fits its place again.        *)

(* What the proofs of the steps need to know of a request at work.         *)
LEMMA AtWork ==
  ASSUME IInv, NEW p \in Proc, pc[p] # "idle"
  PROVE  /\ req[p] \in Request /\ req[p].op \in Ops
         /\ req[p].ids \subseteq UserIds \cup RoleIds
         /\ req[p].perms \subseteq Codes \X LevelInputs
         /\ target[p] \in Nat /\ tx[p] \in Transaction
         /\ cur[p] \subseteq UserIds \cup RoleIds /\ todo[p] \subseteq UserIds \cup RoleIds
BY RequestTyped DEF IInv, Fits, PlaceFits, TypeOK

LEMMA ReceivePreserves ==
  ASSUME IInv, NEW p \in Proc, Receive(p)
  PROVE  TypeOK' /\ Fits(p)'
<1>1. PICK r \in Requests :
        LET t == IF r.op \in {"updateUser", "updateRole"} THEN r.id ELSE 0
        IN /\ pc' = [pc EXCEPT ![p] = IF r.op \in DeleteOps THEN "read" ELSE "prepare"]
           /\ req' = [req EXCEPT ![p] = r]
           /\ target' = [target EXCEPT ![p] = t]
           /\ suspect' = suspect \cup (Footprint(r, t) \cap Others(p))
  BY DEF Receive, DeleteOps
<1>2. /\ served' \in 0..MaxRequests
      /\ UNCHANGED <<database, enforcer, cur, todo, grants, tx, restarts>>
  BY BoundsAssumption DEF Receive, IInv, TypeOK
<1>3. /\ r.id \in Nat /\ r.op \in Ops /\ (r.op = "updateRole" => r.id \in RoleIds)
  BY RequestTyped
<1>4. LocalsTyped'
  BY <1>1, <1>2, <1>3 DEF IInv, TypeOK, LocalsTyped, Labels
<1>5. suspect' \subseteq Cells
  BY <1>1, FootprintTyped DEF IInv, TypeOK
<1>6. TablesTyped'
  BY <1>2, <1>5 DEF IInv, TypeOK, TablesTyped, database, enforcer
<1>7. /\ req'[p] = r /\ pc'[p] = IF r.op \in DeleteOps THEN "read" ELSE "prepare"
      /\ r.op = "updateRole" => target'[p] = r.id
  BY <1>1 DEF IInv, TypeOK
<1>8. tx'[p] = NoTx
  BY <1>2 DEF Receive, InTransaction, IInv, Fits, PlaceFits
<1> QED
  BY <1>3, <1>4, <1>6, <1>7, <1>8, Together
  DEF Fits, PlaceFits, SyncFits, DeletionFits, DeleteOps

(* Prepared: the row of the entity is written, with id t.                  *)
LEMMA PreparedFits ==
  ASSUME IInv, NEW p \in Proc, pc[p] = "prepare", NEW t \in Nat, Prepared(p, t),
         UNCHANGED tx, RoleSide(req[p]) => t \in RoleIds
  PROVE  LocalsTyped' /\ Fits(p)'
<1>0. LocalsTyped /\ req[p] \in Requests /\ req[p].op \notin DeleteOps /\ tx[p] = NoTx
  BY Split DEF IInv, Fits, PlaceFits, InTransaction
<1>1. CASE Leave(p)
  <2>1. Return(p)
    BY <1>0, <1>1 DEF Return, LocalsTyped
  <2> QED
    BY <1>0, <2>1, ReturnFits
<1>2. CASE ~ Leave(p)
  <2>1. \/ pc' = [pc EXCEPT ![p] = "reset"] /\ RoleSide(req[p])
        \/ pc' = [pc EXCEPT ![p] = "begin"]
    BY <1>2 DEF Prepared
  <2>2. /\ target' = [target EXCEPT ![p] = t]
        /\ UNCHANGED <<req, cur, todo, grants>>
    BY <1>2 DEF Prepared
  <2>3. LocalsTyped'
    BY <1>0, <2>1, <2>2 DEF LocalsTyped, Labels
  <2>4. /\ target'[p] = t /\ req'[p] = req[p]
        /\ pc'[p] = "begin" \/ (pc'[p] = "reset" /\ RoleSide(req[p]))
    BY <1>0, <2>1, <2>2 DEF LocalsTyped
  <2> QED
    BY <1>0, <2>3, <2>4 DEF Fits, PlaceFits, SyncFits, DeletionFits
<1> QED
  BY <1>1, <1>2

LEMMA PreparePreserves ==
  ASSUME IInv, NEW p \in Proc,
         InsertUser(p) \/ UpdateUser(p) \/ InsertRole(p) \/ UpdateRole(p)
  PROVE  TypeOK' /\ Fits(p)'
<1> USE BoundsAssumption DEF UserIds, RoleIds
<1>0. TablesTyped /\ target[p] \in Nat
  BY Split DEF IInv, TypeOK
<1>1. CASE InsertUser(p)
  <2>1. /\ pc[p] = "prepare" /\ nextUser \in UserIds /\ ~ RoleSide(req[p])
        /\ Prepared(p, nextUser) /\ UNCHANGED tx
    BY <1>0, <1>1 DEF InsertUser, RoleSide, TablesTyped
  <2>2. Entry(0, "created", nextUser, {}, {}) \in AuditEntry
    BY <2>1, EntryTyped
  <2>3. audit' \in Seq(AuditEntry)
    BY <1>0, <1>1, <2>2 DEF InsertUser, TablesTyped
  <2>4. suspect' \subseteq Cells
    BY <1>0, <1>1, FootprintTyped DEF InsertUser, TablesTyped
  <2>5. users' \subseteq UserIds /\ nextUser' \in 1..(MaxUser + 1)
    BY <1>0, <1>1, <2>1 DEF InsertUser, TablesTyped
  <2>6. UNCHANGED <<roles, roleUser, nextRole, nextEntry, unlogged, links, policies,
                    served, restarts>>
    BY <1>1 DEF InsertUser, enforcer
  <2>7. TablesTyped'
    BY <1>0, <2>3, <2>4, <2>5, <2>6 DEF TablesTyped
  <2> QED
    BY <2>1, <2>7, PreparedFits, Together
<1>2. CASE UpdateUser(p)
  <2>1. pc[p] = "prepare" /\ ~ RoleSide(req[p]) /\ Prepared(p, target[p]) /\ UNCHANGED tx
    BY <1>2 DEF UpdateUser, RoleSide
  <2>2. TablesTyped'
    BY <1>0, <1>2 DEF UpdateUser, TablesTyped, database, enforcer
  <2> QED
    BY <1>0, <2>1, <2>2, PreparedFits, Together
<1>3. CASE InsertRole(p)
  <2>1. pc[p] = "prepare" /\ nextRole \in RoleIds /\ Prepared(p, nextRole) /\ UNCHANGED tx
    BY <1>0, <1>3 DEF InsertRole, TablesTyped
  <2>2. suspect' \subseteq Cells
    BY <1>0, <1>3, FootprintTyped DEF InsertRole, TablesTyped
  <2>3. roles' \subseteq RoleIds /\ nextRole' \in 1..(MaxRole + 1)
    BY <1>0, <1>3, <2>1 DEF InsertRole, TablesTyped
  <2>4. TablesTyped'
    BY <1>0, <1>3, <2>2, <2>3 DEF InsertRole, TablesTyped, enforcer
  <2> QED
    BY <2>1, <2>4, PreparedFits, Together
<1>4. CASE UpdateRole(p)
  <2>1. pc[p] = "prepare" /\ target[p] \in RoleIds /\ Prepared(p, target[p]) /\ UNCHANGED tx
    BY <1>4 DEF UpdateRole, IInv, Fits, PlaceFits
  <2>2. TablesTyped'
    BY <1>0, <1>4 DEF UpdateRole, TablesTyped, database, enforcer
  <2> QED
    BY <1>0, <2>1, <2>2, PreparedFits, Together
<1> QED
  BY <1>1, <1>2, <1>3, <1>4

LEMMA PermissionsPreserve ==
  ASSUME IInv, NEW p \in Proc, ResetRole(p) \/ AddRolePermission(p)
  PROVE  TypeOK' /\ Fits(p)'
<1>0. /\ TablesTyped /\ LocalsTyped /\ pc[p] \in {"reset", "grant"}
      /\ RoleSide(req[p]) /\ target[p] \in RoleIds /\ req[p] \in Requests
  BY Split DEF IInv, Fits, PlaceFits, ResetRole, AddRolePermission
<1>1. TablesTyped'
  <2>1. CASE ResetRole(p)
    BY <1>0, <2>1 DEF ResetRole, TablesTyped, database
  <2>2. CASE AddRolePermission(p)
    BY <1>0, <2>2 DEF AddRolePermission, TablesTyped, LocalsTyped, database
  <2> QED
    BY <2>1, <2>2
<1>2. CASE Leave(p)
  <2>1. Return(p)
    BY <1>2, LeaveReturns DEF Step, Advance
  <2> QED
    BY <1>0, <1>1, <2>1, ReturnFits, Together
<1>3. CASE ~ Leave(p)
  <2>1. Expand(target[p], req[p].perms) \subseteq RoleIds \X Codes \X Levels
    BY <1>0, RequestTyped, ExpandTyped
  <2>2. \E label \in {"grant", "begin"} : pc' = [pc EXCEPT ![p] = label]
    BY <1>0, <1>3 DEF ResetRole, AddRolePermission, LocalsTyped
  <2>3. \E g \in SUBSET (RoleIds \X Codes \X Levels) : grants' = [grants EXCEPT ![p] = g]
    <3>1. CASE ResetRole(p)
      <4>1. \/ grants' = [grants EXCEPT ![p] = Expand(target[p], req[p].perms)]
            \/ grants' = grants
        BY <1>3, <3>1 DEF ResetRole
      <4>2. grants = [grants EXCEPT ![p] = grants[p]]
        BY <1>0 DEF LocalsTyped
      <4> QED
        BY <1>0, <2>1, <4>1, <4>2 DEF LocalsTyped
    <3>2. CASE AddRolePermission(p)
      <4>1. PICK g \in grants[p] : \/ grants' = [grants EXCEPT ![p] = grants[p] \ {g}]
                                  \/ grants' = [grants EXCEPT ![p] = {}]
        BY <1>3, <3>2 DEF AddRolePermission
      <4> QED
        BY <1>0, <4>1 DEF LocalsTyped
    <3> QED
      BY <3>1, <3>2
  <2>4. UNCHANGED <<req, target, cur, todo, tx>>
    BY <1>3 DEF ResetRole, AddRolePermission
  <2>5. LocalsTyped'
    BY <1>0, <2>2, <2>3, <2>4 DEF LocalsTyped, Labels
  <2>6. pc'[p] \in {"grant", "begin"} /\ req'[p] = req[p] /\ target'[p] = target[p]
    BY <1>0, <2>2, <2>4 DEF LocalsTyped
  <2>7. tx'[p] = NoTx
    BY <1>0, <2>4 DEF InTransaction, IInv, Fits, PlaceFits
  <2> QED
    BY <1>0, <1>1, <2>5, <2>6, <2>7, Together
    DEF Fits, PlaceFits, SyncFits, DeletionFits, RoleSide, DeleteOps
<1> QED
  BY <1>2, <1>3

LEMMA SyncEntryTyped ==
  ASSUME IInv, NEW p \in Proc, pc[p] = "log"
  PROVE  /\ SyncEntry(p) \in AuditEntry /\ SyncEntry(p).action = "roles"
         /\ SyncEntry(p).id = nextEntry /\ SyncEntry(p).user = target[p]
         /\ SyncEntry(p).new = req[p].ids
         /\ req[p].ids \subseteq RoleIds /\ cur[p] \subseteq RoleIds /\ UserSide(req[p])
<1>1. /\ UserSide(req[p]) /\ todo[p] = {} /\ cur[p] \subseteq RoleIds
      /\ req[p].ids \subseteq RoleIds /\ target[p] \in Nat /\ nextEntry \in Nat
  BY DEF IInv, TypeOK, Fits, PlaceFits, SyncFits
<1> QED
  BY <1>1, EntryTyped DEF SyncEntry, Entry

LEMMA SyncPreserves ==
  ASSUME IInv, NEW p \in Proc,
         \/ BeginSync(p) \/ ReadCurrent(p) \/ RemoveRoleForUser(p) \/ DeleteRows(p)
         \/ InsertRow(p) \/ AddRoleForUser(p) \/ LogSync(p)
  PROVE  TypeOK' /\ Fits(p)'
<1>0. /\ TablesTyped /\ LocalsTyped /\ Fits(p) /\ req[p] \in Requests
      /\ pc[p] \in {"begin", "current", "unlink", "clear", "insert", "link", "log"}
      /\ req[p].op \in Ops \ DeleteOps
  BY Split, RequestTyped
  DEF IInv, Fits, PlaceFits, BeginSync, ReadCurrent, RemoveRoleForUser, DeleteRows, InsertRow,
      AddRoleForUser, LogSync, Request
<1>a. req[p].ids \subseteq UserIds \cup RoleIds
  BY <1>0, RequestTyped
<1>1. CASE BeginSync(p)
  <2>1. /\ UNCHANGED <<req, target, cur, todo, grants>>
        /\ tx' = [tx EXCEPT ![p] = Begin] /\ pc' = [pc EXCEPT ![p] = "current"]
    BY <1>1 DEF BeginSync
  <2>2. TablesTyped'
    BY <1>0, <1>1 DEF BeginSync, TablesTyped, database, enforcer
  <2>3. LocalsTyped'
    BY <1>0, <2>1, NoTxTyped DEF LocalsTyped, Labels
  <2>4. req'[p] = req[p] /\ pc'[p] = "current"
    BY <1>0, <2>1 DEF LocalsTyped
  <2> QED
    BY <1>0, <2>2, <2>3, <2>4, Together
    DEF Fits, PlaceFits, SyncFits, DeletionFits, InTransaction
<1>1a. CASE ReadCurrent(p)
  <2>1. /\ UNCHANGED <<req, target, grants, tx>>
        /\ cur' = [cur EXCEPT ![p] = Current(p)] /\ todo' = [todo EXCEPT ![p] = Current(p)]
        /\ \E label \in {"clear", "unlink"} : pc' = [pc EXCEPT ![p] = label]
    BY <1>1a DEF ReadCurrent
  <2>2. Current(p) \subseteq UserIds \cup RoleIds
    BY DEF Current
  <2>3. UserSide(req[p]) => Current(p) \subseteq RoleIds
    BY <1>0 DEF Current, Row, TablesTyped, Pairs
  <2>4. TablesTyped'
    BY <1>0, <1>1a DEF ReadCurrent, TablesTyped, database, enforcer
  <2>5. LocalsTyped'
    BY <1>0, <2>1, <2>2 DEF LocalsTyped, Labels
  <2>6. req'[p] = req[p] /\ cur'[p] = Current(p) /\ pc'[p] \in {"clear", "unlink"}
    BY <1>0, <2>1 DEF LocalsTyped
  <2> QED
    BY <1>0, <2>3, <2>4, <2>5, <2>6, Together
    DEF Fits, PlaceFits, SyncFits, DeletionFits, InTransaction
<1>2. CASE RemoveRoleForUser(p)
  <2>1. PICK x \in todo[p] :
          /\ links' = links \ {Row(p, x)}
          /\ todo' = [todo EXCEPT ![p] = @ \ {x}]
          /\ pc' = [pc EXCEPT ![p] = IF todo[p] = {x} THEN "clear" ELSE "unlink"]
    BY <1>2 DEF RemoveRoleForUser
  <2>2. TablesTyped'
    BY <1>0, <1>2, <2>1 DEF RemoveRoleForUser, TablesTyped, database
  <2>3. UNCHANGED <<req, target, cur, grants, tx>> /\ pc[p] = "unlink"
    BY <1>2 DEF RemoveRoleForUser
  <2>4. LocalsTyped'
    BY <1>0, <2>1, <2>3 DEF LocalsTyped, Labels
  <2>5. pc'[p] \in {"clear", "unlink"}
    BY <1>0, <2>1 DEF LocalsTyped
  <2> QED
    BY <1>0, <2>2, <2>3, <2>4, <2>5, Together
    DEF Fits, PlaceFits, SyncFits, DeletionFits, InTransaction
<1>3. CASE DeleteRows(p)
  <2>1. /\ tx' = [tx EXCEPT ![p].locked = TargetRows(p)]
        /\ todo' = [todo EXCEPT ![p] = req[p].ids]
        /\ pc' = [pc EXCEPT ![p] = IF req[p].ids = {} THEN AllInserted(p) ELSE "insert"]
        /\ UNCHANGED <<req, target, cur, grants>> /\ pc[p] = "clear"
    BY <1>3 DEF DeleteRows
  <2>2. TablesTyped'
    BY <1>0, <1>3 DEF DeleteRows, TablesTyped, database, enforcer
  <2>3. TargetRows(p) \subseteq Pairs
    BY DEF TargetRows
  <2>4. tx' \in [Proc -> Transaction]
    BY <1>0, <2>1, <2>3 DEF LocalsTyped, Transaction
  <2>5. LocalsTyped'
    BY <1>0, <1>a, <2>1, <2>4 DEF LocalsTyped, Labels, AllInserted
  <2>6. /\ todo'[p] = req[p].ids /\ req'[p] = req[p] /\ cur'[p] = cur[p]
        /\ pc'[p] = "insert" \/ (pc'[p] = AllInserted(p) /\ req[p].ids = {})
    BY <1>0, <2>1 DEF LocalsTyped
  <2> QED
    BY <1>0, <2>1, <2>2, <2>5, <2>6, Together
    DEF Fits, PlaceFits, SyncFits, DeletionFits, DeleteOps, AllInserted, InTransaction
<1>4. CASE InsertRow(p)
  <2>1. PICK x \in todo[p] : ParentsExist(p, x) /\ tx' = [tx EXCEPT ![p].rows = @ \cup {Row(p, x)}]
    BY <1>4 DEF InsertRow
  <2>2. /\ pc' = [pc EXCEPT ![p] = "link"] /\ pc[p] = "insert"
        /\ UNCHANGED <<req, target, cur, todo, grants>>
    BY <1>4 DEF InsertRow
  <2>3. TablesTyped'
    BY <1>0, <1>4 DEF InsertRow, TablesTyped, database, enforcer
  <2>4. Row(p, x) \in Pairs
    BY <1>0, <2>1 DEF ParentsExist, TablesTyped, Pairs
  <2>5. tx' \in [Proc -> Transaction]
    BY <1>0, <2>1, <2>4 DEF LocalsTyped, Transaction
  <2>6. LocalsTyped'
    BY <1>0, <2>2, <2>5 DEF LocalsTyped, Labels
  <2>7. pc'[p] = "link"
    BY <1>0, <2>2 DEF LocalsTyped
  <2> QED
    BY <1>0, <2>2, <2>3, <2>6, <2>7, Together
    DEF Fits, PlaceFits, SyncFits, DeletionFits, InTransaction
<1>5. CASE AddRoleForUser(p)
  <2>1. PICK x \in todo[p] :
          /\ Row(p, x) \in tx[p].rows
          /\ links' = links \cup {Row(p, x)}
          /\ todo' = [todo EXCEPT ![p] = @ \ {x}]
          /\ pc' = [pc EXCEPT ![p] = IF todo[p] = {x} THEN AllInserted(p) ELSE "insert"]
    BY <1>5 DEF AddRoleForUser
  <2>2. UNCHANGED <<req, target, cur, grants, tx>> /\ pc[p] = "link"
    BY <1>5 DEF AddRoleForUser
  <2>3. Row(p, x) \in Pairs
    BY <1>0, <2>1 DEF LocalsTyped, Transaction
  <2>4. TablesTyped'
    BY <1>0, <1>5, <2>1, <2>3 DEF AddRoleForUser, TablesTyped, database
  <2>5. LocalsTyped'
    BY <1>0, <2>1, <2>2 DEF LocalsTyped, Labels, AllInserted
  <2>6. UserSide(req[p]) => x \in RoleIds
    BY <2>3 DEF Row, Pairs
  <2>7. /\ todo'[p] = todo[p] \ {x}
        /\ pc'[p] = "insert" \/ (pc'[p] = AllInserted(p) /\ todo'[p] = {})
    BY <1>0, <2>1 DEF LocalsTyped
  <2> QED
    BY <1>0, <2>2, <2>4, <2>5, <2>6, <2>7, Together
    DEF Fits, PlaceFits, SyncFits, DeletionFits, DeleteOps, AllInserted, InTransaction
<1>6. CASE LogSync(p)
  <2>1. /\ tx' = [tx EXCEPT ![p].log = Append(@, SyncEntry(p))]
        /\ nextEntry' = nextEntry + 1 /\ pc' = [pc EXCEPT ![p] = "commit"] /\ pc[p] = "log"
        /\ UNCHANGED <<req, target, cur, todo, grants>>
    BY <1>6 DEF LogSync
  <2>2. /\ UserSide(req[p]) /\ todo[p] = {} /\ cur[p] \subseteq RoleIds
        /\ req[p].ids \subseteq RoleIds /\ target[p] \in Nat /\ nextEntry \in Nat
    BY <1>0, <2>1 DEF Fits, PlaceFits, SyncFits, LocalsTyped, TablesTyped
  <2>3. SyncEntry(p) \in AuditEntry
    BY <2>1, SyncEntryTyped
  <2>4. tx' \in [Proc -> Transaction]
    <3>1. tx[p] \in Transaction /\ Append(tx[p].log, SyncEntry(p)) \in Seq(AuditEntry)
      BY <1>0, <2>3 DEF LocalsTyped, Transaction
    <3>2. [tx[p] EXCEPT !.log = Append(tx[p].log, SyncEntry(p))] \in Transaction
      BY <3>1 DEF Transaction
    <3> QED
      BY <1>0, <2>1, <3>2 DEF LocalsTyped
  <2>5. LocalsTyped'
    BY <1>0, <2>1, <2>4 DEF LocalsTyped, Labels
  <2>6. TablesTyped'
    BY <1>0, <1>6, <2>1 DEF LogSync, TablesTyped, enforcer
  <2>7. pc'[p] = "commit"
    BY <1>0, <2>1 DEF LocalsTyped
  <2> QED
    BY <1>0, <2>1, <2>2, <2>5, <2>6, <2>7, Together
    DEF Fits, PlaceFits, SyncFits, DeletionFits, DeleteOps, InTransaction
<1> QED
  BY <1>1, <1>1a, <1>2, <1>3, <1>4, <1>5, <1>6

LEMMA DeletePreserves ==
  ASSUME IInv, NEW p \in Proc,
         ReadUsers(p) \/ DeleteUser(p) \/ ReadRoles(p) \/ DeleteRoles(p) \/ RevokeRole(p)
  PROVE  TypeOK' /\ Fits(p)'
<1>0. TablesTyped /\ LocalsTyped /\ Fits(p) /\ pc[p] # "idle" /\ req[p] \in Requests
  BY Split DEF IInv, Fits, PlaceFits, ReadUsers, DeleteUser, ReadRoles, DeleteRoles, RevokeRole
<1>a. req[p].ids \subseteq UserIds \cup RoleIds
  BY <1>0, RequestTyped
<1>1. CASE Leave(p)
  <2>1. TablesTyped'
    BY <1>0, <1>1 DEF ReadUsers, DeleteUser, ReadRoles, DeleteRoles, RevokeRole,
                      TablesTyped, database, enforcer
  <2> QED
    BY <1>0, <1>1, <2>1, LeaveReturns, ReturnFits, Together DEF Step, Advance
<1>2. CASE ReadUsers(p) /\ ~ Leave(p)
  <2>1. /\ cur' = [cur EXCEPT ![p] = req[p].ids \cap users]
        /\ todo' = [todo EXCEPT ![p] = req[p].ids \cap users]
        /\ tx' = [tx EXCEPT ![p] = Begin]
        /\ pc' = [pc EXCEPT ![p] = "delete"]
        /\ UNCHANGED <<req, target, grants>> /\ req[p].op = "deleteUsers"
    BY <1>2 DEF ReadUsers
  <2>2. TablesTyped'
    BY <1>0, <1>2 DEF ReadUsers, TablesTyped, database, enforcer
  <2>3. LocalsTyped'
    BY <1>0, <1>a, <2>1, NoTxTyped DEF LocalsTyped, Labels
  <2>4. cur'[p] = todo'[p] /\ tx'[p].gone = {} /\ pc'[p] = "delete"
    BY <1>0, <2>1 DEF LocalsTyped, Begin, NoTx
  <2> QED
    BY <1>0, <2>1, <2>2, <2>3, <2>4, Together
    DEF Fits, PlaceFits, SyncFits, DeletionFits, DeleteOps, UserSide, InTransaction
<1>3. CASE DeleteUser(p)
  <2>1. PICK u \in todo[p] :
          /\ Deletable(u)
          /\ tx' = [tx EXCEPT ![p] = DeleteEntity(@, u)]
          /\ todo' = [todo EXCEPT ![p] = @ \ {u}]
          /\ pc' = [pc EXCEPT ![p] = IF todo[p] = {u} THEN "commit" ELSE "delete"]
    BY <1>3 DEF DeleteUser
  <2>2. /\ UNCHANGED <<req, target, cur, grants>> /\ pc[p] = "delete"
        /\ req[p].op = "deleteUsers"
    BY <1>3 DEF DeleteUser
  <2>3. TablesTyped'
    BY <1>0, <1>3 DEF DeleteUser, TablesTyped, database, enforcer
  <2>4. u \in UserIds \cup RoleIds /\ u \in Nat
    BY <1>0, BoundsAssumption DEF LocalsTyped, UserIds, RoleIds
  <2>5. DeleteEntity(tx[p], u) \in Transaction
    <3>1. Entry(0, "deleted", u, {}, {}) \in AuditEntry
      BY <2>4, EntryTyped
    <3>2. tx[p] \in Transaction /\ RowsOfUser(u) \subseteq Pairs
      BY <1>0 DEF LocalsTyped, RowsOfUser
    <3>3. Append(tx[p].log, Entry(0, "deleted", u, {}, {})) \in Seq(AuditEntry)
      BY <3>1, <3>2 DEF Transaction
    <3> QED
      BY <2>4, <3>2, <3>3 DEF DeleteEntity, Transaction
  <2>6. LocalsTyped'
    BY <1>0, <2>1, <2>2, <2>5 DEF LocalsTyped, Labels
  <2>7. /\ tx'[p].gone = tx[p].gone \cup {u} /\ todo'[p] = todo[p] \ {u}
        /\ pc'[p] = "delete" \/ (pc'[p] = "commit" /\ todo'[p] = {})
    BY <1>0, <2>1 DEF LocalsTyped, DeleteEntity, Transaction
  <2>8. u # 1 /\ u \in cur[p]
    <3>1. u # 1
      BY <2>1, <2>4 DEF Deletable
    <3>2. u \in cur[p]
      BY <1>0, <2>2 DEF Fits, DeletionFits
    <3> QED
      BY <3>1, <3>2
  <2> QED
    BY <1>0, <2>2, <2>3, <2>6, <2>7, <2>8, Together
    DEF Fits, PlaceFits, SyncFits, DeletionFits, DeleteOps, UserSide, InTransaction
<1>4. CASE ReadRoles(p) /\ ~ Leave(p)
  <2>1. /\ tx' = [tx EXCEPT ![p] = Begin] /\ pc' = [pc EXCEPT ![p] = "delete"]
        /\ UNCHANGED <<req, target, cur, todo, grants>>
        /\ req[p].op = "deleteRoles" /\ 1 \notin req[p].ids
    BY <1>4 DEF ReadRoles
  <2>2. TablesTyped'
    BY <1>0, <1>4 DEF ReadRoles, TablesTyped, database, enforcer
  <2>3. LocalsTyped'
    BY <1>0, <2>1, NoTxTyped DEF LocalsTyped, Labels
  <2>4. pc'[p] = "delete"
    BY <1>0, <2>1 DEF LocalsTyped
  <2> QED
    BY <1>0, <2>1, <2>2, <2>3, <2>4, Together
    DEF Fits, PlaceFits, SyncFits, DeletionFits, DeleteOps, UserSide, InTransaction
<1>5. CASE DeleteRoles(p)
  <2>1. PICK rows \in SUBSET Pairs :
          tx' = [tx EXCEPT ![p].locked = rows, ![p].gone = req[p].ids]
    BY <1>5 DEF DeleteRoles
  <2>2. /\ todo' = [todo EXCEPT ![p] = req[p].ids] /\ pc' = [pc EXCEPT ![p] = "revoke"]
        /\ UNCHANGED <<req, target, cur, grants>>
        /\ pc[p] = "delete" /\ req[p].op = "deleteRoles"
    BY <1>5 DEF DeleteRoles
  <2>3. TablesTyped'
    BY <1>0, <1>5 DEF DeleteRoles, TablesTyped, database, enforcer
  <2>4. tx' \in [Proc -> Transaction] /\ tx'[p].gone = req[p].ids
    BY <1>0, <1>a, <2>1 DEF LocalsTyped, Transaction
  <2>5. LocalsTyped'
    BY <1>0, <1>a, <2>2, <2>4 DEF LocalsTyped, Labels
  <2>6. pc'[p] = "revoke"
    BY <1>0, <2>2 DEF LocalsTyped
  <2> QED
    BY <1>0, <2>2, <2>3, <2>4, <2>5, <2>6, Together
    DEF Fits, PlaceFits, SyncFits, DeletionFits, DeleteOps, UserSide, InTransaction
<1>6. CASE RevokeRole(p)
  <2>1. PICK r \in todo[p] :
          /\ todo' = [todo EXCEPT ![p] = @ \ {r}]
          /\ pc' = [pc EXCEPT ![p] = IF todo[p] = {r} THEN "commit" ELSE "revoke"]
    BY <1>6 DEF RevokeRole
  <2>2. UNCHANGED <<req, target, cur, grants, tx>> /\ pc[p] = "revoke"
    BY <1>6 DEF RevokeRole
  <2>3. links' \subseteq links /\ policies' \subseteq policies
    BY <1>6 DEF RevokeRole
  <2>4. TablesTyped'
    BY <1>0, <1>6, <2>3 DEF RevokeRole, TablesTyped, database
  <2>5. LocalsTyped'
    BY <1>0, <2>1, <2>2 DEF LocalsTyped, Labels
  <2>6. pc'[p] \in {"commit", "revoke"}
    BY <1>0, <2>1 DEF LocalsTyped
  <2> QED
    BY <1>0, <2>2, <2>4, <2>5, <2>6, Together
    DEF Fits, PlaceFits, SyncFits, DeletionFits, DeleteOps, UserSide, InTransaction
<1> QED
  BY <1>1, <1>2, <1>3, <1>4, <1>5, <1>6

LEMMA CommitPreserves ==
  ASSUME IInv, NEW p \in Proc, Commit(p)
  PROVE  TypeOK' /\ Fits(p)'
<1>0. /\ TablesTyped /\ LocalsTyped /\ tx[p] \in Transaction /\ Return(p)
  BY Split DEF IInv, LocalsTyped, Commit, Return
<1>1. audit' \in Seq(AuditEntry)
  <2>1. audit \in Seq(AuditEntry) /\ tx[p].log \in Seq(AuditEntry) /\ audit' = audit \o tx[p].log
    BY <1>0 DEF TablesTyped, Transaction, Commit
  <2> QED
    BY <2>1, ConcatProperties
<1>2. users' \subseteq users /\ roles' \subseteq roles /\ roleUser' \subseteq Pairs
  BY <1>0 DEF Commit, TablesTyped, Transaction
<1>3. unlogged' \subseteq Pairs
  BY <1>0 DEF Commit, Unlogged, TablesTyped, Transaction
<1>4. TablesTyped'
  BY <1>0, <1>1, <1>2, <1>3 DEF Commit, TablesTyped, enforcer
<1> QED
  BY <1>0, <1>4, ReturnFits, Together

LEMMA FailPreserves ==
  ASSUME IInv, NEW p \in Proc, Fail(p)
  PROVE  TypeOK' /\ Fits(p)'
<1>0. TablesTyped /\ LocalsTyped /\ Return(p)
  BY Split, LeaveReturns DEF IInv, Fail, Step
<1>1. suspect' \subseteq Cells
  BY <1>0, FootprintTyped DEF Fail, Busy, TablesTyped
<1>2. TablesTyped'
  BY <1>0, <1>1 DEF Fail, TablesTyped, database, enforcer
<1> QED
  BY <1>0, <1>2, ReturnFits, Together

LEMMA RestartPreserves ==
  ASSUME IInv, Restart
  PROVE  IInv'
<1>0. TablesTyped
  BY Split DEF IInv
<1>1. links' \subseteq Pairs
  BY <1>0, BoundsAssumption DEF Restart, TablesTyped, Pairs, UserIds, RoleIds
<1>2. suspect' \subseteq Cells
  BY <1>0, FootprintTyped DEF Restart, Busy, TablesTyped
<1>3. TablesTyped'
  BY <1>0, <1>1, <1>2, BoundsAssumption DEF Restart, TablesTyped, database
<1>4. LocalsTyped'
  BY NoTxTyped DEF Restart, LocalsTyped, Labels
<1>5. \A p \in Proc : Fits(p)'
  BY DEF Restart, Fits, PlaceFits, SyncFits, DeletionFits, NoRequest, UserSide
<1> QED
  BY <1>3, <1>4, <1>5, Together DEF IInv

LEMMA InitEstablishes == Init => IInv
<1> SUFFICES ASSUME Init
             PROVE  IInv
  OBVIOUS
<1>1. LocalsTyped
  BY NoTxTyped DEF Init, LocalsTyped, Labels
<1>2. TablesTyped
  <2>1. InitialMembers \subseteq Pairs
    BY BoundsAssumption, InitialAssumption DEF Pairs, UserIds, RoleIds
  <2> QED
    BY <2>1, BoundsAssumption DEF Init, TablesTyped, UserIds, RoleIds
<1>3. \A p \in Proc : Fits(p)
  BY DEF Init, Fits, PlaceFits, SyncFits, DeletionFits, NoRequest, UserSide
<1> QED
  BY <1>1, <1>2, <1>3, Split DEF IInv

LEMMA NextPreserves == IInv /\ [Next]_vars => IInv'
<1> SUFFICES ASSUME IInv, [Next]_vars
             PROVE  IInv'
  OBVIOUS
<1>1. CASE Restart
  BY <1>1, RestartPreserves
<1>2. ASSUME NEW p \in Proc, Receive(p) \/ Step(p)
      PROVE  IInv'
  <2>1. TypeOK' /\ Fits(p)'
    BY <1>2, ReceivePreserves, PreparePreserves, PermissionsPreserve, SyncPreserves,
       DeletePreserves, CommitPreserves, FailPreserves DEF Step, Advance
  <2>2. ASSUME NEW q \in Proc \ {p}
        PROVE  Fits(q)'
    <3>1. LocalsTyped /\ Fits(q)
      BY Split DEF IInv
    <3>2. Own(q)' = Own(q)
      BY <1>2, <3>1, OthersKept
    <3> QED
      BY <3>1, <3>2, FitsKept
  <2> QED
    BY <2>1, <2>2 DEF IInv
<1>3. CASE UNCHANGED vars
  <2>1. TypeOK'
    BY <1>3 DEF vars, database, enforcer, locals, IInv, TypeOK
  <2>2. \A q \in Proc : Own(q)' = Own(q)
    BY <1>3 DEF vars, locals, Own
  <2> QED
    BY <2>1, <2>2, FitsKept DEF IInv
<1> QED
  BY <1>1, <1>2, <1>3 DEF Next

THEOREM Invariance == Spec => []IInv
BY InitEstablishes, NextPreserves, PTL DEF Spec

-----------------------------------------------------------------------------
(* TypeOK: among others no handler grants a policy or links a pair that is *)
(* not one, and SyncRoles logs nothing but roles.                          *)
THEOREM TypeCorrect == Spec => []TypeOK
<1>1. IInv => TypeOK
  BY DEF IInv
<1> QED
  BY <1>1, Invariance, PTL

(* Users go by the commit of a deletion only, roles likewise.              *)
LEMMA OnlyCommitDeletes ==
  ASSUME IInv, [Next]_vars, users \ users' # {} \/ roles \ roles' # {}
  PROVE  \E p \in Proc : Commit(p)
<1>1. CASE Restart \/ UNCHANGED vars
  BY <1>1 DEF Restart, vars, database
<1>2. ASSUME NEW p \in Proc, Receive(p) \/ Step(p)
      PROVE  Commit(p)
  <2>1. CASE Receive(p) \/ Fail(p)
    BY <2>1 DEF Receive, Fail, database
  <2>2. CASE InsertUser(p) \/ UpdateUser(p) \/ InsertRole(p) \/ UpdateRole(p)
    BY <2>2 DEF InsertUser, UpdateUser, InsertRole, UpdateRole, database
  <2>3. CASE ResetRole(p) \/ AddRolePermission(p)
    BY <2>3 DEF ResetRole, AddRolePermission, database
  <2>4. CASE \/ BeginSync(p) \/ ReadCurrent(p) \/ RemoveRoleForUser(p) \/ DeleteRows(p)
             \/ InsertRow(p) \/ AddRoleForUser(p) \/ LogSync(p)
    BY <2>4 DEF BeginSync, ReadCurrent, RemoveRoleForUser, DeleteRows, InsertRow, AddRoleForUser,
        LogSync, database
  <2>5. CASE ReadUsers(p) \/ DeleteUser(p) \/ ReadRoles(p) \/ DeleteRoles(p) \/ RevokeRole(p)
    BY <2>5 DEF ReadUsers, DeleteUser, ReadRoles, DeleteRoles, RevokeRole, database
  <2> QED
    BY <1>2, <2>1, <2>2, <2>3, <2>4, <2>5 DEF Step, Advance
<1> QED
  BY <1>1, <1>2 DEF Next

(* DeleteIsWhole: user.Store.Delete and role.Store.Delete take all the rows*)
(* they found or addressed, never the admin's, or none, whatever fails.    *)
THEOREM DeletionIsWhole == Spec => DeleteIsWhole
<1>1. ASSUME IInv, [Next]_vars, users \ users' # {}
      PROVE  \E p \in Proc : /\ pc[p] = "commit"
                             /\ users \ users' = cur[p] \cap users
                             /\ 1 \notin cur[p]
  <2>1. PICK p \in Proc : Commit(p)
    BY <1>1, OnlyCommitDeletes
  <2>2. pc[p] = "commit" /\ req[p].op = "deleteUsers" /\ users' = users \ tx[p].gone
    BY <1>1, <2>1 DEF Commit
  <2>3. tx[p].gone = cur[p] /\ 1 \notin cur[p]
    BY <1>1, <2>2 DEF IInv, Fits, DeletionFits
  <2> QED
    BY <2>2, <2>3
<1>2. ASSUME IInv, [Next]_vars, roles \ roles' # {}
      PROVE  \E p \in Proc : /\ pc[p] = "commit"
                             /\ roles \ roles' = req[p].ids \cap roles
                             /\ 1 \notin req[p].ids
  <2>1. PICK p \in Proc : Commit(p)
    BY <1>2, OnlyCommitDeletes
  <2>2. pc[p] = "commit" /\ req[p].op = "deleteRoles" /\ roles' = roles \ tx[p].gone
    BY <1>2, <2>1 DEF Commit
  <2>3. tx[p].gone = req[p].ids /\ 1 \notin req[p].ids
    BY <1>2, <2>2 DEF IInv, Fits, DeletionFits
  <2> QED
    BY <2>2, <2>3
<1> QED
  BY <1>1, <1>2, Invariance, PTL DEF Spec, DeleteIsWhole

-----------------------------------------------------------------------------
(* Policies                                                                *)

(* What a request has in hand of policies, and of the roles it revokes.    *)
PolicyFits(p) ==
    /\ pc[p] = "idle" => req[p] = NoRequest
    /\ pc[p] # "grant" => grants[p] = {}
    /\ \A g \in grants[p] : g[1] = target[p]
    /\ pc[p] = "revoke" => todo[p] \subseteq req[p].ids

(* What two requests work on at once is suspect.                           *)
OverlapsAreSuspect ==
    \A p \in Proc : \A q \in Proc \ {p} : Busy(p) \cap Busy(q) \subseteq suspect

(* The policies there are and those about to come are closed downwards.    *)
Held == policies \cup UNION {grants[p] : p \in Proc}
HeldDownwards ==
    \A g \in Held : <<Policies, g[1]>> \notin suspect =>
        \A level \in Below(g[3]) : <<g[1], g[2], level>> \in Held

PolicyInv == (\A p \in Proc : PolicyFits(p)) /\ OverlapsAreSuspect /\ HeldDownwards

LEMMA IdleBusy == \A t : Footprint(NoRequest, t) = {}
BY DEF Footprint, NoRequest

LEMMA PolicyCells ==
  ASSUME IInv, NEW p \in Proc, NEW r \in RoleIds,
         \/ pc[p] \in {"reset", "grant"} /\ r = target[p]
         \/ pc[p] = "revoke" /\ r \in req[p].ids
  PROVE  <<Policies, r>> \in Busy(p)
<1>1. <<Policies, r>> \in Cells
  BY DEF Cells
<1>2. CASE pc[p] \in {"reset", "grant"} /\ r = target[p]
  <2>1. req[p].op \in {"createRole", "updateRole"}
    BY <1>2 DEF IInv, Fits, PlaceFits, RoleSide
  <2> QED
    BY <1>1, <1>2, <2>1 DEF Busy, Footprint
<1>3. CASE pc[p] = "revoke" /\ r \in req[p].ids
  <2>1. req[p].op = "deleteRoles"
    BY <1>3 DEF IInv, Fits, PlaceFits
  <2> QED
    BY <1>1, <1>3, <2>1 DEF Busy, Footprint
<1> QED
  BY <1>2, <1>3

(* The levels that SyncPermissions expands a level to bring theirs.        *)
LEMMA ExpandDownwards ==
  ASSUME NEW r, NEW perms, NEW g \in Expand(r, perms), NEW level \in Below(g[3])
  PROVE  <<g[1], g[2], level>> \in Expand(r, perms)
<1>1. PICK perm \in {q \in perms : q[2] # "none"} : g \in {r} \X {perm[1]} \X LevelsUpTo(perm[2])
  BY DEF Expand
<1>2. g[1] = r /\ g[2] = perm[1] /\ g[3] \in LevelsUpTo(perm[2])
  BY <1>1
<1>3. level \in LevelsUpTo(perm[2])
  BY <1>2 DEF LevelsUpTo, Levels, Below
<1>4. <<g[1], g[2], level>> \in {r} \X {perm[1]} \X LevelsUpTo(perm[2])
  BY <1>2, <1>3
<1> QED
  BY <1>1, <1>4 DEF Expand

(* A step of one request leaves what others work on and are to grant.      *)
LEMMA OthersGrants ==
  ASSUME IInv, NEW p \in Proc, NEW q \in Proc \ {p}, Receive(p) \/ Step(p)
  PROVE  /\ grants'[q] = grants[q] /\ Busy(q)' = Busy(q)
         /\ PolicyFits(q) => PolicyFits(q)'
<1>1. LocalsTyped /\ Own(q)' = Own(q)
  BY Split, OthersKept DEF IInv
<1>2. grants'[q] = grants[q]
  <2> USE <1>1 DEF LocalsTyped
  <2>1. CASE Receive(p)
    BY <2>1 DEF Receive
  <2>2. CASE Leave(p)
    BY <2>2 DEF Leave
  <2>3. CASE ~ Leave(p) /\ (InsertUser(p) \/ UpdateUser(p) \/ InsertRole(p) \/ UpdateRole(p))
    BY <2>3 DEF InsertUser, UpdateUser, InsertRole, UpdateRole, Prepared
  <2>4. CASE ~ Leave(p) /\ (ResetRole(p) \/ AddRolePermission(p))
    BY <2>4 DEF ResetRole, AddRolePermission
  <2>5. CASE \/ BeginSync(p) \/ ReadCurrent(p) \/ RemoveRoleForUser(p) \/ DeleteRows(p)
             \/ InsertRow(p) \/ AddRoleForUser(p) \/ LogSync(p)
    BY <2>5 DEF BeginSync, ReadCurrent, RemoveRoleForUser, DeleteRows, InsertRow, AddRoleForUser,
        LogSync
  <2>6. CASE ~ Leave(p) /\ (ReadUsers(p) \/ ReadRoles(p))
    BY <2>6 DEF ReadUsers, ReadRoles
  <2>7. CASE DeleteUser(p) \/ DeleteRoles(p) \/ RevokeRole(p)
    BY <2>7 DEF DeleteUser, DeleteRoles, RevokeRole
  <2>8. CASE Commit(p) \/ Fail(p)
    BY <2>2, <2>8 DEF Commit, Fail
  <2> QED
    BY <2>1, <2>2, <2>3, <2>4, <2>5, <2>6, <2>7, <2>8 DEF Step, Advance
<1>3. /\ pc'[q] = pc[q] /\ req'[q] = req[q] /\ target'[q] = target[q] /\ todo'[q] = todo[q]
  BY <1>1 DEF Own
<1> QED
  BY <1>2, <1>3 DEF Busy, PolicyFits

LEMMA ReturnPolicy ==
  ASSUME IInv, NEW p \in Proc, Return(p)
  PROVE  PolicyFits(p)' /\ Busy(p)' = {} /\ grants'[p] = {}
<1>1. pc'[p] = "idle" /\ req'[p] = NoRequest /\ grants'[p] = {}
  BY DEF IInv, TypeOK, Return, Leave
<1> QED
  BY <1>1, IdleBusy DEF PolicyFits, Busy

(* A step keeps what its request has in hand in order, and what is new of  *)
(* what it works on is suspect where another works on it.                  *)
PolicyStep(p) ==
    /\ PolicyFits(p)'
    /\ suspect \subseteq suspect'
    /\ Busy(p)' \cap Others(p) \subseteq Busy(p) \cup suspect'

LEMMA StepOfPolicies ==
  ASSUME IInv, NEW p \in Proc, PolicyFits(p), Receive(p) \/ Step(p)
  PROVE  PolicyStep(p)
<1> USE DEF PolicyStep
<1>0. LocalsTyped
  BY Split DEF IInv
<1>1. CASE Receive(p)
  <2>1. PICK r \in Requests :
          LET t == IF r.op \in {"updateUser", "updateRole"} THEN r.id ELSE 0
          IN /\ pc' = [pc EXCEPT ![p] = IF r.op \in DeleteOps THEN "read" ELSE "prepare"]
             /\ req' = [req EXCEPT ![p] = r]
             /\ target' = [target EXCEPT ![p] = t]
             /\ suspect' = suspect \cup (Footprint(r, t) \cap Others(p))
    BY <1>1 DEF Receive, DeleteOps
  <2>2. pc[p] = "idle" /\ grants' = grants
    BY <1>1 DEF Receive
  <2>3. /\ pc'[p] \in {"read", "prepare"} /\ req'[p] = r
        /\ target'[p] = IF r.op \in {"updateUser", "updateRole"} THEN r.id ELSE 0
    BY <1>0, <2>1 DEF LocalsTyped
  <2> QED
    BY <2>1, <2>2, <2>3 DEF PolicyFits, Busy
<1>2. ASSUME Leave(p), suspect \subseteq suspect' PROVE PolicyStep(p)
  BY <1>2, LeaveReturns, ReturnPolicy
<1>3. CASE InsertUser(p) \/ InsertRole(p)
  <2>1. PICK t \in Nat : /\ suspect' = suspect \cup (Footprint(req[p], t) \cap Others(p))
                         /\ Prepared(p, t) /\ pc[p] = "prepare"
    <3>1. nextUser \in Nat /\ nextRole \in Nat
      BY BoundsAssumption DEF IInv, TypeOK
    <3>2. CASE InsertUser(p)
      BY <3>1, <3>2 DEF InsertUser
    <3>3. CASE InsertRole(p)
      BY <3>1, <3>3 DEF InsertRole
    <3> QED
      BY <1>3, <3>2, <3>3
  <2>2. CASE ~ Leave(p)
    <3>1. /\ \/ pc' = [pc EXCEPT ![p] = "reset"]
             \/ pc' = [pc EXCEPT ![p] = "begin"]
          /\ target' = [target EXCEPT ![p] = t]
          /\ UNCHANGED <<req, grants>>
      BY <2>1, <2>2 DEF Prepared
    <3>2. pc'[p] \in {"reset", "begin"} /\ target'[p] = t /\ req'[p] = req[p]
      BY <1>0, <3>1 DEF LocalsTyped
    <3> QED
      BY <2>1, <3>1, <3>2 DEF PolicyFits, Busy
  <2> QED
    BY <1>2, <2>1, <2>2
<1>4. CASE UpdateUser(p) \/ UpdateRole(p)
  <2>1. UNCHANGED suspect /\ Prepared(p, target[p]) /\ pc[p] = "prepare"
    BY <1>4 DEF UpdateUser, UpdateRole
  <2>2. CASE ~ Leave(p)
    <3>1. /\ \/ pc' = [pc EXCEPT ![p] = "reset"]
             \/ pc' = [pc EXCEPT ![p] = "begin"]
          /\ target' = [target EXCEPT ![p] = target[p]]
          /\ UNCHANGED <<req, grants>>
      BY <2>1, <2>2 DEF Prepared
    <3>2. pc'[p] \in {"reset", "begin"} /\ target'[p] = target[p] /\ req'[p] = req[p]
      BY <1>0, <3>1 DEF LocalsTyped
    <3> QED
      BY <2>1, <3>1, <3>2 DEF PolicyFits, Busy
  <2> QED
    BY <1>2, <2>1, <2>2
<1>5. CASE ResetRole(p)
  <2>1. UNCHANGED suspect /\ pc[p] = "reset"
    BY <1>5 DEF ResetRole
  <2>2. CASE ~ Leave(p)
    <3>1. /\ UNCHANGED <<req, target>>
          /\ \/ /\ pc' = [pc EXCEPT ![p] = "grant"]
                /\ grants' = [grants EXCEPT ![p] = Expand(target[p], req[p].perms)]
             \/ pc' = [pc EXCEPT ![p] = "begin"] /\ UNCHANGED grants
      BY <1>5, <2>2 DEF ResetRole
    <3>2. /\ req'[p] = req[p] /\ target'[p] = target[p]
          /\ \/ pc'[p] = "grant" /\ grants'[p] = Expand(target[p], req[p].perms)
             \/ pc'[p] = "begin" /\ grants'[p] = {}
      BY <1>0, <2>1, <3>1 DEF LocalsTyped, PolicyFits
    <3>3. \A g \in Expand(target[p], req[p].perms) : g[1] = target[p]
      BY DEF Expand
    <3> QED
      BY <2>1, <3>2, <3>3 DEF PolicyFits, Busy
  <2> QED
    BY <1>2, <2>1, <2>2
<1>6. CASE AddRolePermission(p)
  <2>1. UNCHANGED suspect /\ pc[p] = "grant"
    BY <1>6 DEF AddRolePermission
  <2>2. CASE ~ Leave(p)
    <3>1. PICK g \in grants[p] :
            /\ UNCHANGED <<req, target>>
            /\ \/ UNCHANGED pc /\ grants' = [grants EXCEPT ![p] = @ \ {g}]
               \/ pc' = [pc EXCEPT ![p] = "begin"] /\ grants' = [grants EXCEPT ![p] = {}]
      BY <1>6, <2>2 DEF AddRolePermission
    <3>2. /\ req'[p] = req[p] /\ target'[p] = target[p]
          /\ \/ pc'[p] = "grant" /\ grants'[p] \subseteq grants[p]
             \/ pc'[p] = "begin" /\ grants'[p] = {}
      BY <1>0, <2>1, <3>1 DEF LocalsTyped
    <3> QED
      BY <2>1, <3>2 DEF PolicyFits, Busy
  <2> QED
    BY <1>2, <2>1, <2>2
<1>7. CASE \/ BeginSync(p) \/ ReadCurrent(p) \/ RemoveRoleForUser(p) \/ DeleteRows(p)
           \/ InsertRow(p) \/ AddRoleForUser(p) \/ LogSync(p) \/ DeleteUser(p)
  <2>1. /\ UNCHANGED <<req, target, grants, suspect>>
        /\ pc[p] \in {"begin", "current", "unlink", "clear", "insert", "link", "log", "delete"}
    BY <1>7 DEF BeginSync, ReadCurrent, RemoveRoleForUser, DeleteRows, InsertRow, AddRoleForUser,
        LogSync, DeleteUser
  <2>2. pc'[p] \in {"current", "clear", "unlink", "commit", "insert", "link", "log", "delete"}
    BY <1>0, <1>7
    DEF BeginSync, ReadCurrent, RemoveRoleForUser, DeleteRows, InsertRow, AddRoleForUser, LogSync,
        DeleteUser, AllInserted, LocalsTyped
  <2> QED
    BY <2>1, <2>2 DEF PolicyFits, Busy
<1>8. CASE ReadUsers(p) \/ ReadRoles(p)
  <2>1. UNCHANGED suspect /\ pc[p] = "read"
    BY <1>8 DEF ReadUsers, ReadRoles
  <2>2. CASE ~ Leave(p)
    <3>1. UNCHANGED <<req, target, grants>> /\ pc'[p] = "delete"
      BY <1>0, <1>8, <2>2 DEF ReadUsers, ReadRoles, LocalsTyped
    <3> QED
      BY <2>1, <3>1 DEF PolicyFits, Busy
  <2> QED
    BY <1>2, <2>1, <2>2
<1>9. CASE DeleteRoles(p)
  <2>1. UNCHANGED <<req, target, grants, suspect>> /\ pc[p] = "delete"
    BY <1>9 DEF DeleteRoles
  <2>2. pc'[p] = "revoke" /\ todo'[p] = req[p].ids
    BY <1>0, <1>9 DEF DeleteRoles, LocalsTyped
  <2> QED
    BY <2>1, <2>2 DEF PolicyFits, Busy
<1>10. CASE RevokeRole(p)
  <2>1. UNCHANGED <<req, target, grants, suspect>> /\ pc[p] = "revoke"
    BY <1>10 DEF RevokeRole
  <2>2. pc'[p] \in {"revoke", "commit"} /\ todo'[p] \subseteq todo[p]
    BY <1>0, <1>10 DEF RevokeRole, LocalsTyped
  <2> QED
    BY <2>1, <2>2 DEF PolicyFits, Busy
<1>11. CASE Commit(p) \/ Fail(p)
  BY <1>2, <1>11 DEF Commit, Fail
<1> QED
  BY <1>1, <1>3, <1>4, <1>5, <1>6, <1>7, <1>8, <1>9, <1>10, <1>11 DEF Step, Advance


(* The policies that are there, or about to come, after a step.            *)
LEMMA HeldAfter ==
  ASSUME IInv, PolicyInv, NEW p \in Proc, Receive(p) \/ Step(p)
  PROVE  \/ Held' = Held
         \/ /\ pc[p] = "reset"
            /\ policies' = {g \in policies : g[1] # target[p]}
            /\ grants'[p] \in {{}, Expand(target[p], req[p].perms)}
         \/ /\ pc[p] = "revoke" /\ UNCHANGED grants
            /\ \E r \in req[p].ids \cap RoleIds : policies' = {g \in policies : g[1] # r}
<1>0. /\ LocalsTyped /\ TablesTyped /\ PolicyFits(p)
      /\ \A q \in Proc \ {p} : grants'[q] = grants[q]
  BY Split, OthersGrants DEF IInv, PolicyInv
<1>1. CASE ResetRole(p)
  <2>1. pc[p] = "reset" /\ policies' = {g \in policies : g[1] # target[p]} /\ grants[p] = {}
    BY <1>0, <1>1 DEF ResetRole, PolicyFits
  <2>2. CASE Leave(p)
    BY <2>1, <2>2, LeaveReturns, ReturnPolicy
  <2>3. CASE ~ Leave(p)
    BY <1>0, <1>1, <2>1, <2>3 DEF ResetRole, LocalsTyped
  <2> QED
    BY <2>1, <2>2, <2>3
<1>2. CASE RevokeRole(p)
  <2>1. pc[p] = "revoke" /\ UNCHANGED grants
    BY <1>2 DEF RevokeRole
  <2>2. PICK r \in todo[p] : policies' = {g \in policies : g[1] # r}
    BY <1>2 DEF RevokeRole
  <2>3. r \in req[p].ids
    BY <1>0, <2>1, <2>2 DEF PolicyFits
  <2>4. CASE r \in RoleIds
    BY <2>1, <2>2, <2>3, <2>4
  <2>5. CASE r \notin RoleIds
    <3>1. policies' = policies
      BY <1>0, <2>2, <2>5 DEF TablesTyped
    <3> QED
      BY <2>1, <3>1 DEF Held
  <2> QED
    BY <2>4, <2>5
<1>3. CASE AddRolePermission(p)
  <2>1. PICK g \in grants[p] :
          /\ policies' = policies \cup {g}
          /\ grants'[p] = grants[p] \ {g}
    <3>1. PICK g \in grants[p] :
            /\ policies' = policies \cup {g}
            /\ IF grants[p] # {g}
               THEN grants' = [grants EXCEPT ![p] = @ \ {g}]
               ELSE grants' = [grants EXCEPT ![p] = {}]
      BY <1>3 DEF AddRolePermission, Leave
    <3> QED
      BY <1>0, <3>1 DEF LocalsTyped
  <2> QED
    BY <1>0, <2>1 DEF Held
<1>4. CASE ~ (ResetRole(p) \/ RevokeRole(p) \/ AddRolePermission(p))
  <2>1. policies' = policies
    <3>1. CASE Receive(p) \/ Commit(p) \/ Fail(p)
      BY <3>1 DEF Receive, Commit, Fail, enforcer
    <3>2. CASE InsertUser(p) \/ UpdateUser(p) \/ InsertRole(p) \/ UpdateRole(p)
      BY <3>2 DEF InsertUser, UpdateUser, InsertRole, UpdateRole, enforcer
    <3>3. CASE \/ BeginSync(p) \/ ReadCurrent(p) \/ RemoveRoleForUser(p) \/ DeleteRows(p)
               \/ InsertRow(p) \/ AddRoleForUser(p) \/ LogSync(p)
      BY <3>3 DEF BeginSync, ReadCurrent, RemoveRoleForUser, DeleteRows, InsertRow,
          AddRoleForUser, LogSync, enforcer
    <3>4. CASE ReadUsers(p) \/ DeleteUser(p) \/ ReadRoles(p) \/ DeleteRoles(p)
      BY <3>4 DEF ReadUsers, DeleteUser, ReadRoles, DeleteRoles, enforcer
    <3> QED
      BY <1>4, <3>1, <3>2, <3>3, <3>4 DEF Step, Advance
  <2>2. grants'[p] = grants[p]
    <3>1. CASE Leave(p) /\ pc[p] # "grant"
      BY <1>0, <3>1, LeaveReturns, ReturnPolicy DEF PolicyFits
    <3>2. CASE Receive(p)
      BY <3>2 DEF Receive
    <3>3. CASE Commit(p) \/ Fail(p)
      BY <3>1, <3>3 DEF Commit, Fail, Fallible
    <3>4. CASE InsertUser(p) \/ UpdateUser(p) \/ InsertRole(p) \/ UpdateRole(p)
      BY <3>1, <3>4 DEF InsertUser, UpdateUser, InsertRole, UpdateRole, Prepared
    <3>5. CASE \/ BeginSync(p) \/ ReadCurrent(p) \/ RemoveRoleForUser(p) \/ DeleteRows(p)
               \/ InsertRow(p) \/ AddRoleForUser(p) \/ LogSync(p)
      BY <3>5 DEF BeginSync, ReadCurrent, RemoveRoleForUser, DeleteRows, InsertRow,
          AddRoleForUser, LogSync
    <3>6. CASE ReadUsers(p) \/ DeleteUser(p) \/ ReadRoles(p) \/ DeleteRoles(p)
      BY <3>1, <3>6 DEF ReadUsers, DeleteUser, ReadRoles, DeleteRoles
    <3> QED
      BY <1>4, <3>2, <3>3, <3>4, <3>5, <3>6 DEF Step, Advance
  <2> QED
    BY <1>0, <2>1, <2>2 DEF Held
<1> QED
  BY <1>1, <1>2, <1>3, <1>4

(* Nobody else has anything to grant to a role that p works on, unless the *)
(* role is suspect.                                                        *)
LEMMA OthersGrantNothing ==
  ASSUME IInv, PolicyInv, NEW p \in Proc, NEW q \in Proc \ {p}, NEW r \in RoleIds,
         <<Policies, r>> \in Busy(p), <<Policies, r>> \notin suspect,
         NEW g \in grants[q]
  PROVE  g[1] # r
<1>1. pc[q] = "grant" /\ g[1] = target[q]
  BY DEF PolicyInv, PolicyFits
<1>2. g[1] = r => <<Policies, r>> \in Busy(q)
  BY <1>1, PolicyCells
<1> QED
  BY <1>2 DEF PolicyInv, OverlapsAreSuspect

LEMMA HeldStep ==
  ASSUME IInv, PolicyInv, NEW p \in Proc, Receive(p) \/ Step(p)
  PROVE  HeldDownwards'
<1>0. /\ LocalsTyped /\ TablesTyped /\ suspect \subseteq suspect' /\ HeldDownwards
      /\ \A q \in Proc \ {p} : grants'[q] = grants[q]
  BY Split, OthersGrants, StepOfPolicies DEF IInv, PolicyInv, PolicyStep
<1>1. CASE Held' = Held
  BY <1>0, <1>1 DEF HeldDownwards
<1>2. CASE /\ pc[p] = "reset"
           /\ policies' = {g \in policies : g[1] # target[p]}
           /\ grants'[p] \in {{}, Expand(target[p], req[p].perms)}
  <2>1. /\ target[p] \in RoleIds /\ grants[p] = {}
        /\ <<Policies, target[p]>> \in Busy(p)
    BY <1>2, PolicyCells DEF IInv, Fits, PlaceFits, PolicyInv, PolicyFits
  <2> SUFFICES ASSUME NEW g \in Held', <<Policies, g[1]>> \notin suspect', NEW level \in Below(g[3])
               PROVE  <<g[1], g[2], level>> \in Held'
    BY DEF HeldDownwards
  <2>2. CASE g \in grants'[p]
    <3>1. <<g[1], g[2], level>> \in grants'[p]
      BY <1>2, <2>2, ExpandDownwards
    <3> QED
      BY <3>1 DEF Held
  <2>3. CASE g \notin grants'[p]
    <3>1. g \in Held
      BY <1>0, <1>2, <2>3 DEF Held
    <3>2. <<g[1], g[2], level>> \in Held
      BY <1>0, <3>1 DEF HeldDownwards
    <3>3. g[1] # target[p]
      <4>1. CASE g \in policies'
        BY <1>2, <4>1
      <4>2. CASE \E q \in Proc \ {p} : g \in grants[q]
        BY <1>0, <2>1, <4>2, OthersGrantNothing
      <4> QED
        BY <1>0, <2>3, <4>1, <4>2 DEF Held
    <3>4. CASE <<g[1], g[2], level>> \in policies
      BY <1>2, <3>3, <3>4 DEF Held
    <3>5. CASE \E q \in Proc : <<g[1], g[2], level>> \in grants[q]
      BY <1>0, <2>1, <3>5 DEF Held
    <3> QED
      BY <3>2, <3>4, <3>5 DEF Held
  <2> QED
    BY <2>2, <2>3
<1>3. CASE /\ pc[p] = "revoke" /\ UNCHANGED grants
           /\ \E r \in req[p].ids \cap RoleIds : policies' = {g \in policies : g[1] # r}
  <2>1. PICK r \in req[p].ids \cap RoleIds : policies' = {g \in policies : g[1] # r}
    BY <1>3
  <2>2. <<Policies, r>> \in Busy(p) /\ grants[p] = {}
    BY <1>3, PolicyCells DEF PolicyInv, PolicyFits
  <2> SUFFICES ASSUME NEW g \in Held', <<Policies, g[1]>> \notin suspect', NEW level \in Below(g[3])
               PROVE  <<g[1], g[2], level>> \in Held'
    BY DEF HeldDownwards
  <2>3. g \in Held
    BY <1>3, <2>1 DEF Held
  <2>4. <<g[1], g[2], level>> \in Held
    BY <1>0, <2>3 DEF HeldDownwards
  <2>5. g[1] # r
    <3>1. CASE g \in policies'
      BY <2>1, <3>1
    <3>2. CASE \E q \in Proc : g \in grants[q]
      BY <1>0, <2>2, <3>2, OthersGrantNothing
    <3> QED
      BY <1>3, <3>1, <3>2 DEF Held
  <2> QED
    BY <1>3, <2>1, <2>4, <2>5 DEF Held
<1> QED
  BY <1>1, <1>2, <1>3, HeldAfter

LEMMA PolicyNext == IInv /\ PolicyInv /\ [Next]_vars => PolicyInv'
<1> SUFFICES ASSUME IInv, PolicyInv, [Next]_vars
             PROVE  PolicyInv'
  OBVIOUS
<1>1. ASSUME NEW p \in Proc, Receive(p) \/ Step(p)
      PROVE  PolicyInv'
  <2>1. PolicyStep(p)
    BY <1>1, StepOfPolicies DEF PolicyInv
  <2>2. \A q \in Proc \ {p} : PolicyFits(q)' /\ Busy(q)' = Busy(q)
    BY <1>1, OthersGrants DEF PolicyInv
  <2>3. OverlapsAreSuspect'
    <3> SUFFICES ASSUME NEW a \in Proc, NEW b \in Proc \ {a}
                 PROVE  Busy(a)' \cap Busy(b)' \subseteq suspect'
      BY DEF OverlapsAreSuspect
    <3>1. Busy(a) \cap Busy(b) \subseteq suspect /\ suspect \subseteq suspect'
      BY <2>1 DEF PolicyInv, OverlapsAreSuspect, PolicyStep
    <3>2. ASSUME NEW q \in Proc \ {p} PROVE Busy(q) \subseteq Others(p)
      BY DEF Others
    <3>3. CASE a = p
      BY <2>1, <2>2, <3>1, <3>2, <3>3 DEF PolicyStep
    <3>4. CASE b = p
      BY <2>1, <2>2, <3>1, <3>2, <3>4 DEF PolicyStep
    <3>5. CASE a # p /\ b # p
      BY <2>2, <3>1, <3>5
    <3> QED
      BY <3>3, <3>4, <3>5
  <2>4. HeldDownwards'
    BY <1>1, HeldStep
  <2> QED
    BY <2>1, <2>2, <2>3, <2>4 DEF PolicyInv, PolicyStep
<1>2. CASE Restart
  <2>1. \A p \in Proc : PolicyFits(p)' /\ Busy(p)' = {} /\ grants'[p] = {}
    BY <1>2, IdleBusy DEF Restart, PolicyFits, Busy
  <2>2. OverlapsAreSuspect'
    BY <2>1 DEF OverlapsAreSuspect
  <2>3. HeldDownwards'
    <3> SUFFICES ASSUME NEW g \in policies, <<Policies, g[1]>> \notin suspect', NEW level \in Below(g[3])
                 PROVE  <<g[1], g[2], level>> \in policies
      BY <1>2, <2>1 DEF HeldDownwards, Held, Restart
    <3>1. suspect \subseteq suspect'
      BY <1>2 DEF Restart
    <3>2. <<g[1], g[2], level>> \in Held
      BY <3>1 DEF PolicyInv, HeldDownwards, Held
    <3>3. ASSUME NEW p \in Proc, <<g[1], g[2], level>> \in grants[p] PROVE FALSE
      <4>1. pc[p] = "grant" /\ g[1] = target[p]
        BY <3>3 DEF PolicyInv, PolicyFits
      <4>2. g[1] \in RoleIds
        BY DEF IInv, TypeOK
      <4>3. <<Policies, g[1]>> \in Busy(p)
        BY <4>1, <4>2, PolicyCells
      <4>4. Busy(p) \subseteq suspect'
        BY <1>2, <4>1 DEF Restart, EnforcerTouched
      <4> QED
        BY <4>3, <4>4
    <3> QED
      BY <3>2, <3>3 DEF Held
  <2> QED
    BY <2>1, <2>2, <2>3 DEF PolicyInv
<1>3. CASE UNCHANGED vars
  BY <1>3 DEF vars, enforcer, locals, PolicyInv, PolicyFits, OverlapsAreSuspect, HeldDownwards,
             Held, Busy
<1> QED
  BY <1>1, <1>2, <1>3 DEF Next

LEMMA PolicyInit == Init => PolicyInv
<1> SUFFICES ASSUME Init PROVE PolicyInv
  OBVIOUS
<1>1. \A p \in Proc : PolicyFits(p) /\ Busy(p) = {}
  BY IdleBusy DEF Init, PolicyFits, Busy
<1> QED
  BY <1>1 DEF Init, PolicyInv, OverlapsAreSuspect, HeldDownwards, Held

(* LowerLevelsPresent: whatever the order in which SyncPermissions adds    *)
(* the policies of a role, whoever changes other roles meanwhile, and      *)
(* whatever fails, a level comes with the levels below it, unless requests *)
(* on one role overlap or a restart ends one of them in the middle.        *)
THEOREM LevelsComeWhole == Spec => []LowerLevelsPresent
<1>1. ASSUME IInv, PolicyInv PROVE LowerLevelsPresent
  <2> SUFFICES ASSUME NEW g \in policies, <<Policies, g[1]>> \notin suspect \cup Busied,
                      NEW level \in Below(g[3])
               PROVE  <<g[1], g[2], level>> \in policies
    BY DEF LowerLevelsPresent
  <2>1. <<g[1], g[2], level>> \in Held /\ g[1] \in RoleIds
    BY <1>1 DEF PolicyInv, HeldDownwards, Held, IInv, TypeOK
  <2>2. ASSUME NEW p \in Proc, <<g[1], g[2], level>> \in grants[p] PROVE FALSE
    <3>1. pc[p] = "grant" /\ g[1] = target[p]
      BY <1>1, <2>2 DEF PolicyInv, PolicyFits
    <3> QED
      BY <1>1, <2>1, <3>1, PolicyCells DEF Busied
  <2> QED
    BY <2>1, <2>2 DEF Held
<1> QED
  BY <1>1, InitEstablishes, NextPreserves, PolicyInit, PolicyNext, PTL DEF Spec

-----------------------------------------------------------------------------
(* The audit log                                                           *)

(* The users that entries of a kind name.                                  *)
UsersIn(log, action) == {log[i].user : i \in {j \in DOMAIN log : log[j].action = action}}

(* The entries of a transaction tell of the users it deletes, who exist or *)
(* did exist, and of no other life.                                        *)
LogFits(p) ==
    /\ UsersIn(tx[p].log, "created") = {}
    /\ IF req[p].op = "deleteUsers" /\ pc[p] \in {"delete", "commit"}
       THEN UsersIn(tx[p].log, "deleted") = tx[p].gone /\ cur[p] \subseteq 1..(nextUser - 1)
       ELSE UsersIn(tx[p].log, "deleted") = {}

LogInv ==
    /\ \A p \in Proc : LogFits(p)
    /\ InitialUsers < nextUser /\ users \subseteq 1..(nextUser - 1)
    /\ LogMatchesUsers

LEMMA RangeGrows ==
  ASSUME NEW m \in Nat, NEW n \in Nat, m <= n
  PROVE  1..(m - 1) \subseteq 1..(n - 1)
OBVIOUS

LEMMA UsersInNothing == \A a : UsersIn(<<>>, a) = {}
BY DEF UsersIn

LEMMA UsersInConcat ==
  ASSUME NEW s \in Seq(AuditEntry), NEW t \in Seq(AuditEntry), NEW a
  PROVE  UsersIn(s \o t, a) = UsersIn(s, a) \cup UsersIn(t, a)
<1>1. /\ Len(s) \in Nat /\ Len(t) \in Nat /\ DOMAIN s = 1..Len(s) /\ DOMAIN t = 1..Len(t)
      /\ DOMAIN (s \o t) = 1..(Len(s) + Len(t))
  OBVIOUS
<1>2. \A i \in DOMAIN s : i \in DOMAIN (s \o t) /\ (s \o t)[i] = s[i]
  BY <1>1
<1>3. \A i \in DOMAIN t : Len(s) + i \in DOMAIN (s \o t) /\ (s \o t)[Len(s) + i] = t[i]
  BY <1>1
<1>4. ASSUME NEW i \in DOMAIN (s \o t)
      PROVE  \/ i \in DOMAIN s /\ (s \o t)[i] = s[i]
             \/ i - Len(s) \in DOMAIN t /\ (s \o t)[i] = t[i - Len(s)]
  BY <1>1, <1>4
<1>5. UsersIn(s \o t, a) \subseteq UsersIn(s, a) \cup UsersIn(t, a)
  BY <1>4 DEF UsersIn
<1>6. UsersIn(s, a) \cup UsersIn(t, a) \subseteq UsersIn(s \o t, a)
  BY <1>2, <1>3 DEF UsersIn
<1> QED
  BY <1>5, <1>6

LEMMA UsersInAppend ==
  ASSUME NEW s \in Seq(AuditEntry), NEW e \in AuditEntry, NEW a
  PROVE  /\ e.action = a => UsersIn(Append(s, e), a) = UsersIn(s, a) \cup {e.user}
         /\ e.action # a => UsersIn(Append(s, e), a) = UsersIn(s, a)
<1>1. /\ Len(s) \in Nat /\ DOMAIN s = 1..Len(s) /\ DOMAIN Append(s, e) = 1..(Len(s) + 1)
      /\ Append(s, e)[Len(s) + 1] = e
      /\ \A i \in DOMAIN s : Append(s, e)[i] = s[i]
  OBVIOUS
<1>2. DOMAIN Append(s, e) = DOMAIN s \cup {Len(s) + 1}
  BY <1>1
<1> HIDE DEF UsersIn
<1>3. /\ UsersIn(Append(s, e), a) \subseteq UsersIn(s, a) \cup {e.user}
      /\ e.action # a => UsersIn(Append(s, e), a) \subseteq UsersIn(s, a)
  BY <1>1, <1>2 DEF UsersIn
<1>4. UsersIn(s, a) \subseteq UsersIn(Append(s, e), a)
  BY <1>1, <1>2 DEF UsersIn
<1>5. e.action = a => e.user \in UsersIn(Append(s, e), a)
  BY <1>1, <1>2 DEF UsersIn
<1> QED
  BY <1>3, <1>4, <1>5

LEMMA LogsOfUsers ==
  ASSUME IInv
  PROVE  /\ DeletedInLog = UsersIn(audit, "deleted") /\ CreatedInLog = UsersIn(audit, "created")
         /\ audit \in Seq(AuditEntry) /\ nextUser \in Nat /\ InitialUsers \in Nat
         /\ \A p \in Proc : tx[p] \in Transaction /\ tx[p].log \in Seq(AuditEntry)
<1>1. audit \in Seq(AuditEntry) /\ nextUser \in Nat /\ InitialUsers \in Nat
  BY BoundsAssumption DEF IInv, TypeOK
<1>2. \A p \in Proc : tx[p] \in Transaction /\ tx[p].log \in Seq(AuditEntry)
  BY DEF IInv, TypeOK, Transaction
<1> QED
  BY <1>1, <1>2 DEF DeletedInLog, CreatedInLog, UsersIn

LEMMA ReturnLog ==
  ASSUME IInv, NEW p \in Proc, Return(p)
  PROVE  LogFits(p)'
<1>1. pc'[p] = "idle" /\ tx'[p] = NoTx
  BY DEF IInv, TypeOK, Return, Leave
<1> QED
  BY <1>1, UsersInNothing DEF LogFits, NoTx

(* The transaction of a request before and after a step of it.             *)
LEMMA StepOfLog ==
  ASSUME IInv, LogInv, NEW p \in Proc, Receive(p) \/ Step(p)
  PROVE  LogFits(p)'
<1>0. LocalsTyped /\ LogFits(p) /\ PlaceFits(p) /\ nextUser \in Nat
  BY Split, LogsOfUsers DEF IInv, LogInv, Fits
<1>1. CASE Receive(p)
  <2>1. pc[p] = "idle" /\ UNCHANGED tx /\ pc'[p] \in {"read", "prepare"}
    BY <1>0, <1>1 DEF Receive, LocalsTyped
  <2> QED
    BY <1>0, <2>1 DEF LogFits
<1>2. CASE Leave(p)
  BY <1>2, LeaveReturns, ReturnLog
<1>3. CASE ~ Leave(p) /\ (InsertUser(p) \/ UpdateUser(p) \/ InsertRole(p) \/ UpdateRole(p))
  <2>1. pc[p] = "prepare" /\ UNCHANGED <<req, tx>> /\ pc'[p] \in {"reset", "begin"}
    BY <1>0, <1>3 DEF InsertUser, UpdateUser, InsertRole, UpdateRole, Prepared, LocalsTyped
  <2> QED
    BY <1>0, <2>1 DEF LogFits
<1>4. CASE ~ Leave(p) /\ (ResetRole(p) \/ AddRolePermission(p))
  <2>1. pc[p] \in {"reset", "grant"} /\ UNCHANGED <<req, tx>> /\ pc'[p] \in {"grant", "begin"}
    BY <1>0, <1>4 DEF ResetRole, AddRolePermission, LocalsTyped
  <2> QED
    BY <1>0, <2>1 DEF LogFits
<1>5. CASE BeginSync(p)
  <2>1. pc[p] = "begin" /\ tx'[p] = Begin /\ UNCHANGED req
    BY <1>0, <1>5 DEF BeginSync, LocalsTyped
  <2>2. tx'[p].log = <<>> /\ req[p].op # "deleteUsers"
    BY <1>0, <2>1 DEF Begin, NoTx, PlaceFits, DeleteOps
  <2> QED
    BY <2>1, <2>2, UsersInNothing DEF LogFits
<1>6. CASE \/ ReadCurrent(p) \/ RemoveRoleForUser(p) \/ AddRoleForUser(p)
           \/ DeleteRows(p) \/ InsertRow(p)
  <2>1. pc[p] \in {"current", "unlink", "link", "clear", "insert"} /\ UNCHANGED req
    BY <1>6 DEF ReadCurrent, RemoveRoleForUser, AddRoleForUser, DeleteRows, InsertRow
  <2>2. tx'[p].log = tx[p].log
    <3>1. CASE ReadCurrent(p) \/ RemoveRoleForUser(p) \/ AddRoleForUser(p)
      BY <3>1 DEF ReadCurrent, RemoveRoleForUser, AddRoleForUser
    <3>2. CASE DeleteRows(p)
      BY <1>0, <3>2 DEF DeleteRows, LocalsTyped, Transaction
    <3>3. CASE InsertRow(p)
      BY <1>0, <3>3 DEF InsertRow, LocalsTyped, Transaction
    <3> QED
      BY <1>6, <3>1, <3>2, <3>3
  <2>3. req[p].op # "deleteUsers"
    BY <1>0, <2>1 DEF PlaceFits, DeleteOps
  <2> QED
    BY <1>0, <2>1, <2>2, <2>3 DEF LogFits
<1>6a. CASE LogSync(p)
  <2>1. pc[p] = "log" /\ UNCHANGED req /\ req[p].op # "deleteUsers"
    BY <1>0, <1>6a DEF LogSync, PlaceFits, DeleteOps
  <2>2. tx[p].log \in Seq(AuditEntry) /\ tx'[p].log = Append(tx[p].log, SyncEntry(p))
    BY <1>0, <1>6a DEF LogSync, LocalsTyped, Transaction
  <2>3. SyncEntry(p) \in AuditEntry /\ SyncEntry(p).action = "roles"
    BY <2>1, SyncEntryTyped
  <2>4. /\ UsersIn(tx'[p].log, "created") = UsersIn(tx[p].log, "created")
        /\ UsersIn(tx'[p].log, "deleted") = UsersIn(tx[p].log, "deleted")
    BY <2>2, <2>3, UsersInAppend
  <2> QED
    BY <1>0, <2>1, <2>4 DEF LogFits
<1>7. CASE ReadUsers(p) /\ ~ Leave(p)
  <2>1. /\ UNCHANGED <<req, nextUser>> /\ cur'[p] \subseteq users /\ tx'[p] = Begin
        /\ pc'[p] = "delete"
    BY <1>0, <1>7 DEF ReadUsers, LocalsTyped, database
  <2>2. tx'[p].log = <<>> /\ tx'[p].gone = {}
    BY <2>1 DEF Begin, NoTx
  <2> QED
    BY <2>1, <2>2, UsersInNothing DEF LogFits, LogInv
<1>8. CASE DeleteUser(p)
  <2>1. /\ pc[p] = "delete" /\ req[p].op = "deleteUsers" /\ UNCHANGED <<req, cur, nextUser>>
        /\ pc'[p] \in {"commit", "delete"}
    BY <1>0, <1>8 DEF DeleteUser, LocalsTyped, database
  <2>2. PICK u \in todo[p] : tx' = [tx EXCEPT ![p] = DeleteEntity(@, u)]
    BY <1>8 DEF DeleteUser
  <2>3. u \in cur[p]
    BY <2>1, <2>2 DEF IInv, Fits, DeletionFits
  <2>4. u \in Nat
    BY <1>0, <2>1, <2>3 DEF LogFits
  <2> DEFINE e == Entry(0, "deleted", u, {}, {})
  <2>5. e \in AuditEntry /\ e.action = "deleted" /\ e.user = u
    BY <2>4, EntryTyped DEF Entry
  <2>6. tx[p] \in Transaction /\ tx[p].log \in Seq(AuditEntry)
    BY LogsOfUsers
  <2>7. tx'[p].gone = tx[p].gone \cup {u} /\ tx'[p].log = Append(tx[p].log, e)
    BY <1>0, <2>2, <2>6 DEF DeleteEntity, LocalsTyped, Transaction
  <2> HIDE DEF e
  <2>8. /\ UsersIn(tx'[p].log, "deleted") = tx'[p].gone
        /\ UsersIn(tx'[p].log, "created") = {}
    BY <1>0, <2>1, <2>5, <2>6, <2>7, UsersInAppend DEF LogFits
  <2> QED
    BY <1>0, <2>1, <2>8 DEF LogFits
<1>9. CASE (ReadRoles(p) \/ DeleteRoles(p) \/ RevokeRole(p)) /\ ~ Leave(p)
  <2>1. UNCHANGED req /\ req[p].op = "deleteRoles"
    BY <1>0, <1>9 DEF ReadRoles, DeleteRoles, RevokeRole, PlaceFits
  <2>2. tx'[p].log \in {<<>>, tx[p].log}
    <3>1. CASE ReadRoles(p)
      BY <1>0, <1>9, <3>1 DEF ReadRoles, LocalsTyped, Begin, NoTx
    <3>2. CASE DeleteRoles(p)
      BY <1>0, <3>2 DEF DeleteRoles, LocalsTyped, Transaction
    <3>3. CASE RevokeRole(p)
      BY <3>3 DEF RevokeRole
    <3> QED
      BY <1>9, <3>1, <3>2, <3>3
  <2> QED
    BY <1>0, <2>1, <2>2, UsersInNothing DEF LogFits
<1>10. CASE Commit(p) \/ Fail(p)
  BY <1>10, LeaveReturns, ReturnLog DEF Commit, Fail
<1> QED
  BY <1>1, <1>2, <1>3, <1>4, <1>5, <1>6, <1>6a, <1>7, <1>8, <1>9, <1>10 DEF Step, Advance

(* Lives begin with InsertUser and end with the commit of a deletion.      *)
LEMMA StepOfLives ==
  ASSUME IInv, LogInv, NEW p \in Proc, Receive(p) \/ Step(p)
  PROVE  /\ nextUser <= nextUser' /\ nextUser' \in Nat /\ users' \subseteq 1..(nextUser' - 1)
         /\ (1..(nextUser' - 1)) \ users' = UsersIn(audit', "deleted")
         /\ (InitialUsers + 1)..(nextUser' - 1) = UsersIn(audit', "created")
<1>0. /\ audit \in Seq(AuditEntry) /\ nextUser \in Nat /\ InitialUsers \in Nat
      /\ InitialUsers < nextUser /\ users \subseteq 1..(nextUser - 1)
      /\ (1..(nextUser - 1)) \ users = UsersIn(audit, "deleted")
      /\ (InitialUsers + 1)..(nextUser - 1) = UsersIn(audit, "created")
  BY LogsOfUsers DEF LogInv, LogMatchesUsers
<1>1. CASE InsertUser(p)
  <2> DEFINE e == Entry(0, "created", nextUser, {}, {})
  <2>1. /\ users' = users \cup {nextUser} /\ nextUser' = nextUser + 1 /\ audit' = Append(audit, e)
    BY <1>1 DEF InsertUser
  <2>2. e \in AuditEntry /\ e.action = "created" /\ e.user = nextUser
    BY <1>0, EntryTyped DEF Entry
  <2> HIDE DEF e
  <2>3. /\ UsersIn(audit', "deleted") = UsersIn(audit, "deleted")
        /\ UsersIn(audit', "created") = UsersIn(audit, "created") \cup {nextUser}
    <3>1. /\ UsersIn(Append(audit, e), "deleted") = UsersIn(audit, "deleted")
          /\ UsersIn(Append(audit, e), "created") = UsersIn(audit, "created") \cup {nextUser}
      BY <1>0, <2>2, UsersInAppend
    <3> QED
      BY <2>1, <3>1
  <2>4. 1..(nextUser' - 1) = 1..(nextUser - 1) \cup {nextUser} /\ nextUser \notin 1..(nextUser - 1)
    BY <1>0, <2>1
  <2>5. (InitialUsers + 1)..(nextUser' - 1) = (InitialUsers + 1)..(nextUser - 1) \cup {nextUser}
    BY <1>0, <2>1
  <2>6. /\ users' \subseteq 1..(nextUser' - 1)
        /\ (1..(nextUser' - 1)) \ users' = (1..(nextUser - 1)) \ users
    BY <1>0, <2>1, <2>4
  <2> QED
    <3>1. nextUser <= nextUser' /\ nextUser' \in Nat
      BY <1>0, <2>1
    <3>2. (1..(nextUser' - 1)) \ users' = UsersIn(audit', "deleted")
      BY <1>0, <2>3, <2>6
    <3>3. (InitialUsers + 1)..(nextUser' - 1) = UsersIn(audit', "created")
      BY <1>0, <2>3, <2>5
    <3> QED
      BY <2>6, <3>1, <3>2, <3>3
<1>2. CASE Commit(p)
  <2>1. /\ UNCHANGED nextUser /\ audit' = audit \o tx[p].log /\ pc[p] = "commit"
        /\ users' = IF req[p].op = "deleteUsers" THEN users \ tx[p].gone ELSE users
    BY <1>2 DEF Commit
  <2>2. LogFits(p) /\ tx[p].log \in Seq(AuditEntry)
    BY LogsOfUsers DEF LogInv
  <2>4. /\ UsersIn(audit', "created") = UsersIn(audit, "created")
        /\ UsersIn(audit', "deleted") = UsersIn(audit, "deleted") \cup UsersIn(tx[p].log, "deleted")
    <3>1. \A a : UsersIn(audit \o tx[p].log, a) = UsersIn(audit, a) \cup UsersIn(tx[p].log, a)
      BY <1>0, <2>2, UsersInConcat
    <3> QED
      BY <2>1, <2>2, <3>1 DEF LogFits
  <2>5. CASE req[p].op = "deleteUsers"
    <3>1. UsersIn(tx[p].log, "deleted") = tx[p].gone /\ cur[p] \subseteq 1..(nextUser - 1)
      BY <2>1, <2>2, <2>5 DEF LogFits
    <3>2. tx[p].gone \subseteq cur[p]
      BY <2>1, <2>5 DEF IInv, Fits, DeletionFits
    <3>3. users' = users \ tx[p].gone /\ tx[p].gone \subseteq 1..(nextUser - 1)
      BY <2>1, <2>5, <3>1, <3>2
    <3>4. (1..(nextUser - 1)) \ users' = ((1..(nextUser - 1)) \ users) \cup tx[p].gone
      BY <3>3
    <3>5. users' \subseteq 1..(nextUser - 1)
      BY <1>0, <3>3
    <3> QED
      BY <1>0, <2>1, <2>4, <3>1, <3>4, <3>5
  <2>6. CASE req[p].op # "deleteUsers"
    BY <1>0, <2>1, <2>2, <2>4, <2>6 DEF LogFits
  <2> QED
    BY <2>5, <2>6
<1>3. CASE ~ (InsertUser(p) \/ Commit(p))
  <2>1. UNCHANGED <<users, audit, nextUser>>
    <3>1. CASE Receive(p) \/ Fail(p)
      BY <3>1 DEF Receive, Fail, database
    <3>2. CASE UpdateUser(p) \/ InsertRole(p) \/ UpdateRole(p)
      BY <3>2 DEF UpdateUser, InsertRole, UpdateRole, database
    <3>3. CASE ResetRole(p) \/ AddRolePermission(p)
      BY <3>3 DEF ResetRole, AddRolePermission, database
    <3>4. CASE \/ BeginSync(p) \/ ReadCurrent(p) \/ RemoveRoleForUser(p) \/ DeleteRows(p)
               \/ InsertRow(p) \/ AddRoleForUser(p) \/ LogSync(p)
      BY <3>4 DEF BeginSync, ReadCurrent, RemoveRoleForUser, DeleteRows, InsertRow,
          AddRoleForUser, LogSync, database
    <3>5. CASE ReadUsers(p) \/ DeleteUser(p) \/ ReadRoles(p) \/ DeleteRoles(p) \/ RevokeRole(p)
      BY <3>5 DEF ReadUsers, DeleteUser, ReadRoles, DeleteRoles, RevokeRole, database
    <3> QED
      BY <1>3, <3>1, <3>2, <3>3, <3>4, <3>5 DEF Step, Advance
  <2> QED
    BY <1>0, <2>1
<1> QED
  BY <1>1, <1>2, <1>3

LEMMA LogNext == IInv /\ LogInv /\ [Next]_vars => LogInv'
<1> SUFFICES ASSUME IInv, LogInv, [Next]_vars
             PROVE  LogInv'
  OBVIOUS
<1>0. IInv'
  BY NextPreserves
<1>1. ASSUME NEW p \in Proc, Receive(p) \/ Step(p)
      PROVE  LogInv'
  <2>1. LogFits(p)'
    BY <1>1, StepOfLog
  <2>2. /\ nextUser <= nextUser' /\ nextUser' \in Nat /\ users' \subseteq 1..(nextUser' - 1)
        /\ (1..(nextUser' - 1)) \ users' = UsersIn(audit', "deleted")
        /\ (InitialUsers + 1)..(nextUser' - 1) = UsersIn(audit', "created")
    BY <1>1, StepOfLives
  <2>3. nextUser \in Nat /\ InitialUsers \in Nat /\ InitialUsers < nextUser
    BY LogsOfUsers DEF LogInv
  <2>4. ASSUME NEW q \in Proc \ {p} PROVE LogFits(q)'
    <3>1. LogFits(q) /\ Own(q)' = Own(q)
      BY <1>1, Split, OthersKept DEF IInv, LogInv
    <3>2. nextUser <= nextUser' /\ nextUser' \in Nat
      BY <2>2
    <3>3. 1..(nextUser - 1) \subseteq 1..(nextUser' - 1)
      BY <2>3, <3>2, RangeGrows
    <3> QED
      BY <3>1, <3>3 DEF LogFits, Own
  <2>5. LogMatchesUsers'
    BY <2>2 DEF LogMatchesUsers, DeletedInLog, CreatedInLog, UsersIn
  <2>6. InitialUsers < nextUser'
    BY <2>2, <2>3
  <2> QED
    BY <2>1, <2>2, <2>4, <2>5, <2>6 DEF LogInv
<1>2. CASE Restart
  <2>1. \A p \in Proc : LogFits(p)'
    BY <1>2, UsersInNothing DEF Restart, LogFits, NoTx, NoRequest
  <2> QED
    BY <1>2, <2>1 DEF Restart, database, LogInv, LogMatchesUsers, DeletedInLog, CreatedInLog
<1>3. CASE UNCHANGED vars
  BY <1>3 DEF vars, database, locals, LogInv, LogFits, LogMatchesUsers, DeletedInLog, CreatedInLog
<1> QED
  BY <1>1, <1>2, <1>3 DEF Next

LEMMA LogInit == Init => LogInv
<1> SUFFICES ASSUME Init PROVE LogInv
  OBVIOUS
<1>1. InitialUsers \in Nat /\ nextUser = InitialUsers + 1 /\ users = 1..InitialUsers /\ audit = <<>>
  BY BoundsAssumption DEF Init
<1>2. DeletedInLog = {} /\ CreatedInLog = {}
  BY <1>1 DEF DeletedInLog, CreatedInLog
<1>3. \A p \in Proc : LogFits(p)
  BY UsersInNothing DEF Init, LogFits, NoTx, NoRequest
<1> QED
  BY <1>1, <1>2, <1>3 DEF LogInv, LogMatchesUsers

(* LogMatchesUsers: the entries that LogCreate and LogDelete write to the  *)
(* transaction of their caller tell of exactly the users that came and     *)
(* went, whoever deletes the same users at once and whatever fails.        *)
THEOREM LogTellsUsers == Spec => []LogMatchesUsers
<1>1. LogInv => LogMatchesUsers
  BY DEF LogInv
<1> QED
  BY <1>1, InitEstablishes, NextPreserves, LogInit, LogNext, PTL DEF Spec
-----------------------------------------------------------------------------
(* Enforcer and role_user                                                  *)

Agrees(c) ==
    /\ c \in roleUser => c \in links
    /\ c \in links /\ c # <<1, 1>> => c \in roleUser

(* The id that a request joins its target with in a cell it works on.      *)
End(p, c) == IF UserSide(req[p]) THEN c[2] ELSE c[1]

(* How far a request has come with a cell that it alone works on.          *)
Place(p, c) ==
    /\ pc[p] \in {"prepare", "read", "reset", "delete"} \/ req[p].op = "deleteUsers" => Agrees(c)
    /\ pc[p] \in {"begin", "current"} /\ ~ req[p].grant => Agrees(c)
    /\ pc[p] = "grant" => c \notin links
    /\ pc[p] \in {"reset", "grant"} /\ req[p].op = "createRole" => c \notin roleUser
    /\ pc[p] \in {"begin", "current"} /\ c \in links /\ c # <<1, 1>> => c \in roleUser
    /\ pc[p] \in {"unlink", "clear"} =>
         /\ c \in links /\ c # <<1, 1>> => End(p, c) \in todo[p]
         /\ pc[p] = "clear" => todo[p] = {}
    /\ pc[p] \in {"insert", "link", "log", "commit"} /\ req[p].op \notin DeleteOps =>
         /\ End(p, c) \in req[p].ids \ todo[p] => c \in links
         /\ c \in links /\ c # <<1, 1>> => End(p, c) \in req[p].ids \ todo[p]

(* The transaction of a request fits how far it has come.                  *)
TxFits(p) ==
    /\ IF pc[p] \in {"insert", "link", "log", "commit"} /\ req[p].op \notin DeleteOps
       THEN /\ tx[p].locked = TargetRows(p) /\ todo[p] \subseteq req[p].ids
            /\ tx[p].rows \subseteq {Row(p, x) : x \in req[p].ids}
            /\ \A x \in req[p].ids \ todo[p] : Row(p, x) \in tx[p].rows
            /\ pc[p] \in {"log", "commit"} => todo[p] = {}
       ELSE tx[p].rows = {}
    /\ pc[p] \in {"delete", "commit"} /\ req[p].op = "deleteUsers" =>
         \A c \in tx[p].locked : c[1] \in tx[p].gone
    /\ pc[p] \in {"revoke", "commit"} /\ req[p].op = "deleteRoles" =>
         \A c \in tx[p].locked : c[2] \in req[p].ids
    /\ pc[p] \in {"reset", "grant"} => req[p].grant
    /\ pc[p] = "prepare" /\ req[p].op \in {"createUser", "createRole"} => target[p] = 0

(* What will be inserted next is not there yet.                            *)
Known(c) == c[1] < nextUser /\ c[2] < nextRole
NewIsNew ==
    /\ 1 < nextUser /\ 1 < nextRole
    /\ users \subseteq 1..(nextUser - 1) /\ roles \subseteq 1..(nextRole - 1)
    /\ \A c \in links \cup roleUser : Known(c)
    /\ \A p \in Proc : \A c \in tx[p].rows : Known(c)

CellsInv ==
    \A c \in (users \X roles) \ suspect :
        /\ c \notin Busied => Agrees(c)
        /\ \A p \in Proc : c \in Busy(p) => Place(p, c)

LinkInv == (\A p \in Proc : TxFits(p)) /\ NewIsNew /\ CellsInv

LEMMA BusyMeans ==
  ASSUME NEW p \in Proc, NEW c \in Pairs
  PROVE  /\ UserSide(req[p]) => (c \in Busy(p) <=> c[1] = target[p])
         /\ RoleSide(req[p]) => (c \in Busy(p) <=> c[2] = target[p])
         /\ req[p].op = "deleteUsers" => (c \in Busy(p) <=> c[1] \in req[p].ids)
         /\ req[p].op = "deleteRoles" => (c \in Busy(p) <=> c[2] \in req[p].ids)
<1>1. c \in Cells /\ c[1] \in UserIds /\ c[2] \in RoleIds /\ c[1] # 0 /\ Policies = 0
  BY BoundsAssumption DEF Pairs, Cells, UserIds, RoleIds, Policies
<1> QED
  BY <1>1 DEF Busy, Footprint, UserSide, RoleSide

(* A sync at work is on the side of a user or of a role.                   *)
LEMMA Sides ==
  ASSUME IInv, NEW p \in Proc, pc[p] # "idle", req[p].op \notin DeleteOps
  PROVE  UserSide(req[p]) \/ RoleSide(req[p])
BY AtWork DEF Ops, DeleteOps, UserSide, RoleSide

LEMMA RowMeans ==
  ASSUME IInv, NEW p \in Proc, NEW c \in Pairs, pc[p] # "idle", req[p].op \notin DeleteOps
  PROVE  /\ c \in Busy(p) => \A x : c = Row(p, x) <=> x = End(p, c)
         /\ c \notin Busy(p) => \A x : c # Row(p, x)
         /\ c \in Busy(p) <=> c \in TargetRows(p)
<1>1. c = <<c[1], c[2]>>
  BY DEF Pairs
<1>2. CASE UserSide(req[p])
  BY <1>1, <1>2, BusyMeans DEF Row, End, TargetRows
<1>3. CASE RoleSide(req[p])
  <2>1. ~ UserSide(req[p])
    BY <1>3 DEF RoleSide, UserSide
  <2> QED
    BY <1>1, <1>3, <2>1, BusyMeans DEF Row, End, TargetRows
<1> QED
  BY <1>2, <1>3, Sides

(* A step of p changes nothing of a pair that p does not work on.          *)
LEMMA CellKept ==
  ASSUME IInv, NEW p \in Proc, PolicyFits(p), TxFits(p), Receive(p) \/ Step(p),
         NEW c \in Pairs, c \in users' \X roles', c \notin Busy(p)
  PROVE  (c \in links' <=> c \in links) /\ (c \in roleUser' <=> c \in roleUser)
<1>0. PlaceFits(p) /\ DeletionFits(p) /\ tx[p] \in Transaction
  BY DEF IInv, Fits, TypeOK
<1>1. CASE Receive(p) \/ Fail(p)
  BY <1>1 DEF Receive, Fail, database, enforcer
<1>2. CASE InsertUser(p) \/ UpdateUser(p) \/ InsertRole(p) \/ UpdateRole(p)
  BY <1>2 DEF InsertUser, UpdateUser, InsertRole, UpdateRole, database, enforcer
<1>3. CASE ResetRole(p)
  <2>1. c[2] # target[p]
    BY <1>0, <1>3, BusyMeans DEF ResetRole, PlaceFits
  <2> QED
    BY <1>3, <2>1 DEF ResetRole, database
<1>4. CASE \/ AddRolePermission(p) \/ BeginSync(p) \/ ReadCurrent(p) \/ DeleteRows(p)
           \/ InsertRow(p) \/ LogSync(p)
  BY <1>4 DEF AddRolePermission, BeginSync, ReadCurrent, DeleteRows, InsertRow, LogSync,
              database, enforcer
<1>5. CASE RemoveRoleForUser(p) \/ AddRoleForUser(p)
  <2>1. \A x : c # Row(p, x)
    BY <1>0, <1>5, RowMeans DEF RemoveRoleForUser, AddRoleForUser, PlaceFits
  <2> QED
    BY <1>5, <2>1 DEF RemoveRoleForUser, AddRoleForUser, database
<1>6. CASE ReadUsers(p) \/ DeleteUser(p) \/ ReadRoles(p) \/ DeleteRoles(p)
  BY <1>6 DEF ReadUsers, DeleteUser, ReadRoles, DeleteRoles, database, enforcer
<1>7. CASE RevokeRole(p)
  <2>1. c[2] \notin todo[p]
    BY <1>0, <1>7, BusyMeans DEF RevokeRole, PlaceFits, PolicyFits
  <2> QED
    BY <1>7, <2>1 DEF RevokeRole, database
<1>8. CASE Commit(p)
  <2>1. /\ pc[p] = "commit" /\ UNCHANGED links
        /\ roleUser' = (roleUser \ tx[p].locked) \cup tx[p].rows
    BY <1>8 DEF Commit, enforcer
  <2>2. CASE req[p].op \notin DeleteOps
    <3>1. c \notin TargetRows(p) /\ \A x : c # Row(p, x)
      BY <2>1, <2>2, RowMeans
    <3> QED
      BY <2>1, <2>2, <3>1 DEF TxFits
  <2>3. CASE req[p].op = "deleteUsers"
    <3>1. c[1] \notin tx[p].gone
      BY <1>8, <2>3 DEF Commit
    <3> QED
      BY <2>1, <2>3, <3>1 DEF TxFits, DeleteOps
  <2>4. CASE req[p].op = "deleteRoles"
    <3>1. c[2] \notin req[p].ids /\ tx[p].rows = {}
      BY <2>1, <2>4, BusyMeans DEF TxFits, DeleteOps
    <3>2. \A d \in tx[p].locked : d[2] \in req[p].ids
      BY <2>1, <2>4 DEF TxFits
    <3> QED
      BY <2>1, <3>1, <3>2
  <2> QED
    BY <2>2, <2>3, <2>4 DEF DeleteOps
<1> QED
  BY <1>1, <1>2, <1>3, <1>4, <1>5, <1>6, <1>7, <1>8 DEF Step, Advance

(* A pair that p begins to work on agrees, and p has not come far with it. *)
LEMMA CellTaken ==
  ASSUME IInv, NEW p \in Proc, LinkInv, Receive(p) \/ Step(p),
         NEW c \in Pairs, c \notin Busy(p), c \in Busy(p)', Agrees(c)
  PROVE  Place(p, c)'
<1>0. LocalsTyped /\ TxFits(p)
  BY Split DEF IInv, LinkInv
<1>1. req'[p] # NoRequest
  BY IdleBusy DEF Busy
<1>2. ~ Leave(p)
  BY <1>0, <1>1 DEF Leave, LocalsTyped
<1>3. CASE Receive(p)
  <2>1. /\ links' = links /\ roleUser' = roleUser
        /\ pc'[p] = "prepare" \/ (pc'[p] = "read" /\ req'[p].op \in DeleteOps)
    BY <1>0, <1>3 DEF Receive, LocalsTyped, database, enforcer, DeleteOps
  <2> QED
    BY <2>1 DEF Place, Agrees
<1>4. CASE InsertUser(p)
  <2>1. /\ links' = links /\ roleUser' = roleUser /\ req' = req /\ req[p].op = "createUser"
        /\ pc'[p] = "begin"
    BY <1>0, <1>2, <1>4 DEF InsertUser, Prepared, RoleSide, LocalsTyped, enforcer
  <2> QED
    BY <2>1 DEF Place, Agrees
<1>5. CASE InsertRole(p)
  <2>1. /\ links' = links /\ roleUser' = roleUser /\ req' = req /\ req[p].op = "createRole"
        /\ pc'[p] \in {"begin", "reset"} /\ target'[p] = nextRole
    BY <1>0, <1>2, <1>5 DEF InsertRole, Prepared, LocalsTyped, enforcer
  <2>2. c[2] = nextRole
    BY <2>1 DEF Busy, Footprint
  <2>3. c \notin roleUser
    BY <2>2, BoundsAssumption DEF LinkInv, NewIsNew, Known, IInv, TypeOK
  <2> QED
    BY <2>1, <2>3 DEF Place, Agrees
<1>6. CASE ~ (Receive(p) \/ InsertUser(p) \/ InsertRole(p))
  <2>1. req'[p] = req[p] /\ target'[p] = target[p]
    <3>1. CASE UpdateUser(p) \/ UpdateRole(p)
      BY <1>0, <1>2, <3>1 DEF UpdateUser, UpdateRole, Prepared, LocalsTyped
    <3>2. CASE ResetRole(p) \/ AddRolePermission(p)
      BY <1>2, <3>2 DEF ResetRole, AddRolePermission
    <3>3. CASE \/ BeginSync(p) \/ ReadCurrent(p) \/ RemoveRoleForUser(p) \/ DeleteRows(p)
               \/ InsertRow(p) \/ AddRoleForUser(p) \/ LogSync(p)
      BY <3>3 DEF BeginSync, ReadCurrent, RemoveRoleForUser, DeleteRows, InsertRow,
          AddRoleForUser, LogSync
    <3>4. CASE ReadUsers(p) \/ DeleteUser(p) \/ ReadRoles(p) \/ DeleteRoles(p) \/ RevokeRole(p)
      BY <1>2, <3>4 DEF ReadUsers, DeleteUser, ReadRoles, DeleteRoles, RevokeRole
    <3>5. CASE Commit(p) \/ Fail(p)
      BY <1>2, <3>5 DEF Commit, Fail
    <3> QED
      BY <1>6, <3>1, <3>2, <3>3, <3>4, <3>5 DEF Step, Advance
  <2> QED
    BY <2>1 DEF Busy
<1> QED
  BY <1>3, <1>4, <1>5, <1>6


(* What p owes a pair it has worked on, or still works on.                 *)
CellFits(p, c) == IF c \in Busy(p) THEN Place(p, c) ELSE Agrees(c)

LEMMA ReturnCell ==
  ASSUME IInv, NEW p \in Proc, NEW c, Return(p), Agrees(c)'
  PROVE  CellFits(p, c)'
BY ReturnPolicy DEF CellFits

(* A pair that p works on goes through the places of the handler.          *)
LEMMA CellPrepared ==
  ASSUME IInv, NEW p \in Proc, LinkInv, PolicyInv,
         \/ InsertUser(p) \/ UpdateUser(p) \/ InsertRole(p) \/ UpdateRole(p),
         NEW c \in Pairs, c \in Busy(p), Place(p, c)
  PROVE  CellFits(p, c)'
<1>0. LocalsTyped /\ TxFits(p) /\ PlaceFits(p) /\ c[1] # 0 /\ c[2] # 0
  BY Split, BoundsAssumption DEF IInv, LinkInv, Fits, Pairs, UserIds, RoleIds
<1>1. ~ InsertUser(p)
  BY <1>0, BusyMeans DEF InsertUser, TxFits, UserSide
<1>2. ~ InsertRole(p)
  BY <1>0, BusyMeans DEF InsertRole, TxFits, RoleSide
<1>3. /\ pc[p] = "prepare" /\ Prepared(p, target[p]) /\ UNCHANGED <<links, roleUser>>
      /\ req[p].op \in {"updateUser", "updateRole"}
  BY <1>1, <1>2 DEF UpdateUser, UpdateRole, database, enforcer
<1>4. Agrees(c)'
  BY <1>3 DEF Place, Agrees
<1>5. CASE ~ Leave(p)
  <2>1. req'[p] = req[p] /\ pc'[p] \in {"reset", "begin"}
    BY <1>0, <1>3, <1>5 DEF Prepared, LocalsTyped
  <2> QED
    BY <1>3, <1>4, <2>1 DEF CellFits, Place, Agrees
<1> QED
  BY <1>4, <1>5, LeaveReturns, ReturnCell DEF Step, Advance

LEMMA CellReset ==
  ASSUME IInv, NEW p \in Proc, LinkInv, ResetRole(p) \/ AddRolePermission(p),
         NEW c \in Pairs, c \in Busy(p), Place(p, c)
  PROVE  CellFits(p, c)'
<1>0. /\ LocalsTyped /\ PlaceFits(p) /\ pc[p] \in {"reset", "grant"} /\ req[p].grant
  BY Split DEF IInv, LinkInv, Fits, ResetRole, AddRolePermission, TxFits
<1>1. RoleSide(req[p]) /\ c[2] = target[p] /\ roleUser' = roleUser
  BY <1>0, BusyMeans DEF PlaceFits, ResetRole, AddRolePermission, database
<1>2. c \notin links'
  BY <1>1 DEF ResetRole, AddRolePermission, Place
<1>3. req[p].op = "createRole" => c \notin roleUser'
  BY <1>0, <1>1 DEF Place
<1>4. CASE Leave(p)
  <2>1. req[p].op = "createRole"
    <3>1. pc'[p] = "idle"
      BY <1>0, <1>4 DEF Leave, LocalsTyped
    <3>2. ~ Syncs(req[p])
      BY <1>0, <3>1 DEF ResetRole, AddRolePermission, LocalsTyped
    <3> QED
      BY <1>0, <1>1, <3>2 DEF Syncs, RoleSide
  <2> QED
    BY <1>2, <1>3, <1>4, <2>1, LeaveReturns, ReturnCell DEF Agrees, Step, Advance
<1>5. CASE ~ Leave(p)
  <2>1. req'[p] = req[p] /\ target' = target /\ pc'[p] \in {"grant", "begin"}
    BY <1>0, <1>5 DEF ResetRole, AddRolePermission, LocalsTyped
  <2> QED
    BY <1>0, <1>1, <1>2, <1>3, <2>1 DEF CellFits, Place, Agrees, RoleSide, Busy
<1> QED
  BY <1>4, <1>5

LEMMA CellSynced ==
  ASSUME IInv, NEW p \in Proc, LinkInv,
         \/ BeginSync(p) \/ ReadCurrent(p) \/ RemoveRoleForUser(p) \/ DeleteRows(p)
         \/ InsertRow(p) \/ AddRoleForUser(p) \/ LogSync(p),
         NEW c \in Pairs, c \in Busy(p), Place(p, c)
  PROVE  Place(p, c)'
<1>0. /\ LocalsTyped /\ TxFits(p) /\ req[p].op \notin DeleteOps
      /\ pc[p] \in {"begin", "current", "unlink", "clear", "insert", "link", "log"}
  BY Split
  DEF IInv, LinkInv, Fits, PlaceFits, BeginSync, ReadCurrent, RemoveRoleForUser, DeleteRows,
      InsertRow, AddRoleForUser, LogSync
<1>1. /\ \A x : c = Row(p, x) <=> x = End(p, c)
      /\ End(p, c) \in UserIds \cup RoleIds
  BY <1>0, RowMeans DEF End, Pairs
<1>2. req'[p] = req[p] /\ End(p, c)' = End(p, c) /\ roleUser' = roleUser
  BY DEF BeginSync, ReadCurrent, RemoveRoleForUser, DeleteRows, InsertRow, AddRoleForUser,
      LogSync, End, database
<1> USE DEF Place, DeleteOps
<1>2a. CASE BeginSync(p)
  <2>1. pc[p] = "begin" /\ links' = links /\ pc'[p] = "current"
    BY <1>0, <1>2a DEF BeginSync, LocalsTyped, enforcer
  <2> QED
    BY <1>0, <1>2, <2>1 DEF Agrees
<1>3. CASE ReadCurrent(p)
  <2>1. /\ pc[p] = "current" /\ links' = links /\ todo'[p] = Current(p)
        /\ pc'[p] = IF Current(p) = {} THEN "clear" ELSE "unlink"
    BY <1>0, <1>3 DEF ReadCurrent, LocalsTyped, enforcer
  <2>2. c \in roleUser => End(p, c) \in Current(p)
    BY <1>1 DEF Current
  <2> QED
    BY <1>0, <1>2, <2>1, <2>2
<1>4. CASE RemoveRoleForUser(p)
  <2>1. PICK x \in todo[p] :
          /\ links' = links \ {Row(p, x)} /\ todo'[p] = todo[p] \ {x} /\ pc[p] = "unlink"
          /\ pc'[p] = IF todo[p] = {x} THEN "clear" ELSE "unlink"
    BY <1>0, <1>4 DEF RemoveRoleForUser, LocalsTyped
  <2> QED
    BY <1>0, <1>1, <1>2, <2>1
<1>5. CASE DeleteRows(p)
  <2>1. /\ pc[p] = "clear" /\ links' = links /\ todo'[p] = req[p].ids
        /\ pc'[p] \in {"log", "commit", "insert"}
    BY <1>0, <1>5 DEF DeleteRows, AllInserted, LocalsTyped, enforcer
  <2> QED
    BY <1>0, <1>2, <2>1
<1>6. CASE InsertRow(p)
  <2>1. pc[p] = "insert" /\ links' = links /\ todo' = todo /\ pc'[p] = "link"
    BY <1>0, <1>6 DEF InsertRow, LocalsTyped, enforcer
  <2> QED
    BY <1>0, <1>2, <2>1
<1>7. CASE AddRoleForUser(p)
  <2>1. PICK x \in todo[p] :
          /\ links' = links \cup {Row(p, x)} /\ todo'[p] = todo[p] \ {x} /\ pc[p] = "link"
          /\ pc'[p] \in {"log", "commit", "insert"}
    BY <1>0, <1>7 DEF AddRoleForUser, AllInserted, LocalsTyped
  <2>2. x \in req[p].ids
    BY <1>0, <2>1 DEF TxFits
  <2> QED
    BY <1>0, <1>1, <1>2, <2>1, <2>2
<1>8. CASE LogSync(p)
  <2>1. pc[p] = "log" /\ links' = links /\ todo' = todo /\ pc'[p] = "commit"
    BY <1>0, <1>8 DEF LogSync, LocalsTyped, enforcer
  <2> QED
    BY <1>0, <1>2, <2>1
<1> QED
  BY <1>2a, <1>3, <1>4, <1>5, <1>6, <1>7, <1>8

LEMMA CellDeleted ==
  ASSUME IInv, NEW p \in Proc,
         \/ ReadUsers(p) \/ DeleteUser(p) \/ ReadRoles(p) \/ DeleteRoles(p) \/ RevokeRole(p),
         NEW c \in Pairs, c \in Busy(p), Place(p, c)
  PROVE  CellFits(p, c)'
<1>0. LocalsTyped /\ PlaceFits(p)
  BY Split DEF IInv, Fits
<1>1. CASE RevokeRole(p)
  <2>1. pc'[p] \in {"revoke", "commit"} /\ req'[p] = req[p] /\ target' = target
        /\ req[p].op = "deleteRoles"
    BY <1>0, <1>1 DEF RevokeRole, LocalsTyped, PlaceFits
  <2> QED
    BY <2>1 DEF CellFits, Place, Busy, DeleteOps
<1>2. CASE ~ RevokeRole(p)
  <2>1. links' = links /\ roleUser' = roleUser /\ pc[p] \in {"read", "delete"} /\ Agrees(c)
    BY <1>2 DEF ReadUsers, DeleteUser, ReadRoles, DeleteRoles, database, enforcer, Place
  <2>2. CASE Leave(p)
    BY <2>1, <2>2, LeaveReturns, ReturnCell DEF Agrees, Step, Advance
  <2>3. CASE ~ Leave(p)
    <3>1. /\ pc'[p] \in {"delete", "revoke", "commit"} /\ req'[p] = req[p] /\ target' = target
          /\ req[p].op \in DeleteOps
      BY <1>0, <1>2, <2>3
      DEF ReadUsers, DeleteUser, ReadRoles, DeleteRoles, LocalsTyped, DeleteOps
    <3> QED
      BY <2>1, <3>1 DEF CellFits, Place, Agrees, Busy, DeleteOps
  <2> QED
    BY <2>2, <2>3
<1> QED
  BY <1>1, <1>2

LEMMA CellCommitted ==
  ASSUME IInv, NEW p \in Proc, LinkInv, Commit(p),
         NEW c \in Pairs, c \in Busy(p), Place(p, c), c \in users' \X roles'
  PROVE  Agrees(c)'
<1>0. LocalsTyped /\ TxFits(p) /\ DeletionFits(p)
  BY Split DEF IInv, LinkInv, Fits
<1>1. /\ pc[p] = "commit" /\ links' = links
      /\ roleUser' = (roleUser \ tx[p].locked) \cup tx[p].rows
  BY DEF Commit, enforcer
<1>2. CASE req[p].op \notin DeleteOps
  <2>1. /\ \A x : c = Row(p, x) <=> x = End(p, c)
        /\ c \in TargetRows(p)
    BY <1>1, <1>2, RowMeans
  <2>2. /\ tx[p].locked = TargetRows(p) /\ todo[p] = {}
        /\ tx[p].rows = {Row(p, x) : x \in req[p].ids}
    BY <1>0, <1>1, <1>2 DEF TxFits
  <2>3. c \in roleUser' <=> End(p, c) \in req[p].ids
    BY <1>1, <2>1, <2>2
  <2> QED
    BY <1>1, <1>2, <2>2, <2>3 DEF Place, Agrees
<1>3. CASE req[p].op = "deleteUsers"
  <2>1. c[1] \notin tx[p].gone
    BY <1>3 DEF Commit
  <2>2. c \notin tx[p].locked /\ tx[p].rows = {}
    BY <1>0, <1>1, <1>3, <2>1 DEF TxFits, DeleteOps
  <2> QED
    BY <1>1, <1>3, <2>2 DEF Place, Agrees
<1>4. CASE req[p].op = "deleteRoles"
  <2>1. c[2] \in tx[p].gone
    BY <1>0, <1>1, <1>4, BusyMeans DEF DeletionFits
  <2> QED
    BY <1>4, <2>1 DEF Commit
<1> QED
  BY <1>2, <1>3, <1>4 DEF DeleteOps

LEMMA CellFailed ==
  ASSUME IInv, NEW p \in Proc, Fail(p),
         NEW c \in Pairs, c \in Busy(p), Place(p, c), c \notin suspect'
  PROVE  Agrees(c)'
<1>1. ~ EnforcerTouched(p) /\ pc[p] \in Fallible /\ links' = links /\ roleUser' = roleUser
  BY DEF Fail, database, enforcer
<1>2. Agrees(c)
  BY <1>1 DEF EnforcerTouched, Fallible, Place
<1> QED
  BY <1>1, <1>2 DEF Agrees

LEMMA CellStep ==
  ASSUME IInv, PolicyInv, LinkInv, NEW p \in Proc, Receive(p) \/ Step(p),
         NEW c \in Pairs, c \in Busy(p), Place(p, c), c \in users' \X roles', c \notin suspect'
  PROVE  CellFits(p, c)'
<1>1. ~ Receive(p)
  BY IdleBusy DEF Receive, PolicyInv, PolicyFits, Busy
<1>2. CASE InsertUser(p) \/ UpdateUser(p) \/ InsertRole(p) \/ UpdateRole(p)
  BY <1>2, CellPrepared
<1>3. CASE ResetRole(p) \/ AddRolePermission(p)
  BY <1>3, CellReset
<1>4. CASE \/ BeginSync(p) \/ ReadCurrent(p) \/ RemoveRoleForUser(p) \/ DeleteRows(p)
           \/ InsertRow(p) \/ AddRoleForUser(p) \/ LogSync(p)
  <2>1. UNCHANGED <<req, target>>
    BY <1>4 DEF BeginSync, ReadCurrent, RemoveRoleForUser, DeleteRows, InsertRow, AddRoleForUser,
        LogSync
  <2> QED
    BY <1>4, <2>1, CellSynced DEF CellFits, Busy
<1>5. CASE ReadUsers(p) \/ DeleteUser(p) \/ ReadRoles(p) \/ DeleteRoles(p) \/ RevokeRole(p)
  BY <1>5, CellDeleted
<1>6. CASE Commit(p) \/ Fail(p)
  BY <1>6, CellCommitted, CellFailed, LeaveReturns, ReturnCell DEF Commit, Fail
<1> QED
  BY <1>1, <1>2, <1>3, <1>4, <1>5, <1>6 DEF Step, Advance

LEMMA ReturnTx ==
  ASSUME IInv, NEW p \in Proc, Return(p)
  PROVE  TxFits(p)'
<1>1. pc'[p] = "idle" /\ tx'[p] = NoTx
  BY DEF IInv, TypeOK, Return, Leave
<1> QED
  BY <1>1 DEF TxFits, NoTx

LEMMA StepOfTx ==
  ASSUME IInv, LinkInv, NEW p \in Proc, Receive(p) \/ Step(p)
  PROVE  TxFits(p)'
<1>0. LocalsTyped /\ TxFits(p) /\ PlaceFits(p) /\ tx[p] \in Transaction
  BY Split DEF IInv, LinkInv, Fits, TypeOK
<1>1. CASE Receive(p)
  <2>1. /\ pc[p] = "idle" /\ UNCHANGED tx /\ pc'[p] \in {"read", "prepare"}
        /\ req'[p].op \in {"createUser", "createRole"} => target'[p] = 0
    BY <1>0, <1>1 DEF Receive, LocalsTyped
  <2> QED
    BY <1>0, <2>1 DEF TxFits
<1>2. CASE Leave(p)
  BY <1>2, LeaveReturns, ReturnTx
<1>3. CASE ~ Leave(p) /\ (InsertUser(p) \/ UpdateUser(p) \/ InsertRole(p) \/ UpdateRole(p))
  <2>1. /\ pc[p] = "prepare" /\ UNCHANGED <<req, tx>> /\ pc'[p] \in {"reset", "begin"}
        /\ pc'[p] = "reset" => req[p].grant
    BY <1>0, <1>3 DEF InsertUser, UpdateUser, InsertRole, UpdateRole, Prepared, LocalsTyped
  <2> QED
    BY <1>0, <2>1 DEF TxFits
<1>4. CASE ~ Leave(p) /\ (ResetRole(p) \/ AddRolePermission(p))
  <2>1. pc[p] \in {"reset", "grant"} /\ UNCHANGED <<req, tx>> /\ pc'[p] \in {"grant", "begin"}
    BY <1>0, <1>4 DEF ResetRole, AddRolePermission, LocalsTyped
  <2> QED
    BY <1>0, <2>1 DEF TxFits
<1>5. CASE BeginSync(p) \/ ReadCurrent(p) \/ RemoveRoleForUser(p)
  <2>1. pc'[p] \in {"current", "clear", "unlink"} /\ tx'[p].rows = {}
    <3>1. CASE BeginSync(p)
      BY <1>0, <3>1 DEF BeginSync, LocalsTyped, Begin, NoTx
    <3>2. CASE ReadCurrent(p) \/ RemoveRoleForUser(p)
      BY <1>0, <3>2 DEF ReadCurrent, RemoveRoleForUser, LocalsTyped, TxFits
    <3> QED
      BY <1>5, <3>1, <3>2
  <2> QED
    BY <2>1 DEF TxFits
<1>6. CASE DeleteRows(p) \/ InsertRow(p) \/ AddRoleForUser(p) \/ LogSync(p)
  <2>0. UNCHANGED <<req, target>> /\ TargetRows(p)' = TargetRows(p) /\ \A x : Row(p, x)' = Row(p, x)
    BY <1>6 DEF DeleteRows, InsertRow, AddRoleForUser, LogSync, TargetRows, Row
  <2>1. CASE DeleteRows(p)
    <3>1. /\ pc[p] = "clear" /\ tx'[p].locked = TargetRows(p) /\ tx'[p].rows = tx[p].rows
          /\ todo'[p] = req[p].ids
          /\ pc'[p] \in {"log", "commit", "insert"} /\ (pc'[p] # "insert" => req[p].ids = {})
      BY <1>0, <2>1 DEF DeleteRows, AllInserted, LocalsTyped, Transaction
    <3>2. req[p].op \notin DeleteOps
      BY <1>0, <3>1 DEF PlaceFits
    <3> QED
      BY <1>0, <2>0, <3>1, <3>2 DEF TxFits, DeleteOps
  <2>2. CASE InsertRow(p)
    <3>1. PICK x \in todo[p] : tx' = [tx EXCEPT ![p].rows = @ \cup {Row(p, x)}]
      BY <2>2 DEF InsertRow
    <3>2. /\ pc[p] = "insert" /\ pc'[p] = "link" /\ todo' = todo
          /\ tx'[p].locked = tx[p].locked /\ tx'[p].rows = tx[p].rows \cup {Row(p, x)}
      BY <1>0, <2>2, <3>1 DEF InsertRow, LocalsTyped, Transaction
    <3>3. req[p].op \notin DeleteOps
      BY <1>0, <3>2 DEF PlaceFits
    <3> QED
      BY <1>0, <2>0, <3>1, <3>2, <3>3 DEF TxFits, DeleteOps
  <2>3. CASE AddRoleForUser(p)
    <3>1. PICK x \in todo[p] :
            /\ Row(p, x) \in tx[p].rows /\ todo'[p] = todo[p] \ {x} /\ UNCHANGED tx
            /\ pc[p] = "link" /\ pc'[p] \in {"log", "commit", "insert"}
            /\ pc'[p] # "insert" => todo[p] = {x}
      BY <1>0, <2>3 DEF AddRoleForUser, AllInserted, LocalsTyped
    <3>2. req[p].op \notin DeleteOps
      BY <1>0, <3>1 DEF PlaceFits
    <3> QED
      BY <1>0, <2>0, <3>1, <3>2 DEF TxFits, DeleteOps
  <2>4. CASE LogSync(p)
    <3>1. /\ pc[p] = "log" /\ pc'[p] = "commit" /\ todo' = todo
          /\ tx'[p].locked = tx[p].locked /\ tx'[p].rows = tx[p].rows
      BY <1>0, <2>4 DEF LogSync, LocalsTyped, Transaction
    <3>2. req[p].op \notin DeleteOps
      BY <1>0, <3>1 DEF PlaceFits
    <3> QED
      BY <1>0, <2>0, <3>1, <3>2 DEF TxFits, DeleteOps
  <2> QED
    BY <1>6, <2>1, <2>2, <2>3, <2>4
<1>7. CASE ~ Leave(p) /\ (ReadUsers(p) \/ ReadRoles(p))
  <2>1. tx'[p].rows = {} /\ tx'[p].locked = {} /\ pc'[p] = "delete"
    BY <1>0, <1>7 DEF ReadUsers, ReadRoles, LocalsTyped, Begin, NoTx
  <2> QED
    BY <2>1 DEF TxFits
<1>8. CASE DeleteUser(p)
  <2>1. PICK u \in todo[p] : tx' = [tx EXCEPT ![p] = DeleteEntity(@, u)]
    BY <1>8 DEF DeleteUser
  <2>2. /\ tx'[p].locked = tx[p].locked \cup RowsOfUser(u) /\ tx'[p].gone = tx[p].gone \cup {u}
        /\ tx'[p].rows = tx[p].rows
    BY <1>0, <2>1 DEF DeleteEntity, LocalsTyped, Transaction
  <2>3. /\ pc[p] = "delete" /\ pc'[p] \in {"commit", "delete"} /\ UNCHANGED req
        /\ req[p].op = "deleteUsers"
    BY <1>0, <1>8 DEF DeleteUser, LocalsTyped
  <2> QED
    BY <1>0, <2>2, <2>3 DEF TxFits, RowsOfUser, DeleteOps
<1>9. CASE DeleteRoles(p)
  <2>1. /\ pc[p] = "delete" /\ pc'[p] = "revoke" /\ UNCHANGED req /\ tx'[p].rows = tx[p].rows
        /\ tx'[p].locked = {c \in Pairs : c[2] \in req[p].ids}
    BY <1>0, <1>9 DEF DeleteRoles, LocalsTyped, Transaction
  <2> QED
    BY <1>0, <2>1 DEF TxFits
<1>10. CASE RevokeRole(p)
  <2>1. /\ pc[p] = "revoke" /\ pc'[p] \in {"revoke", "commit"} /\ UNCHANGED <<req, tx>>
        /\ req[p].op = "deleteRoles"
    BY <1>0, <1>10 DEF RevokeRole, LocalsTyped, PlaceFits
  <2> QED
    BY <1>0, <2>1 DEF TxFits, DeleteOps
<1>11. CASE Commit(p) \/ Fail(p)
  BY <1>11, LeaveReturns, ReturnTx DEF Commit, Fail
<1> QED
  BY <1>1, <1>2, <1>3, <1>4, <1>5, <1>6, <1>7, <1>8, <1>9, <1>10, <1>11 DEF Step, Advance

LEMMA TxKept ==
  ASSUME NEW q \in Proc, TxFits(q), Own(q)' = Own(q)
  PROVE  TxFits(q)'
<1>1. /\ pc'[q] = pc[q] /\ req'[q] = req[q] /\ target'[q] = target[q]
      /\ todo'[q] = todo[q] /\ tx'[q] = tx[q]
  BY DEF Own
<1>2. TargetRows(q)' = TargetRows(q) /\ \A x : Row(q, x)' = Row(q, x)
  BY <1>1 DEF TargetRows, Row, UserSide
<1> QED
  BY <1>1, <1>2 DEF TxFits

(* Memberships are of users and roles that were inserted.                  *)
LEMMA StepOfNew ==
  ASSUME IInv, LinkInv, NEW p \in Proc, Receive(p) \/ Step(p)
  PROVE  NewIsNew'
<1>0. /\ LocalsTyped /\ nextUser \in Nat \ {0} /\ nextRole \in Nat \ {0}
      /\ \A q \in Proc \ {p} : tx'[q] = tx[q]
  BY Split, OthersKept, BoundsAssumption DEF IInv, TypeOK, Own
<1> USE DEF NewIsNew, LinkInv
<1>1. CASE InsertUser(p) \/ InsertRole(p)
  <2>1. /\ links' = links /\ roleUser' = roleUser
        /\ \/ users' = users \cup {nextUser} /\ nextUser' = nextUser + 1 /\ UNCHANGED <<roles, nextRole>>
           \/ roles' = roles \cup {nextRole} /\ nextRole' = nextRole + 1 /\ UNCHANGED <<users, nextUser>>
    BY <1>1 DEF InsertUser, InsertRole, enforcer
  <2>2. tx'[p].rows \in {{}, tx[p].rows}
    <3>1. CASE Leave(p)
      BY <1>0, <3>1, LeaveReturns DEF Return, LocalsTyped, NoTx
    <3>2. CASE ~ Leave(p)
      BY <1>1, <3>2 DEF InsertUser, InsertRole, Prepared
    <3> QED
      BY <3>1, <3>2
  <2>3. users' \subseteq 1..(nextUser' - 1) /\ roles' \subseteq 1..(nextRole' - 1)
    <3>1. 1..(nextUser - 1) \cup {nextUser} = 1..((nextUser + 1) - 1)
      BY <1>0
    <3>2. 1..(nextRole - 1) \cup {nextRole} = 1..((nextRole + 1) - 1)
      BY <1>0
    <3> QED
      BY <2>1, <3>1, <3>2
  <2>4. \A c \in Pairs : Known(c) => Known(c)'
    BY <1>0, <2>1 DEF Known, Pairs, UserIds, RoleIds
  <2>5. /\ links \cup roleUser \subseteq Pairs
        /\ \A q \in Proc : tx[q].rows \subseteq Pairs
    BY DEF IInv, TypeOK, Transaction
  <2> QED
    BY <1>0, <2>1, <2>2, <2>3, <2>4, <2>5
<1>2. CASE ~ (InsertUser(p) \/ InsertRole(p))
  <2>1. /\ nextUser' = nextUser /\ nextRole' = nextRole
        /\ users' \subseteq users /\ roles' \subseteq roles
    <3>1. CASE Receive(p) \/ Fail(p) \/ UpdateUser(p) \/ UpdateRole(p)
      BY <3>1 DEF Receive, Fail, UpdateUser, UpdateRole, database
    <3>2. CASE ResetRole(p) \/ AddRolePermission(p)
      BY <3>2 DEF ResetRole, AddRolePermission, database
    <3>3. CASE \/ BeginSync(p) \/ ReadCurrent(p) \/ RemoveRoleForUser(p) \/ DeleteRows(p)
               \/ InsertRow(p) \/ AddRoleForUser(p) \/ LogSync(p)
      BY <3>3 DEF BeginSync, ReadCurrent, RemoveRoleForUser, DeleteRows, InsertRow,
          AddRoleForUser, LogSync, database
    <3>4. CASE ReadUsers(p) \/ DeleteUser(p) \/ ReadRoles(p) \/ DeleteRoles(p) \/ RevokeRole(p)
      BY <3>4 DEF ReadUsers, DeleteUser, ReadRoles, DeleteRoles, RevokeRole, database
    <3>5. CASE Commit(p)
      BY <3>5 DEF Commit
    <3> QED
      BY <1>2, <3>1, <3>2, <3>3, <3>4, <3>5 DEF Step, Advance
  <2>2. roleUser' \subseteq roleUser \cup tx[p].rows
    <3>1. CASE Commit(p)
      BY <3>1 DEF Commit
    <3>2. CASE ~ Commit(p)
      <4>1. CASE Receive(p) \/ Fail(p) \/ UpdateUser(p) \/ UpdateRole(p)
        BY <4>1 DEF Receive, Fail, UpdateUser, UpdateRole, database
      <4>2. CASE ResetRole(p) \/ AddRolePermission(p)
        BY <4>2 DEF ResetRole, AddRolePermission, database
      <4>3. CASE \/ BeginSync(p) \/ ReadCurrent(p) \/ RemoveRoleForUser(p) \/ DeleteRows(p)
                 \/ InsertRow(p) \/ AddRoleForUser(p) \/ LogSync(p)
        BY <4>3 DEF BeginSync, ReadCurrent, RemoveRoleForUser, DeleteRows, InsertRow,
            AddRoleForUser, LogSync, database
      <4>4. CASE ReadUsers(p) \/ DeleteUser(p) \/ ReadRoles(p) \/ DeleteRoles(p) \/ RevokeRole(p)
        BY <4>4 DEF ReadUsers, DeleteUser, ReadRoles, DeleteRoles, RevokeRole, database
      <4> QED
        BY <1>2, <3>2, <4>1, <4>2, <4>3, <4>4 DEF Step, Advance
    <3> QED
      BY <3>1, <3>2
  <2>3. links' \subseteq links \cup tx[p].rows
    <3>1. CASE Receive(p) \/ Fail(p) \/ UpdateUser(p) \/ UpdateRole(p) \/ Commit(p)
      BY <3>1 DEF Receive, Fail, UpdateUser, UpdateRole, Commit, enforcer
    <3>2. CASE ResetRole(p) \/ AddRolePermission(p)
      BY <3>2 DEF ResetRole, AddRolePermission
    <3>3. CASE \/ BeginSync(p) \/ ReadCurrent(p) \/ RemoveRoleForUser(p) \/ DeleteRows(p)
               \/ InsertRow(p) \/ AddRoleForUser(p) \/ LogSync(p)
      BY <3>3 DEF BeginSync, ReadCurrent, RemoveRoleForUser, DeleteRows, InsertRow,
          AddRoleForUser, LogSync, enforcer
    <3>4. CASE ReadUsers(p) \/ DeleteUser(p) \/ ReadRoles(p) \/ DeleteRoles(p) \/ RevokeRole(p)
      BY <3>4 DEF ReadUsers, DeleteUser, ReadRoles, DeleteRoles, RevokeRole, enforcer
    <3> QED
      BY <1>2, <3>1, <3>2, <3>3, <3>4 DEF Step, Advance
  <2>4. \A c \in tx'[p].rows : c \in tx[p].rows \/ c \in users \X roles
    <3>1. CASE Leave(p)
      BY <1>0, <3>1, LeaveReturns DEF Return, LocalsTyped, NoTx
    <3>2. CASE InsertRow(p)
      <4>1. PICK x \in todo[p] : /\ ParentsExist(p, x)
                                 /\ tx' = [tx EXCEPT ![p].rows = @ \cup {Row(p, x)}]
        BY <3>2 DEF InsertRow
      <4> QED
        BY <1>0, <4>1 DEF ParentsExist, LocalsTyped, Transaction
    <3>3. CASE ~ Leave(p) /\ (UpdateUser(p) \/ UpdateRole(p))
      BY <3>3 DEF UpdateUser, UpdateRole, Prepared
    <3>4. CASE ~ Leave(p) /\ (Receive(p) \/ ResetRole(p) \/ AddRolePermission(p))
      BY <3>4 DEF Receive, ResetRole, AddRolePermission
    <3>5. CASE ~ Leave(p) /\ (BeginSync(p) \/ ReadUsers(p) \/ ReadRoles(p))
      BY <1>0, <3>5 DEF BeginSync, ReadUsers, ReadRoles, LocalsTyped, Begin, NoTx
    <3>6. CASE ReadCurrent(p) \/ RemoveRoleForUser(p) \/ AddRoleForUser(p) \/ RevokeRole(p)
      BY <3>6 DEF ReadCurrent, RemoveRoleForUser, AddRoleForUser, RevokeRole
    <3>7. CASE DeleteRows(p)
      BY <1>0, <3>7 DEF DeleteRows, LocalsTyped, Transaction
    <3>8. CASE DeleteRoles(p)
      BY <1>0, <3>8 DEF DeleteRoles, LocalsTyped, Transaction
    <3>9. CASE DeleteUser(p)
      <4>1. PICK u \in todo[p] : tx' = [tx EXCEPT ![p] = DeleteEntity(@, u)]
        BY <3>9 DEF DeleteUser
      <4> QED
        BY <1>0, <4>1 DEF DeleteEntity, LocalsTyped, Transaction
    <3>10. CASE LogSync(p)
      BY <1>0, <3>10 DEF LogSync, LocalsTyped, Transaction
    <3>11. CASE Commit(p) \/ Fail(p)
      BY <3>1, <3>11 DEF Commit, Fail
    <3> QED
      BY <1>2, <3>1, <3>2, <3>3, <3>4, <3>5, <3>6, <3>7, <3>8, <3>9, <3>10, <3>11
      DEF Step, Advance
  <2>5. ASSUME NEW c \in users \X roles PROVE Known(c)
    <3>1. c[1] \in 1..(nextUser - 1) /\ c[2] \in 1..(nextRole - 1)
      OBVIOUS
    <3> QED
      BY <1>0, <3>1 DEF Known
  <2>6. \A c : Known(c) => Known(c)'
    BY <2>1 DEF Known
  <2>7. \A q \in Proc : \A c \in tx'[q].rows : Known(c)
    BY <1>0, <2>4, <2>5
  <2>8. /\ users' \subseteq 1..(nextUser' - 1) /\ roles' \subseteq 1..(nextRole' - 1)
        /\ 1 < nextUser' /\ 1 < nextRole'
    BY <2>1
  <2> QED
    BY <2>2, <2>3, <2>6, <2>7, <2>8
<1> QED
  BY <1>1, <1>2

LEMMA AgreesKept ==
  ASSUME NEW c, Agrees(c), c \in links' <=> c \in links, c \in roleUser' <=> c \in roleUser
  PROVE  Agrees(c)'
BY DEF Agrees

LEMMA PlaceKept ==
  ASSUME NEW q \in Proc, NEW c, Place(q, c), Own(q)' = Own(q),
         c \in links' <=> c \in links, c \in roleUser' <=> c \in roleUser
  PROVE  Place(q, c)'
<1>1. pc'[q] = pc[q] /\ req'[q] = req[q] /\ todo'[q] = todo[q]
  BY DEF Own
<1> QED
  BY <1>1 DEF Place, Agrees, End, UserSide

(* A pair of a new user or a new role is in neither table.                 *)
LEMMA NewPair ==
  ASSUME IInv, LinkInv, NEW p \in Proc, Receive(p) \/ Step(p),
         NEW c \in users' \X roles', c \notin users \X roles
  PROVE  /\ Agrees(c) /\ Agrees(c)' /\ c \in Pairs
         /\ c \in Others(p) => c \in suspect'
         /\ c \notin Busy(p)
<1>0. /\ LocalsTyped /\ TxFits(p) /\ users \subseteq UserIds /\ roles \subseteq RoleIds
      /\ nextUser \in Nat /\ nextRole \in Nat
  BY Split, BoundsAssumption DEF IInv, TypeOK, LinkInv
<1>1. \/ InsertUser(p) /\ c[1] = nextUser /\ nextUser \in UserIds
      \/ InsertRole(p) /\ c[2] = nextRole /\ nextRole \in RoleIds
  <2>1. CASE InsertUser(p)
    BY <1>0, <2>1, BoundsAssumption DEF InsertUser, IInv, TypeOK, UserIds
  <2>2. CASE InsertRole(p)
    BY <1>0, <2>2, BoundsAssumption DEF InsertRole, IInv, TypeOK, RoleIds
  <2>3. CASE ~ (InsertUser(p) \/ InsertRole(p))
    <3>1. users' \subseteq users /\ roles' \subseteq roles
      <4>1. CASE Receive(p) \/ Fail(p) \/ UpdateUser(p) \/ UpdateRole(p)
        BY <4>1 DEF Receive, Fail, UpdateUser, UpdateRole, database
      <4>2. CASE ResetRole(p) \/ AddRolePermission(p)
        BY <4>2 DEF ResetRole, AddRolePermission, database
      <4>3. CASE \/ BeginSync(p) \/ ReadCurrent(p) \/ RemoveRoleForUser(p) \/ DeleteRows(p)
                 \/ InsertRow(p) \/ AddRoleForUser(p) \/ LogSync(p)
        BY <4>3 DEF BeginSync, ReadCurrent, RemoveRoleForUser, DeleteRows, InsertRow,
            AddRoleForUser, LogSync, database
      <4>4. CASE ReadUsers(p) \/ DeleteUser(p) \/ ReadRoles(p) \/ DeleteRoles(p) \/ RevokeRole(p)
        BY <4>4 DEF ReadUsers, DeleteUser, ReadRoles, DeleteRoles, RevokeRole, database
      <4>5. CASE Commit(p)
        BY <4>5 DEF Commit
      <4> QED
        BY <2>3, <4>1, <4>2, <4>3, <4>4, <4>5 DEF Step, Advance
    <3> QED
      BY <3>1
  <2> QED
    BY <2>1, <2>2, <2>3
<1>2. c \in Pairs
  BY <1>0, <1>1 DEF InsertUser, InsertRole, Pairs
<1>3. ~ Known(c)
  BY <1>0, <1>1 DEF Known
<1>4. c \notin links /\ c \notin roleUser
  BY <1>3 DEF LinkInv, NewIsNew
<1>5. links' = links /\ roleUser' = roleUser
  BY <1>1 DEF InsertUser, InsertRole, enforcer
<1>6. target[p] = 0 /\ (UserSide(req[p]) \/ RoleSide(req[p]))
  BY <1>0, <1>1 DEF InsertUser, InsertRole, TxFits, UserSide, RoleSide
<1>7. c[1] # 0 /\ c[2] # 0
  BY <1>2, BoundsAssumption DEF Pairs, UserIds, RoleIds
<1>8. c \notin Busy(p)
  BY <1>2, <1>6, <1>7, BusyMeans
<1>9. c \in Others(p) => c \in suspect'
  <2>1. c \in Cells
    BY <1>2 DEF Pairs, Cells
  <2>2. CASE InsertUser(p) /\ c[1] = nextUser
    BY <1>7, <2>1, <2>2 DEF InsertUser, Footprint
  <2>3. CASE InsertRole(p) /\ c[2] = nextRole
    BY <2>1, <2>3 DEF InsertRole, Footprint
  <2> QED
    BY <1>1, <2>2, <2>3
<1> QED
  BY <1>2, <1>4, <1>5, <1>8, <1>9 DEF Agrees

LEMMA StepOfCells ==
  ASSUME IInv, PolicyInv, LinkInv, NEW p \in Proc, Receive(p) \/ Step(p)
  PROVE  CellsInv'
<1>0. /\ suspect \subseteq suspect' /\ OverlapsAreSuspect'
      /\ \A q \in Proc \ {p} : Own(q)' = Own(q) /\ Busy(q)' = Busy(q)
      /\ users' \subseteq UserIds /\ roles' \subseteq RoleIds
  <2>1. suspect \subseteq suspect'
    BY StepOfPolicies DEF PolicyInv, PolicyStep
  <2>2. PolicyInv' /\ IInv'
    BY PolicyNext, NextPreserves DEF Next
  <2>3. \A q \in Proc \ {p} : Own(q)' = Own(q) /\ Busy(q)' = Busy(q)
    BY Split, OthersKept, OthersGrants DEF IInv, PolicyInv
  <2> QED
    BY <2>1, <2>2, <2>3 DEF PolicyInv, IInv, TypeOK
<1> SUFFICES ASSUME NEW c \in (users' \X roles') \ suspect'
             PROVE  /\ c \notin Busied' => Agrees(c)'
                    /\ \A q \in Proc : c \in Busy(q)' => Place(q, c)'
  BY DEF CellsInv
<1>1. c \in Pairs /\ c \notin suspect
  BY <1>0 DEF Pairs
<1>2. CASE c \notin users \X roles
  <2>1. Agrees(c) /\ Agrees(c)' /\ c \notin Others(p) /\ c \notin Busy(p)
    BY <1>2, NewPair
  <2>2. c \in Busy(p)' => Place(p, c)'
    BY <1>1, <2>1, CellTaken
  <2>3. \A q \in Proc \ {p} : c \notin Busy(q)'
    BY <1>0, <2>1 DEF Others
  <2> QED
    BY <2>1, <2>2, <2>3
<1>3. CASE c \in users \X roles /\ c \in Busy(p)
  <2>1. Place(p, c)
    BY <1>1, <1>3 DEF LinkInv, CellsInv
  <2>2. CellFits(p, c)'
    BY <1>1, <1>3, <2>1, CellStep
  <2>3. \A q \in Proc \ {p} : c \notin Busy(q)'
    BY <1>0, <1>1, <1>3 DEF PolicyInv, OverlapsAreSuspect
  <2>4. c \notin Busied' => c \notin Busy(p)'
    BY DEF Busied
  <2> QED
    BY <2>2, <2>3, <2>4 DEF CellFits
<1>4. CASE c \in users \X roles /\ c \notin Busy(p)
  <2>1. (c \in links' <=> c \in links) /\ (c \in roleUser' <=> c \in roleUser)
    BY <1>1, <1>4, CellKept DEF PolicyInv, LinkInv
  <2>2. CASE c \in Busied
    <3>1. PICK q \in Proc \ {p} : c \in Busy(q)
      BY <1>4, <2>2 DEF Busied
    <3>2. c \in Busy(q)'
      BY <1>0, <3>1
    <3>3. Place(q, c)'
      <4>1. Place(q, c)
        BY <1>1, <1>4, <3>1 DEF LinkInv, CellsInv
      <4> QED
        BY <1>0, <2>1, <4>1, PlaceKept
    <3>4. \A r \in Proc \ {q} : c \notin Busy(r)'
      BY <1>0, <3>2 DEF OverlapsAreSuspect
    <3>5. c \in Busied'
      BY <3>2 DEF Busied
    <3> QED
      BY <3>3, <3>4, <3>5
  <2>3. CASE c \notin Busied
    <3>1. Agrees(c)
      BY <1>1, <1>4, <2>3 DEF LinkInv, CellsInv
    <3>2. Agrees(c)'
      BY <2>1, <3>1, AgreesKept
    <3>3. c \in Busy(p)' => Place(p, c)'
      BY <1>1, <1>4, <3>1, CellTaken
    <3>4. \A q \in Proc \ {p} : c \notin Busy(q)'
      BY <1>0, <2>3 DEF Busied
    <3> QED
      BY <3>2, <3>3, <3>4
  <2> QED
    BY <2>2, <2>3
<1> QED
  BY <1>2, <1>3, <1>4

(* A restart ends every request: what it had touched becomes suspect.      *)
LEMMA RestartOfLinks ==
  ASSUME IInv, PolicyInv, LinkInv, Restart
  PROVE  LinkInv'
<1>1. \A p \in Proc : TxFits(p)' /\ Busy(p)' = {} /\ tx'[p].rows = {}
  BY IdleBusy DEF Restart, TxFits, Busy, NoTx, NoRequest
<1>2. /\ UNCHANGED <<users, roles, roleUser, nextUser, nextRole>>
      /\ links' = links \cup {<<1, 1>>} /\ suspect \subseteq suspect'
  BY DEF Restart, database
<1>3. NewIsNew'
  <2>1. 1 < nextUser /\ 1 < nextRole
    BY DEF LinkInv, NewIsNew
  <2>2. Known(<<1, 1>>)
    BY <2>1 DEF Known
  <2>3. \A c : Known(c) <=> Known(c)'
    BY <1>2 DEF Known
  <2> QED
    BY <1>1, <1>2, <2>2, <2>3 DEF LinkInv, NewIsNew
<1>4. CellsInv'
  <2> SUFFICES ASSUME NEW c \in (users \X roles) \ suspect'
               PROVE  Agrees(c)'
    BY <1>1, <1>2 DEF CellsInv
  <2>1. Agrees(c)
    <3>1. CASE c \notin Busied
      BY <1>2, <3>1 DEF LinkInv, CellsInv
    <3>2. CASE c \in Busied
      <4>1. PICK p \in Proc : c \in Busy(p)
        BY <3>2 DEF Busied
      <4>2. ~ EnforcerTouched(p) /\ Place(p, c)
        BY <1>2, <4>1 DEF Restart, LinkInv, CellsInv
      <4>3. pc[p] \in Labels /\ pc[p] # "idle"
        BY <4>1, IdleBusy DEF IInv, TypeOK, PolicyInv, PolicyFits, Busy
      <4> QED
        BY <4>2, <4>3 DEF EnforcerTouched, Place, Labels
    <3> QED
      BY <3>1, <3>2
  <2> QED
    BY <1>2, <2>1 DEF Agrees
<1> QED
  BY <1>1, <1>3, <1>4 DEF LinkInv

LEMMA LinkNext == IInv /\ PolicyInv /\ LinkInv /\ [Next]_vars => LinkInv'
<1> SUFFICES ASSUME IInv, PolicyInv, LinkInv, [Next]_vars
             PROVE  LinkInv'
  OBVIOUS
<1>1. ASSUME NEW p \in Proc, Receive(p) \/ Step(p)
      PROVE  LinkInv'
  <2>1. TxFits(p)' /\ NewIsNew' /\ CellsInv'
    BY <1>1, StepOfTx, StepOfNew, StepOfCells
  <2>2. ASSUME NEW q \in Proc \ {p} PROVE TxFits(q)'
    <3>1. TxFits(q) /\ Own(q)' = Own(q)
      BY <1>1, Split, OthersKept DEF IInv, LinkInv
    <3> QED
      BY <3>1, TxKept
  <2> QED
    BY <2>1, <2>2 DEF LinkInv
<1>2. CASE Restart
  BY <1>2, RestartOfLinks
<1>3. CASE UNCHANGED vars
  <2>1. /\ UNCHANGED <<users, roles, roleUser, nextUser, nextRole, links, suspect, tx>>
        /\ \A p \in Proc : Own(p)' = Own(p) /\ Busy(p)' = Busy(p)
    BY <1>3 DEF vars, database, enforcer, locals, Own, Busy
  <2>2. \A p \in Proc : TxFits(p)'
    BY <2>1, TxKept DEF LinkInv
  <2>3. NewIsNew'
    BY <2>1 DEF LinkInv, NewIsNew, Known
  <2>4. \A c : (Agrees(c) => Agrees(c)') /\ \A p \in Proc : Place(p, c) => Place(p, c)'
    BY <2>1, AgreesKept, PlaceKept
  <2>5. CellsInv'
    BY <2>1, <2>4 DEF LinkInv, CellsInv, Busied
  <2> QED
    BY <2>2, <2>3, <2>5 DEF LinkInv
<1> QED
  BY <1>1, <1>2, <1>3 DEF Next

LEMMA LinkInit == Init => LinkInv
<1> SUFFICES ASSUME Init PROVE LinkInv
  OBVIOUS
<1>1. \A p \in Proc : TxFits(p) /\ Busy(p) = {} /\ tx[p].rows = {}
  BY IdleBusy DEF Init, TxFits, Busy, NoTx, NoRequest
<1>2. NewIsNew
  <2>1. /\ InitialUsers \in Nat /\ InitialRoles \in Nat
        /\ nextUser = InitialUsers + 1 /\ nextRole = InitialRoles + 1
        /\ users = 1..InitialUsers /\ roles = 1..InitialRoles
        /\ links = InitialMembers /\ roleUser = InitialMembers
    BY BoundsAssumption DEF Init
  <2>2. \A c \in InitialMembers : c[1] \in 1..InitialUsers /\ c[2] \in 1..InitialRoles
    BY InitialAssumption
  <2>3. /\ users \subseteq 1..(nextUser - 1) /\ roles \subseteq 1..(nextRole - 1)
        /\ 1 < nextUser /\ 1 < nextRole
    <3>1. 1 \in 1..InitialUsers /\ 1 \in 1..InitialRoles
      BY <2>2, InitialAssumption
    <3> QED
      BY <2>1, <3>1
  <2>4. \A c \in InitialMembers : Known(c)
    BY <2>1, <2>2 DEF Known
  <2> QED
    BY <1>1, <2>1, <2>3, <2>4 DEF NewIsNew
<1>3. CellsInv
  BY <1>1 DEF Init, CellsInv, Agrees
<1> QED
  BY <1>1, <1>2, <1>3 DEF LinkInv

(* LinksAgree: the enforcer is changed call by call while role_user waits  *)
(* for the commit of SyncRoles, SyncUsers or Delete, and yet, whatever     *)
(* other requests do meanwhile and whatever fails, they agree on every     *)
(* membership that no two requests changed at once and no interrupted      *)
(* request had touched.                                                    *)
THEOREM EnforcerGrantsMemberships == Spec => []LinksAgree
<1>1. LinkInv => LinksAgree
  BY DEF LinkInv, CellsInv, LinksAgree, Agrees
<1> QED
  BY <1>1, InitEstablishes, NextPreserves, PolicyInit, PolicyNext, LinkInit, LinkNext, PTL DEF Spec

-----------------------------------------------------------------------------
(* The newest entry of a user                                              *)

SyncIn(log, u) == {i \in DOMAIN log : log[i].action = "roles" /\ log[i].user = u}

(* An entry with the roles new is true of user u.                          *)
Tells(u, new) ==
    u \in users =>
        \A r \in roles : <<u, r>> \notin unlogged => (<<u, r>> \in roleUser <=> r \in new)

IsNewest(u, i) ==
    i \in SyncIn(audit, u) /\ \A j \in SyncIn(audit, u) : audit[j].id <= audit[i].id

Recorded(u) ==
    /\ SyncIn(audit, u) # {} => \E i \in SyncIn(audit, u) : IsNewest(u, i)
    /\ \A i \in SyncIn(audit, u) : IsNewest(u, i) => Tells(u, audit[i].new)

(* Entries are about ids that were given out, and have one.                *)
Given(e) == e.user < nextUser /\ e.id < nextEntry /\ e.new \subseteq 1..(nextRole - 1)
EntriesKnown == \A i \in DOMAIN audit : audit[i].action = "roles" => Given(audit[i])

(* The entry p is about to commit is newer than those of its user.         *)
Newer(p, e) ==
    /\ e.action = "roles" /\ e.user = target[p] /\ e.new = req[p].ids /\ Given(e)
    /\ \A j \in SyncIn(audit, target[p]) : audit[j].id < e.id

(* What a transaction holds until its commit.                              *)
Syncing == {"current", "unlink", "clear", "insert", "link", "log"}
HoldsFits(p) ==
    /\ UserSide(req[p]) /\ pc[p] \in Syncing \cup {"begin", "commit"} =>
         target[p] \in 1..(nextUser - 1)
    /\ pc[p] \in Syncing => tx[p].log = <<>>
    /\ IF pc[p] = "commit" /\ UserSide(req[p])
       THEN \E e \in AuditEntry : tx[p].log = <<e>> /\ Newer(p, e)
       ELSE \A i \in DOMAIN tx[p].log : tx[p].log[i].action # "roles"

LocksApart == \A p \in Proc : \A q \in Proc \ {p} : tx[p].locked \cap tx[q].locked = {}

RecordInv ==
    /\ \A p \in Proc : HoldsFits(p)
    /\ LocksApart /\ EntriesKnown
    /\ \A u \in UserIds : Recorded(u)

LEMMA NoSyncAppended ==
  ASSUME NEW s \in Seq(AuditEntry), NEW t \in Seq(AuditEntry)
  PROVE  /\ \A i \in DOMAIN s : i \in DOMAIN (s \o t) /\ (s \o t)[i] = s[i]
         /\ \A i \in DOMAIN (s \o t) : \/ i \in DOMAIN s /\ (s \o t)[i] = s[i]
                                       \/ \E k \in DOMAIN t : (s \o t)[i] = t[k]
         /\ \A u : (\A k \in DOMAIN t : t[k].action = "roles" => t[k].user # u)
                     => SyncIn(s \o t, u) = SyncIn(s, u)
<1>1. /\ Len(s) \in Nat /\ Len(t) \in Nat /\ DOMAIN s = 1..Len(s) /\ DOMAIN t = 1..Len(t)
      /\ DOMAIN (s \o t) = 1..(Len(s) + Len(t))
  OBVIOUS
<1>2. \A i \in DOMAIN s : i \in DOMAIN (s \o t) /\ (s \o t)[i] = s[i]
  BY <1>1
<1>3. ASSUME NEW i \in DOMAIN (s \o t)
      PROVE  \/ i \in DOMAIN s /\ (s \o t)[i] = s[i]
             \/ i - Len(s) \in DOMAIN t /\ (s \o t)[i] = t[i - Len(s)]
  BY <1>1, <1>3
<1>4. \A i \in DOMAIN (s \o t) : \/ i \in DOMAIN s /\ (s \o t)[i] = s[i]
                                 \/ \E k \in DOMAIN t : (s \o t)[i] = t[k]
  BY <1>3
<1>5. ASSUME NEW u, \A k \in DOMAIN t : t[k].action = "roles" => t[k].user # u
      PROVE  SyncIn(s \o t, u) = SyncIn(s, u)
  BY <1>2, <1>4, <1>5 DEF SyncIn
<1> QED
  BY <1>2, <1>4, <1>5

LEMMA SyncAppended ==
  ASSUME NEW s \in Seq(AuditEntry), NEW e \in AuditEntry, e.action = "roles"
  PROVE  \E n : /\ SyncIn(s \o <<e>>, e.user) = SyncIn(s, e.user) \cup {n}
                /\ n \notin DOMAIN s /\ (s \o <<e>>)[n] = e
<1> DEFINE n == Len(s) + 1
           a == s \o <<e>>
<1>1. /\ Len(s) \in Nat /\ DOMAIN s = 1..Len(s) /\ DOMAIN a = 1..n /\ a[n] = e
      /\ \A i \in DOMAIN s : a[i] = s[i]
  OBVIOUS
<1>2. DOMAIN a = DOMAIN s \cup {n} /\ n \notin DOMAIN s
  BY <1>1
<1> HIDE DEF n, a
<1>3. SyncIn(a, e.user) = SyncIn(s, e.user) \cup {n}
  BY <1>1, <1>2 DEF SyncIn
<1> QED
  BY <1>1, <1>2, <1>3 DEF a

LEMMA ReturnHolds ==
  ASSUME IInv, NEW p \in Proc, Return(p)
  PROVE  HoldsFits(p)' /\ tx'[p].locked = {}
<1>1. pc'[p] = "idle" /\ tx'[p] = NoTx
  BY DEF IInv, TypeOK, Return, Leave
<1>2. NoTx.locked = {} /\ DOMAIN NoTx.log = {}
  BY DEF NoTx
<1> QED
  BY <1>1, <1>2 DEF HoldsFits, Syncing

(* LogSync takes an id above all others, for ids that were given out.      *)
LEMMA LoggedIsNewer ==
  ASSUME IInv, LinkInv, RecordInv, NEW p \in Proc, LogSync(p)
  PROVE  HoldsFits(p)'
<1>0. /\ LocalsTyped /\ TxFits(p) /\ HoldsFits(p) /\ NewIsNew /\ EntriesKnown
      /\ tx[p] \in Transaction /\ audit \in Seq(AuditEntry)
      /\ nextEntry \in Nat /\ nextRole \in Nat /\ pc[p] = "log"
  BY Split, BoundsAssumption DEF IInv, TypeOK, LinkInv, RecordInv, LogSync
<1>e. PICK e : e = SyncEntry(p)
  OBVIOUS
<1>1. /\ e \in AuditEntry /\ e.action = "roles" /\ e.id = nextEntry
      /\ e.user = target[p] /\ e.new = req[p].ids
      /\ UserSide(req[p]) /\ req[p].ids \subseteq RoleIds
  BY <1>0, <1>e, SyncEntryTyped
<1>2. /\ tx'[p].log = Append(tx[p].log, e) /\ pc'[p] = "commit"
      /\ nextEntry' = nextEntry + 1
      /\ UNCHANGED <<audit, nextUser, nextRole, req, target>>
  BY <1>0, <1>e DEF LogSync, LocalsTyped, Transaction
<1>3. target[p] \in 1..(nextUser - 1) /\ tx[p].log = <<>>
  BY <1>0, <1>1 DEF HoldsFits, Syncing
<1>4. tx'[p].log = <<e>>
  BY <1>2, <1>3
<1>5. req[p].ids \subseteq 1..(nextRole - 1)
  <2> SUFFICES ASSUME NEW x \in req[p].ids PROVE x \in 1..(nextRole - 1)
    OBVIOUS
  <2>1. Row(p, x) \in tx[p].rows /\ Row(p, x)[2] = x
    BY <1>0, <1>1 DEF TxFits, Row, UserSide, DeleteOps
  <2>2. x < nextRole
    BY <1>0, <2>1 DEF NewIsNew, Known
  <2> QED
    BY <1>0, <1>1, <2>2, BoundsAssumption DEF RoleIds
<1>6. \A j \in SyncIn(audit, target[p]) : audit[j].id < nextEntry
  BY <1>0 DEF SyncIn, EntriesKnown, Given
<1>7. Newer(p, e)'
  <2>1. target[p] < nextUser /\ nextEntry < nextEntry + 1
    BY <1>0, <1>3, BoundsAssumption DEF IInv, TypeOK
  <2>2. Given(e)'
    BY <1>1, <1>2, <1>5, <2>1 DEF Given
  <2> QED
    BY <1>1, <1>2, <1>6, <2>2 DEF Newer
<1> QED
  BY <1>1, <1>2, <1>3, <1>4, <1>7 DEF HoldsFits, Syncing

(* The transaction of p behind a step of p.                                *)
LEMMA StepOfHolds ==
  ASSUME IInv, LinkInv, RecordInv, NEW p \in Proc, Receive(p) \/ Step(p)
  PROVE  HoldsFits(p)'
<1>0. /\ LocalsTyped /\ PlaceFits(p) /\ HoldsFits(p) /\ tx[p] \in Transaction
      /\ nextUser \in Nat \ {0} /\ users \subseteq 1..(nextUser - 1)
  BY Split, BoundsAssumption DEF IInv, LinkInv, RecordInv, Fits, TypeOK, NewIsNew
<1>a. NoTx.log = <<>> /\ Begin.log = <<>> /\ DOMAIN NoTx.log = {} /\ DOMAIN Begin.log = {}
  BY DEF NoTx, Begin
<1>1. CASE Receive(p)
  <2>1. tx'[p] = NoTx /\ pc'[p] \in {"read", "prepare"}
    BY <1>0, <1>1 DEF Receive, LocalsTyped, PlaceFits, InTransaction
  <2> QED
    BY <1>a, <2>1 DEF HoldsFits, Syncing
<1>2. CASE Leave(p)
  BY <1>2, LeaveReturns, ReturnHolds
<1>3. CASE ~ Leave(p) /\ (InsertUser(p) \/ UpdateUser(p) \/ InsertRole(p) \/ UpdateRole(p))
  <2>1. PICK t : /\ Prepared(p, t) /\ tx'[p] = NoTx
                 /\ UserSide(req[p]) => t \in 1..(nextUser' - 1)
    <3>1. pc[p] = "prepare" /\ tx'[p] = NoTx
      BY <1>0, <1>3 DEF InsertUser, UpdateUser, InsertRole, UpdateRole, PlaceFits, InTransaction
    <3>2. CASE InsertUser(p)
      <4>1. nextUser \in 1..((nextUser + 1) - 1)
        BY <1>0
      <4> QED
        BY <3>1, <3>2, <4>1 DEF InsertUser
    <3>3. CASE UpdateUser(p)
      BY <1>0, <3>1, <3>3 DEF UpdateUser, database
    <3>4. CASE InsertRole(p) \/ UpdateRole(p)
      BY <3>1, <3>4 DEF InsertRole, UpdateRole, UserSide
    <3> QED
      BY <1>3, <3>2, <3>3, <3>4
  <2>2. pc'[p] \in {"reset", "begin"} /\ target'[p] = t /\ req'[p] = req[p]
    BY <1>0, <1>3, <2>1 DEF Prepared, LocalsTyped
  <2> QED
    BY <1>a, <2>1, <2>2 DEF HoldsFits, Syncing, UserSide
<1>4. CASE ~ Leave(p) /\ (ResetRole(p) \/ AddRolePermission(p))
  <2>1. /\ tx'[p] = NoTx /\ UNCHANGED req /\ RoleSide(req[p]) /\ pc'[p] \in {"grant", "begin"}
    BY <1>0, <1>4 DEF ResetRole, AddRolePermission, LocalsTyped, PlaceFits, InTransaction
  <2> QED
    BY <1>a, <2>1 DEF HoldsFits, Syncing, UserSide, RoleSide
<1>5. CASE \/ BeginSync(p) \/ ReadCurrent(p) \/ RemoveRoleForUser(p) \/ DeleteRows(p)
           \/ InsertRow(p) \/ AddRoleForUser(p)
  <2>1. /\ UNCHANGED <<req, target, nextUser>> /\ pc[p] \in Syncing \cup {"begin"}
        /\ pc'[p] \in Syncing \/ (pc'[p] = "commit" /\ ~ UserSide(req[p]))
    <3>1. CASE BeginSync(p) \/ ReadCurrent(p) \/ RemoveRoleForUser(p)
      BY <1>0, <3>1 DEF BeginSync, ReadCurrent, RemoveRoleForUser, Syncing, LocalsTyped, database
    <3>2. CASE DeleteRows(p) \/ InsertRow(p) \/ AddRoleForUser(p)
      BY <1>0, <3>2
      DEF DeleteRows, InsertRow, AddRoleForUser, AllInserted, Syncing, LocalsTyped, database
    <3> QED
      BY <1>5, <3>1, <3>2
  <2>2. tx'[p].log = <<>>
    <3>1. CASE BeginSync(p)
      BY <1>0, <1>a, <3>1 DEF BeginSync, LocalsTyped
    <3>2. pc[p] # "begin" => tx[p].log = <<>>
      BY <1>0, <2>1 DEF HoldsFits
    <3>3. CASE ReadCurrent(p) \/ RemoveRoleForUser(p) \/ AddRoleForUser(p)
      BY <3>2, <3>3 DEF ReadCurrent, RemoveRoleForUser, AddRoleForUser
    <3>4. CASE DeleteRows(p) \/ InsertRow(p)
      BY <1>0, <3>2, <3>4 DEF DeleteRows, InsertRow, LocalsTyped, Transaction
    <3> QED
      BY <1>5, <3>1, <3>3, <3>4
  <2>3. DOMAIN tx'[p].log = {}
    BY <2>2
  <2>4. UserSide(req[p]) => target[p] \in 1..(nextUser - 1)
    BY <1>0, <2>1 DEF HoldsFits
  <2> QED
    BY <2>1, <2>2, <2>3, <2>4 DEF HoldsFits, Syncing, UserSide
<1>6. CASE LogSync(p)
  BY <1>6, LoggedIsNewer
<1>7. CASE \/ ~ Leave(p) /\ (ReadUsers(p) \/ ReadRoles(p))
           \/ DeleteUser(p) \/ DeleteRoles(p) \/ RevokeRole(p)
  <2>1. /\ req'[p] = req[p] /\ req[p].op \in DeleteOps /\ pc[p] \in {"read", "delete", "revoke"}
        /\ pc'[p] \in {"delete", "revoke", "commit"}
    BY <1>0, <1>7
    DEF ReadUsers, ReadRoles, DeleteUser, DeleteRoles, RevokeRole, LocalsTyped, PlaceFits, DeleteOps
  <2>2. \A i \in DOMAIN tx[p].log : tx[p].log[i].action # "roles"
    BY <1>0, <2>1 DEF HoldsFits
  <2>3. \A i \in DOMAIN tx'[p].log : tx'[p].log[i].action # "roles"
    <3>1. CASE ~ Leave(p) /\ (ReadUsers(p) \/ ReadRoles(p))
      <4>1. tx'[p] = Begin
        BY <1>0, <3>1 DEF ReadUsers, ReadRoles, LocalsTyped
      <4> QED
        BY <1>a, <4>1
    <3>2. CASE DeleteUser(p)
      <4>1. PICK u \in todo[p] : tx' = [tx EXCEPT ![p] = DeleteEntity(@, u)]
        BY <3>2 DEF DeleteUser
      <4>2. PICK e : e = Entry(0, "deleted", u, {}, {})
        OBVIOUS
      <4>3. /\ tx'[p].log = Append(tx[p].log, e) /\ tx[p].log \in Seq(AuditEntry)
            /\ e.action = "deleted"
        BY <1>0, <4>1, <4>2 DEF DeleteEntity, LocalsTyped, Transaction, Entry
      <4> QED
        BY <2>2, <4>3
    <3>3. CASE DeleteRoles(p)
      <4>1. tx'[p].log = tx[p].log
        BY <1>0, <3>3 DEF DeleteRoles, LocalsTyped, Transaction
      <4> QED
        BY <2>2, <4>1
    <3>4. CASE RevokeRole(p)
      BY <2>2, <3>4 DEF RevokeRole
    <3> QED
      BY <1>7, <3>1, <3>2, <3>3, <3>4
  <2> QED
    BY <2>1, <2>3 DEF HoldsFits, Syncing, UserSide, DeleteOps
<1>8. CASE Commit(p) \/ Fail(p)
  BY <1>8, LeaveReturns, ReturnHolds DEF Commit, Fail
<1> QED
  BY <1>1, <1>2, <1>3, <1>4, <1>5, <1>6, <1>7, <1>8 DEF Step, Advance

(* A step of p locks only what no other transaction has locked.            *)
LEMMA StepOfLocks ==
  ASSUME IInv, LocksApart, NEW p \in Proc, Receive(p) \/ Step(p)
  PROVE  LocksApart'
<1>0. LocalsTyped /\ \A q \in Proc : tx[q] \in Transaction
  BY Split DEF IInv, TypeOK
<1>1. \A q \in Proc \ {p} : tx'[q] = tx[q]
  BY <1>0, OthersKept DEF Own
<1>2. ASSUME NEW rows, Free(p, rows), tx'[p].locked \subseteq tx[p].locked \cup rows
      PROVE  \A q \in Proc \ {p} : tx'[p].locked \cap tx[q].locked = {}
  BY <1>2 DEF LocksApart, Free
<1>3. \A q \in Proc \ {p} : tx'[p].locked \cap tx[q].locked = {}
  <2>0. Free(p, {})
    BY DEF Free
  <2>1. CASE Leave(p)
    BY <2>1, LeaveReturns, ReturnHolds
  <2>2. CASE DeleteRows(p)
    BY <1>0, <1>2, <2>2 DEF DeleteRows, LocalsTyped, Transaction
  <2>3. CASE DeleteUser(p)
    <3>1. PICK u \in todo[p] : /\ Free(p, RowsOfUser(u))
                               /\ tx' = [tx EXCEPT ![p] = DeleteEntity(@, u)]
      BY <2>3 DEF DeleteUser
    <3>2. tx'[p].locked = tx[p].locked \cup RowsOfUser(u)
      BY <1>0, <3>1 DEF DeleteEntity, LocalsTyped, Transaction
    <3> QED
      BY <1>2, <3>1, <3>2
  <2>4. CASE DeleteRoles(p)
    BY <1>0, <1>2, <2>4 DEF DeleteRoles, LocalsTyped, Transaction
  <2>5. CASE ~ Leave(p) /\ (BeginSync(p) \/ ReadUsers(p) \/ ReadRoles(p))
    BY <1>0, <2>5 DEF BeginSync, ReadUsers, ReadRoles, LocalsTyped, Begin, NoTx
  <2>6. CASE InsertRow(p)
    <3>1. tx'[p].locked = tx[p].locked
      BY <1>0, <2>6 DEF InsertRow, LocalsTyped, Transaction
    <3> QED
      BY <1>2, <2>0, <3>1
  <2>7. CASE ReadCurrent(p) \/ RemoveRoleForUser(p) \/ AddRoleForUser(p) \/ RevokeRole(p) \/ Receive(p)
    <3>1. tx' = tx
      BY <2>7 DEF ReadCurrent, RemoveRoleForUser, AddRoleForUser, RevokeRole, Receive
    <3> QED
      BY <3>1 DEF LocksApart
  <2>8. CASE /\ ~ Leave(p)
             /\ \/ InsertUser(p) \/ UpdateUser(p) \/ InsertRole(p) \/ UpdateRole(p)
                \/ ResetRole(p) \/ AddRolePermission(p)
    <3>1. tx' = tx
      BY <2>8 DEF InsertUser, UpdateUser, InsertRole, UpdateRole, Prepared, ResetRole,
                  AddRolePermission
    <3> QED
      BY <3>1 DEF LocksApart
  <2>9. CASE LogSync(p)
    <3>1. tx'[p].locked = tx[p].locked
      BY <1>0, <2>9 DEF LogSync, LocalsTyped, Transaction
    <3> QED
      BY <1>2, <2>0, <3>1
  <2>10. CASE Commit(p) \/ Fail(p)
    BY <2>1, <2>10 DEF Commit, Fail
  <2> QED
    BY <2>1, <2>2, <2>3, <2>4, <2>5, <2>6, <2>7, <2>8, <2>9, <2>10 DEF Step, Advance
<1> QED
  BY <1>1, <1>3 DEF LocksApart

LEMMA TablesChange ==
  ASSUME NEW p \in Proc, Receive(p) \/ Step(p)
  PROVE  InsertUser(p) \/ InsertRole(p) \/ LogSync(p) \/ Commit(p) \/ UNCHANGED database
<1>1. CASE Receive(p) \/ Fail(p) \/ UpdateUser(p) \/ UpdateRole(p)
  BY <1>1 DEF Receive, Fail, UpdateUser, UpdateRole
<1>2. CASE ResetRole(p) \/ AddRolePermission(p)
  BY <1>2 DEF ResetRole, AddRolePermission
<1>3. CASE \/ BeginSync(p) \/ ReadCurrent(p) \/ RemoveRoleForUser(p) \/ DeleteRows(p)
           \/ InsertRow(p) \/ AddRoleForUser(p)
  BY <1>3 DEF BeginSync, ReadCurrent, RemoveRoleForUser, DeleteRows, InsertRow, AddRoleForUser
<1>4. CASE ReadUsers(p) \/ DeleteUser(p) \/ ReadRoles(p) \/ DeleteRoles(p) \/ RevokeRole(p)
  BY <1>4 DEF ReadUsers, DeleteUser, ReadRoles, DeleteRoles, RevokeRole
<1> QED
  BY <1>1, <1>2, <1>3, <1>4 DEF Step, Advance

(* What a step of p adds to the log: a user's roles by a commit only.      *)
Added(p, t) ==
    /\ t \in Seq(AuditEntry) /\ audit' = audit \o t
    /\ \A k \in DOMAIN t : t[k].action = "roles" =>
         /\ Commit(p) /\ pc[p] = "commit" /\ UserSide(req[p])
         /\ tx[p].log = <<t[k]>> /\ Newer(p, t[k])

LEMMA LogGrows ==
  ASSUME IInv, RecordInv, NEW p \in Proc, Receive(p) \/ Step(p)
  PROVE  /\ \E t : Added(p, t)
         /\ nextUser <= nextUser' /\ nextRole <= nextRole' /\ nextEntry <= nextEntry'
         /\ nextUser \in Nat /\ nextRole \in Nat /\ nextEntry \in Nat
         /\ nextUser' \in Nat /\ nextRole' \in Nat /\ nextEntry' \in Nat
<1>0. /\ nextUser \in Nat /\ nextRole \in Nat /\ nextEntry \in Nat
      /\ audit \in Seq(AuditEntry) /\ tx[p].log \in Seq(AuditEntry) /\ HoldsFits(p)
  BY BoundsAssumption DEF IInv, TypeOK, Transaction, RecordInv
<1>1. /\ nextUser' \in {nextUser, nextUser + 1} /\ nextRole' \in {nextRole, nextRole + 1}
      /\ nextEntry' \in {nextEntry, nextEntry + 1}
  BY TablesChange DEF InsertUser, InsertRole, LogSync, Commit, database
<1>2. CASE InsertUser(p)
  <2>1. PICK e : e = Entry(0, "created", nextUser, {}, {})
    OBVIOUS
  <2>2. e \in AuditEntry /\ e.action = "created" /\ audit' = Append(audit, e)
    BY <1>0, <1>2, <2>1, EntryTyped DEF InsertUser, Entry
  <2>3. <<e>> \in Seq(AuditEntry) /\ audit' = audit \o <<e>> /\ \A k \in DOMAIN <<e>> : <<e>>[k] = e
    BY <1>0, <2>2
  <2>4. Added(p, <<e>>)
    BY <2>2, <2>3 DEF Added
  <2> QED
    BY <1>0, <1>1, <2>4
<1>3. CASE Commit(p)
  <2>1. audit' = audit \o tx[p].log /\ pc[p] = "commit"
    BY <1>3 DEF Commit
  <2>2. CASE UserSide(req[p])
    <3>1. PICK e \in AuditEntry : tx[p].log = <<e>> /\ Newer(p, e)
      BY <1>0, <2>1, <2>2 DEF HoldsFits
    <3>2. \A k \in DOMAIN tx[p].log : tx[p].log[k] = e
      BY <3>1
    <3>3. Added(p, tx[p].log)
      BY <1>0, <1>3, <2>1, <2>2, <3>1, <3>2 DEF Added
    <3> QED
      BY <1>0, <1>1, <3>3
  <2>3. CASE ~ UserSide(req[p])
    <3>1. Added(p, tx[p].log)
      BY <1>0, <2>1, <2>3 DEF Added, HoldsFits
    <3> QED
      BY <1>0, <1>1, <3>1
  <2> QED
    BY <2>2, <2>3
<1>4. CASE UNCHANGED audit
  <2>1. <<>> \in Seq(AuditEntry) /\ audit' = audit \o <<>> /\ DOMAIN <<>> = {}
    BY <1>0, <1>4
  <2>2. Added(p, <<>>)
    BY <2>1 DEF Added
  <2> QED
    BY <1>0, <1>1, <2>2
<1> QED
  BY <1>2, <1>3, <1>4, TablesChange DEF InsertRole, LogSync, database

LEMMA GivenKept ==
  ASSUME IInv, RecordInv, NEW p \in Proc, Receive(p) \/ Step(p), NEW e \in AuditEntry, Given(e)
  PROVE  Given(e)'
<1>1. /\ nextUser <= nextUser' /\ nextRole <= nextRole' /\ nextEntry <= nextEntry'
      /\ nextUser \in Nat /\ nextRole \in Nat /\ nextEntry \in Nat
      /\ nextUser' \in Nat /\ nextRole' \in Nat /\ nextEntry' \in Nat
  BY LogGrows
<1>2. e.user \in Nat /\ e.id \in Nat
  BY DEF AuditEntry
<1>3. 1..(nextRole - 1) \subseteq 1..(nextRole' - 1)
  BY <1>1, RangeGrows
<1> QED
  BY <1>1, <1>2, <1>3 DEF Given

LEMMA EntriesStayKnown ==
  ASSUME IInv, RecordInv, NEW p \in Proc, Receive(p) \/ Step(p)
  PROVE  EntriesKnown'
<1>1. PICK t : Added(p, t)
  BY LogGrows
<1>2. audit \in Seq(AuditEntry) /\ \A i \in DOMAIN audit : audit[i] \in AuditEntry
  BY DEF IInv, TypeOK
<1>3. t \in Seq(AuditEntry) /\ audit' = audit \o t /\ \A k \in DOMAIN t : t[k] \in AuditEntry
  BY <1>1 DEF Added
<1>4. ASSUME NEW i \in DOMAIN audit', audit'[i].action = "roles"
      PROVE  audit'[i] \in AuditEntry /\ Given(audit'[i])
  <2>1. CASE i \in DOMAIN audit /\ audit'[i] = audit[i]
    BY <1>2, <1>4, <2>1 DEF RecordInv, EntriesKnown
  <2>2. CASE \E k \in DOMAIN t : audit'[i] = t[k]
    BY <1>1, <1>3, <1>4, <2>2 DEF Added, Newer
  <2> QED
    BY <1>2, <1>3, <2>1, <2>2, NoSyncAppended
<1>5. ASSUME NEW i \in DOMAIN audit', audit'[i].action = "roles"
      PROVE  Given(audit[i])'
  <2>1. PICK e : e = audit'[i]
    OBVIOUS
  <2>2. Given(e)'
    BY <1>4, <1>5, <2>1, GivenKept
  <2> QED
    BY <2>1, <2>2
<1> QED
  BY <1>5 DEF EntriesKnown

(* Two transactions that set the roles of one user cannot both have come   *)
(* to their commit.                                                        *)
LEMMA OneAtATime ==
  ASSUME IInv, LinkInv, RecordInv, NEW p \in Proc, NEW q \in Proc \ {p},
         pc[p] = "commit", UserSide(req[p]), pc[q] = "commit", UserSide(req[q])
  PROVE  target[p] # target[q]
<1>1. tx[p].locked = TargetRows(p) /\ tx[q].locked = TargetRows(q)
  BY DEF LinkInv, TxFits, UserSide, DeleteOps
<1>2. target[p] \in UserIds
  <2>1. target[p] \in 1..(nextUser - 1) /\ nextUser \in 1..(MaxUser + 1)
    BY DEF RecordInv, HoldsFits, IInv, TypeOK
  <2> QED
    BY <2>1, BoundsAssumption DEF UserIds
<1>3. 1 \in RoleIds
  BY BoundsAssumption DEF RoleIds
<1>4. target[p] = target[q] => <<target[p], 1>> \in tx[p].locked \cap tx[q].locked
  BY <1>1, <1>2, <1>3 DEF TargetRows, Pairs
<1> QED
  BY <1>4 DEF RecordInv, LocksApart

(* What p does leaves the entry of another request newer than all others.  *)
LEMMA HoldsKept ==
  ASSUME IInv, LinkInv, RecordInv, NEW p \in Proc, Receive(p) \/ Step(p), NEW q \in Proc \ {p}
  PROVE  HoldsFits(q)'
<1>0. Own(q)' = Own(q) /\ HoldsFits(q)
  BY OthersKept DEF RecordInv
<1>1. /\ pc'[q] = pc[q] /\ req'[q] = req[q] /\ target'[q] = target[q] /\ tx'[q] = tx[q]
  BY <1>0 DEF Own
<1>2. 1..(nextUser - 1) \subseteq 1..(nextUser' - 1)
  <2>1. nextUser <= nextUser' /\ nextUser \in Nat /\ nextUser' \in Nat
    BY LogGrows
  <2> QED
    BY <2>1, RangeGrows
<1>3. ASSUME pc[q] = "commit", UserSide(req[q]), NEW e \in AuditEntry, Newer(q, e)
      PROVE  Newer(q, e)'
  <2>1. PICK t : Added(p, t)
    BY LogGrows
  <2>2. audit \in Seq(AuditEntry) /\ t \in Seq(AuditEntry) /\ audit' = audit \o t
    BY <2>1 DEF Added, IInv, TypeOK
  <2>3. \A k \in DOMAIN t : t[k].action = "roles" => t[k].user # target[q]
    BY <1>3, <2>1, OneAtATime DEF Added, Newer
  <2>4. /\ SyncIn(audit', target[q]) = SyncIn(audit, target[q])
        /\ \A i \in DOMAIN audit : audit'[i] = audit[i]
    BY <2>2, <2>3, NoSyncAppended
  <2>5. Given(e)'
    BY <1>3, GivenKept DEF Newer
  <2> QED
    BY <1>1, <1>3, <2>4, <2>5 DEF Newer, SyncIn
<1> QED
  BY <1>0, <1>1, <1>2, <1>3 DEF HoldsFits, UserSide

(* Entries that are not of u keep its newest one.                          *)
LEMMA RecordsOfOthers ==
  ASSUME NEW u \in UserIds, Recorded(u), audit \in Seq(AuditEntry),
         NEW t \in Seq(AuditEntry), audit' = audit \o t,
         \A k \in DOMAIN t : t[k].action = "roles" => t[k].user # u,
         \A i \in SyncIn(audit, u) : \A new : new = audit[i].new /\ Tells(u, new) => Tells(u, new)'
  PROVE  Recorded(u)'
<1>1. /\ SyncIn(audit', u) = SyncIn(audit, u)
      /\ \A i \in SyncIn(audit, u) : audit'[i] = audit[i]
  BY NoSyncAppended DEF SyncIn
<1>2. \A i \in SyncIn(audit, u) : IsNewest(u, i)' <=> IsNewest(u, i)
  BY <1>1 DEF IsNewest
<1>3. ASSUME NEW i \in SyncIn(audit, u), IsNewest(u, i)'
      PROVE  Tells(u, audit[i].new)'
  <2>1. PICK new : new = audit[i].new
    OBVIOUS
  <2>2. Tells(u, new)'
    BY <1>2, <1>3, <2>1 DEF Recorded
  <2> QED
    BY <1>1, <2>1, <2>2
<1> QED
  BY <1>1, <1>2, <1>3 DEF Recorded

LEMMA RecordsKept ==
  ASSUME NEW u \in UserIds, Recorded(u), UNCHANGED <<users, roles, roleUser, audit, unlogged>>
  PROVE  Recorded(u)'
BY DEF Recorded, IsNewest, Tells

LEMMA InsertOfRecords ==
  ASSUME IInv, LinkInv, RecordInv, NEW p \in Proc, InsertUser(p) \/ InsertRole(p), NEW u \in UserIds
  PROVE  Recorded(u)'
<1>0. /\ audit \in Seq(AuditEntry) /\ nextUser \in Nat /\ nextRole \in Nat
      /\ EntriesKnown /\ Recorded(u) /\ NewIsNew
  BY BoundsAssumption DEF IInv, TypeOK, RecordInv, LinkInv
<1>1. CASE InsertUser(p)
  <2>1. PICK e : e = Entry(0, "created", nextUser, {}, {})
    OBVIOUS
  <2>2. e \in AuditEntry /\ e.action = "created"
    BY <1>0, <2>1, EntryTyped DEF Entry
  <2>3. /\ audit' = Append(audit, e) /\ users' = users \cup {nextUser}
        /\ UNCHANGED <<roles, roleUser, unlogged>>
    BY <1>1, <2>1 DEF InsertUser
  <2>4. /\ <<e>> \in Seq(AuditEntry) /\ audit' = audit \o <<e>>
        /\ \A k \in DOMAIN <<e>> : <<e>>[k] = e
    BY <1>0, <2>2, <2>3
  <2>5. SyncIn(audit, u) # {} => u # nextUser
    BY <1>0 DEF SyncIn, EntriesKnown, Given
  <2>6. \A i \in SyncIn(audit, u) : \A new : new = audit[i].new /\ Tells(u, new) => Tells(u, new)'
    BY <2>3, <2>5 DEF Tells
  <2>7. \A k \in DOMAIN <<e>> : <<e>>[k].action = "roles" => <<e>>[k].user # u
    BY <2>2, <2>4
  <2> QED
    BY <1>0, <2>4, <2>6, <2>7, RecordsOfOthers
<1>2. CASE InsertRole(p)
  <2>1. roles' = roles \cup {nextRole} /\ UNCHANGED <<audit, users, roleUser, unlogged>>
    BY <1>2 DEF InsertRole
  <2>2. <<u, nextRole>> \notin roleUser
    BY <1>0 DEF NewIsNew, Known
  <2>3. \A i \in SyncIn(audit, u) : nextRole \notin audit[i].new
    BY <1>0 DEF SyncIn, EntriesKnown, Given
  <2>4. \A i \in SyncIn(audit, u) : Tells(u, audit[i].new) => Tells(u, audit[i].new)'
    BY <2>1, <2>2, <2>3 DEF Tells
  <2>5. \A i \in SyncIn(audit, u) : IsNewest(u, i)' <=> IsNewest(u, i)
    BY <2>1 DEF IsNewest
  <2> QED
    BY <1>0, <2>1, <2>4, <2>5 DEF Recorded
<1> QED
  BY <1>1, <1>2

(* The commit of SyncRoles makes its entry the newest of its user, and it  *)
(* alone decides over the rows of that user.                               *)
LEMMA CommitOfSync ==
  ASSUME IInv, LinkInv, RecordInv, NEW p \in Proc, Commit(p), UserSide(req[p]), NEW u \in UserIds
  PROVE  Recorded(u)'
<1>0. /\ audit \in Seq(AuditEntry) /\ Recorded(u) /\ TxFits(p) /\ HoldsFits(p)
      /\ pc[p] = "commit" /\ roles \subseteq RoleIds /\ req[p].op \notin DeleteOps
      /\ audit' = audit \o tx[p].log
  BY DEF IInv, TypeOK, RecordInv, LinkInv, Commit, UserSide, DeleteOps
<1>1. PICK e \in AuditEntry : tx[p].log = <<e>> /\ Newer(p, e)
  BY <1>0 DEF HoldsFits
<1>2. e.action = "roles" /\ e.user = target[p] /\ e.new = req[p].ids
  BY <1>1 DEF Newer
<1>3. /\ tx[p].rows = {<<target[p], x>> : x \in req[p].ids}
      /\ tx[p].locked = {c \in Pairs : c[1] = target[p]}
  BY <1>0 DEF TxFits, Row, TargetRows
<1>4. /\ roleUser' = (roleUser \ tx[p].locked) \cup tx[p].rows /\ users' = users /\ roles' = roles
      /\ unlogged' = unlogged \ tx[p].locked
  <2>1. req[p].op # "deleteUsers" /\ req[p].op # "deleteRoles"
    BY <1>0 DEF DeleteOps
  <2>2. Unlogged(p) = unlogged \ tx[p].locked
    BY DEF Unlogged, UserSide, RoleSide
  <2>3. unlogged' = unlogged \ tx[p].locked
    BY <2>2 DEF Commit
  <2> QED
    BY <2>1, <2>3 DEF Commit
<1>5. CASE u = target[p]
  <2>0. \E n : /\ SyncIn(audit \o <<e>>, e.user) = SyncIn(audit, e.user) \cup {n}
               /\ n \notin DOMAIN audit /\ (audit \o <<e>>)[n] = e
    BY <1>0, <1>2, SyncAppended
  <2>1. PICK n : /\ SyncIn(audit', u) = SyncIn(audit, u) \cup {n} /\ n \notin DOMAIN audit
                 /\ audit'[n] = e
    BY <1>0, <1>1, <1>2, <1>5, <2>0
  <2>2. \A i \in SyncIn(audit, u) : audit'[i] = audit[i] /\ audit[i] \in AuditEntry
    <3>1. <<e>> \in Seq(AuditEntry)
      OBVIOUS
    <3> QED
      BY <1>0, <1>1, <3>1, NoSyncAppended DEF SyncIn
  <2>3. /\ \A i \in SyncIn(audit, u) : audit'[i].id < e.id /\ audit'[i].id \in Nat
        /\ e.id \in Nat
    BY <1>1, <1>5, <2>2 DEF Newer, AuditEntry
  <2>4. \A i \in SyncIn(audit', u) : IsNewest(u, i)' <=> i = n
    BY <2>1, <2>3 DEF IsNewest
  <2>5. ASSUME NEW r \in roles PROVE <<u, r>> \in roleUser' <=> r \in req[p].ids
    <3>1. <<u, r>> \in tx[p].locked
      BY <1>0, <1>3, <1>5, <2>5 DEF Pairs
    <3> QED
      BY <1>3, <1>4, <1>5, <3>1
  <2>6. Tells(u, audit[n].new)'
    BY <1>2, <1>4, <2>1, <2>5 DEF Tells
  <2> QED
    BY <2>1, <2>4, <2>6 DEF Recorded
<1>6. CASE u # target[p]
  <2>1. <<e>> \in Seq(AuditEntry) /\ audit' = audit \o <<e>> /\ \A k \in DOMAIN <<e>> : <<e>>[k] = e
    BY <1>0, <1>1
  <2>2. \A r \in roles : /\ <<u, r>> \in roleUser' <=> <<u, r>> \in roleUser
                         /\ <<u, r>> \in unlogged' <=> <<u, r>> \in unlogged
    BY <1>3, <1>4, <1>6
  <2>3. \A i \in SyncIn(audit, u) : \A new : new = audit[i].new /\ Tells(u, new) => Tells(u, new)'
    BY <1>4, <2>2 DEF Tells
  <2>4. \A k \in DOMAIN <<e>> : <<e>>[k].action = "roles" => <<e>>[k].user # u
    BY <1>2, <1>6, <2>1
  <2> QED
    BY <1>0, <2>1, <2>3, <2>4, RecordsOfOthers
<1> QED
  BY <1>5, <1>6

(* The other commits log nothing about roles: those of SyncUsers mark the  *)
(* rows they write, deletions take the user or the role with its rows.     *)
LEMMA CommitOfOthers ==
  ASSUME IInv, LinkInv, RecordInv, NEW p \in Proc, Commit(p), ~ UserSide(req[p]), NEW u \in UserIds
  PROVE  Recorded(u)'
<1>0. /\ audit \in Seq(AuditEntry) /\ tx[p].log \in Seq(AuditEntry) /\ Recorded(u)
      /\ TxFits(p) /\ HoldsFits(p) /\ DeletionFits(p) /\ pc[p] = "commit"
      /\ audit' = audit \o tx[p].log
  BY DEF IInv, TypeOK, Transaction, RecordInv, LinkInv, Commit, Fits
<1>1. \A k \in DOMAIN tx[p].log : tx[p].log[k].action # "roles"
  BY <1>0 DEF HoldsFits
<1>2. /\ roleUser' = (roleUser \ tx[p].locked) \cup tx[p].rows
      /\ users' = IF req[p].op = "deleteUsers" THEN users \ tx[p].gone ELSE users
      /\ roles' = IF req[p].op = "deleteRoles" THEN roles \ tx[p].gone ELSE roles
      /\ unlogged' = IF RoleSide(req[p]) THEN unlogged \cup tx[p].locked ELSE unlogged
  BY DEF Commit, Unlogged
<1>3. ASSUME u \in users', NEW r \in roles', <<u, r>> \notin unlogged'
      PROVE  /\ u \in users /\ r \in roles /\ <<u, r>> \notin unlogged
             /\ <<u, r>> \in roleUser' <=> <<u, r>> \in roleUser
  <2>1. u \in users /\ r \in roles /\ <<u, r>> \notin unlogged /\ r \in RoleIds
    BY <1>2, <1>3 DEF IInv, TypeOK
  <2>2. CASE req[p].op = "deleteUsers"
    <3>1. u \notin tx[p].gone /\ tx[p].rows = {} /\ \A c \in tx[p].locked : c[1] \in tx[p].gone
      BY <1>0, <1>2, <1>3, <2>2 DEF TxFits, DeleteOps
    <3> QED
      BY <1>2, <2>1, <3>1
  <2>3. CASE req[p].op = "deleteRoles"
    <3>1. r \notin tx[p].gone /\ tx[p].gone = req[p].ids
      BY <1>0, <1>2, <1>3, <2>3 DEF DeletionFits
    <3>2. tx[p].rows = {} /\ \A c \in tx[p].locked : c[2] \in req[p].ids
      BY <1>0, <2>3 DEF TxFits, DeleteOps
    <3> QED
      BY <1>2, <2>1, <3>1, <3>2
  <2>4. CASE req[p].op \notin DeleteOps
    <3>1. RoleSide(req[p])
      BY <1>0, <2>4, Sides
    <3>2. /\ tx[p].locked = {c \in Pairs : c[2] = target[p]}
          /\ tx[p].rows \subseteq {<<x, target[p]>> : x \in req[p].ids}
      BY <1>0, <2>4 DEF TxFits, TargetRows, Row
    <3>3. <<u, r>> \notin tx[p].locked
      BY <1>2, <1>3, <3>1
    <3>4. r # target[p]
      BY <2>1, <3>2, <3>3 DEF Pairs
    <3> QED
      BY <1>2, <2>1, <3>2, <3>3, <3>4
  <2> QED
    BY <2>2, <2>3, <2>4 DEF DeleteOps
<1>4. \A i \in SyncIn(audit, u) : \A new : new = audit[i].new /\ Tells(u, new) => Tells(u, new)'
  BY <1>3 DEF Tells
<1> QED
  BY <1>0, <1>1, <1>4, RecordsOfOthers

LEMMA RecordNext ==
  ASSUME IInv, LinkInv, RecordInv, [Next]_vars
  PROVE  RecordInv'
<1>0. \A u \in UserIds : Recorded(u)
  BY DEF RecordInv
<1>1. ASSUME NEW p \in Proc, Receive(p) \/ Step(p)
      PROVE  RecordInv'
  <2>1. \A q \in Proc : HoldsFits(q)'
    BY <1>1, StepOfHolds, HoldsKept
  <2>2. LocksApart'
    BY <1>1, StepOfLocks DEF RecordInv
  <2>3. EntriesKnown'
    BY <1>1, EntriesStayKnown
  <2>4. ASSUME NEW u \in UserIds PROVE Recorded(u)'
    <3>1. CASE UNCHANGED database \/ LogSync(p)
      BY <1>0, <3>1, RecordsKept DEF database, LogSync
    <3>2. CASE Commit(p)
      BY <3>2, CommitOfSync, CommitOfOthers
    <3> QED
      BY <1>1, <3>1, <3>2, TablesChange, InsertOfRecords
  <2> QED
    BY <2>1, <2>2, <2>3, <2>4 DEF RecordInv
<1>2. CASE Restart \/ UNCHANGED vars
  <2>1. UNCHANGED database
    BY <1>2 DEF Restart, vars
  <2>2. EntriesKnown' /\ \A u \in UserIds : Recorded(u)'
    <3>1. EntriesKnown'
      BY <2>1 DEF database, RecordInv, EntriesKnown, Given
    <3> QED
      BY <1>0, <2>1, <3>1, RecordsKept DEF database
  <2>3. (\A p \in Proc : HoldsFits(p)') /\ LocksApart'
    <3>1. CASE Restart
      <4>1. \A p \in Proc : pc'[p] = "idle" /\ tx'[p] = NoTx
        BY <3>1 DEF Restart
      <4>2. NoTx.locked = {} /\ DOMAIN NoTx.log = {}
        BY DEF NoTx
      <4> QED
        BY <4>1, <4>2 DEF HoldsFits, Syncing, LocksApart
    <3>2. CASE UNCHANGED vars
      <4>1. UNCHANGED <<pc, req, target, tx, audit, nextUser, nextRole, nextEntry>>
        BY <3>2 DEF vars, locals, database
      <4>2. \A p \in Proc : \A e : Newer(p, e) => Newer(p, e)'
        BY <4>1 DEF Newer, Given
      <4>3. \A p \in Proc : HoldsFits(p)'
        BY <4>1, <4>2 DEF RecordInv, HoldsFits, UserSide
      <4> QED
        BY <4>1, <4>3 DEF RecordInv, LocksApart
    <3> QED
      BY <1>2, <3>1, <3>2
  <2> QED
    BY <2>2, <2>3 DEF RecordInv
<1> QED
  BY <1>1, <1>2 DEF Next

LEMMA RecordInit == Init => RecordInv
<1> SUFFICES ASSUME Init PROVE RecordInv
  OBVIOUS
<1>1. /\ \A p \in Proc : pc[p] = "idle" /\ tx[p] = NoTx
      /\ audit = <<>>
  BY DEF Init
<1>2. NoTx.locked = {} /\ DOMAIN NoTx.log = {} /\ DOMAIN audit = {}
  BY <1>1 DEF NoTx
<1> QED
  BY <1>1, <1>2 DEF RecordInv, HoldsFits, Syncing, LocksApart, EntriesKnown, Recorded, SyncIn

LEMMA NewestEntry ==
  ASSUME TypeOK, RecordInv
  PROVE  LastSyncRecorded
<1> SUFFICES ASSUME NEW u \in users, SyncEntries(u) # {}
             PROVE  Tells(u, NewestSync(u).new)
  BY DEF LastSyncRecorded, Tells
<1>1. SyncIn(audit, u) = SyncEntries(u) /\ u \in UserIds
  BY DEF SyncIn, SyncEntries, TypeOK
<1>2. \E i \in SyncEntries(u) : \A j \in SyncEntries(u) : audit[j].id <= audit[i].id
  BY <1>1 DEF RecordInv, Recorded, IsNewest
<1> DEFINE i == CHOOSE k \in SyncEntries(u) : \A j \in SyncEntries(u) : audit[j].id <= audit[k].id
<1>3. i \in SyncEntries(u) /\ \A j \in SyncEntries(u) : audit[j].id <= audit[i].id
  BY <1>2
<1>4. NewestSync(u) = audit[i]
  BY DEF NewestSync
<1> HIDE DEF i
<1>5. Tells(u, audit[i].new)
  BY <1>1, <1>3 DEF RecordInv, Recorded, IsNewest
<1> QED
  BY <1>4, <1>5

(* LastSyncRecorded: however the requests on a user's and on a role's side *)
(* overlap, fail or are cut off, the entry of a user with the largest id   *)
(* says which roles the user has, but for the rows of a later SyncUsers:   *)
(* a SyncRoles takes its id and commits behind the lock on the user's rows.*)
THEOREM NewestEntryIsTrue == Spec => []LastSyncRecorded
<1> DEFINE I == IInv /\ PolicyInv /\ LinkInv /\ RecordInv
<1>1. Init => I
  BY InitEstablishes, PolicyInit, LinkInit, RecordInit
<1>2. I /\ [Next]_vars => I'
  BY NextPreserves, PolicyNext, LinkNext, RecordNext
<1>3. I => LastSyncRecorded
  BY NewestEntry DEF IInv
<1> HIDE DEF I
<1> QED
  BY <1>1, <1>2, <1>3, PTL DEF Spec
=============================================================================

----------------------------- MODULE Membership -----------------------------
(***************************************************************************)
(* Users, roles, their memberships and the access-control enforcer.        *)
(*                                                                         *)
(* The mutations of the GraphQL API (internal/graphql/gqlresolvers) run    *)
(* concurrently.  They change four MySQL tables inside transactions        *)
(* (internal/pkg/user, internal/pkg/role, internal/pkg/audit) and, between *)
(* the statements of a transaction, the casbin enforcer (pkg/auth), which  *)
(* is not transactional: it saves each change on its own.  A request is a  *)
(* process that moves through the statements of its handler; any statement *)
(* may fail and the server may be restarted between any two.               *)
(*                                                                         *)
(* The DATABASE is modelled as InnoDB at its default isolation level:      *)
(* plain SELECTs see committed rows; a DELETE locks the rows its WHERE     *)
(* clause names (present or not: gap locks) until the transaction ends; a  *)
(* statement that waits for a lock may give up (lock wait timeout,         *)
(* deadlock victim); identifiers are never reused; a foreign key is        *)
(* checked by the INSERT and cascades on DELETE.                           *)
(***************************************************************************)
EXTENDS Naturals, Sequences, FiniteSets

CONSTANTS
    Proc,          \* the requests that may be in flight at once
    MaxUser,       \* bound: largest id that AUTO_INCREMENT reaches in users
    MaxRole,       \* bound: the same for roles
    InitialUsers,  \* users present at the start have the ids 1..InitialUsers
    InitialRoles,  \* roles present at the start have the ids 1..InitialRoles
    InitialMembers,\* the rows of role_user at the start
    Codes,         \* permission codes
    Requests,      \* the requests clients may send
    MaxRequests,   \* bound: requests sent in one behaviour
    MaxRestarts,   \* bound: restarts of the server in one behaviour
    AllowFailure   \* may a statement fail for no reason visible here, or
                   \* give up its wait for a lock?

UserIds == 1..MaxUser
RoleIds == 1..MaxRole
Pairs   == UserIds \X RoleIds

Levels      == {"read", "write", "manage"}
LevelInputs == Levels \cup {"none", "other"}

Ops == {"createUser", "updateUser", "createRole", "updateRole",
        "deleteUsers", "deleteRoles"}

(* A mutation and its input.  id is the entity it addresses; ids are the   *)
(* roles (or users, or the entities to delete); grant and sync say whether *)
(* the permissions and ids inputs were given at all (not null).            *)
Request == [op : Ops, id : UserIds \cup RoleIds, ids : SUBSET (UserIds \cup RoleIds),
            sync : BOOLEAN, grant : BOOLEAN, perms : SUBSET (Codes \X LevelInputs)]

ASSUME BoundsAssumption ==
    /\ MaxUser \in Nat /\ InitialUsers \in 1..MaxUser
    /\ MaxRole \in Nat /\ InitialRoles \in 1..MaxRole
    /\ MaxRequests \in Nat /\ MaxRestarts \in Nat
    /\ AllowFailure \in BOOLEAN

ASSUME InitialAssumption ==
    /\ InitialMembers \subseteq (1..InitialUsers) \X (1..InitialRoles)
    /\ <<1, 1>> \in InitialMembers

(* An update of a role may address one that is gone, or was never there,   *)
(* but no id beyond the bound.                                             *)
ASSUME RequestsAssumption ==
    /\ Requests \subseteq Request
    /\ \A r \in Requests : r.op = "updateRole" => r.id \in RoleIds

VARIABLES
    \* the database
    users, roles, roleUser, audit, nextUser, nextRole,
    \* AUTO_INCREMENT of auditlogs, counted for the entries about roles only
    nextEntry,
    \* the enforcer: its user-role links (g) and its role policies (p)
    links, policies,
    \* each request in flight: its position, its input, the id it works on,
    \* the ids it read, the ids and policies it still has to go through, and
    \* its transaction
    pc, req, target, cur, todo, grants, tx,
    \* bounds
    served, restarts,
    \* history: cells of the membership matrix that an interrupted request or
    \* two overlapping requests worked on
    suspect,
    \* history: rows of role_user last written by SyncUsers, which logs nothing
    unlogged

database == <<users, roles, roleUser, audit, nextUser, nextRole, nextEntry, unlogged>>
enforcer == <<links, policies>>
locals   == <<pc, req, target, cur, todo, grants, tx>>
vars     == <<database, enforcer, locals, served, restarts, suspect>>

-----------------------------------------------------------------------------
Labels == {"idle", "prepare", "reset", "grant", "begin", "current", "unlink",
           "clear", "insert", "link", "log", "read", "delete", "revoke", "commit"}

NoTx == [open |-> FALSE, locked |-> {}, rows |-> {}, gone |-> {}, log |-> <<>>]
Begin == [NoTx EXCEPT !.open = TRUE]

NoRequest == [op |-> "none"]

AuditEntry == [id : Nat, action : {"created", "deleted", "roles"}, user : Nat,
               new : SUBSET RoleIds, old : SUBSET RoleIds]
Entry(id, action, u, new, old) ==
    [id |-> id, action |-> action, user |-> u, new |-> new, old |-> old]

UserSide(r) == r.op \in {"createUser", "updateUser"}
RoleSide(r) == r.op \in {"createRole", "updateRole"}

(* Mutant: UpdateRole asks for the input it passes on.                     *)
SyncsWhatIsGiven(r) == r.sync

(* Does the handler go on to SyncRoles / SyncUsers?  UpdateRole asks for   *)
(* the permissions input where CreateRole asks for the users input.        *)
Syncs(r) == IF r.op = "updateRole" THEN r.grant ELSE r.sync

(* Mutant: the levels are not completed.                                   *)
LevelAlone(level) == {level} \cap Levels

(* ensureLevelPermissions: the levels a granted level brings with it.      *)
LevelsUpTo(level) ==
    CASE level = "read"  -> {"read"}
      [] level = "write" -> {"read", "write"}
      [] OTHER           -> Levels

(* The policies SyncPermissions adds to role r for an input.               *)
Expand(r, perms) ==
    UNION {{r} \X {perm[1]} \X LevelsUpTo(perm[2]) :
              perm \in {q \in perms : q[2] # "none"}}

-----------------------------------------------------------------------------
(* The cells a request works on: pairs of a user and a role, and, under    *)
(* the user id Policies, the policies of a role.                           *)
Policies == 0
Cells == (UserIds \cup {Policies}) \X RoleIds

Footprint(r, t) ==
    CASE r.op \in {"createUser", "updateUser"} ->
             {c \in Cells : t # 0 /\ c[1] = t}
      [] r.op \in {"createRole", "updateRole"} -> {c \in Cells : c[2] = t}
      [] r.op = "deleteUsers" -> {c \in Cells : c[1] # Policies /\ c[1] \in r.ids}
      [] r.op = "deleteRoles" -> {c \in Cells : c[2] \in r.ids}
      [] OTHER -> {}

Busy(p)   == Footprint(req[p], target[p])
Others(p) == UNION {Busy(q) : q \in Proc \ {p}}

(* The role_user row that joins the target of p with x.                    *)
Row(p, x)  == IF UserSide(req[p]) THEN <<target[p], x>> ELSE <<x, target[p]>>

TargetRows(p) == IF UserSide(req[p]) THEN {c \in Pairs : c[1] = target[p]}
                                     ELSE {c \in Pairs : c[2] = target[p]}

(* A statement that needs the rows cs waits while another open transaction *)
(* has locked one of them.                                                 *)
Free(p, cs) == \A q \in Proc \ {p} : cs \cap tx[q].locked = {}

(* Has p changed the enforcer in a way a rollback does not take back?      *)
EnforcerTouched(p) ==
    \/ pc[p] \in {"grant", "unlink", "clear", "insert", "link", "log", "revoke"}
    \/ pc[p] \in {"begin", "current"} /\ req[p].grant
    \/ pc[p] = "commit" /\ req[p].op # "deleteUsers"

-----------------------------------------------------------------------------
Init ==
    /\ users = 1..InitialUsers
    /\ roles = 1..InitialRoles
    /\ roleUser = InitialMembers
    /\ audit = <<>>
    /\ nextUser = InitialUsers + 1
    /\ nextRole = InitialRoles + 1
    /\ nextEntry = 1
    /\ links = InitialMembers
    /\ policies = {}
    /\ pc = [p \in Proc |-> "idle"]
    /\ req = [p \in Proc |-> NoRequest]
    /\ target = [p \in Proc |-> 0]
    /\ cur = [p \in Proc |-> {}]
    /\ todo = [p \in Proc |-> {}]
    /\ grants = [p \in Proc |-> {}]
    /\ tx = [p \in Proc |-> NoTx]
    /\ served = 0
    /\ restarts = 0
    /\ suspect = {}
    /\ unlogged = {}

(* The request p returns to its client.  A transaction it still had open   *)
(* would stay open, with its locks: ending it is each caller's business.   *)
Leave(p) ==
    /\ pc' = [pc EXCEPT ![p] = "idle"]
    /\ req' = [req EXCEPT ![p] = NoRequest]
    /\ target' = [target EXCEPT ![p] = 0]
    /\ cur' = [cur EXCEPT ![p] = {}]
    /\ todo' = [todo EXCEPT ![p] = {}]
    /\ grants' = [grants EXCEPT ![p] = {}]

(* A mutation arrives.                                                     *)
Receive(p) ==
    /\ pc[p] = "idle"
    /\ served < MaxRequests
    /\ \E r \in Requests :
         LET t == IF r.op \in {"updateUser", "updateRole"} THEN r.id ELSE 0
         IN /\ pc' = [pc EXCEPT ![p] =
                        IF r.op \in {"deleteUsers", "deleteRoles"} THEN "read" ELSE "prepare"]
            /\ req' = [req EXCEPT ![p] = r]
            /\ target' = [target EXCEPT ![p] = t]
            /\ suspect' = suspect \cup (Footprint(r, t) \cap Others(p))
    /\ served' = served + 1
    /\ UNCHANGED <<database, enforcer, cur, todo, grants, tx, restarts>>

-----------------------------------------------------------------------------
(* CreateUser, UpdateUser, CreateRole, UpdateRole: the entity itself, then *)
(* its permissions and its memberships.                                    *)

(* Go on behind the entity's own row, which the handler has written; t is  *)
(* the id of that row.                                                     *)
Prepared(p, t) ==
    IF req[p].grant /\ RoleSide(req[p])
    THEN /\ pc' = [pc EXCEPT ![p] = "reset"]
         /\ target' = [target EXCEPT ![p] = t]
         /\ UNCHANGED <<req, cur, todo, grants>>
    ELSE IF Syncs(req[p])
    THEN /\ pc' = [pc EXCEPT ![p] = "begin"]
         /\ target' = [target EXCEPT ![p] = t]
         /\ UNCHANGED <<req, cur, todo, grants>>
    ELSE Leave(p)

(* user.Store.Create: one row and its audit entry, in one transaction.     *)
InsertUser(p) ==
    /\ pc[p] = "prepare" /\ req[p].op = "createUser"
    /\ nextUser <= MaxUser
    /\ users' = users \cup {nextUser}
    /\ audit' = Append(audit, Entry(0, "created", nextUser, {}, {}))
    /\ nextUser' = nextUser + 1
    /\ suspect' = suspect \cup (Footprint(req[p], nextUser) \cap Others(p))
    /\ Prepared(p, nextUser)
    /\ UNCHANGED <<roles, roleUser, nextRole, nextEntry, unlogged, enforcer, tx, served, restarts>>

(* user.Store.Update of a user that exists (its columns are not modelled   *)
(* here).                                                                  *)
UpdateUser(p) ==
    /\ pc[p] = "prepare" /\ req[p].op = "updateUser"
    /\ target[p] \in users
    /\ Prepared(p, target[p])
    /\ UNCHANGED <<database, enforcer, tx, served, restarts, suspect>>

(* role.Store.Create.                                                      *)
InsertRole(p) ==
    /\ pc[p] = "prepare" /\ req[p].op = "createRole"
    /\ nextRole <= MaxRole
    /\ roles' = roles \cup {nextRole}
    /\ nextRole' = nextRole + 1
    /\ suspect' = suspect \cup (Footprint(req[p], nextRole) \cap Others(p))
    /\ Prepared(p, nextRole)
    /\ UNCHANGED <<users, roleUser, audit, nextUser, nextEntry, unlogged, enforcer, tx, served,
                   restarts>>

(* role.Store.Update does not look whether the role exists.                *)
UpdateRole(p) ==
    /\ pc[p] = "prepare" /\ req[p].op = "updateRole"
    /\ Prepared(p, target[p])
    /\ UNCHANGED <<database, enforcer, tx, served, restarts, suspect>>

(* SyncPermissions, first call: the enforcer forgets the role, its         *)
(* policies and the links of its users alike.                              *)
ResetRole(p) ==
    /\ pc[p] = "reset"
    /\ links' = {c \in links : c[2] # target[p]}
    /\ policies' = {g \in policies : g[1] # target[p]}
    /\ LET add == Expand(target[p], req[p].perms)
       IN IF add # {}
          THEN /\ pc' = [pc EXCEPT ![p] = "grant"]
               /\ grants' = [grants EXCEPT ![p] = add]
               /\ UNCHANGED <<req, target, cur, todo>>
          ELSE IF Syncs(req[p])
          THEN /\ pc' = [pc EXCEPT ![p] = "begin"]
               /\ UNCHANGED <<req, target, cur, todo, grants>>
          ELSE Leave(p)
    /\ UNCHANGED <<database, tx, served, restarts, suspect>>

(* SyncPermissions, one iteration of its loop over a Go map.               *)
AddRolePermission(p) ==
    /\ pc[p] = "grant"
    /\ \E g \in grants[p] :
         /\ policies' = policies \cup {g}
         /\ IF grants[p] # {g}
            THEN /\ grants' = [grants EXCEPT ![p] = @ \ {g}]
                 /\ UNCHANGED <<pc, req, target, cur, todo>>
            ELSE IF Syncs(req[p])
            THEN /\ pc' = [pc EXCEPT ![p] = "begin"]
                 /\ grants' = [grants EXCEPT ![p] = {}]
                 /\ UNCHANGED <<req, target, cur, todo>>
            ELSE Leave(p)
    /\ UNCHANGED <<database, links, tx, served, restarts, suspect>>

-----------------------------------------------------------------------------
(* SyncRoles (for a user) and SyncUsers (for a role).                      *)

BeginSync(p) ==
    /\ pc[p] = "begin"
    /\ tx' = [tx EXCEPT ![p] = Begin]
    /\ pc' = [pc EXCEPT ![p] = "current"]
    /\ UNCHANGED <<database, enforcer, req, target, cur, todo, grants, served, restarts, suspect>>

Current(p) == {x \in UserIds \cup RoleIds : Row(p, x) \in roleUser}

(* getCurrentRoles, getCurrentUsers: a read on another connection than the *)
(* transaction's, so of committed rows and without a lock.                 *)
ReadCurrent(p) ==
    /\ pc[p] = "current"
    /\ cur' = [cur EXCEPT ![p] = Current(p)]
    /\ todo' = [todo EXCEPT ![p] = Current(p)]
    /\ pc' = [pc EXCEPT ![p] = IF Current(p) = {} THEN "clear" ELSE "unlink"]
    /\ UNCHANGED <<database, enforcer, req, target, grants, tx, served, restarts, suspect>>

RemoveRoleForUser(p) ==
    /\ pc[p] = "unlink"
    /\ \E x \in todo[p] :
         /\ links' = links \ {Row(p, x)}
         /\ todo' = [todo EXCEPT ![p] = @ \ {x}]
         /\ pc' = [pc EXCEPT ![p] = IF todo[p] = {x} THEN "clear" ELSE "unlink"]
    /\ UNCHANGED <<database, policies, req, target, cur, grants, tx, served, restarts, suspect>>

(* SyncRoles has an entry to write behind the rows, SyncUsers has none.     *)
AllInserted(p) == IF UserSide(req[p]) THEN "log" ELSE "commit"

(* DELETE FROM role_user WHERE user_id = ? (or role_id = ?)                *)
DeleteRows(p) ==
    /\ pc[p] = "clear"
    /\ Free(p, TargetRows(p))
    /\ tx' = [tx EXCEPT ![p].locked = TargetRows(p)]
    /\ todo' = [todo EXCEPT ![p] = req[p].ids]
    /\ pc' = [pc EXCEPT ![p] = IF req[p].ids = {} THEN AllInserted(p) ELSE "insert"]
    /\ UNCHANGED <<database, enforcer, req, target, cur, grants, served, restarts, suspect>>

ParentsExist(p, x) == Row(p, x) \in users \X roles

InsertRow(p) ==
    /\ pc[p] = "insert"
    /\ \E x \in todo[p] :
         /\ ParentsExist(p, x)
         /\ tx' = [tx EXCEPT ![p].rows = @ \cup {Row(p, x)}]
    /\ pc' = [pc EXCEPT ![p] = "link"]
    /\ UNCHANGED <<database, enforcer, req, target, cur, todo, grants, served, restarts, suspect>>

AddRoleForUser(p) ==
    /\ pc[p] = "link"
    /\ \E x \in todo[p] :
         /\ Row(p, x) \in tx[p].rows
         /\ links' = links \cup {Row(p, x)}
         /\ todo' = [todo EXCEPT ![p] = @ \ {x}]
         /\ pc' = [pc EXCEPT ![p] = IF todo[p] = {x} THEN AllInserted(p) ELSE "insert"]
    /\ UNCHANGED <<database, policies, req, target, cur, grants, tx, served, restarts, suspect>>

(* Mutant: valuesNew and valuesOld are swapped.                            *)
SyncEntrySwapped(p) == Entry(nextEntry, "roles", target[p], cur[p], req[p].ids)

SyncEntry(p) == Entry(nextEntry, "roles", target[p], req[p].ids, cur[p])

(* LogSync of SyncRoles: the entry takes its id here and is seen from the  *)
(* commit on.  A rollback does not give the id back.                       *)
LogSync(p) ==
    /\ pc[p] = "log"
    /\ tx' = [tx EXCEPT ![p].log = Append(@, SyncEntry(p))]
    /\ nextEntry' = nextEntry + 1
    /\ pc' = [pc EXCEPT ![p] = "commit"]
    /\ UNCHANGED <<users, roles, roleUser, audit, nextUser, nextRole, unlogged, enforcer,
                   req, target, cur, todo, grants, served, restarts, suspect>>

-----------------------------------------------------------------------------
(* DeleteUser and DeleteRole.                                              *)

(* user.Store.Delete: read the users that exist, begin.                    *)
ReadUsers(p) ==
    /\ pc[p] = "read" /\ req[p].op = "deleteUsers"
    /\ LET sources == req[p].ids \cap users
       IN IF sources = {} THEN Leave(p) /\ UNCHANGED tx
          ELSE /\ cur' = [cur EXCEPT ![p] = sources]
               /\ todo' = [todo EXCEPT ![p] = sources]
               /\ tx' = [tx EXCEPT ![p] = Begin]
               /\ pc' = [pc EXCEPT ![p] = "delete"]
               /\ UNCHANGED <<req, target, grants>>
    /\ UNCHANGED <<database, enforcer, served, restarts, suspect>>

RowsOfUser(u) == {c \in Pairs : c[1] = u}

(* Mutants: the boundary of the check is off by one; the entry is written  *)
(* to a transaction of its own that nobody commits.                        *)
DeletableOffByOne(u) == u > 0
DeleteEntityUnlogged(t, u) ==
    [t EXCEPT !.locked = @ \cup RowsOfUser(u), !.gone = @ \cup {u}]

(* deleteEntity: all but the admin user; the user's row, its memberships   *)
(* and an audit entry, in transaction t.                                   *)
Deletable(u) == u > 1
DeleteEntity(t, u) ==
    [t EXCEPT !.locked = @ \cup RowsOfUser(u), !.gone = @ \cup {u},
              !.log = Append(@, Entry(0, "deleted", u, {}, {}))]

DeleteUser(p) ==
    /\ pc[p] = "delete" /\ req[p].op = "deleteUsers"
    /\ \E u \in todo[p] :
         /\ Deletable(u)
         /\ Free(p, RowsOfUser(u))
         /\ tx' = [tx EXCEPT ![p] = DeleteEntity(@, u)]
         /\ todo' = [todo EXCEPT ![p] = @ \ {u}]
         /\ pc' = [pc EXCEPT ![p] = IF todo[p] = {u} THEN "commit" ELSE "delete"]
    /\ UNCHANGED <<database, enforcer, req, target, cur, grants, served, restarts, suspect>>

(* role.Store.Delete: the admin role refuses, nothing asked is nothing done. *)
ReadRoles(p) ==
    /\ pc[p] = "read" /\ req[p].op = "deleteRoles"
    /\ IF 1 \in req[p].ids \/ req[p].ids = {} THEN Leave(p) /\ UNCHANGED tx
       ELSE /\ tx' = [tx EXCEPT ![p] = Begin]
            /\ pc' = [pc EXCEPT ![p] = "delete"]
            /\ UNCHANGED <<req, target, cur, todo, grants>>
    /\ UNCHANGED <<database, enforcer, served, restarts, suspect>>

DeleteRoles(p) ==
    /\ pc[p] = "delete" /\ req[p].op = "deleteRoles"
    /\ LET rows == {c \in Pairs : c[2] \in req[p].ids}
       IN /\ Free(p, rows)
          /\ tx' = [tx EXCEPT ![p].locked = rows, ![p].gone = req[p].ids]
    /\ todo' = [todo EXCEPT ![p] = req[p].ids]
    /\ pc' = [pc EXCEPT ![p] = "revoke"]
    /\ UNCHANGED <<database, enforcer, req, target, cur, grants, served, restarts, suspect>>

(* The enforcer forgets one of the roles, before the commit.               *)
RevokeRole(p) ==
    /\ pc[p] = "revoke"
    /\ \E r \in todo[p] :
         /\ links' = {c \in links : c[2] # r}
         /\ policies' = {g \in policies : g[1] # r}
         /\ todo' = [todo EXCEPT ![p] = @ \ {r}]
         /\ pc' = [pc EXCEPT ![p] = IF todo[p] = {r} THEN "commit" ELSE "revoke"]
    /\ UNCHANGED <<database, req, target, cur, grants, tx, served, restarts, suspect>>

-----------------------------------------------------------------------------
(* The rows whose newest write no audit entry tells of, behind the commit. *)
Unlogged(p) ==
    CASE UserSide(req[p]) -> unlogged \ tx[p].locked
      [] RoleSide(req[p]) -> unlogged \cup tx[p].locked
      [] OTHER            -> unlogged

(* COMMIT: rows and entries are there for others to see.                   *)
Commit(p) ==
    /\ pc[p] = "commit"
    /\ roleUser' = (roleUser \ tx[p].locked) \cup tx[p].rows
    /\ users' = IF req[p].op = "deleteUsers" THEN users \ tx[p].gone ELSE users
    /\ roles' = IF req[p].op = "deleteRoles" THEN roles \ tx[p].gone ELSE roles
    /\ audit' = audit \o tx[p].log
    /\ unlogged' = Unlogged(p)
    /\ tx' = [tx EXCEPT ![p] = NoTx]
    /\ Leave(p)
    /\ UNCHANGED <<nextUser, nextRole, nextEntry, enforcer, served, restarts, suspect>>

(* The points at which a call to the database may return an error.         *)
Fallible == {"prepare", "begin", "current", "clear", "insert", "log", "read", "delete",
             "commit"}

(* Mutant: the error of an entity's deletion is returned as it is.         *)
RollsBackButOne == {"current", "clear", "insert", "log", "commit"}

(* The points whose error path calls RollbackError.  In front of "prepare" *)
(* (where Create and Update roll back themselves), "begin" and "read" no   *)
(* transaction is open.  The error of "current" is rolled back twice, in   *)
(* getCurrentRoles and in its caller; the second one finds nothing to do.  *)
RollsBack == {"current", "clear", "insert", "log", "delete", "commit"}

(* Errors the state itself tells: an update of a user that is gone, no id  *)
(* left, an id that no foreign key finds, the admin user.                  *)
Refused(p) ==
    \/ pc[p] = "prepare" /\ req[p].op = "updateUser" /\ target[p] \notin users
    \/ pc[p] = "prepare" /\ req[p].op = "createUser" /\ nextUser > MaxUser
    \/ pc[p] = "prepare" /\ req[p].op = "createRole" /\ nextRole > MaxRole
    \/ pc[p] = "insert" /\ \E x \in todo[p] : ~ ParentsExist(p, x)
    \/ pc[p] = "delete" /\ req[p].op = "deleteUsers" /\ \E u \in todo[p] : ~ Deletable(u)

(* A statement returns an error, which goes to the client.  The enforcer   *)
(* keeps what it was told.                                                 *)
Fail(p) ==
    /\ pc[p] \in Fallible
    /\ AllowFailure \/ Refused(p)
    /\ suspect' = IF EnforcerTouched(p) THEN suspect \cup Busy(p) ELSE suspect
    /\ tx' = [tx EXCEPT ![p] = IF pc[p] \in RollsBack THEN NoTx ELSE @]
    /\ Leave(p)
    /\ UNCHANGED <<database, enforcer, served, restarts>>

(* The server stops and starts again: open transactions are rolled back,   *)
(* the enforcer is loaded from the policies table, where every change was  *)
(* saved, and setupAuth links the admin user to the admin role.            *)
Restart ==
    /\ restarts < MaxRestarts
    /\ pc' = [p \in Proc |-> "idle"]
    /\ req' = [p \in Proc |-> NoRequest]
    /\ target' = [p \in Proc |-> 0]
    /\ cur' = [p \in Proc |-> {}]
    /\ todo' = [p \in Proc |-> {}]
    /\ grants' = [p \in Proc |-> {}]
    /\ tx' = [p \in Proc |-> NoTx]
    /\ links' = links \cup {<<1, 1>>}
    /\ suspect' = suspect \cup UNION {Busy(p) : p \in {q \in Proc : EnforcerTouched(q)}}
    /\ restarts' = restarts + 1
    /\ UNCHANGED <<database, policies, served>>

Advance(p) ==
    \/ InsertUser(p) \/ UpdateUser(p) \/ InsertRole(p) \/ UpdateRole(p)
    \/ ResetRole(p) \/ AddRolePermission(p)
    \/ BeginSync(p) \/ ReadCurrent(p) \/ RemoveRoleForUser(p) \/ DeleteRows(p)
    \/ InsertRow(p) \/ AddRoleForUser(p) \/ LogSync(p)
    \/ ReadUsers(p) \/ DeleteUser(p)
    \/ ReadRoles(p) \/ DeleteRoles(p) \/ RevokeRole(p)
    \/ Commit(p)

Step(p) == Advance(p) \/ Fail(p)

Next == Restart \/ \E p \in Proc : Receive(p) \/ Step(p)

Spec == Init /\ [][Next]_vars

(* Every statement that need not wait for a lock returns, with its result  *)
(* or with an error that the state forces.  No other failure is counted    *)
(* on, not even that of a statement which gives up its wait; and nothing   *)
(* forces clients to send requests or the server to restart.               *)
FairSpec == Spec /\ \A p \in Proc : WF_vars(Advance(p) \/ (Refused(p) /\ Fail(p)))

-----------------------------------------------------------------------------
Transaction == [open : BOOLEAN, locked : SUBSET Pairs, rows : SUBSET Pairs,
                gone : SUBSET (UserIds \cup RoleIds), log : Seq(AuditEntry)]

TypeOK ==
    /\ users \subseteq UserIds /\ roles \subseteq RoleIds
    /\ roleUser \subseteq Pairs
    /\ audit \in Seq(AuditEntry)
    /\ nextUser \in 1..(MaxUser + 1) /\ nextRole \in 1..(MaxRole + 1)
    /\ nextEntry \in Nat \ {0}
    /\ links \subseteq Pairs
    /\ policies \subseteq RoleIds \X Codes \X Levels
    /\ pc \in [Proc -> Labels]
    /\ req \in [Proc -> Requests \cup {NoRequest}]
    /\ target \in [Proc -> Nat]
    /\ cur \in [Proc -> SUBSET (UserIds \cup RoleIds)]
    /\ todo \in [Proc -> SUBSET (UserIds \cup RoleIds)]
    /\ grants \in [Proc -> SUBSET (RoleIds \X Codes \X Levels)]
    /\ tx \in [Proc -> Transaction]
    /\ served \in 0..MaxRequests /\ restarts \in 0..MaxRestarts
    /\ suspect \subseteq Cells
    /\ unlogged \subseteq Pairs

Busied == UNION {Busy(p) : p \in Proc}

(* Where no request was interrupted behind a change of the enforcer and no *)
(* two requests overlapped, and while none is at work, the enforcer grants *)
(* exactly the memberships of role_user to the users that exist: what the  *)
(* interleaved updates of SyncRoles, SyncUsers, SyncPermissions and Delete *)
(* leave behind.  setupAuth alone may add the admin's own link.            *)
LinksAgree ==
    \A c \in (users \X roles) \ (suspect \cup Busied) :
        /\ c \in roleUser => c \in links
        /\ c \in links /\ c # <<1, 1>> => c \in roleUser

(* The levels below a level, by what the levels mean.                      *)
Below(level) ==
    CASE level = "manage" -> {"read", "write"} [] level = "write" -> {"read"} [] OTHER -> {}

(* Under the same conditions the policies of a role are closed downwards:  *)
(* with a level it has every lower one, in whatever order the map was run  *)
(* through (role.Store.SyncPermissions).                                   *)
LowerLevelsPresent ==
    \A g \in policies :
        <<Policies, g[1]>> \notin suspect \cup Busied =>
            \A level \in Below(g[3]) : <<g[1], g[2], level>> \in policies

DeletedInLog == {audit[i].user : i \in {j \in DOMAIN audit : audit[j].action = "deleted"}}
CreatedInLog == {audit[i].user : i \in {j \in DOMAIN audit : audit[j].action = "created"}}

(* The audit log tells the truth about the lives of users, whatever failed *)
(* and wherever the server stopped: exactly the users it calls deleted are *)
(* gone, exactly those it calls created were added.                        *)
LogMatchesUsers ==
    /\ (1..(nextUser - 1)) \ users = DeletedInLog
    /\ (InitialUsers + 1)..(nextUser - 1) = CreatedInLog

SyncEntries(u) == {i \in DOMAIN audit : audit[i].action = "roles" /\ audit[i].user = u}

NewestSync(u) ==
    audit[CHOOSE i \in SyncEntries(u) : \A j \in SyncEntries(u) : audit[j].id <= audit[i].id]

(* The newest audit entry of a user, by its id, says which of the roles    *)
(* the user has, but for those whose SyncUsers was here later and logged   *)
(* nothing: concurrent SyncRoles take the ids of their entries in the      *)
(* order in which they commit, and no transaction mixes its rows with      *)
(* another's, of either side.                                              *)
LastSyncRecorded ==
    \A u \in {v \in users : SyncEntries(v) # {}}, r \in roles :
        <<u, r>> \notin unlogged =>
            (<<u, r>> \in roleUser <=> r \in NewestSync(u).new)

(* A deletion takes all the users it found and all the roles it addressed, *)
(* as far as they still exist, or none of them: the admin among them keeps *)
(* the others from being deleted too.                                      *)
DeleteIsWhole ==
    [][/\ users \ users' # {} =>
            \E p \in Proc : /\ pc[p] = "commit"
                            /\ users \ users' = cur[p] \cap users
                            /\ 1 \notin cur[p]
       /\ roles \ roles' # {} =>
            \E p \in Proc : /\ pc[p] = "commit"
                            /\ roles \ roles' = req[p].ids \cap roles
                            /\ 1 \notin req[p].ids]_vars

(* Two deletions that share more than one user and may lock them in either *)
(* order: the order of a Go map.                                           *)
DeletionsCross ==
    \E p, q \in Proc :
        /\ p # q
        /\ {pc[p], pc[q]} = {"delete"}
        /\ req[p].op = "deleteUsers" /\ req[q].op = "deleteUsers"
        /\ \E u, v \in cur[p] \cap cur[q] : u # v

(* Whatever fails on the way out of whichever handler, no transaction is   *)
(* left behind whose locks would stop a later request: every request gets  *)
(* its answer without having to give up a wait, unless two deletions lock  *)
(* each other out.                                                         *)
RequestsReturn ==
    \A p \in Proc : pc[p] # "idle" ~> (pc[p] = "idle" \/ DeletionsCross)

(* user/store.go: "SyncRoles sets the provided role IDs for a user."  Once *)
(* all requests have returned, the enforcer grants what role_user says.    *)
RolesAreSet ==
    (\A p \in Proc : pc[p] = "idle") =>
        \A c \in users \X roles : c \in links <=> c \in roleUser

(* role/store.go: SyncPermissions "makes sure that all lower levels are    *)
(* also present for easier assertions", once all requests have returned.   *)
AllLowerLevels ==
    (\A p \in Proc : pc[p] = "idle") =>
        \A g \in policies : \A level \in Below(g[3]) : <<g[1], g[2], level>> \in policies

(* app/auth.go: "Make sure the admin user is always a member of the admin  *)
(* role."                                                                  *)
AdminAlwaysMember == (\A p \in Proc : pc[p] = "idle") => <<1, 1>> \in links
=============================================================================

------------------------------ MODULE Execution ------------------------------
(***************************************************************************)
(* How the GraphQL server runs operations: the executors of internal/      *)
(* graphql/gqlserver over the tables of module Schema, the resolvers, the  *)
(* data loaders of a request and the services behind them.                 *)
(*                                                                         *)
(* The root fields of a query run at the same time, those of a mutation    *)
(* one behind the other, and every field below that asks a data loader     *)
(* runs in a goroutine of its own: all of them, other operations of the    *)
(* same websocket (which shares the loaders and what they have cached) and *)
(* other requests interleave.  An operation is a tree of fields; a field   *)
(* is named by its path <<operation, root field, id, field, id, ...>>.     *)
(*                                                                         *)
(* A call of a service is one step here; module Membership takes the calls *)
(* apart, and module Loader the batches.  Contents of rows are left out:   *)
(* an entity is its id.  The caller is always the superuser: the first     *)
(* branch of auth.Middleware passes by all the others.                     *)
(***************************************************************************)
EXTENDS Integers, Sequences, FiniteSets, Schema

CONSTANTS
    Op,         \* operations
    Documents,  \* what clients may send together: a document for each operation, and
                \* the HTTP request or websocket that it comes with
    Given,      \* the database at the start
    MaxId,      \* bound: the largest id; a create beyond it fails
    Changes,    \* the memberships that others may change
    MaxChanges, \* bound: how often they do so in one behaviour
    MaxFaults,  \* bound: calls that fail without a reason visible here
    Absent,     \* an input that is not there
    Null        \* the literal null

VARIABLES
    doc,     \* the document of each operation
    since,   \* the moment it began, 0 if it did not
    node,    \* the fields that are run or were run, by their paths
    cache,   \* what each request's loaders have cached
    hist,    \* the database as it was and, last, as it is
    changes, faults \* bounds

vars == <<doc, since, node, cache, hist, changes, faults>>

Id  == 1..MaxId
Now == Len(hist)
Db  == hist[Now]

ToSet(s) == {s[i] : i \in DOMAIN s}

Code == {"admin.user", "admin.role", "admin.quote"}
Perm == Code \X {"read", "write", "manage"}
Database == [User : SUBSET Id, Role : SUBSET Id, Quote : SUBSET Id,
             member : SUBSET (Id \X Id), links : SUBSET (Nat \X Id),
             perms : SUBSET (Nat \X Perm), fresh : 1..MaxId + 1]

(* Members of roles are users; who comes gets an id that nobody has had.   *)
IsConsistent(d) ==
    /\ d \in Database /\ d.member \subseteq d.User \X d.Role
    /\ \A type \in {"User", "Role", "Quote"} : \A id \in d[type] : id < d.fresh

(* The library validates an operation before it is run: its fields are in  *)
(* the schema, and an input has only what its type has.                    *)
Input == [id : 0..MaxId, ids : Seq(Int), valid : BOOLEAN,
          roles : Seq(Int) \cup {Absent, Null}, users : Seq(Int) \cup {Absent, Null},
          permissions : Seq((Code \X {"none", "read", "write", "manage"}) \cup {Null})
                        \cup {Absent, Null}]

IsValidField(f, mutation) ==
    /\ f.name \in DOMAIN (IF mutation THEN Mutation ELSE Query) /\ f.arg \in Input
    /\ f.arg.roles # Absent => f.name \in {"createUser", "updateUser"}
    /\ f.arg.users # Absent \/ f.arg.permissions # Absent =>
          f.name \in {"createRole", "updateRole"}

IsValid(d) ==
    /\ d.mutation \in BOOLEAN /\ d.fields \in Seq(ToSet(d.fields)) \ {<<>>}
    /\ \A i \in DOMAIN d.fields : IsValidField(d.fields[i], d.mutation)

ASSUME ExecutionAssumption ==
    /\ MaxId \in Nat \ {0} /\ MaxChanges \in Nat /\ MaxFaults \in Nat
    /\ \A d \in Documents : DOMAIN d = Op /\ \A o \in Op : IsValid(d[o])
    /\ IsConsistent(Given)

-----------------------------------------------------------------------------
(* Mutant: an empty list is taken for one that is not given.               *)
HasElements(list) == list \notin {Absent, Null, <<>>}

(* Inputs.  A list that is absent stays nil; the literal null becomes an   *)
(* empty list, which is not nil.                                           *)
IsGiven(list) == list # Absent
IdsOf(list) == IF list \in {Absent, Null} THEN <<>> ELSE list
PermissionsOf(list) == ToSet(IdsOf(list))

(* SyncPermissions: a level brings the lower ones with it.                 *)
LevelsUpTo(level) ==
    CASE level = "read"  -> {"read"}
      [] level = "write" -> {"read", "write"}
      [] OTHER           -> {"read", "write", "manage"}
Expand(perms) == UNION {{p[1]} \X LevelsUpTo(p[2]) : p \in {q \in perms : q[2] # "none"}}

(* The calls of services that the resolver of a mutation makes, in order.  *)
(* updateRole asks for permissions where it means users.                   *)
Optional(condition, call) == IF condition THEN <<call>> ELSE <<>>

Calls(name, in) ==
    CASE name \in {"createUser", "updateUser"} ->
            <<name>> \o Optional(IsGiven(in.roles), "syncRoles")
      [] name = "createRole" ->
            <<name>> \o Optional(IsGiven(in.permissions), "syncPermissions")
                     \o Optional(IsGiven(in.users), "syncUsers")
      [] name = "updateRole" ->
            <<name>> \o Optional(IsGiven(in.permissions), "syncPermissions")
                     \o Optional(IsGiven(in.permissions), "syncUsers")
      [] name \in {"deleteUser", "deleteRole", "deleteQuote"} -> <<"find", name>>
      [] OTHER -> <<name>>

(* The caller that auth.Middleware puts into the context, and the          *)
(* directive, which compares its permissions with those of the field.      *)
Caller == [id |-> 1, is_superuser |-> TRUE]
Restricted(permissions, needs) == Caller.is_superuser \/ needs \subseteq permissions

-----------------------------------------------------------------------------
(* The rows a loader finds for a key.                                      *)
RolesByUser(u, d) == {m[2] : m \in {x \in d.member : x[1] = u}}
UsersByRole(r, d) == {m[1] : m \in {x \in d.member : x[2] = r}}
PermissionsByRole(r, d) == {q[2] : q \in {x \in d.perms : x[1] = r}}
PermissionsByUser(u, d) == UNION {PermissionsByRole(m[2], d) : m \in {x \in d.links : x[1] = u}}

Rows(loader, key, d) ==
    CASE loader = "RolesByUser"       -> RolesByUser(key, d)
      [] loader = "UsersByRole"       -> UsersByRole(key, d)
      [] loader = "PermissionsByRole" -> PermissionsByRole(key, d)
      [] loader = "PermissionsByUser" -> PermissionsByUser(key, d)

-----------------------------------------------------------------------------
(* Services.  A call on entity e with input in, which found the rows ids.  *)
IsCreate(call) == call \in {"createUser", "createRole", "createQuote"}
IsDelete(call) == call \in {"deleteUser", "deleteRole", "deleteQuote"}

(* Can it succeed?                                                         *)
CreateCan(d) == d.fresh <= MaxId
UpdateCan(call, e, d) == IF call = "updateRole" THEN e >= 1 ELSE e \in d[Mutation[call].type]
DeleteCan(call, in, ids) ==
    CASE call = "deleteUser" -> 1 \notin ids
      [] call = "deleteRole" -> 1 \notin ToSet(in.ids)
      [] OTHER               -> TRUE
SyncRolesCan(e, in, d) ==
    IdsOf(in.roles) = <<>> \/ (e \in d.User /\ ToSet(IdsOf(in.roles)) \subseteq d.Role)
SyncUsersCan(e, in, d) ==
    IdsOf(in.users) = <<>> \/ (e \in d.Role /\ ToSet(IdsOf(in.users)) \subseteq d.User)
\* mapPermissions reads through the pointer of an element that is null
SyncPermissionsCan(in) == Null \notin PermissionsOf(in.permissions)

Can(call, e, in, ids, d) ==
    CASE IsCreate(call) -> CreateCan(d)
      [] call \in {"updateUser", "updateRole", "updateQuote"} -> UpdateCan(call, e, d)
      [] IsDelete(call) -> DeleteCan(call, in, ids)
      [] call = "syncRoles" -> SyncRolesCan(e, in, d)
      [] call = "syncUsers" -> SyncUsersCan(e, in, d)
      [] call = "syncPermissions" -> SyncPermissionsCan(in)
      [] OTHER -> TRUE

(* What it leaves behind.                                                  *)
Created(type, d) == [d EXCEPT ![type] = @ \cup {d.fresh}, !.fresh = @ + 1]
(* Mutant: the rows of role_user stay.                                     *)
RowsStay(ids, d) == [d EXCEPT !.User = @ \ ids]

DeletedUsers(ids, d) ==
    [d EXCEPT !.User = @ \ ids, !.member = {m \in @ : m[1] \notin ids}]
RevokedRoles(ids, d) ==
    [d EXCEPT !.links = {m \in @ : m[2] \notin ids}, !.perms = {q \in @ : q[1] \notin ids}]

(* util.UniqueInts works in the slice it is given: it moves the first      *)
(* occurrences to the front, which is its answer, and leaves what follows. *)
(* A second time nothing moves.                                            *)
Firsts(s) == {i \in DOMAIN s : \A k \in 1..(i - 1) : s[k] # s[i]}
UniqueInts(s) == {s[i] : i \in Firsts(s)}
Moved(s) == UniqueInts(s) \cup {s[i] : i \in Cardinality(Firsts(s)) + 1..Len(s)}

(* The enforcer is told of the roles in the slice that was moved.          *)
DeletedRoles(s, d) ==
    [RevokedRoles(Moved(s), d) EXCEPT
        !.Role = @ \ UniqueInts(s), !.member = {m \in @ : m[2] \notin UniqueInts(s)}]
SyncedRoles(e, roles, d) ==
    [d EXCEPT !.member = {m \in @ : m[1] # e} \cup ({e} \X roles),
              !.links = (@ \ {m \in d.member : m[1] = e}) \cup ({e} \X roles)]
SyncedUsers(e, us, d) ==
    [d EXCEPT !.member = {m \in @ : m[2] # e} \cup (us \X {e}),
              !.links = (@ \ {m \in d.member : m[2] = e}) \cup (us \X {e})]
SyncedPermissions(e, perms, d) ==
    [RevokedRoles({e}, d) EXCEPT !.perms = @ \cup ({e} \X Expand(perms))]

After(call, e, in, ids, d) ==
    CASE IsCreate(call) -> Created(Mutation[call].type, d)
      [] call = "deleteUser" -> DeletedUsers(ids, d)
      [] call = "deleteRole" -> DeletedRoles(in.ids, d)
      [] call = "deleteQuote" -> [d EXCEPT !.Quote = @ \ ids]
      [] call = "syncRoles" -> SyncedRoles(e, ToSet(IdsOf(in.roles)), d)
      [] call = "syncUsers" -> SyncedUsers(e, ToSet(IdsOf(in.users)), d)
      [] call = "syncPermissions" -> SyncedPermissions(e, PermissionsOf(in.permissions), d)
      [] OTHER -> d

(* What it may leave behind when it fails: the rows are rolled back, what  *)
(* the enforcer was told before is not.                                    *)
Links(d, links) == [d EXCEPT !.links = links]
Inserted(list, present) ==
    {ToSet(SubSeq(list, 1, k)) : k \in {j \in 0..Len(list) : ToSet(SubSeq(list, 1, j)) \subseteq present}}

Left(call, e, in, ids, d) ==
    {d} \cup
    CASE call = "syncRoles" ->
            {Links(d, SyncedRoles(e, roles, d).links) :
                roles \in Inserted(IdsOf(in.roles), IF e \in d.User THEN d.Role ELSE {})}
      [] call = "syncUsers" ->
            {Links(d, SyncedUsers(e, us, d).links) :
                us \in Inserted(IdsOf(in.users), IF e \in d.Role THEN d.User ELSE {})}
      [] call = "deleteRole" /\ DeleteCan(call, in, ids) -> {RevokedRoles(ToSet(in.ids), d)}
      [] OTHER -> {}

-----------------------------------------------------------------------------
(* The tree of fields.                                                     *)
RequestOf(o) == doc[o].request
RootOf(d, i) == IF d.mutation THEN Mutation[d.fields[i].name] ELSE Query[d.fields[i].name]
Arg(p) == doc[p[1]].fields[p[2]].arg
Name(p) == doc[p[1]].fields[p[2]].name

Roots(o) == {p \in DOMAIN node : p[1] = o /\ Len(p) = 2}
Below(p) == {q \in DOMAIN node : Len(q) >= Len(p) /\ SubSeq(q, 1, Len(p)) = p}
Finished(p) == \A q \in Below(p) : node[q].st \in {"done", "null"}

Field(st, type, loader, sel, calls) ==
    [st |-> st, type |-> type, loader |-> loader, sel |-> sel, calls |-> calls,
     ids |-> {}, at |-> 0]

(* A root field: denied or not validated, it is null at once.              *)
NewRoot(d, i) ==
    LET f  == d.fields[i]
        ok == Restricted(PermissionsByUser(Caller.id, Db), RootOf(d, i).needs) /\ f.arg.valid
    IN Field(IF ok THEN "running" ELSE "null", RootOf(d, i).type, "none", f.sel,
             IF d.mutation THEN Calls(f.name, f.arg) ELSE <<"find">>)

NewRoots(o, d, is) ==
    [p \in {<<o, i>> : i \in is} |-> NewRoot(d, p[2])]

(* The fields below p that ask a loader, for each of its objects.          *)
Children(p, ids) ==
    LET n  == node[p]
        fs == {f \in DOMAIN n.sel \cap DOMAIN Fields[n.type] :
                 Fields[n.type][f].loader # "none"}
    IN [q \in {p \o step : step \in ids \X fs} |->
          LET f == q[Len(q)]
          IN Field("asked", Fields[n.type][f].type, Fields[n.type][f].loader, n.sel[f], <<>>)]

Delivered(p, ids, at) ==
    Extended([node EXCEPT ![p].st = "done", ![p].ids = ids, ![p].at = at, ![p].calls = <<>>],
             Children(p, ids))
Nulled(p) == [node EXCEPT ![p].st = "null", ![p].calls = <<>>]

(* Mutant: a mutation is executed like a query.                            *)
AllAtOnce(d) == DOMAIN d.fields

(* _Query dispatches its fields concurrently, _Mutation goes one by one.   *)
First(d) == IF d.mutation THEN {1} ELSE DOMAIN d.fields

Begin(o) ==
    /\ since[o] = 0
    /\ since' = [since EXCEPT ![o] = Now]
    /\ node' = Extended(node, NewRoots(o, doc[o], First(doc[o])))
    /\ UNCHANGED <<doc, cache, hist, changes, faults>>

(* Mutant: the next field is not run when one before it is null.           *)
GoesOn(p) == Finished(p) /\ node[p].st = "done"

Behind(p) == Finished(p)

(* The next field of a mutation, whatever became of those before it.       *)
NextField(o) ==
    LET i == Cardinality(Roots(o))
    IN /\ since[o] > 0 /\ i < Len(doc[o].fields)
       /\ \A p \in Roots(o) : Behind(p)
       /\ node' = Extended(node, NewRoots(o, doc[o], {i + 1}))
       /\ UNCHANGED <<doc, since, cache, hist, changes, faults>>

Fault == faults < MaxFaults /\ faults' = faults + 1

(* The rows a root field asks for; authUser has its user from the context. *)
Found(p) ==
    LET type == node[p].type
    IN CASE Name(p) = "authUser" -> {Caller.id}
         [] RootOf(doc[p[1]], p[2]).takes = "nothing" /\ Name(p) # "authUser" -> Db[type]
         [] RootOf(doc[p[1]], p[2]).takes = "id" -> Db[type] \cap {Arg(p).id}
         [] RootOf(doc[p[1]], p[2]).takes = "ids" -> Db[type] \cap ToSet(Arg(p).ids)

(* A root field of a query reads its rows; a single one must be there.     *)
Read(p) ==
    /\ node[p].st = "running" /\ ~ doc[p[1]].mutation
    /\ \/ /\ Found(p) # {} \/ RootOf(doc[p[1]], p[2]).list
          /\ node' = Delivered(p, Found(p), Now)
          /\ UNCHANGED faults
       \/ /\ \/ Found(p) = {} /\ ~ RootOf(doc[p[1]], p[2]).list /\ UNCHANGED faults
             \/ Name(p) # "authUser" /\ Fault
          /\ node' = Nulled(p)
    /\ UNCHANGED <<doc, since, cache, hist, changes>>

(* The entity a mutation works on, and the rows it will answer with.       *)
Entity(p) == IF IsCreate(Name(p)) /\ node[p].ids # {}
             THEN CHOOSE id \in node[p].ids : TRUE ELSE Arg(p).id
Answers(p, call) ==
    CASE call = "find"  -> Found(p)
      [] IsCreate(call) -> {Db.fresh}
      [] call \in {"updateUser", "updateRole", "updateQuote"} -> {Arg(p).id}
      [] OTHER -> node[p].ids

Committed(d) == IF d = Db THEN hist ELSE Append(hist, d)

(* The next call of a mutation's resolver succeeds, or fails and ends it.  *)
MutationStep(p) ==
    LET call == Head(node[p].calls)
        rest == Tail(node[p].calls)
        able == Can(call, Entity(p), Arg(p), node[p].ids, Db)
    IN /\ node[p].st = "running" /\ doc[p[1]].mutation
       /\ \/ /\ able
             /\ hist' = Committed(After(call, Entity(p), Arg(p), node[p].ids, Db))
             /\ node' = IF rest = <<>>
                        THEN Delivered(p, Answers(p, call), Len(hist'))
                        ELSE [node EXCEPT ![p].calls = rest, ![p].ids = Answers(p, call)]
             /\ UNCHANGED faults
          \/ /\ IF able THEN Fault ELSE UNCHANGED faults
             /\ \E d \in Left(call, Entity(p), Arg(p), node[p].ids, Db) : hist' = Committed(d)
             /\ node' = Nulled(p)
       /\ UNCHANGED <<doc, since, cache, changes>>

-----------------------------------------------------------------------------
(* Loaders.                                                                *)
Key(p) == p[Len(p) - 1]

(* Mutant: the loaders are the server's and not the request's.             *)
SharedSlot(p) == <<node[p].loader, Key(p)>>

Slot(p) == <<RequestOf(p[1]), node[p].loader, Key(p)>>

(* A field asks its loader: what is cached is there at once.               *)
Load(p) ==
    /\ node[p].st = "asked"
    /\ node' = IF Slot(p) \in DOMAIN cache
               THEN Delivered(p, cache[Slot(p)].ids, cache[Slot(p)].at)
               ELSE [node EXCEPT ![p].st = "waiting"]
    /\ UNCHANGED <<doc, since, cache, hist, changes, faults>>

(* A batch: one query for the keys of some fields that wait, or one error  *)
(* for all.  The enforcer cannot fail, and is asked for one key at a time. *)
FromEnforcer(loader) == loader \in {"PermissionsByRole", "PermissionsByUser"}

Fetch(request, loader, fs) ==
    /\ \A p \in fs : node[p].st = "waiting" /\ node[p].loader = loader
                     /\ RequestOf(p[1]) = request
    /\ FromEnforcer(loader) => \A p, q \in fs : Key(p) = Key(q)
    /\ \/ /\ node' = [p \in DOMAIN node |->
                       IF p \in fs
                       THEN [node[p] EXCEPT !.st = "fetched", !.at = Now,
                                            !.ids = Rows(loader, Key(p), Db)]
                       ELSE node[p]]
          /\ UNCHANGED faults
       \/ /\ ~ FromEnforcer(loader) /\ Fault
          /\ node' = [p \in DOMAIN node |->
                       IF p \in fs THEN [node[p] EXCEPT !.st = "null"] ELSE node[p]]
    /\ UNCHANGED <<doc, since, cache, hist, changes>>

Waiting == {p \in DOMAIN node : node[p].st = "waiting"}
FetchSome(request) ==
    \E fs \in SUBSET Waiting :
       /\ fs # {}
       /\ \E p \in fs : Fetch(request, node[p].loader, fs)

(* The thunk caches what was fetched, whatever is cached by now.           *)
Thunk(p) ==
    /\ node[p].st = "fetched"
    /\ cache' = Extended([s \in {Slot(p)} |-> [ids |-> node[p].ids, at |-> node[p].at]], cache)
    /\ node' = Delivered(p, node[p].ids, node[p].at)
    /\ UNCHANGED <<doc, since, hist, changes, faults>>

(* Another client gives a role to a user, or takes it away.                *)
Change(u, r) ==
    /\ changes < MaxChanges /\ u \in Db.User /\ r \in Db.Role
    /\ changes' = changes + 1
    /\ LET toggle(s) == IF <<u, r>> \in Db.member THEN s \ {<<u, r>>} ELSE s \cup {<<u, r>>}
       IN hist' = Append(hist, [Db EXCEPT !.member = toggle(@), !.links = toggle(@)])
    /\ UNCHANGED <<doc, since, node, cache, faults>>

-----------------------------------------------------------------------------
Init ==
    /\ doc \in Documents
    /\ since = [o \in Op |-> 0]
    /\ node = [p \in {} |-> Absent]
    /\ cache = [s \in {} |-> Absent]
    /\ hist = <<Given>>
    /\ changes = 0 /\ faults = 0

Step(o) ==
    \/ NextField(o)
    \/ \E p \in {q \in DOMAIN node : q[1] = o} : Read(p) \/ MutationStep(p) \/ Load(p) \/ Thunk(p)

Next ==
    \/ \E o \in Op : Begin(o) \/ Step(o) \/ FetchSome(RequestOf(o))
    \/ \E m \in Changes : Change(m[1], m[2])

Spec == Init /\ [][Next]_vars

(* Goroutines run, statements return, batches end (module Loader).  An     *)
(* operation has finitely many steps: that one of them is taken is enough. *)
FairSpec ==
    Spec /\ \A o \in Op : WF_vars(Step(o) \/ FetchSome(RequestOf(o)))

-----------------------------------------------------------------------------
TypeOK ==
    /\ since \in [Op -> 0..Now]
    /\ \A p \in DOMAIN node :
          /\ p[1] \in Op /\ since[p[1]] > 0
          /\ node[p].st \in {"running", "asked", "waiting", "fetched", "done", "null"}
          /\ node[p].at \in 0..Now
          /\ node[p].ids \subseteq IF node[p].type = "Permission" THEN Perm ELSE Id
    /\ \A s \in DOMAIN cache : cache[s].at \in 1..Now
    /\ hist \in Seq(Database)
    /\ \A i \in DOMAIN hist : hist[i].member \subseteq hist[i].User \X hist[i].Role

IsShown(p) == node[p].st = "done"

(* A list of an answer is a list the database had at some moment of the    *)
(* request: neither that of another key of the batch, nor one that another *)
(* request has cached, nor a mixture of two moments.                       *)
ShownWasTrue ==
    \A p \in DOMAIN node : node[p].loader # "none" /\ IsShown(p) =>
        \E o \in Op : /\ RequestOf(o) = RequestOf(p[1]) /\ since[o] > 0
                      /\ \E i \in since[o]..Now : Rows(node[p].loader, Key(p), hist[i]) = node[p].ids

IsAlone(o) == \A other \in Op \ {o} : RequestOf(other) # RequestOf(o)

(* What is shown below a field of a mutation is from before the calls of   *)
(* the fields behind it, and below the first field, where nothing is       *)
(* cached yet, from after its own.                                         *)
FieldsInOrder ==
    \A o \in Op : since[o] > 0 /\ doc[o].mutation /\ IsAlone(o) =>
        \A p \in Roots(o) : \A q \in Below(p) \ {p} : IsShown(q) =>
            /\ p[2] = 1 => node[q].at >= node[p].at
            /\ \A r \in Roots(o) : r[2] > p[2] /\ IsShown(r) => node[q].at <= node[r].at

(* What a mutation answers with has been done as its input says, through   *)
(* all the calls and whatever others did between them: a list that is      *)
(* given, be it empty, is the list it has set; a new entity is one that    *)
(* nobody has seen; a deleted one is gone, a role with its grants.  Left   *)
(* out are the users given to updateRole, which it drops when no           *)
(* permissions are given.                                                  *)
GivenIsDone ==
    \A o \in Op : since[o] > 0 /\ doc[o].mutation =>
        \A p \in Roots(o) : IsShown(p) =>
            LET d == hist[node[p].at]
                e == Entity(p)
            IN /\ Arg(p).roles # Absent => RolesByUser(e, d) = ToSet(IdsOf(Arg(p).roles))
               /\ /\ Arg(p).users # Absent
                  /\ Name(p) = "updateRole" => Arg(p).permissions # Absent
                  => UsersByRole(e, d) = ToSet(IdsOf(Arg(p).users))
               /\ IsCreate(Name(p)) => node[p].ids \cap hist[since[o]][node[p].type] = {}
               /\ IsDelete(Name(p)) => node[p].ids \cap d[node[p].type] = {}
               /\ Name(p) = "deleteRole" => \A r \in node[p].ids :
                    UsersByRole(r, d) = {} /\ PermissionsByRole(r, d) = {}

IsAnswered(o) ==
    /\ since[o] > 0 /\ Cardinality(Roots(o)) = Len(doc[o].fields)
    /\ \A p \in Roots(o) : Finished(p)

(* Every operation is answered, whatever fails in it and around it.        *)
AnsweredAtLast == \A o \in Op : since[o] > 0 ~> IsAnswered(o)

-----------------------------------------------------------------------------
(* What does not hold.                                                     *)

(* Every element of a list is an object, as the ! of [User!]! says.        *)
ObjectIsNull(p, id) ==
    \E q \in Below(p) : /\ Len(q) = Len(p) + 2 /\ q[Len(p) + 1] = id
                        /\ q[Len(q)] \in Needs[node[p].type] /\ node[q].st = "null"
IsNull(p) ==
    \/ node[p].st = "null"
    \/ Len(p) = 2 /\ ~ RootOf(doc[p[1]], p[2]).list /\ \E id \in node[p].ids : ObjectIsNull(p, id)
DataIsNull(o) ==
    \E p \in Roots(o) : IsNull(p) /\
        Name(p) \in IF doc[o].mutation THEN Needs["Mutation"] ELSE Needs["Query"]

ElementsAreObjects ==
    \A o \in Op : IsAnswered(o) /\ ~ DataIsNull(o) =>
        \A p \in DOMAIN node : p[1] = o /\ IsShown(p) => \A id \in node[p].ids : ~ ObjectIsNull(p, id)

(* An operation without an answer has done nothing.                        *)
NullIsUndone ==
    \A o \in Op : IsAnswered(o) /\ DataIsNull(o) /\ changes = 0 /\ IsAlone(o) => Db = hist[since[o]]

(* Every field of a mutation shows its own change.                         *)
OwnChangeShown ==
    \A o \in Op : since[o] > 0 /\ doc[o].mutation /\ IsAlone(o) =>
        \A p \in Roots(o) : \A q \in Below(p) \ {p} : IsShown(q) => node[q].at >= node[p].at

(* updateRole sets the users it is given, and them only.                   *)
UsersAreSet ==
    \A o \in Op : since[o] > 0 /\ doc[o].mutation =>
        \A p \in Roots(o) : IsShown(p) /\ Name(p) = "updateRole" =>
            LET d == hist[node[p].at]
            IN IF Arg(p).users # Absent
               THEN UsersByRole(Entity(p), d) = ToSet(IdsOf(Arg(p).users))
               ELSE changes = 0 => UsersByRole(Entity(p), d) = UsersByRole(Entity(p), hist[since[o]])
=============================================================================

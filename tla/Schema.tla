-------------------------------- MODULE Schema --------------------------------
(***************************************************************************)
(* What the generated GraphQL server (internal/graphql/gqlserver) knows of *)
(* the schema: for every field the permission it asks for, the service or  *)
(* data loader its resolver calls, the type it answers with, and whether a *)
(* missing answer is an error of its own; for every object the fields      *)
(* without which it is not an object.  Module Execution runs operations    *)
(* over these tables, as the generated code does, which repeats them in    *)
(* one function per field.                                                 *)
(*                                                                         *)
(* Left out: introspection (__schema, __type), which answers from constant *)
(* data of the library, UploadResult, which no field returns, and the      *)
(* complexity table, which nothing asks.                                   *)
(***************************************************************************)

(* f, and g where f says nothing: the @@ of module TLC, which the prover   *)
(* does not know.                                                          *)
Extended(f, g) == [x \in DOMAIN f \cup DOMAIN g |-> IF x \in DOMAIN f THEN f[x] ELSE g[x]]

(* A field of the root: by whom it may be used, what it takes (nothing, an *)
(* id, ids or an input), and what it answers with.                         *)
Root(needs, takes, type, list, nonNull) ==
    [needs |-> needs, takes |-> takes, type |-> type, list |-> list, nonNull |-> nonNull]

-----------------------------------------------------------------------------
(* The fields of Query: _Query_users and so on.                            *)
QueryUsers    == Root({<<"admin.user", "read">>}, "nothing", "User", TRUE, TRUE)
QueryUser     == Root({<<"admin.user", "read">>}, "id", "User", FALSE, TRUE)
QueryAuthUser == Root({}, "nothing", "User", FALSE, FALSE)
QueryRoles    == Root({<<"admin.role", "read">>}, "nothing", "Role", TRUE, TRUE)
QueryRole     == Root({<<"admin.role", "read">>}, "id", "Role", FALSE, TRUE)
QueryQuotes   == Root({<<"admin.quote", "read">>}, "nothing", "Quote", TRUE, TRUE)
QueryQuote    == Root({<<"admin.quote", "read">>}, "id", "Quote", FALSE, TRUE)

Query == [users |-> QueryUsers, user |-> QueryUser, authUser |-> QueryAuthUser,
          roles |-> QueryRoles, role |-> QueryRole,
          quotes |-> QueryQuotes, quote |-> QueryQuote]

(* The fields of Mutation.                                                 *)
CreateUser  == Root({<<"admin.user", "manage">>}, "input", "User", FALSE, TRUE)
UpdateUser  == Root({<<"admin.user", "write">>}, "input", "User", FALSE, TRUE)
DeleteUser  == Root({<<"admin.user", "manage">>}, "ids", "User", TRUE, TRUE)
CreateRole  == Root({<<"admin.role", "manage">>}, "input", "Role", FALSE, TRUE)
UpdateRole  == Root({<<"admin.role", "write">>}, "input", "Role", FALSE, TRUE)
DeleteRole  == Root({<<"admin.role", "manage">>}, "ids", "Role", TRUE, TRUE)
CreateQuote == Root({<<"admin.quote", "manage">>}, "input", "Quote", FALSE, TRUE)
UpdateQuote == Root({<<"admin.quote", "write">>}, "input", "Quote", FALSE, TRUE)
DeleteQuote == Root({<<"admin.quote", "manage">>}, "ids", "Quote", TRUE, TRUE)

Mutation == [createUser |-> CreateUser, updateUser |-> UpdateUser, deleteUser |-> DeleteUser,
             createRole |-> CreateRole, updateRole |-> UpdateRole, deleteRole |-> DeleteRole,
             createQuote |-> CreateQuote, updateQuote |-> UpdateQuote,
             deleteQuote |-> DeleteQuote]

-----------------------------------------------------------------------------
(* The fields of the entities.  Most are taken from the object in hand and *)
(* cannot be missing; code_level may be missing, and the fields with a     *)
(* loader have a resolver that asks it, in a goroutine of its own.         *)
Taken  == [loader |-> "none", type |-> "scalar", list |-> FALSE, nonNull |-> TRUE]
Loaded(loader, type) == [loader |-> loader, type |-> type, list |-> TRUE, nonNull |-> TRUE]

QuoteFields == [id |-> Taken, author |-> Taken, content |-> Taken]

PermissionFields == [code |-> Taken, level |-> Taken,
                     code_level |-> [Taken EXCEPT !.nonNull = FALSE]]

RoleScalars     == [id |-> Taken, name |-> Taken]
RolePermissions == Loaded("PermissionsByRole", "Permission")
RoleUsers       == Loaded("UsersByRole", "User")

UserScalars     == [id |-> Taken, name |-> Taken, is_superuser |-> Taken]
UserRoles       == Loaded("RolesByUser", "Role")
UserPermissions == Loaded("PermissionsByUser", "Permission")

Fields == [Quote |-> QuoteFields,
           Permission |-> PermissionFields,
           Role |-> Extended([permissions |-> RolePermissions, users |-> RoleUsers], RoleScalars),
           User |-> Extended([roles |-> UserRoles, permissions |-> UserPermissions], UserScalars)]

(* The fields without which an object is Null: the executors of the        *)
(* objects count them as invalid, apart from the tables above.             *)
QueryNeeds      == {"users", "user", "roles", "role", "quotes", "quote"}
MutationNeeds   == {"createUser", "updateUser", "deleteUser", "createRole", "updateRole",
                    "deleteRole", "createQuote", "updateQuote", "deleteQuote"}
QuoteNeeds      == {"id", "author", "content"}
PermissionNeeds == {"code", "level"}
RoleNeeds       == {"id", "name", "permissions", "users"}
UserNeeds       == {"id", "name", "is_superuser", "roles", "permissions"}

Needs == [Query |-> QueryNeeds, Mutation |-> MutationNeeds, Quote |-> QuoteNeeds,
          Permission |-> PermissionNeeds, Role |-> RoleNeeds, User |-> UserNeeds]
=============================================================================

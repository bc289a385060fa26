----------------------------- MODULE MCExecution -----------------------------
(* Operations over two users, two roles and a quote, for TLC.              *)
EXTENDS Execution, TLC

CONSTANTS o1, o2, r1, r2

In == [id |-> 0, ids |-> <<>>, valid |-> TRUE,
       roles |-> Absent, users |-> Absent, permissions |-> Absent]
F(name, arg, sel) == [name |-> name, arg |-> arg, sel |-> sel]
M(fields) == [mutation |-> TRUE, fields |-> fields, request |-> r1]
Q(fields) == [mutation |-> FALSE, fields |-> fields, request |-> r1]

Leaf == [id |-> "scalar"]
S(f, sel) == f :> sel
Perms == S("permissions", [code |-> "scalar", level |-> "scalar"])

Reads == <<"admin.user", "read">>
Writes == <<"admin.user", "write">>

Seeded == [User |-> {1, 2}, Role |-> {1, 2}, Quote |-> {1},
           member |-> {<<1, 1>>, <<2, 2>>}, links |-> {<<1, 1>>, <<2, 2>>},
           perms |-> {<<2, Reads>>}, fresh |-> 3]

(* Mutations, most of them of several fields, some of which must fail.     *)
SyncsUser == M(<<F("createUser", [In EXCEPT !.roles = <<1, 2>>], S("roles", Leaf)),
                 F("updateUser", [In EXCEPT !.id = 3, !.roles = <<>>], S("roles", Leaf))>>)
MovesUser == M(<<F("updateUser", [In EXCEPT !.id = 2, !.roles = <<1>>], S("roles", S("users", Leaf))),
                 F("deleteUser", [In EXCEPT !.ids = <<1, 2>>], Leaf)>>)
DropsUser == M(<<F("updateUser", [In EXCEPT !.id = 2, !.roles = <<1, 3>>], S("roles", Leaf)),
                 F("deleteUser", [In EXCEPT !.ids = <<2>>], S("roles", Leaf))>>)
SyncsRole == M(<<F("createRole", [In EXCEPT !.permissions = <<Writes>>, !.users = <<2>>],
                   S("users", Leaf) @@ Perms),
                 F("updateRole", [In EXCEPT !.id = 3, !.permissions = Null], S("users", Leaf))>>)
DropsRole == M(<<F("updateRole", [In EXCEPT !.id = 2, !.users = <<1>>], S("users", Leaf)),
                 F("updateRole", [In EXCEPT !.id = 2, !.permissions = <<Null>>], Leaf),
                 F("deleteRole", [In EXCEPT !.ids = <<2, 2, 3>>], S("users", Leaf))>>)
Quotes    == M(<<F("createQuote", In, Leaf), F("updateQuote", [In EXCEPT !.id = 3], Leaf),
                 F("deleteQuote", [In EXCEPT !.ids = <<1, 3>>], Leaf)>>)
Refused   == M(<<F("createUser", [In EXCEPT !.valid = FALSE], Leaf),
                 F("deleteRole", [In EXCEPT !.ids = <<1>>], Leaf)>>)

AllUsers  == Q(<<F("users", In, S("roles", Leaf)), F("quotes", In, Leaf)>>)
AllRoles  == Q(<<F("roles", In, S("users", Leaf))>>)
OneUser   == Q(<<F("user", [In EXCEPT !.id = 2], S("roles", Leaf))>>)
OneRole   == Q(<<F("role", [In EXCEPT !.id = 2], S("users", S("roles", Leaf)))>>)
Self      == Q(<<F("authUser", In, Perms), F("quote", [In EXCEPT !.id = 1], Leaf)>>)

(* Two operations with a request each, or on one websocket.                *)
OnOneSocket(a, b) == (o1 :> a) @@ (o2 :> b)
Together(a, b)    == OnOneSocket(a, [b EXCEPT !.request = r2])

Both == {Together(SyncsUser, Refused), Together(SyncsRole, Refused), Together(MovesUser, OneUser),
         Together(DropsUser, OneRole), Together(DropsRole, DropsUser), Together(Quotes, Self),
         Together(AllUsers, Refused), Together(AllRoles, Refused),
         OnOneSocket(DropsRole, OneRole), OnOneSocket(DropsUser, OneUser)}

Others == {<<2, 2>>}
=============================================================================

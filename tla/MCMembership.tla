---------------------------- MODULE MCMembership ----------------------------
(* Instances of Membership for TLC: who sends what, on tables of two or    *)
(* three rows.                                                             *)
EXTENDS Membership, TLC

(* The helpers that build requests, named after the mutations.             *)
UpdateUserWith(u, rs) == [op |-> "updateUser", id |-> u, ids |-> rs,
                          sync |-> TRUE, grant |-> FALSE, perms |-> {}]
CreateUserWith(rs)    == [op |-> "createUser", id |-> 1, ids |-> rs,
                          sync |-> TRUE, grant |-> FALSE, perms |-> {}]
UpdateRoleWith(r, ps, us) == [op |-> "updateRole", id |-> r, ids |-> us,
                              sync |-> TRUE, grant |-> TRUE, perms |-> ps]
GrantOnly(r, ps)      == [op |-> "updateRole", id |-> r, ids |-> {},
                          sync |-> FALSE, grant |-> TRUE, perms |-> ps]
RenameRole(r)         == [op |-> "updateRole", id |-> r, ids |-> {},
                          sync |-> FALSE, grant |-> FALSE, perms |-> {}]
CreateRoleWith(ps, us)== [op |-> "createRole", id |-> 1, ids |-> us,
                          sync |-> us # {}, grant |-> ps # {}, perms |-> ps]
DeleteUsersOf(us)     == [op |-> "deleteUsers", id |-> 1, ids |-> us,
                          sync |-> FALSE, grant |-> FALSE, perms |-> {}]
DeleteRolesOf(rs)     == [op |-> "deleteRoles", id |-> 1, ids |-> rs,
                          sync |-> FALSE, grant |-> FALSE, perms |-> {}]

MembersMC == {<<1, 1>>, <<2, 2>>}

(* Everything at once.                                                     *)
MixedRequests ==
    {UpdateUserWith(2, {1}), CreateUserWith({2}),
     UpdateRoleWith(2, {<<"quote", "write">>}, {2}), RenameRole(2),
     GrantOnly(2, {}), CreateRoleWith({}, {}),
     CreateRoleWith({<<"quote", "other">>}, {}), CreateRoleWith({}, {2}),
     DeleteUsersOf({1, 2}), DeleteUsersOf({2, 3}), DeleteRolesOf({2}), DeleteRolesOf({1, 2}),
     UpdateRoleWith(2, {<<"quote", "read">>, <<"quote", "none">>}, {1})}

(* Memberships change from the side of the user and from that of the role, *)
(* and both sides are deleted; two deletions may cross.                    *)
BothSides ==
    {UpdateUserWith(2, {1}), UpdateUserWith(2, {1, 2}), CreateUserWith({1}),
     UpdateRoleWith(2, {}, {}), UpdateRoleWith(1, {}, {1, 2}),
     DeleteUsersOf({1, 2}), DeleteUsersOf({2, 3}), DeleteRolesOf({2})}

(* Two updates of one user.                                                *)
TwoSyncs == {UpdateUserWith(2, {1}), UpdateUserWith(2, {2})}

(* Two updates of one role's permissions.                                  *)
TwoPermissionSyncs == {UpdateRoleWith(2, {<<"quote", "write">>}, {2}),
                       UpdateRoleWith(2, {<<"quote", "none">>}, {2})}

AdminLosesRole == {UpdateUserWith(1, {2})}

TwoProcs == Permutations(Proc)
=============================================================================

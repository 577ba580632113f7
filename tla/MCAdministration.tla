-------------------------- MODULE MCAdministration --------------------------
(* A small instance of Administration: ann, who is system_admin or admin and
   belongs to another tenant too, and bob, who is an admin, a member or not
   there; one custom role; a permission of the role toggles, one of the other
   routes, and one of no route and one of the platform. *)
EXTENDS Administration, TLC
CONSTANTS ann, bob, adm, r1, manage, toggle, extra, plat

RouteNeeds ==
  [op \in RoleOps \cup UserOps |->
     IF op \in {"setPermission", "setPermissions"} THEN toggle ELSE manage]

Ask(op, by, user, r, roles, perms, on) ==
  [op |-> op, by |-> by, user |-> user, role |-> r, roles |-> roles, perms |-> perms, on |-> on]

RoleRequest(op, r, perms, on)  == Ask(op, ann, ann, r, {}, perms, on)
UserRequest(op, by, u, roles, on) == Ask(op, by, u, Sys, roles, {}, on)

RequestsAsked ==
  {RoleRequest("createRole", r1, ps, TRUE) : ps \in {{extra}, {manage}}}
  \cup {RoleRequest("setPermission", r, {extra}, on) : r \in {r1, Member, Sys}, on \in BOOLEAN}
  \cup {RoleRequest("setPermissions", r, ps, TRUE) : r \in {r1, Sys}, ps \in {{plat}, {manage, extra}}}
  \cup {RoleRequest("updateRole", r, {}, on) : r \in {r1, Member, Sys}, on \in BOOLEAN}
  \cup {RoleRequest("removeRole", r, {}, TRUE) : r \in {r1, Member, Sys}}
  \cup {UserRequest("createUser", ann, bob, rs, TRUE) : rs \in {{}, {r1}}}
  \cup {UserRequest("setRoles", ann, bob, rs, TRUE) : rs \in {{r1}, {Sys}, {adm}}}
  \cup {UserRequest(op, bob, ann, {Member}, TRUE) : op \in {"setRoles", "createUser"}}
  \cup {UserRequest("removeUser", by, u, {}, on) : by \in {ann, bob}, u \in {ann, bob}, on \in BOOLEAN}

RolesAtFirst == {(ann :> {r}) @@ (bob :> s) : r \in {Sys, adm}, s \in {{Member}, {adm}, {}}}
GrantsAtFirst == (Sys :> Perms) @@ (adm :> {manage, toggle}) @@ (Member :> {})

Symmetries == Permutations(Calls)
============================================================================

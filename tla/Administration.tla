--------------------------- MODULE Administration ---------------------------
(* Administration of one tenant: src/roles/roles.service, src/users/users.service,
   the guard of their controllers and what they read of src/access.

   A call is one request that has passed authentication; it ends a step at each
   await.  getUserAccess is one step here and its entries vanish at any time:
   AccessCache has its steps.  A role is built in and global, or custom and the
   tenant's.  An id of a user or a role is used once. *)
EXTENDS Naturals, FiniteSets

CONSTANTS
  Users, Calls,
  Global,      \* built-in roles, of all tenants
  Sys, Member, \* system_admin and member
  Custom,      \* ids of the tenant's own roles
  Perms, Platform,
  Elsewhere,   \* users who are members of another tenant too
  Needs,       \* the permission each route asks for
  Requests,    \* what may be asked
  FirstRoles,  \* role assignments there are at first
  FirstGrants, \* permissions of the built-in roles at first
  MaxCalls,    \* bound: requests in all
  None

Roles  == Global \cup Custom
Access == [roles : SUBSET Roles, perms : SUBSET Perms]

RoleOps == {"createRole", "updateRole", "removeRole", "setPermissions", "setPermission"}
UserOps == {"createUser", "setRoles", "removeUser"}
Request == [op : RoleOps \cup UserOps, by : Users, user : Users, role : Roles,
            roles : SUBSET Roles, perms : SUBSET Perms, on : BOOLEAN]

(* A call: its step, its request, the permissions of the roles it has read to
   assign, and whether it has found the user to create. *)
Steps == {"guard", "findRole", "checkPerms", "findUser", "readRoles", "checkRoles",
          "write", "count", "purge", "clear", "matrix"}
Call == [at : Steps, q : Request, need : SUBSET Perms, found : BOOLEAN]

ASSUME AdministrationAssumption ==
  /\ {Sys, Member} \subseteq Global /\ Sys # Member /\ Global \cap Custom = {}
  /\ Platform \subseteq Perms /\ Needs \in [RoleOps \cup UserOps -> Perms \ Platform]
  /\ Elsewhere \subseteq Users /\ Requests \subseteq Request
  /\ FirstRoles \subseteq [Users -> SUBSET Global]
  /\ FirstGrants \in [Global -> SUBSET Perms]
  /\ \A r \in Global \ {Sys} : FirstGrants[r] \cap Platform = {}
  /\ None \notin Access \cup Call /\ MaxCalls \in Nat

VARIABLES
  role,      \* "new" (no such row yet), "on", "off" or "gone"
  grants,    \* the enabled permissions of each role
  row,       \* users: "new" (no such row yet), "there" or "gone"
  member,    \* the tenant's memberships: "no", "active" or "inactive"
  assigned,  \* user_role_assignments of the tenant
  cache,     \* each user's cached access, or None
  call,      \* the requests under way
  begun,     \* how many requests there were
  overtaken  \* history: users given roles when they were no longer members

database == <<role, grants, row, member, assigned>>
history == <<begun, overtaken>>
vars == <<database, cache, call, history>>

Req(c)    == call[c].q
At(c, l)  == call[c] # None /\ call[c].at = l
Goto(c, l) == call' = [call EXCEPT ![c].at = l]
End(c)    == call' = [call EXCEPT ![c] = None]

Init ==
  /\ role = [r \in Roles |-> IF r \in Global THEN "on" ELSE "new"]
  /\ grants = [r \in Roles |-> IF r \in Global THEN FirstGrants[r] ELSE {}]
  /\ assigned \in FirstRoles
  /\ row = [u \in Users |-> IF assigned[u] # {} \/ u \in Elsewhere THEN "there" ELSE "new"]
  /\ member = [u \in Users |-> IF assigned[u] = {} THEN "no" ELSE "active"]
  /\ cache = [u \in Users |-> None]
  /\ call = [c \in Calls |-> None] /\ begun = 0 /\ overtaken = {}

Live(r)  == role[r] \in {"on", "off"}
There(u) == row[u] = "there"

----------------------------------------------------------------------------
(* getUserAccess: the cached access, or the database's for an active member. *)
InForce(u) == {r \in assigned[u] : role[r] = "on"}
Stored(u) ==
  [roles |-> InForce(u),
   perms |-> IF Sys \in InForce(u) THEN Perms ELSE UNION {grants[r] : r \in InForce(u)}]
Answer(u) ==
  IF cache[u] # None THEN cache[u] ELSE IF member[u] = "active" THEN Stored(u) ELSE None
Remember(u) == cache' = [cache EXCEPT ![u] = Answer(u)]

Expire(u) ==
  /\ cache[u] # None /\ cache' = [cache EXCEPT ![u] = None]
  /\ UNCHANGED <<database, call, history>>

Begin(c) ==
  /\ call[c] = None /\ begun < MaxCalls /\ begun' = begun + 1
  /\ \E q \in Requests :
       call' = [call EXCEPT ![c] = [at |-> "guard", q |-> q, need |-> {}, found |-> FALSE]]
  /\ UNCHANGED <<database, cache, overtaken>>

(* PermissionsGuard, then the service's first step. *)
Guard(c) ==
  LET q == Req(c)  a == Answer(q.by) IN
  /\ At(c, "guard") /\ Remember(q.by)
  /\ IF a # None /\ (Sys \in a.roles \/ Needs[q.op] \in a.perms)
     THEN Goto(c, CASE q.op = "createRole" -> "checkPerms"
                    [] q.op \in RoleOps \ {"createRole"} -> "findRole"
                    [] q.op = "createUser" /\ q.roles # {} -> "readRoles"
                    [] OTHER -> "findUser")
     ELSE End(c)
  /\ UNCHANGED <<database, history>>

----------------------------------------------------------------------------
(* Bug: update and remove do not call assertDefinitionMutable. *)
FindRole_BuiltIn(c) ==
  LET q == Req(c) IN
  /\ At(c, "findRole")
  /\ CASE q.op \in {"updateRole", "removeRole"} /\ Live(q.role) -> Goto(c, "write")
       [] q.op \in {"setPermissions", "setPermission"} /\ q.role # Sys /\ Live(q.role) -> Goto(c, "checkPerms")
       [] OTHER -> End(c)
  /\ UNCHANGED <<database, cache, history>>

(* findScoped, and assertDefinitionMutable or the first half of
   assertPermissionTargetConfigurable. *)
FindRole(c) ==
  LET q == Req(c) IN
  /\ At(c, "findRole")
  /\ CASE q.op \in {"updateRole", "removeRole"} /\ q.role \in Custom /\ Live(q.role) -> Goto(c, "write")
       [] q.op \in {"setPermissions", "setPermission"} /\ q.role # Sys /\ Live(q.role) -> Goto(c, "checkPerms")
       [] OTHER -> End(c)
  /\ UNCHANGED <<database, cache, history>>

(* What the request switches on, as assertCanEnablePermissions sees it. *)
Enables(q) ==
  IF q.op \in {"createRole", "setPermissions"} \/ (q.op = "setPermission" /\ q.on)
  THEN q.perms ELSE {}

(* Bugs: assertCanEnablePermissions does not look for platform permissions, or
   compares with the permissions of the role instead of the actor's. *)
MayEnable_Platform(perms, a) == Sys \in a.roles \/ perms \subseteq a.perms
MayEnable_Unowned(perms, a)  == perms \cap Platform = {}

MayEnable(perms, a) ==
  /\ perms \cap Platform = {}
  /\ Sys \in a.roles \/ perms \subseteq a.perms

MayConfigure(r, a) == r # Sys /\ (r \in Global => Sys \in a.roles)

CheckPerms(c) ==
  LET q == Req(c)  a == Answer(q.by) IN
  /\ At(c, "checkPerms") /\ Remember(q.by)
  /\ IF /\ a # None /\ MayEnable(Enables(q), a)
        /\ q.op = "createRole" \/ MayConfigure(q.role, a)
     THEN Goto(c, "write") ELSE End(c)
  /\ UNCHANGED <<database, history>>

(* A role that is gone by now makes each of these fail. *)
WriteRole(c) ==
  LET q == Req(c)  r == q.role IN
  /\ At(c, "write") /\ q.op \in RoleOps
  /\ \/ /\ q.op = "createRole" /\ role[r] = "new" /\ r \in Custom
        /\ role' = [role EXCEPT ![r] = "on"]
        /\ grants' = [grants EXCEPT ![r] = q.perms]
        /\ Goto(c, "clear") /\ UNCHANGED assigned
     \/ /\ q.op = "updateRole" /\ Live(r)
        /\ role' = [role EXCEPT ![r] = IF q.on THEN "on" ELSE "off"]
        /\ Goto(c, "clear") /\ UNCHANGED <<grants, assigned>>
     \/ /\ q.op = "removeRole" /\ Live(r)
        /\ role' = [role EXCEPT ![r] = "gone"]
        /\ grants' = [grants EXCEPT ![r] = {}]
        /\ assigned' = [u \in Users |-> assigned[u] \ {r}]
        /\ Goto(c, "clear")
     \/ /\ q.op \in {"setPermissions", "setPermission"} /\ Live(r)
        /\ grants' = [grants EXCEPT ![r] =
             IF q.op = "setPermissions" THEN q.perms
             ELSE IF q.on THEN @ \cup q.perms ELSE @ \ q.perms]
        /\ Goto(c, "clear") /\ UNCHANGED <<role, assigned>>
     \/ /\ IF q.op = "createRole" THEN role[r] # "new" \/ r \notin Custom ELSE ~Live(r)
        /\ End(c) /\ UNCHANGED <<role, grants, assigned>>
  /\ UNCHANGED <<row, member, cache, history>>

(* invalidateTenant or invalidateAll, which may fail.  The settings of
   permissions answer with the matrix. *)
ClearRoles(c) ==
  /\ At(c, "clear") /\ Req(c).op \in RoleOps
  /\ \/ cache' = cache /\ End(c)
     \/ /\ cache' = [u \in Users |-> None]
        /\ IF Req(c).op \in {"setPermissions", "setPermission"} THEN Goto(c, "matrix") ELSE End(c)
  /\ UNCHANGED <<database, history>>

(* getPermissionMatrix asks for the actor's access once it has found the role. *)
Matrix(c) ==
  /\ At(c, "matrix")
  /\ IF Live(Req(c).role) THEN Remember(Req(c).by) ELSE cache' = cache
  /\ End(c)
  /\ UNCHANGED <<database, history>>

----------------------------------------------------------------------------
(* findByIdForTenant; in create, the lookups of the user and the membership. *)
FindUser(c) ==
  LET q == Req(c) IN
  /\ At(c, "findUser")
  /\ CASE q.op = "createUser" /\ row[q.user] # "gone" /\ member[q.user] = "no" ->
            call' = [call EXCEPT ![c].at = "write", ![c].found = There(q.user)]
       [] q.op = "removeUser" /\ member[q.user] = "active" -> Goto(c, "write")
       [] q.op = "setRoles" /\ member[q.user] = "active" -> Goto(c, "readRoles")
       [] OTHER -> End(c)
  /\ UNCHANGED <<database, cache, history>>

(* assertRolesAssignable: the roles must be enabled and, system_admin aside,
   without platform permissions. *)
ReadRoles(c) ==
  LET q == Req(c)  perms == UNION {grants[r] : r \in q.roles} IN
  /\ At(c, "readRoles")
  /\ IF /\ \A r \in q.roles : role[r] = "on"
        /\ \A r \in q.roles \ {Sys} : grants[r] \cap Platform = {}
     THEN call' = [call EXCEPT ![c].at = "checkRoles", ![c].need = perms] ELSE End(c)
  /\ UNCHANGED <<database, cache, history>>

MayAssign(roles, perms, a) == Sys \in a.roles \/ (Sys \notin roles /\ perms \subseteq a.perms)

CheckRoles(c) ==
  LET q == Req(c)  a == Answer(q.by) IN
  /\ At(c, "checkRoles") /\ Remember(q.by)
  /\ IF a # None /\ MayAssign(q.roles, call[c].need, a)
     THEN Goto(c, IF q.op = "createUser" THEN "findUser" ELSE "write")
     ELSE End(c)
  /\ UNCHANGED <<database, history>>

(* The transaction of create: unique keys and foreign keys abort it when the
   user, the membership, an assignment or a role is not as it was found. *)
CreateUser(c) ==
  LET q == Req(c)  u == q.user  given == IF q.roles = {} THEN {Member} ELSE q.roles IN
  /\ At(c, "write") /\ q.op = "createUser"
  /\ IF /\ row[u] = (IF call[c].found THEN "there" ELSE "new") /\ member[u] = "no"
        /\ \A r \in given : Live(r)
        /\ assigned[u] \cap given = {}
     THEN /\ row' = [row EXCEPT ![u] = "there"]
          /\ member' = [member EXCEPT ![u] = "active"]
          /\ assigned' = [assigned EXCEPT ![u] = @ \cup given]
     ELSE UNCHANGED <<row, member, assigned>>
  /\ End(c)
  /\ UNCHANGED <<role, grants, cache, history>>

(* deleteMany and createMany: nothing ties an assignment to a membership. *)
SetRoles(c) ==
  LET q == Req(c)  u == q.user IN
  /\ At(c, "write") /\ q.op = "setRoles"
  /\ IF q.roles = {} \/ (There(u) /\ \A r \in q.roles : Live(r))
     THEN /\ assigned' = [assigned EXCEPT ![u] = q.roles]
          /\ overtaken' = IF member[u] = "no" THEN overtaken \cup {u} ELSE overtaken
          /\ Goto(c, "clear")
     ELSE End(c) /\ UNCHANGED <<assigned, overtaken>>
  /\ UNCHANGED <<role, grants, row, member, cache, begun>>

(* Bug: a hard removal deletes the membership only. *)
RemoveUser_KeepsRoles(c) ==
  LET q == Req(c)  u == q.user IN
  /\ At(c, "write") /\ q.op = "removeUser"
  /\ IF member[u] = "no" THEN End(c) /\ UNCHANGED <<member, assigned>>
     ELSE /\ member' = [member EXCEPT ![u] = IF q.on THEN "no" ELSE "inactive"]
          /\ Goto(c, IF q.on THEN "count" ELSE "clear") /\ UNCHANGED assigned
  /\ UNCHANGED <<role, grants, row, cache, history>>

(* remove, hard with q.on. *)
RemoveUser(c) ==
  LET q == Req(c)  u == q.user IN
  /\ At(c, "write") /\ q.op = "removeUser"
  /\ IF member[u] = "no" THEN End(c) /\ UNCHANGED <<member, assigned, overtaken>>
     ELSE /\ member' = [member EXCEPT ![u] = IF q.on THEN "no" ELSE "inactive"]
          /\ assigned' = IF q.on THEN [assigned EXCEPT ![u] = {}] ELSE assigned
          /\ overtaken' = IF q.on THEN overtaken \ {u} ELSE overtaken
          /\ Goto(c, IF q.on THEN "count" ELSE "clear")
  /\ UNCHANGED <<role, grants, row, cache, begun>>

(* The user's memberships are counted, and a user without one is deleted, with
   whatever he has got since. *)
Count(c) ==
  LET u == Req(c).user IN
  /\ At(c, "count")
  /\ Goto(c, IF u \notin Elsewhere /\ member[u] = "no" THEN "purge" ELSE "clear")
  /\ UNCHANGED <<database, cache, history>>

Purge(c) ==
  LET u == Req(c).user IN
  /\ At(c, "purge")
  /\ IF There(u)
     THEN /\ row' = [row EXCEPT ![u] = "gone"]
          /\ member' = [member EXCEPT ![u] = "no"]
          /\ assigned' = [assigned EXCEPT ![u] = {}]
          /\ Goto(c, "clear")
     ELSE End(c) /\ UNCHANGED <<row, member, assigned>>
  /\ UNCHANGED <<role, grants, cache, history>>

ClearUser(c) ==
  /\ At(c, "clear") /\ Req(c).op \in UserOps
  /\ cache' \in {[cache EXCEPT ![Req(c).user] = None], cache}
  /\ End(c)
  /\ UNCHANGED <<database, history>>

----------------------------------------------------------------------------
Step(c) ==
  \/ Begin(c) \/ Guard(c)
  \/ FindRole(c) \/ CheckPerms(c) \/ WriteRole(c) \/ ClearRoles(c) \/ Matrix(c)
  \/ FindUser(c) \/ ReadRoles(c) \/ CheckRoles(c)
  \/ CreateUser(c) \/ SetRoles(c) \/ RemoveUser(c) \/ Count(c) \/ Purge(c) \/ ClearUser(c)

Next == (\E c \in Calls : Step(c)) \/ (\E u \in Users : Expire(u))

Spec == Init /\ [][Next]_vars

----------------------------------------------------------------------------
(* TypeOK: variables keep their types, and a member is a user. *)
TypeOK ==
  /\ role \in [Roles -> {"new", "on", "off", "gone"}]
  /\ grants \in [Roles -> SUBSET Perms]
  /\ row \in [Users -> {"new", "there", "gone"}] /\ member \in [Users -> {"no", "active", "inactive"}]
  /\ \A u \in Users : member[u] # "no" => There(u)
  /\ assigned \in [Users -> SUBSET Roles]
  /\ cache \in [Users -> Access \cup {None}]
  /\ call \in [Calls -> Call \cup {None}] /\ begun \in 0..MaxCalls /\ overtaken \subseteq Users

(* PlatformConfined: no sequence of role creations, toggles and bulk settings
   puts a platform permission into a role other than system_admin.
   (roles.service 130-179, 253-266; README 227) *)
PlatformConfined == \A r \in Roles \ {Sys} : grants[r] \cap Platform = {}

(* BuiltInsKept: no sequence of requests, on whatever cached rights, disables or
   deletes a built-in role or changes what system_admin may do.
   (roles.service 118-119, 185-186, 254-268, 301-310) *)
BuiltInsKept ==
  /\ \A r \in Global : role[r] = "on"
  /\ grants[Sys] = FirstGrants[Sys]

(* What the tenant can still hand out: system_admin, while a user, a cached
   entry or a call that has passed its check holds it; otherwise the
   permissions of its roles, of cached entries and of such calls. *)
Cached  == {cache[u] : u \in Users} \ {None}
Cleared(c) ==
  \/ At(c, "write") /\ Req(c).op \in RoleOps \cup {"createUser", "setRoles"}
  \/ At(c, "findUser") /\ Req(c).op = "createUser"
SysHeld ==
  \/ \E u \in Users : Sys \in assigned[u]
  \/ \E a \in Cached : Sys \in a.roles
  \/ \E c \in Calls : Cleared(c) /\ Sys \in Req(c).roles /\ Req(c).op \in UserOps
Within ==
  (UNION {grants[r] : r \in Roles \ {Sys}})
    \cup (UNION {a.perms : a \in Cached})
    \cup (UNION {Enables(Req(c)) : c \in {d \in Calls : Cleared(d) /\ Req(d).op \in RoleOps}})

(* NothingFromNowhere: in a tenant that nobody administers as system_admin, a
   permission that no role, no cached entry and no call under way holds never
   comes back, and neither does system_admin, however the calls overlap, roles
   change between check and assignment, and caches stay stale.
   (roles.service 184-246; README 226-228) *)
NothingFromNowhere == [][~SysHeld => ~SysHeld' /\ Within' \subseteq Within]_vars

(* RolesNeedMember: a user who is not a member has no roles that would come
   back with him, unless a setRoles call had looked him up before he was
   removed. (users.service 145-158, 160-173) *)
RolesNeedMember == \A u \in Users : member[u] = "no" => assigned[u] = {} \/ u \in overtaken
============================================================================

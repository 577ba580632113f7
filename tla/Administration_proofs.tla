------------------------- MODULE Administration_proofs -------------------------
(* Proofs about Administration, for any users, calls, roles and permissions.

   PlatformConfined rests on Checked: a call about to write a role was checked to
   switch on no platform permission.  BuiltInsKept rests on it too: a call about to
   disable or delete a role was checked to name a custom one, one about to set
   permissions to spare system_admin.  NothingFromNowhere follows step by step
   from what a call holds: an answer of getUserAccess is an entry or comes from
   roles, and a call is cleared for what the answer has. *)
EXTENDS Administration, TLAPS

Checked(c) ==
  /\ call[c].q \in Requests
  /\ At(c, "findRole") => Req(c).op \in RoleOps
  /\ At(c, "checkPerms") => Req(c).op \in {"createRole", "setPermissions", "setPermission"}
  /\ call[c].at \in {"findUser", "readRoles", "checkRoles"} => Req(c).op \in UserOps
  /\ At(c, "write") /\ Req(c).op \in RoleOps => Enables(Req(c)) \cap Platform = {}
  /\ At(c, "write") /\ Req(c).op \in {"updateRole", "removeRole"} => Req(c).role \in Custom
  /\ At(c, "write") /\ Req(c).op \in {"setPermissions", "setPermission"} => Req(c).role # Sys

IInv ==
  /\ TypeOK /\ \A c \in Calls : call[c] # None => Checked(c)
  /\ PlatformConfined /\ RolesNeedMember /\ BuiltInsKept

LEMMA Facts ==
  /\ Sys \in Global /\ Member \in Global /\ Sys # Member
  /\ Sys \in Roles /\ Member \in Roles /\ Global \subseteq Roles /\ Custom \subseteq Roles
  /\ Roles = Global \cup Custom /\ Global \cap Custom = {}
  /\ Platform \subseteq Perms /\ Requests \subseteq Request /\ MaxCalls \in Nat
  /\ FirstRoles \subseteq [Users -> SUBSET Global] /\ FirstGrants \in [Global -> SUBSET Perms]
  /\ \A r \in Global \ {Sys} : FirstGrants[r] \cap Platform = {}
  /\ Elsewhere \subseteq Users
  /\ None \notin Access /\ None \notin Call
BY AdministrationAssumption DEF Roles

LEMMA InitInv == Init => IInv
<1> SUFFICES ASSUME Init PROVE IInv
  OBVIOUS
<1>1. PICK f \in FirstRoles : assigned = f
  BY DEF Init
<1>2. assigned \in [Users -> SUBSET Roles]
  BY <1>1, Facts
<1>3. grants \in [Roles -> SUBSET Perms] /\ PlatformConfined /\ grants[Sys] = FirstGrants[Sys]
  BY Facts DEF Init, PlatformConfined, BuiltInsKept
<1>4. role \in [Roles -> {"new", "on", "off", "gone"}] /\ \A r \in Global : role[r] = "on"
  BY Facts DEF Init
<1>5. /\ row \in [Users -> {"new", "there", "gone"}] /\ member \in [Users -> {"no", "active", "inactive"}]
      /\ \A u \in Users : member[u] # "no" => There(u)
      /\ \A u \in Users : member[u] = "no" => assigned[u] = {}
  BY DEF Init, There
<1>6. cache \in [Users -> Access \cup {None}] /\ call \in [Calls -> Call \cup {None}]
      /\ begun \in 0..MaxCalls /\ overtaken \subseteq Users /\ \A c \in Calls : call[c] = None
  BY Facts DEF Init
<1>. QED
  BY <1>2, <1>3, <1>4, <1>5, <1>6 DEF IInv, TypeOK, RolesNeedMember, BuiltInsKept

----------------------------------------------------------------------------
(* How a call goes on, ends, and asks for a user's access. *)
LEMMA Going ==
  ASSUME TypeOK, NEW c \in Calls, call[c] # None, NEW l \in Steps, Goto(c, l)
  PROVE  /\ call' \in [Calls -> Call \cup {None}]
         /\ call'[c] # None /\ call'[c].q = call[c].q /\ call'[c].at = l
         /\ \A d \in Calls \ {c} : call'[d] = call[d]
<1>1. call[c] \in Call
  BY DEF TypeOK
<1>2. [call[c] EXCEPT !.at = l] \in Call
  BY <1>1 DEF Call
<1>. QED
  BY <1>1, <1>2, Facts DEF TypeOK, Goto, Call

LEMMA Ending ==
  ASSUME TypeOK, NEW c \in Calls, End(c)
  PROVE  /\ call' \in [Calls -> Call \cup {None}] /\ call'[c] = None
         /\ \A d \in Calls \ {c} : call'[d] = call[d]
BY DEF TypeOK, End

LEMMA Asked ==
  ASSUME TypeOK, NEW u \in Users
  PROVE  Answer(u) \in Access \cup {None}
<1>1. InForce(u) \in SUBSET Roles
  BY DEF TypeOK, InForce
<1>2. UNION {grants[r] : r \in InForce(u)} \in SUBSET Perms
  BY <1>1 DEF TypeOK
<1>3. Stored(u) \in Access
  BY <1>1, <1>2 DEF Stored, Access
<1>. QED
  BY <1>3 DEF TypeOK, Answer

LEMMA Remembered ==
  ASSUME TypeOK, NEW u \in Users, Remember(u)
  PROVE  cache' \in [Users -> Access \cup {None}]
BY Asked DEF TypeOK, Remember

LEMMA Named ==
  ASSUME IInv, NEW c \in Calls, call[c] # None
  PROVE  /\ call[c] \in Call /\ call[c].q \in Request /\ Req(c) = call[c].q /\ Checked(c)
         /\ Req(c).by \in Users /\ Req(c).user \in Users /\ Req(c).role \in Roles
         /\ Req(c).roles \in SUBSET Roles /\ Req(c).perms \in SUBSET Perms
BY Facts DEF IInv, TypeOK, Checked, Req, Request

(* A step of one call that leaves the database alone. *)
LEMMA QuietStep ==
  ASSUME IInv, NEW c \in Calls, UNCHANGED <<database, overtaken>>,
         cache' \in [Users -> Access \cup {None}], begun' \in 0..MaxCalls,
         call' \in [Calls -> Call \cup {None}],
         \A d \in Calls \ {c} : call'[d] = call[d],
         call'[c] # None => Checked(c)'
  PROVE  IInv'
<1>1. TypeOK' /\ PlatformConfined' /\ BuiltInsKept' /\ RolesNeedMember'
  BY DEF IInv, TypeOK, PlatformConfined, BuiltInsKept, RolesNeedMember, database, There
<1>2. \A d \in Calls : call'[d] # None => Checked(d)'
  BY DEF IInv, Checked, At, Req
<1>. QED
  BY <1>1, <1>2 DEF IInv

(* A step of one call that writes to the database and goes on to clear the cache
   or to count memberships, or ends. *)
LEMMA OthersChecked ==
  ASSUME IInv, NEW c \in Calls, \A d \in Calls \ {c} : call'[d] = call[d],
         call'[c] # None => call'[c].q \in Requests /\ call'[c].at \in {"clear", "count"}
  PROVE  \A d \in Calls : call'[d] # None => Checked(d)'
BY DEF IInv, Checked, At, Req

LEMMA GuardInv == ASSUME IInv, NEW c \in Calls, Guard(c) PROVE IInv'
<1>1. call[c] # None /\ UNCHANGED <<database, history>> /\ Remember(Req(c).by)
  BY DEF Guard, At
<1>2. cache' \in [Users -> Access \cup {None}]
  BY <1>1, Named, Remembered DEF IInv
<1>3. CASE End(c)
  <2>1. /\ call' \in [Calls -> Call \cup {None}] /\ call'[c] = None
        /\ \A d \in Calls \ {c} : call'[d] = call[d]
    BY <1>3, Ending DEF IInv
  <2>. QED
    BY <1>1, <1>2, <2>1, QuietStep DEF history, IInv, TypeOK
<1>4. ASSUME NEW l \in Steps, Goto(c, l),
             \/ l = "checkPerms" /\ Req(c).op = "createRole"
             \/ l = "findRole" /\ Req(c).op \in RoleOps
             \/ l \in {"readRoles", "findUser"} /\ Req(c).op \in UserOps
      PROVE  IInv'
  <2>1. /\ call' \in [Calls -> Call \cup {None}] /\ call'[c].q = call[c].q /\ call'[c].at = l
        /\ \A d \in Calls \ {c} : call'[d] = call[d]
    BY <1>1, <1>4, Going DEF IInv
  <2>2. Checked(c)'
    BY <1>1, <1>4, <2>1, Named DEF Checked, At, Req, RoleOps, UserOps
  <2>. QED
    BY <1>1, <1>2, <2>1, <2>2, QuietStep DEF history, IInv, TypeOK
<1>5. CASE ~End(c)
  <2> DEFINE q == Req(c)
  <2>1. Goto(c, CASE q.op = "createRole" -> "checkPerms"
                  [] q.op \in RoleOps \ {"createRole"} -> "findRole"
                  [] q.op = "createUser" /\ q.roles # {} -> "readRoles"
                  [] OTHER -> "findUser")
    BY <1>5 DEF Guard
  <2>2. q.op \in RoleOps \cup UserOps
    BY <1>1, Named DEF Request
  <2>3. CASE q.op = "createRole"
    <3>1. Goto(c, "checkPerms")
      BY <2>1, <2>3
    <3>2. "checkPerms" \in Steps
      BY DEF Steps
    <3>. QED
      BY <1>4, <2>3, <3>1, <3>2
  <2>4. CASE q.op \in RoleOps \ {"createRole"}
    <3>1. Goto(c, "findRole")
      <4>1. q.op # "createRole" /\ ~(q.op = "createUser" /\ q.roles # {})
        BY <2>4 DEF RoleOps
      <4>. QED
        BY <2>1, <2>4, <4>1
    <3>. QED
      BY <1>4, <2>4, <3>1 DEF Steps
  <2>5. CASE q.op \in UserOps
    <3>1. q.op # "createRole" /\ q.op \notin RoleOps \ {"createRole"}
      BY <2>5 DEF UserOps, RoleOps
    <3>2. Goto(c, "readRoles") \/ Goto(c, "findUser")
      BY <2>1, <3>1
    <3>. QED
      BY <1>4, <2>5, <3>2 DEF Steps
  <2>. QED
    BY <2>2, <2>3, <2>4, <2>5
<1>. QED
  BY <1>3, <1>5

LEMMA FindRoleInv == ASSUME IInv, NEW c \in Calls, FindRole(c) PROVE IInv'
<1>1. call[c] # None /\ UNCHANGED <<database, cache, history>>
  BY DEF FindRole, At
<1>2. \/ End(c)
      \/ Goto(c, "write") /\ Req(c).op \in {"updateRole", "removeRole"} /\ Req(c).role \in Custom
      \/ Goto(c, "checkPerms") /\ Req(c).op \in {"setPermissions", "setPermission"}
  BY DEF FindRole
<1>3. /\ call' \in [Calls -> Call \cup {None}] /\ \A d \in Calls \ {c} : call'[d] = call[d]
      /\ call'[c] # None => /\ call'[c].q = call[c].q
                            /\ \/ call'[c].at = "write" /\ Req(c).op \in {"updateRole", "removeRole"} /\ Req(c).role \in Custom
                               \/ call'[c].at = "checkPerms" /\ Req(c).op \in {"setPermissions", "setPermission"}
  BY <1>1, <1>2, Going, Ending DEF IInv, Steps
<1>4. call'[c] # None => Checked(c)'
  BY <1>1, <1>3, Named DEF Checked, At, Req, Enables
<1>. QED
  BY <1>1, <1>3, <1>4, QuietStep DEF history, IInv, TypeOK

LEMMA CheckPermsInv == ASSUME IInv, NEW c \in Calls, CheckPerms(c) PROVE IInv'
<1>1. call[c] # None /\ UNCHANGED <<database, history>> /\ Remember(Req(c).by) /\ At(c, "checkPerms")
  BY DEF CheckPerms, At
<1>2. cache' \in [Users -> Access \cup {None}]
  BY <1>1, Named, Remembered DEF IInv
<1>3. End(c) \/ (Goto(c, "write") /\ Enables(Req(c)) \cap Platform = {}
                  /\ (Req(c).op # "createRole" => Req(c).role # Sys))
  BY DEF CheckPerms, MayEnable, MayConfigure
<1>4. /\ call' \in [Calls -> Call \cup {None}] /\ \A d \in Calls \ {c} : call'[d] = call[d]
      /\ call'[c] # None => /\ call'[c].q = call[c].q /\ call'[c].at = "write"
                            /\ Enables(Req(c)) \cap Platform = {}
                            /\ (Req(c).op # "createRole" => Req(c).role # Sys)
  BY <1>1, <1>3, Going, Ending DEF IInv, Steps
<1>5. call'[c] # None => Checked(c)'
  <2>1. Req(c).op \notin {"updateRole", "removeRole"} /\ call[c].q \in Requests
    BY <1>1, Named DEF Checked
  <2>2. Req(c) = call[c].q /\ Req(c)' = call'[c].q
    BY DEF Req
  <2>. QED
    BY <1>4, <2>1, <2>2 DEF Checked, At
<1>. QED
  BY <1>1, <1>2, <1>4, <1>5, QuietStep DEF history, IInv, TypeOK

LEMMA FindUserInv == ASSUME IInv, NEW c \in Calls, FindUser(c) PROVE IInv'
<1>1. call[c] # None /\ UNCHANGED <<database, cache, history>> /\ At(c, "findUser")
  BY DEF FindUser, At
<1>2. Req(c).op \in UserOps /\ call[c].q \in Requests /\ call[c] \in Call
  BY <1>1, Named DEF Checked, At
<1>3. \/ End(c) \/ Goto(c, "write") \/ Goto(c, "readRoles")
      \/ call' = [call EXCEPT ![c].at = "write", ![c].found = There(Req(c).user)]
  BY DEF FindUser
<1>4. /\ call' \in [Calls -> Call \cup {None}] /\ \A d \in Calls \ {c} : call'[d] = call[d]
      /\ call'[c] # None => call'[c].q = call[c].q /\ call'[c].at \in {"write", "readRoles"}
  <2>1. CASE call' = [call EXCEPT ![c].at = "write", ![c].found = There(Req(c).user)]
    <3>1. There(Req(c).user) \in BOOLEAN
      BY DEF There
    <3>2. [call[c] EXCEPT !.at = "write", !.found = There(Req(c).user)] \in Call
      BY <1>2, <3>1 DEF Call, Steps
    <3>. QED
      BY <1>2, <2>1, <3>1, <3>2 DEF IInv, TypeOK, Call
  <2>. QED
    BY <1>1, <1>3, <2>1, Going, Ending DEF IInv, Steps
<1>5. call'[c] # None => Checked(c)'
  BY <1>2, <1>4 DEF Checked, At, Req, RoleOps, UserOps
<1>. QED
  BY <1>1, <1>4, <1>5, QuietStep DEF history, IInv, TypeOK

LEMMA ReadRolesInv == ASSUME IInv, NEW c \in Calls, ReadRoles(c) PROVE IInv'
<1>1. call[c] # None /\ UNCHANGED <<database, cache, history>> /\ At(c, "readRoles")
  BY DEF ReadRoles, At
<1>2. Req(c).op \in UserOps /\ call[c].q \in Requests /\ call[c] \in Call /\ Req(c).roles \in SUBSET Roles
  BY <1>1, Named DEF Checked, At
<1> DEFINE need == UNION {grants[r] : r \in Req(c).roles}
<1>3. need \in SUBSET Perms
  BY <1>2 DEF IInv, TypeOK
<1>4. /\ call' \in [Calls -> Call \cup {None}] /\ \A d \in Calls \ {c} : call'[d] = call[d]
      /\ call'[c] # None => call'[c].q = call[c].q /\ call'[c].at = "checkRoles"
  <2>1. CASE call' = [call EXCEPT ![c].at = "checkRoles", ![c].need = need]
    <3>1. [call[c] EXCEPT !.at = "checkRoles", !.need = need] \in Call
      BY <1>2, <1>3 DEF Call, Steps
    <3>. QED
      BY <1>2, <2>1, <3>1 DEF IInv, TypeOK, Call
  <2>. QED
    BY <2>1, Ending DEF IInv, ReadRoles
<1>5. call'[c] # None => Checked(c)'
  BY <1>2, <1>4 DEF Checked, At, Req
<1>. QED
  BY <1>1, <1>4, <1>5, QuietStep DEF history, IInv, TypeOK

LEMMA CheckRolesInv == ASSUME IInv, NEW c \in Calls, CheckRoles(c) PROVE IInv'
<1>1. call[c] # None /\ UNCHANGED <<database, history>> /\ Remember(Req(c).by) /\ At(c, "checkRoles")
  BY DEF CheckRoles, At
<1>2. cache' \in [Users -> Access \cup {None}]
  BY <1>1, Named, Remembered DEF IInv
<1>3. Req(c).op \in UserOps /\ call[c].q \in Requests
  BY <1>1, Named DEF Checked, At
<1>4. End(c) \/ Goto(c, "findUser") \/ Goto(c, "write")
  BY DEF CheckRoles
<1>5. /\ call' \in [Calls -> Call \cup {None}] /\ \A d \in Calls \ {c} : call'[d] = call[d]
      /\ call'[c] # None => call'[c].q = call[c].q /\ call'[c].at \in {"findUser", "write"}
  BY <1>1, <1>4, Going, Ending DEF IInv, Steps
<1>6. call'[c] # None => Checked(c)'
  BY <1>3, <1>5 DEF Checked, At, Req, RoleOps, UserOps
<1>. QED
  BY <1>1, <1>2, <1>5, <1>6, QuietStep DEF history, IInv, TypeOK

LEMMA ClearInv ==
  ASSUME IInv, NEW c \in Calls, ClearRoles(c) \/ Matrix(c) \/ ClearUser(c) PROVE IInv'
<1>1. (End(c) \/ Goto(c, "matrix")) /\ UNCHANGED <<database, history>> /\ call[c] # None
  BY DEF ClearRoles, Matrix, ClearUser, At
<1>2. cache' \in [Users -> Access \cup {None}]
  <2>1. CASE Matrix(c)
    BY <2>1, <1>1, Named, Remembered DEF Matrix, IInv, TypeOK
  <2>2. CASE ClearRoles(c) \/ ClearUser(c)
    BY <2>2 DEF ClearRoles, ClearUser, IInv, TypeOK
  <2>. QED
    BY <2>1, <2>2
<1>3. /\ call' \in [Calls -> Call \cup {None}] /\ \A d \in Calls \ {c} : call'[d] = call[d]
      /\ call'[c] # None => call'[c].q = call[c].q /\ call'[c].at = "matrix"
  BY <1>1, Going, Ending DEF IInv, Steps
<1>4. call'[c] # None => Checked(c)'
  BY <1>1, <1>3, Named DEF Checked, At
<1>. QED
  BY <1>1, <1>2, <1>3, <1>4, QuietStep DEF history, IInv, TypeOK

LEMMA BeginInv == ASSUME IInv, NEW c \in Calls, Begin(c) PROVE IInv'
<1>1. UNCHANGED <<database, cache, overtaken>> /\ begun' \in 0..MaxCalls
  BY Facts DEF Begin, IInv, TypeOK
<1>2. PICK q \in Requests :
        call' = [call EXCEPT ![c] = [at |-> "guard", q |-> q, need |-> {}, found |-> FALSE]]
  BY DEF Begin
<1>3. [at |-> "guard", q |-> q, need |-> {}, found |-> FALSE] \in Call
  BY Facts DEF Call, Steps
<1>4. /\ call' \in [Calls -> Call \cup {None}] /\ \A d \in Calls \ {c} : call'[d] = call[d]
      /\ call'[c].q = q /\ call'[c].at = "guard"
  BY <1>2, <1>3 DEF IInv, TypeOK
<1>5. Checked(c)'
  BY <1>4 DEF Checked, At
<1>. QED
  BY <1>1, <1>4, <1>5, QuietStep DEF IInv, TypeOK

LEMMA CountInv == ASSUME IInv, NEW c \in Calls, Count(c) PROVE IInv'
<1>1. call[c] # None /\ UNCHANGED <<database, cache, history>> /\ (Goto(c, "purge") \/ Goto(c, "clear"))
  BY DEF Count, At
<1>2. /\ call' \in [Calls -> Call \cup {None}] /\ \A d \in Calls \ {c} : call'[d] = call[d]
      /\ call'[c].q = call[c].q /\ call'[c].at \in {"purge", "clear"}
  BY <1>1, Going DEF IInv, Steps
<1>3. Checked(c)'
  BY <1>1, <1>2, Named DEF Checked, At
<1>. QED
  BY <1>1, <1>2, <1>3, QuietStep DEF history, IInv, TypeOK

----------------------------------------------------------------------------
(* The writes. *)
LEMMA Goes ==
  ASSUME IInv, NEW c \in Calls, call[c] # None,
         End(c) \/ Goto(c, "clear") \/ Goto(c, "count")
  PROVE  /\ call' \in [Calls -> Call \cup {None}] /\ \A d \in Calls \ {c} : call'[d] = call[d]
         /\ \A d \in Calls : call'[d] # None => Checked(d)'
<1>1. call[c].q \in Requests
  BY Named DEF Checked
<1>2. /\ call' \in [Calls -> Call \cup {None}] /\ \A d \in Calls \ {c} : call'[d] = call[d]
      /\ call'[c] # None => call'[c].q = call[c].q /\ call'[c].at \in {"clear", "count"}
  BY Going, Ending DEF IInv, Steps
<1>. QED
  BY <1>1, <1>2, OthersChecked

LEMMA WriteRoleInv == ASSUME IInv, NEW c \in Calls, WriteRole(c) PROVE IInv'
<1> DEFINE q == Req(c)  r == Req(c).role
<1>1. /\ call[c] # None /\ At(c, "write") /\ q.op \in RoleOps /\ UNCHANGED <<row, member, cache, history>>
      /\ End(c) \/ Goto(c, "clear")
  BY DEF WriteRole, At
<1>2. /\ call' \in [Calls -> Call \cup {None}]
      /\ \A d \in Calls : call'[d] # None => Checked(d)'
  BY <1>1, Goes
<1>3. /\ r \in Roles /\ q.perms \in SUBSET Perms /\ Enables(q) \cap Platform = {}
      /\ q.op \in {"updateRole", "removeRole"} => r \in Custom
      /\ q.op \in {"setPermissions", "setPermission"} => r # Sys
  BY <1>1, Named DEF Checked
<1>4. /\ role' \in [Roles -> {"new", "on", "off", "gone"}] 
      /\ grants' \in [Roles -> SUBSET Perms] /\ PlatformConfined' /\ BuiltInsKept'
      /\ assigned' \in [Users -> SUBSET Roles] /\ \A u \in Users : assigned'[u] \subseteq assigned[u]
  <2>1. CASE q.op = "createRole" /\ role[r] = "new" /\ r \in Custom /\ role' = [role EXCEPT ![r] = "on"]
             /\ grants' = [grants EXCEPT ![r] = q.perms] /\ UNCHANGED assigned
    BY <1>3, <2>1, Facts DEF IInv, TypeOK, PlatformConfined, BuiltInsKept, Enables
  <2>2. CASE q.op = "updateRole" /\ role' = [role EXCEPT ![r] = IF q.on THEN "on" ELSE "off"]
             /\ UNCHANGED <<grants, assigned>>
    BY <1>3, <2>2, Facts DEF IInv, TypeOK, PlatformConfined, BuiltInsKept
  <2>3. CASE q.op = "removeRole" /\ role' = [role EXCEPT ![r] = "gone"]
             /\ grants' = [grants EXCEPT ![r] = {}] /\ assigned' = [u \in Users |-> assigned[u] \ {r}]
    BY <1>3, <2>3, Facts DEF IInv, TypeOK, PlatformConfined, BuiltInsKept
  <2>4. CASE q.op \in {"setPermissions", "setPermission"} /\ UNCHANGED <<role, assigned>>
             /\ grants' = [grants EXCEPT ![r] =
                  IF q.op = "setPermissions" THEN q.perms
                  ELSE IF q.on THEN @ \cup q.perms ELSE @ \ q.perms]
    <3>1. CASE q.op = "setPermissions"
      BY <1>3, <2>4, <3>1, Facts DEF IInv, TypeOK, PlatformConfined, BuiltInsKept, Enables
    <3>2. CASE q.op = "setPermission" /\ q.on
      BY <1>3, <2>4, <3>2, Facts DEF IInv, TypeOK, PlatformConfined, BuiltInsKept, Enables
    <3>3. CASE q.op = "setPermission" /\ ~q.on
      BY <1>3, <2>4, <3>3, Facts DEF IInv, TypeOK, PlatformConfined, BuiltInsKept
    <3>. QED
      BY <2>4, <3>1, <3>2, <3>3
  <2>5. CASE UNCHANGED <<role, grants, assigned>>
    BY <2>5 DEF IInv, TypeOK, PlatformConfined, BuiltInsKept
  <2>. QED
    BY <2>1, <2>2, <2>3, <2>4, <2>5 DEF WriteRole
<1>5. TypeOK'
  BY <1>1, <1>2, <1>4 DEF IInv, TypeOK, There, history
<1>6. RolesNeedMember'
  BY <1>1, <1>4 DEF IInv, RolesNeedMember, history
<1>. QED
  BY <1>2, <1>4, <1>5, <1>6 DEF IInv

LEMMA CreateUserInv == ASSUME IInv, NEW c \in Calls, CreateUser(c) PROVE IInv'
<1> DEFINE u == Req(c).user  given == IF Req(c).roles = {} THEN {Member} ELSE Req(c).roles
<1>1. call[c] # None /\ End(c) /\ UNCHANGED <<role, grants, cache, history>>
  BY DEF CreateUser, At
<1>2. /\ call' \in [Calls -> Call \cup {None}]
      /\ \A d \in Calls : call'[d] # None => Checked(d)'
  BY <1>1, Goes
<1>3. u \in Users /\ given \in SUBSET Roles
  BY <1>1, Named, Facts
<1>4. CASE UNCHANGED <<row, member, assigned>>
  BY <1>1, <1>2, <1>4 DEF IInv, TypeOK, PlatformConfined, BuiltInsKept, RolesNeedMember, There, history
<1>5. CASE /\ row' = [row EXCEPT ![u] = "there"] /\ member' = [member EXCEPT ![u] = "active"]
           /\ assigned' = [assigned EXCEPT ![u] = @ \cup given]
  <2>1. /\ assigned' \in [Users -> SUBSET Roles] /\ \A v \in Users \ {u} : assigned'[v] = assigned[v]
        /\ row' \in [Users -> {"new", "there", "gone"}] /\ row'[u] = "there"
        /\ member' \in [Users -> {"no", "active", "inactive"}] /\ member'[u] = "active"
        /\ \A v \in Users \ {u} : row'[v] = row[v] /\ member'[v] = member[v]
    BY <1>3, <1>5 DEF IInv, TypeOK
  <2>2. TypeOK'
    BY <1>1, <1>2, <2>1 DEF IInv, TypeOK, There, history
  <2>3. PlatformConfined' /\ BuiltInsKept' /\ RolesNeedMember'
    BY <1>1, <2>1 DEF IInv, PlatformConfined, BuiltInsKept, RolesNeedMember, history
  <2>. QED
    BY <1>2, <2>2, <2>3 DEF IInv
<1>. QED
  BY <1>4, <1>5 DEF CreateUser

LEMMA SetRolesInv == ASSUME IInv, NEW c \in Calls, SetRoles(c) PROVE IInv'
<1> DEFINE u == Req(c).user
<1>1. /\ call[c] # None /\ (End(c) \/ Goto(c, "clear"))
      /\ UNCHANGED <<role, grants, row, member, cache, begun>>
  BY DEF SetRoles, At
<1>2. /\ call' \in [Calls -> Call \cup {None}]
      /\ \A d \in Calls : call'[d] # None => Checked(d)'
  BY <1>1, Goes
<1>3. u \in Users /\ Req(c).roles \in SUBSET Roles
  BY <1>1, Named
<1>4. \/ UNCHANGED <<assigned, overtaken>>
      \/ /\ assigned' = [assigned EXCEPT ![u] = Req(c).roles]
         /\ overtaken' = IF member[u] = "no" THEN overtaken \cup {u} ELSE overtaken
  BY DEF SetRoles
<1>5. TypeOK'
  BY <1>1, <1>2, <1>3, <1>4 DEF IInv, TypeOK, There
<1>6. PlatformConfined' /\ BuiltInsKept' /\ RolesNeedMember'
  BY <1>1, <1>3, <1>4 DEF IInv, TypeOK, PlatformConfined, BuiltInsKept, RolesNeedMember
<1>. QED
  BY <1>2, <1>5, <1>6 DEF IInv

LEMMA RemoveUserInv == ASSUME IInv, NEW c \in Calls, RemoveUser(c) PROVE IInv'
<1> DEFINE u == Req(c).user  hard == Req(c).on
<1>1. /\ call[c] # None /\ (End(c) \/ Goto(c, "count") \/ Goto(c, "clear"))
      /\ UNCHANGED <<role, grants, row, cache, begun>>
  BY DEF RemoveUser, At
<1>2. /\ call' \in [Calls -> Call \cup {None}]
      /\ \A d \in Calls : call'[d] # None => Checked(d)'
  BY <1>1, Goes
<1>3. u \in Users
  BY <1>1, Named
<1>4. \/ UNCHANGED <<member, assigned, overtaken>>
      \/ /\ member[u] # "no" /\ ~hard /\ member' = [member EXCEPT ![u] = "inactive"]
         /\ UNCHANGED <<assigned, overtaken>>
      \/ /\ member[u] # "no" /\ hard /\ member' = [member EXCEPT ![u] = "no"]
         /\ assigned' = [assigned EXCEPT ![u] = {}] /\ overtaken' = overtaken \ {u}
  BY DEF RemoveUser
<1>5. TypeOK'
  BY <1>1, <1>2, <1>3, <1>4 DEF IInv, TypeOK, There
<1>6. PlatformConfined' /\ BuiltInsKept' /\ RolesNeedMember'
  BY <1>1, <1>3, <1>4 DEF IInv, TypeOK, PlatformConfined, BuiltInsKept, RolesNeedMember
<1>. QED
  BY <1>2, <1>5, <1>6 DEF IInv

LEMMA PurgeInv == ASSUME IInv, NEW c \in Calls, Purge(c) PROVE IInv'
<1> DEFINE u == Req(c).user
<1>1. /\ call[c] # None /\ (End(c) \/ Goto(c, "clear")) /\ UNCHANGED <<role, grants, cache, history>>
  BY DEF Purge, At
<1>2. /\ call' \in [Calls -> Call \cup {None}]
      /\ \A d \in Calls : call'[d] # None => Checked(d)'
  BY <1>1, Goes
<1>3. u \in Users
  BY <1>1, Named
<1>4. \/ UNCHANGED <<row, member, assigned>>
      \/ /\ row' = [row EXCEPT ![u] = "gone"] /\ member' = [member EXCEPT ![u] = "no"]
         /\ assigned' = [assigned EXCEPT ![u] = {}]
  BY DEF Purge
<1>5. TypeOK'
  BY <1>1, <1>2, <1>3, <1>4 DEF IInv, TypeOK, There, history
<1>6. PlatformConfined' /\ BuiltInsKept' /\ RolesNeedMember'
  BY <1>1, <1>3, <1>4 DEF IInv, TypeOK, PlatformConfined, BuiltInsKept, RolesNeedMember, history
<1>. QED
  BY <1>2, <1>5, <1>6 DEF IInv

LEMMA StepInv == IInv /\ [Next]_vars => IInv'
<1> SUFFICES ASSUME IInv, [Next]_vars PROVE IInv'
  OBVIOUS
<1>1. ASSUME NEW u \in Users, Expire(u) PROVE IInv'
  <2>1. UNCHANGED <<database, call, history>> /\ cache' \in [Users -> Access \cup {None}]
    BY <1>1 DEF Expire, IInv, TypeOK
  <2>. QED
    BY <2>1 DEF IInv, TypeOK, PlatformConfined, BuiltInsKept, RolesNeedMember, Checked, At, Req, There, database, history
<1>2. CASE UNCHANGED vars
  BY <1>2 DEF vars, IInv, TypeOK, PlatformConfined, BuiltInsKept, RolesNeedMember, Checked, At, Req, There, database, history
<1>. QED
  BY <1>1, <1>2, BeginInv, GuardInv, FindRoleInv, CheckPermsInv, WriteRoleInv, ClearInv, FindUserInv,
     ReadRolesInv, CheckRolesInv, CreateUserInv, SetRolesInv, RemoveUserInv, CountInv, PurgeInv
     DEF Next, Step

LEMMA Invariance == Spec => []IInv
BY InitInv, StepInv, PTL DEF Spec

(* Variables keep their types, and a member is a user. *)
THEOREM TypeCorrect == Spec => []TypeOK
<1>1. IInv => TypeOK
  BY DEF IInv
<1>. QED
  BY <1>1, Invariance, PTL

(* No sequence of role calls puts a platform permission into a role other than
   system_admin (roles.service 130-179, 253-266). *)
THEOREM PlatformStaysConfined == Spec => []PlatformConfined
<1>1. IInv => PlatformConfined
  BY DEF IInv
<1>. QED
  BY <1>1, Invariance, PTL

(* No request disables or deletes a built-in role or changes what system_admin may
   do (roles.service 118-119, 185-186, 254-268, 301-310). *)
THEOREM BuiltInsStay == Spec => []BuiltInsKept
<1>1. IInv => BuiltInsKept
  BY DEF IInv
<1>. QED
  BY <1>1, Invariance, PTL

(* A user who is no member has no roles, overtaken ones aside
   (users.service 145-158, 160-173). *)
THEOREM RolesGoWithMember == Spec => []RolesNeedMember
<1>1. IInv => RolesNeedMember
  BY DEF IInv
<1>. QED
  BY <1>1, Invariance, PTL

----------------------------------------------------------------------------
(* What the tenant can hand out, permission by permission. *)
Holds(p) ==
  \/ \E r \in Roles \ {Sys} : p \in grants[r]
  \/ \E u \in Users : cache[u] # None /\ p \in cache[u].perms
  \/ \E c \in Calls : Cleared(c) /\ Req(c).op \in RoleOps /\ p \in Enables(Req(c))

LEMMA WithinHolds == \A p : (p \in Within <=> Holds(p)) /\ (p \in Within' <=> Holds(p)')
<1>1. ASSUME NEW p PROVE p \in Within <=> Holds(p)
  <2> DEFINE D == {d \in Calls : Cleared(d) /\ Req(d).op \in RoleOps}
             X == UNION {grants[r] : r \in Roles \ {Sys}}
             Y == UNION {a.perms : a \in Cached}
             Z == UNION {Enables(Req(c)) : c \in D}
  <2>1. Within = X \cup Y \cup Z
    BY Zenon DEF Within
  <2>2. p \in X <=> \E r \in Roles \ {Sys} : p \in grants[r]
    OBVIOUS
  <2>3. p \in Y <=> \E u \in Users : cache[u] # None /\ p \in cache[u].perms
    BY DEF Cached
  <2>4. \A d : d \in D <=> d \in Calls /\ Cleared(d) /\ Req(d).op \in RoleOps
    OBVIOUS
  <2> HIDE DEF D
  <2>5. p \in Z <=> \E c \in D : p \in Enables(Req(c))
    OBVIOUS
  <2> HIDE DEF X, Y, Z
  <2>. QED
    BY <2>1, <2>2, <2>3, <2>4, <2>5 DEF Holds
<1>2. ASSUME NEW p PROVE p \in Within' <=> Holds(p)'
  <2> DEFINE D == {d \in Calls : Cleared(d)' /\ Req(d)'.op \in RoleOps}
             X == UNION {grants'[r] : r \in Roles \ {Sys}}
             Y == UNION {a.perms : a \in Cached'}
             Z == UNION {Enables(Req(c)') : c \in D}
  <2>1. Within' = X \cup Y \cup Z
    BY Zenon DEF Within
  <2>2. p \in X <=> \E r \in Roles \ {Sys} : p \in grants'[r]
    OBVIOUS
  <2>3. p \in Y <=> \E u \in Users : cache'[u] # None /\ p \in cache'[u].perms
    BY DEF Cached
  <2>4. \A d : d \in D <=> d \in Calls /\ Cleared(d)' /\ Req(d)'.op \in RoleOps
    OBVIOUS
  <2> HIDE DEF D
  <2>5. p \in Z <=> \E c \in D : p \in Enables(Req(c)')
    OBVIOUS
  <2> HIDE DEF X, Y, Z
  <2>. QED
    BY <2>1, <2>2, <2>3, <2>4, <2>5 DEF Holds
<1>. QED
  BY <1>1, <1>2

(* A state from which nothing more can be handed out than from the one before. *)
LEMMA Confine ==
  ASSUME \A u \in Users : Sys \notin assigned'[u],
         \A u \in Users : cache'[u] # None => Sys \notin cache'[u].roles /\ \A p \in cache'[u].perms : Holds(p),
         \A r \in Roles \ {Sys} : \A p \in grants'[r] : Holds(p),
         \A c \in Calls : Cleared(c)' =>
           /\ Req(c)'.op \in UserOps => Sys \notin Req(c)'.roles
           /\ Req(c)'.op \in RoleOps => \A p \in Enables(Req(c)') : Holds(p)
  PROVE  ~SysHeld' /\ Within' \subseteq Within
<1>1. ~SysHeld'
  BY DEF SysHeld, Cached
<1>2. \A p : Holds(p)' => Holds(p)
  BY DEF Holds
<1>. QED
  BY <1>1, <1>2, WithinHolds

(* Calls, the database and the cache, as far as they are left alone. *)
LEMMA CallsConfined ==
  ASSUME ~SysHeld, NEW c \in Calls, \A d \in Calls \ {c} : call'[d] = call[d],
         Cleared(c)' =>
           /\ Req(c)' = Req(c)
           /\ \/ Cleared(c)
              \/ /\ Req(c).op \in UserOps => Sys \notin Req(c).roles
                 /\ Req(c).op \in RoleOps => \A p \in Enables(Req(c)) : Holds(p)
  PROVE  \A d \in Calls : Cleared(d)' =>
           /\ Req(d)'.op \in UserOps => Sys \notin Req(d)'.roles
           /\ Req(d)'.op \in RoleOps => \A p \in Enables(Req(d)') : Holds(p)
<1>1. \A d \in Calls : Cleared(d) =>
        /\ Req(d).op \in UserOps => Sys \notin Req(d).roles
        /\ Req(d).op \in RoleOps => \A p \in Enables(Req(d)) : Holds(p)
  BY DEF SysHeld, Holds
<1>2. \A d \in Calls \ {c} : (Cleared(d)' => Cleared(d)) /\ Req(d)' = Req(d)
  BY DEF Cleared, At, Req
<1>. QED
  BY <1>1, <1>2

LEMMA DataHeld ==
  ASSUME ~SysHeld
  PROVE  /\ \A u \in Users : Sys \notin assigned[u]
         /\ \A u \in Users : cache[u] # None => Sys \notin cache[u].roles /\ \A p \in cache[u].perms : Holds(p)
         /\ \A r \in Roles \ {Sys} : \A p \in grants[r] : Holds(p)
BY DEF SysHeld, Cached, Holds

LEMMA AnswerHeld ==
  ASSUME IInv, ~SysHeld, NEW u \in Users, Answer(u) # None
  PROVE  Sys \notin Answer(u).roles /\ \A p \in Answer(u).perms : Holds(p)
<1>1. CASE cache[u] # None
  BY <1>1, DataHeld DEF Answer
<1>2. CASE cache[u] = None
  <2>1. Answer(u) = Stored(u)
    BY <1>2 DEF Answer
  <2>2. Sys \notin InForce(u) /\ InForce(u) \subseteq Roles \ {Sys}
    BY DataHeld DEF IInv, TypeOK, InForce
  <2>3. Stored(u).roles = InForce(u) /\ Stored(u).perms = UNION {grants[r] : r \in InForce(u)}
    BY <2>2 DEF Stored
  <2>4. \A p \in UNION {grants[r] : r \in InForce(u)} : Holds(p)
    BY <2>2, DataHeld
  <2>. QED
    BY <2>1, <2>2, <2>3, <2>4
<1>. QED
  BY <1>1, <1>2

LEMMA CacheHeld ==
  ASSUME IInv, ~SysHeld, NEW u \in Users, Remember(u)
  PROVE  \A v \in Users : cache'[v] # None =>
           Sys \notin cache'[v].roles /\ \A p \in cache'[v].perms : Holds(p)
BY AnswerHeld, DataHeld DEF IInv, TypeOK, Remember

(* A step of one call that changes no role and no assignment. *)
LEMMA QuietConfined ==
  ASSUME ~SysHeld, NEW c \in Calls, UNCHANGED <<grants, assigned>>,
         \A v \in Users : cache'[v] # None =>
           Sys \notin cache'[v].roles /\ \A p \in cache'[v].perms : Holds(p),
         \A d \in Calls \ {c} : call'[d] = call[d],
         Cleared(c)' =>
           /\ Req(c)' = Req(c)
           /\ \/ Cleared(c)
              \/ /\ Req(c).op \in UserOps => Sys \notin Req(c).roles
                 /\ Req(c).op \in RoleOps => \A p \in Enables(Req(c)) : Holds(p)
  PROVE  ~SysHeld' /\ Within' \subseteq Within
BY DataHeld, CallsConfined, Confine

LEMMA QuietSteps ==
  ASSUME IInv, ~SysHeld, NEW c \in Calls,
         Begin(c) \/ FindRole(c) \/ FindUser(c) \/ ReadRoles(c) \/ ClearRoles(c) \/ ClearUser(c) \/ Count(c)
  PROVE  ~SysHeld' /\ Within' \subseteq Within
<1>1. UNCHANGED <<grants, assigned>>
  BY DEF Begin, FindRole, FindUser, ReadRoles, ClearRoles, ClearUser, Count, database
<1>2. \A v \in Users : cache'[v] = None \/ cache'[v] = cache[v]
  BY DEF Begin, FindRole, FindUser, ReadRoles, ClearRoles, ClearUser, Count, IInv, TypeOK
<1>3. \A v \in Users : cache'[v] # None =>
        Sys \notin cache'[v].roles /\ \A p \in cache'[v].perms : Holds(p)
  BY <1>2, DataHeld
<1>4. ASSUME call' = [call EXCEPT ![c] = None] \/ ~Cleared(c)', \A d \in Calls \ {c} : call'[d] = call[d]
      PROVE  ~SysHeld' /\ Within' \subseteq Within
  <2>1. ~Cleared(c)'
    BY <1>4 DEF IInv, TypeOK, Cleared, At
  <2>. QED
    BY <1>1, <1>3, <1>4, <2>1, QuietConfined
<1>5. ASSUME call[c] # None, Goto(c, "checkPerms") \/ Goto(c, "readRoles") \/ Goto(c, "purge") \/ Goto(c, "clear")
                             \/ Goto(c, "matrix")
      PROVE  ~SysHeld' /\ Within' \subseteq Within
  <2>1. /\ \A d \in Calls \ {c} : call'[d] = call[d]
        /\ call'[c].at \in {"checkPerms", "readRoles", "purge", "clear", "matrix"}
    BY <1>5, Going DEF IInv, Steps
  <2>. QED
    BY <1>4, <2>1 DEF Cleared, At
<1>6. CASE Begin(c)
  <2>1. /\ \A d \in Calls \ {c} : call'[d] = call[d] /\ call'[c].at = "guard"
    BY <1>6 DEF Begin, IInv, TypeOK
  <2>. QED
    BY <1>4, <2>1, <1>6 DEF Cleared, At, Begin, IInv, TypeOK
<1>7. CASE ReadRoles(c)
  <2>1. \/ call' = [call EXCEPT ![c] = None]
        \/ /\ call' = [call EXCEPT ![c].at = "checkRoles", ![c].need = UNION {grants[r] : r \in Req(c).roles}]
           /\ call[c] \in Call
    BY <1>7, Facts DEF ReadRoles, End, At, IInv, TypeOK
  <2>2. \A d \in Calls \ {c} : call'[d] = call[d]
    BY <2>1 DEF IInv, TypeOK
  <2>3. call' = [call EXCEPT ![c] = None] \/ call'[c].at = "checkRoles"
    BY <2>1 DEF IInv, TypeOK, Call
  <2>. QED
    BY <1>4, <2>2, <2>3 DEF Cleared, At
<1>8. CASE ClearRoles(c) \/ ClearUser(c)
  <2>1. call' = [call EXCEPT ![c] = None] \/ (call[c] # None /\ Goto(c, "matrix"))
    BY <1>8 DEF ClearRoles, ClearUser, End, At
  <2>2. CASE call' = [call EXCEPT ![c] = None]
    BY <1>4, <2>2 DEF IInv, TypeOK
  <2>. QED
    BY <1>5, <2>1, <2>2
<1>9. CASE Count(c)
  BY <1>5, <1>9 DEF Count, At
<1>10. CASE FindRole(c)
  <2>1. CASE End(c)
    BY <1>4, <2>1 DEF End, IInv, TypeOK
  <2>2. CASE Goto(c, "write") /\ Req(c).op \in {"updateRole", "removeRole"}
    <3>1. /\ \A d \in Calls \ {c} : call'[d] = call[d] /\ call'[c].q = call[c].q
      BY <1>10, <2>2, Going DEF FindRole, At, IInv, Steps
    <3>2. Req(c)' = Req(c) /\ Req(c).op \notin UserOps /\ Enables(Req(c)) = {}
      BY <2>2, <3>1, <1>10, Going DEF FindRole, At, IInv, Steps, Req, UserOps, Enables
    <3>. QED
      BY <1>1, <1>3, <1>10, <2>2, <3>2, Going, QuietConfined DEF FindRole, At, IInv, Steps
  <2>3. CASE Goto(c, "checkPerms")
    BY <1>5, <1>10, <2>3 DEF FindRole, At
  <2>. QED
    BY <1>10, <2>1, <2>2, <2>3 DEF FindRole
<1>11. CASE FindUser(c)
  <2> DEFINE found == call' = [call EXCEPT ![c].at = "write", ![c].found = There(Req(c).user)]
  <2>1. call[c] # None /\ call[c] \in Call /\ At(c, "findUser")
    BY <1>11 DEF FindUser, At, IInv, TypeOK
  <2>2. CASE End(c)
    BY <1>4, <2>2 DEF End, IInv, TypeOK
  <2>3. CASE Goto(c, "readRoles")
    BY <1>5, <2>1, <2>3
  <2>4. CASE (found /\ Req(c).op = "createUser") \/ (Goto(c, "write") /\ Req(c).op = "removeUser")
    <3>1. (\A d \in Calls \ {c} : call'[d] = call[d]) /\ call'[c].q = call[c].q
      BY <2>1, <2>4, Going DEF IInv, TypeOK, Call, Steps
    <3>2. Req(c)' = Req(c)
      BY <3>1 DEF Req
    <3>3. Cleared(c)' => Cleared(c)
      BY <2>1, <2>4, <3>2 DEF Cleared, At, RoleOps
    <3>. QED
      BY <1>1, <1>3, <3>1, <3>2, <3>3, QuietConfined
  <2>. QED
    BY <1>11, <2>2, <2>3, <2>4 DEF FindUser
<1>. QED
  BY <1>6, <1>7, <1>8, <1>9, <1>10, <1>11

LEMMA AskingSteps ==
  ASSUME IInv, ~SysHeld, NEW c \in Calls, Guard(c) \/ CheckPerms(c) \/ CheckRoles(c)
  PROVE  ~SysHeld' /\ Within' \subseteq Within
<1> DEFINE q == Req(c)  a == Answer(q.by)
<1>1. call[c] # None /\ UNCHANGED <<grants, assigned>> /\ Remember(q.by) /\ q.by \in Users
  BY Named DEF Guard, CheckPerms, CheckRoles, At, database
<1>2. \A v \in Users : cache'[v] # None =>
        Sys \notin cache'[v].roles /\ \A p \in cache'[v].perms : Holds(p)
  BY <1>1, CacheHeld
<1>3. a # None => Sys \notin a.roles /\ \A p \in a.perms : Holds(p)
  BY <1>1, AnswerHeld
<1>4. CASE End(c)
  <2>1. ~Cleared(c)' /\ \A d \in Calls \ {c} : call'[d] = call[d]
    BY <1>4, Ending DEF IInv, Cleared, At
  <2>. QED
    BY <1>1, <1>2, <2>1, QuietConfined
<1>5. ASSUME NEW l \in Steps, Goto(c, l),
             \/ l \notin {"write", "findUser"}
             \/ /\ q.op \in UserOps => Sys \notin q.roles
                /\ q.op \in RoleOps => \A p \in Enables(q) : Holds(p)
             \/ l = "findUser" /\ q.op # "createUser"
      PROVE  ~SysHeld' /\ Within' \subseteq Within
  <2>1. /\ \A d \in Calls \ {c} : call'[d] = call[d]
        /\ call'[c].q = call[c].q /\ call'[c].at = l
    BY <1>1, <1>5, Going DEF IInv
  <2>2. Req(c)' = Req(c)
    BY <2>1 DEF Req
  <2>3. Cleared(c)' => /\ q.op \in UserOps => Sys \notin q.roles
                       /\ q.op \in RoleOps => \A p \in Enables(q) : Holds(p)
    BY <1>5, <2>1, <2>2 DEF Cleared, At
  <2>. QED
    BY <1>1, <1>2, <2>1, <2>2, <2>3, QuietConfined
<1>6. CASE Guard(c)
  <2>1. CASE ~End(c)
    <3>1. Goto(c, CASE q.op = "createRole" -> "checkPerms"
                    [] q.op \in RoleOps \ {"createRole"} -> "findRole"
                    [] q.op = "createUser" /\ q.roles # {} -> "readRoles"
                    [] OTHER -> "findUser")
      BY <1>6, <2>1 DEF Guard
    <3>2. q.op \in RoleOps \cup UserOps
      BY <1>1, Named DEF Request
    <3>3. CASE q.op = "createRole"
      <4>1. Goto(c, "checkPerms") /\ "checkPerms" \in Steps
        BY <3>1, <3>3 DEF Steps
      <4>. QED
        BY <1>5, <4>1
    <3>4. CASE q.op \in RoleOps \ {"createRole"}
      <4>1. q.op # "createRole" /\ ~(q.op = "createUser" /\ q.roles # {})
        BY <3>4 DEF RoleOps
      <4>2. Goto(c, "findRole") /\ "findRole" \in Steps
        BY <3>1, <3>4, <4>1 DEF Steps
      <4>. QED
        BY <1>5, <4>2
    <3>5. CASE q.op \in UserOps
      <4>1. q.op # "createRole" /\ q.op \notin RoleOps
        BY <3>5 DEF UserOps, RoleOps
      <4>2. CASE q.op = "createUser" /\ q.roles # {}
        <5>1. Goto(c, "readRoles") /\ "readRoles" \in Steps
          BY <3>1, <4>1, <4>2 DEF Steps
        <5>. QED
          BY <1>5, <5>1
      <4>3. CASE ~(q.op = "createUser" /\ q.roles # {})
        <5>1. Goto(c, "findUser") /\ "findUser" \in Steps
          BY <3>1, <4>1, <4>3 DEF Steps
        <5>. QED
          BY <1>5, <4>1, <4>3, <5>1
      <4>. QED
        BY <4>2, <4>3
    <3>. QED
      BY <3>2, <3>3, <3>4, <3>5
  <2>. QED
    BY <1>4, <2>1
<1>7. CASE CheckPerms(c)
  <2>1. CASE ~End(c)
    <3>1. Goto(c, "write") /\ a # None /\ MayEnable(Enables(q), a)
      BY <1>7, <2>1 DEF CheckPerms
    <3>2. q.op \in {"createRole", "setPermissions", "setPermission"}
      BY <1>1, <1>7, Named DEF Checked, CheckPerms
    <3>3. q.op \notin UserOps
      BY <3>2 DEF UserOps
    <3>4. \A p \in Enables(q) : Holds(p)
      BY <1>3, <3>1 DEF MayEnable
    <3>5. "write" \in Steps
      BY DEF Steps
    <3>. QED
      BY <1>5, <3>1, <3>3, <3>4, <3>5
  <2>. QED
    BY <1>4, <2>1
<1>8. CASE CheckRoles(c)
  <2>1. CASE ~End(c)
    <3>1. (Goto(c, "findUser") \/ Goto(c, "write")) /\ a # None /\ MayAssign(q.roles, call[c].need, a)
      BY <1>8, <2>1 DEF CheckRoles
    <3>2. q.op \in UserOps
      BY <1>1, <1>8, Named DEF Checked, CheckRoles, At
    <3>3. q.op \notin RoleOps
      BY <3>2 DEF UserOps, RoleOps
    <3>4. Sys \notin q.roles
      BY <1>3, <3>1 DEF MayAssign
    <3>5. "findUser" \in Steps /\ "write" \in Steps
      BY DEF Steps
    <3>. QED
      BY <1>5, <3>1, <3>3, <3>4, <3>5
  <2>. QED
    BY <1>4, <2>1
<1>. QED
  BY <1>6, <1>7, <1>8

LEMMA MatrixStep ==
  ASSUME IInv, ~SysHeld, NEW c \in Calls, Matrix(c)
  PROVE  ~SysHeld' /\ Within' \subseteq Within
<1>1. call[c] # None /\ UNCHANGED <<grants, assigned>> /\ End(c) /\ Req(c).by \in Users
      /\ (Remember(Req(c).by) \/ cache' = cache)
  BY Named DEF Matrix, At, database
<1>2. \A v \in Users : cache'[v] # None =>
        Sys \notin cache'[v].roles /\ \A p \in cache'[v].perms : Holds(p)
  BY <1>1, CacheHeld, DataHeld
<1>3. ~Cleared(c)' /\ \A d \in Calls \ {c} : call'[d] = call[d]
  BY <1>1, Ending DEF IInv, Cleared, At
<1>. QED
  BY <1>1, <1>2, <1>3, QuietConfined

LEMMA WritingSteps ==
  ASSUME IInv, ~SysHeld, NEW c \in Calls,
         WriteRole(c) \/ CreateUser(c) \/ SetRoles(c) \/ RemoveUser(c) \/ Purge(c)
  PROVE  ~SysHeld' /\ Within' \subseteq Within
<1> DEFINE q == Req(c)
<1>1. call[c] # None /\ cache' = cache /\ q.roles \in SUBSET Roles /\ q.user \in Users /\ q.role \in Roles
      /\ q.perms \in SUBSET Perms
  BY Named DEF WriteRole, CreateUser, SetRoles, RemoveUser, Purge, At
<1>2. End(c) \/ Goto(c, "clear") \/ Goto(c, "count")
  BY DEF WriteRole, CreateUser, SetRoles, RemoveUser, Purge
<1>3. (\A d \in Calls \ {c} : call'[d] = call[d]) /\ ~Cleared(c)'
  BY <1>1, <1>2, Going, Ending DEF IInv, Cleared, At, Steps
<1>4. \A u \in Users : Sys \notin assigned'[u]
  <2>1. CASE WriteRole(c)
    <3>1. assigned' = assigned \/ assigned' = [u \in Users |-> assigned[u] \ {q.role}]
      BY <2>1 DEF WriteRole
    <3>. QED
      BY <3>1, DataHeld
  <2>2. CASE CreateUser(c) \/ SetRoles(c)
    <3>1. Cleared(c) /\ q.op \in UserOps
      BY <2>2 DEF CreateUser, SetRoles, Cleared, UserOps
    <3>2. Sys \notin q.roles
      BY <3>1 DEF SysHeld
    <3>3. \/ assigned' = assigned \/ assigned' = [assigned EXCEPT ![q.user] = q.roles]
          \/ assigned' = [assigned EXCEPT ![q.user] = @ \cup (IF q.roles = {} THEN {Member} ELSE q.roles)]
      BY <2>2 DEF CreateUser, SetRoles
    <3>. QED
      BY <1>1, <3>2, <3>3, Facts, DataHeld DEF IInv, TypeOK
  <2>3. CASE RemoveUser(c) \/ Purge(c)
    <3>1. assigned' = assigned \/ assigned' = [assigned EXCEPT ![q.user] = {}]
      BY <2>3 DEF RemoveUser, Purge
    <3>. QED
      BY <1>1, <3>1, DataHeld DEF IInv, TypeOK
  <2>. QED
    BY <2>1, <2>2, <2>3
<1>5. \A r \in Roles \ {Sys} : \A p \in grants'[r] : Holds(p)
  <2>1. CASE WriteRole(c)
    <3>1. Cleared(c) /\ q.op \in RoleOps
      BY <2>1 DEF WriteRole, Cleared
    <3>2. \A p \in Enables(q) : Holds(p)
      BY <3>1 DEF Holds
    <3>3. \/ grants' = grants \/ grants' = [grants EXCEPT ![q.role] = {}]
          \/ q.op \in {"createRole", "setPermissions"} /\ grants' = [grants EXCEPT ![q.role] = q.perms]
          \/ q.op = "setPermission" /\ q.on /\ grants' = [grants EXCEPT ![q.role] = @ \cup q.perms]
          \/ q.op = "setPermission" /\ ~q.on /\ grants' = [grants EXCEPT ![q.role] = @ \ q.perms]
      BY <2>1 DEF WriteRole
    <3>4. \A r \in Roles : grants'[r] \subseteq grants[r] \cup Enables(q)
      BY <1>1, <3>3 DEF IInv, TypeOK, Enables
    <3>. QED
      BY <3>2, <3>4, DataHeld
  <2>2. CASE CreateUser(c) \/ SetRoles(c) \/ RemoveUser(c) \/ Purge(c)
    <3>1. grants' = grants
      BY <2>2 DEF CreateUser, SetRoles, RemoveUser, Purge
    <3>. QED
      BY <3>1, DataHeld
  <2>. QED
    BY <2>1, <2>2
<1>6. \A v \in Users : cache'[v] # None =>
        Sys \notin cache'[v].roles /\ \A p \in cache'[v].perms : Holds(p)
  BY <1>1, DataHeld
<1>. QED
  BY <1>3, <1>4, <1>5, <1>6, CallsConfined, Confine

LEMMA ExpiryConfined ==
  ASSUME IInv, ~SysHeld, NEW u \in Users, Expire(u)
  PROVE  ~SysHeld' /\ Within' \subseteq Within
<1>1. UNCHANGED <<grants, assigned, call>> /\ \A v \in Users : cache'[v] = None \/ cache'[v] = cache[v]
  BY DEF Expire, database, IInv, TypeOK
<1>2. \A d \in Calls : Cleared(d)' =>
        /\ Req(d)'.op \in UserOps => Sys \notin Req(d)'.roles
        /\ Req(d)'.op \in RoleOps => \A p \in Enables(Req(d)') : Holds(p)
  BY <1>1 DEF SysHeld, Holds, Cleared, At, Req
<1>. QED
  BY <1>1, <1>2, DataHeld, Confine

(* In a tenant without a system_admin nothing that no role, entry or call holds
   comes back, system_admin included (roles.service 184-246; README 226-228). *)
THEOREM NothingComesBack == Spec => NothingFromNowhere
<1>1. ASSUME IInv, [Next]_vars
      PROVE  [~SysHeld => ~SysHeld' /\ Within' \subseteq Within]_vars
  <2> SUFFICES ASSUME ~SysHeld, Next PROVE ~SysHeld' /\ Within' \subseteq Within
    BY <1>1
  <2>. QED
    BY <1>1, QuietSteps, AskingSteps, MatrixStep, WritingSteps, ExpiryConfined DEF Next, Step
<1>. QED
  BY <1>1, Invariance, PTL DEF Spec, NothingFromNowhere
=============================================================================

---------------------------- MODULE AccessCache ----------------------------
(* The read-through cache of a user's roles and permissions in a tenant
   (access.service, with RedisService.deleteByPattern) against the services that
   change them: roles.service, users.service and tenancy.service commit to the
   database and then invalidate.

   What is cached is reduced to a version: roles[k] counts the commits that
   changed what the queries of getUserAccess return for k = <<tenant, user>>,
   and an entry is the version its first query saw.  A step ends at each await. *)
EXTENDS Naturals, FiniteSets

CONSTANTS
  Tenants, Users,
  Readers,     \* requests that call getUserAccess
  Writers,     \* administrative requests
  MaxVersion,  \* bound: changes to one user's access in one tenant
  WritesFail,  \* an invalidation may fail, or its process die, after the commit
  None         \* no cached value, no key

ASSUME BoundsAssumption == MaxVersion \in Nat /\ WritesFail \in BOOLEAN
ASSUME NoneAssumption == None \notin Nat /\ None \notin Tenants \X Users

Key     == Tenants \X Users
Version == 0..MaxVersion

(* The keys matched by access:<tenant>:* and by access:*:<user>. *)
OfTenant(t) == {k \in Key : k[1] = t}
OfUser(u)   == {k \in Key : k[2] = u}

VARIABLES
  roles, member,     \* the database: access version and membership of each key,
  tenant, users,     \* state of each tenant, the users that exist
  cache,             \* Redis
  rpc, rkey, rseen,  \* a reader: its await, its key, the version its query saw
  wpc, wkey,         \* a writer: its await, the member it has looked up,
  todo, batch,       \* the keys SCAN has yet to visit, the keys to DEL
  floor, denied,     \* history: what a reader's key was when it asked
  verdict,           \* history: what a reader's last answer was worth
  raced, missed      \* history: entries outdated when filled; never invalidated

db      == <<roles, member, tenant, users>>
readers == <<rpc, rkey, rseen>>
writers == <<wpc, wkey, todo, batch>>
asked   == <<floor, denied, verdict>>
blame   == <<raced, missed>>
vars == <<db, cache, readers, writers, asked, blame>>

Active(k)   == member[k] = "active" /\ tenant[k[1]] = "active"
Cached(k)   == cache[k] # None
Outdated(k) == Cached(k) /\ (cache[k] # roles[k] \/ ~Active(k))
Owed(k)     == \E w \in Writers : k \in todo[w] \cup batch[w]

Init ==
  /\ roles = [k \in Key |-> 0] /\ member \in [Key -> {"active", "none"}]
  /\ tenant = [t \in Tenants |-> "active"] /\ users = Users
  /\ cache = [k \in Key |-> None]
  /\ rpc = [r \in Readers |-> "idle"] /\ rkey = [r \in Readers |-> None]
  /\ rseen = [r \in Readers |-> 0]
  /\ wpc = [w \in Writers |-> "idle"] /\ wkey = [w \in Writers |-> None]
  /\ todo = [w \in Writers |-> {}] /\ batch = [w \in Writers |-> {}]
  /\ floor = [r \in Readers |-> 0] /\ denied = {}
  /\ verdict = [r \in Readers |-> "none"]
  /\ raced = {} /\ missed = {}

----------------------------------------------------------------------------
(* getUserAccess: cache, membership, assignments, fill. *)
RGoto(r, l) == rpc' = [rpc EXCEPT ![r] = l] /\ UNCHANGED <<rkey, rseen>>

Leave(r) ==
  /\ rpc' = [rpc EXCEPT ![r] = "idle"] /\ rkey' = [rkey EXCEPT ![r] = None]
  /\ rseen' = [rseen EXCEPT ![r] = 0]
  /\ floor' = [floor EXCEPT ![r] = 0] /\ denied' = denied \ {r}

(* What the answer may be is fixed here: when no invalidation of k is owed,
   nothing older than the database now. *)
Request(r, k) ==
  /\ rpc[r] = "idle"
  /\ rpc' = [rpc EXCEPT ![r] = "get"] /\ rkey' = [rkey EXCEPT ![r] = k]
  /\ floor' = [floor EXCEPT ![r] = IF Owed(k) THEN 0 ELSE roles[k]]
  /\ denied' = IF Owed(k) \/ Active(k) THEN denied ELSE denied \cup {r}
  /\ verdict' = [verdict EXCEPT ![r] = "none"]
  /\ UNCHANGED <<db, cache, rseen, writers, blame>>

(* r is answered with version v. *)
Answer(r, v) ==
  /\ Leave(r)
  /\ verdict' = [verdict EXCEPT ![r] =
       CASE v >= floor[r] /\ r \notin denied -> "right"
         [] Cached(rkey[r]) /\ rkey[r] \in raced  -> "raced"
         [] Cached(rkey[r]) /\ rkey[r] \in missed -> "missed"
         [] OTHER -> "wrong"]

Hit(r) ==
  /\ rpc[r] = "get" /\ Cached(rkey[r])
  /\ Answer(r, cache[rkey[r]])
  /\ UNCHANGED <<db, cache, writers, blame>>

Miss(r) ==
  /\ rpc[r] = "get" /\ ~Cached(rkey[r])
  /\ RGoto(r, "membership")
  /\ UNCHANGED <<db, cache, writers, asked, blame>>

CheckMembership(r) ==
  /\ rpc[r] = "membership" /\ Active(rkey[r])
  /\ RGoto(r, "roles")
  /\ UNCHANGED <<db, cache, writers, asked, blame>>

ReadRoles(r) ==
  /\ rpc[r] = "roles"
  /\ rseen' = [rseen EXCEPT ![r] = roles[rkey[r]]]
  /\ rpc' = [rpc EXCEPT ![r] = "set"]
  /\ UNCHANGED <<db, cache, rkey, writers, asked, blame>>

Fill(r) ==
  LET k == rkey[r] IN
  /\ rpc[r] = "set"
  /\ cache' = [cache EXCEPT ![k] = rseen[r]]
  /\ raced' = IF rseen[r] # roles[k] \/ ~Active(k) THEN raced \cup {k} ELSE raced \ {k}
  /\ missed' = missed \ {k}
  /\ Answer(r, rseen[r])
  /\ UNCHANGED <<db, writers>>

(* There is no active membership, or a query or a Redis call throws. *)
FailRequest(r) ==
  /\ rpc[r] # "idle"
  /\ Leave(r)
  /\ UNCHANGED <<db, cache, writers, verdict, blame>>

----------------------------------------------------------------------------
(* The changes.  Each commits, then owes the deletion of its keys. *)
Bump(S) ==
  /\ \A k \in S : roles[k] < MaxVersion
  /\ roles' = [k \in Key |-> IF k \in S THEN roles[k] + 1 ELSE roles[k]]

(* A writer waits at l with keys S to delete by name. *)
OweKeys(w, S, l) ==
  /\ wpc' = [wpc EXCEPT ![w] = l] /\ wkey' = [wkey EXCEPT ![w] = None]
  /\ batch' = [batch EXCEPT ![w] = S]
  /\ UNCHANGED todo

(* A writer waits for the SCAN of the pattern that matches S. *)
OweScan(w, S) ==
  /\ wpc' = [wpc EXCEPT ![w] = "scan"] /\ wkey' = [wkey EXCEPT ![w] = None]
  /\ todo' = [todo EXCEPT ![w] = S]
  /\ UNCHANGED batch

(* setRoles, update and remove of UsersService look the member up first
   (findByIdForTenant) and do not look again. *)
FindMember(w, k) ==
  /\ wpc[w] = "idle" /\ member[k] = "active"
  /\ wpc' = [wpc EXCEPT ![w] = "found"] /\ wkey' = [wkey EXCEPT ![w] = k]
  /\ UNCHANGED <<db, cache, readers, todo, batch, asked, blame>>

setRoles(w) ==
  LET k == wkey[w] IN
  /\ wpc[w] = "found" /\ k[2] \in users /\ tenant[k[1]] # "deleted"
  /\ Bump({k}) /\ OweKeys(w, {k}, "del")
  /\ UNCHANGED <<member, tenant, users, cache, readers, asked, blame>>

(* UsersService.update changes nothing that is cached. *)
updateUser(w) ==
  /\ wpc[w] = "found" /\ wkey[w][2] \in users
  /\ OweScan(w, OfUser(wkey[w][2]))
  /\ UNCHANGED <<db, cache, readers, asked, blame>>

(* UsersService.remove: deactivation, or deletion of the membership and, when a
   count finds no other, of the user. *)
removeMember(w) ==
  LET k == wkey[w] IN
  /\ wpc[w] = "found" /\ member[k] # "none"
  /\ \/ member' = [member EXCEPT ![k] = "inactive"] /\ OweKeys(w, {k}, "del")
     \/ member' = [member EXCEPT ![k] = "none"] /\ OweKeys(w, {k}, "count")
  /\ UNCHANGED <<roles, tenant, users, cache, readers, asked, blame>>

CountMemberships(w) ==
  /\ wpc[w] = "count"
  /\ wpc' = [wpc EXCEPT ![w] =
       IF \A k \in batch[w] : \A j \in OfUser(k[2]) : member[j] = "none"
       THEN "drop" ELSE "del"]
  /\ UNCHANGED <<db, cache, readers, wkey, todo, batch, asked, blame>>

(* The user's row goes, and by cascade memberships created since the count. *)
DropUser(w) ==
  LET gone == {j \in Key : \E k \in batch[w] : j[2] = k[2]} IN
  /\ wpc[w] = "drop" /\ \A k \in batch[w] : k[2] \in users
  /\ users' = {u \in users : \A k \in batch[w] : k[2] # u}
  /\ member' = [j \in Key |-> IF j \in gone THEN "none" ELSE member[j]]
  /\ missed' = missed \cup {j \in gone : Cached(j)}
  /\ wpc' = [wpc EXCEPT ![w] = "del"]
  /\ UNCHANGED <<roles, tenant, cache, readers, wkey, todo, batch, asked, raced>>

(* RolesService.create, update, remove, setPermission and setPermissions: a
   tenant's role changes for those who have it, a built-in one in all tenants. *)
changeTenantRole(w, t, S) ==
  /\ wpc[w] = "idle" /\ tenant[t] # "deleted"
  /\ S \subseteq OfTenant(t) /\ Bump(S) /\ OweScan(w, OfTenant(t))
  /\ UNCHANGED <<member, tenant, users, cache, readers, asked, blame>>

(* Bug: a built-in role is invalidated like a tenant's role. *)
changeGlobalRole_OneTenant(w, S) ==
  /\ wpc[w] = "idle" /\ Bump(S) /\ \E t \in Tenants : OweScan(w, OfTenant(t))
  /\ UNCHANGED <<member, tenant, users, cache, readers, asked, blame>>

changeGlobalRole(w, S) ==
  /\ wpc[w] = "idle" /\ Bump(S) /\ OweScan(w, Key)
  /\ UNCHANGED <<member, tenant, users, cache, readers, asked, blame>>

(* UsersService.create for a user known to another tenant, and
   TenancyService.remove: these two invalidate nothing. *)
createUser(k) ==
  /\ k[2] \in users /\ member[k] = "none" /\ tenant[k[1]] # "deleted"
  /\ Bump({k}) /\ member' = [member EXCEPT ![k] = "active"]
  /\ missed' = IF Cached(k) THEN missed \cup {k} ELSE missed
  /\ denied' = {r \in denied : rkey[r] # k}
  /\ UNCHANGED <<tenant, users, cache, readers, writers, floor, verdict, raced>>

removeTenant(t) ==
  /\ tenant[t] # "deleted"
  /\ \/ tenant[t] = "active" /\ tenant' = [tenant EXCEPT ![t] = "inactive"]
        /\ UNCHANGED member
     \/ tenant' = [tenant EXCEPT ![t] = "deleted"]
        /\ member' = [k \in Key |-> IF k[1] = t THEN "none" ELSE member[k]]
  /\ missed' = missed \cup {k \in OfTenant(t) : Cached(k)}
  /\ UNCHANGED <<roles, users, cache, readers, writers, asked, raced>>

(* Bug: only the first page is read. *)
ScanPage_First(w) ==
  /\ wpc[w] = "scan"
  /\ \E page \in SUBSET todo[w] :
       /\ page # {} \/ todo[w] = {}
       /\ batch' = [batch EXCEPT ![w] = {k \in page : Cached(k)}]
       /\ todo' = [todo EXCEPT ![w] = {}]
  /\ wpc' = [wpc EXCEPT ![w] = "del"]
  /\ UNCHANGED <<db, cache, readers, wkey, asked, blame>>

(* RedisService.deleteByPattern: a SCAN page returns the matching keys that
   exist, DEL then deletes them; a key filled in between stays unless it was in
   the page. *)
ScanPage(w) ==
  /\ wpc[w] = "scan"
  /\ \E page \in SUBSET todo[w] :
       /\ page # {} \/ todo[w] = {}
       /\ batch' = [batch EXCEPT ![w] = {k \in page : Cached(k)}]
       /\ todo' = [todo EXCEPT ![w] = @ \ page]
  /\ wpc' = [wpc EXCEPT ![w] = "del"]
  /\ UNCHANGED <<db, cache, readers, wkey, asked, blame>>

Forget(S) ==
  /\ cache' = [k \in Key |-> IF k \in S THEN None ELSE cache[k]]
  /\ raced' = raced \ S /\ missed' = missed \ S

DeleteBatch(w) ==
  /\ wpc[w] = "del"
  /\ Forget(batch[w])
  /\ batch' = [batch EXCEPT ![w] = {}]
  /\ wpc' = [wpc EXCEPT ![w] = IF todo[w] = {} THEN "idle" ELSE "scan"]
  /\ UNCHANGED <<db, readers, wkey, todo, asked>>

(* A call before the commit throws, or the commit does. *)
Refuse(w) ==
  /\ wpc[w] = "found"
  /\ wpc' = [wpc EXCEPT ![w] = "idle"] /\ wkey' = [wkey EXCEPT ![w] = None]
  /\ UNCHANGED <<db, cache, readers, todo, batch, asked, blame>>

(* After the commit Redis fails or the process dies, or the user to delete is
   gone: what is left is not deleted. *)
FailInvalidation(w) ==
  /\ wpc[w] \in {"count", "drop", "scan", "del"}
  /\ WritesFail \/ (wpc[w] = "drop" /\ \E k \in batch[w] : k[2] \notin users)
  /\ missed' = missed \cup {k \in todo[w] \cup batch[w] : Cached(k)}
  /\ wpc' = [wpc EXCEPT ![w] = "idle"]
  /\ todo' = [todo EXCEPT ![w] = {}] /\ batch' = [batch EXCEPT ![w] = {}]
  /\ UNCHANGED <<db, cache, readers, wkey, asked, raced>>

(* Bug: the entry is written without a TTL. *)
Expire_Never(k) == Cached(k) /\ FALSE /\ UNCHANGED vars

(* An entry lives 300 s. *)
Expire(k) ==
  /\ Cached(k) /\ Forget({k})
  /\ UNCHANGED <<db, readers, writers, asked>>

----------------------------------------------------------------------------
Read(r) == Hit(r) \/ Miss(r) \/ CheckMembership(r) \/ ReadRoles(r) \/ Fill(r)

Invalidate(w) ==
  CountMemberships(w) \/ DropUser(w) \/ ScanPage(w) \/ DeleteBatch(w) \/ FailInvalidation(w)

Change(w) ==
  \/ \E k \in Key : FindMember(w, k)
  \/ setRoles(w) \/ updateUser(w) \/ removeMember(w) \/ Refuse(w)
  \/ \E t \in Tenants, S \in SUBSET Key : changeTenantRole(w, t, S)
  \/ \E S \in SUBSET Key : changeGlobalRole(w, S)

Next ==
  \/ \E r \in Readers : (\E k \in Key : Request(r, k)) \/ Read(r) \/ FailRequest(r)
  \/ \E w \in Writers : Change(w) \/ Invalidate(w)
  \/ \E k \in Key : createUser(k) \/ Expire(k)
  \/ \E t \in Tenants : removeTenant(t)

Spec == Init /\ [][Next]_vars

(* Only Redis is counted on: TTLs run out.  A reader or a writer may stop for
   good between any two steps. *)
FairSpec == Spec /\ \A k \in Key : WF_vars(Expire(k))

----------------------------------------------------------------------------
(* TypeOK: entries are versions, and only a writer at work owes deletions. *)
TypeOK ==
  /\ roles \in [Key -> Version] /\ member \in [Key -> {"active", "inactive", "none"}]
  /\ tenant \in [Tenants -> {"active", "inactive", "deleted"}] /\ users \subseteq Users
  /\ cache \in [Key -> Version \cup {None}]
  /\ rpc \in [Readers -> {"idle", "get", "membership", "roles", "set"}]
  /\ rkey \in [Readers -> Key \cup {None}] /\ rseen \in [Readers -> Version]
  /\ \A r \in Readers : rpc[r] # "idle" => rkey[r] \in Key
  /\ wpc \in [Writers -> {"idle", "found", "count", "drop", "scan", "del"}]
  /\ wkey \in [Writers -> Key \cup {None}]
  /\ \A w \in Writers : wpc[w] = "found" => wkey[w] \in Key
  /\ todo \in [Writers -> SUBSET Key] /\ batch \in [Writers -> SUBSET Key]
  /\ \A w \in Writers : wpc[w] \in {"idle", "found"} => todo[w] = {} /\ batch[w] = {}
  /\ \A w \in Writers : wpc[w] \in {"count", "drop"} => todo[w] = {}
  /\ \A w \in Writers : wpc[w] = "scan" => batch[w] = {}
  /\ floor \in [Readers -> Version] /\ denied \subseteq Readers
  /\ verdict \in [Readers -> {"none", "right", "raced", "missed", "wrong"}]
  /\ raced \subseteq Key /\ missed \subseteq Key

(* StaleExplained: an entry differs from the database only while an
   invalidation of it is under way, or because it was filled from a read older
   than a commit, or because its invalidation failed or is not made at all.
   (access.service 18-92, redis.service 161-175) *)
StaleExplained == \A k \in Key : Outdated(k) => Owed(k) \/ k \in raced \cup missed

(* AnswersExplained: a request made when no invalidation of its key is owed gets
   an answer as new as the database was then, and none for a removed member,
   but for the two causes StaleExplained names. (access.service 18-72) *)
AnswersExplained == \A r \in Readers : verdict[r] # "wrong"

(* EventuallyFresh: once changes stop, stale entries disappear for good, even
   after lost races and failed invalidations. (access.service 70) *)
Fresh == \A k \in Key : ~Outdated(k)
EventuallyFresh == <>[]Fresh
============================================================================

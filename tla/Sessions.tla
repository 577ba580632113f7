------------------------------ MODULE Sessions ------------------------------
(* The tokens of one user: AuthService signs access tokens and rotates refresh
   tokens, logout and the removal of a member or a tenant revoke, JwtStrategy
   checks.  Revocation is a time stamp in Redis, for the user
   (lastLogoutAt) and for a tenant (tenantDeactivatedAt): an access token signed
   in an earlier second is refused while the stamp lives.

   A call is one running handler; it ends a step at each await.  Time counts
   seconds, which is all the stamps and the tokens' iat record. *)
EXTENDS Naturals, FiniteSets

CONSTANTS
  Calls,     \* handlers that may run at once
  Tenants,
  Tokens,    \* bound: refresh tokens
  Life,      \* seconds an access token lives (JWT_EXPIRES_IN, read by jsonwebtoken)
  StampTtl,  \* seconds a stamp lives (JWT_EXPIRES_IN, read by parseTtlSeconds)
  MaxTime,   \* bound: seconds; in the last one no call begins, but time shows
  User,      \* the key of the user's own stamp
  None       \* no tenant, no token, no stamp

(* Both readings of "2h", "30m" or "7d" agree; a stamp could be a second shorter. *)
ASSUME TimeAssumption ==
  Life \in Nat \ {0} /\ StampTtl \in Nat /\ MaxTime \in Nat /\ Life <= StampTtl + 1

ASSUME DistinctAssumption ==
  None \notin Tokens /\ None \notin Tenants /\ None \notin Nat /\ User \notin Tenants

Time   == 0..MaxTime
Keys   == Tenants \cup {User}
Access == [ten : Tenants, iat : Time]

VARIABLES
  now,
  tenant, member,     \* each tenant's state and the user's membership in it
  user,               \* the user's row exists
  rt, home,           \* refresh tokens: state (dead: revoked or deleted), tenant
  stamp, until,       \* each key's stamp and the second it expires
  pc, op, ten,        \* a call: its await, what it does, its tenant,
  src, new, sec,      \* the token it was given, the one it made, iat or stamp,
  signed,             \* and the iat of the access token it will return
  access, known,      \* access and refresh tokens handed out
  given,              \* history: pairs handed out in exchange for a token
  cut, reordered,     \* history: latest stamp written; keys stamped out of order
  due,                \* history: the second before which a key's tokens are to go
  late, leaked        \* history: calls begun too late; tokens of failed calls

db     == <<tenant, member, user, rt, home>>
tokens == <<rt, home>>
marks  == <<stamp, until, cut, reordered>>
stamps == <<marks, due>>
call   == <<pc, op, ten, src, new, sec, signed>>
out    == <<access, known, given>>
vars == <<now, db, stamps, call, out, late, leaked>>

At(c, l) == pc[c] = l
Active(t) == user /\ tenant[t] = "active" /\ member[t] = "active"

(* JwtStrategy.validate, after the signature and the expiry. *)
Revoked(k, a) == stamp[k] # None /\ a.iat < stamp[k]

(* Bug: a second of clock tolerance, which the stamps' lifetime leaves no room for. *)
Accepted_Tolerant(a) == now <= a.iat + Life /\ ~Revoked(User, a) /\ ~Revoked(a.ten, a)

Accepted(a) == now < a.iat + Life /\ ~Revoked(User, a) /\ ~Revoked(a.ten, a)

Init ==
  /\ now = 0 /\ user = TRUE
  /\ tenant = [t \in Tenants |-> "active"] /\ member = [t \in Tenants |-> "active"]
  /\ rt = [x \in Tokens |-> "free"] /\ home = [x \in Tokens |-> None]
  /\ stamp = [k \in Keys |-> None] /\ until = [k \in Keys |-> 0]
  /\ cut = [k \in Keys |-> 0] /\ reordered = {} /\ due = [k \in Keys |-> 0]
  /\ pc = [c \in Calls |-> "idle"] /\ op = [c \in Calls |-> "none"]
  /\ ten = [c \in Calls |-> None]
  /\ src = [c \in Calls |-> None] /\ new = [c \in Calls |-> None]
  /\ sec = [c \in Calls |-> 0] /\ signed = [c \in Calls |-> 0]
  /\ access = {} /\ known = {} /\ given = [x \in Tokens |-> 0]
  /\ late = {} /\ leaked = {}

----------------------------------------------------------------------------
Goto(c, l) == pc' = [pc EXCEPT ![c] = l]

Begin(c, l, what, t, x) ==
  /\ now < MaxTime /\ At(c, "idle") /\ Goto(c, l)
  /\ op' = [op EXCEPT ![c] = what]
  /\ ten' = [ten EXCEPT ![c] = t] /\ src' = [src EXCEPT ![c] = x]
  /\ UNCHANGED <<new, sec, signed>>

End(c) ==
  /\ Goto(c, "idle") /\ op' = [op EXCEPT ![c] = "none"]
  /\ ten' = [ten EXCEPT ![c] = None]
  /\ src' = [src EXCEPT ![c] = None] /\ new' = [new EXCEPT ![c] = None]
  /\ sec' = [sec EXCEPT ![c] = 0] /\ signed' = [signed EXCEPT ![c] = 0]
  /\ late' = late \ {c}

(* The database says so: what was signed for k before this second is to go. *)
Due(k) == due' = [due EXCEPT ![k] = now]

NoteLate(c, t) == late' = IF Active(t) THEN late ELSE late \cup {c}

(* login, the code logins and switchTenant: the user has been identified. *)
Login(c, t) ==
  /\ user /\ Begin(c, "member", "login", t, None) /\ NoteLate(c, t)
  /\ UNCHANGED <<now, db, stamps, out, leaked>>

(* refresh: a token that exists, is not revoked and (it may always be refused)
   has not expired. *)
Refresh(c, x) ==
  /\ x \in known /\ rt[x] = "live"
  /\ Begin(c, "member", "refresh", home[x], x) /\ NoteLate(c, home[x])
  /\ UNCHANGED <<now, db, stamps, out, leaked>>

(* Bug: a refresh does not check the membership again. *)
CheckMembership_OnLogin(c) ==
  /\ At(c, "member") /\ (op[c] = "login" => Active(ten[c]))
  /\ Goto(c, "create")
  /\ UNCHANGED <<now, db, stamps, op, ten, src, new, sec, signed, out, late, leaked>>

CheckMembership(c) ==
  /\ At(c, "member") /\ Active(ten[c])
  /\ Goto(c, "create")
  /\ UNCHANGED <<now, db, stamps, op, ten, src, new, sec, signed, out, late, leaked>>

(* issueAuthResponse: two reads, a new refresh token, an access token. *)
CreateToken(c, y) ==
  /\ At(c, "create") /\ rt[y] = "free" /\ user /\ tenant[ten[c]] # "deleted"
  /\ rt' = [rt EXCEPT ![y] = "live"] /\ home' = [home EXCEPT ![y] = ten[c]]
  /\ new' = [new EXCEPT ![c] = y]
  /\ Goto(c, "sign")
  /\ UNCHANGED <<now, tenant, member, user, stamps, op, ten, src, sec, signed, out, late, leaked>>

(* The pair is returned. *)
HandOut(c, iat) ==
  /\ access' = access \cup {[ten |-> ten[c], iat |-> iat]}
  /\ known' = known \cup {new[c]}
  /\ given' = IF src[c] = None THEN given ELSE [given EXCEPT ![src[c]] = @ + 1]

Sign(c) ==
  /\ At(c, "sign")
  /\ IF op[c] = "login"
     THEN HandOut(c, now) /\ End(c)
     ELSE /\ signed' = [signed EXCEPT ![c] = now] /\ Goto(c, "rotate")
          /\ UNCHANGED <<op, ten, src, new, sec, out, late>>
  /\ UNCHANGED <<now, db, stamps, leaked>>

(* Bug: the old token is revoked whether or not it still was valid. *)
Rotate_Always(c) ==
  /\ At(c, "rotate")
  /\ rt' = [rt EXCEPT ![src[c]] = "dead"] /\ Due(User)
  /\ sec' = [sec EXCEPT ![c] = now] /\ Goto(c, "write")
  /\ UNCHANGED <<now, tenant, member, user, home, marks, op, ten, src, new, signed, out, late, leaked>>

(* updateMany ... revokedAt: null.  The stamp's second is taken at once. *)
Rotate(c) ==
  /\ At(c, "rotate")
  /\ IF rt[src[c]] = "live"
     THEN /\ rt' = [rt EXCEPT ![src[c]] = "dead"] /\ Due(User)
          /\ sec' = [sec EXCEPT ![c] = now] /\ Goto(c, "write")
     ELSE Goto(c, "undo") /\ UNCHANGED <<rt, sec, due>>
  /\ UNCHANGED <<now, tenant, member, user, home, marks, op, ten, src, new, signed, out, late, leaked>>

(* Bug: the loser of a rotation only reports the error. *)
Undo_Not(c) ==
  /\ At(c, "undo") /\ End(c)
  /\ UNCHANGED <<now, db, stamps, out, leaked>>

(* Bug: the token the loser was given is put back. *)
Undo_Restores(c) ==
  /\ At(c, "undo")
  /\ rt' = [rt EXCEPT ![src[c]] = "live"]
  /\ End(c)
  /\ UNCHANGED <<now, tenant, member, user, home, stamps, out, leaked>>

(* The token was used before: its replacement is revoked again. *)
Undo(c) ==
  /\ At(c, "undo")
  /\ rt' = [rt EXCEPT ![new[c]] = "dead"]
  /\ End(c)
  /\ UNCHANGED <<now, tenant, member, user, home, stamps, out, leaked>>

----------------------------------------------------------------------------
(* logout: a token that is revoked or unknown is left alone.  The update finds
   the row unless its user or tenant was deleted since. *)
Logout(c, x) ==
  /\ x \in known /\ rt[x] = "live"
  /\ Begin(c, "revoke", "logout", home[x], x)
  /\ UNCHANGED <<now, db, stamps, out, late, leaked>>

RevokeToken(c) ==
  /\ At(c, "revoke") /\ user /\ tenant[ten[c]] # "deleted"
  /\ rt' = [rt EXCEPT ![src[c]] = "dead"] /\ Due(User)
  /\ sec' = [sec EXCEPT ![c] = now] /\ Goto(c, "write")
  /\ UNCHANGED <<now, tenant, member, user, home, marks, op, ten, src, new, signed, out, late, leaked>>

(* UsersService.remove, until the access cache is invalidated.  The last
   membership takes the user's row and by cascade his tokens (the count and the
   deletion are one step here; AccessCache has them apart).  The user may belong
   to tenants outside Tenants too, and then stays. *)
Member(c, t) ==
  /\ member[t] = "active" /\ Begin(c, "remove", "removeMember", t, None)
  /\ UNCHANGED <<now, db, stamps, out, late, leaked>>

removeMember(c) ==
  LET t == ten[c] IN
  /\ At(c, "remove") /\ member[t] # "none" /\ Goto(c, "invalidate") /\ Due(User)
  /\ \/ member' = [member EXCEPT ![t] = "inactive"] /\ UNCHANGED <<user, rt>>
     \/ member' = [member EXCEPT ![t] = "none"] /\ UNCHANGED <<user, rt>>
     \/ /\ member' = [member EXCEPT ![t] = "none"]
        /\ \A s \in Tenants : member'[s] = "none"
        /\ user' = FALSE /\ rt' = [x \in Tokens |-> IF rt[x] = "live" THEN "dead" ELSE rt[x]]
  /\ UNCHANGED <<now, tenant, home, marks, op, ten, src, new, sec, signed, out, late, leaked>>

Invalidate(c) ==
  /\ At(c, "invalidate")
  /\ sec' = [sec EXCEPT ![c] = now] /\ Goto(c, "write")
  /\ UNCHANGED <<now, db, stamps, op, ten, src, new, signed, out, late, leaked>>

(* Bug: a deletion returns before the stamp. *)
removeTenant_NoStamp(c, t) ==
  /\ now < MaxTime /\ tenant[t] # "deleted" /\ At(c, "idle") /\ Due(t)
  /\ \/ /\ tenant[t] = "active" /\ tenant' = [tenant EXCEPT ![t] = "inactive"]
        /\ op' = [op EXCEPT ![c] = "removeTenant"] /\ ten' = [ten EXCEPT ![c] = t]
        /\ sec' = [sec EXCEPT ![c] = now] /\ Goto(c, "write") /\ UNCHANGED <<member, rt>>
     \/ /\ tenant' = [tenant EXCEPT ![t] = "deleted"]
        /\ member' = [member EXCEPT ![t] = "none"]
        /\ rt' = [x \in Tokens |-> IF home[x] = t THEN "dead" ELSE rt[x]]
        /\ UNCHANGED <<pc, op, ten, sec>>
  /\ UNCHANGED <<now, user, home, marks, src, new, signed, out, late, leaked>>

(* TenancyService.remove: deactivation, or deletion with memberships and tokens. *)
removeTenant(c, t) ==
  /\ now < MaxTime /\ tenant[t] # "deleted" /\ At(c, "idle") /\ Goto(c, "write")
  /\ op' = [op EXCEPT ![c] = "removeTenant"] /\ ten' = [ten EXCEPT ![c] = t]
  /\ sec' = [sec EXCEPT ![c] = now] /\ Due(t)
  /\ \/ tenant[t] = "active" /\ tenant' = [tenant EXCEPT ![t] = "inactive"]
        /\ UNCHANGED <<member, rt>>
     \/ /\ tenant' = [tenant EXCEPT ![t] = "deleted"]
        /\ member' = [member EXCEPT ![t] = "none"]
        /\ rt' = [x \in Tokens |-> IF home[x] = t THEN "dead" ELSE rt[x]]
  /\ UNCHANGED <<now, user, home, marks, src, new, signed, out, late, leaked>>

(* UsersService.create adds the user to the tenant again. *)
joinTenant(t) ==
  /\ user /\ member[t] = "none" /\ tenant[t] # "deleted"
  /\ member' = [member EXCEPT ![t] = "active"]
  /\ late' = {c \in late : ten[c] # t}
  /\ UNCHANGED <<now, tenant, user, tokens, stamps, call, out, leaked>>

StampKey(c) == IF op[c] = "removeTenant" THEN ten[c] ELSE User

(* SET with EX.  Nothing orders the writes of two processes. *)
WriteStamp(c) ==
  LET k == StampKey(c) IN
  /\ At(c, "write")
  /\ stamp' = [stamp EXCEPT ![k] = sec[c]] /\ until' = [until EXCEPT ![k] = now + StampTtl]
  /\ reordered' = IF sec[c] < cut[k] THEN reordered \cup {k} ELSE reordered
  /\ cut' = [cut EXCEPT ![k] = IF sec[c] > @ THEN sec[c] ELSE @]
  /\ IF op[c] = "refresh" THEN HandOut(c, signed[c]) ELSE UNCHANGED out
  /\ End(c)
  /\ UNCHANGED <<now, db, due, leaked>>

----------------------------------------------------------------------------
(* The call changed the database, and its stamp is to come. *)
Owes(c, k) == pc[c] \in {"invalidate", "write"} /\ StampKey(c) = k

(* Something throws, refuses, or the process dies.  A stamp it owed is lost. *)
Fail(c) ==
  /\ ~At(c, "idle") /\ End(c)
  /\ leaked' = IF new[c] = None THEN leaked ELSE leaked \cup {new[c]}
  /\ due' = [k \in Keys |-> IF Owes(c, k) THEN cut[k] ELSE due[k]]
  /\ UNCHANGED <<now, db, marks, out>>

(* The nightly cleanup deletes tokens that expired thirty days ago; no call lasts
   that long. *)
InUse(x) == \E c \in Calls : x \in {src[c], new[c]}

cleanupExpiredTokens(x) ==
  /\ rt[x] = "live" /\ ~InUse(x)
  /\ rt' = [rt EXCEPT ![x] = "dead"]
  /\ UNCHANGED <<now, tenant, member, user, home, stamps, call, out, late, leaked>>

(* A second passes: stamps expire. *)
Tick ==
  LET over == {k \in Keys : until[k] <= now + 1} IN
  /\ now < MaxTime /\ now' = now + 1
  /\ stamp' = [k \in Keys |-> IF k \in over THEN None ELSE stamp[k]]
  /\ until' = [k \in Keys |-> IF k \in over THEN 0 ELSE until[k]]
  /\ UNCHANGED <<db, cut, reordered, due, call, out, late, leaked>>

----------------------------------------------------------------------------
Start(c) ==
  \/ \E t \in Tenants : Login(c, t) \/ Member(c, t) \/ removeTenant(c, t)
  \/ \E x \in Tokens : Refresh(c, x) \/ Logout(c, x)

Go(c) ==
  \/ CheckMembership(c) \/ (\E y \in Tokens : CreateToken(c, y))
  \/ Sign(c) \/ Rotate(c) \/ Undo(c) \/ RevokeToken(c)
  \/ removeMember(c) \/ Invalidate(c) \/ WriteStamp(c) \/ Fail(c)

Next ==
  \/ \E c \in Calls : Start(c) \/ Go(c)
  \/ \E t \in Tenants : joinTenant(t)
  \/ \E x \in Tokens : cleanupExpiredTokens(x)
  \/ Tick

Spec == Init /\ [][Next]_vars

----------------------------------------------------------------------------
Pcs == {"idle", "member", "create", "sign", "rotate", "undo", "revoke",
        "remove", "invalidate", "write"}
Exchanging == {"member", "create", "sign", "rotate", "undo"}

CallOK(c) ==
  /\ ~At(c, "idle") => ten[c] \in Tenants
  /\ pc[c] \in Exchanging => op[c] \in {"login", "refresh"}
  /\ pc[c] \in {"rotate", "undo"} => op[c] = "refresh"
  /\ op[c] \in {"none", "login", "removeMember"} => src[c] = None
  /\ At(c, "revoke") => op[c] = "logout"
  /\ pc[c] \in {"remove", "invalidate"} => op[c] = "removeMember"
  /\ op[c] \in {"refresh", "logout"} => src[c] \in Tokens
  /\ pc[c] \in {"sign", "rotate", "undo"} \/ (At(c, "write") /\ op[c] = "refresh")
       <=> new[c] \in Tokens

(* TypeOK: every call is at a step of its operation and holds what it needs. *)
TypeOK ==
  /\ now \in Time /\ user \in BOOLEAN
  /\ tenant \in [Tenants -> {"active", "inactive", "deleted"}]
  /\ member \in [Tenants -> {"active", "inactive", "none"}]
  /\ rt \in [Tokens -> {"free", "live", "dead"}]
  /\ home \in [Tokens -> Tenants \cup {None}]
  /\ \A x \in Tokens : rt[x] # "free" => home[x] \in Tenants
  /\ stamp \in [Keys -> Time \cup {None}] /\ until \in [Keys -> Nat]
  /\ cut \in [Keys -> Time] /\ reordered \subseteq Keys /\ due \in [Keys -> Time]
  /\ pc \in [Calls -> Pcs]
  /\ op \in [Calls -> {"none", "login", "refresh", "logout", "removeMember", "removeTenant"}]
  /\ ten \in [Calls -> Tenants \cup {None}]
  /\ src \in [Calls -> Tokens \cup {None}] /\ new \in [Calls -> Tokens \cup {None}]
  /\ sec \in [Calls -> Time] /\ signed \in [Calls -> Time]
  /\ \A c \in Calls : CallOK(c)
  /\ \A c \in Calls, x \in Tokens : x \in {src[c], new[c]} => rt[x] # "free"
  /\ access \subseteq Access /\ known \subseteq Tokens /\ given \in [Tokens -> Nat]
  /\ late \subseteq Calls /\ leaked \subseteq Tokens

(* OneExchange: of any number of concurrent refreshes and logouts with one
   refresh token, at most one is answered with a new pair.
   (auth.service 124-158) *)
OneExchange == \A x \in Tokens : given[x] <= 1

(* RevocationSticks: an access token signed before the second of a completed
   revocation is never accepted again, also once the stamp has expired: a stamp
   lives until the tokens before it are dead.  Stamps that two revocations wrote
   in the wrong order are the exception.
   (auth.service 274-279, jwt.strategy 22-43, tenancy.service 93-100) *)
RevocationSticks ==
  \A a \in access : \A k \in {User, a.ten} \ reordered : a.iat < cut[k] => ~Accepted(a)

(* ReturnedRevokes: once the logout, refresh or removal that changed the database
   has returned, no access token from before that second is accepted, and until
   then its stamp is still to come; unless stamps were written in the wrong order.
   What a call that fails in between leaves valid stays valid: a tenant's
   deactivation is refused the second time. (tenancy.service 84-100, auth.service
   139-169, users.service 163-181) *)
ReturnedRevokes ==
  \A a \in access : \A k \in {User, a.ten} \ reordered :
    a.iat < due[k] /\ Accepted(a) => \E c \in Calls : Owes(c, k)

(* LateRefused: a login or refresh that begins when the tenant or the membership
   is no longer active gets no tokens, unless the user joins again meanwhile.
   (tenant.guard 30-32, auth.service 137) *)
LateRefused == \A c \in late : At(c, "member")

(* NoStrayTokens: a refresh token that can still be exchanged was handed out, or
   belongs to a call under way, or was left by a call that failed or died.
   (auth.service 139-155) *)
NoStrayTokens ==
  \A x \in Tokens : rt[x] = "live" => x \in known \cup leaked \/ \E c \in Calls : new[c] = x

(* TokensSingleUse: refresh tokens implement SingleUse.  One is live from the
   moment it is created, revoked or deleted once and for good whoever does it,
   and a pair is granted for it once, after that. *)
Once == INSTANCE SingleUse WITH
  Secrets <- Tokens,
  live <- {x \in Tokens : rt[x] = "live"},
  spent <- {x \in Tokens : rt[x] = "dead"},
  granted <- given
TokensSingleUse == Once!Spec
=============================================================================

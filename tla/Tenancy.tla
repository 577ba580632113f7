------------------------------ MODULE Tenancy ------------------------------
(* Tenants, their slugs, and the tenant a request works in: src/tenancy,
   request-context.middleware, tenant.guard, and the part of auth.service.login
   that finds the tenant.

   A call is one request, or an instance that starts; it ends a step at each
   await.  Tokens are taken as genuine: Sessions has their revocation, and
   AccessCache and Administration have the access a token's user has. *)
EXTENDS Naturals, FiniteSets

CONSTANTS
  Tenants,   \* tenant ids; an id is used once
  Slugs,
  Default,   \* the slug `default'
  Calls,
  Requests,  \* what may be asked
  FirstSlugs, \* the tenants there are at first, with their slugs
  Modes,     \* values of TENANT_RESOLUTION: "header", "subdomain"
  Ttl,       \* lifetime of a slug cache entry (3600 s)
  None

Ids == Tenants \cup {None}

(* op "visit" stands for the routes that need a tenant, "login" for the public
   one; host, header and slug are the tenant as the Host header, the tenant
   header and the login form give it. *)
Request == [op : {"visit", "login", "create", "softRemove", "hardRemove", "boot"},
            host : Slugs \cup {None}, header : Ids, slug : Slugs \cup {None}, token : Ids]

Steps == {"get", "query", "fill", "guard", "handle", "member", "find", "write"}

(* A call: its step, its request, its tenant context, the slug that
   resolveTenantId was asked for, by login or by the middleware, and the id it
   has found. *)
Call == [at : Steps, q : Request, ctx : Ids, asked : Slugs \cup {None}, login : BOOLEAN, id : Ids]

ASSUME TenancyAssumption ==
  /\ Default \in Slugs /\ Requests \subseteq Request
  /\ Modes \subseteq {"header", "subdomain"} /\ Ttl \in Nat \ {0}
  /\ \A q \in Requests :
       (q.op = "create" => q.slug # None) /\ (q.op = "visit" => q.token # None)
  /\ FirstSlugs \subseteq [Tenants -> Slugs \cup {None}]
  /\ \A f \in FirstSlugs, t, u \in Tenants : f[t] = f[u] /\ f[t] # None => t = u
  /\ None \notin Tenants \cup Slugs \cup Call \cup [id : Tenants, left : 1..Ttl]

VARIABLES
  mode,    \* how the tenant of a request is found
  tenant,  \* rows of tenants: "new" (no such row yet), "active", "inactive" or "gone"
  slug,    \* each tenant's slug
  cached,  \* the slug cache in Redis: an id and the time it is left, or None
  call,    \* calls under way
  age,     \* history: time since each tenant was removed, up to Ttl
  late     \* history: slugs whose entry was written when its tenant had been removed

rows    == <<tenant, slug, age>>
slugs   == <<cached, late>>
vars    == <<mode, rows, slugs, call>>

At(c, l)   == call[c] # None /\ call[c].at = l
Goto(c, l) == call' = [call EXCEPT ![c].at = l]
End(c)     == call' = [call EXCEPT ![c] = None]

Exists(t)     == tenant[t] \in {"active", "inactive"}
Owners(s)     == {t \in Tenants : Exists(t) /\ slug[t] = s}
Active(s)     == {t \in Owners(s) : tenant[t] = "active"}

Init ==
  /\ mode \in Modes
  /\ slug \in FirstSlugs
  /\ tenant = [t \in Tenants |-> IF slug[t] = None THEN "new" ELSE "active"]
  /\ cached = [s \in Slugs |-> None] /\ late = {}
  /\ call = [c \in Calls |-> None]
  /\ age = [t \in Tenants |-> 0]

----------------------------------------------------------------------------
(* RequestContextMiddleware.use: in subdomain mode the tenant of a known slug
   replaces the header. *)
Begin(c) ==
  /\ call[c] = None
  /\ \E q \in Requests :
       LET byHost == mode = "subdomain" /\ q.host # None IN
       call' = [call EXCEPT ![c] =
         [at |-> IF q.op = "boot" THEN "find" ELSE IF byHost THEN "get" ELSE "guard",
          q |-> q, ctx |-> IF byHost THEN None ELSE q.header,
          asked |-> IF byHost THEN q.host ELSE None, login |-> FALSE, id |-> None]]
  /\ UNCHANGED <<mode, rows, slugs>>

(* resolveTenantId answers login or the middleware. *)
Return(c, id) ==
  LET q == call[c].q IN
  IF call[c].login
  THEN IF id = None THEN End(c)
       ELSE call' = [call EXCEPT ![c].at = "member", ![c].id = id]
  ELSE call' = [call EXCEPT ![c].at = "guard", ![c].asked = None, ![c].id = None,
                            ![c].ctx = IF id # None THEN id ELSE q.header]

(* resolveTenantId.  Bug: reading an entry renews it. *)
Get_Renews(c) ==
  LET s == call[c].asked IN
  /\ At(c, "get")
  /\ IF cached[s] # None
     THEN Return(c, cached[s].id) /\ cached' = [cached EXCEPT ![s].left = Ttl]
     ELSE Goto(c, "query") /\ UNCHANGED cached
  /\ UNCHANGED <<mode, rows, late>>

Get(c) ==
  LET s == call[c].asked IN
  /\ At(c, "get")
  /\ IF cached[s] # None THEN Return(c, cached[s].id) ELSE Goto(c, "query")
  /\ UNCHANGED <<mode, rows, slugs>>

Query(c) ==
  LET s == call[c].asked IN
  /\ At(c, "query")
  /\ IF Active(s) = {} THEN Return(c, None)
     ELSE \E t \in Active(s) : call' = [call EXCEPT ![c].at = "fill", ![c].id = t]
  /\ UNCHANGED <<mode, rows, slugs>>

NoteLate(s, t) == late' = IF tenant[t] = "active" THEN late \ {s} ELSE late \cup {s}

Fill(c) ==
  LET s == call[c].asked  t == call[c].id IN
  /\ At(c, "fill")
  /\ cached' = [cached EXCEPT ![s] = [id |-> t, left |-> Ttl]] /\ NoteLate(s, t)
  /\ Return(c, t)
  /\ UNCHANGED <<mode, rows>>

(* Redis does not answer, or the write is lost: the request fails. *)
RedisFails(c) ==
  /\ At(c, "get") \/ At(c, "fill")
  /\ End(c)
  /\ UNCHANGED <<mode, rows, slugs>>

(* TenantGuard on a route that needs a tenant: a context must be the token's
   tenant.  Every such route needs a token, which JwtAuthGuard asks for first, so
   the guard's last branch, for a request without one, is never taken.  The
   tenant routes and login need no tenant; login goes by the context, or resolves
   the slug of the form (resolveRequestedTenant). *)
Guard(c) ==
  LET q == call[c].q  ctx == call[c].ctx IN
  /\ At(c, "guard")
  /\ \/ /\ q.op = "visit"
        /\ IF ctx \in {None, q.token}
           THEN call' = [call EXCEPT ![c].at = "handle", ![c].ctx = q.token] ELSE End(c)
     \/ q.op = "login" /\ IF ctx # None THEN call' = [call EXCEPT ![c].at = "member", ![c].id = ctx]
                          ELSE IF q.slug = None THEN End(c)
                          ELSE call' = [call EXCEPT ![c].at = "get", ![c].asked = q.slug, ![c].login = TRUE]
     \/ q.op \in {"create", "softRemove", "hardRemove"} /\ Goto(c, "find")
  /\ UNCHANGED <<mode, rows, slugs>>

(* The handler, in the tenant of its context. *)
Handle(c) ==
  /\ At(c, "handle") /\ End(c)
  /\ UNCHANGED <<mode, rows, slugs>>

(* assertMembership; whatever comes of it, Sessions has the rest. *)
AssertMembership(c) ==
  /\ At(c, "member") /\ End(c)
  /\ UNCHANGED <<mode, rows, slugs>>

----------------------------------------------------------------------------
(* The read before the write of create, remove and bootstrapDefaultTenant. *)
Find(c) ==
  LET q == call[c].q IN
  /\ At(c, "find")
  /\ IF CASE q.op = "create"     -> Owners(q.slug) = {}
          [] q.op = "boot"       -> Owners(Default) = {}
          [] q.op = "softRemove" -> tenant[q.header] = "active"
          [] OTHER               -> Exists(q.header)
     THEN Goto(c, "write") ELSE End(c)
  /\ UNCHANGED <<mode, rows, slugs>>

(* Bug: slugs have no unique index. *)
Free_Found(s) == TRUE

Free(s) == Owners(s) = {}

(* The transaction of create, with its creator's membership and role, and the
   insertion of bootstrapDefaultTenant: unique slugs make the second fail. *)
Create(c) ==
  LET q == call[c].q  s == IF q.op = "boot" THEN Default ELSE q.slug IN
  /\ At(c, "write") /\ q.op \in {"create", "boot"}
  /\ IF Free(s)
     THEN \E t \in Tenants :
            /\ tenant[t] = "new"
            /\ tenant' = [tenant EXCEPT ![t] = "active"]
            /\ slug' = [slug EXCEPT ![t] = s]
     ELSE UNCHANGED <<tenant, slug>>
  /\ End(c)
  /\ UNCHANGED <<mode, age, slugs>>

(* remove; the slug cache is left alone.  Sessions has the stamp it writes. *)
Remove(c) ==
  LET q == call[c].q  t == q.header IN
  /\ At(c, "write") /\ q.op \in {"softRemove", "hardRemove"}
  /\ tenant' = IF Exists(t)
               THEN [tenant EXCEPT ![t] = IF q.op = "hardRemove" THEN "gone" ELSE "inactive"]
               ELSE tenant
  /\ End(c)
  /\ UNCHANGED <<mode, slug, age, slugs>>

Tick ==
  /\ cached' = [s \in Slugs |-> IF cached[s] # None /\ cached[s].left > 1
                                THEN [cached[s] EXCEPT !.left = @ - 1] ELSE None]
  /\ late' = {s \in late : cached'[s] # None}
  /\ age' = [t \in Tenants |-> IF tenant[t] \in {"inactive", "gone"} /\ age[t] < Ttl
                               THEN age[t] + 1 ELSE age[t]]
  /\ UNCHANGED <<mode, tenant, slug, call>>

----------------------------------------------------------------------------
Proceed(c) ==
  \/ Get(c) \/ Query(c) \/ Fill(c) \/ RedisFails(c) \/ Guard(c) \/ Handle(c)
  \/ AssertMembership(c) \/ Find(c) \/ Create(c) \/ Remove(c)

Next == (\E c \in Calls : Begin(c) \/ Proceed(c)) \/ Tick

Spec == Init /\ [][Next]_vars

(* Time passes and a call under way ends. *)
FairSpec == Spec /\ WF_vars(Tick) /\ \A c \in Calls : WF_vars(Proceed(c))

----------------------------------------------------------------------------
(* TypeOK: variables keep their types, and a tenant has a slug from the start. *)
TypeOK ==
  /\ mode \in Modes
  /\ tenant \in [Tenants -> {"new", "active", "inactive", "gone"}]
  /\ slug \in [Tenants -> Slugs \cup {None}]
  /\ \A t \in Tenants : (slug[t] = None) = (tenant[t] = "new")
  /\ cached \in [Slugs -> [id : Tenants, left : 1..Ttl] \cup {None}]
  /\ call \in [Calls -> Call \cup {None}]
  /\ age \in [Tenants -> 0..Ttl] /\ late \subseteq Slugs

(* OneOwner: a slug has one tenant, however creations, starting instances and
   removals overlap between their look-up and their write.
   (tenancy.service 43-50, 126-134; schema.prisma:12) *)
OneOwner == \A s \in Slugs : Cardinality(Owners(s)) <= 1

(* StaleWhileTtl: a slug resolves only to a tenant that has had it, and to a
   removed one for an hour after the removal at most, unless a resolution that
   had read the row before wrote its entry afterwards.
   (tenancy.service 79-95, 102-123) *)
StaleWhileTtl ==
  \A s \in Slugs : cached[s] # None =>
    /\ slug[cached[s].id] = s
    /\ tenant[cached[s].id] # "active" => s \in late \/ cached[s].left + age[cached[s].id] <= Ttl

(* SlugSettles: the slug of a tenant that stays comes to resolve to it, also
   when the tenant that had it before is still in the cache.
   (tenancy.service 102-123) *)
SlugSettles ==
  \A t \in Tenants :
    <>[](tenant[t] = "active")
      => <>[](tenant[t] = "active" /\ (cached[slug[t]] = None \/ cached[slug[t]].id = t))
============================================================================

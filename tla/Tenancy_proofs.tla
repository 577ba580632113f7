---------------------------- MODULE Tenancy_proofs ----------------------------
(* Proofs about Tenancy, for any tenants, slugs, calls, requests and lifetime.

   OneOwner rests on Unique and the unique index alone: the look-ups before the
   writes are not used.  StaleWhileTtl rests on the ages: a tenant that was not
   removed has age zero, so an entry and its tenant's age start within Ttl
   together, and a second takes from the one what it adds to the other. *)
EXTENDS Tenancy, FiniteSetTheorems, TLAPS

(* What a call that resolves a slug holds. *)
Resolving(c) ==
  /\ call[c].at \in {"get", "query", "fill"} => call[c].asked \in Slugs
  /\ call[c].at = "fill" => call[c].id \in Tenants /\ slug[call[c].id] = call[c].asked

Unique == \A t, u \in Tenants : Exists(t) /\ Exists(u) /\ slug[t] = slug[u] => t = u

Ages == \A t \in Tenants : tenant[t] \in {"new", "active"} => age[t] = 0

Entries ==
  \A s \in Slugs : cached[s] # None =>
    /\ slug[cached[s].id] = s
    /\ tenant[cached[s].id] # "active" => s \in late \/ cached[s].left + age[cached[s].id] <= Ttl

IInv ==
  /\ TypeOK
  /\ \A c \in Calls : call[c] # None => call[c].q \in Requests /\ Resolving(c)
  /\ Unique /\ Ages /\ Entries

LEMMA Facts ==
  /\ Default \in Slugs /\ Requests \subseteq Request /\ Ttl \in Nat /\ Ttl > 0
  /\ \A q \in Requests : q.op = "create" => q.slug \in Slugs
  /\ None \notin Tenants /\ None \notin Slugs /\ None \notin Call
  /\ \A e \in [id : Tenants, left : 1..Ttl] : e # None
BY TenancyAssumption DEF Request

(* The rows, the cache and what is known of them, as calls read them. *)
Kept == UNCHANGED <<mode, tenant, slug, age, cached, late>>

LEMMA InitInv == Init => IInv
<1> SUFFICES ASSUME Init PROVE IInv
  OBVIOUS
<1>1. TypeOK
  BY TenancyAssumption DEF Init, TypeOK
<1>2. Unique
  BY TenancyAssumption DEF Init, Unique, Exists
<1>. QED
  BY <1>1, <1>2 DEF Init, IInv, Ages, Entries

(* A step of one call that leaves the rows and the cache alone. *)
LEMMA CallStep ==
  ASSUME IInv, NEW c \in Calls, Kept, call' \in [Calls -> Call \cup {None}],
         \A d \in Calls \ {c} : call'[d] = call[d],
         call'[c] # None => call'[c].q \in Requests /\ Resolving(c)'
  PROVE  IInv'
<1>1. TypeOK'
  BY DEF IInv, TypeOK, Kept
<1>2. \A d \in Calls : call'[d] # None => call'[d].q \in Requests /\ Resolving(d)'
  BY DEF IInv, Resolving, Kept
<1>3. Unique' /\ Ages' /\ Entries'
  BY DEF IInv, Unique, Ages, Entries, Exists, Kept
<1>. QED
  BY <1>1, <1>2, <1>3 DEF IInv

LEMMA ReturnInv ==
  ASSUME IInv, NEW c \in Calls, call[c] # None, NEW id \in Ids, Return(c, id), Kept
  PROVE  IInv'
<1>1. call[c] \in Call /\ call[c].q \in Requests /\ call[c].q \in Request
  BY Facts DEF IInv, TypeOK
<1>2. /\ call' \in [Calls -> Call \cup {None}]
      /\ \A d \in Calls \ {c} : call'[d] = call[d]
      /\ call'[c] # None => call'[c].q = call[c].q /\ call'[c].at \in {"member", "guard"}
  BY <1>1, Facts DEF IInv, TypeOK, Call, Steps, Ids, Request, Return, End
<1>. QED
  BY <1>1, <1>2, CallStep DEF Resolving

LEMMA StepInv == ASSUME IInv, [Next]_vars PROVE IInv'
<1>1. ASSUME NEW c \in Calls, Begin(c) PROVE IInv'
  <2>1. PICK q \in Requests :
          LET byHost == mode = "subdomain" /\ q.host # None IN
          call' = [call EXCEPT ![c] =
            [at |-> IF q.op = "boot" THEN "find" ELSE IF byHost THEN "get" ELSE "guard",
             q |-> q, ctx |-> IF byHost THEN None ELSE q.header,
             asked |-> IF byHost THEN q.host ELSE None, login |-> FALSE, id |-> None]]
    BY <1>1 DEF Begin
  <2>2. q \in Request
    BY Facts
  <2>3. call' \in [Calls -> Call \cup {None}] /\ \A d \in Calls \ {c} : call'[d] = call[d]
    BY <2>1, <2>2 DEF IInv, TypeOK, Call, Steps, Ids, Request
  <2>4. call'[c].q = q /\ call'[c].at # "fill" /\ call'[c].at # "query"
        /\ (call'[c].at = "get" => call'[c].asked \in Slugs)
    BY <2>1, <2>2 DEF IInv, TypeOK, Request
  <2>. QED
    BY <1>1, <2>3, <2>4, CallStep DEF Begin, Kept, rows, slugs, Resolving
<1>2. ASSUME NEW c \in Calls, Get(c) PROVE IInv'
  <2>1. Kept /\ call[c] # None /\ call[c] \in Call /\ call[c].asked \in Slugs /\ call[c].q \in Requests
    BY <1>2, Facts DEF IInv, TypeOK, Get, At, Kept, rows, slugs, Resolving
  <2>2. CASE cached[call[c].asked] # None
    <3>1. cached[call[c].asked].id \in Ids
      BY <2>1, <2>2 DEF IInv, TypeOK, Ids
    <3>. QED
      BY <1>2, <2>1, <2>2, <3>1, ReturnInv DEF Get
  <2>3. CASE cached[call[c].asked] = None
    <3>1. /\ call' \in [Calls -> Call \cup {None}] /\ \A d \in Calls \ {c} : call'[d] = call[d]
          /\ call'[c].q = call[c].q /\ call'[c].at = "query" /\ call'[c].asked = call[c].asked
      BY <1>2, <2>1, <2>3 DEF Get, Goto, IInv, TypeOK, Call, Steps
    <3>. QED
      BY <2>1, <3>1, CallStep DEF Resolving
  <2>. QED
    BY <2>2, <2>3
<1>3. ASSUME NEW c \in Calls, Query(c) PROVE IInv'
  <2>1. Kept /\ call[c] # None /\ call[c] \in Call /\ call[c].asked \in Slugs /\ call[c].q \in Requests
    BY <1>3, Facts DEF IInv, TypeOK, Query, At, Kept, rows, slugs, Resolving
  <2>2. CASE Active(call[c].asked) = {}
    BY <1>3, <2>1, <2>2, ReturnInv DEF Query, Ids
  <2>3. CASE Active(call[c].asked) # {}
    <3>1. PICK t \in Active(call[c].asked) : call' = [call EXCEPT ![c].at = "fill", ![c].id = t]
      BY <1>3, <2>3 DEF Query
    <3>2. t \in Tenants /\ slug[t] = call[c].asked
      BY <3>1 DEF Active, Owners
    <3>3. /\ call' \in [Calls -> Call \cup {None}] /\ \A d \in Calls \ {c} : call'[d] = call[d]
          /\ call'[c].q = call[c].q /\ call'[c].at = "fill" /\ call'[c].asked = call[c].asked
          /\ call'[c].id = t
      BY <2>1, <3>1, <3>2 DEF IInv, TypeOK, Call, Steps, Ids
    <3>. QED
      BY <2>1, <3>2, <3>3, CallStep DEF Resolving, Kept
  <2>. QED
    BY <2>2, <2>3
<1>4. ASSUME NEW c \in Calls, Fill(c) PROVE IInv'
  <2> DEFINE s == call[c].asked  t == call[c].id
  <2>1. /\ call[c] # None /\ call[c] \in Call /\ call[c].q \in Requests
        /\ s \in Slugs /\ t \in Tenants /\ slug[t] = s
    BY <1>4, Facts DEF IInv, TypeOK, Fill, At, Resolving
  <2>2. cached' = [cached EXCEPT ![s] = [id |-> t, left |-> Ttl]] /\ NoteLate(s, t)
        /\ Return(c, t) /\ UNCHANGED <<mode, tenant, slug, age>>
    BY <1>4 DEF Fill, rows
  <2>3. /\ call' \in [Calls -> Call \cup {None}]
        /\ \A d \in Calls \ {c} : call'[d] = call[d]
        /\ call'[c] # None => call'[c].q = call[c].q /\ call'[c].at \in {"member", "guard"}
    <3>1. call[c].q \in Request
      BY <2>1, Facts
    <3>. QED
      BY <2>1, <2>2, <3>1, Facts DEF IInv, TypeOK, Call, Steps, Ids, Request, Return, End
  <2>4. TypeOK'
    BY <2>1, <2>2, <2>3, Facts DEF IInv, TypeOK, NoteLate
  <2>5. \A d \in Calls : call'[d] # None => call'[d].q \in Requests /\ Resolving(d)'
    BY <2>1, <2>2, <2>3 DEF IInv, Resolving
  <2>6. Unique' /\ Ages'
    BY <2>2 DEF IInv, Unique, Ages, Exists
  <2>7. Entries'
    <3>1. cached'[s] = [id |-> t, left |-> Ttl] /\ \A r \in Slugs \ {s} : cached'[r] = cached[r]
      BY <2>1, <2>2 DEF IInv, TypeOK
    <3>2. (tenant[t] # "active" => s \in late') /\ \A r \in Slugs \ {s} : r \in late => r \in late'
      BY <2>2 DEF NoteLate
    <3>3. slug' = slug /\ tenant' = tenant /\ age' = age
      BY <2>2
    <3>. QED
      BY <2>1, <3>1, <3>2, <3>3 DEF IInv, Entries
  <2>. QED
    BY <2>4, <2>5, <2>6, <2>7 DEF IInv
<1>5. ASSUME NEW c \in Calls, RedisFails(c) \/ Handle(c) \/ AssertMembership(c) PROVE IInv'
  <2>1. call' = [call EXCEPT ![c] = None] /\ Kept
    BY <1>5 DEF RedisFails, Handle, AssertMembership, End, Kept, rows, slugs
  <2>2. call' \in [Calls -> Call \cup {None}] /\ call'[c] = None
        /\ \A d \in Calls \ {c} : call'[d] = call[d]
    BY <2>1 DEF IInv, TypeOK
  <2>. QED
    BY <2>1, <2>2, CallStep
<1>6. ASSUME NEW c \in Calls, Guard(c) PROVE IInv'
  <2>1. Kept /\ call[c] # None /\ call[c] \in Call /\ call[c].q \in Requests /\ call[c].q \in Request
    BY <1>6, Facts DEF IInv, TypeOK, Guard, At, Kept, rows, slugs
  <2>2. /\ call' \in [Calls -> Call \cup {None}] /\ \A d \in Calls \ {c} : call'[d] = call[d]
        /\ call'[c] # None =>
             /\ call'[c].q = call[c].q /\ call'[c].at \in {"handle", "member", "get", "find"}
             /\ call'[c].at = "get" => call'[c].asked \in Slugs
    BY <1>6, <2>1, Facts DEF IInv, TypeOK, Guard, At, End, Goto, Call, Steps, Ids, Request
  <2>. QED
    BY <2>1, <2>2, CallStep DEF Resolving
<1>7. ASSUME NEW c \in Calls, Find(c) PROVE IInv'
  <2>1. Kept /\ call[c] # None /\ call[c] \in Call /\ call[c].q \in Requests
    BY <1>7, Facts DEF IInv, TypeOK, Find, At, Kept, rows, slugs
  <2>2. /\ call' \in [Calls -> Call \cup {None}] /\ \A d \in Calls \ {c} : call'[d] = call[d]
        /\ call'[c] # None => call'[c].q = call[c].q /\ call'[c].at = "write"
    <3>1. Goto(c, "write") \/ End(c)
      BY <1>7 DEF Find
    <3>. QED
      BY <2>1, <3>1 DEF IInv, TypeOK, End, Goto, Call, Steps
  <2>. QED
    BY <2>1, <2>2, CallStep DEF Resolving
<1>8. ASSUME NEW c \in Calls, Create(c) PROVE IInv'
  <2> DEFINE s == IF call[c].q.op = "boot" THEN Default ELSE call[c].q.slug
  <2>1. call[c] # None /\ s \in Slugs /\ End(c) /\ UNCHANGED <<mode, age, cached, late>>
    BY <1>8, Facts DEF IInv, Create, At, slugs
  <2>2. CASE ~Free(s)
    <3>1. Kept
      BY <1>8, <2>1, <2>2 DEF Create, Kept
    <3>2. call' \in [Calls -> Call \cup {None}] /\ call'[c] = None
          /\ \A d \in Calls \ {c} : call'[d] = call[d]
      BY <2>1 DEF IInv, TypeOK, End
    <3>. QED
      BY <3>1, <3>2, CallStep
  <2>3. CASE Free(s)
    <3>1. PICK t \in Tenants : /\ tenant[t] = "new"
                               /\ tenant' = [tenant EXCEPT ![t] = "active"]
                               /\ slug' = [slug EXCEPT ![t] = s]
      BY <1>8, <2>3 DEF Create
    <3>2. /\ slug[t] = None /\ slug'[t] = s /\ tenant'[t] = "active"
          /\ \A u \in Tenants \ {t} : tenant'[u] = tenant[u] /\ slug'[u] = slug[u]
      BY <3>1 DEF IInv, TypeOK
    <3>3. TypeOK'
      BY <2>1, <3>1, <3>2, Facts DEF IInv, TypeOK, End
    <3>4. \A d \in Calls : call'[d] # None => d # c /\ call'[d] = call[d]
      BY <2>1 DEF IInv, TypeOK, End
    <3>5. \A d \in Calls : call'[d] # None => call'[d].q \in Requests /\ Resolving(d)'
      BY <3>2, <3>4, Facts DEF IInv, Resolving
    <3>6. Unique'
      BY <2>3, <3>2 DEF IInv, Unique, Exists, Free, Owners
    <3>7. Ages'
      BY <2>1, <3>1, <3>2 DEF IInv, Ages
    <3>8. Entries'
      BY <2>1, <3>2, Facts DEF IInv, TypeOK, Entries
    <3>. QED
      BY <3>3, <3>5, <3>6, <3>7, <3>8 DEF IInv
  <2>. QED
    BY <2>2, <2>3
<1>9. ASSUME NEW c \in Calls, Remove(c) PROVE IInv'
  <2> DEFINE t == call[c].q.header
  <2>1. call[c] # None /\ End(c) /\ UNCHANGED <<mode, slug, age, cached, late>>
    BY <1>9 DEF Remove, At, slugs
  <2>2. call' \in [Calls -> Call \cup {None}] /\ call'[c] = None
        /\ \A d \in Calls \ {c} : call'[d] = call[d]
    BY <2>1 DEF IInv, TypeOK, End
  <2>3. /\ tenant' \in [Tenants -> {"new", "active", "inactive", "gone"}]
        /\ \A u \in Tenants : tenant'[u] = tenant[u] \/ (tenant[u] \in {"active", "inactive"} /\ tenant'[u] \in {"inactive", "gone"})
    BY <1>9 DEF Remove, Exists, IInv, TypeOK
  <2>4. TypeOK'
    BY <2>1, <2>2, <2>3 DEF IInv, TypeOK
  <2>5. \A d \in Calls : call'[d] # None => call'[d].q \in Requests /\ Resolving(d)'
    BY <2>1, <2>2 DEF IInv, Resolving
  <2>6. Unique'
    BY <2>1, <2>3 DEF IInv, Unique, Exists
  <2>7. Ages'
    BY <2>1, <2>3 DEF IInv, Ages
  <2>8. Entries'
    <3> SUFFICES ASSUME NEW s \in Slugs, cached[s] # None
        PROVE /\ slug[cached[s].id] = s
              /\ tenant'[cached[s].id] # "active" => s \in late \/ cached[s].left + age[cached[s].id] <= Ttl
      BY <2>1 DEF Entries
    <3>1. cached[s].id \in Tenants /\ cached[s].left \in 1..Ttl
      BY DEF IInv, TypeOK
    <3>2. CASE tenant[cached[s].id] = "active"
      BY <3>1, <3>2, Facts DEF IInv, Entries, Ages
    <3>3. CASE tenant[cached[s].id] # "active"
      BY <3>3 DEF IInv, Entries
    <3>. QED
      BY <3>2, <3>3
  <2>. QED
    BY <2>4, <2>5, <2>6, <2>7, <2>8 DEF IInv
<1>10. CASE Tick
  <2>1. UNCHANGED <<mode, tenant, slug, call>>
    BY <1>10 DEF Tick
  <2>2. /\ cached' \in [Slugs -> [id : Tenants, left : 1..Ttl] \cup {None}]
        /\ \A s \in Slugs : cached'[s] # None =>
             /\ cached[s] # None /\ cached'[s].id = cached[s].id /\ cached'[s].id \in Tenants
             /\ cached[s].left \in 1..Ttl /\ cached'[s].left = cached[s].left - 1
    BY <1>10, Facts DEF Tick, IInv, TypeOK
  <2>3. /\ age' \in [Tenants -> 0..Ttl]
        /\ \A t \in Tenants : age'[t] <= age[t] + 1
        /\ \A t \in Tenants : tenant[t] \in {"new", "active"} => age'[t] = age[t]
    BY <1>10, Facts DEF Tick, IInv, TypeOK
  <2>4. late' \subseteq Slugs /\ \A s \in Slugs : s \in late /\ cached'[s] # None => s \in late'
    BY <1>10 DEF Tick, IInv, TypeOK
  <2>5. TypeOK'
    BY <2>1, <2>2, <2>3, <2>4 DEF IInv, TypeOK
  <2>6. \A d \in Calls : call'[d] # None => call'[d].q \in Requests /\ Resolving(d)'
    BY <2>1 DEF IInv, Resolving
  <2>7. Unique' /\ Ages'
    BY <2>1, <2>3 DEF IInv, Unique, Ages, Exists
  <2>8. Entries'
    <3> SUFFICES ASSUME NEW s \in Slugs, cached'[s] # None
        PROVE /\ slug'[cached'[s].id] = s
              /\ tenant'[cached'[s].id] # "active" => s \in late' \/ cached'[s].left + age'[cached'[s].id] <= Ttl
      BY DEF Entries
    <3> DEFINE t == cached[s].id
    <3>1. t \in Tenants /\ cached'[s].id = t /\ cached[s] # None
      BY <2>2
    <3>2. /\ cached[s].left \in Nat /\ cached'[s].left = cached[s].left - 1
          /\ age[t] \in Nat /\ age'[t] \in Nat /\ age'[t] <= age[t] + 1 /\ Ttl \in Nat
      BY <2>2, <2>3, <3>1, Facts DEF IInv, TypeOK
    <3>3. /\ slug[t] = s
          /\ tenant[t] # "active" => s \in late \/ cached[s].left + age[t] <= Ttl
      BY <3>1 DEF IInv, Entries
    <3>4. CASE tenant[t] # "active" /\ s \notin late
      BY <2>1, <3>1, <3>2, <3>3, <3>4
    <3>5. CASE tenant[t] = "active" \/ s \in late
      BY <2>1, <2>4, <3>1, <3>3, <3>5
    <3>. QED
      BY <3>4, <3>5
  <2>. QED
    BY <2>5, <2>6, <2>7, <2>8 DEF IInv
<1>11. CASE UNCHANGED vars
  BY <1>11 DEF vars, rows, slugs, IInv, TypeOK, Resolving, Unique, Ages, Entries, Exists
<1>. QED
  BY <1>1, <1>2, <1>3, <1>4, <1>5, <1>6, <1>7, <1>8, <1>9, <1>10, <1>11 DEF Next, Proceed

LEMMA Invariance == Spec => []IInv
<1>1. IInv /\ [Next]_vars => IInv'
  BY StepInv
<1>. QED
  BY InitInv, <1>1, PTL DEF Spec

(* Variables keep their types, and a tenant has a slug from its creation on. *)
THEOREM TypeCorrect == Spec => []TypeOK
<1>1. IInv => TypeOK
  BY DEF IInv
<1>. QED
  BY <1>1, Invariance, PTL

(* A slug has one tenant, however many creations, removals and starting
   instances overlap (tenancy.service 43-50, 126-134). *)
THEOREM SlugsUnique == Spec => []OneOwner
<1>1. IInv => OneOwner
  <2> SUFFICES ASSUME IInv, NEW s \in Slugs PROVE Cardinality(Owners(s)) <= 1
    BY DEF OneOwner
  <2>1. CASE Owners(s) = {}
    BY <2>1, FS_EmptySet
  <2>2. CASE Owners(s) # {}
    <3>1. PICK t : t \in Owners(s)
      BY <2>2
    <3>2. Owners(s) = {t}
      BY <3>1 DEF IInv, Unique, Owners
    <3>3. Cardinality({t}) = 1
      BY FS_Singleton
    <3>. QED
      BY <3>2, <3>3
  <2>. QED
    BY <2>1, <2>2
<1>. QED
  BY <1>1, Invariance, PTL

(* A slug resolves to a tenant that has had it, and to a removed one for Ttl
   after its removal at most, late entries aside (tenancy.service 102-123). *)
THEOREM StaleEntriesEnd == Spec => []StaleWhileTtl
<1>1. IInv => StaleWhileTtl
  BY DEF IInv, Entries, StaleWhileTtl
<1>. QED
  BY <1>1, Invariance, PTL
=============================================================================

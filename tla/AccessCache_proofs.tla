-------------------------- MODULE AccessCache_proofs --------------------------
(* Proofs about AccessCache, for any tenants, users, requests and bounds.

   Explained entries (StaleExplained) are inductive with the types.  For the
   answers, Promised says what a waiting request may count on: its floor is not
   ahead of the database, a request refused then would be refused now, and an
   entry that would answer it wrongly is one of the excused. *)
EXTENDS AccessCache, TLAPS

Promised ==
  \A r \in Readers :
    /\ rpc[r] = "idle" => r \notin denied
    /\ rpc[r] # "idle" => /\ floor[r] <= roles[rkey[r]]
                          /\ r \in denied => ~Active(rkey[r])
    /\ rpc[r] = "get" /\ Cached(rkey[r]) /\ (cache[rkey[r]] < floor[r] \/ r \in denied)
         => rkey[r] \in raced \cup missed
    /\ rpc[r] \in {"roles", "set"} => r \notin denied
    /\ rpc[r] = "set" => rseen[r] >= floor[r]
    /\ verdict[r] # "wrong"

IInv == TypeOK /\ StaleExplained /\ Promised

LEMMA VersionFacts ==
  /\ MaxVersion \in Nat /\ 0 \in Version
  /\ \A n \in Version : n \in Nat /\ n <= MaxVersion /\ n # None
  /\ \A n \in Version : n < MaxVersion => n + 1 \in Version
BY BoundsAssumption, NoneAssumption DEF Version

LEMMA KeyFacts ==
  /\ None \notin Key
  /\ \A k \in Key : k[1] \in Tenants /\ k[2] \in Users
BY NoneAssumption DEF Key

LEMMA Type_Request ==
  ASSUME TypeOK, NEW r \in Readers, NEW k \in Key, Request(r, k)
  PROVE  TypeOK'
BY VersionFacts, KeyFacts DEF TypeOK, Request, db, readers, writers, asked, blame

LEMMA Type_Hit ==
  ASSUME TypeOK, NEW r \in Readers, Hit(r)
  PROVE  TypeOK'
BY VersionFacts, KeyFacts DEF TypeOK, Hit, Answer, Leave, db, readers, writers, asked, blame

LEMMA Type_Miss ==
  ASSUME TypeOK, NEW r \in Readers, Miss(r)
  PROVE  TypeOK'
BY VersionFacts, KeyFacts DEF TypeOK, Miss, RGoto, db, readers, writers, asked, blame

LEMMA Type_CheckMembership ==
  ASSUME TypeOK, NEW r \in Readers, CheckMembership(r)
  PROVE  TypeOK'
BY VersionFacts, KeyFacts DEF TypeOK, CheckMembership, RGoto, db, readers, writers, asked, blame

LEMMA Type_ReadRoles ==
  ASSUME TypeOK, NEW r \in Readers, ReadRoles(r)
  PROVE  TypeOK'
BY VersionFacts, KeyFacts DEF TypeOK, ReadRoles, db, readers, writers, asked, blame

LEMMA Type_Fill ==
  ASSUME TypeOK, NEW r \in Readers, Fill(r)
  PROVE  TypeOK'
BY VersionFacts, KeyFacts DEF TypeOK, Fill, Answer, Leave, db, readers, writers, asked, blame

LEMMA Type_FailRequest ==
  ASSUME TypeOK, NEW r \in Readers, FailRequest(r)
  PROVE  TypeOK'
BY VersionFacts, KeyFacts DEF TypeOK, FailRequest, Leave, db, readers, writers, asked, blame

LEMMA Type_FindMember ==
  ASSUME TypeOK, NEW w \in Writers, NEW k \in Key, FindMember(w, k)
  PROVE  TypeOK'
BY VersionFacts, KeyFacts DEF TypeOK, FindMember, db, readers, writers, asked, blame

LEMMA Type_setRoles ==
  ASSUME TypeOK, NEW w \in Writers, setRoles(w)
  PROVE  TypeOK'
BY VersionFacts, KeyFacts DEF TypeOK, setRoles, Bump, OweKeys, db, readers, writers, asked, blame

LEMMA Type_updateUser ==
  ASSUME TypeOK, NEW w \in Writers, updateUser(w)
  PROVE  TypeOK'
<1>1. OfUser(wkey[w][2]) \subseteq Key
  BY DEF OfUser
<1>. QED
  BY <1>1, VersionFacts, KeyFacts DEF TypeOK, updateUser, OweScan, db, readers, asked, blame

LEMMA Type_removeMember ==
  ASSUME TypeOK, NEW w \in Writers, removeMember(w)
  PROVE  TypeOK'
<1>1. wkey[w] \in Key /\ {wkey[w]} \subseteq Key /\ todo[w] = {}
  BY DEF TypeOK, removeMember
<1>2. member' \in [Key -> {"active", "inactive", "none"}]
  BY <1>1 DEF TypeOK, removeMember
<1>3. /\ wkey' = [wkey EXCEPT ![w] = None]
      /\ batch' = [batch EXCEPT ![w] = {wkey[w]}]
      /\ UNCHANGED todo
      /\ wpc' = [wpc EXCEPT ![w] = "del"] \/ wpc' = [wpc EXCEPT ![w] = "count"]
  BY DEF removeMember, OweKeys
<1>4. CASE wpc' = [wpc EXCEPT ![w] = "del"]
  BY <1>1, <1>2, <1>3, <1>4 DEF TypeOK, removeMember, readers, asked, blame
<1>5. CASE wpc' = [wpc EXCEPT ![w] = "count"]
  BY <1>1, <1>2, <1>3, <1>5 DEF TypeOK, removeMember, readers, asked, blame
<1>. QED
  BY <1>3, <1>4, <1>5

LEMMA Type_Refuse ==
  ASSUME TypeOK, NEW w \in Writers, Refuse(w)
  PROVE  TypeOK'
BY VersionFacts, KeyFacts DEF TypeOK, Refuse, db, readers, writers, asked, blame

LEMMA Type_changeTenantRole ==
  ASSUME TypeOK, NEW w \in Writers, NEW t \in Tenants, NEW S \in SUBSET Key, changeTenantRole(w, t, S)
  PROVE  TypeOK'
<1>1. OfTenant(t) \subseteq Key
  BY DEF OfTenant
<1>2. roles' \in [Key -> Version]
  BY <1>1, VersionFacts DEF TypeOK, changeTenantRole, Bump
<1>. QED
  BY <1>1, <1>2, KeyFacts DEF TypeOK, changeTenantRole, OweScan, readers, asked, blame

LEMMA Type_changeGlobalRole ==
  ASSUME TypeOK, NEW w \in Writers, NEW S \in SUBSET Key, changeGlobalRole(w, S)
  PROVE  TypeOK'
BY VersionFacts, KeyFacts DEF TypeOK, changeGlobalRole, Bump, OweScan, db, readers, writers, asked, blame

LEMMA Type_CountMemberships ==
  ASSUME TypeOK, NEW w \in Writers, CountMemberships(w)
  PROVE  TypeOK'
BY VersionFacts, KeyFacts DEF TypeOK, CountMemberships, db, readers, writers, asked, blame

LEMMA Type_DropUser ==
  ASSUME TypeOK, NEW w \in Writers, DropUser(w)
  PROVE  TypeOK'
BY VersionFacts, KeyFacts DEF TypeOK, DropUser, db, readers, writers, asked, blame

LEMMA Type_ScanPage ==
  ASSUME TypeOK, NEW w \in Writers, ScanPage(w)
  PROVE  TypeOK'
BY VersionFacts, KeyFacts DEF TypeOK, ScanPage, db, readers, writers, asked, blame

LEMMA Type_DeleteBatch ==
  ASSUME TypeOK, NEW w \in Writers, DeleteBatch(w)
  PROVE  TypeOK'
BY VersionFacts, KeyFacts DEF TypeOK, DeleteBatch, Forget, db, readers, writers, asked, blame

LEMMA Type_FailInvalidation ==
  ASSUME TypeOK, NEW w \in Writers, FailInvalidation(w)
  PROVE  TypeOK'
BY VersionFacts, KeyFacts DEF TypeOK, FailInvalidation, db, readers, writers, asked, blame

LEMMA Type_createUser ==
  ASSUME TypeOK, NEW k \in Key, createUser(k)
  PROVE  TypeOK'
BY VersionFacts, KeyFacts DEF TypeOK, createUser, Bump, db, readers, writers, asked, blame

LEMMA Type_Expire ==
  ASSUME TypeOK, NEW k \in Key, Expire(k)
  PROVE  TypeOK'
BY VersionFacts, KeyFacts DEF TypeOK, Expire, Forget, db, readers, writers, asked, blame

LEMMA Type_removeTenant ==
  ASSUME TypeOK, NEW t \in Tenants, removeTenant(t)
  PROVE  TypeOK'
<1>1. OfTenant(t) \subseteq Key
  BY DEF OfTenant
<1>2. /\ tenant' \in [Tenants -> {"active", "inactive", "deleted"}]
      /\ member' \in [Key -> {"active", "inactive", "none"}]
  BY DEF TypeOK, removeTenant
<1>. QED
  BY <1>1, <1>2 DEF TypeOK, removeTenant, readers, writers, asked

LEMMA Stale_Request ==
  ASSUME TypeOK, StaleExplained, NEW r \in Readers, NEW k \in Key, Request(r, k)
  PROVE  StaleExplained'
BY VersionFacts, KeyFacts DEF TypeOK, StaleExplained, Outdated, Cached, Owed, Active, Request, db, readers, writers, asked, blame

LEMMA Stale_Hit ==
  ASSUME TypeOK, StaleExplained, NEW r \in Readers, Hit(r)
  PROVE  StaleExplained'
BY VersionFacts, KeyFacts DEF TypeOK, StaleExplained, Outdated, Cached, Owed, Active, Hit, Answer, Leave, db, readers, writers, asked, blame

LEMMA Stale_Miss ==
  ASSUME TypeOK, StaleExplained, NEW r \in Readers, Miss(r)
  PROVE  StaleExplained'
BY VersionFacts, KeyFacts DEF TypeOK, StaleExplained, Outdated, Cached, Owed, Active, Miss, RGoto, db, readers, writers, asked, blame

LEMMA Stale_CheckMembership ==
  ASSUME TypeOK, StaleExplained, NEW r \in Readers, CheckMembership(r)
  PROVE  StaleExplained'
BY VersionFacts, KeyFacts DEF TypeOK, StaleExplained, Outdated, Cached, Owed, Active, CheckMembership, RGoto, db, readers, writers, asked, blame

LEMMA Stale_ReadRoles ==
  ASSUME TypeOK, StaleExplained, NEW r \in Readers, ReadRoles(r)
  PROVE  StaleExplained'
BY VersionFacts, KeyFacts DEF TypeOK, StaleExplained, Outdated, Cached, Owed, Active, ReadRoles, db, readers, writers, asked, blame

LEMMA Stale_Fill ==
  ASSUME TypeOK, StaleExplained, NEW r \in Readers, Fill(r)
  PROVE  StaleExplained'
BY VersionFacts, KeyFacts DEF TypeOK, StaleExplained, Outdated, Cached, Owed, Active, Fill, Answer, Leave, db, readers, writers, asked, blame

LEMMA Stale_FailRequest ==
  ASSUME TypeOK, StaleExplained, NEW r \in Readers, FailRequest(r)
  PROVE  StaleExplained'
BY VersionFacts, KeyFacts DEF TypeOK, StaleExplained, Outdated, Cached, Owed, Active, FailRequest, Leave, db, readers, writers, asked, blame

LEMMA Stale_FindMember ==
  ASSUME TypeOK, StaleExplained, NEW w \in Writers, NEW k \in Key, FindMember(w, k)
  PROVE  StaleExplained'
BY VersionFacts, KeyFacts DEF TypeOK, StaleExplained, Outdated, Cached, Owed, Active, FindMember, db, readers, writers, asked, blame

LEMMA Stale_setRoles ==
  ASSUME TypeOK, StaleExplained, NEW w \in Writers, setRoles(w)
  PROVE  StaleExplained'
BY VersionFacts, KeyFacts DEF TypeOK, StaleExplained, Outdated, Cached, Owed, Active, setRoles, Bump, OweKeys, db, readers, writers, asked, blame

LEMMA Stale_updateUser ==
  ASSUME TypeOK, StaleExplained, NEW w \in Writers, updateUser(w)
  PROVE  StaleExplained'
BY VersionFacts, KeyFacts DEF TypeOK, StaleExplained, Outdated, Cached, Owed, Active, updateUser, OweScan, db, readers, writers, asked, blame

LEMMA Stale_removeMember ==
  ASSUME TypeOK, StaleExplained, NEW w \in Writers, removeMember(w)
  PROVE  StaleExplained'
<1>1. wkey[w] \in Key /\ todo[w] = {} /\ batch[w] = {}
  BY DEF TypeOK, removeMember
<1>2. batch' = [batch EXCEPT ![w] = {wkey[w]}] /\ UNCHANGED <<roles, tenant, cache, todo, raced, missed>>
  BY DEF removeMember, OweKeys, blame
<1>3. \A k \in Key : k # wkey[w] => member'[k] = member[k]
  BY <1>1 DEF TypeOK, removeMember
<1>4. \A k \in Key : Owed(k) \/ k = wkey[w] => Owed(k)'
  BY <1>1, <1>2 DEF TypeOK, Owed
<1>5. \A k \in Key : k # wkey[w] /\ Outdated(k)' => Outdated(k)
  BY <1>2, <1>3 DEF Outdated, Cached, Active
<1>. QED
  BY <1>2, <1>4, <1>5 DEF StaleExplained

LEMMA Stale_Refuse ==
  ASSUME TypeOK, StaleExplained, NEW w \in Writers, Refuse(w)
  PROVE  StaleExplained'
BY VersionFacts, KeyFacts DEF TypeOK, StaleExplained, Outdated, Cached, Owed, Active, Refuse, db, readers, writers, asked, blame

LEMMA Stale_changeTenantRole ==
  ASSUME TypeOK, StaleExplained, NEW w \in Writers, NEW t \in Tenants, NEW S \in SUBSET Key, changeTenantRole(w, t, S)
  PROVE  StaleExplained'
BY VersionFacts, KeyFacts DEF TypeOK, StaleExplained, Outdated, Cached, Owed, Active, changeTenantRole, Bump, OweScan, db, readers, writers, asked, blame

LEMMA Stale_changeGlobalRole ==
  ASSUME TypeOK, StaleExplained, NEW w \in Writers, NEW S \in SUBSET Key, changeGlobalRole(w, S)
  PROVE  StaleExplained'
BY VersionFacts, KeyFacts DEF TypeOK, StaleExplained, Outdated, Cached, Owed, Active, changeGlobalRole, Bump, OweScan, db, readers, writers, asked, blame

LEMMA Stale_CountMemberships ==
  ASSUME TypeOK, StaleExplained, NEW w \in Writers, CountMemberships(w)
  PROVE  StaleExplained'
BY VersionFacts, KeyFacts DEF TypeOK, StaleExplained, Outdated, Cached, Owed, Active, CountMemberships, db, readers, writers, asked, blame

LEMMA Stale_DropUser ==
  ASSUME TypeOK, StaleExplained, NEW w \in Writers, DropUser(w)
  PROVE  StaleExplained'
BY VersionFacts, KeyFacts DEF TypeOK, StaleExplained, Outdated, Cached, Owed, Active, DropUser, db, readers, writers, asked, blame

LEMMA Stale_ScanPage ==
  ASSUME TypeOK, StaleExplained, NEW w \in Writers, ScanPage(w)
  PROVE  StaleExplained'
BY VersionFacts, KeyFacts DEF TypeOK, StaleExplained, Outdated, Cached, Owed, Active, ScanPage, db, readers, writers, asked, blame

LEMMA Stale_DeleteBatch ==
  ASSUME TypeOK, StaleExplained, NEW w \in Writers, DeleteBatch(w)
  PROVE  StaleExplained'
BY VersionFacts, KeyFacts DEF TypeOK, StaleExplained, Outdated, Cached, Owed, Active, DeleteBatch, Forget, db, readers, writers, asked, blame

LEMMA Stale_FailInvalidation ==
  ASSUME TypeOK, StaleExplained, NEW w \in Writers, FailInvalidation(w)
  PROVE  StaleExplained'
BY VersionFacts, KeyFacts DEF TypeOK, StaleExplained, Outdated, Cached, Owed, Active, FailInvalidation, db, readers, writers, asked, blame

LEMMA Stale_createUser ==
  ASSUME TypeOK, StaleExplained, NEW k \in Key, createUser(k)
  PROVE  StaleExplained'
BY VersionFacts, KeyFacts DEF TypeOK, StaleExplained, Outdated, Cached, Owed, Active, createUser, Bump, db, readers, writers, asked, blame

LEMMA Stale_Expire ==
  ASSUME TypeOK, StaleExplained, NEW k \in Key, Expire(k)
  PROVE  StaleExplained'
BY VersionFacts, KeyFacts DEF TypeOK, StaleExplained, Outdated, Cached, Owed, Active, Expire, Forget, db, readers, writers, asked, blame

LEMMA Stale_removeTenant ==
  ASSUME TypeOK, StaleExplained, NEW t \in Tenants, removeTenant(t)
  PROVE  StaleExplained'
<1>1. /\ missed' = missed \cup {k \in OfTenant(t) : Cached(k)}
      /\ UNCHANGED <<roles, cache, writers, raced>>
  BY DEF removeTenant
<1>2. \A k \in Key : k[1] # t => member'[k] = member[k] /\ tenant'[k[1]] = tenant[k[1]]
  BY KeyFacts DEF TypeOK, removeTenant
<1>3. \A k \in Key : Owed(k)' = Owed(k)
  BY <1>1 DEF Owed, writers
<1>4. ASSUME NEW k \in Key, Outdated(k)' PROVE (Owed(k) \/ k \in raced \cup missed)'
  <2>1. CASE k[1] = t
    BY <1>1, <1>4, <2>1 DEF Outdated, Cached, OfTenant
  <2>2. CASE k[1] # t
    <3>1. Outdated(k)
      BY <1>1, <1>2, <1>4, <2>2 DEF Outdated, Cached, Active
    <3>. QED
      BY <3>1, <1>1, <1>3 DEF StaleExplained
  <2>. QED
    BY <2>1, <2>2
<1>. QED
  BY <1>4 DEF StaleExplained

LEMMA Promise_Request ==
  ASSUME IInv, TypeOK', NEW r \in Readers, NEW k \in Key, Request(r, k)
  PROVE  Promised'
<1>1. /\ rpc' = [rpc EXCEPT ![r] = "get"] /\ rkey' = [rkey EXCEPT ![r] = k]
      /\ floor' = [floor EXCEPT ![r] = IF Owed(k) THEN 0 ELSE roles[k]]
      /\ verdict' = [verdict EXCEPT ![r] = "none"]
      /\ UNCHANGED <<roles, member, tenant, cache, rseen, raced, missed>>
      /\ rpc[r] = "idle"
  BY DEF Request, db, blame
<1>2. r \in denied' <=> ~Owed(k) /\ ~Active(k)
  BY DEF Request, IInv, Promised
<1>3. \A s \in Readers \ {r} : s \in denied' <=> s \in denied
  BY DEF Request
<1>4. floor'[r] <= roles[k] /\ floor'[r] \in Nat
  BY <1>1, VersionFacts DEF IInv, TypeOK
<1>5. Cached(k) /\ (cache[k] < floor'[r] \/ r \in denied') => k \in raced \cup missed
  <2>1. CASE Owed(k)
    BY <1>1, <1>2, <2>1, VersionFacts DEF IInv, TypeOK, Cached
  <2>2. CASE ~Owed(k)
    <3>1. Cached(k) /\ (cache[k] < floor'[r] \/ r \in denied') => Outdated(k)
      BY <1>1, <1>2, <2>2, VersionFacts DEF IInv, TypeOK, Outdated, Cached
    <3>. QED
      BY <2>2, <3>1 DEF IInv, StaleExplained
  <2>. QED
    BY <2>1, <2>2
<1>6. \A j \in Key : Active(j)' = Active(j) /\ Cached(j)' = Cached(j)
  BY <1>1 DEF Active, Cached
<1>. SUFFICES ASSUME NEW s \in Readers
     PROVE  (/\ rpc[s] = "idle" => s \notin denied
             /\ rpc[s] # "idle" => /\ floor[s] <= roles[rkey[s]]
                                   /\ s \in denied => ~Active(rkey[s])
             /\ rpc[s] = "get" /\ Cached(rkey[s]) /\ (cache[rkey[s]] < floor[s] \/ s \in denied)
                  => rkey[s] \in raced \cup missed
             /\ rpc[s] \in {"roles", "set"} => s \notin denied
             /\ rpc[s] = "set" => rseen[s] >= floor[s]
             /\ verdict[s] # "wrong")'
  BY DEF Promised
<1>7. CASE s = r
  <2>1. rpc'[r] = "get" /\ rkey'[r] = k /\ verdict'[r] = "none"
    BY <1>1 DEF IInv, TypeOK
  <2>. QED
    BY <1>1, <1>2, <1>4, <1>5, <1>6, <1>7, <2>1
<1>8. CASE s # r
  <2>1. /\ rpc'[s] = rpc[s] /\ rkey'[s] = rkey[s] /\ floor'[s] = floor[s]
        /\ verdict'[s] = verdict[s] /\ rseen'[s] = rseen[s] /\ (s \in denied' <=> s \in denied)
    BY <1>1, <1>3, <1>8 DEF IInv, TypeOK
  <2>2. rpc[s] # "idle" => rkey[s] \in Key
    BY DEF IInv, TypeOK
  <2>. QED
    BY <1>1, <1>6, <2>1, <2>2 DEF IInv, Promised
<1>. QED
  BY <1>7, <1>8

LEMMA Promise_Hit ==
  ASSUME IInv, TypeOK', NEW r \in Readers, Hit(r)
  PROVE  Promised'
BY VersionFacts, KeyFacts DEF IInv, TypeOK, Promised, Cached, Active, Hit, Answer, Leave, db, readers, writers, asked, blame

LEMMA Promise_Miss ==
  ASSUME IInv, TypeOK', NEW r \in Readers, Miss(r)
  PROVE  Promised'
BY VersionFacts, KeyFacts DEF IInv, TypeOK, Promised, Cached, Active, Miss, RGoto, db, readers, writers, asked, blame

LEMMA Promise_CheckMembership ==
  ASSUME IInv, TypeOK', NEW r \in Readers, CheckMembership(r)
  PROVE  Promised'
BY VersionFacts, KeyFacts DEF IInv, TypeOK, Promised, Cached, Active, CheckMembership, RGoto, db, readers, writers, asked, blame

LEMMA Promise_ReadRoles ==
  ASSUME IInv, TypeOK', NEW r \in Readers, ReadRoles(r)
  PROVE  Promised'
BY VersionFacts, KeyFacts DEF IInv, TypeOK, Promised, Cached, Active, ReadRoles, db, readers, writers, asked, blame

LEMMA Promise_Fill ==
  ASSUME IInv, TypeOK', NEW r \in Readers, Fill(r)
  PROVE  Promised'
BY VersionFacts, KeyFacts DEF IInv, TypeOK, Promised, Cached, Active, Fill, Answer, Leave, db, readers, writers, asked, blame

LEMMA Promise_FailRequest ==
  ASSUME IInv, TypeOK', NEW r \in Readers, FailRequest(r)
  PROVE  Promised'
BY VersionFacts, KeyFacts DEF IInv, TypeOK, Promised, Cached, Active, FailRequest, Leave, db, readers, writers, asked, blame

LEMMA Promise_FindMember ==
  ASSUME IInv, TypeOK', NEW w \in Writers, NEW k \in Key, FindMember(w, k)
  PROVE  Promised'
BY VersionFacts, KeyFacts DEF IInv, TypeOK, Promised, Cached, Active, FindMember, db, readers, writers, asked, blame

LEMMA Promise_setRoles ==
  ASSUME IInv, TypeOK', NEW w \in Writers, setRoles(w)
  PROVE  Promised'
BY VersionFacts, KeyFacts DEF IInv, TypeOK, Promised, Cached, Active, setRoles, Bump, OweKeys, db, readers, writers, asked, blame

LEMMA Promise_updateUser ==
  ASSUME IInv, TypeOK', NEW w \in Writers, updateUser(w)
  PROVE  Promised'
BY VersionFacts, KeyFacts DEF IInv, TypeOK, Promised, Cached, Active, updateUser, OweScan, db, readers, writers, asked, blame

LEMMA Promise_removeMember ==
  ASSUME IInv, TypeOK', NEW w \in Writers, removeMember(w)
  PROVE  Promised'
BY VersionFacts, KeyFacts DEF IInv, TypeOK, Promised, Cached, Active, removeMember, OweKeys, db, readers, writers, asked, blame

LEMMA Promise_Refuse ==
  ASSUME IInv, TypeOK', NEW w \in Writers, Refuse(w)
  PROVE  Promised'
BY VersionFacts, KeyFacts DEF IInv, TypeOK, Promised, Cached, Active, Refuse, db, readers, writers, asked, blame

LEMMA Promise_changeTenantRole ==
  ASSUME IInv, TypeOK', NEW w \in Writers, NEW t \in Tenants, NEW S \in SUBSET Key, changeTenantRole(w, t, S)
  PROVE  Promised'
BY VersionFacts, KeyFacts DEF IInv, TypeOK, Promised, Cached, Active, changeTenantRole, Bump, OweScan, db, readers, writers, asked, blame

LEMMA Promise_changeGlobalRole ==
  ASSUME IInv, TypeOK', NEW w \in Writers, NEW S \in SUBSET Key, changeGlobalRole(w, S)
  PROVE  Promised'
BY VersionFacts, KeyFacts DEF IInv, TypeOK, Promised, Cached, Active, changeGlobalRole, Bump, OweScan, db, readers, writers, asked, blame

LEMMA Promise_CountMemberships ==
  ASSUME IInv, TypeOK', NEW w \in Writers, CountMemberships(w)
  PROVE  Promised'
BY VersionFacts, KeyFacts DEF IInv, TypeOK, Promised, Cached, Active, CountMemberships, db, readers, writers, asked, blame

LEMMA Promise_DropUser ==
  ASSUME IInv, TypeOK', NEW w \in Writers, DropUser(w)
  PROVE  Promised'
BY VersionFacts, KeyFacts DEF IInv, TypeOK, Promised, Cached, Active, DropUser, db, readers, writers, asked, blame

LEMMA Promise_ScanPage ==
  ASSUME IInv, TypeOK', NEW w \in Writers, ScanPage(w)
  PROVE  Promised'
BY VersionFacts, KeyFacts DEF IInv, TypeOK, Promised, Cached, Active, ScanPage, db, readers, writers, asked, blame

LEMMA Promise_DeleteBatch ==
  ASSUME IInv, TypeOK', NEW w \in Writers, DeleteBatch(w)
  PROVE  Promised'
BY VersionFacts, KeyFacts DEF IInv, TypeOK, Promised, Cached, Active, DeleteBatch, Forget, db, readers, writers, asked, blame

LEMMA Promise_FailInvalidation ==
  ASSUME IInv, TypeOK', NEW w \in Writers, FailInvalidation(w)
  PROVE  Promised'
BY VersionFacts, KeyFacts DEF IInv, TypeOK, Promised, Cached, Active, FailInvalidation, db, readers, writers, asked, blame

LEMMA Promise_createUser ==
  ASSUME IInv, TypeOK', NEW k \in Key, createUser(k)
  PROVE  Promised'
<1>1. /\ UNCHANGED <<tenant, cache, rpc, rkey, rseen, floor, verdict, raced>>
      /\ missed \subseteq missed'
      /\ \A j \in Key : roles[j] <= roles'[j]
      /\ \A j \in Key : j # k => member'[j] = member[j]
      /\ denied' = {s \in denied : rkey[s] # k}
  <2>1. \A j \in Key : roles[j] <= roles'[j]
    <3>1. \A j \in Key : roles[j] \in Nat
      BY VersionFacts DEF IInv, TypeOK
    <3>2. roles' = [j \in Key |-> IF j \in {k} THEN roles[j] + 1 ELSE roles[j]]
      BY DEF createUser, Bump
    <3>. QED
      BY <3>1, <3>2
  <2>2. \A j \in Key : j # k => member'[j] = member[j]
    BY DEF IInv, TypeOK, createUser
  <2>. QED
    BY <2>1, <2>2 DEF createUser, readers
<1>2. \A j \in Key : roles[j] \in Nat /\ roles'[j] \in Nat
  BY VersionFacts DEF IInv, TypeOK
<1>3. \A s \in Readers : floor[s] \in Nat /\ rseen[s] \in Nat /\ (rpc[s] # "idle" => rkey[s] \in Key)
  BY VersionFacts DEF IInv, TypeOK
<1>4. \A j \in Key : j # k => Active(j)' = Active(j)
  BY <1>1 DEF Active
<1>5. \A j \in Key : Cached(j)' = Cached(j)
  BY <1>1 DEF Cached
<1>. QED
  BY <1>1, <1>2, <1>3, <1>4, <1>5 DEF IInv, Promised

LEMMA Promise_Expire ==
  ASSUME IInv, TypeOK', NEW k \in Key, Expire(k)
  PROVE  Promised'
BY VersionFacts, KeyFacts DEF IInv, TypeOK, Promised, Cached, Active, Expire, Forget, db, readers, writers, asked, blame

LEMMA Promise_removeTenant ==
  ASSUME IInv, TypeOK', NEW t \in Tenants, removeTenant(t)
  PROVE  Promised'
BY VersionFacts, KeyFacts DEF IInv, TypeOK, Promised, Cached, Active, removeTenant, db, readers, writers, asked, blame

LEMMA InitInv == Init => IInv
<1> SUFFICES ASSUME Init PROVE IInv
  OBVIOUS
<1>1. TypeOK
  BY VersionFacts, KeyFacts DEF Init, TypeOK
<1>2. StaleExplained
  BY DEF Init, StaleExplained, Outdated, Cached
<1>3. Promised
  BY DEF Init, Promised
<1>. QED
  BY <1>1, <1>2, <1>3 DEF IInv

LEMMA NextInv == IInv /\ [Next]_vars => IInv'
<1> SUFFICES ASSUME IInv, [Next]_vars PROVE IInv'
  OBVIOUS
<1> USE DEF IInv
<1>1. CASE \E r \in Readers, k \in Key : Request(r, k)
  BY <1>1, Type_Request, Stale_Request, Promise_Request
<1>2. CASE \E r \in Readers : Hit(r)
  BY <1>2, Type_Hit, Stale_Hit, Promise_Hit
<1>3. CASE \E r \in Readers : Miss(r)
  BY <1>3, Type_Miss, Stale_Miss, Promise_Miss
<1>4. CASE \E r \in Readers : CheckMembership(r)
  BY <1>4, Type_CheckMembership, Stale_CheckMembership, Promise_CheckMembership
<1>5. CASE \E r \in Readers : ReadRoles(r)
  BY <1>5, Type_ReadRoles, Stale_ReadRoles, Promise_ReadRoles
<1>6. CASE \E r \in Readers : Fill(r)
  BY <1>6, Type_Fill, Stale_Fill, Promise_Fill
<1>7. CASE \E r \in Readers : FailRequest(r)
  BY <1>7, Type_FailRequest, Stale_FailRequest, Promise_FailRequest
<1>8. CASE \E w \in Writers, k \in Key : FindMember(w, k)
  BY <1>8, Type_FindMember, Stale_FindMember, Promise_FindMember
<1>9. CASE \E w \in Writers : setRoles(w)
  BY <1>9, Type_setRoles, Stale_setRoles, Promise_setRoles
<1>10. CASE \E w \in Writers : updateUser(w)
  BY <1>10, Type_updateUser, Stale_updateUser, Promise_updateUser
<1>11. CASE \E w \in Writers : removeMember(w)
  BY <1>11, Type_removeMember, Stale_removeMember, Promise_removeMember
<1>12. CASE \E w \in Writers : Refuse(w)
  BY <1>12, Type_Refuse, Stale_Refuse, Promise_Refuse
<1>13. CASE \E w \in Writers, t \in Tenants, S \in SUBSET Key : changeTenantRole(w, t, S)
  BY <1>13, Type_changeTenantRole, Stale_changeTenantRole, Promise_changeTenantRole
<1>14. CASE \E w \in Writers, S \in SUBSET Key : changeGlobalRole(w, S)
  BY <1>14, Type_changeGlobalRole, Stale_changeGlobalRole, Promise_changeGlobalRole
<1>15. CASE \E w \in Writers : CountMemberships(w)
  BY <1>15, Type_CountMemberships, Stale_CountMemberships, Promise_CountMemberships
<1>16. CASE \E w \in Writers : DropUser(w)
  BY <1>16, Type_DropUser, Stale_DropUser, Promise_DropUser
<1>17. CASE \E w \in Writers : ScanPage(w)
  BY <1>17, Type_ScanPage, Stale_ScanPage, Promise_ScanPage
<1>18. CASE \E w \in Writers : DeleteBatch(w)
  BY <1>18, Type_DeleteBatch, Stale_DeleteBatch, Promise_DeleteBatch
<1>19. CASE \E w \in Writers : FailInvalidation(w)
  BY <1>19, Type_FailInvalidation, Stale_FailInvalidation, Promise_FailInvalidation
<1>20. CASE \E k \in Key : createUser(k)
  BY <1>20, Type_createUser, Stale_createUser, Promise_createUser
<1>21. CASE \E k \in Key : Expire(k)
  BY <1>21, Type_Expire, Stale_Expire, Promise_Expire
<1>22. CASE \E t \in Tenants : removeTenant(t)
  BY <1>22, Type_removeTenant, Stale_removeTenant, Promise_removeTenant
<1>23. CASE UNCHANGED vars
  BY <1>23 DEF vars, db, readers, writers, asked, blame, TypeOK, StaleExplained, Promised, Outdated, Cached, Owed, Active
<1>. QED
  BY <1>1, <1>2, <1>3, <1>4, <1>5, <1>6, <1>7, <1>8, <1>9, <1>10, <1>11, <1>12, <1>13, <1>14, <1>15, <1>16, <1>17, <1>18, <1>19, <1>20, <1>21, <1>22, <1>23 DEF Next, Read, Invalidate, Change

(* Every variable keeps its type: in particular no deletion is owed by a writer
   that is not at work.  (RedisService.deleteByPattern) *)
THEOREM TypeCorrect == Spec => []TypeOK
<1>1. IInv => TypeOK
  BY DEF IInv
<1>. QED
  BY <1>1, InitInv, NextInv, PTL DEF Spec

(* No entry is out of date without one of the known causes, however many
   requests and administrators interleave.  (access.service 18-92) *)
THEOREM StaleEntriesExplained == Spec => []StaleExplained
<1>1. IInv => StaleExplained
  BY DEF IInv
<1>. QED
  BY <1>1, InitInv, NextInv, PTL DEF Spec

(* A request that starts after an invalidation has ended sees the change, unless
   its entry was filled from an older read or its invalidation was lost or never
   made.  (access.service 18-72) *)
THEOREM LateAnswersExplained == Spec => []AnswersExplained
<1>1. IInv => AnswersExplained
  BY DEF IInv, Promised, AnswersExplained
<1>. QED
  BY <1>1, InitInv, NextInv, PTL DEF Spec

==============================================================================

--------------------------- MODULE Sessions_proofs ---------------------------
(* Proofs about Sessions, for any calls, tenants, tokens and lifetimes.

   OneExchange rests on Exchanged: a token that was exchanged is dead, and so is
   one whose exchange is about to be answered, by one call only.
   RevocationSticks rests on Stamped: while a stamp lives it is the latest one,
   and it lives until every access token signed before it has expired.
   ReturnedRevokes rests on Completed: what is due is covered by the latest stamp
   or by the stamp of a call still under way.
   That tokens implement SingleUse rests on TypeOK and Exchanged, step by step. *)
EXTENDS Sessions, TLAPS

Answering(c) == At(c, "write") /\ op[c] = "refresh"

Exchanged ==
  /\ \A x \in Tokens : given[x] <= 1 /\ (rt[x] # "dead" => given[x] = 0)
  /\ \A c \in Calls : Answering(c) => given[src[c]] = 0 /\ rt[src[c]] = "dead"
  /\ \A c, d \in Calls : Answering(c) /\ Answering(d) /\ src[c] = src[d] => c = d

Refused == \A c \in late : At(c, "member") /\ ~Active(ten[c])

Stamped ==
  /\ \A c \in Calls : sec[c] <= now
  /\ \A k \in Keys \ reordered :
       IF stamp[k] = None THEN cut[k] = 0 \/ cut[k] + Life <= now + 1
                          ELSE stamp[k] = cut[k] /\ cut[k] + StampTtl <= until[k]

IInv == TypeOK /\ Exchanged /\ Refused /\ NoStrayTokens /\ Stamped

LEMMA Facts ==
  /\ Life \in Nat /\ Life > 0 /\ StampTtl \in Nat /\ MaxTime \in Nat /\ Life <= StampTtl + 1
  /\ None \notin Tokens /\ None \notin Tenants /\ None \notin Nat
  /\ User \notin Tenants /\ User \in Keys /\ Tenants \subseteq Keys
  /\ 0 \in Time /\ \A n \in Time : n \in Nat /\ n <= MaxTime /\ n # None
BY TimeAssumption, DistinctAssumption DEF Keys, Time

(* What a call holds once it has ended, and what it hands out, have their types. *)
LEMMA Ending ==
  ASSUME TypeOK, NEW c \in Calls, End(c)
  PROVE  /\ pc' \in [Calls -> Pcs] /\ ten' \in [Calls -> Tenants \cup {None}]
         /\ op' \in [Calls -> {"none", "login", "refresh", "logout", "removeMember", "removeTenant"}]
         /\ src' \in [Calls -> Tokens \cup {None}] /\ new' \in [Calls -> Tokens \cup {None}]
         /\ sec' \in [Calls -> Time] /\ signed' \in [Calls -> Time] /\ late' \subseteq Calls
<1>1. pc' \in [Calls -> Pcs]
  BY DEF TypeOK, Pcs, End, Goto
<1>2. op' \in [Calls -> {"none", "login", "refresh", "logout", "removeMember", "removeTenant"}]
  BY DEF TypeOK, End
<1>3. /\ ten' \in [Calls -> Tenants \cup {None}]
      /\ src' \in [Calls -> Tokens \cup {None}] /\ new' \in [Calls -> Tokens \cup {None}]
  BY DEF TypeOK, End
<1>4. sec' \in [Calls -> Time] /\ signed' \in [Calls -> Time] /\ late' \subseteq Calls
  BY Facts DEF TypeOK, End
<1>. QED
  BY <1>1, <1>2, <1>3, <1>4

LEMMA Handing ==
  ASSUME TypeOK, NEW c \in Calls, NEW iat \in Time, HandOut(c, iat),
         new[c] \in Tokens, ten[c] \in Tenants
  PROVE  access' \subseteq Access /\ known' \subseteq Tokens /\ given' \in [Tokens -> Nat]
<1>1. access' \subseteq Access
  BY DEF TypeOK, Access, HandOut
<1>2. known' \subseteq Tokens
  BY DEF TypeOK, HandOut
<1>3. given' \in [Tokens -> Nat]
  BY DEF TypeOK, HandOut
<1>. QED
  BY <1>1, <1>2, <1>3

LEMMA Type_Login ==
  ASSUME TypeOK, NEW c \in Calls, NEW t \in Tenants, Login(c, t)
  PROVE  TypeOK'
BY Facts DEF TypeOK, CallOK, Pcs, Exchanging, Access, Login, Begin, NoteLate, At, Goto, db, tokens, stamps, marks, Due, call, out

LEMMA Type_Refresh ==
  ASSUME TypeOK, NEW c \in Calls, NEW x \in Tokens, Refresh(c, x)
  PROVE  TypeOK'
BY Facts DEF TypeOK, CallOK, Pcs, Exchanging, Access, Refresh, Begin, NoteLate, At, Goto, db, tokens, stamps, marks, Due, call, out

LEMMA Type_CheckMembership ==
  ASSUME TypeOK, NEW c \in Calls, CheckMembership(c)
  PROVE  TypeOK'
BY Facts DEF TypeOK, CallOK, Pcs, Exchanging, Access, CheckMembership, At, Goto, db, tokens, stamps, marks, Due, call, out

LEMMA Type_CreateToken ==
  ASSUME TypeOK, NEW c \in Calls, NEW x \in Tokens, CreateToken(c, x)
  PROVE  TypeOK'
BY Facts DEF TypeOK, CallOK, Pcs, Exchanging, Access, CreateToken, At, Goto, db, tokens, stamps, marks, Due, call, out

LEMMA Type_Sign ==
  ASSUME TypeOK, NEW c \in Calls, Sign(c)
  PROVE  TypeOK'
<1>1. ASSUME NEW d \in Calls PROVE CallOK(d)'
  <2>1. CASE d = c
    BY <2>1, Facts DEF TypeOK, CallOK, Pcs, Exchanging, Sign, HandOut, End, At, Goto, call, out
  <2>2. CASE d # c
    <3>1. pc'[d] = pc[d] /\ op'[d] = op[d] /\ ten'[d] = ten[d] /\ src'[d] = src[d] /\ new'[d] = new[d]
      BY <2>2 DEF TypeOK, Sign, HandOut, End, Goto, call, out
    <3>. QED
      BY <3>1 DEF TypeOK, CallOK, At
  <2>. QED
    BY <2>1, <2>2
<1>2. new[c] \in Tokens /\ ten[c] \in Tenants /\ src[c] \in Tokens \cup {None}
  BY DEF TypeOK, CallOK, Exchanging, At, Sign
<1>3. /\ tenant' \in [Tenants -> {"active", "inactive", "deleted"}]
      /\ member' \in [Tenants -> {"active", "inactive", "none"}] /\ user' \in BOOLEAN
      /\ rt' \in [Tokens -> {"free", "live", "dead"}] /\ home' = home
      /\ \A x \in Tokens : rt'[x] # "free" => rt[x] # "free"
  BY <1>2 DEF TypeOK, Sign, db
<1>4. \A d \in Calls, x \in Tokens : x \in {src'[d], new'[d]} => rt'[x] # "free"
  <2>1. \A d \in Calls : (src'[d] = src[d] \/ src'[d] = None) /\ (new'[d] = new[d] \/ new'[d] = None)
    BY DEF TypeOK, Sign, HandOut, End, call
  <2>2. \A x \in Tokens : rt[x] # "free" => rt'[x] # "free"
    BY DEF TypeOK, Sign, db
  <2>. QED
    BY <2>1, <2>2, Facts DEF TypeOK
<1>5. /\ pc' \in [Calls -> Pcs] /\ ten' \in [Calls -> Tenants \cup {None}]
      /\ op' \in [Calls -> {"none", "login", "refresh", "logout", "removeMember", "removeTenant"}]
      /\ src' \in [Calls -> Tokens \cup {None}] /\ new' \in [Calls -> Tokens \cup {None}]
      /\ sec' \in [Calls -> Time] /\ signed' \in [Calls -> Time] /\ late' \subseteq Calls
  <2>1. CASE op[c] = "login"
    BY <2>1, Ending DEF Sign
  <2>2. CASE op[c] # "login"
    <3>1. /\ UNCHANGED <<op, ten, src, new, sec, late>>
          /\ signed' = [signed EXCEPT ![c] = now] /\ pc' = [pc EXCEPT ![c] = "rotate"]
      BY <2>2 DEF Sign, Goto
    <3>2. pc' \in [Calls -> Pcs] /\ signed' \in [Calls -> Time]
      BY <3>1 DEF TypeOK, Pcs
    <3>. QED
      BY <3>1, <3>2 DEF TypeOK
  <2>. QED
    BY <2>1, <2>2
<1>6. /\ access' \subseteq Access /\ known' \subseteq Tokens /\ given' \in [Tokens -> Nat]
  <2>1. CASE op[c] = "login"
    BY <1>2, <2>1, Handing DEF TypeOK, Sign
  <2>2. CASE op[c] # "login"
    BY <2>2 DEF TypeOK, Sign, out
  <2>. QED
    BY <2>1, <2>2
<1>. QED
  BY <1>1, <1>3, <1>4, <1>5, <1>6 DEF TypeOK, Sign, stamps, marks, Due

LEMMA Type_Rotate ==
  ASSUME TypeOK, NEW c \in Calls, Rotate(c)
  PROVE  TypeOK'
<1>1. ASSUME NEW d \in Calls PROVE CallOK(d)'
  <2>1. CASE d = c
    BY <2>1, Facts DEF TypeOK, CallOK, Pcs, Exchanging, Rotate, At, Goto, call, out
  <2>2. CASE d # c
    <3>1. pc'[d] = pc[d] /\ op'[d] = op[d] /\ ten'[d] = ten[d] /\ src'[d] = src[d] /\ new'[d] = new[d]
      BY <2>2 DEF TypeOK, Rotate, Goto, call, out
    <3>. QED
      BY <3>1 DEF TypeOK, CallOK, At
  <2>. QED
    BY <2>1, <2>2
<1>2. src[c] \in Tokens
  BY DEF TypeOK, CallOK, Exchanging, At, Rotate
<1>3. /\ tenant' \in [Tenants -> {"active", "inactive", "deleted"}]
      /\ member' \in [Tenants -> {"active", "inactive", "none"}] /\ user' \in BOOLEAN
      /\ rt' \in [Tokens -> {"free", "live", "dead"}] /\ home' = home
      /\ \A x \in Tokens : rt'[x] # "free" => rt[x] # "free"
  BY <1>2 DEF TypeOK, Rotate
<1>4. \A d \in Calls, x \in Tokens : x \in {src'[d], new'[d]} => rt'[x] # "free"
  <2>1. \A d \in Calls : (src'[d] = src[d] \/ src'[d] = None) /\ (new'[d] = new[d] \/ new'[d] = None)
    BY DEF TypeOK, Rotate, call
  <2>2. \A x \in Tokens : rt[x] # "free" => rt'[x] # "free"
    BY DEF TypeOK, Rotate, db
  <2>. QED
    BY <2>1, <2>2, Facts DEF TypeOK
<1>5. /\ pc' \in [Calls -> Pcs] /\ ten' \in [Calls -> Tenants \cup {None}]
      /\ op' \in [Calls -> {"none", "login", "refresh", "logout", "removeMember", "removeTenant"}]
      /\ src' \in [Calls -> Tokens \cup {None}] /\ new' \in [Calls -> Tokens \cup {None}]
      /\ sec' \in [Calls -> Time] /\ signed' \in [Calls -> Time] /\ late' \subseteq Calls
  <2>1. UNCHANGED <<op, ten, src, new, signed, late>>
    BY DEF Rotate
  <2>2. pc' \in [Calls -> Pcs]
    BY DEF TypeOK, Pcs, Rotate, Goto
  <2>3. sec' \in [Calls -> Time]
    BY DEF TypeOK, Rotate
  <2>. QED
    BY <2>1, <2>2, <2>3 DEF TypeOK
<1>6. /\ access' \subseteq Access /\ known' \subseteq Tokens /\ given' \in [Tokens -> Nat]
  BY <1>2 DEF TypeOK, Access, Rotate, out
<1>7. due' \in [Keys -> Time]
  BY Facts DEF TypeOK, Rotate, Due
<1>. QED
  BY <1>1, <1>3, <1>4, <1>5, <1>6, <1>7 DEF TypeOK, Rotate, marks

LEMMA Type_Undo ==
  ASSUME TypeOK, NEW c \in Calls, Undo(c)
  PROVE  TypeOK'
<1>1. ASSUME NEW d \in Calls PROVE CallOK(d)'
  <2>1. CASE d = c
    BY <2>1, Facts DEF TypeOK, CallOK, Pcs, Exchanging, Undo, End, At, Goto, call, out
  <2>2. CASE d # c
    <3>1. pc'[d] = pc[d] /\ op'[d] = op[d] /\ ten'[d] = ten[d] /\ src'[d] = src[d] /\ new'[d] = new[d]
      BY <2>2 DEF TypeOK, Undo, End, Goto, call, out
    <3>. QED
      BY <3>1 DEF TypeOK, CallOK, At
  <2>. QED
    BY <2>1, <2>2
<1>2. new[c] \in Tokens
  BY DEF TypeOK, CallOK, Exchanging, At, Undo
<1>3. /\ tenant' \in [Tenants -> {"active", "inactive", "deleted"}]
      /\ member' \in [Tenants -> {"active", "inactive", "none"}] /\ user' \in BOOLEAN
      /\ rt' \in [Tokens -> {"free", "live", "dead"}] /\ home' = home
      /\ \A x \in Tokens : rt'[x] # "free" => rt[x] # "free"
  BY <1>2 DEF TypeOK, Undo, db
<1>4. \A d \in Calls, x \in Tokens : x \in {src'[d], new'[d]} => rt'[x] # "free"
  <2>1. \A d \in Calls : (src'[d] = src[d] \/ src'[d] = None) /\ (new'[d] = new[d] \/ new'[d] = None)
    BY DEF TypeOK, Undo, End, call
  <2>2. \A x \in Tokens : rt[x] # "free" => rt'[x] # "free"
    BY DEF TypeOK, Undo, db
  <2>. QED
    BY <2>1, <2>2, Facts DEF TypeOK
<1>5. /\ pc' \in [Calls -> Pcs] /\ ten' \in [Calls -> Tenants \cup {None}]
      /\ op' \in [Calls -> {"none", "login", "refresh", "logout", "removeMember", "removeTenant"}]
      /\ src' \in [Calls -> Tokens \cup {None}] /\ new' \in [Calls -> Tokens \cup {None}]
      /\ sec' \in [Calls -> Time] /\ signed' \in [Calls -> Time] /\ late' \subseteq Calls
  BY <1>2, Facts DEF TypeOK, Pcs, Undo, End, Goto, call
<1>6. /\ access' \subseteq Access /\ known' \subseteq Tokens /\ given' \in [Tokens -> Nat]
  BY <1>2 DEF TypeOK, Access, Undo, End, out
<1>. QED
  BY <1>1, <1>3, <1>4, <1>5, <1>6 DEF TypeOK, Undo, stamps, marks, Due

LEMMA Type_Logout ==
  ASSUME TypeOK, NEW c \in Calls, NEW x \in Tokens, Logout(c, x)
  PROVE  TypeOK'
BY Facts DEF TypeOK, CallOK, Pcs, Exchanging, Access, Logout, Begin, At, Goto, db, tokens, stamps, marks, Due, call, out

LEMMA Type_RevokeToken ==
  ASSUME TypeOK, NEW c \in Calls, RevokeToken(c)
  PROVE  TypeOK'
<1>1. ASSUME NEW d \in Calls PROVE CallOK(d)'
  <2>1. CASE d = c
    BY <2>1, Facts DEF TypeOK, CallOK, Pcs, Exchanging, RevokeToken, At, Goto, call, out
  <2>2. CASE d # c
    <3>1. pc'[d] = pc[d] /\ op'[d] = op[d] /\ ten'[d] = ten[d] /\ src'[d] = src[d] /\ new'[d] = new[d]
      BY <2>2 DEF TypeOK, RevokeToken, Goto, call, out
    <3>. QED
      BY <3>1 DEF TypeOK, CallOK, At
  <2>. QED
    BY <2>1, <2>2
<1>2. src[c] \in Tokens
  BY DEF TypeOK, CallOK, Exchanging, At, RevokeToken
<1>3. /\ tenant' \in [Tenants -> {"active", "inactive", "deleted"}]
      /\ member' \in [Tenants -> {"active", "inactive", "none"}] /\ user' \in BOOLEAN
      /\ rt' \in [Tokens -> {"free", "live", "dead"}] /\ home' = home
      /\ \A x \in Tokens : rt'[x] # "free" => rt[x] # "free"
  BY <1>2 DEF TypeOK, RevokeToken, db
<1>4. \A d \in Calls, x \in Tokens : x \in {src'[d], new'[d]} => rt'[x] # "free"
  <2>1. \A d \in Calls : (src'[d] = src[d] \/ src'[d] = None) /\ (new'[d] = new[d] \/ new'[d] = None)
    BY DEF TypeOK, RevokeToken, call
  <2>2. \A x \in Tokens : rt[x] # "free" => rt'[x] # "free"
    BY DEF TypeOK, RevokeToken, db
  <2>. QED
    BY <2>1, <2>2, Facts DEF TypeOK
<1>5. /\ pc' \in [Calls -> Pcs] /\ ten' \in [Calls -> Tenants \cup {None}]
      /\ op' \in [Calls -> {"none", "login", "refresh", "logout", "removeMember", "removeTenant"}]
      /\ src' \in [Calls -> Tokens \cup {None}] /\ new' \in [Calls -> Tokens \cup {None}]
      /\ sec' \in [Calls -> Time] /\ signed' \in [Calls -> Time] /\ late' \subseteq Calls
  BY <1>2, Facts DEF TypeOK, Pcs, RevokeToken, Goto, call
<1>6. /\ access' \subseteq Access /\ known' \subseteq Tokens /\ given' \in [Tokens -> Nat]
  BY <1>2 DEF TypeOK, Access, RevokeToken, out
<1>7. due' \in [Keys -> Time]
  BY Facts DEF TypeOK, RevokeToken, Due
<1>. QED
  BY <1>1, <1>3, <1>4, <1>5, <1>6, <1>7 DEF TypeOK, RevokeToken, marks

LEMMA Type_Member ==
  ASSUME TypeOK, NEW c \in Calls, NEW t \in Tenants, Member(c, t)
  PROVE  TypeOK'
BY Facts DEF TypeOK, CallOK, Pcs, Exchanging, Access, Member, Begin, At, Goto, db, tokens, stamps, marks, Due, call, out

LEMMA Type_removeMember ==
  ASSUME TypeOK, NEW c \in Calls, removeMember(c)
  PROVE  TypeOK'
<1>1. ASSUME NEW d \in Calls PROVE CallOK(d)'
  <2>1. CASE d = c
    BY <2>1, Facts DEF TypeOK, CallOK, Pcs, Exchanging, removeMember, At, Goto, call, out
  <2>2. CASE d # c
    <3>1. pc'[d] = pc[d] /\ op'[d] = op[d] /\ ten'[d] = ten[d] /\ src'[d] = src[d] /\ new'[d] = new[d]
      BY <2>2 DEF TypeOK, removeMember, Goto, call, out
    <3>. QED
      BY <3>1 DEF TypeOK, CallOK, At
  <2>. QED
    BY <2>1, <2>2
<1>2. ten[c] \in Tenants
  BY DEF TypeOK, CallOK, Exchanging, At, removeMember
<1>3. /\ tenant' \in [Tenants -> {"active", "inactive", "deleted"}]
      /\ member' \in [Tenants -> {"active", "inactive", "none"}] /\ user' \in BOOLEAN
      /\ rt' \in [Tokens -> {"free", "live", "dead"}] /\ home' = home
      /\ \A x \in Tokens : rt'[x] # "free" => rt[x] # "free"
  <2>1. tenant' = tenant /\ home' = home /\ member' \in [Tenants -> {"active", "inactive", "none"}]
    BY <1>2 DEF TypeOK, removeMember
  <2>2. CASE user' = user /\ rt' = rt
    BY <2>1, <2>2 DEF TypeOK
  <2>3. CASE user' = FALSE /\ rt' = [x \in Tokens |-> IF rt[x] = "live" THEN "dead" ELSE rt[x]]
    BY <2>1, <2>3 DEF TypeOK
  <2>. QED
    BY <2>2, <2>3 DEF removeMember
<1>4. \A d \in Calls, x \in Tokens : x \in {src'[d], new'[d]} => rt'[x] # "free"
  <2>1. \A d \in Calls : (src'[d] = src[d] \/ src'[d] = None) /\ (new'[d] = new[d] \/ new'[d] = None)
    BY DEF TypeOK, removeMember, call
  <2>2. \A x \in Tokens : rt[x] # "free" => rt'[x] # "free"
    BY DEF TypeOK, removeMember
  <2>. QED
    BY <2>1, <2>2, Facts DEF TypeOK
<1>5. /\ pc' \in [Calls -> Pcs] /\ ten' \in [Calls -> Tenants \cup {None}]
      /\ op' \in [Calls -> {"none", "login", "refresh", "logout", "removeMember", "removeTenant"}]
      /\ src' \in [Calls -> Tokens \cup {None}] /\ new' \in [Calls -> Tokens \cup {None}]
      /\ sec' \in [Calls -> Time] /\ signed' \in [Calls -> Time] /\ late' \subseteq Calls
  BY <1>2, Facts DEF TypeOK, Pcs, removeMember, Goto, call
<1>6. /\ access' \subseteq Access /\ known' \subseteq Tokens /\ given' \in [Tokens -> Nat]
  BY <1>2 DEF TypeOK, Access, removeMember, out
<1>7. due' \in [Keys -> Time]
  BY Facts DEF TypeOK, removeMember, Due
<1>. QED
  BY <1>1, <1>3, <1>4, <1>5, <1>6, <1>7 DEF TypeOK, removeMember, marks

LEMMA Type_Invalidate ==
  ASSUME TypeOK, NEW c \in Calls, Invalidate(c)
  PROVE  TypeOK'
<1>1. ASSUME NEW d \in Calls PROVE CallOK(d)'
  <2>1. CASE d = c
    BY <2>1, Facts DEF TypeOK, CallOK, Pcs, Exchanging, Invalidate, At, Goto, call, out
  <2>2. CASE d # c
    <3>1. pc'[d] = pc[d] /\ op'[d] = op[d] /\ ten'[d] = ten[d] /\ src'[d] = src[d] /\ new'[d] = new[d]
      BY <2>2 DEF TypeOK, Invalidate, Goto, call, out
    <3>. QED
      BY <3>1 DEF TypeOK, CallOK, At
  <2>. QED
    BY <2>1, <2>2
<1>2. ten[c] \in Tenants
  BY DEF TypeOK, CallOK, Exchanging, At, Invalidate
<1>3. /\ tenant' \in [Tenants -> {"active", "inactive", "deleted"}]
      /\ member' \in [Tenants -> {"active", "inactive", "none"}] /\ user' \in BOOLEAN
      /\ rt' \in [Tokens -> {"free", "live", "dead"}] /\ home' = home
      /\ \A x \in Tokens : rt'[x] # "free" => rt[x] # "free"
  BY <1>2 DEF TypeOK, Invalidate, db
<1>4. \A d \in Calls, x \in Tokens : x \in {src'[d], new'[d]} => rt'[x] # "free"
  <2>1. \A d \in Calls : (src'[d] = src[d] \/ src'[d] = None) /\ (new'[d] = new[d] \/ new'[d] = None)
    BY DEF TypeOK, Invalidate, call
  <2>2. \A x \in Tokens : rt[x] # "free" => rt'[x] # "free"
    BY DEF TypeOK, Invalidate, db
  <2>. QED
    BY <2>1, <2>2, Facts DEF TypeOK
<1>5. /\ pc' \in [Calls -> Pcs] /\ ten' \in [Calls -> Tenants \cup {None}]
      /\ op' \in [Calls -> {"none", "login", "refresh", "logout", "removeMember", "removeTenant"}]
      /\ src' \in [Calls -> Tokens \cup {None}] /\ new' \in [Calls -> Tokens \cup {None}]
      /\ sec' \in [Calls -> Time] /\ signed' \in [Calls -> Time] /\ late' \subseteq Calls
  BY <1>2, Facts DEF TypeOK, Pcs, Invalidate, Goto, call
<1>6. /\ access' \subseteq Access /\ known' \subseteq Tokens /\ given' \in [Tokens -> Nat]
  BY <1>2 DEF TypeOK, Access, Invalidate, out
<1>. QED
  BY <1>1, <1>3, <1>4, <1>5, <1>6 DEF TypeOK, Invalidate, stamps, marks, Due

LEMMA Type_removeTenant ==
  ASSUME TypeOK, NEW c \in Calls, NEW t \in Tenants, removeTenant(c, t)
  PROVE  TypeOK'
<1>1. ASSUME NEW d \in Calls PROVE CallOK(d)'
  <2>1. CASE d = c
    <3>1. /\ pc[c] = "idle" /\ pc'[c] = "write" /\ op'[c] = "removeTenant" /\ ten'[c] = t
          /\ src' = src /\ new' = new
      BY DEF TypeOK, removeTenant, Goto, At
    <3>2. new[c] \notin Tokens
      BY <3>1 DEF TypeOK, CallOK, At
    <3>. QED
      BY <2>1, <3>1, <3>2 DEF CallOK, Exchanging, At
  <2>2. CASE d # c
    <3>1. pc'[d] = pc[d] /\ op'[d] = op[d] /\ ten'[d] = ten[d] /\ src'[d] = src[d] /\ new'[d] = new[d]
      BY <2>2 DEF TypeOK, removeTenant, Goto
    <3>. QED
      BY <3>1 DEF TypeOK, CallOK, At
  <2>. QED
    BY <2>1, <2>2
<1>2. /\ tenant' \in [Tenants -> {"active", "inactive", "deleted"}]
      /\ member' \in [Tenants -> {"active", "inactive", "none"}]
      /\ rt' \in [Tokens -> {"free", "live", "dead"}]
      /\ \A x \in Tokens : rt'[x] # "free" => home[x] \in Tenants
      /\ \A x \in Tokens : rt[x] # "free" => rt'[x] # "free"
  <2>1. CASE rt' = rt /\ member' = member /\ tenant' = [tenant EXCEPT ![t] = "inactive"]
    BY <2>1 DEF TypeOK
  <2>2. CASE /\ rt' = [x \in Tokens |-> IF home[x] = t THEN "dead" ELSE rt[x]]
             /\ member' = [member EXCEPT ![t] = "none"]
             /\ tenant' = [tenant EXCEPT ![t] = "deleted"]
    BY <2>2 DEF TypeOK
  <2>. QED
    BY <2>1, <2>2 DEF removeTenant
<1>3. /\ pc' \in [Calls -> Pcs] /\ ten' \in [Calls -> Tenants \cup {None}]
      /\ op' \in [Calls -> {"none", "login", "refresh", "logout", "removeMember", "removeTenant"}]
      /\ sec' \in [Calls -> Time]
  BY DEF TypeOK, Pcs, removeTenant, Goto
<1>. QED
  BY <1>1, <1>2, <1>3 DEF TypeOK, removeTenant, stamps, marks, Due, out

LEMMA Type_joinTenant ==
  ASSUME TypeOK, NEW t \in Tenants, joinTenant(t)
  PROVE  TypeOK'
BY Facts DEF TypeOK, CallOK, Pcs, Exchanging, Access, joinTenant, At, Goto, db, tokens, stamps, marks, Due, call, out

LEMMA Type_WriteStamp ==
  ASSUME TypeOK, NEW c \in Calls, WriteStamp(c)
  PROVE  TypeOK'
<1>1. ASSUME NEW d \in Calls PROVE CallOK(d)'
  <2>1. CASE d = c
    BY <2>1, Facts DEF TypeOK, CallOK, Exchanging, WriteStamp, End, At, Goto
  <2>2. CASE d # c
    <3>1. pc'[d] = pc[d] /\ op'[d] = op[d] /\ ten'[d] = ten[d] /\ src'[d] = src[d] /\ new'[d] = new[d]
      BY <2>2 DEF TypeOK, WriteStamp, End, Goto
    <3>. QED
      BY <3>1 DEF TypeOK, CallOK, At
  <2>. QED
    BY <2>1, <2>2
<1>2. /\ pc' \in [Calls -> Pcs] /\ ten' \in [Calls -> Tenants \cup {None}]
      /\ op' \in [Calls -> {"none", "login", "refresh", "logout", "removeMember", "removeTenant"}]
      /\ src' \in [Calls -> Tokens \cup {None}] /\ new' \in [Calls -> Tokens \cup {None}]
      /\ sec' \in [Calls -> Time] /\ signed' \in [Calls -> Time] /\ late' \subseteq Calls
  BY Facts DEF TypeOK, Pcs, WriteStamp, End, Goto
<1>3. StampKey(c) \in Keys
  BY DEF TypeOK, CallOK, WriteStamp, StampKey, Keys, At
<1>4. /\ stamp' \in [Keys -> Time \cup {None}] /\ until' \in [Keys -> Nat]
      /\ cut' \in [Keys -> Time] /\ reordered' \subseteq Keys
  <2>. DEFINE k == StampKey(c)
  <2>1. sec[c] \in Time /\ now + StampTtl \in Nat /\ k \in Keys
    BY <1>3, Facts DEF TypeOK
  <2>2. /\ stamp' = [stamp EXCEPT ![k] = sec[c]] /\ until' = [until EXCEPT ![k] = now + StampTtl]
        /\ reordered' \in {reordered, reordered \cup {k}}
        /\ cut' \in {cut, [cut EXCEPT ![k] = sec[c]]}
    <3>1. cut = [cut EXCEPT ![k] = cut[k]]
      BY <2>1 DEF TypeOK
    <3>. QED
      BY <3>1 DEF WriteStamp
  <2>. HIDE DEF k
  <2>. QED
    BY <2>1, <2>2 DEF TypeOK
<1>5. \A d \in Calls, x \in Tokens : x \in {src'[d], new'[d]} => rt'[x] # "free"
  <2>1. \A d \in Calls : (src'[d] = src[d] \/ src'[d] = None) /\ (new'[d] = new[d] \/ new'[d] = None)
    BY DEF TypeOK, WriteStamp, End
  <2>. QED
    BY <2>1, Facts DEF TypeOK, WriteStamp, db, tokens
<1>6. access' \subseteq Access /\ known' \subseteq Tokens /\ given' \in [Tokens -> Nat]
  <2>1. CASE op[c] = "refresh"
    <3>1. new[c] \in Tokens /\ ten[c] \in Tenants /\ src[c] \in Tokens /\ signed[c] \in Time
      BY <2>1 DEF TypeOK, CallOK, WriteStamp, At
    <3>. QED
      BY <2>1, <3>1, Facts DEF TypeOK, Access, WriteStamp, HandOut
  <2>2. CASE op[c] # "refresh"
    BY <2>2 DEF TypeOK, WriteStamp, out
  <2>. QED
    BY <2>1, <2>2
<1>. QED
  BY <1>1, <1>2, <1>4, <1>5, <1>6 DEF TypeOK, WriteStamp, db, tokens

LEMMA Type_Fail ==
  ASSUME TypeOK, NEW c \in Calls, Fail(c)
  PROVE  TypeOK'
BY Facts DEF TypeOK, CallOK, Pcs, Exchanging, Access, Fail, End, At, Goto, db, tokens, stamps, marks, Due, call, out

LEMMA Type_cleanupExpiredTokens ==
  ASSUME TypeOK, NEW x \in Tokens, cleanupExpiredTokens(x)
  PROVE  TypeOK'
BY Facts DEF TypeOK, CallOK, Pcs, Exchanging, Access, cleanupExpiredTokens, InUse, At, Goto, db, tokens, stamps, marks, Due, call, out

LEMMA Type_Tick ==
  ASSUME TypeOK, Tick
  PROVE  TypeOK'
<1>1. now' \in Time /\ now' \in Nat
  BY Facts DEF TypeOK, Tick, Time
<1>2. stamp' \in [Keys -> Time \cup {None}] /\ until' \in [Keys -> Nat]
  BY Facts DEF TypeOK, Tick
<1>3. access' \subseteq Access
  BY DEF TypeOK, Tick, out
<1>. QED
  BY <1>1, <1>2, <1>3 DEF TypeOK, CallOK, Tick, At, db, tokens, call, out

LEMMA Exchange_Login ==
  ASSUME IInv, TypeOK', NEW c \in Calls, NEW t \in Tenants, Login(c, t)
  PROVE  Exchanged'
BY Facts DEF IInv, TypeOK, CallOK, Exchanged, Answering, Login, Begin, NoteLate, At, Goto, db, tokens, stamps, marks, Due, call, out

LEMMA Exchange_Refresh ==
  ASSUME IInv, TypeOK', NEW c \in Calls, NEW x \in Tokens, Refresh(c, x)
  PROVE  Exchanged'
BY Facts DEF IInv, TypeOK, CallOK, Exchanged, Answering, Refresh, Begin, NoteLate, At, Goto, db, tokens, stamps, marks, Due, call, out

LEMMA Exchange_CheckMembership ==
  ASSUME IInv, TypeOK', NEW c \in Calls, CheckMembership(c)
  PROVE  Exchanged'
BY Facts DEF IInv, TypeOK, CallOK, Exchanged, Answering, CheckMembership, At, Goto, db, tokens, stamps, marks, Due, call, out

LEMMA Exchange_CreateToken ==
  ASSUME IInv, TypeOK', NEW c \in Calls, NEW x \in Tokens, CreateToken(c, x)
  PROVE  Exchanged'
BY Facts DEF IInv, TypeOK, CallOK, Exchanged, Answering, CreateToken, At, Goto, db, tokens, stamps, marks, Due, call, out

LEMMA Exchange_Sign ==
  ASSUME IInv, TypeOK', NEW c \in Calls, Sign(c)
  PROVE  Exchanged'
<1>1. CASE op[c] = "login"
  <2>1. pc' = [pc EXCEPT ![c] = "idle"] /\ op' = [op EXCEPT ![c] = "none"]
    BY <1>1 DEF Sign, End, Goto
  <2>2. src[c] = None
    BY <1>1 DEF Sign, IInv, TypeOK, CallOK, At
  <2>. QED
    BY <1>1, <2>1, <2>2, Facts DEF IInv, TypeOK, Exchanged, Answering, Sign, HandOut, End, At, Goto, db
<1>2. CASE op[c] # "login"
  BY <1>2, Facts DEF IInv, TypeOK, Exchanged, Answering, Sign, At, Goto, db, out
<1>. QED
  BY <1>1, <1>2

LEMMA Exchange_Rotate ==
  ASSUME IInv, TypeOK', NEW c \in Calls, Rotate(c)
  PROVE  Exchanged'
<1>1. CASE rt[src[c]] = "live"
  <2>1. /\ rt' = [rt EXCEPT ![src[c]] = "dead"] /\ pc' = [pc EXCEPT ![c] = "write"]
        /\ UNCHANGED <<op, src, given>>
    BY <1>1 DEF Rotate, Goto, out
  <2>2. src[c] \in Tokens /\ given[src[c]] = 0
    BY <1>1, Facts DEF Rotate, IInv, TypeOK, CallOK, Exchanged, At
  <2>3. \A d \in Calls : Answering(d)' => d = c \/ (Answering(d) /\ src[d] # src[c])
    BY <1>1, <2>1 DEF IInv, TypeOK, Exchanged, Answering, At
  <2>4. \A x \in Tokens : rt'[x] # "dead" => rt[x] # "dead"
    BY <2>1 DEF IInv, TypeOK
  <2>5. \A d \in Calls : Answering(d)' => given'[src'[d]] = 0 /\ rt'[src'[d]] = "dead"
    BY <2>1, <2>2, <2>3 DEF IInv, TypeOK, Exchanged
  <2>. QED
    BY <2>1, <2>3, <2>4, <2>5 DEF IInv, Exchanged
<1>2. CASE rt[src[c]] # "live"
  <2>1. pc' = [pc EXCEPT ![c] = "undo"] /\ UNCHANGED <<rt, op, src, given>>
    BY <1>2 DEF Rotate, Goto, out
  <2>2. \A d \in Calls : Answering(d)' => Answering(d)
    BY <2>1 DEF IInv, TypeOK, Answering, At
  <2>. QED
    BY <2>1, <2>2 DEF IInv, Exchanged
<1>. QED
  BY <1>1, <1>2

LEMMA Exchange_Undo ==
  ASSUME IInv, TypeOK', NEW c \in Calls, Undo(c)
  PROVE  Exchanged'
BY Facts DEF IInv, TypeOK, CallOK, Exchanged, Answering, Undo, End, At, Goto, db, tokens, stamps, marks, Due, call, out

LEMMA Exchange_Logout ==
  ASSUME IInv, TypeOK', NEW c \in Calls, NEW x \in Tokens, Logout(c, x)
  PROVE  Exchanged'
BY Facts DEF IInv, TypeOK, CallOK, Exchanged, Answering, Logout, Begin, At, Goto, db, tokens, stamps, marks, Due, call, out

LEMMA Exchange_RevokeToken ==
  ASSUME IInv, TypeOK', NEW c \in Calls, RevokeToken(c)
  PROVE  Exchanged'
BY Facts DEF IInv, TypeOK, CallOK, Exchanged, Answering, RevokeToken, At, Goto, db, tokens, stamps, marks, Due, call, out

LEMMA Exchange_Member ==
  ASSUME IInv, TypeOK', NEW c \in Calls, NEW t \in Tenants, Member(c, t)
  PROVE  Exchanged'
BY Facts DEF IInv, TypeOK, CallOK, Exchanged, Answering, Member, Begin, At, Goto, db, tokens, stamps, marks, Due, call, out

LEMMA Exchange_removeMember ==
  ASSUME IInv, TypeOK', NEW c \in Calls, removeMember(c)
  PROVE  Exchanged'
BY Facts DEF IInv, TypeOK, CallOK, Exchanged, Answering, removeMember, At, Goto, db, tokens, stamps, marks, Due, call, out

LEMMA Exchange_Invalidate ==
  ASSUME IInv, TypeOK', NEW c \in Calls, Invalidate(c)
  PROVE  Exchanged'
BY Facts DEF IInv, TypeOK, CallOK, Exchanged, Answering, Invalidate, At, Goto, db, tokens, stamps, marks, Due, call, out

LEMMA Exchange_removeTenant ==
  ASSUME IInv, TypeOK', NEW c \in Calls, NEW t \in Tenants, removeTenant(c, t)
  PROVE  Exchanged'
BY Facts DEF IInv, TypeOK, CallOK, Exchanged, Answering, removeTenant, At, Goto, db, tokens, stamps, marks, Due, call, out

LEMMA Exchange_joinTenant ==
  ASSUME IInv, TypeOK', NEW t \in Tenants, joinTenant(t)
  PROVE  Exchanged'
BY Facts DEF IInv, TypeOK, CallOK, Exchanged, Answering, joinTenant, At, Goto, db, tokens, stamps, marks, Due, call, out

LEMMA Exchange_WriteStamp ==
  ASSUME IInv, TypeOK', NEW c \in Calls, WriteStamp(c)
  PROVE  Exchanged'
BY Facts DEF IInv, TypeOK, CallOK, Exchanged, Answering, WriteStamp, StampKey, HandOut, End, At, Goto, db, tokens, stamps, marks, Due, call, out

LEMMA Exchange_Fail ==
  ASSUME IInv, TypeOK', NEW c \in Calls, Fail(c)
  PROVE  Exchanged'
BY Facts DEF IInv, TypeOK, CallOK, Exchanged, Answering, Fail, End, At, Goto, db, tokens, stamps, marks, Due, call, out

LEMMA Exchange_cleanupExpiredTokens ==
  ASSUME IInv, TypeOK', NEW x \in Tokens, cleanupExpiredTokens(x)
  PROVE  Exchanged'
BY Facts DEF IInv, TypeOK, CallOK, Exchanged, Answering, cleanupExpiredTokens, InUse, At, Goto, db, tokens, stamps, marks, Due, call, out

LEMMA Exchange_Tick ==
  ASSUME IInv, TypeOK', Tick
  PROVE  Exchanged'
BY Facts DEF IInv, TypeOK, CallOK, Exchanged, Answering, Tick, At, Goto, db, tokens, stamps, marks, Due, call, out

LEMMA Late_Login ==
  ASSUME IInv, TypeOK', NEW c \in Calls, NEW t \in Tenants, Login(c, t)
  PROVE  Refused'
BY Facts DEF IInv, TypeOK, CallOK, Refused, Active, Login, Begin, NoteLate, At, Goto, db, tokens, stamps, marks, Due, call, out

LEMMA Late_Refresh ==
  ASSUME IInv, TypeOK', NEW c \in Calls, NEW x \in Tokens, Refresh(c, x)
  PROVE  Refused'
BY Facts DEF IInv, TypeOK, CallOK, Refused, Active, Refresh, Begin, NoteLate, At, Goto, db, tokens, stamps, marks, Due, call, out

LEMMA Late_CheckMembership ==
  ASSUME IInv, TypeOK', NEW c \in Calls, CheckMembership(c)
  PROVE  Refused'
BY Facts DEF IInv, TypeOK, CallOK, Refused, Active, CheckMembership, At, Goto, db, tokens, stamps, marks, Due, call, out

LEMMA Late_CreateToken ==
  ASSUME IInv, TypeOK', NEW c \in Calls, NEW x \in Tokens, CreateToken(c, x)
  PROVE  Refused'
BY Facts DEF IInv, TypeOK, CallOK, Refused, Active, CreateToken, At, Goto, db, tokens, stamps, marks, Due, call, out

LEMMA Late_Sign ==
  ASSUME IInv, TypeOK', NEW c \in Calls, Sign(c)
  PROVE  Refused'
BY Facts DEF IInv, TypeOK, CallOK, Refused, Active, Sign, HandOut, End, At, Goto, db, tokens, stamps, marks, Due, call, out

LEMMA Late_Rotate ==
  ASSUME IInv, TypeOK', NEW c \in Calls, Rotate(c)
  PROVE  Refused'
BY Facts DEF IInv, TypeOK, CallOK, Refused, Active, Rotate, At, Goto, db, tokens, stamps, marks, Due, call, out

LEMMA Late_Undo ==
  ASSUME IInv, TypeOK', NEW c \in Calls, Undo(c)
  PROVE  Refused'
BY Facts DEF IInv, TypeOK, CallOK, Refused, Active, Undo, End, At, Goto, db, tokens, stamps, marks, Due, call, out

LEMMA Late_Logout ==
  ASSUME IInv, TypeOK', NEW c \in Calls, NEW x \in Tokens, Logout(c, x)
  PROVE  Refused'
BY Facts DEF IInv, TypeOK, CallOK, Refused, Active, Logout, Begin, At, Goto, db, tokens, stamps, marks, Due, call, out

LEMMA Late_RevokeToken ==
  ASSUME IInv, TypeOK', NEW c \in Calls, RevokeToken(c)
  PROVE  Refused'
BY Facts DEF IInv, TypeOK, CallOK, Refused, Active, RevokeToken, At, Goto, db, tokens, stamps, marks, Due, call, out

LEMMA Late_Member ==
  ASSUME IInv, TypeOK', NEW c \in Calls, NEW t \in Tenants, Member(c, t)
  PROVE  Refused'
BY Facts DEF IInv, TypeOK, CallOK, Refused, Active, Member, Begin, At, Goto, db, tokens, stamps, marks, Due, call, out

LEMMA Late_removeMember ==
  ASSUME IInv, TypeOK', NEW c \in Calls, removeMember(c)
  PROVE  Refused'
BY Facts DEF IInv, TypeOK, CallOK, Refused, Active, removeMember, At, Goto, db, tokens, stamps, marks, Due, call, out

LEMMA Late_Invalidate ==
  ASSUME IInv, TypeOK', NEW c \in Calls, Invalidate(c)
  PROVE  Refused'
BY Facts DEF IInv, TypeOK, CallOK, Refused, Active, Invalidate, At, Goto, db, tokens, stamps, marks, Due, call, out

LEMMA Late_removeTenant ==
  ASSUME IInv, TypeOK', NEW c \in Calls, NEW t \in Tenants, removeTenant(c, t)
  PROVE  Refused'
BY Facts DEF IInv, TypeOK, CallOK, Refused, Active, removeTenant, At, Goto, db, tokens, stamps, marks, Due, call, out

LEMMA Late_joinTenant ==
  ASSUME IInv, TypeOK', NEW t \in Tenants, joinTenant(t)
  PROVE  Refused'
BY Facts DEF IInv, TypeOK, CallOK, Refused, Active, joinTenant, At, Goto, db, tokens, stamps, marks, Due, call, out

LEMMA Late_WriteStamp ==
  ASSUME IInv, TypeOK', NEW c \in Calls, WriteStamp(c)
  PROVE  Refused'
BY Facts DEF IInv, TypeOK, CallOK, Refused, Active, WriteStamp, StampKey, HandOut, End, At, Goto, db, tokens, stamps, marks, Due, call, out

LEMMA Late_Fail ==
  ASSUME IInv, TypeOK', NEW c \in Calls, Fail(c)
  PROVE  Refused'
BY Facts DEF IInv, TypeOK, CallOK, Refused, Active, Fail, End, At, Goto, db, tokens, stamps, marks, Due, call, out

LEMMA Late_cleanupExpiredTokens ==
  ASSUME IInv, TypeOK', NEW x \in Tokens, cleanupExpiredTokens(x)
  PROVE  Refused'
BY Facts DEF IInv, TypeOK, CallOK, Refused, Active, cleanupExpiredTokens, InUse, At, Goto, db, tokens, stamps, marks, Due, call, out

LEMMA Late_Tick ==
  ASSUME IInv, TypeOK', Tick
  PROVE  Refused'
BY Facts DEF IInv, TypeOK, CallOK, Refused, Active, Tick, At, Goto, db, tokens, stamps, marks, Due, call, out

LEMMA Stray_Login ==
  ASSUME IInv, TypeOK', NEW c \in Calls, NEW t \in Tenants, Login(c, t)
  PROVE  NoStrayTokens'
BY Facts DEF IInv, TypeOK, CallOK, NoStrayTokens, Login, Begin, NoteLate, At, Goto, db, tokens, stamps, marks, Due, call, out

LEMMA Stray_Refresh ==
  ASSUME IInv, TypeOK', NEW c \in Calls, NEW x \in Tokens, Refresh(c, x)
  PROVE  NoStrayTokens'
BY Facts DEF IInv, TypeOK, CallOK, NoStrayTokens, Refresh, Begin, NoteLate, At, Goto, db, tokens, stamps, marks, Due, call, out

LEMMA Stray_CheckMembership ==
  ASSUME IInv, TypeOK', NEW c \in Calls, CheckMembership(c)
  PROVE  NoStrayTokens'
BY Facts DEF IInv, TypeOK, CallOK, NoStrayTokens, CheckMembership, At, Goto, db, tokens, stamps, marks, Due, call, out

LEMMA Stray_CreateToken ==
  ASSUME IInv, TypeOK', NEW c \in Calls, NEW x \in Tokens, CreateToken(c, x)
  PROVE  NoStrayTokens'
<1>1. rt' = [rt EXCEPT ![x] = "live"] /\ new' = [new EXCEPT ![c] = x] /\ UNCHANGED <<known, leaked>>
  BY DEF CreateToken, out
<1>2. \A d \in Calls \ {c} : new'[d] = new[d]
  BY <1>1 DEF IInv, TypeOK
<1>3. new[c] \notin Tokens
  BY DEF IInv, TypeOK, CallOK, CreateToken, At
<1>4. new'[c] = x /\ \A y \in Tokens \ {x} : rt'[y] = rt[y]
  BY <1>1 DEF IInv, TypeOK
<1>. QED
  BY <1>1, <1>2, <1>3, <1>4 DEF IInv, NoStrayTokens

LEMMA Stray_Sign ==
  ASSUME IInv, TypeOK', NEW c \in Calls, Sign(c)
  PROVE  NoStrayTokens'
BY Facts DEF IInv, TypeOK, CallOK, NoStrayTokens, Sign, HandOut, End, At, Goto, db, tokens, stamps, marks, Due, call, out

LEMMA Stray_Rotate ==
  ASSUME IInv, TypeOK', NEW c \in Calls, Rotate(c)
  PROVE  NoStrayTokens'
BY Facts DEF IInv, TypeOK, CallOK, NoStrayTokens, Rotate, At, Goto, db, tokens, stamps, marks, Due, call, out

LEMMA Stray_Undo ==
  ASSUME IInv, TypeOK', NEW c \in Calls, Undo(c)
  PROVE  NoStrayTokens'
BY Facts DEF IInv, TypeOK, CallOK, NoStrayTokens, Undo, End, At, Goto, db, tokens, stamps, marks, Due, call, out

LEMMA Stray_Logout ==
  ASSUME IInv, TypeOK', NEW c \in Calls, NEW x \in Tokens, Logout(c, x)
  PROVE  NoStrayTokens'
BY Facts DEF IInv, TypeOK, CallOK, NoStrayTokens, Logout, Begin, At, Goto, db, tokens, stamps, marks, Due, call, out

LEMMA Stray_RevokeToken ==
  ASSUME IInv, TypeOK', NEW c \in Calls, RevokeToken(c)
  PROVE  NoStrayTokens'
BY Facts DEF IInv, TypeOK, CallOK, NoStrayTokens, RevokeToken, At, Goto, db, tokens, stamps, marks, Due, call, out

LEMMA Stray_Member ==
  ASSUME IInv, TypeOK', NEW c \in Calls, NEW t \in Tenants, Member(c, t)
  PROVE  NoStrayTokens'
BY Facts DEF IInv, TypeOK, CallOK, NoStrayTokens, Member, Begin, At, Goto, db, tokens, stamps, marks, Due, call, out

LEMMA Stray_removeMember ==
  ASSUME IInv, TypeOK', NEW c \in Calls, removeMember(c)
  PROVE  NoStrayTokens'
BY Facts DEF IInv, TypeOK, CallOK, NoStrayTokens, removeMember, At, Goto, db, tokens, stamps, marks, Due, call, out

LEMMA Stray_Invalidate ==
  ASSUME IInv, TypeOK', NEW c \in Calls, Invalidate(c)
  PROVE  NoStrayTokens'
BY Facts DEF IInv, TypeOK, CallOK, NoStrayTokens, Invalidate, At, Goto, db, tokens, stamps, marks, Due, call, out

LEMMA Stray_removeTenant ==
  ASSUME IInv, TypeOK', NEW c \in Calls, NEW t \in Tenants, removeTenant(c, t)
  PROVE  NoStrayTokens'
BY Facts DEF IInv, TypeOK, CallOK, NoStrayTokens, removeTenant, At, Goto, db, tokens, stamps, marks, Due, call, out

LEMMA Stray_joinTenant ==
  ASSUME IInv, TypeOK', NEW t \in Tenants, joinTenant(t)
  PROVE  NoStrayTokens'
BY Facts DEF IInv, TypeOK, CallOK, NoStrayTokens, joinTenant, At, Goto, db, tokens, stamps, marks, Due, call, out

LEMMA Stray_WriteStamp ==
  ASSUME IInv, TypeOK', NEW c \in Calls, WriteStamp(c)
  PROVE  NoStrayTokens'
BY Facts DEF IInv, TypeOK, CallOK, NoStrayTokens, WriteStamp, StampKey, HandOut, End, At, Goto, db, tokens, stamps, marks, Due, call, out

LEMMA Stray_Fail ==
  ASSUME IInv, TypeOK', NEW c \in Calls, Fail(c)
  PROVE  NoStrayTokens'
BY Facts DEF IInv, TypeOK, CallOK, NoStrayTokens, Fail, End, At, Goto, db, tokens, stamps, marks, Due, call, out

LEMMA Stray_cleanupExpiredTokens ==
  ASSUME IInv, TypeOK', NEW x \in Tokens, cleanupExpiredTokens(x)
  PROVE  NoStrayTokens'
BY Facts DEF IInv, TypeOK, CallOK, NoStrayTokens, cleanupExpiredTokens, InUse, At, Goto, db, tokens, stamps, marks, Due, call, out

LEMMA Stray_Tick ==
  ASSUME IInv, TypeOK', Tick
  PROVE  NoStrayTokens'
BY Facts DEF IInv, TypeOK, CallOK, NoStrayTokens, Tick, At, Goto, db, tokens, stamps, marks, Due, call, out

LEMMA Stamp_Login ==
  ASSUME IInv, TypeOK', NEW c \in Calls, NEW t \in Tenants, Login(c, t)
  PROVE  Stamped'
BY Facts DEF IInv, TypeOK, CallOK, Stamped, Login, Begin, NoteLate, At, Goto, db, tokens, stamps, marks, Due, call, out

LEMMA Stamp_Refresh ==
  ASSUME IInv, TypeOK', NEW c \in Calls, NEW x \in Tokens, Refresh(c, x)
  PROVE  Stamped'
BY Facts DEF IInv, TypeOK, CallOK, Stamped, Refresh, Begin, NoteLate, At, Goto, db, tokens, stamps, marks, Due, call, out

LEMMA Stamp_CheckMembership ==
  ASSUME IInv, TypeOK', NEW c \in Calls, CheckMembership(c)
  PROVE  Stamped'
BY Facts DEF IInv, TypeOK, CallOK, Stamped, CheckMembership, At, Goto, db, tokens, stamps, marks, Due, call, out

LEMMA Stamp_CreateToken ==
  ASSUME IInv, TypeOK', NEW c \in Calls, NEW x \in Tokens, CreateToken(c, x)
  PROVE  Stamped'
BY Facts DEF IInv, TypeOK, CallOK, Stamped, CreateToken, At, Goto, db, tokens, stamps, marks, Due, call, out

LEMMA Stamp_Sign ==
  ASSUME IInv, TypeOK', NEW c \in Calls, Sign(c)
  PROVE  Stamped'
BY Facts DEF IInv, TypeOK, CallOK, Stamped, Sign, HandOut, End, At, Goto, db, tokens, stamps, marks, Due, call, out

LEMMA Stamp_Rotate ==
  ASSUME IInv, TypeOK', NEW c \in Calls, Rotate(c)
  PROVE  Stamped'
<1>1. CASE rt[src[c]] = "live"
  <2>1. sec' = [sec EXCEPT ![c] = now] /\ UNCHANGED <<now, marks>>
    BY <1>1 DEF Rotate
  <2>2. \A d \in Calls : sec'[d] <= now'
    BY <2>1, Facts DEF IInv, TypeOK, Stamped
  <2>. QED
    BY <2>1, <2>2 DEF IInv, Stamped, marks
<1>2. CASE rt[src[c]] # "live"
  BY <1>2, Facts DEF IInv, TypeOK, CallOK, Stamped, Rotate, At, Goto, marks
<1>. QED
  BY <1>1, <1>2

LEMMA Stamp_Undo ==
  ASSUME IInv, TypeOK', NEW c \in Calls, Undo(c)
  PROVE  Stamped'
BY Facts DEF IInv, TypeOK, CallOK, Stamped, Undo, End, At, Goto, db, tokens, stamps, marks, Due, call, out

LEMMA Stamp_Logout ==
  ASSUME IInv, TypeOK', NEW c \in Calls, NEW x \in Tokens, Logout(c, x)
  PROVE  Stamped'
BY Facts DEF IInv, TypeOK, CallOK, Stamped, Logout, Begin, At, Goto, db, tokens, stamps, marks, Due, call, out

LEMMA Stamp_RevokeToken ==
  ASSUME IInv, TypeOK', NEW c \in Calls, RevokeToken(c)
  PROVE  Stamped'
BY Facts DEF IInv, TypeOK, CallOK, Stamped, RevokeToken, At, Goto, db, tokens, stamps, marks, Due, call, out

LEMMA Stamp_Member ==
  ASSUME IInv, TypeOK', NEW c \in Calls, NEW t \in Tenants, Member(c, t)
  PROVE  Stamped'
BY Facts DEF IInv, TypeOK, CallOK, Stamped, Member, Begin, At, Goto, db, tokens, stamps, marks, Due, call, out

LEMMA Stamp_removeMember ==
  ASSUME IInv, TypeOK', NEW c \in Calls, removeMember(c)
  PROVE  Stamped'
BY Facts DEF IInv, TypeOK, CallOK, Stamped, removeMember, At, Goto, db, tokens, stamps, marks, Due, call, out

LEMMA Stamp_Invalidate ==
  ASSUME IInv, TypeOK', NEW c \in Calls, Invalidate(c)
  PROVE  Stamped'
BY Facts DEF IInv, TypeOK, CallOK, Stamped, Invalidate, At, Goto, db, tokens, stamps, marks, Due, call, out

LEMMA Stamp_removeTenant ==
  ASSUME IInv, TypeOK', NEW c \in Calls, NEW t \in Tenants, removeTenant(c, t)
  PROVE  Stamped'
BY Facts DEF IInv, TypeOK, CallOK, Stamped, removeTenant, At, Goto, db, tokens, stamps, marks, Due, call, out

LEMMA Stamp_joinTenant ==
  ASSUME IInv, TypeOK', NEW t \in Tenants, joinTenant(t)
  PROVE  Stamped'
BY Facts DEF IInv, TypeOK, CallOK, Stamped, joinTenant, At, Goto, db, tokens, stamps, marks, Due, call, out

LEMMA Stamp_WriteStamp ==
  ASSUME IInv, TypeOK', NEW c \in Calls, WriteStamp(c)
  PROVE  Stamped'
BY Facts DEF IInv, TypeOK, CallOK, Stamped, WriteStamp, StampKey, HandOut, End, At, Goto, db, tokens, stamps, marks, Due, call, out

LEMMA Stamp_Fail ==
  ASSUME IInv, TypeOK', NEW c \in Calls, Fail(c)
  PROVE  Stamped'
BY Facts DEF IInv, TypeOK, CallOK, Stamped, Fail, End, At, Goto, db, tokens, stamps, marks, Due, call, out

LEMMA Stamp_cleanupExpiredTokens ==
  ASSUME IInv, TypeOK', NEW x \in Tokens, cleanupExpiredTokens(x)
  PROVE  Stamped'
BY Facts DEF IInv, TypeOK, CallOK, Stamped, cleanupExpiredTokens, InUse, At, Goto, db, tokens, stamps, marks, Due, call, out

LEMMA Stamp_Tick ==
  ASSUME IInv, TypeOK', Tick
  PROVE  Stamped'
<1>1. now' = now + 1 /\ now \in Nat /\ UNCHANGED <<cut, reordered, sec>>
  BY Facts DEF IInv, TypeOK, Tick, call
<1>2. \A c \in Calls : sec[c]' <= now'
  <2>1. \A c \in Calls : sec[c] \in Nat /\ sec[c] <= now
    BY Facts DEF IInv, TypeOK, Stamped
  <2>. QED
    BY <1>1, <2>1
<1>3. ASSUME NEW k \in Keys \ reordered
      PROVE  (IF stamp[k] = None THEN cut[k] = 0 \/ cut[k] + Life <= now + 1
              ELSE stamp[k] = cut[k] /\ cut[k] + StampTtl <= until[k])'
  <2>1. cut[k] \in Nat /\ until[k] \in Nat /\ k \in Keys
    BY Facts DEF IInv, TypeOK
  <2>2. CASE until[k] <= now + 1
    <3>1. stamp'[k] = None
      BY <2>1, <2>2 DEF Tick
    <3>2. cut[k] = 0 \/ cut[k] + Life <= now + 2
      BY <1>1, <2>1, <2>2, Facts DEF IInv, Stamped
    <3>. QED
      BY <1>1, <2>1, <3>1, <3>2, Facts
  <2>3. CASE ~(until[k] <= now + 1)
    <3>1. stamp'[k] = stamp[k] /\ until'[k] = until[k]
      BY <2>1, <2>3 DEF Tick
    <3>. QED
      BY <1>1, <2>1, <3>1, Facts DEF IInv, Stamped
  <2>. QED
    BY <2>2, <2>3
<1>. QED
  BY <1>1, <1>2, <1>3 DEF Stamped

LEMMA InitInv == Init => IInv
<1> SUFFICES ASSUME Init PROVE IInv
  OBVIOUS
<1>1. TypeOK
  BY Facts DEF Init, TypeOK, CallOK, Pcs, Exchanging, Access, At
<1>2. Exchanged /\ Refused /\ NoStrayTokens
  BY DEF Init, Exchanged, Answering, Refused, NoStrayTokens, At
<1>3. Stamped
  BY Facts DEF Init, Stamped
<1>. QED
  BY <1>1, <1>2, <1>3 DEF IInv

LEMMA NextInv == IInv /\ [Next]_vars => IInv'
<1> SUFFICES ASSUME IInv, [Next]_vars PROVE IInv'
  OBVIOUS
<1>t. TypeOK
  BY DEF IInv
<1>1. CASE \E c \in Calls, t \in Tenants : Login(c, t)
  <2>1. TypeOK'
    BY <1>t, <1>1, Type_Login
  <2>. QED
    BY <1>1, <2>1, Exchange_Login, Late_Login, Stray_Login, Stamp_Login DEF IInv
<1>2. CASE \E c \in Calls, x \in Tokens : Refresh(c, x)
  <2>1. TypeOK'
    BY <1>t, <1>2, Type_Refresh
  <2>. QED
    BY <1>2, <2>1, Exchange_Refresh, Late_Refresh, Stray_Refresh, Stamp_Refresh DEF IInv
<1>3. CASE \E c \in Calls : CheckMembership(c)
  <2>1. TypeOK'
    BY <1>t, <1>3, Type_CheckMembership
  <2>. QED
    BY <1>3, <2>1, Exchange_CheckMembership, Late_CheckMembership, Stray_CheckMembership, Stamp_CheckMembership DEF IInv
<1>4. CASE \E c \in Calls, x \in Tokens : CreateToken(c, x)
  <2>1. TypeOK'
    BY <1>t, <1>4, Type_CreateToken
  <2>. QED
    BY <1>4, <2>1, Exchange_CreateToken, Late_CreateToken, Stray_CreateToken, Stamp_CreateToken DEF IInv
<1>5. CASE \E c \in Calls : Sign(c)
  <2>1. TypeOK'
    BY <1>t, <1>5, Type_Sign
  <2>. QED
    BY <1>5, <2>1, Exchange_Sign, Late_Sign, Stray_Sign, Stamp_Sign DEF IInv
<1>6. CASE \E c \in Calls : Rotate(c)
  <2>1. TypeOK'
    BY <1>t, <1>6, Type_Rotate
  <2>. QED
    BY <1>6, <2>1, Exchange_Rotate, Late_Rotate, Stray_Rotate, Stamp_Rotate DEF IInv
<1>7. CASE \E c \in Calls : Undo(c)
  <2>1. TypeOK'
    BY <1>t, <1>7, Type_Undo
  <2>. QED
    BY <1>7, <2>1, Exchange_Undo, Late_Undo, Stray_Undo, Stamp_Undo DEF IInv
<1>8. CASE \E c \in Calls, x \in Tokens : Logout(c, x)
  <2>1. TypeOK'
    BY <1>t, <1>8, Type_Logout
  <2>. QED
    BY <1>8, <2>1, Exchange_Logout, Late_Logout, Stray_Logout, Stamp_Logout DEF IInv
<1>9. CASE \E c \in Calls : RevokeToken(c)
  <2>1. TypeOK'
    BY <1>t, <1>9, Type_RevokeToken
  <2>. QED
    BY <1>9, <2>1, Exchange_RevokeToken, Late_RevokeToken, Stray_RevokeToken, Stamp_RevokeToken DEF IInv
<1>10. CASE \E c \in Calls, t \in Tenants : Member(c, t)
  <2>1. TypeOK'
    BY <1>t, <1>10, Type_Member
  <2>. QED
    BY <1>10, <2>1, Exchange_Member, Late_Member, Stray_Member, Stamp_Member DEF IInv
<1>11. CASE \E c \in Calls : removeMember(c)
  <2>1. TypeOK'
    BY <1>t, <1>11, Type_removeMember
  <2>. QED
    BY <1>11, <2>1, Exchange_removeMember, Late_removeMember, Stray_removeMember, Stamp_removeMember DEF IInv
<1>12. CASE \E c \in Calls : Invalidate(c)
  <2>1. TypeOK'
    BY <1>t, <1>12, Type_Invalidate
  <2>. QED
    BY <1>12, <2>1, Exchange_Invalidate, Late_Invalidate, Stray_Invalidate, Stamp_Invalidate DEF IInv
<1>13. CASE \E c \in Calls, t \in Tenants : removeTenant(c, t)
  <2>1. TypeOK'
    BY <1>t, <1>13, Type_removeTenant
  <2>. QED
    BY <1>13, <2>1, Exchange_removeTenant, Late_removeTenant, Stray_removeTenant, Stamp_removeTenant DEF IInv
<1>14. CASE \E t \in Tenants : joinTenant(t)
  <2>1. TypeOK'
    BY <1>t, <1>14, Type_joinTenant
  <2>. QED
    BY <1>14, <2>1, Exchange_joinTenant, Late_joinTenant, Stray_joinTenant, Stamp_joinTenant DEF IInv
<1>15. CASE \E c \in Calls : WriteStamp(c)
  <2>1. TypeOK'
    BY <1>t, <1>15, Type_WriteStamp
  <2>. QED
    BY <1>15, <2>1, Exchange_WriteStamp, Late_WriteStamp, Stray_WriteStamp, Stamp_WriteStamp DEF IInv
<1>16. CASE \E c \in Calls : Fail(c)
  <2>1. TypeOK'
    BY <1>t, <1>16, Type_Fail
  <2>. QED
    BY <1>16, <2>1, Exchange_Fail, Late_Fail, Stray_Fail, Stamp_Fail DEF IInv
<1>17. CASE \E x \in Tokens : cleanupExpiredTokens(x)
  <2>1. TypeOK'
    BY <1>t, <1>17, Type_cleanupExpiredTokens
  <2>. QED
    BY <1>17, <2>1, Exchange_cleanupExpiredTokens, Late_cleanupExpiredTokens, Stray_cleanupExpiredTokens, Stamp_cleanupExpiredTokens DEF IInv
<1>18. CASE Tick
  <2>1. TypeOK'
    BY <1>t, <1>18, Type_Tick
  <2>. QED
    BY <1>18, <2>1, Exchange_Tick, Late_Tick, Stray_Tick, Stamp_Tick DEF IInv
<1>19. CASE UNCHANGED vars
  BY <1>19 DEF vars, db, tokens, stamps, marks, Due, call, out, IInv, TypeOK, CallOK, Exchanged, Answering, Refused, NoStrayTokens, Stamped, Active, At
<1>. QED
  BY <1>1, <1>2, <1>3, <1>4, <1>5, <1>6, <1>7, <1>8, <1>9, <1>10, <1>11, <1>12, <1>13, <1>14, <1>15, <1>16, <1>17, <1>18, <1>19 DEF Next, Start, Go

LEMMA StampsHold == IInv => RevocationSticks
<1> SUFFICES ASSUME IInv, NEW a \in access, NEW k \in {User, a.ten} \ reordered,
                    a.iat < cut[k], Accepted(a)
             PROVE  FALSE
  BY DEF RevocationSticks
<1>1. a.iat \in Nat /\ a.ten \in Tenants /\ k \in Keys /\ now \in Nat /\ cut[k] \in Nat
  BY Facts DEF IInv, TypeOK, Access
<1>2. now < a.iat + Life /\ ~Revoked(k, a)
  BY <1>1 DEF Accepted
<1>3. CASE stamp[k] = None
  <2>1. cut[k] + Life <= now + 1
    BY <1>1, <1>3 DEF IInv, Stamped
  <2>. QED
    BY <1>1, <1>2, <2>1, Facts
<1>4. CASE stamp[k] # None
  BY <1>1, <1>2, <1>4 DEF IInv, Stamped, Revoked
<1>. QED
  BY <1>3, <1>4

----------------------------------------------------------------------------
(* ReturnedRevokes: a second that is due is covered by the latest stamp or by
   that of a call that still owes it. *)
Covers(c, k) == Owes(c, k) /\ (At(c, "write") => due[k] <= sec[c])

Completed ==
  /\ \A k \in Keys : due[k] <= now /\ cut[k] <= now
  /\ \A k \in Keys \ reordered : due[k] <= cut[k] \/ \E c \in Calls : Covers(c, k)

LEMMA CompletedKept ==
  ASSUME TypeOK, Completed, now' \in Nat, now' >= now, UNCHANGED <<due, cut, reordered>>,
         \A c \in Calls, k \in Keys : Covers(c, k) => Covers(c, k)'
  PROVE  Completed'
<1>1. now \in Nat /\ \A k \in Keys : due[k] \in Nat /\ cut[k] \in Nat
  BY Facts DEF TypeOK
<1>. QED
  BY <1>1 DEF Completed

(* A call that owes nothing, neither before nor after, leaves the others' debts. *)
LEMMA CompletedOther ==
  ASSUME TypeOK, Completed, NEW c \in Calls, NEW l, Goto(c, l), pc[c] \notin {"invalidate", "write"},
         UNCHANGED <<now, due, cut, reordered>>,
         \A d \in Calls \ {c} : op'[d] = op[d] /\ ten'[d] = ten[d] /\ sec'[d] = sec[d]
  PROVE  Completed'
<1>1. now \in Nat
  BY Facts DEF TypeOK
<1>2. ASSUME NEW d \in Calls, NEW k \in Keys, Covers(d, k) PROVE Covers(d, k)'
  <2>1. d # c /\ pc'[d] = pc[d]
    BY <1>2 DEF Covers, Owes, Goto, TypeOK
  <2>. QED
    BY <1>2, <2>1 DEF Covers, Owes, StampKey, At
<1>. QED
  BY <1>1, <1>2, CompletedKept

(* A call makes a second due and owes the stamp for it. *)
LEMMA CompletedDue ==
  ASSUME TypeOK, Completed, NEW c \in Calls, NEW k \in Keys, Due(k), Owes(c, k)',
         At(c, "write")' => sec'[c] = now,
         pc[c] \notin {"invalidate", "write"}, UNCHANGED <<now, cut, reordered>>,
         \A d \in Calls \ {c} : pc'[d] = pc[d] /\ op'[d] = op[d] /\ ten'[d] = ten[d] /\ sec'[d] = sec[d]
  PROVE  Completed'
<1>0. now \in Nat /\ due \in [Keys -> Time] /\ \A j \in Keys : due[j] \in Nat
  BY Facts DEF TypeOK
<1>1. \A j \in Keys : due'[j] <= now' /\ cut'[j] <= now'
  BY <1>0 DEF Completed, Due
<1>2. Covers(c, k)'
  BY <1>0 DEF Covers, Due
<1>3. ASSUME NEW j \in Keys, j # k, NEW d \in Calls, Covers(d, j) PROVE Covers(d, j)'
  <2>1. d # c /\ due'[j] = due[j]
    BY <1>0, <1>3 DEF Covers, Owes, Due
  <2>. QED
    BY <1>3, <2>1 DEF Covers, Owes, StampKey, At
<1>4. \A j \in Keys : j # k => due'[j] = due[j]
  BY <1>0 DEF Due
<1>. QED
  BY <1>1, <1>2, <1>3, <1>4 DEF Completed

LEMMA CompletedStep == TypeOK /\ Stamped /\ Completed /\ [Next]_vars => Completed'
<1> SUFFICES ASSUME TypeOK, Stamped, Completed, [Next]_vars PROVE Completed'
  OBVIOUS
<1>0. /\ now \in Nat /\ due \in [Keys -> Time] /\ cut \in [Keys -> Time] /\ sec \in [Calls -> Time]
      /\ pc \in [Calls -> Pcs] /\ \A k \in Keys : due[k] \in Nat /\ cut[k] \in Nat
      /\ User \in Keys /\ Tenants \subseteq Keys /\ User \notin Tenants
  BY Facts DEF TypeOK
<1>1. ASSUME NEW c \in Calls,
             \/ \E t \in Tenants : Login(c, t) \/ Member(c, t)
             \/ \E x \in Tokens : Refresh(c, x) \/ Logout(c, x)
      PROVE  Completed'
  <2>1. PICK l : Goto(c, l) /\ pc[c] = "idle"
    BY <1>1 DEF Login, Member, Refresh, Logout, Begin, At
  <2>2. UNCHANGED <<now, due, cut, reordered>>
        /\ \A d \in Calls \ {c} : op'[d] = op[d] /\ ten'[d] = ten[d] /\ sec'[d] = sec[d]
    BY <1>1 DEF Login, Member, Refresh, Logout, Begin, stamps, marks, TypeOK
  <2>. QED
    BY <2>1, <2>2, CompletedOther
<1>2. ASSUME NEW c \in Calls,
             CheckMembership(c) \/ (\E y \in Tokens : CreateToken(c, y)) \/ Sign(c) \/ Undo(c)
      PROVE  Completed'
  <2>1. PICK l : Goto(c, l)
    BY <1>2 DEF CheckMembership, CreateToken, Sign, Undo, End
  <2>2. pc[c] \in {"member", "create", "sign", "undo"}
    BY <1>2 DEF CheckMembership, CreateToken, Sign, Undo, At
  <2>3. UNCHANGED <<now, due, cut, reordered>>
    BY <1>2 DEF CheckMembership, CreateToken, Sign, Undo, stamps, marks
  <2>4. \A d \in Calls \ {c} : op'[d] = op[d] /\ ten'[d] = ten[d] /\ sec'[d] = sec[d]
    BY <1>2 DEF CheckMembership, CreateToken, Sign, Undo, End, TypeOK
  <2>. QED
    BY <2>1, <2>2, <2>3, <2>4, CompletedOther
<1>3. ASSUME NEW c \in Calls, Rotate(c) PROVE Completed'
  <2>1. pc[c] = "rotate" /\ op[c] = "refresh" /\ UNCHANGED <<now, cut, reordered, op, ten>>
    BY <1>3 DEF Rotate, marks, TypeOK, CallOK, At
  <2>2. CASE rt[src[c]] = "live"
    <3>1. Due(User) /\ sec' = [sec EXCEPT ![c] = now] /\ pc' = [pc EXCEPT ![c] = "write"]
      BY <1>3, <2>2 DEF Rotate, Goto
    <3>2. Owes(c, User)' /\ sec'[c] = now
      BY <1>0, <2>1, <3>1 DEF Owes, StampKey
    <3>3. \A d \in Calls \ {c} : pc'[d] = pc[d] /\ op'[d] = op[d] /\ ten'[d] = ten[d] /\ sec'[d] = sec[d]
      BY <1>0, <2>1, <3>1
    <3>. QED
      BY <1>0, <2>1, <3>1, <3>2, <3>3, CompletedDue
  <2>3. CASE rt[src[c]] # "live"
    <3>1. Goto(c, "undo") /\ UNCHANGED <<due, sec>>
      BY <1>3, <2>3 DEF Rotate
    <3>. QED
      BY <2>1, <3>1, CompletedOther
  <2>. QED
    BY <2>2, <2>3
<1>4. ASSUME NEW c \in Calls, RevokeToken(c) PROVE Completed'
  <2>1. /\ pc[c] = "revoke" /\ op[c] = "logout" /\ UNCHANGED <<now, cut, reordered, op, ten>>
        /\ Due(User) /\ sec' = [sec EXCEPT ![c] = now] /\ pc' = [pc EXCEPT ![c] = "write"]
    BY <1>4 DEF RevokeToken, Goto, marks, TypeOK, CallOK, At
  <2>2. Owes(c, User)' /\ sec'[c] = now
    BY <1>0, <2>1 DEF Owes, StampKey
  <2>3. \A d \in Calls \ {c} : pc'[d] = pc[d] /\ op'[d] = op[d] /\ ten'[d] = ten[d] /\ sec'[d] = sec[d]
    BY <1>0, <2>1
  <2>. QED
    BY <1>0, <2>1, <2>2, <2>3, CompletedDue
<1>5. ASSUME NEW c \in Calls, removeMember(c) PROVE Completed'
  <2>1. /\ pc[c] = "remove" /\ op[c] = "removeMember" /\ UNCHANGED <<now, cut, reordered, op, ten, sec>>
        /\ Due(User) /\ pc' = [pc EXCEPT ![c] = "invalidate"]
    BY <1>5 DEF removeMember, Goto, marks, TypeOK, CallOK, At
  <2>2. Owes(c, User)' /\ ~At(c, "write")'
    BY <1>0, <2>1 DEF Owes, StampKey, At
  <2>3. \A d \in Calls \ {c} : pc'[d] = pc[d] /\ op'[d] = op[d] /\ ten'[d] = ten[d] /\ sec'[d] = sec[d]
    BY <1>0, <2>1
  <2>. QED
    BY <1>0, <2>1, <2>2, <2>3, CompletedDue
<1>6. ASSUME NEW c \in Calls, NEW t \in Tenants, removeTenant(c, t) PROVE Completed'
  <2>1. /\ pc[c] = "idle" /\ UNCHANGED <<now, cut, reordered>>
        /\ op' = [op EXCEPT ![c] = "removeTenant"] /\ ten' = [ten EXCEPT ![c] = t]
        /\ Due(t) /\ sec' = [sec EXCEPT ![c] = now] /\ pc' = [pc EXCEPT ![c] = "write"]
    BY <1>6 DEF removeTenant, Goto, marks, At
  <2>2. Owes(c, t)' /\ sec'[c] = now
    BY <1>0, <2>1 DEF Owes, StampKey, TypeOK
  <2>3. \A d \in Calls \ {c} : pc'[d] = pc[d] /\ op'[d] = op[d] /\ ten'[d] = ten[d] /\ sec'[d] = sec[d]
    BY <1>0, <2>1 DEF TypeOK
  <2>. QED
    BY <1>0, <2>1, <2>2, <2>3, CompletedDue
<1>7. ASSUME NEW c \in Calls, Invalidate(c) PROVE Completed'
  <2>1. /\ pc[c] = "invalidate" /\ sec' = [sec EXCEPT ![c] = now] /\ pc' = [pc EXCEPT ![c] = "write"]
        /\ UNCHANGED <<now, due, cut, reordered, op, ten>>
    BY <1>7 DEF Invalidate, Goto, stamps, marks, At
  <2>2. ASSUME NEW d \in Calls, NEW k \in Keys, Covers(d, k) PROVE Covers(d, k)'
    <3>1. CASE d = c
      BY <1>0, <2>1, <2>2, <3>1 DEF Covers, Owes, StampKey, Completed
    <3>2. CASE d # c
      BY <1>0, <2>1, <2>2, <3>2 DEF Covers, Owes, StampKey, At
    <3>. QED
      BY <3>1, <3>2
  <2>. QED
    BY <1>0, <2>1, <2>2, CompletedKept
<1>8. ASSUME NEW c \in Calls, WriteStamp(c) PROVE Completed'
  <2> DEFINE j == StampKey(c)
  <2>1. pc[c] = "write" /\ j \in Keys
    BY <1>0, <1>8 DEF WriteStamp, TypeOK, CallOK, StampKey, At
  <2>2. /\ cut' = [cut EXCEPT ![j] = IF sec[c] > cut[j] THEN sec[c] ELSE cut[j]]
        /\ reordered \subseteq reordered'
        /\ UNCHANGED <<now, due>>
        /\ \A d \in Calls \ {c} : pc'[d] = pc[d] /\ op'[d] = op[d] /\ ten'[d] = ten[d] /\ sec'[d] = sec[d]
    BY <1>8 DEF WriteStamp, End, Goto, TypeOK
  <2> HIDE DEF j
  <2>3. sec[c] \in Nat
    BY <1>0, Facts
  <2>4. /\ \A k \in Keys : cut'[k] >= cut[k] /\ cut'[k] \in Nat
        /\ cut'[j] >= sec[c]
    BY <1>0, <2>1, <2>2, <2>3
  <2>6. \A k \in Keys : cut'[k] <= now
    BY <1>0, <2>1, <2>2, <2>3 DEF Completed, Stamped
  <2>5. ASSUME NEW k \in Keys \ reordered' PROVE due[k] <= cut'[k] \/ \E d \in Calls : Covers(d, k)'
    <3>1. CASE due[k] <= cut[k]
      BY <1>0, <2>4, <3>1
    <3>2. CASE Covers(c, k)
      <4>1. k = j /\ due[k] <= sec[c]
        BY <2>1, <3>2 DEF Covers, Owes, At, j
      <4>. QED
        BY <1>0, <2>3, <2>4, <4>1
    <3>3. ASSUME NEW d \in Calls \ {c}, Covers(d, k) PROVE Covers(d, k)'
      BY <2>2, <3>3 DEF Covers, Owes, StampKey, At
    <3>. QED
      BY <2>2, <2>5, <3>1, <3>2, <3>3 DEF Completed
  <2>. QED
    BY <2>2, <2>5, <2>6 DEF Completed
<1>9. ASSUME NEW c \in Calls, Fail(c) PROVE Completed'
  <2>1. /\ due' = [k \in Keys |-> IF Owes(c, k) THEN cut[k] ELSE due[k]]
        /\ UNCHANGED <<now, cut, reordered>>
        /\ \A d \in Calls \ {c} : pc'[d] = pc[d] /\ op'[d] = op[d] /\ ten'[d] = ten[d] /\ sec'[d] = sec[d]
    BY <1>9 DEF Fail, End, Goto, marks, TypeOK
  <2>2. ASSUME NEW k \in Keys, Owes(c, k) PROVE due'[k] = cut[k]
    BY <2>1, <2>2
  <2>3. ASSUME NEW k \in Keys, ~Owes(c, k) PROVE due'[k] = due[k]
    BY <2>1, <2>3
  <2>4. ASSUME NEW k \in Keys, NEW d \in Calls, ~Owes(c, k), Covers(d, k) PROVE Covers(d, k)'
    <3>1. d # c
      BY <2>4 DEF Covers
    <3>. QED
      BY <2>1, <2>3, <2>4, <3>1 DEF Covers, Owes, StampKey, At
  <2>5. ASSUME NEW k \in Keys \ reordered' PROVE due'[k] <= cut'[k] \/ \E d \in Calls : Covers(d, k)'
    <3>1. CASE Owes(c, k)
      BY <1>0, <2>1, <2>2, <2>5, <3>1
    <3>2. CASE ~Owes(c, k)
      <4>1. due'[k] = due[k] /\ k \in Keys \ reordered /\ cut' = cut
        BY <2>1, <2>3, <2>5, <3>2
      <4>2. CASE due[k] <= cut[k]
        BY <4>1, <4>2
      <4>3. CASE \E d \in Calls : Covers(d, k)
        BY <2>4, <3>2, <4>1, <4>3
      <4>. QED
        BY <1>0, <4>1, <4>2, <4>3 DEF Completed
    <3>. QED
      BY <3>1, <3>2
  <2>6. \A k \in Keys : due'[k] <= now /\ cut'[k] <= now
    BY <2>1 DEF Completed
  <2>. QED
    BY <2>1, <2>5, <2>6 DEF Completed
<1>10. CASE \/ Tick \/ UNCHANGED vars
            \/ (\E t \in Tenants : joinTenant(t)) \/ \E x \in Tokens : cleanupExpiredTokens(x)
  <2>1. UNCHANGED <<due, cut, reordered, pc, op, ten, sec>> /\ (now' = now \/ now' = now + 1)
    BY <1>10 DEF Tick, joinTenant, cleanupExpiredTokens, vars, stamps, marks, call
  <2>2. \A c \in Calls, k \in Keys : Covers(c, k) => Covers(c, k)'
    BY <2>1 DEF Covers, Owes, StampKey, At
  <2>. QED
    BY <1>0, <2>1, <2>2, CompletedKept
<1>. QED
  BY <1>1, <1>2, <1>3, <1>4, <1>5, <1>6, <1>7, <1>8, <1>9, <1>10 DEF Next, Start, Go

----------------------------------------------------------------------------
(* A refresh token never leaves "dead", and no token that was made is unmade. *)
Kept == /\ \A x \in Tokens : rt[x] = "dead" => rt'[x] = "dead"
        /\ \A x \in Tokens : rt[x] = "live" => rt'[x] # "free"

LEMMA TokensKept == TypeOK /\ [Next]_vars => Kept
<1> SUFFICES ASSUME TypeOK, [Next]_vars PROVE Kept
  OBVIOUS
<1>1. ASSUME NEW c \in Calls, Start(c) PROVE Kept
  <2>1. CASE rt' = rt
    BY <2>1 DEF Kept
  <2>2. ASSUME NEW t \in Tenants, removeTenant(c, t) PROVE Kept
    BY <2>2 DEF removeTenant, TypeOK, Kept
  <2>. QED
    BY <1>1, <2>1, <2>2 DEF Start, Login, Member, Refresh, Logout, db
<1>2. ASSUME NEW c \in Calls, Go(c) PROVE Kept
  <2>1. CASE rt' = rt
    BY <2>1 DEF Kept
  <2>2. CASE \E y \in Tokens : CreateToken(c, y)
    BY <2>2 DEF CreateToken, TypeOK, Kept
  <2>3. CASE Rotate(c) \/ Undo(c) \/ RevokeToken(c)
    BY <2>3 DEF Rotate, Undo, RevokeToken, TypeOK, Kept
  <2>4. CASE removeMember(c)
    BY <2>4 DEF removeMember, TypeOK, Kept
  <2>. QED
    BY <1>2, <2>1, <2>2, <2>3, <2>4
    DEF Go, CheckMembership, Sign, Invalidate, WriteStamp, Fail, db
<1>3. CASE (\E t \in Tenants : joinTenant(t)) \/ Tick \/ UNCHANGED vars
  BY <1>3 DEF joinTenant, Tick, vars, db, tokens, Kept
<1>4. ASSUME NEW x \in Tokens, cleanupExpiredTokens(x) PROVE Kept
  BY <1>4 DEF cleanupExpiredTokens, TypeOK, Kept
<1>. QED
  BY <1>1, <1>2, <1>3, <1>4 DEF Next

(* A pair is granted for a token by the one call that exchanged it. *)
Granted == \A x \in Tokens : given'[x] # given[x] => given[x] = 0 /\ given'[x] = 1 /\ rt'[x] = "dead"

LEMMA TokensGranted == TypeOK /\ Exchanged /\ [Next]_vars => Granted
<1> SUFFICES ASSUME TypeOK, Exchanged, [Next]_vars PROVE Granted
  OBVIOUS
<1>1. CASE given' = given
  BY <1>1 DEF Granted
<1>2. ASSUME NEW c \in Calls, Sign(c) PROVE Granted
  BY <1>2 DEF Sign, HandOut, TypeOK, CallOK, Exchanging, out, Granted
<1>3. ASSUME NEW c \in Calls, WriteStamp(c) PROVE Granted
  <2>1. CASE op[c] # "refresh"
    BY <1>3, <2>1 DEF WriteStamp, out, Granted
  <2>2. CASE op[c] = "refresh"
    <3>1. given[src[c]] = 0 /\ rt[src[c]] = "dead" /\ rt' = rt
      BY <1>3, <2>2 DEF WriteStamp, Exchanged, Answering, db
    <3>2. given' = IF src[c] = None THEN given ELSE [given EXCEPT ![src[c]] = @ + 1]
      BY <1>3, <2>2 DEF WriteStamp, HandOut
    <3>. QED
      BY <3>1, <3>2 DEF TypeOK, Granted
  <2>. QED
    BY <2>1, <2>2
<1>4. given' = given \/ (\E c \in Calls : Sign(c) \/ WriteStamp(c))
  <2>1. ASSUME NEW c \in Calls, Start(c) PROVE given' = given
    BY <2>1 DEF Start, Login, Member, Refresh, Logout, removeTenant, out
  <2>2. ASSUME NEW c \in Calls, Go(c), ~Sign(c), ~WriteStamp(c) PROVE given' = given
    BY <2>2 DEF Go, CheckMembership, CreateToken, Rotate, Undo, RevokeToken, removeMember, Invalidate, Fail, out
  <2>3. CASE \/ (\E t \in Tenants : joinTenant(t)) \/ Tick \/ UNCHANGED vars
             \/ \E x \in Tokens : cleanupExpiredTokens(x)
    BY <2>3 DEF joinTenant, Tick, cleanupExpiredTokens, vars, out
  <2>. QED
    BY <2>1, <2>2, <2>3 DEF Next
<1>. QED
  BY <1>1, <1>2, <1>3, <1>4

----------------------------------------------------------------------------
(* Every call is at a step of its operation and holds the token it needs.
   (auth.service 124-279) *)
THEOREM TypeCorrect == Spec => []TypeOK
<1>1. IInv => TypeOK
  BY DEF IInv
<1>. QED
  BY <1>1, InitInv, NextInv, PTL DEF Spec

(* However many refreshes and logouts race, a refresh token buys one pair.
   (auth.service 145-155) *)
THEOREM TokenExchangedOnce == Spec => []OneExchange
<1>1. IInv => OneExchange
  BY DEF IInv, Exchanged, OneExchange
<1>. QED
  BY <1>1, InitInv, NextInv, PTL DEF Spec

(* A login or refresh begun on an inactive tenant or membership gets nothing.
   (auth.service 137) *)
THEOREM LateCallsRefused == Spec => []LateRefused
<1>1. IInv => LateRefused
  BY DEF IInv, Refused, LateRefused
<1>. QED
  BY <1>1, InitInv, NextInv, PTL DEF Spec

(* An exchangeable token nobody was given belongs to a call at work or a failed one.
   (auth.service 149-153) *)
THEOREM NoStrays == Spec => []NoStrayTokens
<1>1. IInv => NoStrayTokens
  BY DEF IInv
<1>. QED
  BY <1>1, InitInv, NextInv, PTL DEF Spec

(* A revoked access token stays refused until it expires, given that a stamp lives
   as long as the tokens before it and stamps are written in order.
   (jwt.strategy 33-39) *)
THEOREM RevocationsStick == Spec => []RevocationSticks
<1>. QED
  BY StampsHold, InitInv, NextInv, PTL DEF Spec

(* RevocationsComplete: whoever logs out, refreshes, removes the member or the
   tenant: once the call has returned, the access tokens signed before the second
   in which it changed the database are refused.  It rests on RevocationsStick and
   on the stamp being no older than the change. (tenancy.service 84-100) *)
THEOREM RevocationsComplete == Spec => []ReturnedRevokes
<1>1. Init => Completed
  BY Facts DEF Init, Completed
<1>2. IInv /\ Completed => ReturnedRevokes
  <2> SUFFICES ASSUME IInv, Completed, NEW a \in access, NEW k \in {User, a.ten} \ reordered,
                      a.iat < due[k], Accepted(a)
               PROVE  \E c \in Calls : Owes(c, k)
    BY DEF ReturnedRevokes
  <2>1. /\ a.iat \in Nat /\ k \in Keys /\ cut[k] \in Nat /\ due[k] \in Nat
    BY Facts DEF IInv, TypeOK, Access
  <2>2. RevocationSticks
    BY StampsHold
  <2>3. ~(a.iat < cut[k])
    BY <2>2 DEF RevocationSticks
  <2>4. ~(due[k] <= cut[k])
    BY <2>1, <2>3
  <2>. QED
    BY <2>1, <2>4 DEF Completed, Covers
<1>3. IInv => TypeOK /\ Stamped
  BY DEF IInv
<1>. QED
  BY <1>1, <1>2, <1>3, InitInv, NextInv, CompletedStep, PTL DEF Spec

(* TokensAreSingleUse: refresh tokens implement SingleUse, whatever rotations,
   logouts, removals, cleanups and failures race: none returns to force, and a
   pair is granted once, for a token that has left it. (auth.service 124-169) *)
THEOREM TokensAreSingleUse == Spec => TokensSingleUse
<1>1. Init => Once!Init
  BY DEF Init, Once!Init
<1>2. IInv /\ IInv' /\ [Next]_vars => [Once!Next]_Once!vars
  <2> SUFFICES ASSUME IInv, IInv', [Next]_vars PROVE Once!Next
    OBVIOUS
  <2>1. Kept /\ Granted
    BY TokensKept, TokensGranted DEF IInv
  <2>. QED
    BY <2>1 DEF Kept, Granted, Once!Next, Once!Issue, Once!Spend, Once!Grant, IInv, TypeOK
<1>. QED
  BY <1>1, <1>2, InitInv, NextInv, PTL DEF Spec, TokensSingleUse, Once!Spec

=============================================================================

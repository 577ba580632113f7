-------------------------- MODULE VerificationCode --------------------------
(* Codes sent to one e-mail address or phone number, and the logins that use
   them: src/auth/verification-code.service, AuthService.loginByEmailCode and
   loginByPhoneCode with registerVerifiedUser.

   Addresses share nothing, so one is modelled.  Redis holds the address's code
   and cooldown keys, each with the time it expires; a step ends at each await.
   A code is named by the send that made it: 20 bits of chance are taken to
   differ.  With FixedCode (VERIFY_CODE_FIXED) all sends make the same code. *)
EXTENDS Naturals

CONSTANTS
  Sends, Logins,  \* calls of send, clients that call loginBy...Code again and again
  Cooldown, Ttl,  \* VERIFY_CODE_COOLDOWN_SECONDS, VERIFY_CODE_TTL_SECONDS
  SendTime,       \* the longest a send takes, its delivery included
  FixedCode,
  MaxTime,        \* bound: the clock
  MaxFaults,      \* bound: calls of Redis or the database that fail, and crashes
  MaxChanges,     \* bound: changes administrators begin
  None

ASSUME CodesAssumption ==
  /\ Cooldown \in Nat \ {0} /\ Ttl \in Nat \ {0}
  /\ SendTime \in Nat \ {0} /\ MaxTime \in Nat
  /\ MaxFaults \in Nat /\ MaxChanges \in Nat
  /\ FixedCode \in BOOLEAN
  /\ None \notin Sends

VARIABLES
  now,
  code, codeEnd,    \* the code key: the send it is of, and when it expires
  coolEnd,          \* when the cooldown key expires (0: no key)
  spc, began,       \* each send's step, and when it took the cooldown
  lpc,              \* the step of each client's login; between two, whether it was
                    \* turned away after its code was taken
  known,            \* sends whose code has reached the address's owner
  user,             \* the address's user; the membership of one who is "removed" is
                    \* inactive, one who is "bare" has none
  home,             \* the tenant users belong to and join: up, up without an
                    \* enabled member role, or down
  last, lastEnd,    \* history: the newest stored code, and when it expires
  uses,             \* history: the logins each send's code was taken by, counted
  overran,          \* history: a send wrote a key after its own cooldown was over
  fit,              \* history: logins whose code was taken when nothing stood against
                    \* them, and for whom nobody else changed user or home since
  faults, changes

redis   == <<code, codeEnd, coolEnd>>
people  == <<user, home, changes, fit>>
history == <<last, lastEnd, uses, overran>>
vars == <<now, redis, spc, began, lpc, known, people, history, faults>>

SendPcs  == {"new", "store", "deliver", "undo", "sent", "failed", "refused", "lost"}
LoginPcs == {"new", "find", "register", "create", "session", "turnedAway"}

Sending == {s \in Sends : spc[s] \in {"store", "deliver", "undo"}}
SendTo(s, l)  == spc' = [spc EXCEPT ![s] = l]
LoginTo(l, p) == lpc' = [lpc EXCEPT ![l] = p]

Init ==
  /\ now = 0
  /\ code = None /\ codeEnd = 0 /\ coolEnd = 0
  /\ spc = [s \in Sends |-> "new"] /\ began = [s \in Sends |-> 0]
  /\ lpc = [l \in Logins |-> "new"]
  /\ known = {}
  /\ user \in {"absent", "active"} /\ home = "up"
  /\ last = None /\ lastEnd = 0
  /\ uses = [s \in Sends |-> 0]
  /\ overran = FALSE /\ fit = {}
  /\ faults = 0 /\ changes = 0

Late(s) == overran' = (overran \/ now >= began[s] + Cooldown)

----------------------------------------------------------------------------
(* Bug: SET without NX: a send never finds the cooldown taken. *)
Begin_NoNx(s) ==
  /\ spc[s] = "new"
  /\ coolEnd' = now + Cooldown
  /\ began' = [began EXCEPT ![s] = now]
  /\ SendTo(s, "store")
  /\ UNCHANGED <<now, code, codeEnd, lpc, known, people, history, faults>>

(* SET NX EX of the cooldown key. *)
Cooled(s) ==
  /\ coolEnd <= now /\ coolEnd' = now + Cooldown
  /\ began' = [began EXCEPT ![s] = now]
  /\ UNCHANGED <<code, codeEnd, last, lastEnd, overran>>

Begin(s) ==
  /\ spc[s] = "new"
  /\ \/ Cooled(s) /\ SendTo(s, "store")
     \/ coolEnd > now /\ SendTo(s, "refused") /\ UNCHANGED <<redis, began, last, lastEnd, overran>>
  /\ UNCHANGED <<now, lpc, known, people, uses, faults>>

(* SET EX of the code key, over whatever code it holds. *)
Stored(s) ==
  /\ code' = s /\ codeEnd' = now + Ttl
  /\ last' = s /\ lastEnd' = now + Ttl /\ Late(s)
  /\ UNCHANGED <<coolEnd, began>>

Store(s) ==
  /\ spc[s] = "store" /\ SendTo(s, "deliver") /\ Stored(s)
  /\ UNCHANGED <<now, lpc, known, people, uses, faults>>

(* The provider accepts the code, or throws: then it may have been delivered
   all the same. *)
Deliver(s) ==
  /\ spc[s] = "deliver"
  /\ \/ SendTo(s, "sent") /\ known' = known \cup {s}
     \/ SendTo(s, "undo") /\ known' \in {known, known \cup {s}}
  /\ UNCHANGED <<now, redis, began, lpc, people, history, faults>>

(* Bug: a failed delivery takes back only the cooldown. *)
Undo_KeepsCode(s) ==
  /\ spc[s] = "undo" /\ SendTo(s, "failed")
  /\ coolEnd' = 0 /\ Late(s)
  /\ UNCHANGED <<now, code, codeEnd, began, lpc, known, people, last, lastEnd, uses, faults>>

(* DEL of both keys, whoever set them. *)
Dropped(s) ==
  /\ code' = None /\ codeEnd' = 0 /\ coolEnd' = 0 /\ Late(s)
  /\ UNCHANGED <<began, last, lastEnd>>

Undo(s) ==
  /\ spc[s] = "undo" /\ SendTo(s, "failed") /\ Dropped(s)
  /\ UNCHANGED <<now, lpc, known, people, uses, faults>>

(* A Redis call of a send throws, carried out or not, or its process dies:
   nothing is taken back. *)
SendDies(s) ==
  /\ s \in Sending \/ spc[s] = "new"
  /\ faults < MaxFaults /\ faults' = faults + 1 /\ SendTo(s, "lost")
  /\ \/ spc[s] = "new" /\ Cooled(s)
     \/ spc[s] = "store" /\ Stored(s)
     \/ spc[s] = "undo" /\ Dropped(s)
     \/ spc[s] # "new" /\ UNCHANGED <<redis, began, last, lastEnd, overran>>
  /\ UNCHANGED <<now, lpc, known, people, uses>>

----------------------------------------------------------------------------
Matches(s) == code # None /\ codeEnd > now /\ (FixedCode \/ code = s)

(* Bug: the code is compared and not deleted. *)
Consume_Keeps(l) ==
  /\ lpc[l] \in {"new", "turnedAway"} /\ \E s \in known : Matches(s)
  /\ uses' = [uses EXCEPT ![code] = @ + 1]
  /\ LoginTo(l, "find")
  /\ UNCHANGED <<now, redis, spc, began, known, people, last, lastEnd, overran, faults>>

(* Bug: GETDEL: a wrong attempt deletes the code. *)
Consume_GetDel(l) ==
  /\ lpc[l] \in {"new", "turnedAway"} /\ known # {}
  /\ code' = None /\ codeEnd' = 0
  /\ UNCHANGED <<now, coolEnd, spc, began, lpc, known, people, history, faults>>

(* The script that compares the code and deletes it: one step in Redis.  A code
   that is not the one there changes nothing. *)
Taken(l) ==
  /\ lpc[l] \in {"new", "turnedAway"} /\ \E s \in known : Matches(s)
  /\ code' = None /\ codeEnd' = 0
  /\ uses' = [uses EXCEPT ![code] = @ + 1]
  /\ fit' = IF user \in {"absent", "active"} /\ home = "up" THEN fit \cup {l} ELSE fit \ {l}
  /\ UNCHANGED user

Consume(l) ==
  /\ Taken(l) /\ LoginTo(l, "find")
  /\ UNCHANGED <<now, coolEnd, spc, began, known, home, changes, last, lastEnd, overran, faults>>

Find(l) ==
  /\ lpc[l] = "find"
  /\ LoginTo(l, CASE user = "absent" -> "register"
                  [] user = "disabled" -> "turnedAway"
                  [] OTHER -> "session")
  /\ UNCHANGED <<now, redis, spc, began, known, people, history, faults>>

(* The default tenant must be active. *)
Welcome(l) ==
  /\ lpc[l] = "register"
  /\ LoginTo(l, IF home = "down" THEN "turnedAway" ELSE "create")
  /\ UNCHANGED <<now, redis, spc, began, known, people, history, faults>>

(* Bug: the membership is created after the transaction, and lost. *)
Register_Bare(l) ==
  /\ lpc[l] = "create"
  /\ IF user = "absent" /\ home # "noRole"
     THEN user' = "bare" /\ fit' = fit \cap {l} /\ LoginTo(l, "session")
     ELSE LoginTo(l, "turnedAway") /\ UNCHANGED <<user, fit>>
  /\ UNCHANGED <<now, redis, spc, began, known, home, changes, history, faults>>

(* User, membership and member role are one transaction, aborted when somebody
   else has made the user or the role is missing or disabled. *)
Registered(l) ==
  /\ user = "absent" /\ home # "noRole"
  /\ user' = "active" /\ fit' = fit \cap {l}

Register(l) ==
  /\ lpc[l] = "create"
  /\ \/ Registered(l) /\ LoginTo(l, "session")
     \/ (user # "absent" \/ home = "noRole") /\ LoginTo(l, "turnedAway") /\ UNCHANGED <<user, fit>>
  /\ UNCHANGED <<now, redis, spc, began, known, home, changes, history, faults>>

(* resolveUserTenant: the tenant asked for must be one the user is an active
   member of, and up; asked for none, there must be such a tenant.  The login
   ends with a session, or because it asked for a foreign tenant. *)
Session(l) ==
  /\ lpc[l] = "session"
  /\ \/ LoginTo(l, "new")
     \/ (home = "down" \/ user \notin {"active", "disabled"}) /\ LoginTo(l, "turnedAway")
  /\ UNCHANGED <<now, redis, spc, began, known, people, history, faults>>

(* A call of a login throws, carried out or not, or its process dies: the code
   stays used. *)
LoginDies(l) ==
  /\ faults < MaxFaults /\ faults' = faults + 1 /\ LoginTo(l, "new")
  /\ \/ Taken(l)
     \/ lpc[l] = "create" /\ Registered(l) /\ UNCHANGED <<code, codeEnd, uses>>
     \/ /\ lpc[l] \in {"find", "register", "create", "session"}
        /\ UNCHANGED <<code, codeEnd, uses, user, fit>>
  /\ UNCHANGED <<now, coolEnd, spc, began, known, home, changes, last, lastEnd, overran>>

(* An administrator removes the user from the tenant, for good or not, creates
   a user of the address or deactivates the tenant; or somebody clears the user's
   or the member role's flag in the database. *)
Change ==
  /\ changes < MaxChanges /\ changes' = changes + 1
  /\ \/ user = "active" /\ user' \in {"removed", "bare", "disabled"} /\ UNCHANGED home
     \/ user \in {"absent", "bare"} /\ home # "down" /\ user' = "active" /\ UNCHANGED home
     \/ home = "up" /\ home' \in {"noRole", "down"} /\ UNCHANGED user
  /\ fit' = {}
  /\ UNCHANGED <<now, redis, spc, began, lpc, known, history, faults>>

(* UsersService.remove goes on to delete a user whose last membership it deleted. *)
Erase ==
  /\ user = "bare" /\ user' = "absent" /\ fit' = {}
  /\ UNCHANGED <<now, redis, spc, began, lpc, known, home, changes, history, faults>>

(* Time passes; no send takes longer than SendTime. *)
Tick ==
  /\ now < MaxTime
  /\ \A s \in Sending : now < began[s] + SendTime
  /\ now' = now + 1
  /\ UNCHANGED <<redis, spc, began, lpc, known, people, history, faults>>

Send(s)  == Begin(s) \/ Store(s) \/ Deliver(s) \/ Undo(s) \/ SendDies(s)
Login(l) == Consume(l) \/ Find(l) \/ Welcome(l) \/ Register(l) \/ Session(l) \/ LoginDies(l)
Next == Tick \/ Change \/ Erase \/ (\E s \in Sends : Send(s)) \/ (\E l \in Logins : Login(l))
Spec == Init /\ [][Next]_vars

----------------------------------------------------------------------------
(* TypeOK: each call is at a known step, the code key names a send, and no key
   outlives the time it was given. *)
TypeOK ==
  /\ now \in 0..MaxTime
  /\ code \in Sends \cup {None} /\ codeEnd \in 0..(now + Ttl) /\ coolEnd \in 0..(now + Cooldown)
  /\ spc \in [Sends -> SendPcs] /\ began \in [Sends -> 0..MaxTime]
  /\ lpc \in [Logins -> LoginPcs]
  /\ known \subseteq Sends
  /\ user \in {"absent", "bare", "active", "removed", "disabled"}
  /\ home \in {"up", "noRole", "down"}
  /\ last \in Sends \cup {None} /\ lastEnd \in 0..(now + Ttl)
  /\ uses \in [Sends -> Nat]
  /\ overran \in BOOLEAN /\ fit \subseteq Logins
  /\ faults \in 0..MaxFaults /\ changes \in 0..MaxChanges

(* CodeOnce: no code lets two logins in, however they overlap.
   (verification-code.service 49-64) *)
CodeOnce == \A s \in Sends : uses[s] <= 1

(* AcceptedIsCurrent: a code is taken only while it is the newest one stored
   and not expired, and never once its send has reported that it was taken back.
   (verification-code.service 32-41, 51-61) *)
AcceptedIsCurrent ==
  [][\A s \in Sends : uses'[s] # uses[s] =>
       s = last /\ now < lastEnd /\ spc[s] # "failed"]_vars

(* NewestUsable: a code that was delivered is accepted until it expires, is
   used, or a newer one is stored, unless a send was still writing keys after
   its own cooldown. (verification-code.service 23-41) *)
NewestUsable ==
  \A s \in Sends :
    /\ s = last /\ spc[s] = "sent" /\ now < lastEnd /\ uses[s] = 0
    => code = s \/ overran

(* CooldownKept: two sends that began within Cooldown of each other do not both
   deliver, unless a send was still writing keys after its own cooldown.
   (verification-code.service 22-27, 39; README 77-78) *)
CooldownKept ==
  \A s, t \in Sends :
    /\ s # t /\ spc[s] = "sent" /\ spc[t] = "sent"
    /\ began[s] <= began[t] /\ began[t] < began[s] + Cooldown
    => overran

(* BurntForAReason: a login whose code was taken is turned away only if something
   stood against it by then, or somebody else changed the address's user, its
   tenant or the member role while it was under way, another login registering
   the same address among them; its own failing calls and a foreign tenant are
   answered apart. (auth.service 75-80, 89-97, 172-192, 202-221) *)
BurntForAReason == \A l \in Logins : lpc[l] = "turnedAway" => l \notin fit
============================================================================

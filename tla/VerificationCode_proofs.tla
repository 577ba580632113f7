------------------------ MODULE VerificationCode_proofs ------------------------
(* Proofs about VerificationCode, for any sends and logins, times and bounds.

   NewestUsable and CooldownKept rest on Apart: until a send overruns its own
   cooldown, sends that did not fail began Cooldown apart, so only one of them
   can still be writing keys, and the cooldown key is its own.  CodeOnce and
   AcceptedIsCurrent rest on Current, what the code key can hold;
   BurntForAReason on Unhindered: what a login finds at each step as long as
   nobody else has changed user or home. *)
EXTENDS VerificationCode, TLAPS

Alive == Sending \cup {s \in Sends : spc[s] = "sent"}

Running(s) == now < began[s] + Cooldown

Apart ==
  ~overran =>
    /\ \A s, t \in Alive : s # t /\ began[s] <= began[t] => began[s] + Cooldown <= began[t]
    /\ \A s \in Alive : Running(s) => coolEnd = began[s] + Cooldown
    /\ \A s \in Alive : Running(s) /\ spc[s] \in {"deliver", "undo"} => last = s

Current ==
  /\ code # None => code = last /\ codeEnd = lastEnd
  /\ \A s \in Sends : code = s => uses[s] = 0 /\ spc[s] # "failed"
  /\ \A s \in Sends : spc[s] \in {"new", "store", "refused"} => uses[s] = 0 /\ code # s /\ last # s

Usable ==
  \A s \in Sends :
    /\ spc[s] \in {"deliver", "undo", "sent"} /\ s = last /\ now < lastEnd /\ uses[s] = 0
    => code = s \/ overran

Unhindered ==
  \A l \in fit :
    /\ home = "up"
    /\ lpc[l] = "find" => user \in {"absent", "active"}
    /\ lpc[l] \in {"register", "create"} => user = "absent"
    /\ lpc[l] = "session" => user = "active"

IInv ==
  /\ TypeOK /\ \A s \in Sends : began[s] <= now
  /\ Apart /\ Current /\ Usable /\ Unhindered
  /\ CodeOnce /\ BurntForAReason

LEMMA Facts ==
  /\ Cooldown \in Nat /\ Cooldown > 0 /\ Ttl \in Nat /\ Ttl > 0 /\ MaxTime \in Nat
  /\ MaxFaults \in Nat /\ MaxChanges \in Nat /\ None \notin Sends
BY CodesAssumption

LEMMA InitInv == Init => IInv
<1> SUFFICES ASSUME Init PROVE IInv
  OBVIOUS
<1>1. TypeOK /\ \A s \in Sends : began[s] <= now
  <2>1. /\ now \in 0..MaxTime /\ code \in Sends \cup {None} /\ codeEnd \in 0..(now + Ttl)
        /\ coolEnd \in 0..(now + Cooldown) /\ last \in Sends \cup {None} /\ lastEnd \in 0..(now + Ttl)
        /\ faults \in 0..MaxFaults /\ changes \in 0..MaxChanges
    BY Facts DEF Init
  <2>2. /\ spc \in [Sends -> SendPcs] /\ lpc \in [Logins -> LoginPcs]
        /\ began \in [Sends -> 0..MaxTime] /\ \A s \in Sends : began[s] <= now
    BY Facts DEF Init, SendPcs, LoginPcs
  <2>3. /\ known \subseteq Sends /\ uses \in [Sends -> Nat] /\ fit \subseteq Logins
        /\ user \in {"absent", "active"} /\ home = "up" /\ overran \in BOOLEAN
    BY DEF Init
  <2>. QED
    BY <2>1, <2>2, <2>3 DEF TypeOK
<1>2. Alive = {}
  BY DEF Init, Alive, Sending
<1>3. Apart
  BY <1>2 DEF Apart
<1>4. Current /\ CodeOnce /\ Usable
  BY Facts DEF Init, Current, CodeOnce, Usable
<1>5. Unhindered /\ BurntForAReason
  BY DEF Init, Unhindered, BurntForAReason
<1>. QED
  BY <1>1, <1>3, <1>4, <1>5 DEF IInv

(* A write that leaves overran false comes within its send's cooldown. *)
LEMMA InTime ==
  ASSUME IInv, NEW s \in Sends, Late(s), ~overran'
  PROVE  ~overran /\ Running(s)
<1>1. ~overran /\ ~(now >= began[s] + Cooldown)
  BY Zenon DEF Late
<1>2. now \in Nat /\ began[s] \in Nat
  BY DEF IInv, TypeOK
<1>. QED
  BY <1>1, <1>2, Facts DEF Running

----------------------------------------------------------------------------
LEMMA TypeStep ==
  ASSUME TypeOK, \A s \in Sends : began[s] <= now, [Next]_vars
  PROVE  TypeOK' /\ \A s \in Sends : began'[s] <= now'
<1>1. ASSUME NEW s \in Sends, Send(s)
      PROVE  TypeOK' /\ \A t \in Sends : began'[t] <= now'
  <2>1. CASE Begin(s)
    BY <2>1, Facts DEF TypeOK, Begin, Cooled, SendTo, SendPcs, redis, people
  <2>2. CASE Store(s)
    BY <2>2, Facts DEF TypeOK, Store, Stored, SendTo, SendPcs, Late, people
  <2>3. CASE Deliver(s)
    BY <2>3, Facts DEF TypeOK, Deliver, SendTo, SendPcs, redis, people, history
  <2>4. CASE Undo(s)
    BY <2>4, Facts DEF TypeOK, Undo, Dropped, SendTo, SendPcs, Late, people
  <2>5. CASE SendDies(s)
    <3>1. spc' \in [Sends -> SendPcs] /\ faults' \in 0..MaxFaults
      BY <2>5, Facts DEF TypeOK, SendDies, SendTo, SendPcs
    <3>2. UNCHANGED <<now, lpc, known, people, uses>>
      BY <2>5 DEF SendDies
    <3>3. CASE Cooled(s)
      BY <3>1, <3>2, <3>3, Facts DEF TypeOK, Cooled, people
    <3>4. CASE Stored(s)
      BY <3>1, <3>2, <3>4, Facts DEF TypeOK, Stored, Late, people
    <3>5. CASE Dropped(s)
      BY <3>1, <3>2, <3>5, Facts DEF TypeOK, Dropped, Late, people
    <3>6. CASE UNCHANGED <<redis, began, last, lastEnd, overran>>
      BY <3>1, <3>2, <3>6, Facts DEF TypeOK, redis, people
    <3>. QED
      BY <2>5, <3>3, <3>4, <3>5, <3>6 DEF SendDies
  <2>. QED
    BY <1>1, <2>1, <2>2, <2>3, <2>4, <2>5 DEF Send
<1>2. ASSUME NEW l \in Logins, Login(l)
      PROVE  TypeOK' /\ \A t \in Sends : began'[t] <= now'
  <2>1. CASE Consume(l)
    BY <2>1, Facts DEF TypeOK, Consume, Taken, Matches, LoginTo, LoginPcs
  <2>2. CASE Find(l) \/ Welcome(l)
    BY <2>2, Facts DEF TypeOK, Find, Welcome, LoginTo, LoginPcs, redis, people, history
  <2>3. CASE Register(l)
    BY <2>3, Facts DEF TypeOK, Register, Registered, LoginTo, LoginPcs, redis, history
  <2>4. CASE Session(l)
    BY <2>4, Facts DEF TypeOK, Session, LoginTo, LoginPcs, redis, people, history
  <2>5. CASE LoginDies(l)
    BY <2>5, Facts DEF TypeOK, LoginDies, Taken, Registered, Matches, LoginTo, LoginPcs
  <2>. QED
    BY <1>2, <2>1, <2>2, <2>3, <2>4, <2>5 DEF Login
<1>3. CASE Change
  BY <1>3, Facts DEF TypeOK, Change, redis, history
<1>4. CASE Erase
  BY <1>4, Facts DEF TypeOK, Erase, redis, history
<1>5. CASE Tick
  BY <1>5, Facts DEF TypeOK, Tick, redis, people, history
<1>6. CASE UNCHANGED vars
  BY <1>6 DEF TypeOK, vars, redis, people, history
<1>. QED
  BY <1>1, <1>2, <1>3, <1>4, <1>5, <1>6 DEF Next

(* What only the sends, the keys and the clock decide. *)
Sends_ == <<now, coolEnd, spc, began, last, lastEnd, overran>>

LEMMA ApartKept == ASSUME IInv, UNCHANGED Sends_ PROVE Apart'
BY DEF IInv, Sends_, Apart, Alive, Sending, Running

(* A send that writes in time is the only one that still can. *)
LEMMA Alone ==
  ASSUME IInv, NEW s \in Sending, Late(s), ~overran', NEW t \in Alive, t # s
  PROVE  ~Running(t)
<1>1. s \in Sends /\ s \in Alive /\ t \in Sends
  BY DEF Alive, Sending
<1>2. ~overran /\ Running(s)
  BY <1>1, InTime
<1>. QED
  BY <1>1, <1>2, Facts DEF IInv, TypeOK, Apart, Running

LEMMA ApartStep == ASSUME IInv, [Next]_vars PROVE Apart'
<1>1. ASSUME NEW s \in Sends, Cooled(s), spc[s] = "new", now' = now,
             spc' \in {[spc EXCEPT ![s] = "store"], [spc EXCEPT ![s] = "lost"]}
      PROVE  Apart'
  <2>1. coolEnd <= now /\ coolEnd' = now + Cooldown /\ UNCHANGED <<last, overran>>
    BY <1>1 DEF Cooled
  <2>2. \A t \in Alive : ~overran => began[t] + Cooldown <= now
    BY <2>1, Facts DEF IInv, TypeOK, Apart, Alive, Sending, Running
  <2>3. /\ Alive' \subseteq Alive \cup {s} /\ s \notin Alive
        /\ began'[s] = now /\ spc'[s] \in {"store", "lost"}
        /\ \A t \in Alive : began'[t] = began[t] /\ spc'[t] = spc[t] /\ began[t] \in Nat
    BY <1>1 DEF IInv, TypeOK, Cooled, Alive, Sending
  <2>4. now \in Nat
    BY DEF IInv, TypeOK
  <2>. QED
    BY <1>1, <2>1, <2>2, <2>3, <2>4, Facts DEF IInv, Apart, Running
<1>2. ASSUME NEW s \in Sends, Stored(s), spc[s] = "store", now' = now,
             spc' \in {[spc EXCEPT ![s] = "deliver"], [spc EXCEPT ![s] = "lost"]}
      PROVE  Apart'
  <2> SUFFICES ASSUME ~overran' PROVE Apart'
    BY DEF Apart
  <2>1. s \in Sending /\ Late(s) /\ last' = s /\ UNCHANGED <<coolEnd, began>>
    BY <1>2 DEF Stored, Sending
  <2>2. Alive' \subseteq Alive /\ \A t \in Sends \ {s} : spc'[t] = spc[t]
    BY <1>2 DEF IInv, TypeOK, Alive, Sending
  <2>3. ~overran /\ \A t \in Alive : Running(t) => t = s
    BY <2>1, InTime, Alone DEF Sending
  <2>. QED
    BY <1>2, <2>1, <2>2, <2>3 DEF IInv, Apart, Running
<1>3. ASSUME NEW s \in Sends, Deliver(s) PROVE Apart'
  <2>1. /\ UNCHANGED <<now, coolEnd, began, last, overran>>
        /\ Alive' = Alive
        /\ \A t \in Sends : spc'[t] \in {"deliver", "undo"} => spc[t] \in {"deliver", "undo"}
    BY <1>3 DEF IInv, TypeOK, Deliver, SendTo, Alive, Sending, redis, history
  <2>. QED
    BY <2>1 DEF IInv, Apart, Running, Alive, Sending
<1>4. ASSUME NEW s \in Sends, Dropped(s), spc[s] = "undo", now' = now,
             spc' \in {[spc EXCEPT ![s] = "failed"], [spc EXCEPT ![s] = "lost"]}
      PROVE  Apart'
  <2> SUFFICES ASSUME ~overran' PROVE Apart'
    BY DEF Apart
  <2>1. s \in Sending /\ Late(s) /\ UNCHANGED <<began, last>>
    BY <1>4 DEF Dropped, Sending
  <2>2. s \in Alive /\ Alive' = Alive \ {s} /\ \A t \in Alive' : spc'[t] = spc[t]
    BY <1>4 DEF IInv, TypeOK, Alive, Sending
  <2>3. ~overran /\ \A t \in Alive : Running(t) => t = s
    BY <2>1, InTime, Alone DEF Sending
  <2>. QED
    BY <1>4, <2>1, <2>2, <2>3 DEF IInv, Apart, Running
<1>5. ASSUME NEW s \in Sends, NEW p \in {"refused", "lost"},
             spc' = [spc EXCEPT ![s] = p], UNCHANGED <<now, redis, began, last, overran>>
      PROVE  Apart'
  <2>1. Alive' \subseteq Alive /\ \A t \in Alive' : spc'[t] = spc[t]
    BY <1>5 DEF IInv, TypeOK, Alive, Sending
  <2>. QED
    BY <1>5, <2>1 DEF IInv, Apart, Running, redis
<1>6. ASSUME NEW l \in Logins, Login(l) PROVE Apart'
  <2>1. UNCHANGED Sends_
    BY <1>6 DEF Sends_, Login, Consume, Taken, Find, Welcome, Register, Session, LoginDies,
                redis, history
  <2>. QED
    BY <2>1, ApartKept
<1>7. CASE Change \/ Erase \/ UNCHANGED vars
  <2>1. UNCHANGED Sends_
    BY <1>7 DEF Sends_, Change, Erase, vars, redis, history
  <2>. QED
    BY <2>1, ApartKept
<1>8. CASE Tick
  <2>1. UNCHANGED <<coolEnd, spc, began, last, overran>> /\ now' = now + 1 /\ now \in Nat
        /\ Alive' = Alive /\ \A s \in Alive : began[s] \in Nat
    BY <1>8 DEF IInv, TypeOK, Tick, Alive, Sending, redis, history
  <2>2. \A s \in Alive : Running(s)' => Running(s)
    BY <2>1, Facts DEF Running
  <2>. QED
    BY <2>1, <2>2 DEF IInv, Apart
<1>9. ASSUME NEW s \in Sends, Begin(s) \/ Store(s) \/ Undo(s) \/ SendDies(s) PROVE Apart'
  <2>1. CASE Begin(s)
    BY <2>1, <1>1, <1>5 DEF Begin, SendTo
  <2>2. CASE Store(s)
    BY <2>2, <1>2 DEF Store, SendTo
  <2>3. CASE Undo(s)
    BY <2>3, <1>4 DEF Undo, SendTo
  <2>4. CASE SendDies(s)
    BY <2>4, <1>1, <1>2, <1>4, <1>5 DEF SendDies, SendTo
  <2>. QED
    BY <1>9, <2>1, <2>2, <2>3, <2>4
<1>. QED
  BY <1>3, <1>6, <1>7, <1>8, <1>9 DEF Next, Send

----------------------------------------------------------------------------
(* The step of a send that ends at p, and what it left of the code key. *)
LEMMA SendKeepsCodes ==
  ASSUME IInv, NEW s \in Sends, NEW p \in SendPcs \ {"new", "store"},
         spc' = [spc EXCEPT ![s] = p], UNCHANGED <<now, uses>>,
         \/ UNCHANGED <<code, codeEnd, last, lastEnd, overran>> /\ p \notin {"failed", "deliver"}
            /\ (p \in {"sent", "undo"} => spc[s] = "deliver")
            /\ (p = "refused" => spc[s] = "new")
         \/ spc[s] = "store" /\ p \in {"deliver", "lost"} /\ Stored(s)
         \/ spc[s] = "undo" /\ p \in {"failed", "lost"} /\ Dropped(s)
  PROVE  Current' /\ CodeOnce' /\ Usable'
<1>1. spc'[s] = p /\ \A t \in Sends \ {s} : spc'[t] = spc[t]
  BY DEF IInv, TypeOK
<1>2. CodeOnce'
  BY DEF IInv, CodeOnce
<1>3. CASE /\ UNCHANGED <<code, codeEnd, last, lastEnd, overran>> /\ p \notin {"failed", "deliver"}
           /\ p \in {"sent", "undo"} => spc[s] = "deliver"
           /\ p = "refused" => spc[s] = "new"
  BY <1>1, <1>2, <1>3 DEF IInv, Current, Usable
<1>4. CASE spc[s] = "store" /\ p \in {"deliver", "lost"} /\ Stored(s)
  <2>1. code' = s /\ last' = s /\ codeEnd' = lastEnd' /\ spc[s] = "store"
    BY <1>4 DEF Stored
  <2>. QED
    BY <1>1, <1>2, <1>4, <2>1 DEF IInv, Current, Usable
<1>5. CASE spc[s] = "undo" /\ p \in {"failed", "lost"} /\ Dropped(s)
  <2>1. code' = None /\ UNCHANGED <<last, lastEnd>> /\ Late(s)
    BY <1>5 DEF Dropped
  <2>2. Current'
    BY <1>1, <1>5, <2>1, Facts DEF IInv, Current
  <2>3. ~overran' => last = s
    BY <1>5, <2>1, InTime DEF IInv, Apart, Alive, Sending
  <2>. QED
    BY <1>1, <1>2, <1>5, <2>1, <2>2, <2>3 DEF Usable
<1>. QED
  BY <1>3, <1>4, <1>5

LEMMA CodeStep ==
  ASSUME IInv, [Next]_vars
  PROVE  Current' /\ CodeOnce' /\ Usable'
<1>1. ASSUME NEW s \in Sends, Begin(s) PROVE Current' /\ CodeOnce' /\ Usable'
  <2>1. /\ UNCHANGED <<now, code, codeEnd, last, lastEnd, uses, overran>>
        /\ spc[s] = "new" /\ spc'[s] \in {"store", "refused"}
        /\ \A t \in Sends \ {s} : spc'[t] = spc[t]
    BY <1>1 DEF IInv, TypeOK, Begin, Cooled, SendTo, redis
  <2>. QED
    BY <2>1 DEF IInv, Current, CodeOnce, Usable
<1>2. ASSUME NEW s \in Sends, Store(s) PROVE Current' /\ CodeOnce' /\ Usable'
  BY <1>2, SendKeepsCodes DEF Store, SendTo, SendPcs
<1>3. ASSUME NEW s \in Sends, Deliver(s) PROVE Current' /\ CodeOnce' /\ Usable'
  BY <1>3, SendKeepsCodes DEF Deliver, SendTo, SendPcs, redis, history
<1>4. ASSUME NEW s \in Sends, Undo(s) PROVE Current' /\ CodeOnce' /\ Usable'
  BY <1>4, SendKeepsCodes DEF Undo, SendTo, SendPcs
<1>5. ASSUME NEW s \in Sends, SendDies(s) PROVE Current' /\ CodeOnce' /\ Usable'
  BY <1>5, SendKeepsCodes DEF SendDies, Cooled, SendTo, SendPcs, redis
<1>6. ASSUME NEW l \in Logins, Taken(l), UNCHANGED <<now, last, lastEnd, spc, overran>>
      PROVE  Current' /\ CodeOnce' /\ Usable'
  <2>1. code # None /\ code' = None /\ uses' = [uses EXCEPT ![code] = @ + 1]
    BY <1>6 DEF Taken, Matches
  <2>2. /\ code \in Sends /\ uses[code] = 0 /\ uses'[code] = 1
        /\ \A t \in Sends \ {code} : uses'[t] = uses[t]
        /\ spc[code] \notin {"new", "store", "refused"}
    BY <2>1 DEF IInv, TypeOK, Current
  <2>3. \A t \in Sends : code' # t
    BY <2>1, Facts
  <2>4. Current'
    BY <1>6, <2>1, <2>2, <2>3 DEF IInv, Current
  <2>5. CodeOnce'
    BY <2>2 DEF IInv, CodeOnce
  <2>6. \A t \in Sends : uses'[t] = 0 => t # code /\ uses[t] = 0
    BY <2>2
  <2>7. Usable'
    BY <1>6, <2>6 DEF IInv, Usable
  <2>. QED
    BY <2>4, <2>5, <2>7
<1>7. ASSUME NEW l \in Logins, Login(l) PROVE Current' /\ CodeOnce' /\ Usable'
  <2>1. CASE Taken(l)
    <3>1. UNCHANGED <<now, last, lastEnd, spc, overran>>
      BY <1>7 DEF Login, Consume, Find, Welcome, Register, Session, LoginDies, history
    <3>. QED
      BY <2>1, <3>1, <1>6
  <2>2. CASE ~Taken(l)
    <3>1. UNCHANGED <<now, code, codeEnd, last, lastEnd, uses, overran, spc>>
      BY <1>7, <2>2 DEF Login, Consume, Find, Welcome, Register, Session, LoginDies, redis, history
    <3>. QED
      BY <3>1 DEF IInv, Current, CodeOnce, Usable
  <2>. QED
    BY <2>1, <2>2
<1>8. CASE Change \/ Erase \/ Tick \/ UNCHANGED vars
  <2>1. /\ UNCHANGED <<code, codeEnd, last, lastEnd, uses, overran, spc>>
        /\ now \in Nat /\ now' \in {now, now + 1}
    BY <1>8 DEF IInv, TypeOK, Change, Erase, Tick, vars, redis, history
  <2>2. Current' /\ CodeOnce'
    BY <2>1 DEF IInv, Current, CodeOnce
  <2>3. now' < lastEnd => now < lastEnd
    BY <2>1 DEF IInv, TypeOK
  <2>. QED
    BY <2>1, <2>2, <2>3 DEF IInv, Usable
<1>. QED
  BY <1>1, <1>2, <1>3, <1>4, <1>5, <1>7, <1>8 DEF Next, Send

----------------------------------------------------------------------------
LEMMA LoginStep ==
  ASSUME IInv, [Next]_vars
  PROVE  Unhindered' /\ BurntForAReason'
<1>1. ASSUME NEW l \in Logins, Taken(l), NEW p \in {"find", "new"}, LoginTo(l, p), home' = home
      PROVE  Unhindered' /\ BurntForAReason'
  <2>1. /\ user' = user /\ lpc'[l] = p /\ \A k \in Logins \ {l} : lpc'[k] = lpc[k]
        /\ fit' \subseteq Logins
        /\ fit' \subseteq fit \cup {l}
        /\ l \in fit' => user \in {"absent", "active"} /\ home = "up"
    BY <1>1 DEF IInv, TypeOK, Taken, LoginTo
  <2>. QED
    BY <1>1, <2>1 DEF IInv, Unhindered, BurntForAReason
<1>2. ASSUME NEW l \in Logins, Registered(l), NEW p \in {"session", "new"}, LoginTo(l, p), home' = home
      PROVE  Unhindered' /\ BurntForAReason'
  <2>1. /\ user' = "active" /\ lpc'[l] = p /\ fit' \subseteq {l}
        /\ \A k \in fit' : k = l /\ k \in fit /\ k \in Logins
    BY <1>2 DEF IInv, TypeOK, Registered, LoginTo
  <2>. QED
    BY <1>2, <2>1 DEF IInv, Unhindered, BurntForAReason
<1>3. ASSUME NEW l \in Logins, NEW p \in LoginPcs, LoginTo(l, p), UNCHANGED <<user, home, fit>>,
             \/ p = "new"
             \/ Find(l) \/ Welcome(l) \/ Session(l)
             \/ lpc[l] = "create" /\ (user # "absent" \/ home = "noRole")
      PROVE  Unhindered' /\ BurntForAReason'
  <2>1. lpc'[l] = p /\ (\A k \in Logins \ {l} : lpc'[k] = lpc[k]) /\ fit \subseteq Logins
    BY <1>3 DEF IInv, TypeOK, LoginTo
  <2>2. CASE l \notin fit
    BY <1>3, <2>1, <2>2 DEF IInv, Unhindered, BurntForAReason
  <2>3. CASE l \in fit
    <3>1. \/ p = "new"
          \/ lpc[l] = "find" /\ (user = "absent" => p = "register") /\ (user = "active" => p = "session")
          \/ lpc[l] = "register" /\ p = "create"
      <4>1. CASE Find(l)
        BY <2>1, <2>3, <4>1 DEF IInv, TypeOK, Unhindered, Find, LoginTo
      <4>2. CASE Welcome(l)
        BY <2>1, <2>3, <4>2 DEF IInv, TypeOK, Unhindered, Welcome, LoginTo
      <4>3. CASE Session(l)
        BY <2>1, <2>3, <4>3 DEF IInv, TypeOK, Unhindered, Session, LoginTo
      <4>4. CASE lpc[l] = "create" /\ (user # "absent" \/ home = "noRole")
        BY <2>3, <4>4 DEF IInv, Unhindered
      <4>. QED
        BY <1>3, <4>1, <4>2, <4>3, <4>4
    <3>2. CASE lpc[l] = "find"
      <4>1. user = "absent" \/ user = "active"
        BY <2>3, <3>2 DEF IInv, Unhindered
      <4>. QED
        BY <1>3, <2>1, <2>3, <3>1, <3>2, <4>1 DEF IInv, Unhindered, BurntForAReason
    <3>. QED
      BY <1>3, <2>1, <2>3, <3>1, <3>2 DEF IInv, Unhindered, BurntForAReason
  <2>. QED
    BY <2>2, <2>3
<1>4. ASSUME NEW l \in Logins, Login(l) PROVE Unhindered' /\ BurntForAReason'
  <2>1. CASE Consume(l)
    BY <2>1, <1>1 DEF Consume
  <2>2. CASE Find(l)
    <3>1. PICK p \in LoginPcs : LoginTo(l, p)
      BY <2>2 DEF Find, LoginPcs
    <3>. QED
      BY <2>2, <3>1, <1>3 DEF Find, people
  <2>3. CASE Welcome(l)
    <3>1. PICK p \in LoginPcs : LoginTo(l, p)
      BY <2>3 DEF Welcome, LoginPcs
    <3>. QED
      BY <2>3, <3>1, <1>3 DEF Welcome, people
  <2>4. CASE Session(l)
    <3>1. PICK p \in LoginPcs : LoginTo(l, p)
      BY <2>4 DEF Session, LoginPcs
    <3>. QED
      BY <2>4, <3>1, <1>3 DEF Session, people
  <2>5. CASE Register(l)
    BY <2>5, <1>2, <1>3 DEF Register, LoginPcs
  <2>6. CASE LoginDies(l)
    BY <2>6, <1>1, <1>2, <1>3 DEF LoginDies, LoginPcs
  <2>. QED
    BY <1>4, <2>1, <2>2, <2>3, <2>4, <2>5, <2>6 DEF Login
<1>5. CASE Change \/ Erase
  BY <1>5 DEF Change, Erase, Unhindered, BurntForAReason
<1>6. ASSUME Tick \/ UNCHANGED vars \/ \E s \in Sends : Send(s)
      PROVE  Unhindered' /\ BurntForAReason'
  <2>1. UNCHANGED <<lpc, user, home, fit>>
    BY <1>6 DEF Tick, vars, Send, Begin, Store, Deliver, Undo, SendDies, people
  <2>. QED
    BY <2>1 DEF IInv, Unhindered, BurntForAReason
<1>. QED
  BY <1>4, <1>5, <1>6 DEF Next

----------------------------------------------------------------------------
LEMMA StepInv == IInv /\ [Next]_vars => IInv'
BY TypeStep, ApartStep, CodeStep, LoginStep DEF IInv

LEMMA Invariance == Spec => []IInv
BY InitInv, StepInv, PTL DEF Spec

(* Every call is at a known step, the code key names a send, and no key outlives
   the time it was given. *)
THEOREM TypeCorrect == Spec => []TypeOK
<1>1. IInv => TypeOK
  BY DEF IInv
<1>. QED
  BY <1>1, Invariance, PTL

(* No code lets two logins in (verification-code.service 49-64). *)
THEOREM CodesUsedOnce == Spec => []CodeOnce
<1>1. IInv => CodeOnce
  BY DEF IInv
<1>. QED
  BY <1>1, Invariance, PTL

(* A code is taken only while it is the newest and alive, and not once its send
   reported that it was taken back (verification-code.service 32-41, 51-61). *)
THEOREM OnlyCurrentAccepted == Spec => AcceptedIsCurrent
<1>1. ASSUME IInv, [Next]_vars
      PROVE  [\A s \in Sends : uses'[s] # uses[s] =>
                s = last /\ now < lastEnd /\ spc[s] # "failed"]_vars
  <2>1. ASSUME NEW l \in Logins, Taken(l), NEW s \in Sends, uses'[s] # uses[s]
        PROVE  s = last /\ now < lastEnd /\ spc[s] # "failed"
    <3>1. code # None /\ codeEnd > now /\ uses' = [uses EXCEPT ![code] = @ + 1]
      BY <2>1 DEF Taken, Matches
    <3>2. s = code
      BY <2>1, <3>1 DEF IInv, TypeOK
    <3>. QED
      BY <1>1, <3>1, <3>2 DEF IInv, TypeOK, Current
  <2>2. ASSUME \A l \in Logins : ~Taken(l) PROVE uses' = uses
    BY <1>1, <2>2 DEF Next, Send, Login, Begin, Store, Deliver, Undo, SendDies, Consume, Find,
                      Welcome, Register, Session, LoginDies, Change, Erase, Tick, vars, history
  <2>. QED
    BY <2>1, <2>2
<1>. QED
  BY <1>1, Invariance, PTL DEF Spec, AcceptedIsCurrent

(* A delivered code stays usable until it expires, is used or is replaced,
   overruns aside (verification-code.service 23-41). *)
THEOREM DeliveredCodesUsable == Spec => []NewestUsable
<1>1. IInv => NewestUsable
  BY DEF IInv, Usable, NewestUsable
<1>. QED
  BY <1>1, Invariance, PTL

(* Sends that both deliver began Cooldown apart, overruns aside
   (verification-code.service 22-27, 39). *)
THEOREM CooldownsKept == Spec => []CooldownKept
<1>1. IInv => CooldownKept
  <2> SUFFICES ASSUME IInv, NEW s \in Sends, NEW t \in Sends, s # t,
                      spc[s] = "sent", spc[t] = "sent",
                      began[s] <= began[t], began[t] < began[s] + Cooldown, ~overran
      PROVE  FALSE
    BY DEF CooldownKept
  <2>1. began[s] + Cooldown <= began[t]
    BY DEF IInv, Apart, Alive
  <2>. QED
    BY <2>1, Facts DEF IInv, TypeOK
<1>. QED
  BY <1>1, Invariance, PTL

(* A login is turned away after its code was taken only if something stood
   against it or somebody else changed the user, tenant or role on the way
   (auth.service 75-80, 89-97, 172-192, 202-221). *)
THEOREM BurntCodesExplained == Spec => []BurntForAReason
<1>1. IInv => BurntForAReason
  BY DEF IInv
<1>. QED
  BY <1>1, Invariance, PTL
=============================================================================

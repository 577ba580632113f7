----------------------- MODULE ChannelLifecycle_proofs -----------------------
(* Proofs about ChannelLifecycle, for any connections, messages and bounds. *)
EXTENDS ChannelLifecycle, FiniteSetTheorems, TLAPS

(* TypeOK in three groups. *)
Fields ==
  /\ connection \in Conns \cup {None} /\ channel \in Conns \cup {None}
  /\ estOn \in Conns \cup {None} /\ dlq \in Conns \cup {None} /\ monOn \in Conns \cup {None}
  /\ est \in {"idle", "dial", "open", "topology"}
  /\ boot \in {"connect", "calls", "done"} /\ proc \in {"up", "dead"}
  /\ reconnecting \in BOOLEAN /\ overlap \in BOOLEAN
  /\ armed \in Nat /\ waiting \in Nat /\ regWait \in Nat /\ dlqWait \in Nat

Arrays ==
  /\ conn \in [Conns -> {"open", "closed"}] /\ chan \in [Conns -> {"open", "closed"}]
  /\ heard \subseteq Conns /\ consumers \in [Conns -> Nat]
  /\ consuming \in [Conns -> Nat] /\ opening \in [Conns -> Nat]
  /\ delivered \in [Conns -> Seq(Msgs \cup {None})]
  /\ jobs \subseteq [on : Conns, tag : 1..MaxTags, msg : Msgs]

Outcomes ==
  /\ handled \subseteq Msgs /\ removed \subseteq Msgs
  /\ staleAck \in BOOLEAN /\ unheard \in BOOLEAN
  /\ chanErrs \in Nat /\ faults \in Nat

(* A consumer, and a call for one, sits on an open channel of an open
   connection. *)
Chans ==
  \A i \in Conns :
    /\ chan[i] = "open" => conn[i] = "open"
    /\ consumers[i] > 0 \/ consuming[i] > 0 => chan[i] = "open"

(* The fields while an attempt is under way: its connection is fresh until its
   channel is open, and there is no other channel. *)
Ests ==
  /\ est \in {"open", "topology"} <=> estOn # None
  /\ est = "open" => chan[estOn] = "closed" /\ \A j \in jobs : j.on # estOn
  /\ est \in {"dial", "open"} => channel = None
  /\ est = "topology" => channel \in {None, estOn}

(* While the consumer's bootstrap awaits basic.consume the channel is there, or the
   process ends. *)
Boots == boot = "calls" => ConsumerOn /\ channel # None /\ chan[channel] = "open" /\ est = "idle"

(* Nothing survives the process. *)
Dead ==
  proc = "dead" =>
    /\ channel = None /\ connection = None /\ est = "idle" /\ boot = "connect"
    /\ armed = 0 /\ waiting = 0 /\ regWait = 0
    /\ jobs = {} /\ heard = {} /\ \A i \in Conns : conn[i] = "closed"

Basic == Fields /\ Arrays /\ Outcomes /\ Chans /\ Ests /\ Boots /\ Dead

LEMMA Facts ==
  /\ ConsumerOn \in BOOLEAN /\ MaxFaults \in Nat /\ MaxTags \in Nat
  /\ Conns \subseteq Nat /\ None \notin Conns /\ None \notin Msgs
BY ChannelAssumption

LEMMA AddType ==
  ASSUME NEW f \in [Conns -> Nat], NEW i \in Conns \cup {None}, NEW n \in Nat
  PROVE  /\ Add(f, i, n) \in [Conns -> Nat]
         /\ \A k \in Conns : Add(f, i, n)[k] = IF k = i THEN f[k] + n ELSE f[k]
BY Facts DEF Add

LEMMA AddPositive ==
  ASSUME NEW f \in [Conns -> Nat], NEW i \in Conns \cup {None}, NEW n \in Nat, NEW k \in Conns,
         Add(f, i, n)[k] > 0
  PROVE  f[k] > 0 \/ k = i
BY AddType

LEMMA ZeroType == Zero \in [Conns -> Nat] /\ \A k \in Conns : Zero[k] = 0
BY DEF Zero

----------------------------------------------------------------------------
(* Types and the shape of an attempt.  The outcomes and budgets are the one
   thing that Die, Rejected, Resolved and ChannelGone leave to the actions they
   are part of. *)
LEMMA BasicInit == Init => Basic
<1> SUFFICES ASSUME Init PROVE Basic
  OBVIOUS
<1>1. Fields /\ Outcomes
  BY DEF Init, Fields, Outcomes
<1>2. Arrays
  BY ZeroType DEF Init, Arrays
<1>. QED
  BY <1>1, <1>2, ZeroType DEF Init, Basic, Chans, Ests, Boots, Dead

LEMMA DieStep ==
  ASSUME Basic, Die, Outcomes'
  PROVE  Basic'
<1>1. Fields'
  BY DEF Die, Basic, Fields
<1>2. Arrays'
  BY ZeroType DEF Die, Arrays
<1>3. Chans' /\ Ests' /\ Boots' /\ Dead'
  BY ZeroType DEF Die, Chans, Ests, Boots, Dead
<1>. QED
  BY <1>1, <1>2, <1>3 DEF Basic

LEMMA RejectedStep ==
  ASSUME Basic, NEW left, NEW chans, Rejected(left, chans), Outcomes', proc = "up", est # "idle",
         \/ left = channel /\ chans = chan
         \/ est = "open" /\ conn[estOn] = "open"
            /\ left = estOn /\ chans = [chan EXCEPT ![estOn] = "open"]
  PROVE  Basic'
<1>1. CASE boot = "connect" \/ regWait > 0
  BY <1>1, DieStep DEF Rejected
<1>2. CASE ~(boot = "connect" \/ regWait > 0)
  <2>1. est' = "idle" /\ estOn' = None /\ waiting' = 0 /\ dlqWait' = 0 /\ chan' = chans
    BY <1>2 DEF Rejected
  <2>2. UNCHANGED <<proc, conn, heard, consumers, delivered, jobs, boot, regWait, calls, dlq>>
    BY <1>2 DEF Rejected
  <2>3. \/ Arm(waiting, 0) /\ reconnecting' = FALSE
        \/ channel' = left /\ UNCHANGED <<connection, reconnecting, armed>>
    BY <1>2 DEF Rejected
  <2>4. left \in Conns \cup {None}
    BY DEF Basic, Fields
  <2>5. Fields'
    <3>1. connection' \in Conns \cup {None} /\ channel' \in Conns \cup {None} /\ armed' \in Nat
      BY <2>3, <2>4 DEF Basic, Fields, Arm
    <3>2. reconnecting' \in BOOLEAN
      BY <2>3 DEF Basic, Fields
    <3>3. overlap' \in BOOLEAN
      BY <1>2 DEF Rejected, Arm, Basic, Fields
    <3>. QED
      BY <3>1, <3>2, <3>3, <2>1, <2>2 DEF Basic, Fields, calls
  <2>6. /\ chan' \in [Conns -> {"open", "closed"}]
        /\ \A i \in Conns : chan'[i] = "open" => conn[i] = "open"
        /\ \A i \in Conns : chan[i] = "open" => chan'[i] = "open"
    BY <2>1 DEF Basic, Arrays, Chans
  <2>7. Arrays'
    BY <2>2, <2>6 DEF Basic, Arrays, calls
  <2>8. Chans'
    BY <2>2, <2>6 DEF Basic, Chans, calls
  <2>9. Ests' /\ Dead'
    BY <2>1, <2>2 DEF Ests, Dead
  <2>10. Boots'
    BY <2>2 DEF Basic, Boots
  <2>. QED
    BY <2>5, <2>7, <2>8, <2>9, <2>10 DEF Basic
<1>. QED
  BY <1>1, <1>2

LEMMA ResolvedStep ==
  ASSUME Basic, Resolved, Outcomes', proc = "up", est = "topology", chan[estOn] = "open"
  PROVE  Basic'
<1>1. CASE channel = None /\ (boot = "connect" \/ regWait > 0)
  BY <1>1, DieStep DEF Resolved
<1>2. CASE ~(channel = None /\ (boot = "connect" \/ regWait > 0))
  <2>1. /\ est' \in {"idle", "dial"} /\ (est' = "dial" => channel = None)
        /\ estOn' = None /\ waiting' = 0
        /\ regWait' = (IF channel = None /\ ConsumerOn THEN waiting ELSE 0)
        /\ dlqWait' \in {0, waiting} /\ monOn' \in {monOn, channel}
        /\ boot' = (IF boot = "connect" THEN IF ConsumerOn THEN "calls" ELSE "done" ELSE boot)
    BY <1>2 DEF Resolved, Booted
  <2>2. UNCHANGED <<proc, conn, chan, heard, consumers, delivered, jobs, dlq, armed, connection, channel>>
    BY <1>2 DEF Resolved
  <2>3. reconnecting' \in BOOLEAN /\ overlap' \in BOOLEAN
    BY <1>2 DEF Resolved, history, Basic, Fields
  <2>4. /\ consuming' = Add(consuming, channel, regWait + IF ConsumerOn THEN waiting ELSE 0)
        /\ \E k \in {0, waiting} : opening' = Add(opening, connection, dlqWait + k)
    BY <1>2 DEF Resolved
  <2>5. Fields'
    BY <2>1, <2>2, <2>3 DEF Basic, Fields
  <2>6. /\ consuming' \in [Conns -> Nat] /\ opening' \in [Conns -> Nat]
        /\ \A i \in Conns : i # channel => consuming'[i] = consuming[i]
    <3>1. PICK n \in Nat : consuming' = Add(consuming, channel, n)
      BY <2>4 DEF Basic, Fields
    <3>2. PICK k \in Nat : opening' = Add(opening, connection, k)
      BY <2>4 DEF Basic, Fields
    <3>3. consuming' \in [Conns -> Nat]
      BY <3>1, AddType DEF Basic, Fields, Arrays
    <3>4. \A i \in Conns : i # channel => consuming'[i] = consuming[i]
      BY <3>1 DEF Basic, Arrays, Add
    <3>5. opening' \in [Conns -> Nat]
      BY <3>2, AddType DEF Basic, Fields, Arrays
    <3>. QED
      BY <3>3, <3>4, <3>5
  <2>7. channel # None => channel = estOn
    BY DEF Basic, Ests
  <2>8. Arrays'
    BY <2>2, <2>6 DEF Basic, Arrays
  <2>9. Chans'
    <3> SUFFICES ASSUME NEW i \in Conns
                 PROVE  /\ chan[i] = "open" => conn[i] = "open"
                        /\ consumers[i] > 0 \/ consuming'[i] > 0 => chan[i] = "open"
      BY <2>2 DEF Chans
    <3>1. CASE i = channel
      BY <3>1, <2>7, Facts DEF Basic, Chans
    <3>2. CASE i # channel
      BY <3>2, <2>6 DEF Basic, Chans
    <3>. QED
      BY <3>1, <3>2
  <2>10. Ests'
    BY <2>1, <2>2 DEF Basic, Ests
  <2>11. Boots'
    BY <1>2, <2>1, <2>2, <2>7 DEF Basic, Boots, Fields
  <2>12. Dead'
    BY <2>2 DEF Dead
  <2>. QED
    BY <2>5, <2>8, <2>9, <2>10, <2>11, <2>12 DEF Basic
<1>. QED
  BY <1>1, <1>2

LEMMA GoneStep ==
  ASSUME Basic, NEW i \in Conns, NEW connState \in {"open", "closed"}, NEW left,
         ChannelGone(i, connState, left), left \subseteq jobs, Outcomes', proc = "up"
  PROVE  Basic'
<1>1. CASE Fatal(i, connState)
  BY <1>1, DieStep DEF ChannelGone
<1>2. CASE ~Fatal(i, connState)
  <2>1. /\ conn' = [conn EXCEPT ![i] = connState]
        /\ chan' = [chan EXCEPT ![i] = "closed"]
        /\ delivered' = [delivered EXCEPT ![i] = <<>>]
        /\ consumers' = [consumers EXCEPT ![i] = 0]
        /\ jobs' = left
    BY <1>2 DEF ChannelGone
  <2>2. /\ heard' = (IF connState = "closed" THEN heard \ {i} ELSE heard)
        /\ opening' = (IF connState = "closed" THEN [opening EXCEPT ![i] = 0] ELSE opening)
    BY <1>2 DEF ChannelGone
  <2>3. UNCHANGED <<proc, est, estOn, boot, waiting, regWait, dlqWait, consuming, monOn, dlq>>
    BY <1>2 DEF ChannelGone, callers
  <2>4. scheduleReconnect \/ UNCHANGED <<connection, channel, reconnecting, armed, overlap>>
    BY <1>2 DEF ChannelGone, fields
  <2>5. /\ connection' \in {connection, None} /\ channel' \in {channel, None}
        /\ armed' \in {armed, armed + 1}
    BY <2>4 DEF scheduleReconnect, Arm, fields
  <2>6. reconnecting' \in BOOLEAN /\ overlap' \in BOOLEAN
    BY <2>4 DEF scheduleReconnect, Arm, fields, Basic, Fields
  <2>7. Fields'
    BY <2>3, <2>5, <2>6 DEF Basic, Fields
  <2>8. Arrays'
    <3>1. delivered' \in [Conns -> Seq(Msgs \cup {None})]
      BY <2>1 DEF Basic, Arrays
    <3>. QED
      BY <3>1, <2>1, <2>2, <2>3 DEF Basic, Arrays
  <2>9. Chans'
    <3>1. consuming[i] = 0
      BY <1>2 DEF Basic, Arrays, Fatal
    <3>. QED
      BY <2>1, <2>3, <3>1 DEF Basic, Chans, Arrays
  <2>10. Ests'
    BY <2>1, <2>3, <2>5 DEF Basic, Ests, Arrays, Fields
  <2>11. Boots' /\ Dead'
    BY <1>2, <2>3 DEF Boots, Dead, Fatal
  <2>. QED
    BY <2>7, <2>8, <2>9, <2>10, <2>11 DEF Basic
<1>. QED
  BY <1>1, <1>2

LEMMA BasicStep == Basic /\ [Next]_vars => Basic'
<1> SUFFICES ASSUME Basic, [Next]_vars PROVE Basic'
  OBVIOUS
<1>1. CASE DialOk
  <2>1. PICK i \in Conns : Spare(i) /\ conn' = [conn EXCEPT ![i] = "open"] /\ connection' = i /\ estOn' = i /\ est' = "open"
    BY <1>1 DEF DialOk
  <2>2. UNCHANGED <<chan, heard, consumers, channel, reconnecting, armed, boot, waiting, regWait,
                 dlqWait, calls, dlq, proc, messages, history, budget>>
    BY <1>1 DEF DialOk
  <2>3. est = "dial" /\ proc = "up"
    BY <1>1 DEF DialOk, Calm
  <2>4. chan[i] = "closed" /\ \A j \in jobs : j.on # i
    BY <2>1 DEF Spare, Basic, Chans, Arrays
  <2>5. Fields' /\ Outcomes'
    BY <2>1, <2>2 DEF Basic, Fields, Outcomes, messages, history, budget, calls
  <2>6. Arrays'
    BY <2>1, <2>2 DEF Basic, Arrays, calls, messages
  <2>7. Chans'
    BY <2>1, <2>2 DEF Basic, Chans, Arrays, calls
  <2>8. Ests'
    BY <2>1, <2>2, <2>3, <2>4, Facts DEF Basic, Ests, messages
  <2>9. Boots' /\ Dead'
    BY <2>2, <2>3 DEF Basic, Boots, Dead
  <2>. QED
    BY <2>5, <2>6, <2>7, <2>8, <2>9 DEF Basic
<1>2. CASE DialRefused
  <2>1. Outcomes'
    BY <1>2 DEF DialRefused, Fault, outcome, Basic, Outcomes
  <2>. QED
    BY <1>2, <2>1, RejectedStep DEF DialRefused, Calm
<1>3. CASE OpenOk
  <2>1. est = "open" /\ proc = "up" /\ conn[estOn] = "open" /\ estOn \in Conns
    BY <1>3 DEF OpenOk, Calm, Settling, Basic, Fields, Ests, Arrays
  <2>2. Outcomes'
    BY <1>3 DEF OpenOk, outcome, budget, history, Basic, Outcomes
  <2>3. CASE connection = None
    BY <1>3, <2>1, <2>2, <2>3, RejectedStep DEF OpenOk
  <2>4. CASE connection # None
    <3>1. /\ chan' = [chan EXCEPT ![estOn] = "open"]
          /\ channel' = estOn /\ heard' = heard \cup {estOn} /\ est' = "topology"
      BY <1>3, <2>4 DEF OpenOk
    <3>2. UNCHANGED <<conn, consumers, connection, reconnecting, armed, estOn, boot, waiting,
                         regWait, dlqWait, calls, dlq, proc, delivered, jobs, history>>
      BY <1>3, <2>4 DEF OpenOk
    <3>3. Fields'
      BY <3>1, <3>2 DEF Basic, Fields, history, calls
    <3>4. Arrays'
      BY <2>1, <3>1, <3>2 DEF Basic, Arrays, calls
    <3>5. Chans'
      BY <2>1, <3>1, <3>2 DEF Basic, Chans, Arrays, calls
    <3>6. Ests' /\ Boots' /\ Dead'
      BY <2>1, <3>1, <3>2 DEF Basic, Ests, Boots, Dead
    <3>. QED
      BY <2>2, <3>3, <3>4, <3>5, <3>6 DEF Basic
  <2>. QED
    BY <2>3, <2>4
<1>4. CASE EstablishOk
  <2>1. Outcomes'
    BY <1>4 DEF EstablishOk, Resolved, outcome, budget, history, Basic, Outcomes
  <2>2. est = "topology" /\ proc = "up" /\ estOn \in Conns /\ chan[estOn] = "open"
    BY <1>4 DEF EstablishOk, Calm, Settling, Basic, Fields, Ests, Arrays
  <2>. QED
    BY <1>4, <2>1, <2>2, ResolvedStep DEF EstablishOk
<1>5. CASE EstablishFails
  <2>1. Outcomes'
    BY <1>5 DEF EstablishFails, outcome, budget, Basic, Outcomes
  <2>2. est # "idle"
    BY <1>5 DEF EstablishFails, Settling, Basic, Ests
  <2>. QED
    BY <1>5, <2>1, <2>2, RejectedStep DEF EstablishFails
<1>6. CASE BootOk
  <2>1. /\ boot = "calls" /\ boot' = "done"
        /\ consumers' = Add(consumers, channel, 1)
    BY <1>6 DEF BootOk
  <2>2. UNCHANGED <<conn, chan, heard, fields, est, estOn, waiting, regWait, dlqWait, calls, dlq,
                 proc, messages, history, budget>>
    BY <1>6 DEF BootOk
  <2>3. PICK n \in Nat : consumers' = Add(consumers, channel, n)
    BY <2>1
  <2>4. Fields' /\ Outcomes'
    BY <2>1, <2>2 DEF Basic, Fields, Outcomes, fields, messages, history, budget, calls
  <2>5. consumers' \in [Conns -> Nat]
    BY <2>3, AddType DEF Basic, Fields, Arrays
  <2>6. Arrays'
    BY <2>2, <2>5 DEF Basic, Arrays, calls, messages
  <2>7. \A i \in Conns : i # channel => consumers'[i] = consumers[i]
    BY <2>3 DEF Basic, Arrays, Add
  <2>8. Chans'
    BY <2>1, <2>2, <2>7 DEF Basic, Chans, Boots, calls
  <2>9. Ests' /\ Boots' /\ Dead'
    BY <1>6, <2>1, <2>2 DEF BootOk, Calm, Basic, Ests, Boots, Dead, fields, messages
  <2>. QED
    BY <2>4, <2>6, <2>8, <2>9 DEF Basic
<1>7. CASE TimerFires
  <2>1. proc = "up" /\ armed > 0
    BY <1>7 DEF TimerFires, Calm
  <2>2. Outcomes'
    BY <1>7 DEF TimerFires, outcome, budget, history, Basic, Outcomes
  <2>3. CASE channel = None
    <3>1. /\ armed' = armed - 1 /\ waiting' = waiting + 1
          /\ est' = (IF est = "idle" THEN "dial" ELSE est)
          /\ UNCHANGED <<connection, channel, reconnecting, calls, proc, conn, chan, heard,
                         consumers, delivered, jobs, boot, estOn, regWait, dlqWait, dlq, history>>
      BY <1>7, <2>3 DEF TimerFires
    <3>2. Fields'
      BY <2>1, <3>1 DEF Basic, Fields, calls, history
    <3>3. Arrays' /\ Chans'
      BY <3>1 DEF Basic, Arrays, Chans, calls
    <3>4. Ests' /\ Boots' /\ Dead'
      BY <2>1, <2>3, <3>1 DEF Basic, Ests, Boots, Dead
    <3>. QED
      BY <2>2, <3>2, <3>3, <3>4 DEF Basic
  <2>4. CASE channel # None /\ ConsumerOn /\ chan[channel] = "closed"
    BY <1>7, <2>2, <2>4, DieStep DEF TimerFires
  <2>5. CASE channel # None /\ ~(ConsumerOn /\ chan[channel] = "closed")
    <3>1. /\ armed' = armed - 1 /\ reconnecting' = FALSE
          /\ consuming' = Add(consuming, channel, IF ConsumerOn THEN 1 ELSE 0)
          /\ opening' \in {opening, Add(opening, connection, 1)}
          /\ UNCHANGED <<monOn, connection, channel, proc, conn, chan, heard, consumers, delivered,
                         jobs, callers, dlq, history>>
      BY <1>7, <2>5 DEF TimerFires
    <3>2. Fields'
      <4>1. armed' \in Nat
        BY <2>1, <3>1 DEF Basic, Fields
      <4>. QED
        BY <3>1, <4>1 DEF Basic, Fields, callers, history
    <3>3. PICK n \in Nat : consuming' = Add(consuming, channel, n) /\ (n > 0 => ConsumerOn)
      BY <3>1
    <3>4. consuming' \in [Conns -> Nat]
      BY <3>3, AddType DEF Basic, Fields, Arrays
    <3>5. opening' \in [Conns -> Nat]
      <4>1. opening \in [Conns -> Nat] /\ connection \in Conns \cup {None}
        BY DEF Basic, Fields, Arrays
      <4>2. Add(opening, connection, 1) \in [Conns -> Nat]
        BY <4>1, AddType
      <4>. QED
        BY <3>1, <4>1, <4>2
    <3>6. Arrays'
      BY <3>1, <3>4, <3>5 DEF Basic, Arrays
    <3>7. \A i \in Conns : i # channel \/ ~ConsumerOn => consuming'[i] = consuming[i]
      BY <3>3 DEF Basic, Arrays, Add
    <3>8. Chans'
      BY <2>5, <3>1, <3>7 DEF Basic, Chans, Arrays, Fields
    <3>9. Ests' /\ Boots' /\ Dead'
      BY <2>1, <3>1 DEF Basic, Ests, Boots, Dead, callers
    <3>. QED
      BY <2>2, <3>2, <3>6, <3>8, <3>9 DEF Basic
  <2>. QED
    BY <2>3, <2>4, <2>5
<1>8. CASE Probe
  <2>1. Fields' /\ Outcomes'
    BY <1>8 DEF Probe, Basic, Fields, Outcomes, fields, messages, history, budget, calls
  <2>2. Arrays' /\ Chans'
    BY <1>8 DEF Probe, Basic, Arrays, Chans, calls, messages
  <2>3. Ests' /\ Boots' /\ Dead'
    BY <1>8 DEF Probe, Calm, Basic, Ests, Boots, Dead, fields, messages
  <2>. QED
    BY <2>1, <2>2, <2>3 DEF Basic
<1>9. ASSUME NEW i \in Conns, ConsumeOk(i)
      PROVE  Basic'
  <2>1. /\ proc = "up" /\ consuming[i] > 0
        /\ consuming' = [consuming EXCEPT ![i] = @ - 1]
        /\ consumers' = Add(consumers, i, 1)
    BY <1>9 DEF ConsumeOk, Calm
  <2>2. UNCHANGED <<monOn, conn, chan, heard, fields, estOn, boot, waiting, regWait, dlq, proc, messages,
                 history, budget>>
    BY <1>9 DEF ConsumeOk
  <2>3. /\ dlqWait' \in {dlqWait, dlqWait + 1}
        /\ \/ est' = est
           \/ est = "idle" /\ est' = "dial" /\ channel = None
        /\ \/ opening' = opening
           \/ opening' = Add(opening, connection, 1)
    <3>1. CASE Registered /\ channel = None
      BY <1>9, <3>1 DEF ConsumeOk
    <3>2. CASE ~(Registered /\ channel = None)
      BY <1>9, <3>2 DEF ConsumeOk
    <3>. QED
      BY <3>1, <3>2
  <2>5. Fields' /\ Outcomes'
    BY <2>2, <2>3 DEF Basic, Fields, Outcomes, fields, messages, history, budget, calls
  <2>6. opening' \in [Conns -> Nat]
    <3>1. CASE opening' = opening
      BY <3>1 DEF Basic, Arrays
    <3>2. CASE opening' = Add(opening, connection, 1)
      BY <3>2, AddType DEF Basic, Fields, Arrays
    <3>. QED
      BY <2>3, <3>1, <3>2
  <2>7. consumers' \in [Conns -> Nat]
    BY <2>1, AddType DEF Basic, Arrays
  <2>4. consuming' \in [Conns -> Nat]
    BY <2>1 DEF Basic, Arrays
  <2>8. Arrays'
    BY <2>2, <2>4, <2>6, <2>7 DEF Basic, Arrays, messages
  <2>9. \A k \in Conns : k # i => consumers'[k] = consumers[k] /\ consuming'[k] = consuming[k]
    BY <2>1 DEF Basic, Arrays, Add
  <2>10. Chans'
    BY <2>1, <2>2, <2>9 DEF Basic, Chans
  <2>11. Ests' /\ Boots' /\ Dead'
    BY <2>1, <2>2, <2>3 DEF Basic, Ests, Boots, Dead, fields, messages
  <2>. QED
    BY <2>5, <2>8, <2>10, <2>11 DEF Basic
<1>10. ASSUME NEW i \in Conns, DlqOpened(i)
       PROVE  Basic'
  <2>1. Fields' /\ Outcomes'
    BY <1>10 DEF DlqOpened, Basic, Fields, Outcomes, fields, callers, messages, history, budget
  <2>2. Arrays' /\ Chans'
    BY <1>10 DEF DlqOpened, Basic, Arrays, Chans, messages
  <2>3. Ests' /\ Boots' /\ Dead'
    BY <1>10 DEF DlqOpened, Calm, Basic, Ests, Boots, Dead, fields, callers, messages
  <2>. QED
    BY <2>1, <2>2, <2>3 DEF Basic
<1>11. ASSUME NEW i \in Conns, ConnectionDrops(i)
       PROVE  Basic'
  <2>1. unheard' \in BOOLEAN
    BY <1>11 DEF ConnectionDrops, ChannelGone, Basic, Outcomes
  <2>2. Outcomes'
    BY <1>11, <2>1 DEF ConnectionDrops, Fault, outcome, Basic, Outcomes
  <2>3. Die \/ ChannelGone(i, "closed", jobs)
    BY <1>11 DEF ConnectionDrops
  <2>. QED
    BY <1>11, <2>2, <2>3, DieStep, GoneStep DEF ConnectionDrops, Calm
<1>12. ASSUME NEW i \in Conns, ChannelError(i)
       PROVE  Basic'
  <2>1. unheard' \in BOOLEAN
    BY <1>12 DEF ChannelError, ChannelGone, Basic, Outcomes
  <2>2. Outcomes'
    BY <1>12, <2>1 DEF ChannelError, Fault, outcome, Basic, Outcomes
  <2>. QED
    BY <1>12, <2>2, GoneStep DEF ChannelError, Calm
<1>13. ASSUME NEW i \in Conns, NEW m \in Msgs, Deliver(i, m)
       PROVE  Basic'
  <2>1. /\ consumers[i] > 0 /\ Len(delivered[i]) < MaxTags
        /\ delivered' = [delivered EXCEPT ![i] = Append(@, m)]
        /\ jobs' = jobs \cup {[on |-> i, tag |-> Len(delivered[i]) + 1, msg |-> m]}
    BY <1>13 DEF Deliver
  <2>2. UNCHANGED <<conn, chan, heard, consumers, fields, callers, calls, dlq, proc, handled,
                 removed, staleAck, history, budget>>
    BY <1>13 DEF Deliver
  <2>3. Fields' /\ Outcomes'
    BY <2>2 DEF Basic, Fields, Outcomes, fields, callers, history, budget, calls
  <2>4. delivered' \in [Conns -> Seq(Msgs \cup {None})]
    BY <2>1 DEF Basic, Arrays
  <2>5. Len(delivered[i]) + 1 \in 1..MaxTags
    BY <2>1, Facts DEF Basic, Arrays
  <2>6. Arrays'
    BY <2>1, <2>2, <2>4, <2>5 DEF Basic, Arrays, calls
  <2>7. Chans'
    BY <2>2 DEF Basic, Chans, calls
  <2>8. Ests'
    BY <2>1, <2>2 DEF Basic, Ests, Chans, Arrays, fields, callers
  <2>9. Boots' /\ Dead'
    BY <1>13, <2>2 DEF Deliver, Calm, Basic, Boots, Dead, fields, callers
  <2>. QED
    BY <2>3, <2>6, <2>7, <2>8, <2>9 DEF Basic
<1>14. ASSUME NEW j \in jobs, Finish(j)
       PROVE  Basic'
  <2>1. proc = "up" /\ j.msg \in Msgs /\ j.tag \in 1..MaxTags
    BY <1>14 DEF Finish, Calm, Basic, Arrays
  <2>2. CASE channel = None \/ chan[channel] = "closed"
    <3>1. Die /\ UNCHANGED <<removed, staleAck, unheard, chanErrs, faults>> /\ handled' = handled \cup {j.msg}
      BY <1>14, <2>2 DEF Finish
    <3>2. Outcomes'
      BY <2>1, <3>1 DEF Basic, Outcomes
    <3>. QED
      BY <3>1, <3>2, DieStep
  <2>3. CASE ~(channel = None \/ chan[channel] = "closed")
    <3> DEFINE tags == delivered[channel]
    <3>1. channel \in Conns /\ tags \in Seq(Msgs \cup {None})
      BY <2>3 DEF Basic, Fields, Arrays
    <3>2. /\ handled' = handled \cup {j.msg} /\ staleAck' = (staleAck \/ channel # j.on)
          /\ UNCHANGED faults
      BY <1>14, <2>3 DEF Finish
    <3>3. CASE j.tag <= Len(tags) /\ tags[j.tag] # None
      <4>1. /\ removed' = removed \cup {tags[j.tag]}
            /\ jobs' = jobs \ {j}
            /\ delivered' = [delivered EXCEPT ![channel][j.tag] = None]
            /\ UNCHANGED <<conn, chan, heard, consumers, fields, callers, calls, dlq, proc,
                           history, chanErrs>>
        BY <1>14, <2>3, <3>3 DEF Finish, Settles
      <4>2. tags[j.tag] \in Msgs /\ [tags EXCEPT ![j.tag] = None] \in Seq(Msgs \cup {None})
        BY <2>1, <3>1, <3>3
      <4>3. Outcomes'
        BY <2>1, <3>2, <4>1, <4>2 DEF Basic, Outcomes, history
      <4>4. delivered' \in [Conns -> Seq(Msgs \cup {None})]
        BY <3>1, <4>1, <4>2 DEF Basic, Arrays
      <4>5. Fields'
        BY <4>1 DEF Basic, Fields, fields, callers, history, calls
      <4>6. Arrays' /\ Chans'
        BY <4>1, <4>4 DEF Basic, Arrays, Chans, calls
      <4>7. Ests' /\ Boots' /\ Dead'
        BY <2>1, <4>1 DEF Basic, Ests, Boots, Dead, fields, callers
      <4>. QED
        BY <4>3, <4>5, <4>6, <4>7 DEF Basic
    <3>4. CASE ~(j.tag <= Len(tags) /\ tags[j.tag] # None)
      <4>1. ChannelGone(channel, "open", jobs \ {j}) /\ chanErrs' = chanErrs + 1 /\ UNCHANGED removed
        BY <1>14, <2>3, <3>4 DEF Finish
      <4>2. unheard' \in BOOLEAN
        BY <4>1 DEF ChannelGone, Basic, Outcomes
      <4>3. Outcomes'
        BY <2>1, <3>2, <4>1, <4>2 DEF Basic, Outcomes
      <4>. QED
        BY <2>1, <3>1, <4>1, <4>3, GoneStep
    <3>. QED
      BY <3>3, <3>4
  <2>. QED
    BY <2>2, <2>3
<1>15. CASE Restart
  <2>1. Fields' /\ Outcomes'
    BY <1>15 DEF Restart, Basic, Fields, Outcomes, fields, messages, history, calls
  <2>2. Arrays' /\ Chans'
    BY <1>15 DEF Restart, Basic, Arrays, Chans, calls, messages
  <2>3. Ests' /\ Boots' /\ Dead'
    BY <1>15 DEF Restart, Basic, Ests, Boots, Dead, fields, messages
  <2>. QED
    BY <2>1, <2>2, <2>3 DEF Basic
<1>17. CASE MonitorOpened \/ MonitorReady
  <2>1. Fields' /\ Outcomes'
    BY <1>17 DEF MonitorOpened, MonitorReady, Basic, Fields, Outcomes, fields, callers, messages,
                 history, budget, calls
  <2>2. Arrays' /\ Chans'
    BY <1>17 DEF MonitorOpened, MonitorReady, Basic, Arrays, Chans, messages, calls
  <2>3. Ests' /\ Boots' /\ Dead'
    BY <1>17 DEF MonitorOpened, MonitorReady, Calm, Basic, Ests, Boots, Dead, fields, callers, messages
  <2>. QED
    BY <2>1, <2>2, <2>3 DEF Basic
<1>16. CASE UNCHANGED vars
  <2>1. Fields' /\ Outcomes'
    BY <1>16 DEF vars, fields, callers, messages, history, Basic, Fields, Outcomes, calls
  <2>2. Arrays' /\ Chans'
    BY <1>16 DEF vars, calls, messages, Basic, Arrays, Chans
  <2>3. Ests' /\ Boots' /\ Dead'
    BY <1>16 DEF vars, fields, callers, messages, Basic, Ests, Boots, Dead
  <2>. QED
    BY <2>1, <2>2, <2>3 DEF Basic
<1>. QED
  BY <1>1, <1>2, <1>3, <1>4, <1>5, <1>6, <1>7, <1>8, <1>9, <1>10, <1>11, <1>12, <1>13, <1>14,
    <1>15, <1>16, <1>17 DEF Next, Service

----------------------------------------------------------------------------
(* Acks.  As long as its channel is open, the tag of a running handler is its
   own message's or settled: an ack on that channel removes no other message. *)
JobsOk ==
  \A j \in jobs : chan[j.on] = "open" =>
    j.tag <= Len(delivered[j.on]) /\ delivered[j.on][j.tag] \in {j.msg, None}

Acks == JobsOk /\ OnlyStaleAcks

LEMMA AcksKept ==
  ASSUME Acks, UNCHANGED outcome, jobs' \subseteq jobs,
         \A j \in jobs' : chan'[j.on] = "open" =>
           chan[j.on] = "open" /\ delivered'[j.on] = delivered[j.on]
  PROVE  Acks'
<1>1. JobsOk'
  BY DEF Acks, JobsOk
<1>2. OnlyStaleAcks'
  BY DEF Acks, OnlyStaleAcks, AckedWereHandled, outcome
<1>. QED
  BY <1>1, <1>2 DEF Acks

LEMMA AcksDie ==
  ASSUME Acks, Die, UNCHANGED outcome
  PROVE  Acks'
BY AcksKept DEF Die

LEMMA AcksRejected ==
  ASSUME Basic, Acks, NEW left, NEW chans, Rejected(left, chans), UNCHANGED outcome,
         \/ left = channel /\ chans = chan
         \/ est = "open" /\ left = estOn /\ chans = [chan EXCEPT ![estOn] = "open"]
  PROVE  Acks'
<1>1. CASE boot = "connect" \/ regWait > 0
  BY <1>1, AcksDie DEF Rejected
<1>2. CASE ~(boot = "connect" \/ regWait > 0)
  <2>1. chan' = chans /\ UNCHANGED <<delivered, jobs>>
    BY <1>2 DEF Rejected
  <2>2. \A j \in jobs : chans[j.on] = "open" => chan[j.on] = "open"
    BY DEF Basic, Ests, Arrays
  <2>. QED
    BY <2>1, <2>2, AcksKept
<1>. QED
  BY <1>1, <1>2

LEMMA AcksGone ==
  ASSUME Basic, JobsOk, NEW i \in Conns, NEW connState, NEW left,
         ChannelGone(i, connState, left), left \subseteq jobs
  PROVE  JobsOk'
<1>1. CASE Fatal(i, connState)
  BY <1>1 DEF ChannelGone, Die, JobsOk
<1>2. CASE ~Fatal(i, connState)
  <2>1. /\ chan' = [chan EXCEPT ![i] = "closed"]
        /\ delivered' = [delivered EXCEPT ![i] = <<>>]
        /\ jobs' = left
    BY <1>2 DEF ChannelGone
  <2>2. \A j \in jobs' : chan'[j.on] = "open" =>
          chan[j.on] = "open" /\ delivered'[j.on] = delivered[j.on]
    BY <2>1 DEF Basic, Arrays
  <2>. QED
    BY <2>1, <2>2 DEF JobsOk
<1>. QED
  BY <1>1, <1>2

LEMMA AcksStep == Basic /\ Acks /\ [Next]_vars => Acks'
<1> SUFFICES ASSUME Basic, Acks, [Next]_vars PROVE Acks'
  OBVIOUS
<1>1. CASE DialOk \/ Probe \/ BootOk \/ MonitorOpened \/ MonitorReady \/ Restart \/ UNCHANGED vars
  <2>1. UNCHANGED <<chan, delivered, jobs>> /\ UNCHANGED outcome
    BY <1>1 DEF DialOk, Probe, BootOk, MonitorOpened, MonitorReady, Restart, vars, messages, outcome
  <2>. QED
    BY <2>1, AcksKept
<1>2. CASE DialRefused \/ EstablishFails
  <2>1. CASE DialRefused
    BY <2>1, AcksRejected DEF DialRefused
  <2>2. CASE EstablishFails
    BY <2>2, AcksRejected DEF EstablishFails
  <2>. QED
    BY <1>2, <2>1, <2>2
<1>3. CASE OpenOk
  <2>1. est = "open" /\ UNCHANGED outcome
    BY <1>3 DEF OpenOk
  <2>2. CASE connection = None
    BY <1>3, <2>1, <2>2, AcksRejected DEF OpenOk
  <2>3. CASE connection # None
    <3>1. chan' = [chan EXCEPT ![estOn] = "open"] /\ UNCHANGED <<delivered, jobs>>
      BY <1>3, <2>3 DEF OpenOk
    <3>2. \A j \in jobs : j.on # estOn /\ j.on \in Conns
      BY <2>1 DEF Basic, Ests, Arrays
    <3>3. \A j \in jobs : chan'[j.on] = chan[j.on]
      BY <3>1, <3>2 DEF Basic, Arrays
    <3>. QED
      BY <2>1, <3>1, <3>3, AcksKept
  <2>. QED
    BY <2>2, <2>3
<1>4. CASE EstablishOk
  <2>1. Resolved /\ UNCHANGED outcome
    BY <1>4 DEF EstablishOk
  <2>2. CASE channel = None /\ (boot = "connect" \/ regWait > 0)
    BY <2>1, <2>2, AcksDie DEF Resolved
  <2>3. CASE ~(channel = None /\ (boot = "connect" \/ regWait > 0))
    <3>1. UNCHANGED <<chan, delivered, jobs>>
      BY <2>1, <2>3 DEF Resolved
    <3>. QED
      BY <2>1, <3>1, AcksKept
  <2>. QED
    BY <2>2, <2>3
<1>5. CASE TimerFires
  <2>1. UNCHANGED outcome
    BY <1>5 DEF TimerFires
  <2>2. Die \/ UNCHANGED <<chan, delivered, jobs>>
    <3>1. CASE channel = None
      BY <1>5, <3>1 DEF TimerFires
    <3>2. CASE channel # None /\ ConsumerOn /\ chan[channel] = "closed"
      BY <1>5, <3>2 DEF TimerFires
    <3>3. CASE channel # None /\ ~(ConsumerOn /\ chan[channel] = "closed")
      BY <1>5, <3>3 DEF TimerFires
    <3>. QED
      BY <3>1, <3>2, <3>3
  <2>. QED
    BY <2>1, <2>2, AcksDie, AcksKept
<1>6. ASSUME NEW i \in Conns, ConsumeOk(i) \/ DlqOpened(i)
      PROVE  Acks'
  <2>1. UNCHANGED <<chan, delivered, jobs>> /\ UNCHANGED outcome
    BY <1>6 DEF ConsumeOk, DlqOpened, messages, outcome
  <2>. QED
    BY <2>1, AcksKept
<1>7. ASSUME NEW i \in Conns, ConnectionDrops(i) \/ ChannelError(i)
      PROVE  Acks'
  <2>1. JobsOk'
    <3>1. Die \/ \E s : ChannelGone(i, s, jobs)
      BY <1>7 DEF ConnectionDrops, ChannelError
    <3>. QED
      BY <3>1, AcksGone DEF Die, JobsOk, Acks
  <2>2. OnlyStaleAcks'
    BY <1>7 DEF ConnectionDrops, ChannelError, outcome, Acks, OnlyStaleAcks, AckedWereHandled
  <2>. QED
    BY <2>1, <2>2 DEF Acks
<1>8. ASSUME NEW i \in Conns, NEW m \in Msgs, Deliver(i, m)
      PROVE  Acks'
  <2>1. /\ UNCHANGED <<chan, handled, removed, staleAck>>
        /\ delivered' = [delivered EXCEPT ![i] = Append(@, m)]
        /\ jobs' = jobs \cup {[on |-> i, tag |-> Len(delivered[i]) + 1, msg |-> m]}
    BY <1>8 DEF Deliver
  <2>2. ASSUME NEW j \in jobs', chan[j.on] = "open"
        PROVE  j.tag <= Len(delivered'[j.on]) /\ delivered'[j.on][j.tag] \in {j.msg, None}
    <3>1. delivered[i] \in Seq(Msgs \cup {None}) /\ delivered'[i] = Append(delivered[i], m)
      BY <2>1 DEF Basic, Arrays
    <3>2. CASE j \in jobs
      <4>1. j.on \in Conns /\ j.tag \in 1..MaxTags /\ j.tag <= Len(delivered[j.on])
            /\ delivered[j.on][j.tag] \in {j.msg, None}
        BY <2>2, <3>2 DEF Acks, JobsOk, Basic, Arrays
      <4>2. CASE j.on = i
        BY <3>1, <4>1, <4>2, Facts
      <4>3. CASE j.on # i
        BY <2>1, <4>1, <4>3 DEF Basic, Arrays
      <4>. QED
        BY <4>2, <4>3
    <3>3. CASE j = [on |-> i, tag |-> Len(delivered[i]) + 1, msg |-> m]
      BY <3>1, <3>3
    <3>. QED
      BY <2>1, <3>2, <3>3
  <2>. QED
    BY <2>1, <2>2 DEF Acks, JobsOk, OnlyStaleAcks, AckedWereHandled
<1>9. ASSUME NEW j \in jobs, Finish(j)
      PROVE  Acks'
  <2>1. handled' = handled \cup {j.msg} /\ j.on \in Conns /\ j.tag \in 1..MaxTags
    BY <1>9 DEF Finish, Basic, Arrays
  <2>2. CASE channel = None \/ chan[channel] = "closed"
    <3>1. Die /\ UNCHANGED <<removed, staleAck>>
      BY <1>9, <2>2 DEF Finish
    <3>. QED
      BY <2>1, <3>1 DEF Die, Acks, JobsOk, OnlyStaleAcks, AckedWereHandled
  <2>3. CASE ~(channel = None \/ chan[channel] = "closed")
    <3> DEFINE tags == delivered[channel]
    <3>1. channel \in Conns /\ tags \in Seq(Msgs \cup {None}) /\ chan[channel] = "open"
      BY <2>3 DEF Basic, Fields, Arrays
    <3>2. staleAck' = (staleAck \/ channel # j.on)
      BY <1>9, <2>3 DEF Finish
    <3>3. CASE j.tag <= Len(tags) /\ tags[j.tag] # None
      <4>1. /\ removed' = removed \cup {tags[j.tag]}
            /\ jobs' = jobs \ {j}
            /\ delivered' = [delivered EXCEPT ![channel][j.tag] = None]
            /\ UNCHANGED chan
        BY <1>9, <2>3, <3>3 DEF Finish, Settles
      <4>2. channel = j.on => tags[j.tag] = j.msg
        BY <3>1, <3>3 DEF Acks, JobsOk
      <4>3. OnlyStaleAcks'
        BY <2>1, <3>2, <4>1, <4>2 DEF Acks, OnlyStaleAcks, AckedWereHandled
      <4>4. ASSUME NEW k \in jobs, chan[k.on] = "open"
            PROVE  k.tag <= Len(delivered'[k.on]) /\ delivered'[k.on][k.tag] \in {k.msg, None}
        <5>1. k.on \in Conns /\ k.tag \in 1..MaxTags /\ k.tag <= Len(delivered[k.on])
              /\ delivered[k.on][k.tag] \in {k.msg, None}
          BY <4>4 DEF Acks, JobsOk, Basic, Arrays
        <5>2. CASE k.on = channel
          <6>1. delivered'[channel] = [tags EXCEPT ![j.tag] = None]
            BY <3>1, <4>1 DEF Basic, Arrays
          <6>. QED
            BY <2>1, <3>1, <3>3, <5>1, <5>2, <6>1, Facts
        <5>3. CASE k.on # channel
          BY <4>1, <5>1, <5>3 DEF Basic, Arrays
        <5>. QED
          BY <5>2, <5>3
      <4>. QED
        BY <4>1, <4>3, <4>4 DEF Acks, JobsOk
    <3>4. CASE ~(j.tag <= Len(tags) /\ tags[j.tag] # None)
      <4>1. ChannelGone(channel, "open", jobs \ {j}) /\ UNCHANGED removed
        BY <1>9, <2>3, <3>4 DEF Finish
      <4>2. JobsOk'
        BY <3>1, <4>1, AcksGone DEF Acks
      <4>3. OnlyStaleAcks'
        BY <2>1, <3>2, <4>1 DEF Acks, OnlyStaleAcks, AckedWereHandled
      <4>. QED
        BY <4>2, <4>3 DEF Acks
    <3>. QED
      BY <3>3, <3>4
  <2>. QED
    BY <2>2, <2>3
<1>. QED
  BY <1>1, <1>2, <1>3, <1>4, <1>5, <1>6, <1>7, <1>8, <1>9 DEF Next, Service

----------------------------------------------------------------------------
(* Consumers.  As long as reconnects do not overlap, one registration at most is
   owed, by bootstrap or by a reconnect, and the channel it will be made on has
   none yet. *)
Owed == armed + waiting + regWait
Taken(i) == consumers[i] + consuming[i]

Starting ==
  boot = "connect" =>
    /\ ~Settling => Owed = 0
    /\ proc = "up" => est # "idle"
    /\ \A i \in Conns : Taken(i) = 0 /\ (i # estOn => conn[i] = "closed")

Single ==
  ~overlap =>
    /\ Starting
    /\ boot = "calls" => Owed = 0 /\ \A i \in Conns : Taken(i) = 0
    /\ boot = "done" /\ channel = None /\ ConsumerOn => Owed = 1
    /\ ~ConsumerOn => regWait = 0 /\ \A i \in Conns : Taken(i) = 0
    /\ Owed <= 1 /\ \A i \in Conns : Taken(i) <= 1
    /\ channel # None /\ Owed = 1 => Taken(channel) = 0

LEMMA SingleDie ==
  ASSUME Die
  PROVE  Single'
BY ZeroType DEF Die, Single, Starting, Owed, Taken

(* Steps that owe as many registrations as before, on the same channel. *)
LEMMA SingleKept ==
  ASSUME Single, UNCHANGED <<overlap, boot, channel>>, \A i \in Conns : Taken(i)' = Taken(i),
         Owed' = Owed, regWait' = regWait, ~overlap /\ Starting => Starting',
         channel \in Conns \cup {None}
  PROVE  Single'
BY DEF Single

LEMMA SingleRejected ==
  ASSUME Basic, Single, NEW left, NEW chans, Rejected(left, chans), est # "idle",
         \/ left = channel /\ chans = chan
         \/ est = "open" /\ left = estOn /\ chans = [chan EXCEPT ![estOn] = "open"]
  PROVE  Single'
<1>1. CASE boot = "connect" \/ regWait > 0
  BY <1>1, SingleDie DEF Rejected
<1>2. CASE ~(boot = "connect" \/ regWait > 0)
  <2> SUFFICES ASSUME ~overlap' PROVE Single'
    BY DEF Single
  <2>1. boot = "done" /\ regWait = 0 /\ armed \in Nat /\ waiting \in Nat
    BY <1>2 DEF Basic, Boots, Fields
  <2>2. UNCHANGED <<boot, consumers, consuming, regWait>> /\ waiting' = 0
    BY <1>2 DEF Rejected, calls
  <2>3. \A i : Taken(i)' = Taken(i)
    BY <2>2 DEF Taken
  <2>4. CASE waiting > 0
    <3>1. armed' = armed + waiting /\ channel' = None /\ ~overlap
      BY <1>2, <2>4 DEF Rejected, Arm
    <3>2. Owed' = Owed /\ Owed = 1
      BY <2>1, <2>2, <2>4, <3>1 DEF Single, Owed
    <3>. QED
      BY <2>1, <2>2, <2>3, <3>1, <3>2 DEF Single, Starting
  <2>5. CASE ~(waiting > 0)
    <3>1. armed' = armed /\ channel' = left /\ ~overlap
      BY <1>2, <2>5 DEF Rejected
    <3>2. Owed' = Owed /\ Owed \in Nat
      BY <2>1, <2>2, <2>5, <3>1 DEF Owed
    <3>3. CASE left = channel
      BY <2>1, <2>2, <2>3, <3>1, <3>2, <3>3 DEF Single, Starting
    <3>4. CASE est = "open" /\ left = estOn
      <4>0. estOn \in Conns /\ chan[estOn] = "closed"
        BY <3>4 DEF Basic, Ests, Fields
      <4>1. Taken(estOn) = 0
        <5>1. consumers[estOn] \in Nat /\ consuming[estOn] \in Nat
          BY <4>0 DEF Basic, Arrays
        <5>2. ~(consumers[estOn] > 0 \/ consuming[estOn] > 0)
          BY <4>0 DEF Basic, Chans
        <5>. QED
          BY <5>1, <5>2 DEF Taken
      <4>. QED
        BY <2>1, <2>2, <2>3, <3>1, <3>2, <3>4, <4>0, <4>1, Facts DEF Single, Starting
    <3>. QED
      BY <3>3, <3>4
  <2>. QED
    BY <2>4, <2>5
<1>. QED
  BY <1>1, <1>2

LEMMA SingleResolved ==
  ASSUME Basic, Single, Resolved, proc = "up", est = "topology", ~Settling
  PROVE  Single'
<1>1. CASE channel = None /\ (boot = "connect" \/ regWait > 0)
  BY <1>1, SingleDie DEF Resolved
<1>2. CASE ~(channel = None /\ (boot = "connect" \/ regWait > 0))
  <2> SUFFICES ASSUME ~overlap' PROVE Single'
    BY DEF Single
  <2>1. /\ waiting' = 0
        /\ regWait' = (IF channel = None /\ ConsumerOn THEN waiting ELSE 0)
        /\ boot' = (IF boot = "connect" THEN IF ConsumerOn THEN "calls" ELSE "done" ELSE boot)
        /\ UNCHANGED <<channel, armed, consumers>> /\ ~overlap
        /\ consuming' = Add(consuming, channel, regWait + IF ConsumerOn THEN waiting ELSE 0)
    BY <1>2 DEF Resolved, Booted, history
  <2>2. boot \in {"connect", "done"} /\ armed \in Nat /\ waiting \in Nat /\ regWait \in Nat
    BY DEF Basic, Boots, Fields
  <2> DEFINE n == regWait + (IF ConsumerOn THEN waiting ELSE 0)
  <2>3. n \in Nat /\ n <= Owed /\ Owed \in Nat
    BY <2>2 DEF Owed
  <2>4. \A i \in Conns : Taken(i)' = IF i = channel THEN Taken(i) + n ELSE Taken(i)
    <3>1. consuming' = Add(consuming, channel, n)
      BY <2>1
    <3> HIDE DEF n
    <3>2. channel \in Conns \cup {None} /\ consuming \in [Conns -> Nat] /\ consumers \in [Conns -> Nat]
      BY DEF Basic, Arrays, Fields
    <3>3. \A k \in Conns : Add(consuming, channel, n)[k] = IF k = channel THEN consuming[k] + n ELSE consuming[k]
      BY <2>3, <3>2, AddType
    <3> SUFFICES ASSUME NEW i \in Conns
                 PROVE  Taken(i)' = IF i = channel THEN Taken(i) + n ELSE Taken(i)
      OBVIOUS
    <3>4. Taken(i)' = consumers[i] + consuming'[i]
      BY <2>1 DEF Taken
    <3>5. consumers[i] \in Nat /\ consuming[i] \in Nat
      BY <3>2
    <3>6. CASE i = channel
      BY <2>3, <3>1, <3>3, <3>4, <3>5, <3>6 DEF Taken
    <3>7. CASE i # channel
      BY <3>1, <3>3, <3>4, <3>5, <3>7 DEF Taken
    <3>. QED
      BY <3>6, <3>7
  <2>5. CASE channel = None
    <3>1. boot' = "done" /\ \A i \in Conns : Taken(i)' = Taken(i)
      BY <1>2, <2>1, <2>2, <2>4, <2>5, Facts
    <3>2. Owed' <= 1 /\ (ConsumerOn => Owed' = 1) /\ (~ConsumerOn => regWait' = 0)
      BY <1>2, <2>1, <2>2, <2>5 DEF Single, Owed
    <3>. QED
      BY <2>1, <2>5, <3>1, <3>2 DEF Single, Starting
  <2>6. CASE channel # None
    <3>1. channel \in Conns /\ Taken(channel) \in Nat
      BY <2>6, SMTT(30) DEF Basic, Fields, Arrays, Taken
    <3>2. Owed' = armed /\ regWait' = 0 /\ Owed <= 1
      BY <2>1, <2>2, <2>6 DEF Single, Owed
    <3>3. boot = "connect" => Owed = 0
      BY <2>1 DEF Single, Starting
    <3>4. n = 0 \/ (Owed = 1 /\ Owed' = 0 /\ n = 1)
      <4>1. armed + waiting + regWait <= 1
        BY <3>2 DEF Owed
      <4>2. CASE ConsumerOn
        <5>1. n = regWait + waiting
          BY <4>2
        <5> HIDE DEF n
        <5>2. Owed = armed + waiting + regWait
          BY DEF Owed
        <5>. QED
          BY <2>2, <3>2, <4>1, <5>1, <5>2
      <4>3. CASE ~ConsumerOn
        <5>1. regWait = 0
          BY <2>1, <4>3 DEF Single
        <5>. QED
          BY <4>3, <5>1
      <4>. QED
        BY <4>2, <4>3
    <3>5. CASE n = 0
      <4>1. \A i \in Conns : Taken(i)' = Taken(i)
        BY <2>4, <3>5 DEF Basic, Arrays, Taken
      <4>2. Owed' <= Owed /\ Owed' \in Nat
        BY <2>2, <3>2 DEF Owed
      <4>. QED
        BY <2>1, <2>2, <2>3, <2>6, <3>1, <3>2, <3>3, <4>1, <4>2 DEF Single, Starting
    <3>6. CASE Owed = 1 /\ Owed' = 0 /\ n = 1
      <4>1. boot = "done" /\ ConsumerOn
        BY <2>1, <2>2, <3>3, <3>6 DEF Single
      <4>2. Taken(channel) = 0 /\ Taken(channel)' = 1
        BY <2>1, <2>4, <2>6, <3>1, <3>6 DEF Single
      <4>. QED
        BY <2>1, <2>4, <2>6, <3>1, <3>2, <3>6, <4>1, <4>2 DEF Single, Starting
    <3>. QED
      BY <3>4, <3>5, <3>6
  <2>. QED
    BY <2>5, <2>6
<1>. QED
  BY <1>1, <1>2

LEMMA SingleGone ==
  ASSUME Basic, Single, Calm, NEW i \in Conns, NEW connState \in {"open", "closed"}, NEW left,
         ChannelGone(i, connState, left), conn[i] = "open", connState = "open" => chan[i] = "open"
  PROVE  Single'
<1>1. CASE Fatal(i, connState)
  BY <1>1, SingleDie DEF ChannelGone
<1>2. CASE ~Fatal(i, connState)
  <2> SUFFICES ASSUME ~overlap' PROVE Single'
    BY DEF Single
  <2>1. /\ UNCHANGED <<proc, est, estOn, boot, waiting, regWait, consuming>>
        /\ conn' = [conn EXCEPT ![i] = connState] /\ chan' = [chan EXCEPT ![i] = "closed"]
        /\ consumers' = [consumers EXCEPT ![i] = 0]
    BY <1>2 DEF ChannelGone, callers
  <2>2. boot # "calls" /\ armed \in Nat /\ waiting \in Nat /\ regWait \in Nat
    BY <1>2 DEF Basic, Fields, Fatal
  <2>3. \A k \in Conns : conn[k] # "open" => conn'[k] # "open"
    BY <2>1 DEF Basic, Arrays
  <2>4. \A k \in Conns : Taken(k)' = IF k = i THEN 0 ELSE Taken(k)
    <3> SUFFICES ASSUME NEW k \in Conns PROVE Taken(k)' = IF k = i THEN 0 ELSE Taken(k)
      OBVIOUS
    <3>1. consuming[i] \in Nat /\ ~(consuming[i] > 0)
      BY <1>2 DEF Basic, Arrays, Fatal
    <3>2. consumers'[k] = IF k = i THEN 0 ELSE consumers[k]
      BY <2>1 DEF Basic, Arrays
    <3>. QED
      BY <2>1, <3>1, <3>2 DEF Taken
  <2>5. boot = "connect" /\ ~overlap => /\ i = estOn /\ Settling' /\ est # "idle"
                                       /\ \A k \in Conns : k # estOn => conn'[k] = "closed"
    <3> SUFFICES ASSUME boot = "connect", ~overlap
                 PROVE  /\ i = estOn /\ Settling' /\ est # "idle"
                        /\ \A k \in Conns : k # estOn => conn'[k] = "closed"
      OBVIOUS
    <3>1. i = estOn /\ estOn # None
      BY Facts DEF Single, Starting
    <3>2. est \in {"open", "topology"} /\ (est = "open" => chan[i] = "closed")
      BY <3>1 DEF Basic, Ests
    <3>3. conn'[i] = connState /\ chan'[i] = "closed"
      BY <2>1 DEF Basic, Arrays
    <3>4. Settling'
      BY <2>1, <3>1, <3>2, <3>3 DEF Settling
    <3>5. \A k \in Conns : k # estOn => conn'[k] = "closed"
      BY <2>1, <3>1 DEF Single, Starting, Basic, Arrays
    <3>. QED
      BY <3>1, <3>2, <3>4, <3>5
  <2>6. CASE i \in heard /\ ~reconnecting
    <3>1. armed' = armed + 1 /\ channel' = None /\ ~overlap /\ ~(armed + (waiting + regWait) + 1 > 1)
      BY <1>2, <2>6 DEF ChannelGone, scheduleReconnect, Arm
    <3>2. Owed' = 1
      BY <2>1, <2>2, <3>1 DEF Owed
    <3>. QED
      BY <2>1, <2>2, <2>4, <2>5, <3>1, <3>2 DEF Single, Starting
  <2>7. CASE ~(i \in heard /\ ~reconnecting)
    <3>1. UNCHANGED <<armed, channel, overlap>>
      BY <1>2, <2>7 DEF ChannelGone, scheduleReconnect, fields
    <3>2. Owed' = Owed /\ ~overlap
      BY <2>1, <3>1 DEF Owed
    <3>3. channel \in Conns \cup {None}
      BY DEF Basic, Fields
    <3>. QED
      BY <2>1, <2>2, <2>4, <2>5, <3>1, <3>2, <3>3 DEF Single, Starting
  <2>. QED
    BY <2>6, <2>7
<1>. QED
  BY <1>1, <1>2

LEMMA SingleStep == Basic /\ Single /\ [Next]_vars => Single'
<1> SUFFICES ASSUME Basic, Single, [Next]_vars PROVE Single'
  OBVIOUS
<1>0. /\ channel \in Conns \cup {None} /\ armed \in Nat /\ waiting \in Nat /\ regWait \in Nat
      /\ estOn \in Conns \cup {None} /\ boot \in {"connect", "calls", "done"}
  BY DEF Basic, Fields
<1>1. ASSUME DialOk PROVE Single'
  <2>1. Calm /\ est = "dial" /\ UNCHANGED <<overlap, boot, channel, consumers, consuming, armed, waiting, regWait>>
    BY <1>1 DEF DialOk, history, calls
  <2>2. PICK i \in Conns : conn' = [conn EXCEPT ![i] = "open"] /\ estOn' = i /\ est' = "open"
    BY <1>1 DEF DialOk
  <2>3. ~overlap /\ Starting => Starting'
    <3> SUFFICES ASSUME Starting, boot = "connect" PROVE Starting'
      BY <2>1 DEF Starting
    <3>1. estOn = None
      BY <2>1 DEF Basic, Ests
    <3>2. \A k \in Conns : k # i => conn'[k] = "closed"
      BY <2>2, <3>1, Facts DEF Starting, Basic, Arrays
    <3>. QED
      BY <2>1, <2>2, <3>2 DEF Starting, Calm, Owed, Taken
  <2>. QED
    BY <1>0, <2>1, <2>3, SingleKept DEF Owed, Taken
<1>2. ASSUME OpenOk PROVE Single'
  <2>1. Calm /\ est = "open" /\ estOn \in Conns /\ chan[estOn] = "closed" /\ channel = None /\ boot # "calls"
    BY <1>0, <1>2 DEF OpenOk, Basic, Ests, Boots
  <2>2. CASE connection = None
    <3>1. Rejected(estOn, [chan EXCEPT ![estOn] = "open"])
      BY <1>2, <2>2 DEF OpenOk
    <3>. QED
      BY <2>1, <3>1, SingleRejected
  <2>3. CASE connection # None
    <3>1. /\ channel' = estOn /\ est' = "topology"
          /\ UNCHANGED <<conn, consumers, consuming, armed, estOn, boot, waiting, regWait, overlap, proc>>
      BY <1>2, <2>3 DEF OpenOk, calls, history
    <3>2. Taken(estOn) = 0
      <4>1. consumers[estOn] \in Nat /\ consuming[estOn] \in Nat
        BY <2>1 DEF Basic, Arrays
      <4>2. ~(consumers[estOn] > 0 \/ consuming[estOn] > 0)
        BY <2>1 DEF Basic, Chans
      <4>. QED
        BY <4>1, <4>2 DEF Taken
    <3>3. Owed' = Owed /\ \A i : Taken(i)' = Taken(i)
      BY <3>1 DEF Owed, Taken
    <3>. QED
      BY <1>0, <2>1, <3>1, <3>2, <3>3, Facts DEF Single, Starting, Calm
  <2>. QED
    BY <2>2, <2>3
<1>3. ASSUME EstablishOk PROVE Single'
  BY <1>3, SingleResolved DEF EstablishOk, Calm
<1>4. ASSUME EstablishFails PROVE Single'
  <2>1. Rejected(channel, chan) /\ est # "idle"
    BY <1>4 DEF EstablishFails, Settling, Basic, Ests
  <2>. QED
    BY <2>1, SingleRejected
<1>5. ASSUME DialRefused PROVE Single'
  BY <1>5, SingleRejected DEF DialRefused
<1>6. ASSUME BootOk PROVE Single'
  <2>1. /\ boot = "calls" /\ boot' = "done" /\ UNCHANGED <<channel, armed, waiting, regWait, overlap, consuming>>
        /\ consumers' = Add(consumers, channel, 1)
    BY <1>6 DEF BootOk, fields, calls, history
  <2>2. channel \in Conns
    BY <1>0, <2>1 DEF Basic, Boots
  <2>3. Owed' = Owed
    BY <2>1 DEF Owed
  <2>5. \A k \in Conns : Taken(k)' = IF k = channel THEN Taken(k) + 1 ELSE Taken(k)
    <3>1. consumers' = Add(consumers, channel, 1)
      BY <2>1
    <3>2. consumers \in [Conns -> Nat] /\ consuming \in [Conns -> Nat]
      BY DEF Basic, Arrays
    <3>3. \A k \in Conns : consumers'[k] = IF k = channel THEN consumers[k] + 1 ELSE consumers[k]
      <4>1. 1 \in Nat /\ channel \in Conns \cup {None}
        BY <1>0
      <4>2. \A k \in Conns : Add(consumers, channel, 1)[k] = IF k = channel THEN consumers[k] + 1 ELSE consumers[k]
        BY <3>2, <4>1, AddType
      <4>. QED
        BY <3>1, <4>2
    <3>4. \A k \in Conns : consumers[k] \in Nat /\ consuming[k] \in Nat
      BY <3>2
    <3>. QED
      BY <2>1, <3>3, <3>4 DEF Taken
  <2>6. ~overlap => Owed = 0 /\ \A k \in Conns : Taken(k) = 0
    BY <2>1 DEF Single
  <2>7. ConsumerOn
    BY <2>1 DEF Basic, Boots
  <2>. QED
    BY <1>0, <2>1, <2>2, <2>3, <2>5, <2>6, <2>7, Facts DEF Single, Starting
<1>7. ASSUME TimerFires PROVE Single'
  <2>1. Calm /\ armed > 0
    BY <1>7 DEF TimerFires
  <2>2. ~overlap => boot = "done" /\ Owed = 1 /\ armed = 1 /\ waiting = 0 /\ regWait = 0
    <3> SUFFICES ASSUME ~overlap PROVE boot = "done" /\ Owed = 1 /\ armed = 1 /\ waiting = 0 /\ regWait = 0
      OBVIOUS
    <3>1. armed + waiting + regWait <= 1
      BY DEF Single, Owed
    <3>2. Owed = 1 /\ armed = 1 /\ waiting = 0 /\ regWait = 0
      BY <1>0, <2>1, <3>1 DEF Owed
    <3>. QED
      BY <1>0, <2>1, <3>2 DEF Single, Starting, Calm
  <2>3. CASE channel = None
    <3>1. armed' = armed - 1 /\ waiting' = waiting + 1
          /\ UNCHANGED <<channel, consuming, consumers, boot, regWait, overlap>>
      BY <1>7, <2>3 DEF TimerFires, calls, history
    <3>2. Owed' = Owed
      BY <1>0, <2>1, <3>1 DEF Owed
    <3>3. ~overlap => Starting'
      BY <2>2, <3>1 DEF Starting
    <3>. QED
      BY <1>0, <3>1, <3>2, <3>3, SingleKept DEF Taken
  <2>4. CASE Die
    BY <2>4, SingleDie
  <2>5. CASE channel # None /\ ~Die
    <3> SUFFICES ASSUME ~overlap' PROVE Single'
      BY DEF Single
    <3>1. /\ armed' = armed - 1
          /\ consuming' = Add(consuming, channel, IF ConsumerOn THEN 1 ELSE 0)
          /\ UNCHANGED <<channel, consumers, boot, waiting, regWait, overlap>>
      BY <1>7, <2>5 DEF TimerFires, callers, history
    <3>2. boot = "done" /\ Owed = 1 /\ Owed' = 0
      BY <1>0, <2>2, <3>1 DEF Owed
    <3>3. PICK n \in Nat : n = IF ConsumerOn THEN 1 ELSE 0
      OBVIOUS
    <3>4. \A k \in Conns : Taken(k)' = IF k = channel THEN Taken(k) + n ELSE Taken(k)
      <4>1. consuming' = Add(consuming, channel, n)
        BY <3>1, <3>3
      <4>2. consumers \in [Conns -> Nat] /\ consuming \in [Conns -> Nat]
        BY DEF Basic, Arrays
      <4>3. \A k \in Conns : consuming'[k] = IF k = channel THEN consuming[k] + n ELSE consuming[k]
        <5>1. n \in Nat /\ channel \in Conns \cup {None}
          BY <1>0, <3>3
        <5>2. \A k \in Conns : Add(consuming, channel, n)[k] = IF k = channel THEN consuming[k] + n ELSE consuming[k]
          BY <4>2, <5>1, AddType
        <5>. QED
          BY <4>1, <5>2
      <4>4. \A k \in Conns : consumers[k] \in Nat /\ consuming[k] \in Nat
        BY <4>2
      <4>. QED
        BY <3>1, <4>3, <4>4 DEF Taken
    <3>. QED
      BY <1>0, <2>2, <2>5, <3>1, <3>2, <3>3, <3>4 DEF Single, Starting
  <2>. QED
    BY <2>3, <2>4, <2>5
<1>8. ASSUME Restart PROVE Single'
  <2>1. proc = "dead" /\ UNCHANGED <<conn, estOn, boot, overlap, channel, consumers, consuming, armed, waiting, regWait>>
        /\ est' = "dial"
    BY <1>8 DEF Restart, fields, calls, history
  <2>2. Owed = 0
    BY <2>1 DEF Basic, Dead, Owed
  <2>. QED
    BY <1>0, <2>1, <2>2, SingleKept DEF Owed, Taken, Starting
<1>9. ASSUME NEW i \in Conns, ConsumeOk(i) PROVE Single'
  <2>1. /\ consuming[i] > 0 /\ consuming' = [consuming EXCEPT ![i] = @ - 1]
        /\ consumers' = Add(consumers, i, 1)
        /\ UNCHANGED <<overlap, boot, channel, armed, waiting, regWait>>
    BY <1>9 DEF ConsumeOk, fields, history
  <2>2. consumers \in [Conns -> Nat] /\ consuming \in [Conns -> Nat]
    BY DEF Basic, Arrays
  <2>3. \A k \in Conns : consumers'[k] = IF k = i THEN consumers[k] + 1 ELSE consumers[k]
    BY <2>1, <2>2, AddType, SMTT(30)
  <2>4. \A k \in Conns : Taken(k)' = Taken(k)
    <3>1. \A k \in Conns : consumers[k] \in Nat /\ consuming[k] \in Nat
      BY <2>2
    <3>2. \A k \in Conns : consuming'[k] = IF k = i THEN consuming[k] - 1 ELSE consuming[k]
      BY <2>1, <2>2
    <3>. QED
      BY <2>3, <3>1, <3>2 DEF Taken
  <2>5. ~overlap => boot # "connect"
    <3> SUFFICES ASSUME ~overlap, boot = "connect" PROVE FALSE
      OBVIOUS
    <3>1. consumers[i] + consuming[i] = 0
      BY DEF Single, Starting, Taken
    <3>. QED
      BY <2>1, <2>2, <3>1
  <2>6. ~overlap => Starting'
    BY <2>1, <2>5 DEF Starting
  <2>. QED
    BY <1>0, <2>1, <2>4, <2>6, SingleKept DEF Owed
<1>10. ASSUME NEW i \in Conns, DlqOpened(i) PROVE Single'
  <2>1. UNCHANGED <<overlap, boot, channel, consumers, consuming, armed, waiting, regWait, est, estOn, conn, chan, proc>>
    BY <1>10 DEF DlqOpened, fields, callers, history
  <2>. QED
    BY <1>0, <2>1, SingleKept DEF Owed, Taken, Starting, Settling
<1>11. ASSUME Probe PROVE Single'
  <2>1. proc = "up" /\ est = "idle"
        /\ UNCHANGED <<overlap, boot, channel, consumers, consuming, armed, waiting, regWait>>
    BY <1>11 DEF Probe, Calm, fields, calls, history
  <2>2. ~overlap => Starting'
    BY <2>1 DEF Single, Starting
  <2>. QED
    BY <1>0, <2>1, <2>2, SingleKept DEF Owed, Taken
<1>12. ASSUME NEW i \in Conns, NEW m \in Msgs, Deliver(i, m) PROVE Single'
  <2>1. UNCHANGED <<overlap, boot, channel, consumers, consuming, armed, waiting, regWait, est, estOn, conn, chan, proc>>
    BY <1>12 DEF Deliver, fields, callers, calls, history
  <2>. QED
    BY <1>0, <2>1, SingleKept DEF Owed, Taken, Starting, Settling
<1>13. ASSUME NEW i \in Conns, ConnectionDrops(i) PROVE Single'
  BY <1>13, SingleDie, SingleGone DEF ConnectionDrops
<1>14. ASSUME NEW i \in Conns, ChannelError(i) PROVE Single'
  BY <1>14, SingleGone DEF ChannelError, Basic, Chans
<1>15. ASSUME NEW j \in jobs, Finish(j) PROVE Single'
  <2>1. CASE Die
    BY <2>1, SingleDie
  <2>2. CASE ~Die
    <3>1. Calm /\ channel # None /\ chan[channel] # "closed"
      BY <1>15, <2>2 DEF Finish
    <3>2. channel \in Conns /\ chan[channel] = "open" /\ conn[channel] = "open"
      BY <1>0, <3>1 DEF Basic, Arrays, Chans
    <3>3. CASE ChannelGone(channel, "open", jobs \ {j})
      BY <3>1, <3>2, <3>3, SingleGone
    <3>4. CASE ~ChannelGone(channel, "open", jobs \ {j})
      <4>1. UNCHANGED <<overlap, boot, channel, consumers, consuming, armed, waiting, regWait, est, estOn, conn, chan, proc>>
        BY <1>15, <2>2, <3>1, <3>4 DEF Finish, fields, callers, calls, history
      <4>. QED
        BY <1>0, <4>1, SingleKept DEF Owed, Taken, Starting, Settling
    <3>. QED
      BY <3>3, <3>4
  <2>. QED
    BY <2>1, <2>2
<1>17. CASE MonitorOpened \/ MonitorReady
  <2>1. UNCHANGED <<overlap, boot, channel, consumers, consuming, armed, waiting, regWait, est, estOn, conn, chan, proc>>
    BY <1>17 DEF MonitorOpened, MonitorReady, fields, callers, calls, history
  <2>. QED
    BY <1>0, <2>1, SingleKept DEF Owed, Taken, Starting, Settling
<1>16. CASE UNCHANGED vars
  <2>1. UNCHANGED <<overlap, boot, channel, consumers, consuming, armed, waiting, regWait, est, estOn, conn, chan, proc>>
    BY <1>16 DEF vars, fields, callers, calls, history
  <2>. QED
    BY <1>0, <2>1, SingleKept DEF Owed, Taken, Starting, Settling
<1>. QED
  BY <1>1, <1>2, <1>3, <1>4, <1>5, <1>6, <1>7, <1>8, <1>9, <1>10, <1>11, <1>12, <1>13, <1>14,
     <1>15, <1>16, <1>17 DEF Next, Service

----------------------------------------------------------------------------
(* Connections.  As long as no channel was closed alone, the open connection is
   the one in the field; during an attempt, and without a channel, it can only be
   the attempt's own. *)
Sole ==
  chanErrs = 0 =>
    /\ \A i \in Conns : conn[i] = "open" => i = connection
    /\ est # "idle" \/ channel = None => \A i \in Conns : conn[i] = "open" => i = estOn
    /\ est = "topology" /\ conn[estOn] = "open" => channel = estOn /\ chan[estOn] = "open"

AllClosed == \A i \in Conns : conn[i] = "closed"

LEMMA SoleDie ==
  ASSUME Die
  PROVE  Sole'
BY Facts DEF Die, Sole

(* An attempt that is over leaves no connection, if none was open. *)
LEMMA SoleRejected ==
  ASSUME NEW left, NEW chans, Rejected(left, chans), AllClosed
  PROVE  Sole'
<1>1. CASE boot = "connect" \/ regWait > 0
  BY <1>1, SoleDie DEF Rejected
<1>2. CASE ~(boot = "connect" \/ regWait > 0)
  <2>1. est' = "idle" /\ conn' = conn
    BY <1>2 DEF Rejected
  <2>. QED
    BY <2>1 DEF Sole, AllClosed
<1>. QED
  BY <1>1, <1>2

LEMMA SoleStep == Basic /\ Sole /\ [Next]_vars => Sole'
<1> SUFFICES ASSUME Basic, Sole, [Next]_vars PROVE Sole'
  OBVIOUS
<1>0. /\ channel \in Conns \cup {None} /\ estOn \in Conns \cup {None} /\ chanErrs \in Nat
      /\ conn \in [Conns -> {"open", "closed"}] /\ chan \in [Conns -> {"open", "closed"}]
  BY DEF Basic, Fields, Arrays, Outcomes
<1>1. ASSUME DialOk PROVE Sole'
  <2>1. est = "dial" /\ est' = "open" /\ UNCHANGED chanErrs
    BY <1>1 DEF DialOk, budget
  <2>2. PICK i \in Conns : conn' = [conn EXCEPT ![i] = "open"] /\ estOn' = i /\ connection' = i
    BY <1>1 DEF DialOk
  <2>3. estOn = None
    BY <2>1 DEF Basic, Ests
  <2>4. chanErrs = 0 => \A k \in Conns : conn'[k] = "open" => k = i
    BY <1>0, <2>1, <2>2, <2>3, Facts DEF Sole
  <2>. QED
    BY <2>1, <2>2, <2>4 DEF Sole
<1>2. ASSUME OpenOk PROVE Sole'
  <2> SUFFICES ASSUME chanErrs' = 0 PROVE Sole'
    BY DEF Sole
  <2>1. Calm /\ est = "open" /\ estOn \in Conns /\ UNCHANGED chanErrs
    BY <1>0, <1>2 DEF OpenOk, budget, Basic, Ests
  <2>2. conn[estOn] = "open"
    BY <1>0, <2>1, Facts DEF Calm, Settling
  <2>3. connection = estOn /\ estOn # None
    BY <2>1, <2>2, Facts DEF Sole
  <2>4. /\ chan' = [chan EXCEPT ![estOn] = "open"] /\ channel' = estOn
        /\ UNCHANGED <<conn, connection, estOn>>
    BY <1>2, <2>3 DEF OpenOk
  <2>5. chan'[estOn] = "open"
    BY <1>0, <2>1, <2>4
  <2>. QED
    BY <2>1, <2>3, <2>4, <2>5 DEF Sole
<1>3. ASSUME EstablishOk PROVE Sole'
  <2>1. Calm /\ est = "topology" /\ Resolved /\ UNCHANGED chanErrs
    BY <1>3 DEF EstablishOk, budget
  <2>2. CASE channel = None /\ (boot = "connect" \/ regWait > 0)
    BY <2>1, <2>2, SoleDie DEF Resolved
  <2>3. CASE ~(channel = None /\ (boot = "connect" \/ regWait > 0))
    <3>1. /\ est' \in {"idle", "dial"} /\ (est' = "dial" => channel = None)
          /\ UNCHANGED <<conn, connection, channel>>
      BY <2>1, <2>3 DEF Resolved
    <3>2. estOn \in Conns /\ conn[estOn] = "open"
      BY <1>0, <2>1, Facts DEF Calm, Settling, Basic, Ests
    <3>3. chanErrs = 0 => channel = estOn /\ channel # None
      BY <2>1, <3>2, Facts DEF Sole
    <3>4. chanErrs = 0 => est' = "idle" /\ channel' # None
      BY <3>1, <3>3
    <3>. QED
      BY <2>1, <3>1, <3>4 DEF Sole
  <2>. QED
    BY <2>2, <2>3
<1>4. ASSUME EstablishFails PROVE Sole'
  <2> SUFFICES ASSUME chanErrs' = 0 PROVE Sole'
    BY DEF Sole
  <2>1. Rejected(channel, chan) /\ UNCHANGED chanErrs /\ (Settling \/ (est = "topology" /\ channel = None))
    BY <1>4 DEF EstablishFails, budget
  <2>2. est \in {"open", "topology"} /\ estOn \in Conns
    BY <1>0, <2>1 DEF Settling, Basic, Ests
  <2>3. conn[estOn] = "closed"
    BY <1>0, <2>1, <2>2, Facts DEF Settling, Sole
  <2>4. AllClosed
    BY <1>0, <2>1, <2>2, <2>3 DEF Sole, AllClosed
  <2>. QED
    BY <2>1, <2>4, SoleRejected
<1>5. ASSUME DialRefused PROVE Sole'
  <2> SUFFICES ASSUME chanErrs' = 0 PROVE Sole'
    BY DEF Sole
  <2>1. Rejected(channel, chan) /\ UNCHANGED chanErrs /\ est = "dial"
    BY <1>5 DEF DialRefused
  <2>2. AllClosed
    BY <1>0, <2>1, Facts DEF Sole, AllClosed, Basic, Ests
  <2>. QED
    BY <2>1, <2>2, SoleRejected
<1>6. ASSUME TimerFires PROVE Sole'
  <2>1. CASE Die
    BY <2>1, SoleDie
  <2>2. CASE ~Die
    <3>1. /\ UNCHANGED <<conn, chan, connection, channel, estOn, chanErrs>>
          /\ \/ est' = est
             \/ channel = None /\ est = "idle"
      BY <1>6, <2>2 DEF TimerFires, callers, budget
    <3>2. est' = est \/ est' = "dial"
      BY <1>6, <2>2 DEF TimerFires, callers
    <3>. QED
      BY <3>1, <3>2 DEF Sole
  <2>. QED
    BY <2>1, <2>2
<1>7. ASSUME Restart PROVE Sole'
  <2>1. proc = "dead" /\ est' = "dial" /\ UNCHANGED <<conn, chan, connection, channel, estOn, chanErrs>>
    BY <1>7 DEF Restart, fields, budget
  <2>2. \A i \in Conns : conn[i] = "closed"
    BY <2>1 DEF Basic, Dead
  <2>. QED
    BY <2>1, <2>2 DEF Sole
<1>8. ASSUME Probe PROVE Sole'
  <2>1. channel = None /\ est' = "dial" /\ UNCHANGED <<conn, chan, connection, channel, estOn, chanErrs>>
    BY <1>8 DEF Probe, fields, budget
  <2>. QED
    BY <2>1 DEF Sole
<1>9. ASSUME NEW i \in Conns, ConsumeOk(i) PROVE Sole'
  <2>1. /\ UNCHANGED <<conn, chan, connection, channel, estOn, chanErrs>>
        /\ est' = est \/ (channel = None /\ est' = "dial")
    BY <1>9 DEF ConsumeOk, fields, budget
  <2>. QED
    BY <2>1 DEF Sole
<1>10. ASSUME NEW i \in Conns, ConnectionDrops(i) PROVE Sole'
  <2> SUFFICES ASSUME chanErrs' = 0 PROVE Sole'
    BY DEF Sole
  <2>1. conn[i] = "open" /\ (Die \/ ChannelGone(i, "closed", jobs)) /\ UNCHANGED chanErrs
    BY <1>10 DEF ConnectionDrops
  <2>2. CASE Die
    BY <2>2, SoleDie
  <2>3. CASE ~Die
    <3>1. conn' = [conn EXCEPT ![i] = "closed"] /\ est' = est /\ estOn' = estOn
      BY <2>1, <2>3 DEF ChannelGone, callers
    <3>2. \A k \in Conns : conn'[k] = "closed"
      BY <1>0, <2>1, <3>1 DEF Sole
    <3>3. est = "topology" => estOn \in Conns
      BY <1>0 DEF Basic, Ests
    <3>. QED
      BY <3>1, <3>2, <3>3 DEF Sole
  <2>. QED
    BY <2>2, <2>3
<1>11. ASSUME NEW i \in Conns, ChannelError(i) PROVE Sole'
  BY <1>0, <1>11 DEF ChannelError, Sole
<1>12. ASSUME NEW j \in jobs, Finish(j) PROVE Sole'
  <2>1. CASE Die
    BY <2>1, SoleDie
  <2>2. CASE ~Die /\ chanErrs' = chanErrs + 1
    BY <1>0, <2>2 DEF Sole
  <2>3. CASE ~Die /\ chanErrs' # chanErrs + 1
    <3>1. UNCHANGED <<conn, chan, connection, channel, est, estOn, chanErrs>>
      BY <1>12, <2>3 DEF Finish, fields, callers
    <3>. QED
      BY <3>1 DEF Sole
  <2>. QED
    BY <2>1, <2>2, <2>3
<1>13. CASE \/ BootOk \/ MonitorOpened \/ MonitorReady \/ UNCHANGED vars
            \/ \E i \in Conns : DlqOpened(i) \/ \E m \in Msgs : Deliver(i, m)
  <2>1. UNCHANGED <<conn, chan, connection, channel, est, estOn, chanErrs>>
    BY <1>13 DEF BootOk, MonitorOpened, MonitorReady, DlqOpened, Deliver, vars, fields, callers, budget
  <2>. QED
    BY <2>1 DEF Sole
<1>. QED
  BY <1>1, <1>2, <1>3, <1>4, <1>5, <1>6, <1>7, <1>8, <1>9, <1>10, <1>11, <1>12, <1>13
     DEF Next, Service

----------------------------------------------------------------------------
(* The way back.  Callers that wait, wait for an attempt; a reconnect has a timer
   or waits; listeners, DLQ channels and their calls are those of open
   connections, and a heard channel's connection is the one in the field.  The DLQ
   monitor's bootstrap keeps up with the consumer's. *)
Awaited == proc = "up" /\ (waiting > 0 \/ regWait > 0 \/ boot = "connect") => est # "idle"

Timers == reconnecting => armed + waiting > 0

Listeners ==
  /\ \A i \in heard : conn[i] = "open"
  /\ est = "open" => estOn \notin heard
  /\ est \in {"open", "topology"} => connection \in {estOn, None}
  /\ est = "topology" /\ conn[estOn] = "open" => estOn \in heard
  /\ est # "open" /\ connection # None /\ conn[connection] = "open" => connection \in heard
  /\ channel # None /\ channel \in heard => connection = channel
  /\ \A i \in Conns : opening[i] > 0 => i \in heard
  /\ dlq # None /\ conn[dlq] = "open" => dlq \in heard
  /\ monOn # None => monOn \in heard
  /\ boot = "calls" =>
       channel \in heard /\ (monOn # None \/ (dlq # None /\ conn[dlq] = "open"))

(* What the end of bootstrap has established, every later step keeps: a reconnect
   is under way, or the field is deaf, or the channel has its consumer and the DLQ
   monitor its channel, or else the calls that lead there. *)
Supplied ==
  /\ channel # None
  /\ \/ consuming[channel] > 0
     \/ /\ consumers[channel] > 0
        /\ opening[channel] > 0 \/ (dlq # None /\ conn[dlq] = "open") \/ monOn # None

Led == proc = "up" /\ boot = "done" => armed + waiting + regWait > 0 \/ Deaf \/ Supplied

LEMMA AwaitedStep == Basic /\ Awaited /\ [Next]_vars => Awaited'
<1> SUFFICES ASSUME Basic, Awaited, [Next]_vars PROVE Awaited'
  OBVIOUS
<1>0. waiting \in Nat /\ regWait \in Nat
  BY DEF Basic, Fields
<1>1. CASE Die
  BY <1>1 DEF Die, Awaited
<1>2. ASSUME NEW left, NEW chans, Rejected(left, chans), ~Die PROVE Awaited'
  BY <1>0, <1>2 DEF Rejected, Awaited
<1>3. ASSUME EstablishOk, ~Die PROVE Awaited'
  <2>1. /\ regWait' > 0 => est' = "dial"
        /\ waiting' = 0 /\ boot' # "connect"
    BY <1>0, <1>3 DEF EstablishOk, Resolved, Booted, Basic, Fields
  <2>. QED
    BY <1>0, <2>1 DEF Awaited
<1>4. ASSUME DialOk \/ (OpenOk /\ connection # None) \/ Restart \/ Probe PROVE Awaited'
  BY <1>4 DEF DialOk, OpenOk, Restart, Probe, Awaited
<1>5. ASSUME TimerFires, ~Die PROVE Awaited'
  BY <1>5 DEF TimerFires, callers, Awaited
<1>6. ASSUME NEW i \in Conns, ConsumeOk(i) PROVE Awaited'
  BY <1>6 DEF ConsumeOk, Awaited
<1>7. ASSUME NEW i, NEW s, NEW left, ChannelGone(i, s, left), ~Die PROVE Awaited'
  BY <1>7 DEF ChannelGone, callers, Awaited
<1>8. ASSUME NEW j \in jobs, Finish(j), ~Die PROVE Awaited'
  <2>1. CASE ChannelGone(channel, "open", jobs \ {j})
    BY <1>8, <1>7, <2>1
  <2>2. CASE ~ChannelGone(channel, "open", jobs \ {j})
    BY <1>8, <2>2 DEF Finish, callers, Awaited
  <2>. QED
    BY <2>1, <2>2
<1>9. CASE \/ BootOk \/ MonitorOpened \/ MonitorReady \/ UNCHANGED vars
           \/ \E i \in Conns : DlqOpened(i) \/ \E m \in Msgs : Deliver(i, m)
  BY <1>9 DEF BootOk, MonitorOpened, MonitorReady, DlqOpened, Deliver, vars, callers, Awaited
<1>. QED
  BY <1>1, <1>2, <1>3, <1>4, <1>5, <1>6, <1>7, <1>8, <1>9
     DEF Next, Service, OpenOk, EstablishFails, DialRefused, ConnectionDrops, ChannelError

LEMMA TimersStep == Basic /\ Timers /\ [Next]_vars => Timers'
<1> SUFFICES ASSUME Basic, Timers, [Next]_vars PROVE Timers'
  OBVIOUS
<1>0. waiting \in Nat /\ armed \in Nat /\ reconnecting \in BOOLEAN
  BY DEF Basic, Fields
<1>1. CASE Die
  BY <1>1 DEF Die, Timers
<1>2. ASSUME NEW left, NEW chans, Rejected(left, chans), ~Die PROVE Timers'
  <2>1. waiting' = 0 /\ (reconnecting' = FALSE \/ (~(waiting > 0) /\ UNCHANGED <<reconnecting, armed>>))
    BY <1>2 DEF Rejected
  <2>2. CASE reconnecting' = FALSE
    BY <2>2 DEF Timers
  <2>3. CASE reconnecting' # FALSE
    <3>0. ~(waiting > 0) /\ UNCHANGED <<reconnecting, armed>>
      BY <2>1, <2>3
    <3>1. waiting = 0
      BY <1>0, <3>0
    <3>2. armed' = armed /\ reconnecting
      BY <1>0, <2>3, <3>0, Zenon
    <3>3. armed + waiting > 0
      BY <3>2 DEF Timers
    <3>4. armed' + waiting' > 0
      BY <2>1, <3>1, <3>2, <3>3
    <3>. QED
      BY <3>4 DEF Timers
  <2>. QED
    BY <2>1, <2>2, <2>3
<1>3. ASSUME EstablishOk, ~Die PROVE Timers'
  <2>1. reconnecting' = (reconnecting /\ waiting = 0) /\ waiting' = 0 /\ armed' = armed
    BY <1>3 DEF EstablishOk, Resolved
  <2>. QED
    BY <1>0, <2>1 DEF Timers
<1>4. ASSUME TimerFires, ~Die PROVE Timers'
  <2>1. \/ armed' = armed - 1 /\ waiting' = waiting + 1
        \/ reconnecting' = FALSE
    BY <1>4 DEF TimerFires
  <2>. QED
    BY <1>0, <2>1, <1>4 DEF TimerFires, Timers
<1>5. ASSUME NEW i, NEW s, NEW left, ChannelGone(i, s, left), ~Die PROVE Timers'
  <2>1. waiting' = waiting /\ (scheduleReconnect \/ UNCHANGED fields)
    BY <1>5 DEF ChannelGone, callers
  <2>. QED
    <3>1. CASE UNCHANGED fields
      BY <2>1, <3>1 DEF fields, Timers
    <3>2. CASE scheduleReconnect /\ ~UNCHANGED fields
      <4>1. armed' = armed + 1
        BY <3>2 DEF scheduleReconnect, Arm, fields
      <4>. QED
        BY <1>0, <2>1, <4>1 DEF Timers
    <3>. QED
      BY <2>1, <3>1, <3>2
<1>6. ASSUME NEW j \in jobs, Finish(j), ~Die PROVE Timers'
  <2>1. CASE ChannelGone(channel, "open", jobs \ {j})
    BY <1>6, <1>5, <2>1
  <2>2. CASE ~ChannelGone(channel, "open", jobs \ {j})
    BY <1>6, <2>2 DEF Finish, callers, fields, Timers
  <2>. QED
    BY <2>1, <2>2
<1>7. CASE \/ DialOk \/ (OpenOk /\ connection # None) \/ BootOk \/ MonitorOpened \/ MonitorReady
           \/ Restart \/ Probe \/ UNCHANGED vars
           \/ \E i \in Conns : ConsumeOk(i) \/ DlqOpened(i) \/ \E m \in Msgs : Deliver(i, m)
  <2>1. UNCHANGED <<reconnecting, armed, waiting>>
    BY <1>7 DEF DialOk, OpenOk, BootOk, MonitorOpened, MonitorReady, Restart, Probe, vars, ConsumeOk,
                DlqOpened, Deliver, callers, fields
  <2>. QED
    BY <2>1 DEF Timers
<1>. QED
  BY <1>1, <1>2, <1>3, <1>4, <1>5, <1>6, <1>7
     DEF Next, Service, OpenOk, EstablishFails, DialRefused, ConnectionDrops, ChannelError

LEMMA ListenersStep == Basic /\ Listeners /\ [Next]_vars => Listeners'
<1> SUFFICES ASSUME Basic, Listeners, [Next]_vars PROVE Listeners'
  OBVIOUS
<1>0. /\ channel \in Conns \cup {None} /\ connection \in Conns \cup {None}
      /\ estOn \in Conns \cup {None} /\ dlq \in Conns \cup {None}
      /\ heard \subseteq Conns /\ opening \in [Conns -> Nat]
      /\ waiting \in Nat /\ dlqWait \in Nat /\ None \notin Conns
      /\ conn \in [Conns -> {"open", "closed"}] /\ chan \in [Conns -> {"open", "closed"}]
      /\ \A i \in Conns : chan[i] = "open" => conn[i] = "open"
  BY Facts DEF Basic, Fields, Arrays, Chans
<1>1. CASE Die
  BY <1>1, ZeroType DEF Die, Listeners
<1>2. ASSUME NEW left, NEW chans, Rejected(left, chans), ~Die, est # "idle",
             est = "open" => connection = None \/ conn[estOn] = "closed",
             left = channel \/ (est = "open" /\ left = estOn)
      PROVE  Listeners'
  <2>1. /\ est' = "idle" /\ boot' = boot
        /\ UNCHANGED <<conn, heard, opening, monOn, dlq>>
        /\ \/ connection' = None /\ channel' = None
           \/ connection' = connection /\ channel' = left
    BY <1>2 DEF Rejected, Arm, calls
  <2>2. boot # "calls"
    BY <1>2 DEF Basic, Boots
  <2>. QED
    BY <1>0, <1>2, <2>1, <2>2 DEF Listeners
<1>3. ASSUME EstablishOk, ~Die PROVE Listeners'
  <2>1. /\ Calm /\ est = "topology" /\ est' \in {"dial", "idle"}
        /\ boot' # boot => boot = "connect"
        /\ monOn' = (IF boot = "connect" THEN channel ELSE monOn)
        /\ ~(channel = None /\ boot = "connect")
        /\ UNCHANGED <<conn, heard, connection, channel, dlq>>
    BY <1>3 DEF EstablishOk, Resolved, Booted
  <2>2. estOn \in Conns /\ conn[estOn] = "open" /\ estOn \in heard
    BY <1>0, <2>1 DEF Calm, Settling, Basic, Ests, Listeners
  <2>3. boot # "calls" /\ (channel # None => channel = estOn)
    BY <2>1 DEF Basic, Boots, Ests
  <2>4. PICK n \in Nat : opening' = Add(opening, connection, n)
    BY <1>0, <1>3 DEF EstablishOk, Resolved
  <2>5. connection \in {estOn, None}
    BY <2>1 DEF Listeners
  <2>6. \A i \in Conns : opening'[i] > 0 => i \in heard
    <3> SUFFICES ASSUME NEW i \in Conns, opening'[i] > 0 PROVE i \in heard
      OBVIOUS
    <3>1. opening[i] > 0 \/ i = connection
      BY <1>0, <2>4, AddPositive
    <3>. QED
      BY <1>0, <2>2, <2>5, <3>1 DEF Listeners
  <2>. QED
    BY <1>0, <2>1, <2>2, <2>3, <2>6 DEF Listeners
<1>4. ASSUME DialOk PROVE Listeners'
  <2>1. /\ est = "dial" /\ est' = "open"
        /\ UNCHANGED <<heard, channel, boot, opening, monOn, dlq>>
    BY <1>4 DEF DialOk, calls
  <2>2. PICK i \in Conns : Spare(i) /\ conn' = [conn EXCEPT ![i] = "open"] /\ connection' = i /\ estOn' = i
    BY <1>4 DEF DialOk
  <2>3. i \notin heard /\ i # dlq /\ channel = None
    BY <2>1, <2>2 DEF Spare, Listeners, Basic, Ests
  <2>. QED
    BY <1>0, <2>1, <2>2, <2>3 DEF Listeners
<1>5. ASSUME OpenOk, connection # None PROVE Listeners'
  <2>1. /\ Calm /\ est = "open" /\ channel' = estOn /\ heard' = heard \cup {estOn} /\ est' = "topology"
        /\ UNCHANGED <<conn, connection, estOn, boot, opening, monOn, dlq>>
    BY <1>5 DEF OpenOk, calls
  <2>2. estOn \in Conns /\ conn[estOn] = "open" /\ connection = estOn
    BY <1>0, <1>5, <2>1 DEF Calm, Settling, Basic, Ests, Listeners
  <2>3. boot # "calls"
    BY <2>1 DEF Basic, Boots
  <2>. QED
    BY <1>0, <2>1, <2>2, <2>3 DEF Listeners
<1>6. ASSUME BootOk PROVE Listeners'
  <2>1. /\ boot = "calls" /\ boot' = "done"
        /\ UNCHANGED <<conn, heard, connection, channel, est, estOn, opening, monOn, dlq>>
    BY <1>6 DEF BootOk, fields, calls
  <2>. QED
    BY <1>0, <2>1 DEF Listeners
<1>7. ASSUME TimerFires, ~Die PROVE Listeners'
  <2>1. /\ UNCHANGED <<conn, heard, connection, channel, estOn, boot, monOn, dlq>>
        /\ est' = est \/ (est = "idle" /\ est' = "dial")
    BY <1>7 DEF TimerFires, callers, calls
  <2>2. CASE opening' = opening
    BY <1>0, <2>1, <2>2 DEF Listeners
  <2>3. CASE opening' # opening
    <3>1. /\ connection # None /\ conn[connection] = "open" /\ est # "open"
          /\ opening' = Add(opening, connection, 1)
      BY <1>7, <2>3 DEF TimerFires, calls, Connected, Basic, Ests
    <3>2. connection \in heard
      BY <1>0, <3>1 DEF Listeners, Basic, Ests
    <3>3. ASSUME NEW k \in Conns, opening'[k] > 0 PROVE k \in heard
      <4>1. opening[k] > 0 \/ k = connection
        BY <1>0, <3>1, <3>3, AddPositive
      <4>. QED
        BY <3>2, <4>1 DEF Listeners
    <3>. QED
      BY <1>0, <2>1, <3>3 DEF Listeners
  <2>. QED
    BY <2>2, <2>3
<1>8. ASSUME NEW i \in Conns, ConsumeOk(i) PROVE Listeners'
  <2>1. /\ UNCHANGED <<conn, heard, connection, channel, estOn, boot, monOn, dlq>>
        /\ est' = est \/ (est = "idle" /\ est' = "dial")
    BY <1>8 DEF ConsumeOk, fields
  <2>2. CASE opening' = opening
    BY <1>0, <2>1, <2>2 DEF Listeners
  <2>3. CASE opening' # opening
    <3>1. /\ connection # None /\ conn[connection] = "open" /\ est # "open"
          /\ opening' = Add(opening, connection, 1)
      BY <1>8, <2>3 DEF ConsumeOk, Connected, Basic, Ests
    <3>2. connection \in heard
      BY <1>0, <3>1 DEF Listeners, Basic, Ests
    <3>3. ASSUME NEW k \in Conns, opening'[k] > 0 PROVE k \in heard
      <4>1. opening[k] > 0 \/ k = connection
        BY <1>0, <3>1, <3>3, AddPositive
      <4>. QED
        BY <3>2, <4>1 DEF Listeners
    <3>. QED
      BY <1>0, <2>1, <3>3 DEF Listeners
  <2>. QED
    BY <2>2, <2>3
<1>9. ASSUME NEW i \in Conns, DlqOpened(i) PROVE Listeners'
  <2>1. /\ opening[i] > 0 /\ opening' = [opening EXCEPT ![i] = @ - 1] /\ dlq' = i
        /\ UNCHANGED <<conn, heard, connection, channel, est, estOn, boot, monOn>>
    BY <1>9 DEF DlqOpened, fields, callers
  <2>2. \A k \in Conns : opening'[k] > 0 => opening[k] > 0
    BY <1>0, <2>1
  <2>3. i # None /\ i \in heard /\ conn[i] = "open"
    BY <1>0, <2>1 DEF Listeners
  <2>. QED
    BY <2>1, <2>2, <2>3 DEF Listeners
<1>10. ASSUME NEW i \in Conns, NEW s \in {"open", "closed"}, NEW left,
              ChannelGone(i, s, left), ~Die, conn[i] = "open"
       PROVE  Listeners'
  <2>1. /\ conn' = [conn EXCEPT ![i] = s] /\ boot # "calls"
        /\ heard' = (IF s = "closed" THEN heard \ {i} ELSE heard)
        /\ opening' = (IF s = "closed" THEN [opening EXCEPT ![i] = 0] ELSE opening)
        /\ UNCHANGED <<est, estOn, boot, monOn, dlq>>
        /\ s = "closed" => i # monOn
    BY <1>10 DEF ChannelGone, Fatal, callers
  <2>2. \/ connection' = None /\ channel' = None
        \/ connection' = connection /\ channel' = channel
    BY <1>10 DEF ChannelGone, scheduleReconnect, Arm, fields
  <2>3. CASE s = "open"
    <3>1. conn' = conn
      BY <1>0, <1>10, <2>1, <2>3
    <3>. QED
      BY <1>0, <2>1, <2>2, <2>3, <3>1 DEF Listeners
  <2>4. CASE s = "closed"
    <3>1. \A k \in Conns : /\ opening'[k] > 0 => opening[k] > 0 /\ k # i
                           /\ conn'[k] = "open" <=> conn[k] = "open" /\ k # i
      BY <1>0, <2>1, <2>4
    <3>2. \A k : k \in heard' <=> k \in heard /\ k # i
      BY <2>1, <2>4
    <3>3. est \in {"open", "topology"} => estOn \in Conns
      BY <1>0 DEF Basic, Ests
    <3>. QED
      BY <1>0, <2>1, <2>2, <3>1, <3>2, <3>3 DEF Listeners
  <2>. QED
    BY <2>3, <2>4
<1>11. ASSUME NEW j \in jobs, Finish(j), ~Die PROVE Listeners'
  <2>1. Calm /\ channel # None /\ chan[channel] # "closed"
    BY <1>11 DEF Finish
  <2>2. channel \in Conns /\ conn[channel] = "open"
    BY <1>0, <2>1
  <2>3. CASE ChannelGone(channel, "open", jobs \ {j})
    BY <1>11, <1>10, <2>2, <2>3
  <2>4. CASE ~ChannelGone(channel, "open", jobs \ {j})
    <3>1. UNCHANGED <<conn, heard, connection, channel, est, estOn, boot, monOn, dlq, opening>>
      BY <1>11, <2>4 DEF Finish, callers, fields, calls
    <3>. QED
      BY <3>1 DEF Listeners
  <2>. QED
    BY <2>3, <2>4
<1>12. CASE \/ Restart \/ Probe \/ UNCHANGED vars
            \/ \E i \in Conns : \E m \in Msgs : Deliver(i, m)
  <2>1. /\ UNCHANGED <<conn, heard, connection, channel, estOn, boot, monOn, dlq, opening>>
        /\ est' = est \/ est' = "dial"
    BY <1>12 DEF Restart, Probe, vars, Deliver, callers, fields, calls
  <2>2. est' # est => est = "idle"
    BY <1>12 DEF Restart, Probe, vars, Deliver, callers, Basic, Dead
  <2>. QED
    BY <2>1, <2>2 DEF Listeners
<1>13. CASE DialRefused \/ EstablishFails \/ (OpenOk /\ connection = None)
  <2>1. est # "idle" /\ (EstablishFails /\ est = "open" => conn[estOn] = "closed")
    BY <1>13 DEF DialRefused, EstablishFails, OpenOk, Settling, Basic, Ests
  <2>. QED
    BY <1>1, <1>2, <1>13, <2>1 DEF DialRefused, EstablishFails, OpenOk, Rejected
<1>14. CASE \E i \in Conns : ConnectionDrops(i) \/ ChannelError(i)
  BY <1>0, <1>1, <1>10, <1>14 DEF ConnectionDrops, ChannelError
<1>15. ASSUME MonitorOpened \/ MonitorReady PROVE Listeners'
  <2>1. /\ monOn # None /\ dlq' = monOn /\ monOn' \in {monOn, None}
        /\ UNCHANGED <<conn, heard, connection, channel, est, estOn, boot, opening>>
    BY <1>15 DEF MonitorOpened, MonitorReady, fields, callers, calls
  <2>2. conn[monOn] = "open" /\ monOn \in heard
    BY <2>1 DEF Listeners
  <2>. QED
    BY <2>1, <2>2 DEF Listeners
<1>. QED
  BY <1>1, <1>3, <1>4, <1>5, <1>6, <1>7, <1>8, <1>9, <1>11, <1>12, <1>13, <1>14, <1>15
     DEF Next, Service

(* The steps that touch neither the reconnects nor the channel's calls. *)
LEMMA LedKept ==
  ASSUME Led, UNCHANGED <<proc, boot, armed, waiting, regWait, channel, chan, heard, consuming,
                          consumers, opening, monOn, dlq, conn>>
  PROVE  Led'
BY DEF Led, Deaf, Supplied

(* An attempt that fails under a waiting timer schedules another; under nobody it
   leaves a channel that is closed or that has no listeners, if it leaves one. *)
LEMMA LedRejected ==
  ASSUME Basic, Listeners, Led, proc = "up", est # "idle",
         NEW left, NEW chans, Rejected(left, chans),
         \/ left = channel /\ chans = chan /\ (channel # None => chan[channel] = "closed")
         \/ est = "open" /\ left = estOn
  PROVE  Led'
<1>0. armed \in Nat /\ waiting \in Nat /\ regWait \in Nat /\ None \notin Conns
      /\ estOn \in Conns \cup {None}
  BY Facts DEF Basic, Fields
<1>1. CASE Die
  BY <1>1 DEF Die, Led
<1>2. CASE ~Die
  <2>1. /\ ~(boot = "connect" \/ regWait > 0) /\ boot' = boot /\ regWait' = regWait /\ waiting' = 0
        /\ heard' = heard /\ chan' = chans
        /\ IF waiting > 0 THEN armed' = armed + waiting ELSE channel' = left /\ armed' = armed
    BY <1>2 DEF Rejected, Arm
  <2>2. CASE waiting > 0 \/ armed > 0
    <3>1. armed' + waiting' + regWait' > 0
      BY <1>0, <2>1, <2>2
    <3>. QED
      BY <3>1 DEF Led
  <2>3. CASE waiting = 0 /\ armed = 0
    <3>1. channel' = left /\ armed + waiting + regWait = 0
      BY <1>0, <2>1, <2>3
    <3>2. boot = "done" => channel # None \/ (left = estOn /\ est = "open")
      <4>1. boot = "done" => Deaf \/ Supplied
        BY <3>1 DEF Led
      <4>. QED
        BY <4>1 DEF Deaf, Supplied
    <3>3. est = "open" => estOn # None /\ estOn \notin heard /\ channel = None
      BY DEF Listeners, Basic, Ests
    <3>4. boot = "done" => Deaf'
      BY <2>1, <3>1, <3>2, <3>3 DEF Deaf
    <3>. QED
      BY <2>1, <3>4 DEF Led
  <2>. QED
    BY <1>0, <2>2, <2>3
<1>. QED
  BY <1>1, <1>2

(* The loss of the channel in use is heard, and a reconnect is or was under way,
   or the field is deaf.  The loss of another one leaves the channel's consumer and
   calls alone, and if it held the DLQ monitor's channel, it is heard. *)
LEMMA LedGone ==
  ASSUME Basic, Timers, Listeners, Led, proc = "up",
         NEW i \in Conns, NEW s \in {"open", "closed"}, NEW left, ChannelGone(i, s, left)
  PROVE  Led'
<1>0. armed \in Nat /\ waiting \in Nat /\ regWait \in Nat /\ None \notin Conns
      /\ conn \in [Conns -> {"open", "closed"}] /\ chan \in [Conns -> {"open", "closed"}]
      /\ channel \in Conns \cup {None} /\ dlq \in Conns \cup {None}
      /\ opening \in [Conns -> Nat] /\ consumers \in [Conns -> Nat]
  BY Facts DEF Basic, Fields, Arrays
<1>1. CASE Die
  BY <1>1 DEF Die, Led
<1>2. CASE ~Die
  <2>1. /\ conn' = [conn EXCEPT ![i] = s] /\ chan' = [chan EXCEPT ![i] = "closed"]
        /\ consumers' = [consumers EXCEPT ![i] = 0]
        /\ heard' = (IF s = "closed" THEN heard \ {i} ELSE heard)
        /\ opening' = (IF s = "closed" THEN [opening EXCEPT ![i] = 0] ELSE opening)
        /\ IF i \in heard THEN scheduleReconnect ELSE UNCHANGED fields
        /\ UNCHANGED <<proc, boot, waiting, regWait, consuming, monOn, dlq>>
    BY <1>2 DEF ChannelGone, callers, fields
  <2>2. CASE i \in heard
    <3>1. CASE reconnecting
      <4>1. armed + waiting > 0 /\ armed' = armed
        BY <2>1, <2>2, <3>1 DEF Timers, scheduleReconnect, fields
      <4>2. armed' + waiting' + regWait' > 0
        BY <1>0, <2>1, <4>1
      <4>. QED
        BY <4>2 DEF Led
    <3>2. CASE ~reconnecting
      <4>1. armed' = armed + 1
        BY <2>1, <2>2, <3>2 DEF scheduleReconnect, Arm
      <4>2. armed' + waiting' + regWait' > 0
        BY <1>0, <2>1, <4>1
      <4>. QED
        BY <4>2 DEF Led
    <3>. QED
      BY <3>1, <3>2
  <2>3. CASE i \notin heard
    <3>1. UNCHANGED <<armed, channel>> /\ heard' = heard
      BY <2>1, <2>3 DEF fields
    <3>2. Deaf => Deaf'
      BY <1>0, <2>1, <3>1 DEF Deaf
    <3>3. CASE i = channel
      BY <1>0, <2>1, <2>3, <3>1, <3>3 DEF Led, Deaf
    <3>4. CASE i # channel
      <4>1. dlq # None /\ conn[dlq] = "open" => i # dlq
        BY <2>3 DEF Listeners
      <4>2. Supplied => Supplied'
        BY <1>0, <2>1, <3>1, <3>4, <4>1 DEF Supplied
      <4>. QED
        BY <2>1, <3>1, <3>2, <4>2 DEF Led
    <3>. QED
      BY <3>3, <3>4
  <2>. QED
    BY <2>2, <2>3
<1>. QED
  BY <1>1, <1>2

LEMMA LedStep == ConsumerOn /\ Basic /\ Timers /\ Listeners /\ Led /\ [Next]_vars => Led'
<1> SUFFICES ASSUME ConsumerOn, Basic, Timers, Listeners, Led, [Next]_vars PROVE Led'
  OBVIOUS
<1>0. /\ channel \in Conns \cup {None} /\ connection \in Conns \cup {None}
      /\ estOn \in Conns \cup {None} /\ dlq \in Conns \cup {None} /\ None \notin Conns
      /\ armed \in Nat /\ waiting \in Nat /\ regWait \in Nat /\ dlqWait \in Nat
      /\ opening \in [Conns -> Nat] /\ consumers \in [Conns -> Nat] /\ consuming \in [Conns -> Nat]
      /\ conn \in [Conns -> {"open", "closed"}] /\ chan \in [Conns -> {"open", "closed"}]
      /\ \A i \in Conns : chan[i] = "open" => conn[i] = "open"
  BY Facts DEF Basic, Fields, Arrays, Chans
<1>1. ASSUME DialOk \/ (OpenOk /\ connection # None) PROVE Led'
  <2>1. /\ est \in {"dial", "open"}
        /\ UNCHANGED <<proc, boot, armed, waiting, regWait>>
    BY <1>1 DEF DialOk, OpenOk
  <2>2. channel = None
    BY <2>1 DEF Basic, Ests
  <2>. QED
    BY <2>1, <2>2 DEF Led, Deaf, Supplied
<1>2. ASSUME DialRefused \/ EstablishFails \/ (OpenOk /\ connection = None) PROVE Led'
  <2>1. proc = "up" /\ est # "idle"
    BY <1>2 DEF DialRefused, EstablishFails, OpenOk, Calm, Settling, Basic, Ests
  <2>2. CASE OpenOk /\ connection = None
    BY <2>1, <2>2, LedRejected DEF OpenOk
  <2>3. CASE DialRefused
    <3>1. channel = None
      BY <2>3 DEF DialRefused, Basic, Ests
    <3>. QED
      BY <2>1, <2>3, <3>1, LedRejected DEF DialRefused
  <2>4. CASE EstablishFails
    <3>1. channel # None => est = "topology" /\ channel = estOn /\ Settling
      BY <2>1, <2>4 DEF EstablishFails, Basic, Fields, Ests
    <3>2. channel # None => chan[channel] = "closed"
      BY <1>0, <3>1 DEF Settling
    <3>. QED
      BY <2>1, <2>4, <3>2, LedRejected DEF EstablishFails
  <2>. QED
    BY <1>2, <2>2, <2>3, <2>4
<1>3. ASSUME EstablishOk PROVE Led'
  <2>1. CASE Die
    BY <2>1 DEF Die, Led
  <2>2. CASE ~Die
    <3>1. /\ ~(channel = None /\ (boot = "connect" \/ regWait > 0))
          /\ waiting' = 0 /\ regWait' = (IF channel = None THEN waiting ELSE 0)
          /\ boot' = (IF boot = "connect" THEN "calls" ELSE boot)
          /\ boot = "done" => monOn' = monOn
          /\ consuming' = Add(consuming, channel, regWait + waiting)
          /\ UNCHANGED <<proc, conn, chan, heard, consumers, dlq, armed, channel>>
      BY <1>3, <2>2 DEF EstablishOk, Resolved, Booted
    <3>2. proc = "up"
      BY <1>3 DEF EstablishOk, Calm
    <3>3. PICK n \in Nat : opening' = Add(opening, connection, n)
      BY <1>0, <1>3, <2>2 DEF EstablishOk, Resolved
    <3>4. CASE boot # "done"
      BY <3>1, <3>4 DEF Led
    <3>5. CASE boot = "done" /\ (armed > 0 \/ (channel = None /\ waiting > 0))
      <4>1. armed' + waiting' + regWait' > 0
        BY <1>0, <3>1, <3>5
      <4>. QED
        BY <4>1 DEF Led
    <3>6. CASE boot = "done" /\ channel # None /\ waiting + regWait > 0
      <4>1. consuming'[channel] > 0
        BY <1>0, <3>1, <3>6, AddType
      <4>. QED
        BY <3>1, <3>6, <4>1 DEF Led, Supplied
    <3>7. CASE boot = "done" /\ armed = 0 /\ waiting = 0 /\ regWait = 0
      <4>1. Deaf \/ Supplied
        BY <1>0, <3>2, <3>7 DEF Led
      <4>2. Deaf => Deaf'
        BY <3>1 DEF Deaf
      <4>3. consuming' = Add(consuming, channel, 0)
        BY <3>1, <3>7
      <4>4. ASSUME channel \in Conns
            PROVE  consuming'[channel] = consuming[channel] /\ (opening[channel] > 0 => opening'[channel] > 0)
        BY <1>0, <3>3, <4>3, <4>4 DEF Add
      <4>5. Supplied => Supplied'
        BY <1>0, <3>1, <3>7, <4>4 DEF Supplied
      <4>. QED
        BY <4>1, <4>2, <4>5 DEF Led
    <3>. QED
      BY <1>0, <3>1, <3>4, <3>5, <3>6, <3>7
  <2>. QED
    BY <2>1, <2>2
<1>4. ASSUME BootOk PROVE Led'
  <2>1. /\ boot = "calls" /\ consumers' = Add(consumers, channel, 1)
        /\ UNCHANGED <<channel, conn, monOn, dlq>>
    BY <1>4 DEF BootOk, fields, calls
  <2>2. channel \in Conns
    BY <1>0, <2>1 DEF Basic, Boots
  <2>3. consumers'[channel] > 0
    BY <1>0, <2>1, <2>2 DEF Add
  <2>4. monOn # None \/ (dlq # None /\ conn[dlq] = "open")
    BY <2>1 DEF Listeners
  <2>. QED
    BY <1>0, <2>1, <2>2, <2>3, <2>4 DEF Led, Supplied
<1>5. ASSUME TimerFires PROVE Led'
  <2>1. CASE Die
    BY <2>1 DEF Die, Led
  <2>2. CASE ~Die /\ channel = None
    <3>1. armed > 0 /\ armed' = armed - 1 /\ waiting' = waiting + 1 /\ regWait' = regWait
      BY <1>5, <2>2 DEF TimerFires
    <3>2. armed' + waiting' + regWait' > 0
      BY <1>0, <3>1
    <3>. QED
      BY <3>2 DEF Led
  <2>3. CASE ~Die /\ channel # None
    <3>1. consuming' = Add(consuming, channel, 1) /\ channel' = channel
      BY <1>5, <2>3 DEF TimerFires
    <3>2. consuming'[channel] > 0
      BY <1>0, <2>3, <3>1, AddType
    <3>. QED
      BY <2>3, <3>1, <3>2 DEF Led, Supplied
  <2>. QED
    BY <2>1, <2>2, <2>3
<1>6. ASSUME NEW i \in Conns, ConsumeOk(i) PROVE Led'
  <2>1. /\ consuming[i] > 0 /\ consuming' = [consuming EXCEPT ![i] = @ - 1]
        /\ consumers' = Add(consumers, i, 1)
        /\ UNCHANGED <<proc, boot, armed, waiting, regWait, channel, chan, heard, monOn, dlq, conn>>
        /\ (channel # None =>
             opening' = IF Registered /\ Connected THEN Add(opening, connection, 1) ELSE opening)
    BY <1>6 DEF ConsumeOk, fields
  <2>2. CASE channel = None
    BY <2>1, <2>2 DEF Led, Deaf, Supplied
  <2>3. CASE channel # None /\ i # channel
    <3>1. consuming'[channel] = consuming[channel] /\ consumers'[channel] = consumers[channel]
      BY <1>0, <2>1, <2>3 DEF Add
    <3>2. channel \in Conns
      BY <1>0, <2>3
    <3>3. opening[channel] > 0 => opening'[channel] > 0
      BY <1>0, <2>1, <2>3, <3>2 DEF Add
    <3>4. Supplied => Supplied'
      BY <2>1, <3>1, <3>3 DEF Supplied
    <3>. QED
      BY <2>1, <3>4 DEF Led, Deaf
  <2>4. CASE channel # None /\ i = channel
    <3>1. Deaf => Deaf'
      BY <2>1 DEF Deaf
    <3>2. CASE ~Deaf
      <4>1. connection = channel /\ conn[connection] = "open"
        BY <1>0, <2>4, <3>2 DEF Deaf, Listeners
      <4>2. consumers'[channel] > 0
        BY <1>0, <2>1, <2>4 DEF Add
      <4>3. CASE boot = "done" /\ monOn = None
        <5>1. opening' = Add(opening, channel, 1)
          BY <1>0, <2>1, <2>4, <4>1, <4>3 DEF Registered, Connected
        <5>2. opening'[channel] > 0
          BY <1>0, <2>4, <5>1 DEF Add
        <5>. QED
          BY <2>1, <2>4, <4>2, <5>2 DEF Led, Supplied
      <4>4. CASE ~(boot = "done" /\ monOn = None)
        BY <2>1, <2>4, <4>2, <4>4 DEF Led, Supplied
      <4>. QED
        BY <4>3, <4>4
    <3>. QED
      BY <3>1, <3>2 DEF Led
  <2>. QED
    BY <2>2, <2>3, <2>4
<1>7. ASSUME NEW i \in Conns, DlqOpened(i) PROVE Led'
  <2>1. /\ opening[i] > 0 /\ opening' = [opening EXCEPT ![i] = @ - 1] /\ dlq' = i
        /\ UNCHANGED <<proc, boot, armed, waiting, regWait, channel, chan, heard, consumers, consuming, monOn, conn>>
    BY <1>7 DEF DlqOpened, fields, callers
  <2>2. conn[i] = "open" /\ i # None
    BY <1>0, <2>1 DEF Listeners
  <2>3. Supplied => Supplied'
    BY <2>1, <2>2 DEF Supplied
  <2>. QED
    BY <2>1, <2>3 DEF Led, Deaf
<1>8. CASE \E i \in Conns : ConnectionDrops(i) \/ ChannelError(i)
  <2>1. CASE Die
    BY <2>1 DEF Die, Led
  <2>2. CASE ~Die
    BY <1>8, <2>2, LedGone DEF ConnectionDrops, ChannelError, Calm
  <2>. QED
    BY <2>1, <2>2
<1>9. ASSUME NEW j \in jobs, Finish(j) PROVE Led'
  <2>1. CASE Die
    BY <2>1 DEF Die, Led
  <2>2. CASE ~Die
    <3>1. Calm /\ channel # None
      BY <1>9, <2>2 DEF Finish
    <3>2. CASE ChannelGone(channel, "open", jobs \ {j})
      BY <1>0, <3>1, <3>2, LedGone DEF Calm
    <3>3. CASE ~ChannelGone(channel, "open", jobs \ {j})
      <4>1. UNCHANGED <<proc, boot, armed, waiting, regWait, channel, chan, heard, consuming,
                        consumers, opening, monOn, dlq, conn>>
        BY <1>9, <2>2, <3>3 DEF Finish, callers, fields, calls
      <4>. QED
        BY <4>1, LedKept
    <3>. QED
      BY <3>2, <3>3
  <2>. QED
    BY <2>1, <2>2
<1>10. ASSUME Restart PROVE Led'
  BY <1>10 DEF Restart, Led, Basic, Dead
<1>11. CASE Probe \/ UNCHANGED vars \/ \E i \in Conns : \E m \in Msgs : Deliver(i, m)
  <2>1. UNCHANGED <<proc, boot, armed, waiting, regWait, channel, chan, heard, consuming,
                    consumers, opening, monOn, dlq, conn>>
    BY <1>11 DEF Probe, vars, Deliver, callers, fields, calls
  <2>. QED
    BY <2>1, LedKept
<1>12. ASSUME MonitorOpened \/ MonitorReady PROVE Led'
  <2>1. /\ monOn # None /\ dlq' = monOn
        /\ UNCHANGED <<proc, boot, armed, waiting, regWait, channel, chan, heard, consumers, consuming,
                       opening, conn>>
    BY <1>12 DEF MonitorOpened, MonitorReady, fields, callers, calls
  <2>2. conn[monOn] = "open"
    BY <2>1 DEF Listeners
  <2>3. Supplied => Supplied'
    BY <2>1, <2>2 DEF Supplied
  <2>. QED
    BY <2>1, <2>3 DEF Led, Deaf
<1>. QED
  BY <1>1, <1>2, <1>3, <1>4, <1>5, <1>6, <1>7, <1>8, <1>9, <1>10, <1>11, <1>12
     DEF Next, Service, OpenOk

----------------------------------------------------------------------------
(* TypeCorrect: the fields, the counts and the broker's view keep their types
   through late events, rejected attempts and restarts, for any number of
   connections and faults. *)
THEOREM TypeCorrect == Spec => []TypeOK
<1>1. Basic => TypeOK
  BY DEF Basic, Fields, Arrays, Outcomes, TypeOK
<1>. QED
  BY <1>1, BasicInit, BasicStep, PTL DEF Spec

(* AcksExplained: with the ack as it is (on this.channel, not the delivering
   channel), the only way in which a message leaves the queue unhandled is an ack
   that went to a newer channel, whatever connections drop and channels close. *)
THEOREM AcksExplained == Spec => []OnlyStaleAcks
<1>1. Init => Acks
  BY DEF Init, Acks, JobsOk, OnlyStaleAcks, AckedWereHandled
<1>2. Acks => OnlyStaleAcks
  BY DEF Acks
<1>. QED
  BY <1>1, <1>2, BasicInit, BasicStep, AcksStep, PTL DEF Spec

(* ConsumersExplained: registerConsumer is called once for each channel, by
   bootstrap or by one reconnect, unless two reconnects were under way at once. *)
THEOREM ConsumersExplained == Spec => []OneConsumer
<1>1. Init => Single
  BY ZeroType DEF Init, Single, Starting, Owed, Taken
<1>2. Basic /\ Single => OneConsumer
  <2> SUFFICES ASSUME Basic, Single, NEW i \in Conns, consumers[i] > 1 PROVE overlap
    BY DEF OneConsumer
  <2>1. consumers[i] \in Nat /\ consuming[i] \in Nat
    BY DEF Basic, Arrays
  <2>2. ~overlap => consumers[i] + consuming[i] <= 1
    BY DEF Single, Taken
  <2>. QED
    BY <2>1, <2>2
<1>. QED
  BY <1>1, <1>2, BasicInit, BasicStep, SingleStep, PTL DEF Spec

(* ConnectionsShared: timers, health checks, bootstrap and the DLQ callback share
   one attempt to connect: the process holds one connection as long as no channel
   was closed alone. *)
THEOREM ConnectionsShared == Spec => []OneConnection
<1>1. Init => Sole
  BY DEF Init, Sole
<1>2. Basic /\ Sole => OneConnection
  <2> SUFFICES ASSUME Sole, chanErrs = 0
               PROVE  Cardinality({i \in Conns : conn[i] = "open"}) <= 1
    BY DEF OneConnection
  <2>1. {i \in Conns : conn[i] = "open"} \subseteq {connection}
    BY DEF Sole
  <2>2. IsFiniteSet({connection}) /\ Cardinality({connection}) = 1
    BY FS_Singleton
  <2>3. Cardinality({i \in Conns : conn[i] = "open"}) <= Cardinality({connection})
    BY <2>1, <2>2, FS_Subset
  <2>. QED
    BY <2>2, <2>3
<1>. QED
  BY <1>1, <1>2, BasicInit, BasicStep, SoleStep, PTL DEF Spec

(* AlwaysOnItsWay: a process with a consumer that lost its channel, its consumer
   or the DLQ monitor's channel has a restart, an attempt, a timer or a call
   under way, or holds a channel without listeners or closed unheard; however many
   connections drop, and whatever reconnects overlap.  It is the safety half of
   ComesBack. *)
THEOREM AlwaysOnItsWay == Spec => []NeverStranded
<1>1. Init => Awaited /\ Timers /\ Listeners /\ Led
  BY ZeroType, Facts DEF Init, Awaited, Timers, Listeners, Led
<1>2. Basic /\ Awaited /\ Listeners /\ (ConsumerOn => Led) => NeverStranded
  <2> SUFFICES ASSUME Basic, Awaited, Listeners, Led, ConsumerOn, ~Usable, ~Pending PROVE Deaf
    BY DEF NeverStranded
  <2>1. armed \in Nat /\ waiting \in Nat /\ regWait \in Nat
        /\ channel \in Conns \cup {None} /\ chan \in [Conns -> {"open", "closed"}]
    BY DEF Basic, Fields, Arrays
  <2>2. proc = "up" /\ boot = "done" /\ est = "idle" /\ ~(armed > 0)
    BY DEF Pending, Basic, Fields
  <2>3. ~(waiting > 0) /\ ~(regWait > 0)
    BY <2>2 DEF Awaited
  <2>4. armed + waiting + regWait = 0
    BY <2>1, <2>2, <2>3
  <2>5. Deaf \/ Supplied
    BY <2>2, <2>4 DEF Led
  <2>6. Supplied /\ ~Deaf => FALSE
    BY <2>1 DEF Supplied, Deaf, Usable, Pending, Listeners
  <2>. QED
    BY <2>5, <2>6
<1>3. Basic /\ Timers /\ Listeners /\ (ConsumerOn => Led) /\ [Next]_vars => (ConsumerOn => Led)'
  BY LedStep
<1>. QED
  BY <1>1, <1>2, <1>3, BasicInit, BasicStep, AwaitedStep, TimersStep, ListenersStep, PTL DEF Spec
============================================================================

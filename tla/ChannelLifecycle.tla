-------------------------- MODULE ChannelLifecycle --------------------------
(* The AMQP connection of one process: RabbitmqService connect, topology,
   reconnect timers, consumer registration and acks; the DLQ monitor's channel;
   the health check that connects on its own.

   Whatever runs between two awaits is one step, microtasks included, so that
   the callers of connect() go on in the step that settles connectPromise.  A
   connection stands for itself and the service's channel on it; the DLQ
   monitor's channel lives as long as its connection.  A promise nobody awaits
   that is rejected ends the process, and so does an error event without a
   listener; the supervisor starts the process again.
   A message is handled successfully: what happens to a failing one is the
   subject of EventDelivery. *)
EXTENDS Naturals, Sequences, FiniteSets, Functions

CONSTANTS
  Conns,       \* identities of connections, used again once nothing refers to them
  Msgs,        \* the messages in the main queue
  ConsumerOn,  \* RABBITMQ_CONSUMER_ENABLED
  Probed,      \* something calls GET health
  MaxFaults,   \* bound: dials refused, connections dropped, channels closed
  MaxTags,     \* bound: deliveries on one channel
  None

ASSUME ChannelAssumption ==
  /\ ConsumerOn \in BOOLEAN /\ Probed \in BOOLEAN
  /\ MaxFaults \in Nat /\ MaxTags \in Nat
  /\ Conns \subseteq Nat /\ None \notin Conns /\ None \notin Msgs

VARIABLES
  conn,        \* each connection: the broker's view
  chan,        \* the service's channel on it
  heard,       \* connections whose close and error listeners are attached
  connection, channel,   \* the fields of the service
  est, estOn,  \* the establishConnection under way and its connection
  boot,        \* the consumer's bootstrap: awaits connect, basic.consume, is done
  monOn,       \* the connection on which the DLQ monitor's bootstrap makes its calls
  reconnecting,
  armed,       \* reconnect timers that are running
  waiting,     \* timers whose connect() awaits connectPromise
  regWait, dlqWait, \* registerConsumer and createChannel calls that do
  consuming,   \* basic.consume calls in flight on each channel
  opening,     \* DLQ channels being opened on each connection
  consumers,   \* consumers the broker has on each channel
  dlq,         \* the connection of the DLQ monitor's channel
  proc,
  delivered,   \* per channel, by delivery tag: the unsettled message, or None
  jobs,        \* running handleMessage promises: channel, tag, message
  handled, removed, \* messages whose handler completed; acked away
  staleAck,    \* history: an ack went to another channel than the delivery's
  overlap,     \* history: two reconnects were under way at once (see Arm)
  unheard,     \* history: a channel in use without listeners, or its close event ignored
  chanErrs, faults

fields   == <<connection, channel, reconnecting, armed>>
callers  == <<est, estOn, boot, waiting, regWait, dlqWait>>
calls    == <<consuming, opening, monOn>>
messages == <<delivered, jobs, handled, removed, staleAck>>
history  == <<overlap, unheard>>
vars == <<conn, chan, heard, consumers, fields, callers, calls, dlq, proc, messages,
          history, chanErrs, faults>>

Zero == [i \in Conns |-> 0]
Add(f, i, n) == IF i = None THEN f ELSE [f EXCEPT ![i] = @ + n]

(* A connection nothing refers to any more. *)
Spare(i) ==
  /\ conn[i] # "open" /\ i \notin {connection, channel, estOn, dlq}
  /\ consuming[i] = 0 /\ opening[i] = 0 /\ \A j \in jobs : j.on # i

(* onApplicationBootstrap of the service, the consumer and the DLQ monitor: all
   three call connect() at once and share its promise. *)
Init ==
  /\ conn = [i \in Conns |-> "closed"] /\ chan = [i \in Conns |-> "closed"]
  /\ heard = {} /\ consumers = Zero
  /\ connection = None /\ channel = None
  /\ est = "dial" /\ estOn = None /\ boot = "connect"
  /\ reconnecting = FALSE /\ armed = 0
  /\ waiting = 0 /\ regWait = 0 /\ dlqWait = 0
  /\ consuming = Zero /\ opening = Zero /\ monOn = None /\ dlq = None /\ proc = "up"
  /\ delivered = [i \in Conns |-> <<>>]
  /\ jobs = {} /\ handled = {} /\ removed = {} /\ staleAck = FALSE
  /\ overlap = FALSE /\ unheard = FALSE /\ chanErrs = 0 /\ faults = 0

(* The process ends: its sockets close and the broker requeues. *)
Die ==
  /\ proc' = "dead"
  /\ conn' = [i \in Conns |-> "closed"] /\ chan' = [i \in Conns |-> "closed"]
  /\ delivered' = [i \in Conns |-> <<>>] /\ consumers' = Zero
  /\ heard' = {} /\ connection' = None /\ channel' = None
  /\ est' = "idle" /\ estOn' = None /\ boot' = "connect"
  /\ reconnecting' = FALSE /\ armed' = 0
  /\ waiting' = 0 /\ regWait' = 0 /\ dlqWait' = 0
  /\ consuming' = Zero /\ opening' = Zero /\ monOn' = None
  /\ dlq' = None /\ jobs' = {}
  /\ UNCHANGED overlap

Restart ==
  /\ proc = "dead" /\ proc' = "up" /\ est' = "dial"
  /\ UNCHANGED <<conn, chan, heard, consumers, fields, estOn, boot, waiting, regWait, dlqWait,
                 calls, dlq, messages, history, chanErrs, faults>>

----------------------------------------------------------------------------
(* scheduleReconnect, called n times with isReconnecting cleared before each:
   the fields are dropped, not closed.  A reconnect is under way from its timer
   until it has called basic.consume. *)
Arm(n, still) ==
  /\ armed' = armed + n
  /\ connection' = None /\ channel' = None
  /\ overlap' = (overlap \/ armed + still + n > 1)

scheduleReconnect ==
  IF reconnecting THEN UNCHANGED <<fields, overlap>>
  ELSE reconnecting' = TRUE /\ Arm(1, waiting + regWait)

(* Bug: the catch of a reconnect does not schedule another. *)
Rejected_GivesUp(left, chans) ==
  IF boot = "connect" \/ regWait > 0 THEN Die
  ELSE /\ est' = "idle" /\ estOn' = None /\ waiting' = 0 /\ dlqWait' = 0
       /\ reconnecting' = FALSE /\ channel' = left
       /\ chan' = chans
       /\ UNCHANGED <<proc, conn, heard, consumers, delivered, jobs, boot, regWait, calls, dlq,
                      connection, armed, overlap>>

(* establishConnection throws, having left `left` in this.channel.  Each timer
   that waits clears isReconnecting and schedules again, and its finally clears
   isReconnecting once more; a registerConsumer or a bootstrap that waits is
   rejected unheard; a failed DLQ callback is logged. *)
Rejected(left, chans) ==
  IF boot = "connect" \/ regWait > 0 THEN Die
  ELSE /\ est' = "idle" /\ estOn' = None /\ waiting' = 0 /\ dlqWait' = 0
       /\ IF waiting > 0 THEN Arm(waiting, 0) /\ reconnecting' = FALSE
          ELSE channel' = left /\ UNCHANGED <<connection, reconnecting, armed, overlap>>
       /\ chan' = chans
       /\ UNCHANGED <<proc, conn, heard, consumers, delivered, jobs, boot, regWait, calls, dlq>>

(* The DLQ monitor registers its callback when its own bootstrap is done. *)
Registered == boot # "connect" /\ monOn = None

(* Bootstrap goes on: basic.consume, unless the consumer is disabled, and the DLQ
   monitor's createChannel, both under way at once. *)
Booted ==
  /\ boot' = IF boot = "connect" THEN IF ConsumerOn THEN "calls" ELSE "done" ELSE boot
  /\ monOn' = IF boot = "connect" THEN channel ELSE monOn

(* Bug: establishConnection itself runs onReconnected, whoever called connect(). *)
Resolved_Anyone ==
  /\ est' = "idle" /\ estOn' = None /\ waiting' = 0 /\ regWait' = 0 /\ dlqWait' = 0
  /\ Booted
  /\ consuming' = Add(consuming, channel, IF ConsumerOn THEN 1 ELSE 0)
  /\ reconnecting' = (reconnecting /\ waiting = 0)
  /\ UNCHANGED <<proc, conn, chan, heard, consumers, delivered, jobs, dlq, armed, opening,
                 connection, channel, history>>

(* setupTopology is done and connectPromise resolved.  Each waiting timer runs
   onReconnected, which registers the consumer or, without one, runs the DLQ
   callback.  When a late event cleared the fields during the last call,
   whoever continues finds no channel. *)
Resolved ==
  LET callbacks == IF ConsumerOn \/ ~Registered THEN 0 ELSE waiting IN
  IF channel = None /\ (boot = "connect" \/ regWait > 0) THEN Die /\ UNCHANGED unheard
  ELSE /\ est' = IF channel = None /\ waiting > 0 /\ (ConsumerOn \/ Registered)
                 THEN "dial" ELSE "idle"
       /\ estOn' = None /\ waiting' = 0
       /\ regWait' = IF channel = None /\ ConsumerOn THEN waiting ELSE 0
       /\ dlqWait' = IF channel = None THEN callbacks ELSE 0
       /\ Booted
       /\ consuming' = Add(consuming, channel, regWait + IF ConsumerOn THEN waiting ELSE 0)
       /\ opening' = Add(opening, connection, dlqWait + callbacks)
       /\ reconnecting' = (reconnecting /\ waiting = 0)
       /\ UNCHANGED <<proc, conn, chan, heard, consumers, delivered, jobs, dlq, armed,
                      connection, channel, history>>

----------------------------------------------------------------------------
outcome == <<handled, removed, staleAck>>
budget  == <<chanErrs, faults>>

(* The channel under an establishConnection is gone: its rejection runs before
   anything else does. *)
Settling == estOn # None /\ (conn[estOn] = "closed" \/ (est = "topology" /\ chan[estOn] = "closed"))
Calm == proc = "up" /\ ~Settling

Fault == faults < MaxFaults /\ faults' = faults + 1

DialOk ==
  /\ Calm /\ est = "dial"
  /\ \E i \in Conns :
       /\ Spare(i) /\ \A k \in Conns : Spare(k) => i <= k
       /\ conn' = [conn EXCEPT ![i] = "open"]
       /\ connection' = i /\ estOn' = i /\ est' = "open"
  /\ UNCHANGED <<chan, heard, consumers, channel, reconnecting, armed, boot, waiting, regWait,
                 dlqWait, calls, dlq, proc, messages, history, budget>>

DialRefused ==
  Calm /\ est = "dial" /\ Fault /\ Rejected(channel, chan) /\ UNCHANGED <<outcome, unheard, chanErrs>>

(* createChannel returns: the field is set, then the listeners are attached,
   unless a late event has cleared this.connection meanwhile. *)
OpenOk ==
  /\ Calm /\ est = "open"
  /\ LET opened == [chan EXCEPT ![estOn] = "open"] IN
     IF connection = None
     THEN Rejected(estOn, opened) /\ unheard' = TRUE
     ELSE /\ chan' = opened
          /\ channel' = estOn /\ heard' = heard \cup {estOn} /\ est' = "topology"
          /\ UNCHANGED <<conn, consumers, connection, reconnecting, armed, estOn, boot, waiting,
                         regWait, dlqWait, calls, dlq, proc, delivered, jobs, history>>
  /\ UNCHANGED <<outcome, budget>>

EstablishOk ==
  /\ Calm /\ est = "topology" /\ Resolved /\ UNCHANGED <<outcome, budget>>

EstablishFails ==
  /\ proc = "up" /\ (Settling \/ (est = "topology" /\ channel = None))
  /\ Rejected(channel, chan) /\ UNCHANGED <<outcome, unheard, budget>>

(* The consumer's bootstrap: basic.consume is confirmed. *)
BootOk ==
  /\ Calm /\ boot = "calls" /\ boot' = "done"
  /\ consumers' = Add(consumers, channel, 1)
  /\ UNCHANGED <<conn, chan, heard, fields, est, estOn, waiting, regWait, dlqWait, calls, dlq,
                 proc, messages, history, budget>>

(* The DLQ monitor's: createChannel returns, then checkQueue. *)
MonitorOpened ==
  /\ Calm /\ monOn # None /\ dlq # monOn /\ dlq' = monOn
  /\ UNCHANGED <<conn, chan, heard, consumers, fields, callers, calls, proc, messages, history,
                 budget>>

MonitorReady ==
  /\ Calm /\ monOn # None /\ dlq = monOn /\ monOn' = None
  /\ UNCHANGED <<conn, chan, heard, consumers, fields, callers, consuming, opening, dlq, proc,
                 messages, history, budget>>

----------------------------------------------------------------------------
Connected == connection # None /\ conn[connection] = "open"

(* A reconnect timer fires and calls connect(), which returns at once where
   this.channel is set, open or not. *)
TimerFires ==
  /\ Calm /\ armed > 0
  /\ CASE channel = None ->
            /\ armed' = armed - 1 /\ waiting' = waiting + 1
            /\ est' = IF est = "idle" THEN "dial" ELSE est
            /\ UNCHANGED <<connection, channel, reconnecting, calls, proc, conn, chan, heard,
                           consumers, delivered, jobs, boot, estOn, regWait, dlqWait, dlq, history>>
       [] channel # None /\ ConsumerOn /\ chan[channel] = "closed" -> Die /\ UNCHANGED unheard
       [] OTHER ->
            /\ armed' = armed - 1 /\ reconnecting' = FALSE
            /\ consuming' = Add(consuming, channel, IF ConsumerOn THEN 1 ELSE 0)
            /\ opening' = IF ConsumerOn \/ ~Registered \/ ~Connected
                          THEN opening ELSE Add(opening, connection, 1)
            /\ UNCHANGED <<monOn, connection, channel, proc, conn, chan, heard, consumers, delivered,
                           jobs, callers, dlq, history>>
  /\ UNCHANGED <<outcome, budget>>

(* Bug: connect() does not look at this.channel. *)
Probe_Redials ==
  /\ Probed /\ Calm /\ est = "idle" /\ est' = "dial"
  /\ UNCHANGED <<conn, chan, heard, consumers, fields, estOn, boot, waiting, regWait, dlqWait,
                 calls, dlq, proc, messages, history, budget>>

(* GET health calls connect(), which starts an attempt where there is neither a
   channel nor an attempt. *)
Probe ==
  /\ Probed /\ Calm /\ channel = None /\ est = "idle" /\ est' = "dial"
  /\ UNCHANGED <<conn, chan, heard, consumers, fields, estOn, boot, waiting, regWait, dlqWait,
                 calls, dlq, proc, messages, history, budget>>

(* basic.consume is confirmed; then the DLQ callback, once there is one, calls
   createChannel. *)
ConsumeOk(i) ==
  /\ Calm /\ consuming[i] > 0
  /\ consuming' = [consuming EXCEPT ![i] = @ - 1]
  /\ consumers' = Add(consumers, i, 1)
  /\ IF Registered /\ channel = None
     THEN dlqWait' = dlqWait + 1 /\ est' = (IF est = "idle" THEN "dial" ELSE est) /\ UNCHANGED opening
     ELSE /\ opening' = IF Registered /\ Connected THEN Add(opening, connection, 1) ELSE opening
          /\ UNCHANGED <<dlqWait, est>>
  /\ UNCHANGED <<monOn, conn, chan, heard, fields, estOn, boot, waiting, regWait, dlq, proc, messages,
                 history, budget>>

DlqOpened(i) ==
  /\ Calm /\ opening[i] > 0
  /\ opening' = [opening EXCEPT ![i] = @ - 1] /\ dlq' = i
  /\ UNCHANGED <<conn, chan, heard, consumers, fields, callers, consuming, monOn, proc, messages,
                 history, budget>>

----------------------------------------------------------------------------
(* The channel on i closes: its unsettled deliveries are ready again, its calls
   are rejected.  A rejected basic.consume or call of the DLQ monitor's bootstrap
   is nobody's to catch, and the error of a channel without listeners neither. *)
Fatal(i, connState) ==
  \/ boot = "calls" \/ consuming[i] > 0
  \/ connState = "closed" /\ i = monOn
  \/ connState = "open" /\ i \notin heard

ChannelGone(i, connState, left) ==
  IF Fatal(i, connState) THEN Die /\ UNCHANGED unheard
  ELSE /\ conn' = [conn EXCEPT ![i] = connState]
       /\ chan' = [chan EXCEPT ![i] = "closed"]
       /\ delivered' = [delivered EXCEPT ![i] = <<>>]
       /\ consumers' = [consumers EXCEPT ![i] = 0]
       /\ heard' = IF connState = "closed" THEN heard \ {i} ELSE heard
       /\ opening' = IF connState = "closed" THEN [opening EXCEPT ![i] = 0] ELSE opening
       /\ IF i \in heard THEN scheduleReconnect ELSE UNCHANGED <<fields, overlap>>
       /\ unheard' = (unheard \/ (i = channel /\ reconnecting /\ waiting = 0))
       /\ jobs' = left
       /\ UNCHANGED <<proc, callers, consuming, monOn, dlq>>

(* The broker or the network ends a connection, in use or abandoned: with an
   error event, or in good order without one. *)
ConnectionDrops(i) ==
  /\ Calm /\ conn[i] = "open" /\ Fault
  /\ \/ ChannelGone(i, "closed", jobs)
     \/ i \notin heard /\ Die /\ UNCHANGED unheard
  /\ UNCHANGED <<outcome, chanErrs>>

(* The broker closes the channel, and the connection stays. *)
ChannelError(i) ==
  /\ Calm /\ chan[i] = "open" /\ Fault
  /\ ChannelGone(i, "open", jobs) /\ chanErrs' = chanErrs + 1 /\ UNCHANGED outcome

(* The broker pushes a message that is in nobody's hands to a consumer. *)
InFlight(m) == \E i \in Conns : m \in Range(delivered[i])

Deliver(i, m) ==
  /\ Calm /\ consumers[i] > 0 /\ m \notin removed /\ ~InFlight(m)
  /\ Len(delivered[i]) < MaxTags
  /\ delivered' = [delivered EXCEPT ![i] = Append(@, m)]
  /\ jobs' = jobs \cup {[on |-> i, tag |-> Len(delivered[i]) + 1, msg |-> m]}
  /\ UNCHANGED <<conn, chan, heard, consumers, fields, callers, calls, dlq, proc, handled,
                 removed, staleAck, history, budget>>

(* Bug: ack(rawMessage, true), which settles every delivery up to the tag. *)
Settles_UpTo(tags, tag) == {tags[k] : k \in 1..tag} \ {None}

(* What the ack of a tag takes from the queue. *)
Settles(tags, tag) == {tags[tag]}

(* The handler is done: ack of the delivery's tag on whatever channel is current.
   No channel, or a closed one, throws in the catch as well, and ends the
   process; an unknown tag makes the broker close the channel. *)
Finish(j) ==
  /\ Calm /\ handled' = handled \cup {j.msg}
  /\ CASE channel = None \/ chan[channel] = "closed" ->
            Die /\ UNCHANGED <<removed, staleAck, unheard, chanErrs>>
       [] OTHER ->
          LET tags == delivered[channel] IN
          /\ staleAck' = (staleAck \/ channel # j.on)
          /\ IF j.tag <= Len(tags) /\ tags[j.tag] # None
             THEN /\ removed' = removed \cup Settles(tags, j.tag)
                  /\ jobs' = jobs \ {j}
                  /\ delivered' = [delivered EXCEPT ![channel][j.tag] = None]
                  /\ UNCHANGED <<conn, chan, heard, consumers, fields, callers, calls, dlq, proc,
                                 history, chanErrs>>
             ELSE /\ ChannelGone(channel, "open", jobs \ {j})
                  /\ chanErrs' = chanErrs + 1 /\ UNCHANGED removed
  /\ UNCHANGED faults

----------------------------------------------------------------------------
Service ==
  \/ DialOk \/ OpenOk \/ EstablishOk \/ EstablishFails \/ BootOk \/ MonitorOpened
  \/ MonitorReady \/ TimerFires \/ Restart
  \/ \E i \in Conns : ConsumeOk(i) \/ DlqOpened(i)
  \/ \E j \in jobs : Finish(j)

Next ==
  \/ Service \/ Probe \/ DialRefused
  \/ \E i \in Conns : ConnectionDrops(i) \/ ChannelError(i) \/ \E m \in Msgs : Deliver(i, m)

Spec == Init /\ [][Next]_vars

(* The broker answers, timers fire, handlers end and the supervisor restarts
   the process.  Faults, probes and deliveries owe nothing. *)
Fairness ==
  /\ WF_vars(DialOk) /\ WF_vars(OpenOk) /\ WF_vars(EstablishOk) /\ WF_vars(EstablishFails)
  /\ WF_vars(BootOk) /\ WF_vars(MonitorOpened) /\ WF_vars(MonitorReady)
  /\ WF_vars(TimerFires) /\ WF_vars(Restart)
  /\ \A i \in Conns : WF_vars(ConsumeOk(i)) /\ WF_vars(DlqOpened(i))
  /\ WF_vars(\E j \in jobs : Finish(j))

FairSpec == Spec /\ Fairness

----------------------------------------------------------------------------
(* TypeOK: fields name connections, counts are counts, and an attempt to dial
   always finds an unused identity. *)
TypeOK ==
  /\ conn \in [Conns -> {"open", "closed"}] /\ chan \in [Conns -> {"open", "closed"}]
  /\ heard \subseteq Conns /\ consumers \in [Conns -> Nat]
  /\ {connection, channel, estOn, monOn, dlq} \subseteq Conns \cup {None}
  /\ est \in {"idle", "dial", "open", "topology"}
  /\ boot \in {"connect", "calls", "done"} /\ proc \in {"up", "dead"}
  /\ {reconnecting, staleAck, overlap, unheard} \subseteq BOOLEAN
  /\ {armed, waiting, regWait, dlqWait, chanErrs, faults} \subseteq Nat
  /\ consuming \in [Conns -> Nat] /\ opening \in [Conns -> Nat]
  /\ delivered \in [Conns -> Seq(Msgs \cup {None})]
  /\ jobs \subseteq [on : Conns, tag : 1..MaxTags, msg : Msgs]
  /\ handled \subseteq Msgs /\ removed \subseteq Msgs

(* AckedWereHandled: a message leaves the queue only after its handler has
   completed.  It fails: see OnlyStaleAcks. *)
AckedWereHandled == removed \subseteq handled

(* OnlyStaleAcks: the one way in which a message is acked away before a handler
   has completed it is an ack that went to a newer channel than its delivery's,
   where the tag is another message's (line 229 of rabbitmq.service.ts acks on
   this.channel).  Deliveries requeued by a reconnect, jobs that outlive their
   channel and two consumers on one channel lose nothing by themselves. *)
OnlyStaleAcks == AckedWereHandled \/ staleAck

(* OneConsumer: registerConsumer is called for one channel by bootstrap or by one
   reconnect, never by both; a channel has two consumers, and twice the prefetch,
   only after two reconnects were under way at once (the finally of line 163 and
   the late close of an abandoned connection). *)
OneConsumer == (\E i \in Conns : consumers[i] > 1) => overlap

(* OneConnection: connect() calls of timers, health checks, bootstrap and the DLQ
   callback share one attempt: as long as no channel was closed alone, the process
   holds one connection.  (A closed channel's connection is dropped from its
   field and stays open.) *)
OneConnection == chanErrs = 0 => Cardinality({i \in Conns : conn[i] = "open"}) <= 1

Usable == /\ channel # None /\ chan[channel] = "open"
          /\ dlq # None /\ conn[dlq] = "open"
          /\ ConsumerOn => consumers[channel] > 0

(* Something is under way that leads back to Usable: a restart, an attempt, a
   timer, bootstrap, a call on the channel or on the connection. *)
Pending ==
  \/ proc = "dead" \/ est # "idle" \/ armed > 0 \/ boot # "done" \/ monOn # None
  \/ channel # None /\ consuming[channel] > 0
  \/ connection # None /\ opening[connection] > 0

(* The field holds a channel whose close nobody will hear of again. *)
Deaf == channel # None /\ (chan[channel] = "closed" \/ channel \notin heard)

(* NeverStranded: a process with a consumer that has lost its channel, its
   consumer or the DLQ monitor's channel is always on its way back.  The close
   events that isReconnecting swallows and the calls of a connection that is gone
   leave another timer, attempt or call behind; only a channel without listeners,
   or closed in a swallowed event, is kept with nothing to follow (lines 80, 143). *)
NeverStranded == ConsumerOn /\ ~Usable => Pending \/ Deaf

(* The bound Conns is reached: no identity is left for the next connection. *)
Exhausted == est = "dial" /\ ~\E i \in Conns : Spare(i)

(* ComesBack: when the faults end, the service has an open channel with its
   consumer and the DLQ monitor a channel, by timers or by a restart of the
   process; unless a channel was in use without listeners or its close event
   was ignored (lines 143 and 80). *)
ComesBack == <>[](Usable \/ Exhausted) \/ <>unheard
============================================================================

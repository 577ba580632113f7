--------------------------- MODULE EventDelivery ---------------------------
(* Delivery of outbox events through RabbitMQ to the idempotent consumer:
   src/queue (rabbitmq.service, rabbitmq.consumer, idempotency.guard,
   dlq-consumer.service, events-cleanup.service).

   A worker is one running promise of RabbitmqService.handleMessage; the broker
   holds the main queue, the retry queues and the dead-letter queue; Redis holds
   the "processing" lock and the "processed" mark of an event; the database
   holds its processed_events row.  A step ends at each await, where every other
   worker, the broker and the clock may run.

   A queue is a bag of messages: consumers prefetch and messages are requeued,
   so no order is promised.  A message is its event, its x-retry-count and
   whether the event's id can still be read from it. *)
EXTENDS Naturals, FiniteSets

CONSTANTS
  Workers,      \* the handleMessage promises that may be in flight at once
  Admins,       \* the DLQ republish calls that may be in flight at once
  Events,       \* event ids
  Malformed,    \* events whose body parseMessage rejects
  BadPayload,   \* user.created events whose payload the consumer rejects
  Unrouted,     \* events whose routing key has no handler
  HeaderIds,    \* events whose id travels only in the AMQP header "id"
  MessageIds,   \* events whose id travels only in the AMQP property messageId
  MaxRetries,   \* RABBITMQ_MAX_RETRIES
  RetryReturns, \* the queue is bound to keys that the retry queues' names match
  Overrun,      \* a handler may outlive the 300 s of its processing lock
  MaxPublish,   \* bound: copies of one event the connector publishes
  MaxFaults,    \* bound: Redis, database or handler calls that fail
  MaxCrashes,   \* bound: crashes of a process
  MaxStalls,    \* bound: sendToQueue calls that report back-pressure
  NoMsg,        \* no message in hand
  Free,         \* nobody holds the lock
  Orphaned      \* the lock is set and nobody will release it

ASSUME EventsAssumption ==
  /\ Malformed \subseteq Events
  /\ BadPayload \subseteq Events
  /\ Unrouted \subseteq Events
  /\ HeaderIds \subseteq Events
  /\ MessageIds \subseteq Events

ASSUME BoundsAssumption ==
  /\ MaxRetries \in Nat
  /\ MaxPublish \in Nat
  /\ MaxFaults \in Nat
  /\ MaxCrashes \in Nat
  /\ MaxStalls \in Nat
  /\ RetryReturns \in BOOLEAN
  /\ Overrun \in BOOLEAN

Msg == {m \in [ev : Events, tries : 0..MaxRetries, id : BOOLEAN] :
          m.id \/ m.ev \in HeaderIds \cup MessageIds}

ASSUME DistinctAssumption ==
  /\ NoMsg \notin Msg
  /\ Free \notin Workers
  /\ Orphaned \notin Workers
  /\ Free # Orphaned

VARIABLES
  main, retry, dlq,  \* the queues: how many copies of each message are ready
  job,               \* the unacknowledged message of each worker
  pc,                \* where each worker's promise stands
  lock,              \* event:processing:<event>: who set it
  redisDone,         \* events whose event:processed:<event> key exists
  row,               \* the event's processed_events row
  adminPc, adminMsg, \* each republish call and the message it holds
  draining,          \* the calls that are republishAll
  published,         \* copies of each event published so far
  handled,           \* times the event's handler completed (2 = twice or more)
  recorded,          \* history: events a row was ever created for
  dropped,           \* history: events skipped on an orphaned lock
  late,              \* history: workers whose delivery began after the row
  faults, crashes, stalls

broker  == <<main, retry, dlq>>
workers == <<job, pc>>
redis   == <<lock, redisDone>>
admin   == <<adminPc, adminMsg, draining>>
history == <<handled, recorded, dropped>>
budgets == <<faults, crashes, stalls>>
vars == <<broker, workers, redis, row, admin, published, history, late, budgets>>

(* Where a worker waits inside dispatch's try block, before and after the row
   is known to exist. *)
BeforeRow == {"handle", "record", "release"}
AfterRow  == {"mark", "unlock", "markDup", "unlockDup", "releaseSkip"}
InLock    == BeforeRow \cup AfterRow
PreLock   == {"dedupRedis", "dedupDb", "remark", "acquire"}
Pcs == {"idle", "failed", "ack", "nack"} \cup PreLock \cup InLock

Put(bag, m)  == [bag EXCEPT ![m] = @ + 1]
Take(bag, m) == [bag EXCEPT ![m] = @ - 1]

(* parseMessage needs the id. *)
Parsable(m) == m.ev \notin Malformed /\ m.id

(* A retry copy has headers of its own and no messageId; a republished message
   has the headers of the one in the DLQ and no messageId. *)
RetryCopy(m) == [m EXCEPT !.tries = @ + 1, !.id = @ /\ m.ev \notin HeaderIds \cup MessageIds]
Republished(m) == [m EXCEPT !.id = @ /\ m.ev \notin MessageIds]

Ev(w)     == job[w].ev
At(w, l)  == pc[w] = l
Goto(w, l) == pc' = [pc EXCEPT ![w] = l]

Init ==
  /\ main  = [m \in Msg |-> 0]
  /\ retry = [m \in Msg |-> 0]
  /\ dlq   = [m \in Msg |-> 0]
  /\ job = [w \in Workers |-> NoMsg]
  /\ pc  = [w \in Workers |-> "idle"]
  /\ lock = [e \in Events |-> Free]
  /\ redisDone = {}
  /\ row = [e \in Events |-> "absent"]
  /\ adminPc = [a \in Admins |-> "idle"]
  /\ adminMsg = [a \in Admins |-> NoMsg] /\ draining = {}
  /\ published = [e \in Events |-> 0]
  /\ handled = [e \in Events |-> 0]
  /\ recorded = {} /\ dropped = {} /\ late = {}
  /\ faults = 0 /\ crashes = 0 /\ stalls = 0

----------------------------------------------------------------------------
(* The connector publishes the event's outbox row; after a restart it may
   publish the row again. *)
Publish(e) ==
  /\ published[e] < MaxPublish
  /\ published' = [published EXCEPT ![e] = @ + 1]
  /\ main' = Put(main, [ev |-> e, tries |-> 0, id |-> TRUE])
  /\ UNCHANGED <<retry, dlq, workers, redis, row, admin, history, late, budgets>>

(* The broker hands a message to the consumer callback, which parses it. *)
Deliver(w, m) ==
  /\ At(w, "idle") /\ main[m] > 0
  /\ main' = Take(main, m)
  /\ job' = [job EXCEPT ![w] = m]
  /\ Goto(w, IF Parsable(m) THEN "dedupRedis" ELSE "failed")
  /\ late' = IF row[m.ev] = "live" THEN late \cup {w} ELSE late \ {w}
  /\ UNCHANGED <<retry, dlq, redis, row, admin, published, history, budgets>>

(* First check: the processed mark in Redis. *)
CheckRedis(w) ==
  /\ At(w, "dedupRedis")
  /\ Goto(w, IF Ev(w) \in redisDone THEN "ack" ELSE "dedupDb")
  /\ UNCHANGED <<broker, job, redis, row, admin, published, history, late, budgets>>

(* Bug: the Redis mark is the only check. *)
CheckDb_Skipped(w) ==
  /\ At(w, "dedupDb") /\ Goto(w, "acquire")
  /\ UNCHANGED <<broker, job, redis, row, admin, published, history, late, budgets>>

(* Second check: the processed_events row, whatever its expiresAt. *)
CheckDb(w) ==
  /\ At(w, "dedupDb")
  /\ Goto(w, IF row[Ev(w)] # "absent" THEN "remark" ELSE "acquire")
  /\ UNCHANGED <<broker, job, redis, row, admin, published, history, late, budgets>>

Remark(w) ==
  /\ At(w, "remark")
  /\ redisDone' = redisDone \cup {Ev(w)}
  /\ Goto(w, "ack")
  /\ UNCHANGED <<broker, job, lock, row, admin, published, history, late, budgets>>

(* Bug: SET without NX. *)
Acquire_NoNx(w) ==
  /\ At(w, "acquire")
  /\ lock' = [lock EXCEPT ![Ev(w)] = w]
  /\ Goto(w, "handle")
  /\ UNCHANGED <<broker, job, redisDone, row, admin, published, history, late, budgets>>

(* SET NX of the processing key.  Losing throws SkipMessageError, which
   handleMessage answers with an ack. *)
Acquire(w) ==
  /\ At(w, "acquire") /\ lock[Ev(w)] = Free
  /\ lock' = [lock EXCEPT ![Ev(w)] = w]
  /\ Goto(w, "handle")
  /\ UNCHANGED <<broker, job, redisDone, row, admin, published, history, late, budgets>>

SkipBusy(w) ==
  /\ At(w, "acquire") /\ lock[Ev(w)] # Free
  /\ dropped' = IF lock[Ev(w)] = Orphaned THEN dropped \cup {Ev(w)} ELSE dropped
  /\ Goto(w, "ack")
  /\ UNCHANGED <<broker, job, redis, row, admin, published, handled, recorded, late, budgets>>

(* The switch on the routing key: the handler runs, an unknown key only warns,
   a payload of the wrong shape throws. *)
HandleEvent(w) ==
  /\ At(w, "handle")
  /\ IF Ev(w) \in BadPayload \ Unrouted
     THEN Goto(w, "release") /\ UNCHANGED handled
     ELSE /\ Goto(w, "record")
          /\ handled' = IF Ev(w) \in Unrouted \/ handled[Ev(w)] = 2 THEN handled
                        ELSE [handled EXCEPT ![Ev(w)] = @ + 1]
  /\ UNCHANGED <<broker, job, redis, row, admin, published, recorded, dropped, late, budgets>>

(* processedEvent.create: the primary key on event_id turns a second create
   into P2002. *)
Record(w) ==
  /\ At(w, "record")
  /\ IF row[Ev(w)] = "absent"
     THEN /\ row' = [row EXCEPT ![Ev(w)] = "live"]
          /\ recorded' = recorded \cup {Ev(w)}
          /\ Goto(w, "mark")
     ELSE Goto(w, "markDup") /\ UNCHANGED <<row, recorded>>
  /\ UNCHANGED <<broker, job, redis, admin, published, handled, dropped, late, budgets>>

Mark(w) ==
  /\ pc[w] \in {"mark", "markDup"}
  /\ redisDone' = redisDone \cup {Ev(w)}
  /\ Goto(w, IF At(w, "mark") THEN "unlock" ELSE "unlockDup")
  /\ UNCHANGED <<broker, job, lock, row, admin, published, history, late, budgets>>

(* DEL of the processing key, whoever set it.  After P2002 the SkipMessageError
   passes through dispatch's catch, which deletes the key a second time. *)
Unlock(w) ==
  /\ pc[w] \in {"unlock", "unlockDup"}
  /\ lock' = [lock EXCEPT ![Ev(w)] = Free]
  /\ Goto(w, IF At(w, "unlock") THEN "ack" ELSE "releaseSkip")
  /\ UNCHANGED <<broker, job, redisDone, row, admin, published, history, late, budgets>>

Release(w) ==
  /\ pc[w] \in {"release", "releaseSkip"}
  /\ lock' = [lock EXCEPT ![Ev(w)] = Free]
  /\ Goto(w, IF At(w, "release") THEN "failed" ELSE "ack")
  /\ UNCHANGED <<broker, job, redisDone, row, admin, published, history, late, budgets>>

----------------------------------------------------------------------------
(* A Redis, database or handler call throws.  Before the lock the error goes
   straight to handleMessage's catch; inside the try block dispatch's catch
   releases the lock first.  A write may have been applied although its reply
   was lost. *)
Fail(w, l) == faults < MaxFaults /\ faults' = faults + 1 /\ Goto(w, l)

FailBeforeLock(w) ==
  /\ pc[w] \in PreLock \ {"acquire"}
  /\ Fail(w, "failed")
  /\ UNCHANGED <<broker, job, redis, row, admin, published, history, late, crashes, stalls>>

FailAcquire(w) ==
  /\ At(w, "acquire")
  /\ lock' \in {lock, IF lock[Ev(w)] = Free THEN [lock EXCEPT ![Ev(w)] = Orphaned] ELSE lock}
  /\ Fail(w, "failed")
  /\ UNCHANGED <<broker, job, redisDone, row, admin, published, history, late, crashes, stalls>>

(* Bug: the handler's error is logged and swallowed. *)
FailHandle_Swallowed(w) ==
  /\ At(w, "handle")
  /\ Fail(w, "record")
  /\ UNCHANGED <<broker, job, redis, row, admin, published, history, late, crashes, stalls>>

FailHandle(w) ==
  /\ At(w, "handle")
  /\ Fail(w, "release")
  /\ UNCHANGED <<broker, job, redis, row, admin, published, history, late, crashes, stalls>>

FailRecord(w) ==
  /\ At(w, "record")
  /\ \/ UNCHANGED <<row, recorded>>
     \/ /\ row[Ev(w)] = "absent"
        /\ row' = [row EXCEPT ![Ev(w)] = "live"]
        /\ recorded' = recorded \cup {Ev(w)}
  /\ Fail(w, "release")
  /\ UNCHANGED <<broker, job, redis, admin, published, handled, dropped, late, crashes, stalls>>

FailMark(w) ==
  /\ pc[w] \in {"mark", "markDup"}
  /\ redisDone' \in {redisDone, redisDone \cup {Ev(w)}}
  /\ Fail(w, "release")
  /\ UNCHANGED <<broker, job, lock, row, admin, published, history, late, crashes, stalls>>

FailUnlock(w) ==
  /\ pc[w] \in {"unlock", "unlockDup"}
  /\ lock' \in {lock, [lock EXCEPT ![Ev(w)] = Free]}
  /\ Fail(w, "release")
  /\ UNCHANGED <<broker, job, redisDone, row, admin, published, history, late, crashes, stalls>>

(* The error of a failed release replaces the one being handled, a
   SkipMessageError too, and the lock may stay behind. *)
FailRelease(w) ==
  /\ pc[w] \in {"release", "releaseSkip"}
  /\ lock' \in {[lock EXCEPT ![Ev(w)] = Free],
                [lock EXCEPT ![Ev(w)] = IF @ = w THEN Orphaned ELSE @]}
  /\ Fail(w, "failed")
  /\ UNCHANGED <<broker, job, redisDone, row, admin, published, history, late, crashes, stalls>>

----------------------------------------------------------------------------
(* handleMessage's catch: a copy goes to the next retry queue and the original
   is acked.  sendToQueue returns FALSE under back-pressure, when the copy is
   sent all the same: the original is then nacked as well. *)
SendRetry(w) ==
  /\ At(w, "failed") /\ job[w].tries < MaxRetries
  /\ retry' = Put(retry, RetryCopy(job[w]))
  /\ \/ Goto(w, "ack") /\ UNCHANGED stalls
     \/ stalls < MaxStalls /\ stalls' = stalls + 1 /\ Goto(w, "nack")
  /\ UNCHANGED <<main, dlq, job, redis, row, admin, published, history, late, faults, crashes>>

(* Bugs: a message out of retries is acked; the ladder is not used at all. *)
GiveUp_Acks(w) ==
  /\ At(w, "failed") /\ job[w].tries >= MaxRetries
  /\ Goto(w, "ack")
  /\ UNCHANGED <<broker, job, redis, row, admin, published, history, late, budgets>>

GiveUp_AtOnce(w) ==
  /\ At(w, "failed") /\ Goto(w, "nack")
  /\ UNCHANGED <<broker, job, redis, row, admin, published, history, late, budgets>>

GiveUp(w) ==
  /\ At(w, "failed") /\ job[w].tries >= MaxRetries
  /\ Goto(w, "nack")
  /\ UNCHANGED <<broker, job, redis, row, admin, published, history, late, budgets>>

Done(w) == job' = [job EXCEPT ![w] = NoMsg] /\ Goto(w, "idle")

Ack(w) ==
  /\ At(w, "ack") /\ Done(w)
  /\ UNCHANGED <<broker, redis, row, admin, published, history, late, budgets>>

Nack(w) ==
  /\ At(w, "nack") /\ Done(w)
  /\ dlq' = Put(dlq, job[w])
  /\ UNCHANGED <<main, retry, redis, row, admin, published, history, late, budgets>>

(* The worker's process dies: the broker requeues its message, and a lock it
   held stays set. *)
Crash(w) ==
  /\ ~At(w, "idle") /\ crashes < MaxCrashes
  /\ crashes' = crashes + 1
  /\ main' = Put(main, job[w])
  /\ lock' = [lock EXCEPT ![Ev(w)] = IF @ = w THEN Orphaned ELSE @]
  /\ Done(w)
  /\ UNCHANGED <<retry, dlq, redisDone, row, admin, published, history, late, faults, stalls>>

----------------------------------------------------------------------------
(* Bug: a retry queue without x-message-ttl. *)
RetryExpire_NoTtl(m) == retry[m] > 0 /\ FALSE /\ UNCHANGED vars

(* A retry queue's x-message-ttl runs out: the copy is dead-lettered to the
   main queue, or is unroutable. *)
RetryExpire(m) ==
  /\ retry[m] > 0
  /\ retry' = Take(retry, m)
  /\ main' = IF RetryReturns THEN Put(main, m) ELSE main
  /\ UNCHANGED <<dlq, workers, redis, row, admin, published, history, late, budgets>>

(* 300 s after it was set, the lock is gone. *)
LockExpire(e) ==
  /\ lock[e] = Orphaned \/ (Overrun /\ lock[e] # Free)
  /\ lock' = [lock EXCEPT ![e] = Free]
  /\ UNCHANGED <<broker, workers, redisDone, row, admin, published, history, late, budgets>>

(* Seven days after they were written the Redis mark is gone and the row is
   past its expiresAt.  No message is worked on for that long. *)
InHand(e) == \E w \in Workers : pc[w] # "idle" /\ Ev(w) = e

RedisExpire(e) ==
  /\ e \in redisDone /\ ~InHand(e)
  /\ redisDone' = redisDone \ {e}
  /\ UNCHANGED <<broker, workers, lock, row, admin, published, history, late, budgets>>

RowExpire(e) ==
  /\ row[e] = "live" /\ ~InHand(e)
  /\ row' = [row EXCEPT ![e] = "expired"]
  /\ UNCHANGED <<broker, workers, redis, admin, published, history, late, budgets>>

cleanupProcessedEvents ==
  /\ \E e \in Events : row[e] = "expired"
  /\ row' = [e \in Events |-> IF row[e] = "expired" THEN "absent" ELSE row[e]]
  /\ UNCHANGED <<broker, workers, redis, admin, published, history, late, budgets>>

----------------------------------------------------------------------------
(* POST admin/queue/dlq/republish and republish-all: get one message from the
   DLQ, publish it to the main queue with its headers, ack it; republish-all
   repeats this until the DLQ is found empty. *)
AdminCall(a) ==
  /\ adminPc[a] = "idle"
  /\ adminPc' = [adminPc EXCEPT ![a] = "get"]
  /\ draining' \in {draining, draining \cup {a}}
  /\ UNCHANGED <<broker, workers, redis, row, adminMsg, published, history, late, budgets>>

AdminGet(a, m) ==
  /\ adminPc[a] = "get" /\ dlq[m] > 0
  /\ dlq' = Take(dlq, m)
  /\ adminMsg' = [adminMsg EXCEPT ![a] = m]
  /\ adminPc' = [adminPc EXCEPT ![a] = "publish"]
  /\ UNCHANGED <<main, retry, workers, redis, row, draining, published, history, late, budgets>>

AdminEmpty(a) ==
  /\ adminPc[a] = "get" /\ \A m \in Msg : dlq[m] = 0
  /\ adminPc' = [adminPc EXCEPT ![a] = "idle"] /\ draining' = draining \ {a}
  /\ UNCHANGED <<broker, workers, redis, row, adminMsg, published, history, late, budgets>>

(* Bug: the message is published under the key it has in the DLQ, the DLQ's own
   name, which no binding matches. *)
AdminPublish_ByFieldsKey(a) ==
  /\ adminPc[a] = "publish"
  /\ adminPc' = [adminPc EXCEPT ![a] = "ack"]
  /\ UNCHANGED <<broker, workers, redis, row, adminMsg, draining, published, history,
                 late, budgets>>

AdminPublish(a) ==
  /\ adminPc[a] = "publish"
  /\ main' = Put(main, Republished(adminMsg[a]))
  /\ adminPc' = [adminPc EXCEPT ![a] = "ack"]
  /\ UNCHANGED <<retry, dlq, workers, redis, row, adminMsg, draining, published, history,
                 late, budgets>>

AdminAck(a) ==
  /\ adminPc[a] = "ack"
  /\ adminMsg' = [adminMsg EXCEPT ![a] = NoMsg]
  /\ adminPc' = [adminPc EXCEPT ![a] = IF a \in draining THEN "get" ELSE "idle"]
  /\ UNCHANGED <<broker, workers, redis, row, draining, published, history, late, budgets>>

AdminCrash(a) ==
  /\ adminMsg[a] # NoMsg /\ crashes < MaxCrashes
  /\ crashes' = crashes + 1
  /\ dlq' = Put(dlq, adminMsg[a])
  /\ adminMsg' = [adminMsg EXCEPT ![a] = NoMsg]
  /\ adminPc' = [adminPc EXCEPT ![a] = "idle"] /\ draining' = draining \ {a}
  /\ UNCHANGED <<main, retry, workers, redis, row, published, history, late, faults, stalls>>

----------------------------------------------------------------------------
Failure(w) ==
  \/ FailBeforeLock(w) \/ FailAcquire(w) \/ FailHandle(w) \/ FailRecord(w)
  \/ FailMark(w) \/ FailUnlock(w) \/ FailRelease(w)

Progress(w) ==
  \/ CheckRedis(w) \/ CheckDb(w) \/ Remark(w) \/ Acquire(w) \/ SkipBusy(w)
  \/ HandleEvent(w) \/ Record(w) \/ Mark(w) \/ Unlock(w) \/ Release(w)
  \/ SendRetry(w) \/ GiveUp(w) \/ Ack(w) \/ Nack(w)

Clock ==
  \/ \E m \in Msg : RetryExpire(m)
  \/ \E e \in Events : LockExpire(e) \/ RedisExpire(e) \/ RowExpire(e)
  \/ cleanupProcessedEvents

AdminStep(a) == (\E m \in Msg : AdminGet(a, m)) \/ AdminEmpty(a) \/ AdminPublish(a) \/ AdminAck(a)

Next ==
  \/ \E e \in Events : Publish(e)
  \/ \E w \in Workers : (\E m \in Msg : Deliver(w, m)) \/ Progress(w) \/ Failure(w) \/ Crash(w)
  \/ Clock
  \/ \E a \in Admins : AdminCall(a) \/ AdminStep(a) \/ AdminCrash(a)

Spec == Init /\ [][Next]_vars

(* A running promise goes on, a TTL runs out, and the main queue, a FIFO, keeps
   no message waiting for ever while consumers take others.  Publishing, faults,
   crashes, the seven-day expiries and the administrator owe nothing. *)
Fairness ==
  /\ \A w \in Workers : WF_vars(Progress(w))
  /\ \A m \in Msg : SF_vars(\E w \in Workers : Deliver(w, m)) /\ WF_vars(RetryExpire(m))
  /\ \A e \in Events : WF_vars(LockExpire(e))
  /\ \A a \in Admins : WF_vars(AdminStep(a))

FairSpec == Spec /\ Fairness

----------------------------------------------------------------------------
(* TypeOK: every queue holds a count of each message, every worker and the
   administrator are at a known step, and hold a message exactly when busy. *)
TypeOK ==
  /\ main \in [Msg -> Nat] /\ retry \in [Msg -> Nat] /\ dlq \in [Msg -> Nat]
  /\ job \in [Workers -> Msg \cup {NoMsg}]
  /\ pc \in [Workers -> Pcs]
  /\ \A w \in Workers : pc[w] = "idle" <=> job[w] = NoMsg
  /\ lock \in [Events -> Workers \cup {Free, Orphaned}]
  /\ redisDone \subseteq Events
  /\ row \in [Events -> {"absent", "live", "expired"}]
  /\ adminPc \in [Admins -> {"idle", "get", "publish", "ack"}]
  /\ adminMsg \in [Admins -> Msg \cup {NoMsg}]
  /\ \A a \in Admins : adminMsg[a] = NoMsg <=> adminPc[a] \in {"idle", "get"}
  /\ draining \subseteq Admins
  /\ published \in [Events -> 0..MaxPublish]
  /\ handled \in [Events -> 0..2]
  /\ recorded \subseteq Events /\ dropped \subseteq Events /\ late \subseteq Workers
  /\ faults \in 0..MaxFaults /\ crashes \in 0..MaxCrashes /\ stalls \in 0..MaxStalls

(* A copy of e that somebody will still act on: it is queued, or a promise or
   an administrator that has not yet settled for removing it holds it. *)
InQueue(e)  == \E m \in Msg : m.ev = e /\ (main[m] > 0 \/ retry[m] > 0 \/ dlq[m] > 0)
InWork(e)   == \E w \in Workers : pc[w] \notin {"idle", "ack"} /\ Ev(w) = e
InAdmin(e)  == \E a \in Admins : adminPc[a] = "publish" /\ adminMsg[a].ev = e
Pending(e)  == InQueue(e) \/ InWork(e) \/ InAdmin(e)

(* NoLoss: crashes, redeliveries, retries, back-pressure, lost replies and DLQ
   republishing never make the last copy of an unrecorded event disappear; the
   one exception is a copy skipped because of an orphaned processing lock.
   (rabbitmq.service 223-280, rabbitmq.consumer 32-109) *)
NoLoss ==
  RetryReturns => \A e \in Events :
    published[e] > 0 => e \in recorded \/ Pending(e) \/ e \in dropped

(* DeliversAtLeastOnce: the queues, workers, locks and republish calls together
   implement AtLeastOnce, where an event is held while a copy of it is pending,
   processed when its row was created, and given up when a copy was skipped on
   an orphaned lock.  (It takes RetryReturns.) *)
Ledger == INSTANCE AtLeastOnce WITH
  held <- {e \in Events : Pending(e)}, processed <- recorded, givenUp <- dropped
DeliversAtLeastOnce == Ledger!Spec

(* RecordIsTruthful: an event is marked processed in Redis only after its row
   was created, and has a row only after its handler completed (an event without
   a handler is recorded unhandled). (rabbitmq.consumer 47-54, 68-109) *)
RecordIsTruthful ==
  /\ redisDone \subseteq recorded
  /\ \A e \in recorded : e \in Unrouted \/ handled[e] > 0

(* MutualExclusion: the lock, deleted by whoever finishes and deleted twice
   after P2002, still never lets two workers run the handler of one event while
   the event has no row, provided handlers end within the lock's TTL.
   (idempotency.guard 23-33, rabbitmq.consumer 56-109) *)
MutualExclusion ==
  ~Overrun => \A u, w \in Workers :
    /\ u # w /\ At(u, "handle") /\ At(w, "handle") /\ Ev(u) = Ev(w)
    => row[Ev(w)] # "absent"

(* NoRework: a delivery that begins once the event has a row that has not
   expired never reaches the processing lock, even when the Redis mark is
   missing. (rabbitmq.consumer 33-54) *)
NoRework == \A w \in late : pc[w] \notin InLock \cup {"acquire"}

(* DlqNeedsFaults: an event that can be parsed and handled reaches the DLQ only
   after more failures than the retry ladder has steps, unless a retry queue
   reported back-pressure. (rabbitmq.service 246-278) *)
Healthy(e) == e \notin Malformed \cup HeaderIds \cup MessageIds \cup (BadPayload \ Unrouted)
DlqNeedsFaults ==
  \A m \in Msg : dlq[m] > 0 /\ Healthy(m.ev) /\ stalls = 0 => faults > MaxRetries

(* RetryAbsorbsFaults: a published event with a well-formed body and payload is
   eventually recorded or skipped on an orphaned lock, unless more calls fail
   than the ladder has retries or a retry queue reported back-pressure.
   (rabbitmq.service 246-263) *)
RetryAbsorbsFaults ==
  \A e \in Events \ (Malformed \cup HeaderIds \cup MessageIds \cup BadPayload) :
    published[e] > 0 ~> e \in recorded \cup dropped \/ faults > MaxRetries \/ stalls > 0

(* A copy of e is on its way: in the main queue, a retry queue or a worker's
   hands, acknowledged or not. *)
InLadder(e) == (\E m \in Msg : m.ev = e /\ main[m] + retry[m] > 0) \/ InHand(e)

(* Settled: whatever failed, crashed or was republished, the copies of a
   well-formed event come to rest: from some time on each is acknowledged or in
   the DLQ, none goes round the ladder or stays in it, and unless one is in the
   DLQ the event was recorded or skipped on an orphaned lock.
   (rabbitmq.service 112-134, 223-280; dlq-consumer.service 53-94) *)
Settled ==
  \A e \in Events \ (Malformed \cup HeaderIds \cup MessageIds \cup BadPayload) :
    <>[](~InLadder(e) /\ (published[e] > 0 =>
           e \in recorded \cup dropped \/ InAdmin(e) \/ \E m \in Msg : m.ev = e /\ dlq[m] > 0))

----------------------------------------------------------------------------
(* What the repository says and the code does not do. *)

(* EventsSurvive: an event is processed at least once; losing the lock is a
   duplicate that is safe to ack. (rabbitmq.service 232, README 512) *)
EventsSurvive == \A e \in Events : published[e] > 0 => e \in recorded \/ Pending(e)
============================================================================

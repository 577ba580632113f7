----------------------- MODULE EventDelivery_proofs -----------------------
(* Proofs about EventDelivery, for every number of workers and events and
   every bound. *)
EXTENDS EventDelivery, TLAPS

(* Putting a copy into a queue and taking one out of it. *)
LEMMA PutType ==
  ASSUME NEW b \in [Msg -> Nat], NEW m \in Msg
  PROVE  /\ Put(b, m) \in [Msg -> Nat]
         /\ Put(b, m)[m] > 0
         /\ \A n \in Msg : b[n] > 0 => Put(b, m)[n] > 0
         /\ \A n \in Msg : n # m => Put(b, m)[n] = b[n]
BY DEF Put

LEMMA TakeType ==
  ASSUME NEW b \in [Msg -> Nat], NEW m \in Msg, b[m] > 0
  PROVE  /\ Take(b, m) \in [Msg -> Nat]
         /\ \A n \in Msg : n # m => Take(b, m)[n] = b[n]
BY DEF Take

(* What a published message and its retry copies look like. *)
LEMMA NewMsg ==
  ASSUME NEW e \in Events
  PROVE  /\ [ev |-> e, tries |-> 0, id |-> TRUE] \in Msg
         /\ [ev |-> e, tries |-> 0, id |-> TRUE].ev = e
         /\ [ev |-> e, tries |-> 0, id |-> TRUE].tries = 0
BY BoundsAssumption DEF Msg

LEMMA RetryMsg ==
  ASSUME NEW m \in Msg, m.tries < MaxRetries
  PROVE  /\ RetryCopy(m) \in Msg
         /\ RetryCopy(m).ev = m.ev
         /\ RetryCopy(m).tries = m.tries + 1
<1> DEFINE c == RetryCopy(m)
<1>1. m \in [ev : Events, tries : 0..MaxRetries, id : BOOLEAN]
  BY DEF Msg
<1>2. c \in [ev : Events, tries : 0..MaxRetries, id : BOOLEAN]
  <2> DEFINE b == m.id /\ m.ev \notin HeaderIds \cup MessageIds
  <2>1. b \in BOOLEAN /\ m.tries + 1 \in 0..MaxRetries
    BY <1>1, BoundsAssumption
  <2>2. c = [m EXCEPT !.tries = m.tries + 1, !.id = b]
    BY DEF RetryCopy
  <2> HIDE DEF b, c
  <2>. QED
    BY <1>1, <2>1, <2>2
<1>3. c.ev = m.ev /\ c.tries = m.tries + 1
  BY <1>1 DEF RetryCopy
<1>4. CASE m.ev \in HeaderIds \cup MessageIds
  BY <1>2, <1>3, <1>4 DEF Msg
<1>5. CASE m.ev \notin HeaderIds \cup MessageIds
  <2>1. m.id
    BY <1>5 DEF Msg
  <2>2. c.id
    BY <1>1, <1>5, <2>1 DEF RetryCopy
  <2>. QED
    BY <1>2, <1>3, <2>2 DEF Msg
<1>. QED
  BY <1>3, <1>4, <1>5

LEMMA RepublishedMsg ==
  ASSUME NEW m \in Msg
  PROVE  /\ Republished(m) \in Msg
         /\ Republished(m).ev = m.ev
         /\ Republished(m).tries = m.tries
BY DEF Msg, Republished

LEMMA MsgFields ==
  ASSUME NEW m \in Msg
  PROVE  m.ev \in Events /\ m.tries \in 0..MaxRetries /\ m # NoMsg
BY DistinctAssumption DEF Msg

LEMMA HealthyId ==
  ASSUME NEW m \in Msg, Healthy(m.ev)
  PROVE  m.id
BY DEF Msg, Healthy

----------------------------------------------------------------------------
(* The type invariant. *)
LEMMA TypeInit == Init => TypeOK
<1> SUFFICES ASSUME Init PROVE TypeOK
  OBVIOUS
<1>1. /\ main \in [Msg -> Nat] /\ retry \in [Msg -> Nat] /\ dlq \in [Msg -> Nat]
      /\ job \in [Workers -> Msg \cup {NoMsg}]
      /\ \A w \in Workers : pc[w] = "idle" <=> job[w] = NoMsg
      /\ adminMsg \in [Admins -> Msg \cup {NoMsg}]
      /\ adminPc \in [Admins -> {"idle", "get", "publish", "ack"}]
      /\ \A a \in Admins : adminMsg[a] = NoMsg /\ adminPc[a] = "idle"
  BY DEF Init
<1>2. /\ pc \in [Workers -> Pcs]
      /\ lock \in [Events -> Workers \cup {Free, Orphaned}]
      /\ row \in [Events -> {"absent", "live", "expired"}]
  BY DEF Init, Pcs
<1>3. /\ published \in [Events -> 0..MaxPublish]
      /\ handled \in [Events -> 0..2]
      /\ faults \in 0..MaxFaults /\ crashes \in 0..MaxCrashes /\ stalls \in 0..MaxStalls
  BY BoundsAssumption DEF Init
<1> QED
  BY <1>1, <1>2, <1>3 DEF Init, TypeOK

(* A worker that is not idle holds a message. *)
LEMMA InHandType ==
  ASSUME TypeOK, NEW w \in Workers, pc[w] # "idle"
  PROVE  job[w] \in Msg /\ Ev(w) \in Events
BY MsgFields DEF TypeOK, Ev

LEMMA TypeStep == TypeOK /\ [Next]_vars => TypeOK'
<1> SUFFICES ASSUME TypeOK, [Next]_vars PROVE TypeOK'
  OBVIOUS
<1> USE BoundsAssumption
<1>1. ASSUME NEW e \in Events, Publish(e)
      PROVE  TypeOK'
  <2>1. main' \in [Msg -> Nat]
    BY <1>1, NewMsg, PutType DEF Publish, TypeOK
  <2>2. published' \in [Events -> 0..MaxPublish]
    BY <1>1 DEF Publish, TypeOK
  <2>. QED
    BY <1>1, <2>1, <2>2 DEF TypeOK, Publish, workers, redis, admin, history, budgets
<1>2. ASSUME NEW w \in Workers, NEW m \in Msg, Deliver(w, m)
      PROVE  TypeOK'
  BY <1>2, MsgFields, TakeType DEF TypeOK, Deliver, At, Goto, redis, admin, history,
    budgets, Pcs, PreLock, InLock, BeforeRow, AfterRow
<1>3. ASSUME NEW w \in Workers, CheckRedis(w)
      PROVE  TypeOK'
  BY <1>3, MsgFields DEF TypeOK, CheckRedis, At, Goto, Ev, broker, redis, admin,
    history, budgets, Pcs, PreLock, InLock, BeforeRow, AfterRow
<1>4. ASSUME NEW w \in Workers, CheckDb(w)
      PROVE  TypeOK'
  BY <1>4 DEF TypeOK, CheckDb, At, Goto, Ev, broker, redis, admin, history, budgets,
    Pcs, PreLock, InLock, BeforeRow, AfterRow
<1>5. ASSUME NEW w \in Workers, Remark(w)
      PROVE  TypeOK'
  BY <1>5, MsgFields DEF TypeOK, Remark, At, Ev, Goto, broker, admin, history, budgets,
    Pcs, PreLock, InLock, BeforeRow, AfterRow
<1>6. ASSUME NEW w \in Workers, Acquire(w)
      PROVE  TypeOK'
  BY <1>6, MsgFields DEF TypeOK, Acquire, At, Ev, Goto, broker, admin, history,
    budgets, Pcs, PreLock, InLock, BeforeRow, AfterRow
<1>7. ASSUME NEW w \in Workers, SkipBusy(w)
      PROVE  TypeOK'
  BY <1>7, MsgFields DEF TypeOK, SkipBusy, At, Ev, Goto, broker, redis, admin, budgets,
    Pcs, PreLock, InLock, BeforeRow, AfterRow
<1>8. ASSUME NEW w \in Workers, HandleEvent(w)
      PROVE  TypeOK'
  BY <1>8, MsgFields DEF TypeOK, HandleEvent, At, Ev, Goto, broker, redis, admin,
    budgets, Pcs, PreLock, InLock, BeforeRow, AfterRow
<1>9. ASSUME NEW w \in Workers, Record(w)
      PROVE  TypeOK'
  BY <1>9, MsgFields DEF TypeOK, Record, At, Ev, Goto, broker, redis, admin, budgets,
    Pcs, PreLock, InLock, BeforeRow, AfterRow
<1>10. ASSUME NEW w \in Workers, Mark(w)
      PROVE  TypeOK'
  BY <1>10, MsgFields DEF TypeOK, Mark, Ev, Goto, At, broker, admin, history, budgets,
    Pcs, PreLock, InLock, BeforeRow, AfterRow
<1>11. ASSUME NEW w \in Workers, Unlock(w)
      PROVE  TypeOK'
  BY <1>11, MsgFields DEF TypeOK, Unlock, Ev, Goto, At, broker, admin, history,
    budgets, Pcs, PreLock, InLock, BeforeRow, AfterRow
<1>12. ASSUME NEW w \in Workers, Release(w)
      PROVE  TypeOK'
  BY <1>12, MsgFields DEF TypeOK, Release, Ev, Goto, At, broker, admin, history,
    budgets, Pcs, PreLock, InLock, BeforeRow, AfterRow
<1>13. ASSUME NEW w \in Workers, FailBeforeLock(w)
      PROVE  TypeOK'
  BY <1>13 DEF TypeOK, FailBeforeLock, PreLock, Fail, broker, redis, admin, history,
    Pcs, Goto, InLock, BeforeRow, AfterRow
<1>14. ASSUME NEW w \in Workers, FailAcquire(w)
      PROVE  TypeOK'
  BY <1>14, MsgFields DEF TypeOK, FailAcquire, At, Ev, Fail, broker, admin, history,
    Pcs, Goto, PreLock, InLock, BeforeRow, AfterRow
<1>15. ASSUME NEW w \in Workers, FailHandle(w)
      PROVE  TypeOK'
  BY <1>15 DEF TypeOK, FailHandle, At, Fail, broker, redis, admin, history, Pcs, Goto,
    PreLock, InLock, BeforeRow, AfterRow
<1>16. ASSUME NEW w \in Workers, FailRecord(w)
      PROVE  TypeOK'
  BY <1>16, MsgFields DEF TypeOK, FailRecord, At, Ev, Fail, broker, redis, admin, Pcs,
    Goto, PreLock, InLock, BeforeRow, AfterRow
<1>17. ASSUME NEW w \in Workers, FailMark(w)
      PROVE  TypeOK'
  BY <1>17, MsgFields DEF TypeOK, FailMark, Ev, Fail, broker, admin, history, Pcs,
    Goto, PreLock, InLock, BeforeRow, AfterRow
<1>18. ASSUME NEW w \in Workers, FailUnlock(w)
      PROVE  TypeOK'
  BY <1>18, MsgFields DEF TypeOK, FailUnlock, Ev, Fail, broker, admin, history, Pcs,
    Goto, PreLock, InLock, BeforeRow, AfterRow
<1>19. ASSUME NEW w \in Workers, FailRelease(w)
      PROVE  TypeOK'
  BY <1>19, MsgFields DEF TypeOK, FailRelease, Ev, Fail, broker, admin, history, Pcs,
    Goto, PreLock, InLock, BeforeRow, AfterRow
<1>20. ASSUME NEW w \in Workers, SendRetry(w)
      PROVE  TypeOK'
  <2>1. job[w] \in Msg /\ job[w].tries < MaxRetries
    BY <1>20, InHandType DEF SendRetry, At
  <2>2. retry' \in [Msg -> Nat]
    BY <1>20, <2>1, RetryMsg, PutType DEF SendRetry, TypeOK
  <2>3. pc' \in [Workers -> Pcs] /\ \A u \in Workers : pc'[u] = "idle" <=> job'[u] = NoMsg
    BY <1>20 DEF SendRetry, TypeOK, At, Goto, Pcs
  <2>4. stalls' \in 0..MaxStalls
    BY <1>20 DEF SendRetry, TypeOK
  <2>. QED
    BY <1>20, <2>2, <2>3, <2>4 DEF SendRetry, TypeOK, redis, admin, history
<1>21. ASSUME NEW w \in Workers, GiveUp(w)
      PROVE  TypeOK'
  BY <1>21 DEF TypeOK, GiveUp, At, Goto, broker, redis, admin, history, budgets, Pcs,
    PreLock, InLock, BeforeRow, AfterRow
<1>22. ASSUME NEW w \in Workers, Ack(w)
      PROVE  TypeOK'
  BY <1>22 DEF TypeOK, Ack, At, Done, broker, redis, admin, history, budgets, Pcs,
    Goto, PreLock, InLock, BeforeRow, AfterRow
<1>23. ASSUME NEW w \in Workers, Nack(w)
      PROVE  TypeOK'
  BY <1>23, PutType DEF TypeOK, Nack, At, Done, redis, admin, history, budgets, Pcs,
    Goto, PreLock, InLock, BeforeRow, AfterRow
<1>24. ASSUME NEW w \in Workers, Crash(w)
      PROVE  TypeOK'
  <2>1. job[w] \in Msg /\ Ev(w) \in Events
    BY <1>24, InHandType DEF Crash, At
  <2>2. main' \in [Msg -> Nat]
    BY <1>24, <2>1, PutType DEF Crash, TypeOK
  <2>3. /\ job' \in [Workers -> Msg \cup {NoMsg}]
        /\ pc' \in [Workers -> Pcs]
        /\ \A u \in Workers : pc'[u] = "idle" <=> job'[u] = NoMsg
    BY <1>24 DEF Crash, Done, Goto, TypeOK, Pcs
  <2>4. lock' \in [Events -> Workers \cup {Free, Orphaned}]
    BY <1>24 DEF Crash, TypeOK
  <2>5. crashes' \in 0..MaxCrashes
    BY <1>24 DEF Crash, TypeOK
  <2>. QED
    BY <1>24, <2>2, <2>3, <2>4, <2>5 DEF Crash, TypeOK, admin, history
<1>25. ASSUME NEW m \in Msg, RetryExpire(m)
      PROVE  TypeOK'
  BY <1>25, PutType, TakeType DEF TypeOK, RetryExpire, workers, redis, admin, history,
    budgets, Pcs, PreLock, InLock, BeforeRow, AfterRow
<1>26. ASSUME NEW e \in Events, LockExpire(e)
      PROVE  TypeOK'
  BY <1>26 DEF TypeOK, LockExpire, broker, workers, admin, history, budgets, Pcs,
    PreLock, InLock, BeforeRow, AfterRow
<1>27. ASSUME NEW e \in Events, RedisExpire(e)
      PROVE  TypeOK'
  BY <1>27 DEF TypeOK, RedisExpire, broker, workers, admin, history, budgets, Pcs,
    PreLock, InLock, BeforeRow, AfterRow
<1>28. ASSUME NEW e \in Events, RowExpire(e)
      PROVE  TypeOK'
  BY <1>28 DEF TypeOK, RowExpire, broker, workers, redis, admin, history, budgets, Pcs,
    PreLock, InLock, BeforeRow, AfterRow
<1>29. CASE cleanupProcessedEvents
  BY <1>29 DEF TypeOK, cleanupProcessedEvents, broker, workers, redis, admin, history,
    budgets, Pcs, PreLock, InLock, BeforeRow, AfterRow
<1>30. ASSUME NEW a \in Admins, AdminCall(a)
      PROVE  TypeOK'
  BY <1>30 DEF TypeOK, AdminCall, broker, workers, redis, history, budgets, Pcs,
    PreLock, InLock, BeforeRow, AfterRow
<1>31. ASSUME NEW a \in Admins, NEW m \in Msg, AdminGet(a, m)
      PROVE  TypeOK'
  BY <1>31, TakeType, MsgFields DEF TypeOK, AdminGet, workers, redis, history, budgets,
    Pcs, PreLock, InLock, BeforeRow, AfterRow
<1>32. ASSUME NEW a \in Admins, AdminEmpty(a)
      PROVE  TypeOK'
  BY <1>32 DEF TypeOK, AdminEmpty, broker, workers, redis, history, budgets, Pcs,
    PreLock, InLock, BeforeRow, AfterRow
<1>33. ASSUME NEW a \in Admins, AdminPublish(a)
      PROVE  TypeOK'
  <2>0. adminMsg[a] \in Msg
    BY <1>33 DEF AdminPublish, TypeOK
  <2>1. main' \in [Msg -> Nat]
    BY <1>33, <2>0, PutType, RepublishedMsg DEF AdminPublish, TypeOK
  <2>2. /\ adminPc' \in [Admins -> {"idle", "get", "publish", "ack"}]
        /\ \A x \in Admins : adminMsg'[x] = NoMsg <=> adminPc'[x] \in {"idle", "get"}
    BY <1>33 DEF AdminPublish, TypeOK
  <2>. QED
    BY <1>33, <2>1, <2>2 DEF AdminPublish, TypeOK, workers, redis, history, budgets
<1>34. ASSUME NEW a \in Admins, AdminAck(a)
      PROVE  TypeOK'
  BY <1>34, MsgFields DEF TypeOK, AdminAck, broker, workers, redis, history, budgets,
    Pcs, PreLock, InLock, BeforeRow, AfterRow
<1>35. ASSUME NEW a \in Admins, AdminCrash(a)
      PROVE  TypeOK'
  <2>0. adminMsg[a] \in Msg
    BY <1>35 DEF AdminCrash, TypeOK
  <2>1. dlq' \in [Msg -> Nat]
    BY <1>35, <2>0, PutType DEF AdminCrash, TypeOK
  <2>2. crashes' \in 0..MaxCrashes
    BY <1>35 DEF AdminCrash, TypeOK
  <2>. QED
    BY <1>35, <2>1, <2>2 DEF AdminCrash, TypeOK, workers, redis, history
<1>36. CASE UNCHANGED vars
  BY <1>36 DEF vars, TypeOK, broker, workers, redis, admin, history, budgets, Pcs,
    PreLock, InLock, BeforeRow, AfterRow
<1>. QED
  BY <1>1, <1>2, <1>3, <1>4, <1>5, <1>6, <1>7, <1>8, <1>9, <1>10, <1>11, <1>12, <1>13,
    <1>14, <1>15, <1>16, <1>17, <1>18, <1>19, <1>20, <1>21, <1>22, <1>23, <1>24, <1>25,
    <1>26, <1>27, <1>28, <1>29, <1>30, <1>31, <1>32, <1>33, <1>34, <1>35, <1>36 DEF
    Next, Progress, Failure, Clock, AdminStep

(* Every worker and queue stays within its type. *)
THEOREM TypeCorrect == Spec => []TypeOK
BY TypeInit, TypeStep, PTL DEF Spec

----------------------------------------------------------------------------
(* A lock that names a worker names one that is in dispatch's try block with
   that event: the double release and the steal it allows do not break this. *)
LockOwner ==
  \A e \in Events, w \in Workers : lock[e] = w => pc[w] \in InLock /\ Ev(w) = e

LEMMA LockOwnerInit == Init => LockOwner
BY DistinctAssumption DEF Init, LockOwner

LEMMA LockOwnerStep == TypeOK /\ LockOwner /\ [Next]_vars => LockOwner'
<1> SUFFICES ASSUME TypeOK, LockOwner, [Next]_vars PROVE LockOwner'
  OBVIOUS
<1> USE DistinctAssumption DEF TypeOK
<1>1. ASSUME NEW e \in Events, Publish(e)
      PROVE  LockOwner'
  BY <1>1 DEF LockOwner, Publish, workers, redis, admin, history, budgets, InLock, Ev,
    BeforeRow, AfterRow
<1>2. ASSUME NEW w \in Workers, NEW m \in Msg, Deliver(w, m)
      PROVE  LockOwner'
  BY <1>2 DEF LockOwner, Deliver, At, Goto, redis, admin, history, budgets, InLock, Ev,
    BeforeRow, AfterRow
<1>3. ASSUME NEW w \in Workers, CheckRedis(w)
      PROVE  LockOwner'
  BY <1>3 DEF LockOwner, CheckRedis, At, Goto, Ev, broker, redis, admin, history,
    budgets, InLock, BeforeRow, AfterRow
<1>4. ASSUME NEW w \in Workers, CheckDb(w)
      PROVE  LockOwner'
  BY <1>4 DEF LockOwner, CheckDb, At, Goto, Ev, broker, redis, admin, history, budgets,
    InLock, BeforeRow, AfterRow
<1>5. ASSUME NEW w \in Workers, Remark(w)
      PROVE  LockOwner'
  BY <1>5 DEF LockOwner, Remark, At, Ev, Goto, broker, admin, history, budgets, InLock,
    BeforeRow, AfterRow
<1>6. ASSUME NEW w \in Workers, Acquire(w)
      PROVE  LockOwner'
  BY <1>6 DEF LockOwner, Acquire, At, Ev, Goto, broker, admin, history, budgets,
    InLock, BeforeRow, AfterRow
<1>7. ASSUME NEW w \in Workers, SkipBusy(w)
      PROVE  LockOwner'
  BY <1>7 DEF LockOwner, SkipBusy, At, Ev, Goto, broker, redis, admin, budgets, InLock,
    BeforeRow, AfterRow
<1>8. ASSUME NEW w \in Workers, HandleEvent(w)
      PROVE  LockOwner'
  BY <1>8 DEF LockOwner, HandleEvent, At, Ev, Goto, broker, redis, admin, budgets,
    InLock, BeforeRow, AfterRow
<1>9. ASSUME NEW w \in Workers, Record(w)
      PROVE  LockOwner'
  BY <1>9 DEF LockOwner, Record, At, Ev, Goto, broker, redis, admin, budgets, InLock,
    BeforeRow, AfterRow
<1>10. ASSUME NEW w \in Workers, Mark(w)
      PROVE  LockOwner'
  BY <1>10 DEF LockOwner, Mark, Ev, Goto, At, broker, admin, history, budgets, InLock,
    BeforeRow, AfterRow
<1>11. ASSUME NEW w \in Workers, Unlock(w)
      PROVE  LockOwner'
  BY <1>11 DEF LockOwner, Unlock, Ev, Goto, At, broker, admin, history, budgets,
    InLock, BeforeRow, AfterRow
<1>12. ASSUME NEW w \in Workers, Release(w)
      PROVE  LockOwner'
  BY <1>12 DEF LockOwner, Release, Ev, Goto, At, broker, admin, history, budgets,
    InLock, BeforeRow, AfterRow
<1>13. ASSUME NEW w \in Workers, FailBeforeLock(w)
      PROVE  LockOwner'
  BY <1>13 DEF LockOwner, FailBeforeLock, PreLock, Fail, broker, redis, admin, history,
    InLock, Ev, Goto, BeforeRow, AfterRow
<1>14. ASSUME NEW w \in Workers, FailAcquire(w)
      PROVE  LockOwner'
  BY <1>14 DEF LockOwner, FailAcquire, At, Ev, Fail, broker, admin, history, InLock,
    Goto, BeforeRow, AfterRow
<1>15. ASSUME NEW w \in Workers, FailHandle(w)
      PROVE  LockOwner'
  BY <1>15 DEF LockOwner, FailHandle, At, Fail, broker, redis, admin, history, InLock,
    Ev, Goto, BeforeRow, AfterRow
<1>16. ASSUME NEW w \in Workers, FailRecord(w)
      PROVE  LockOwner'
  BY <1>16 DEF LockOwner, FailRecord, At, Ev, Fail, broker, redis, admin, InLock, Goto,
    BeforeRow, AfterRow
<1>17. ASSUME NEW w \in Workers, FailMark(w)
      PROVE  LockOwner'
  BY <1>17 DEF LockOwner, FailMark, Ev, Fail, broker, admin, history, InLock, Goto,
    BeforeRow, AfterRow
<1>18. ASSUME NEW w \in Workers, FailUnlock(w)
      PROVE  LockOwner'
  BY <1>18 DEF LockOwner, FailUnlock, Ev, Fail, broker, admin, history, InLock, Goto,
    BeforeRow, AfterRow
<1>19. ASSUME NEW w \in Workers, FailRelease(w)
      PROVE  LockOwner'
  BY <1>19 DEF LockOwner, FailRelease, Ev, Fail, broker, admin, history, InLock, Goto,
    BeforeRow, AfterRow
<1>20. ASSUME NEW w \in Workers, SendRetry(w)
      PROVE  LockOwner'
  BY <1>20 DEF LockOwner, SendRetry, At, Goto, redis, admin, history, InLock, Ev,
    BeforeRow, AfterRow
<1>21. ASSUME NEW w \in Workers, GiveUp(w)
      PROVE  LockOwner'
  BY <1>21 DEF LockOwner, GiveUp, At, Goto, broker, redis, admin, history, budgets,
    InLock, Ev, BeforeRow, AfterRow
<1>22. ASSUME NEW w \in Workers, Ack(w)
      PROVE  LockOwner'
  BY <1>22 DEF LockOwner, Ack, At, Done, broker, redis, admin, history, budgets,
    InLock, Ev, Goto, BeforeRow, AfterRow
<1>23. ASSUME NEW w \in Workers, Nack(w)
      PROVE  LockOwner'
  BY <1>23 DEF LockOwner, Nack, At, Done, redis, admin, history, budgets, InLock, Ev,
    Goto, BeforeRow, AfterRow
<1>24. ASSUME NEW w \in Workers, Crash(w)
      PROVE  LockOwner'
  BY <1>24 DEF LockOwner, Crash, At, Ev, Done, admin, history, InLock, Goto, BeforeRow,
    AfterRow
<1>25. ASSUME NEW m \in Msg, RetryExpire(m)
      PROVE  LockOwner'
  BY <1>25 DEF LockOwner, RetryExpire, workers, redis, admin, history, budgets, InLock,
    Ev, BeforeRow, AfterRow
<1>26. ASSUME NEW e \in Events, LockExpire(e)
      PROVE  LockOwner'
  BY <1>26 DEF LockOwner, LockExpire, broker, workers, admin, history, budgets, InLock,
    Ev, BeforeRow, AfterRow
<1>27. ASSUME NEW e \in Events, RedisExpire(e)
      PROVE  LockOwner'
  BY <1>27 DEF LockOwner, RedisExpire, broker, workers, admin, history, budgets,
    InLock, Ev, BeforeRow, AfterRow
<1>28. ASSUME NEW e \in Events, RowExpire(e)
      PROVE  LockOwner'
  BY <1>28 DEF LockOwner, RowExpire, broker, workers, redis, admin, history, budgets,
    InLock, Ev, BeforeRow, AfterRow
<1>29. CASE cleanupProcessedEvents
  BY <1>29 DEF LockOwner, cleanupProcessedEvents, broker, workers, redis, admin,
    history, budgets, InLock, Ev, BeforeRow, AfterRow
<1>30. ASSUME NEW a \in Admins, AdminCall(a)
      PROVE  LockOwner'
  BY <1>30 DEF LockOwner, AdminCall, broker, workers, redis, history, budgets, InLock,
    Ev, BeforeRow, AfterRow
<1>31. ASSUME NEW a \in Admins, NEW m \in Msg, AdminGet(a, m)
      PROVE  LockOwner'
  BY <1>31 DEF LockOwner, AdminGet, workers, redis, history, budgets, InLock, Ev,
    BeforeRow, AfterRow
<1>32. ASSUME NEW a \in Admins, AdminEmpty(a)
      PROVE  LockOwner'
  BY <1>32 DEF LockOwner, AdminEmpty, broker, workers, redis, history, budgets, InLock,
    Ev, BeforeRow, AfterRow
<1>33. ASSUME NEW a \in Admins, AdminPublish(a)
      PROVE  LockOwner'
  BY <1>33 DEF LockOwner, AdminPublish, workers, redis, history, budgets, InLock, Ev,
    BeforeRow, AfterRow
<1>34. ASSUME NEW a \in Admins, AdminAck(a)
      PROVE  LockOwner'
  BY <1>34 DEF LockOwner, AdminAck, broker, workers, redis, history, budgets, InLock,
    Ev, BeforeRow, AfterRow
<1>35. ASSUME NEW a \in Admins, AdminCrash(a)
      PROVE  LockOwner'
  BY <1>35 DEF LockOwner, AdminCrash, workers, redis, history, InLock, Ev, BeforeRow,
    AfterRow
<1>36. CASE UNCHANGED vars
  BY <1>36 DEF vars, LockOwner, broker, workers, redis, admin, history, budgets,
    InLock, Ev, BeforeRow, AfterRow
<1>. QED
  BY <1>1, <1>2, <1>3, <1>4, <1>5, <1>6, <1>7, <1>8, <1>9, <1>10, <1>11, <1>12, <1>13,
    <1>14, <1>15, <1>16, <1>17, <1>18, <1>19, <1>20, <1>21, <1>22, <1>23, <1>24, <1>25,
    <1>26, <1>27, <1>28, <1>29, <1>30, <1>31, <1>32, <1>33, <1>34, <1>35, <1>36 DEF
    Next, Progress, Failure, Clock, AdminStep

----------------------------------------------------------------------------
(* Whatever claims that an event was recorded is right: its Redis mark, its
   row, a worker past the row; and it was handled before. *)
Truthful ==
  /\ redisDone \subseteq recorded
  /\ \A e \in Events : row[e] # "absent" => e \in recorded
  /\ \A w \in Workers : pc[w] \in AfterRow \cup {"remark"} => Ev(w) \in recorded
  /\ \A e \in recorded : e \in Unrouted \/ handled[e] > 0
  /\ \A w \in Workers : pc[w] = "record" => Ev(w) \in Unrouted \/ handled[Ev(w)] > 0

LEMMA TruthfulInit == Init => Truthful
BY DEF Init, Truthful, AfterRow

LEMMA TruthfulStep == TypeOK /\ Truthful /\ [Next]_vars => Truthful'
<1> SUFFICES ASSUME TypeOK, Truthful, [Next]_vars PROVE Truthful'
  OBVIOUS
<1> USE DEF TypeOK
<1>1. ASSUME NEW e \in Events, Publish(e)
      PROVE  Truthful'
  BY <1>1 DEF Truthful, Publish, workers, redis, admin, history, budgets, AfterRow, Ev
<1>2. ASSUME NEW w \in Workers, NEW m \in Msg, Deliver(w, m)
      PROVE  Truthful'
  BY <1>2 DEF Truthful, Deliver, At, Goto, redis, admin, history, budgets, AfterRow, Ev
<1>3. ASSUME NEW w \in Workers, CheckRedis(w)
      PROVE  Truthful'
  BY <1>3, InHandType DEF Truthful, CheckRedis, At, Goto, Ev, broker, redis, admin,
    history, budgets, AfterRow
<1>4. ASSUME NEW w \in Workers, CheckDb(w)
      PROVE  Truthful'
  BY <1>4, InHandType DEF Truthful, CheckDb, At, Goto, Ev, broker, redis, admin,
    history, budgets, AfterRow
<1>5. ASSUME NEW w \in Workers, Remark(w)
      PROVE  Truthful'
  BY <1>5, InHandType DEF Truthful, Remark, At, Ev, Goto, broker, admin, history,
    budgets, AfterRow
<1>6. ASSUME NEW w \in Workers, Acquire(w)
      PROVE  Truthful'
  BY <1>6 DEF Truthful, Acquire, At, Ev, Goto, broker, admin, history, budgets,
    AfterRow
<1>7. ASSUME NEW w \in Workers, SkipBusy(w)
      PROVE  Truthful'
  BY <1>7 DEF Truthful, SkipBusy, At, Ev, Goto, broker, redis, admin, budgets, AfterRow
<1>8. ASSUME NEW w \in Workers, HandleEvent(w)
      PROVE  Truthful'
  BY <1>8, InHandType DEF Truthful, HandleEvent, At, Ev, Goto, broker, redis, admin,
    budgets, AfterRow
<1>9. ASSUME NEW w \in Workers, Record(w)
      PROVE  Truthful'
  BY <1>9, InHandType DEF Truthful, Record, At, Ev, Goto, broker, redis, admin,
    budgets, AfterRow
<1>10. ASSUME NEW w \in Workers, Mark(w)
      PROVE  Truthful'
  BY <1>10, InHandType DEF Truthful, Mark, Ev, Goto, At, broker, admin, history,
    budgets, AfterRow
<1>11. ASSUME NEW w \in Workers, Unlock(w)
      PROVE  Truthful'
  BY <1>11 DEF Truthful, Unlock, Ev, Goto, At, broker, admin, history, budgets,
    AfterRow
<1>12. ASSUME NEW w \in Workers, Release(w)
      PROVE  Truthful'
  BY <1>12 DEF Truthful, Release, Ev, Goto, At, broker, admin, history, budgets,
    AfterRow
<1>13. ASSUME NEW w \in Workers, FailBeforeLock(w)
      PROVE  Truthful'
  BY <1>13 DEF Truthful, FailBeforeLock, PreLock, Fail, broker, redis, admin, history,
    AfterRow, Ev, Goto
<1>14. ASSUME NEW w \in Workers, FailAcquire(w)
      PROVE  Truthful'
  BY <1>14 DEF Truthful, FailAcquire, At, Ev, Fail, broker, admin, history, AfterRow,
    Goto
<1>15. ASSUME NEW w \in Workers, FailHandle(w)
      PROVE  Truthful'
  BY <1>15 DEF Truthful, FailHandle, At, Fail, broker, redis, admin, history, AfterRow,
    Ev, Goto
<1>16. ASSUME NEW w \in Workers, FailRecord(w)
      PROVE  Truthful'
  BY <1>16, InHandType DEF Truthful, FailRecord, At, Ev, Fail, broker, redis, admin,
    AfterRow, Goto
<1>17. ASSUME NEW w \in Workers, FailMark(w)
      PROVE  Truthful'
  BY <1>17, InHandType DEF Truthful, FailMark, Ev, Fail, broker, admin, history,
    AfterRow, Goto
<1>18. ASSUME NEW w \in Workers, FailUnlock(w)
      PROVE  Truthful'
  BY <1>18 DEF Truthful, FailUnlock, Ev, Fail, broker, admin, history, AfterRow, Goto
<1>19. ASSUME NEW w \in Workers, FailRelease(w)
      PROVE  Truthful'
  BY <1>19 DEF Truthful, FailRelease, Ev, Fail, broker, admin, history, AfterRow, Goto
<1>20. ASSUME NEW w \in Workers, SendRetry(w)
      PROVE  Truthful'
  BY <1>20 DEF Truthful, SendRetry, At, Goto, redis, admin, history, AfterRow, Ev
<1>21. ASSUME NEW w \in Workers, GiveUp(w)
      PROVE  Truthful'
  BY <1>21 DEF Truthful, GiveUp, At, Goto, broker, redis, admin, history, budgets,
    AfterRow, Ev
<1>22. ASSUME NEW w \in Workers, Ack(w)
      PROVE  Truthful'
  BY <1>22 DEF Truthful, Ack, At, Done, broker, redis, admin, history, budgets,
    AfterRow, Ev, Goto
<1>23. ASSUME NEW w \in Workers, Nack(w)
      PROVE  Truthful'
  BY <1>23 DEF Truthful, Nack, At, Done, redis, admin, history, budgets, AfterRow, Ev,
    Goto
<1>24. ASSUME NEW w \in Workers, Crash(w)
      PROVE  Truthful'
  BY <1>24 DEF Truthful, Crash, At, Ev, Done, admin, history, AfterRow, Goto
<1>25. ASSUME NEW m \in Msg, RetryExpire(m)
      PROVE  Truthful'
  BY <1>25 DEF Truthful, RetryExpire, workers, redis, admin, history, budgets,
    AfterRow, Ev
<1>26. ASSUME NEW e \in Events, LockExpire(e)
      PROVE  Truthful'
  BY <1>26 DEF Truthful, LockExpire, broker, workers, admin, history, budgets,
    AfterRow, Ev
<1>27. ASSUME NEW e \in Events, RedisExpire(e)
      PROVE  Truthful'
  BY <1>27 DEF Truthful, RedisExpire, broker, workers, admin, history, budgets,
    AfterRow, Ev
<1>28. ASSUME NEW e \in Events, RowExpire(e)
      PROVE  Truthful'
  BY <1>28 DEF Truthful, RowExpire, broker, workers, redis, admin, history, budgets,
    AfterRow, Ev
<1>29. CASE cleanupProcessedEvents
  BY <1>29 DEF Truthful, cleanupProcessedEvents, broker, workers, redis, admin,
    history, budgets, AfterRow, Ev
<1>30. ASSUME NEW a \in Admins, AdminCall(a)
      PROVE  Truthful'
  BY <1>30 DEF Truthful, AdminCall, broker, workers, redis, history, budgets, AfterRow,
    Ev
<1>31. ASSUME NEW a \in Admins, NEW m \in Msg, AdminGet(a, m)
      PROVE  Truthful'
  BY <1>31 DEF Truthful, AdminGet, workers, redis, history, budgets, AfterRow, Ev
<1>32. ASSUME NEW a \in Admins, AdminEmpty(a)
      PROVE  Truthful'
  BY <1>32 DEF Truthful, AdminEmpty, broker, workers, redis, history, budgets,
    AfterRow, Ev
<1>33. ASSUME NEW a \in Admins, AdminPublish(a)
      PROVE  Truthful'
  BY <1>33 DEF Truthful, AdminPublish, workers, redis, history, budgets, AfterRow, Ev
<1>34. ASSUME NEW a \in Admins, AdminAck(a)
      PROVE  Truthful'
  BY <1>34 DEF Truthful, AdminAck, broker, workers, redis, history, budgets, AfterRow,
    Ev
<1>35. ASSUME NEW a \in Admins, AdminCrash(a)
      PROVE  Truthful'
  BY <1>35 DEF Truthful, AdminCrash, workers, redis, history, AfterRow, Ev
<1>36. CASE UNCHANGED vars
  BY <1>36 DEF vars, Truthful, broker, workers, redis, admin, history, budgets,
    AfterRow, Ev
<1>. QED
  BY <1>1, <1>2, <1>3, <1>4, <1>5, <1>6, <1>7, <1>8, <1>9, <1>10, <1>11, <1>12, <1>13,
    <1>14, <1>15, <1>16, <1>17, <1>18, <1>19, <1>20, <1>21, <1>22, <1>23, <1>24, <1>25,
    <1>26, <1>27, <1>28, <1>29, <1>30, <1>31, <1>32, <1>33, <1>34, <1>35, <1>36 DEF
    Next, Progress, Failure, Clock, AdminStep

----------------------------------------------------------------------------
(* No copy disappears but by a record or a skip on an orphaned lock, and only an
   event with a copy is recorded or skipped.  A worker that skips because the lock
   is held leaves its copy to the holder, which LockOwner says still holds one;
   every other ack follows a record or a retry copy. *)
Kept ==
  /\ RetryReturns => \A e \in Events : Pending(e) => Pending(e)' \/ e \in recorded' \cup dropped'
  /\ recorded \subseteq recorded' /\ dropped \subseteq dropped'
  /\ \A e \in (recorded' \ recorded) \cup (dropped' \ dropped) : Pending(e)

LEMMA KeptStep ==
  TypeOK /\ LockOwner /\ Truthful /\ [Next]_vars => Kept
<1> SUFFICES ASSUME TypeOK, LockOwner, Truthful, [Next]_vars PROVE Kept
  OBVIOUS
<1> USE DEF TypeOK
<1>1. ASSUME NEW e \in Events, Publish(e)
      PROVE  Kept
  <2>1. \A n \in Msg : main[n] > 0 => main'[n] > 0
    BY <1>1, PutType, NewMsg DEF Publish
  <2>. QED
    BY <1>1, <2>1 DEF Kept, Publish, workers, redis, admin, history, Pending, InQueue,
      InWork, InAdmin, Ev
<1>2. ASSUME NEW w \in Workers, NEW m \in Msg, Deliver(w, m)
      PROVE  Kept
  <2>1. UNCHANGED history
    BY <1>2 DEF Deliver
  <2>2. ASSUME NEW e \in Events, InQueue(e)
        PROVE  InQueue(e)' \/ InWork(e)'
    <3>1. PICK n \in Msg : n.ev = e /\ (main[n] > 0 \/ retry[n] > 0 \/ dlq[n] > 0)
      BY <2>2 DEF InQueue
    <3>2. CASE n = m
      <4>1. pc'[w] \in {"dedupRedis", "failed"} /\ job'[w] = m
        BY <1>2 DEF Deliver, Goto
      <4>. QED
        BY <3>1, <3>2, <4>1 DEF InWork, Ev
    <3>3. CASE n # m
      <4>1. main'[n] = main[n] /\ retry' = retry /\ dlq' = dlq
        BY <1>2, <3>3, TakeType DEF Deliver
      <4>. QED
        BY <3>1, <4>1 DEF InQueue
    <3>. QED
      BY <3>2, <3>3
  <2>3. ASSUME NEW e \in Events, InWork(e)
        PROVE  InWork(e)'
    BY <1>2, <2>3 DEF Deliver, At, Goto, InWork, Ev
  <2>4. ASSUME NEW e \in Events, InAdmin(e)
        PROVE  InAdmin(e)'
    BY <1>2, <2>4 DEF Deliver, InAdmin, admin
  <2>. QED
    BY <2>1, <2>2, <2>3, <2>4 DEF Kept, Pending, history
<1>3. ASSUME NEW w \in Workers, CheckRedis(w)
      PROVE  Kept
  BY <1>3, InHandType DEF Kept, CheckRedis, At, Goto, Ev, broker, redis, admin,
    history, budgets, Pending, InQueue, InWork, InAdmin, Truthful
<1>4. ASSUME NEW w \in Workers, CheckDb(w)
      PROVE  Kept
  BY <1>4, InHandType DEF Kept, CheckDb, At, Goto, Ev, broker, redis, admin, history,
    budgets, Pending, InQueue, InWork, InAdmin
<1>5. ASSUME NEW w \in Workers, Remark(w)
      PROVE  Kept
  BY <1>5, InHandType DEF Kept, Remark, At, Ev, Goto, broker, admin, history,
    budgets, Pending, InQueue, InWork, InAdmin, Truthful
<1>6. ASSUME NEW w \in Workers, Acquire(w)
      PROVE  Kept
  BY <1>6, InHandType DEF Kept, Acquire, At, Ev, Goto, broker, admin, history,
    budgets, Pending, InQueue, InWork, InAdmin
<1>7. ASSUME NEW w \in Workers, SkipBusy(w)
      PROVE  Kept
  BY <1>7, InHandType DEF Kept, SkipBusy, At, Ev, Goto, broker, redis, admin,
    budgets, Pending, InQueue, InWork, InAdmin, LockOwner, InLock, BeforeRow, AfterRow
<1>8. ASSUME NEW w \in Workers, HandleEvent(w)
      PROVE  Kept
  BY <1>8, InHandType DEF Kept, HandleEvent, At, Ev, Goto, broker, redis, admin,
    budgets, Pending, InQueue, InWork, InAdmin
<1>9. ASSUME NEW w \in Workers, Record(w)
      PROVE  Kept
  BY <1>9, InHandType DEF Kept, Record, At, Ev, Goto, broker, redis, admin, budgets,
    Pending, InQueue, InWork, InAdmin
<1>10. ASSUME NEW w \in Workers, Mark(w)
      PROVE  Kept
  BY <1>10, InHandType DEF Kept, Mark, Ev, Goto, At, broker, admin, history, budgets,
    Pending, InQueue, InWork, InAdmin
<1>11. ASSUME NEW w \in Workers, Unlock(w)
      PROVE  Kept
  BY <1>11, InHandType DEF Kept, Unlock, Ev, Goto, At, broker, admin, history,
    budgets, Pending, InQueue, InWork, InAdmin, Truthful, AfterRow
<1>12. ASSUME NEW w \in Workers, Release(w)
      PROVE  Kept
  BY <1>12, InHandType DEF Kept, Release, Ev, Goto, At, broker, admin, history,
    budgets, Pending, InQueue, InWork, InAdmin, Truthful, AfterRow
<1>13. ASSUME NEW w \in Workers, FailBeforeLock(w)
      PROVE  Kept
  BY <1>13, InHandType DEF Kept, FailBeforeLock, PreLock, Fail, broker, redis, admin,
    history, Pending, InQueue, InWork, InAdmin, Ev, Goto
<1>14. ASSUME NEW w \in Workers, FailAcquire(w)
      PROVE  Kept
  BY <1>14, InHandType DEF Kept, FailAcquire, At, Ev, Fail, broker, admin, history,
    Pending, InQueue, InWork, InAdmin, Goto
<1>15. ASSUME NEW w \in Workers, FailHandle(w)
      PROVE  Kept
  BY <1>15, InHandType DEF Kept, FailHandle, At, Fail, broker, redis, admin, history,
    Pending, InQueue, InWork, InAdmin, Ev, Goto
<1>16. ASSUME NEW w \in Workers, FailRecord(w)
      PROVE  Kept
  BY <1>16, InHandType DEF Kept, FailRecord, At, Ev, Fail, broker, redis, admin,
    Pending, InQueue, InWork, InAdmin, Goto
<1>17. ASSUME NEW w \in Workers, FailMark(w)
      PROVE  Kept
  BY <1>17, InHandType DEF Kept, FailMark, Ev, Fail, broker, admin, history, Pending,
    InQueue, InWork, InAdmin, Goto
<1>18. ASSUME NEW w \in Workers, FailUnlock(w)
      PROVE  Kept
  BY <1>18, InHandType DEF Kept, FailUnlock, Ev, Fail, broker, admin, history,
    Pending, InQueue, InWork, InAdmin, Goto
<1>19. ASSUME NEW w \in Workers, FailRelease(w)
      PROVE  Kept
  BY <1>19, InHandType DEF Kept, FailRelease, Ev, Fail, broker, admin, history,
    Pending, InQueue, InWork, InAdmin, Goto
<1>20. ASSUME NEW w \in Workers, SendRetry(w)
      PROVE  Kept
  <2>1. job[w] \in Msg /\ job[w].tries < MaxRetries
    BY <1>20, InHandType DEF SendRetry, At
  <2> DEFINE c == RetryCopy(job[w])
  <2>2. c \in Msg /\ c.ev = Ev(w) /\ retry'[c] > 0 /\ \A n \in Msg : retry[n] > 0 => retry'[n] > 0
    BY <1>20, <2>1, RetryMsg, PutType DEF SendRetry, Ev
  <2>3. ASSUME NEW e \in Events, Pending(e)
        PROVE  Pending(e)'
    <3>1. CASE InQueue(e)
      BY <1>20, <2>2, <3>1 DEF SendRetry, Pending, InQueue
    <3>2. CASE InAdmin(e)
      BY <1>20, <3>2 DEF SendRetry, Pending, InAdmin, admin
    <3>3. ASSUME NEW u \in Workers, pc[u] \notin {"idle", "ack"}, Ev(u) = e
          PROVE  Pending(e)'
      <4>1. CASE u = w
        BY <1>20, <2>2, <3>3, <4>1 DEF SendRetry, Pending, InQueue
      <4>2. CASE u # w
        BY <1>20, <3>3, <4>2 DEF SendRetry, Pending, InWork, Ev, Goto
      <4>. QED
        BY <4>1, <4>2
    <3>. QED
      BY <2>3, <3>1, <3>2, <3>3 DEF Pending, InWork
  <2>. QED
    BY <1>20, <2>3 DEF SendRetry, Kept, history
<1>21. ASSUME NEW w \in Workers, GiveUp(w)
      PROVE  Kept
  BY <1>21, InHandType DEF Kept, GiveUp, At, Goto, broker, redis, admin, history,
    budgets, Pending, InQueue, InWork, InAdmin, Ev
<1>22. ASSUME NEW w \in Workers, Ack(w)
      PROVE  Kept
  BY <1>22, InHandType DEF Kept, Ack, At, Done, broker, redis, admin, history,
    budgets, Pending, InQueue, InWork, InAdmin, Ev, Goto
<1>23. ASSUME NEW w \in Workers, Nack(w)
      PROVE  Kept
  <2>1. job[w] \in Msg
    BY <1>23, InHandType DEF Nack, At
  <2>2. dlq'[job[w]] > 0 /\ \A n \in Msg : dlq[n] > 0 => dlq'[n] > 0
    BY <1>23, <2>1, PutType DEF Nack
  <2>3. ASSUME NEW e \in Events, InQueue(e)
        PROVE  InQueue(e)'
    BY <1>23, <2>2, <2>3 DEF Nack, InQueue
  <2>4. ASSUME NEW e \in Events, InWork(e)
        PROVE  InQueue(e)' \/ InWork(e)'
    BY <1>23, <2>1, <2>2, <2>4 DEF Nack, Done, Goto, Ev, InQueue, InWork
  <2>. QED
    BY <1>23, <2>3, <2>4 DEF Kept, Nack, admin, history, Pending, InAdmin
<1>24. ASSUME NEW w \in Workers, Crash(w)
      PROVE  Kept
  <2>1. job[w] \in Msg
    BY <1>24, InHandType DEF Crash, At
  <2>2. main'[job[w]] > 0 /\ \A n \in Msg : main[n] > 0 => main'[n] > 0
    BY <1>24, <2>1, PutType DEF Crash
  <2>3. ASSUME NEW e \in Events, InQueue(e)
        PROVE  InQueue(e)'
    BY <1>24, <2>2, <2>3 DEF Crash, InQueue
  <2>4. ASSUME NEW e \in Events, InWork(e)
        PROVE  InQueue(e)' \/ InWork(e)'
    BY <1>24, <2>1, <2>2, <2>4 DEF Crash, Done, Goto, Ev, InQueue, InWork
  <2>. QED
    BY <1>24, <2>3, <2>4 DEF Kept, Crash, admin, history, Pending, InAdmin
<1>25. ASSUME NEW m \in Msg, RetryExpire(m)
      PROVE  Kept
  <2>1. ASSUME RetryReturns, NEW e \in Events, Pending(e)
        PROVE  Pending(e)'
    <3>1. /\ main'[m] > 0
          /\ \A n \in Msg : main[n] > 0 => main'[n] > 0
          /\ \A n \in Msg : n # m => retry'[n] = retry[n]
      BY <1>25, <2>1, PutType, TakeType DEF RetryExpire
    <3>. QED
      BY <1>25, <2>1, <3>1 DEF RetryExpire, Pending, InQueue, InWork, InAdmin, Ev,
        workers, admin
  <2>. QED
    BY <1>25, <2>1 DEF RetryExpire, Kept, history
<1>26. ASSUME NEW e \in Events, LockExpire(e)
      PROVE  Kept
  BY <1>26 DEF Kept, LockExpire, broker, workers, admin, history, budgets, Pending,
    InQueue, InWork, InAdmin, Ev
<1>27. ASSUME NEW e \in Events, RedisExpire(e)
      PROVE  Kept
  BY <1>27 DEF Kept, RedisExpire, broker, workers, admin, history, budgets, Pending,
    InQueue, InWork, InAdmin, Ev
<1>28. ASSUME NEW e \in Events, RowExpire(e)
      PROVE  Kept
  BY <1>28 DEF Kept, RowExpire, broker, workers, redis, admin, history, budgets,
    Pending, InQueue, InWork, InAdmin, Ev
<1>29. CASE cleanupProcessedEvents
  BY <1>29 DEF Kept, cleanupProcessedEvents, broker, workers, redis, admin, history,
    budgets, Pending, InQueue, InWork, InAdmin, Ev
<1>30. ASSUME NEW a \in Admins, AdminCall(a)
      PROVE  Kept
  BY <1>30 DEF Kept, AdminCall, broker, workers, redis, history, budgets, Pending,
    InQueue, InWork, InAdmin, Ev
<1>31. ASSUME NEW a \in Admins, NEW m \in Msg, AdminGet(a, m)
      PROVE  Kept
  <2>1. ASSUME NEW e \in Events, InQueue(e)
        PROVE  InQueue(e)' \/ InAdmin(e)'
    <3>1. PICK n \in Msg : n.ev = e /\ (main[n] > 0 \/ retry[n] > 0 \/ dlq[n] > 0)
      BY <2>1 DEF InQueue
    <3>2. CASE n = m
      <4>1. adminPc'[a] = "publish" /\ adminMsg'[a] = m
        BY <1>31 DEF AdminGet
      <4>. QED
        BY <3>1, <3>2, <4>1 DEF InAdmin
    <3>3. CASE n # m
      <4>1. dlq'[n] = dlq[n] /\ main' = main /\ retry' = retry
        BY <1>31, <3>3, TakeType DEF AdminGet
      <4>. QED
        BY <3>1, <4>1 DEF InQueue
    <3>. QED
      BY <3>2, <3>3
  <2>2. ASSUME NEW e \in Events, InAdmin(e)
        PROVE  InAdmin(e)'
    BY <1>31, <2>2 DEF AdminGet, InAdmin
  <2>. QED
    BY <1>31, <2>1, <2>2 DEF Kept, AdminGet, workers, history, Pending, InWork, Ev
<1>32. ASSUME NEW a \in Admins, AdminEmpty(a)
      PROVE  Kept
  BY <1>32 DEF Kept, AdminEmpty, broker, workers, redis, history, budgets, Pending,
    InQueue, InWork, InAdmin, Ev
<1>33. ASSUME NEW a \in Admins, AdminPublish(a)
      PROVE  Kept
  <2> DEFINE c == Republished(adminMsg[a])
  <2>1. c \in Msg /\ c.ev = adminMsg[a].ev /\ main' = Put(main, c)
    BY <1>33, RepublishedMsg DEF AdminPublish
  <2> HIDE DEF c
  <2>2. main'[c] > 0 /\ \A n \in Msg : main[n] > 0 => main'[n] > 0
    BY <2>1, PutType
  <2>3. ASSUME NEW e \in Events, InQueue(e)
        PROVE  InQueue(e)'
    BY <1>33, <2>2, <2>3 DEF AdminPublish, InQueue
  <2>4. ASSUME NEW e \in Events, InAdmin(e)
        PROVE  InQueue(e)' \/ InAdmin(e)'
    BY <1>33, <2>1, <2>2, <2>4 DEF AdminPublish, InQueue, InAdmin
  <2>. QED
    BY <1>33, <2>3, <2>4 DEF Kept, AdminPublish, workers, history, Pending, InWork, Ev
<1>34. ASSUME NEW a \in Admins, AdminAck(a)
      PROVE  Kept
  BY <1>34 DEF Kept, AdminAck, broker, workers, redis, history, budgets, Pending,
    InQueue, InWork, InAdmin, Ev
<1>35. ASSUME NEW a \in Admins, AdminCrash(a)
      PROVE  Kept
  BY <1>35, PutType DEF Kept, AdminCrash, workers, redis, history, Pending, InQueue,
    InWork, InAdmin, Ev
<1>36. CASE UNCHANGED vars
  BY <1>36 DEF vars, Kept, broker, workers, redis, admin, history, budgets, Pending,
    InQueue, InWork, InAdmin, Ev
<1>. QED
  BY <1>1, <1>2, <1>3, <1>4, <1>5, <1>6, <1>7, <1>8, <1>9, <1>10, <1>11, <1>12, <1>13,
    <1>14, <1>15, <1>16, <1>17, <1>18, <1>19, <1>20, <1>21, <1>22, <1>23, <1>24, <1>25,
    <1>26, <1>27, <1>28, <1>29, <1>30, <1>31, <1>32, <1>33, <1>34, <1>35, <1>36 DEF
    Next, Progress, Failure, Clock, AdminStep

LEMMA NoLossInit == Init => NoLoss
BY DEF Init, NoLoss

LEMMA NoLossStep ==
  TypeOK /\ LockOwner /\ Truthful /\ NoLoss /\ [Next]_vars => NoLoss'
<1> SUFFICES ASSUME TypeOK, LockOwner, Truthful, NoLoss, [Next]_vars, RetryReturns,
                    NEW e \in Events, (published[e] > 0)'
             PROVE  (e \in recorded \/ Pending(e) \/ e \in dropped)'
  BY DEF NoLoss
<1>1. Kept
  BY KeptStep
<1>2. ASSUME published[e] > 0
      PROVE  (e \in recorded \/ Pending(e) \/ e \in dropped)'
  BY <1>1, <1>2 DEF NoLoss, Kept
<1>3. ASSUME NEW f \in Events, Publish(f)
      PROVE  (e \in recorded \/ Pending(e) \/ e \in dropped)'
  <2>1. CASE e = f
    <3> DEFINE c == [ev |-> f, tries |-> 0, id |-> TRUE]
    <3>1. c \in Msg /\ c.ev = f /\ main' = Put(main, c)
      BY <1>3, NewMsg DEF Publish
    <3> HIDE DEF c
    <3>2. main'[c] > 0
      BY <3>1, PutType DEF TypeOK
    <3>. QED
      BY <2>1, <3>1, <3>2 DEF Pending, InQueue
  <2>2. CASE e # f
    BY <1>2, <1>3, <2>2 DEF TypeOK, Publish
  <2>. QED
    BY <2>1, <2>2
<1>4. ASSUME ~ \E f \in Events : Publish(f)
      PROVE  published' = published
  <2>1. ASSUME NEW w \in Workers, Progress(w)
        PROVE  published' = published
    BY <2>1 DEF Progress, CheckRedis, CheckDb, Remark, Acquire, SkipBusy, HandleEvent, Record, Mark,
      Unlock, Release, SendRetry, GiveUp, Ack, Nack
  <2>2. ASSUME NEW w \in Workers, Failure(w) \/ Crash(w) \/ \E m \in Msg : Deliver(w, m)
        PROVE  published' = published
    BY <2>2 DEF Failure, FailBeforeLock, FailAcquire, FailHandle, FailRecord, FailMark, FailUnlock,
      FailRelease, Crash, Deliver
  <2>3. ASSUME Clock \/ (\E a \in Admins : AdminCall(a) \/ AdminStep(a) \/ AdminCrash(a)) \/ UNCHANGED vars
        PROVE  published' = published
    BY <2>3 DEF Clock, RetryExpire, LockExpire, RedisExpire, RowExpire, cleanupProcessedEvents,
      AdminStep, AdminCall, AdminGet, AdminEmpty, AdminPublish, AdminAck, AdminCrash, vars
  <2>. QED
    BY <1>4, <2>1, <2>2, <2>3 DEF Next
<1>. QED
  BY <1>2, <1>3, <1>4

----------------------------------------------------------------------------
(* A worker past the row has a row that cannot expire while it is in hand; one
   before the row holds the lock as long as the row is absent, because a release
   by anybody else comes from a worker past the row. *)
RowStable ==
  /\ \A w \in Workers :
       /\ pc[w] \in AfterRow => row[Ev(w)] = "live"
       /\ pc[w] \in InLock \cup {"acquire"} => row[Ev(w)] # "expired"
       /\ ~Overrun /\ pc[w] \in BeforeRow /\ row[Ev(w)] = "absent" => lock[Ev(w)] = w
       /\ w \in late /\ pc[w] # "idle" => row[Ev(w)] = "live"
  /\ NoRework

LEMMA RowStableInit == Init => RowStable
BY DEF Init, RowStable, NoRework, InLock, BeforeRow, AfterRow

LEMMA RowStableStep ==
  TypeOK /\ LockOwner /\ RowStable /\ [Next]_vars => RowStable'
<1> SUFFICES ASSUME TypeOK, LockOwner, RowStable, [Next]_vars PROVE RowStable'
  OBVIOUS
<1> USE DistinctAssumption DEF TypeOK, NoRework
<1>1. ASSUME NEW e \in Events, Publish(e)
      PROVE  RowStable'
  BY <1>1 DEF RowStable, Publish, workers, redis, admin, history, budgets, AfterRow,
    BeforeRow, InLock, Ev
<1>2. ASSUME NEW w \in Workers, NEW m \in Msg, Deliver(w, m)
      PROVE  RowStable'
  BY <1>2, TakeType, MsgFields DEF RowStable, Deliver, At, Goto, redis, admin, history,
    budgets, AfterRow, BeforeRow, InLock, Ev
<1>3. ASSUME NEW w \in Workers, CheckRedis(w)
      PROVE  RowStable'
  BY <1>3, InHandType DEF RowStable, CheckRedis, At, Goto, Ev, broker, redis, admin,
    history, budgets, AfterRow, BeforeRow, InLock
<1>4. ASSUME NEW w \in Workers, CheckDb(w)
      PROVE  RowStable'
  BY <1>4, InHandType DEF RowStable, CheckDb, At, Goto, Ev, broker, redis, admin,
    history, budgets, AfterRow, BeforeRow, InLock
<1>5. ASSUME NEW w \in Workers, Remark(w)
      PROVE  RowStable'
  BY <1>5, InHandType DEF RowStable, Remark, At, Ev, Goto, broker, admin, history,
    budgets, AfterRow, BeforeRow, InLock
<1>6. ASSUME NEW w \in Workers, Acquire(w)
      PROVE  RowStable'
  BY <1>6, InHandType DEF RowStable, Acquire, At, Ev, Goto, broker, admin, history,
    budgets, AfterRow, BeforeRow, InLock
<1>7. ASSUME NEW w \in Workers, SkipBusy(w)
      PROVE  RowStable'
  BY <1>7, InHandType DEF RowStable, SkipBusy, At, Ev, Goto, broker, redis, admin,
    budgets, AfterRow, BeforeRow, InLock
<1>8. ASSUME NEW w \in Workers, HandleEvent(w)
      PROVE  RowStable'
  BY <1>8, InHandType DEF RowStable, HandleEvent, At, Ev, Goto, broker, redis, admin,
    budgets, AfterRow, BeforeRow, InLock
<1>9. ASSUME NEW w \in Workers, Record(w)
      PROVE  RowStable'
  BY <1>9, InHandType DEF RowStable, Record, At, Ev, Goto, broker, redis, admin,
    budgets, AfterRow, BeforeRow, InLock
<1>10. ASSUME NEW w \in Workers, Mark(w)
      PROVE  RowStable'
  BY <1>10, InHandType DEF RowStable, Mark, Ev, Goto, At, broker, admin, history,
    budgets, AfterRow, BeforeRow, InLock
<1>11. ASSUME NEW w \in Workers, Unlock(w)
      PROVE  RowStable'
  BY <1>11, InHandType DEF RowStable, Unlock, Ev, Goto, At, broker, admin, history,
    budgets, AfterRow, BeforeRow, InLock
<1>12. ASSUME NEW w \in Workers, Release(w)
      PROVE  RowStable'
  BY <1>12, InHandType DEF RowStable, Release, Ev, Goto, At, broker, admin, history,
    budgets, AfterRow, BeforeRow, InLock
<1>13. ASSUME NEW w \in Workers, FailBeforeLock(w)
      PROVE  RowStable'
  BY <1>13, InHandType DEF RowStable, FailBeforeLock, PreLock, Fail, broker, redis,
    admin, history, AfterRow, BeforeRow, InLock, Ev, Goto
<1>14. ASSUME NEW w \in Workers, FailAcquire(w)
      PROVE  RowStable'
  BY <1>14, InHandType DEF RowStable, FailAcquire, At, Ev, Fail, broker, admin,
    history, AfterRow, BeforeRow, InLock, Goto
<1>15. ASSUME NEW w \in Workers, FailHandle(w)
      PROVE  RowStable'
  BY <1>15, InHandType DEF RowStable, FailHandle, At, Fail, broker, redis, admin,
    history, AfterRow, BeforeRow, InLock, Ev, Goto
<1>16. ASSUME NEW w \in Workers, FailRecord(w)
      PROVE  RowStable'
  BY <1>16, InHandType DEF RowStable, FailRecord, At, Ev, Fail, broker, redis, admin,
    AfterRow, BeforeRow, InLock, Goto
<1>17. ASSUME NEW w \in Workers, FailMark(w)
      PROVE  RowStable'
  BY <1>17, InHandType DEF RowStable, FailMark, Ev, Fail, broker, admin, history,
    AfterRow, BeforeRow, InLock, Goto
<1>18. ASSUME NEW w \in Workers, FailUnlock(w)
      PROVE  RowStable'
  BY <1>18, InHandType DEF RowStable, FailUnlock, Ev, Fail, broker, admin, history,
    AfterRow, BeforeRow, InLock, Goto
<1>19. ASSUME NEW w \in Workers, FailRelease(w)
      PROVE  RowStable'
  BY <1>19, InHandType DEF RowStable, FailRelease, Ev, Fail, broker, admin, history,
    AfterRow, BeforeRow, InLock, Goto
<1>20. ASSUME NEW w \in Workers, SendRetry(w)
      PROVE  RowStable'
  BY <1>20, InHandType DEF RowStable, SendRetry, At, Goto, redis, admin, history,
    AfterRow, BeforeRow, InLock, Ev
<1>21. ASSUME NEW w \in Workers, GiveUp(w)
      PROVE  RowStable'
  BY <1>21, InHandType DEF RowStable, GiveUp, At, Goto, broker, redis, admin, history,
    budgets, AfterRow, BeforeRow, InLock, Ev
<1>22. ASSUME NEW w \in Workers, Ack(w)
      PROVE  RowStable'
  BY <1>22, InHandType DEF RowStable, Ack, At, Done, broker, redis, admin, history,
    budgets, AfterRow, BeforeRow, InLock, Ev, Goto
<1>23. ASSUME NEW w \in Workers, Nack(w)
      PROVE  RowStable'
  BY <1>23, InHandType DEF RowStable, Nack, At, Done, redis, admin, history, budgets,
    AfterRow, BeforeRow, InLock, Ev, Goto
<1>24. ASSUME NEW w \in Workers, Crash(w)
      PROVE  RowStable'
  BY <1>24, InHandType DEF RowStable, Crash, At, Ev, Done, admin, history, AfterRow,
    BeforeRow, InLock, Goto
<1>25. ASSUME NEW m \in Msg, RetryExpire(m)
      PROVE  RowStable'
  BY <1>25 DEF RowStable, RetryExpire, workers, redis, admin, history, budgets,
    AfterRow, BeforeRow, InLock, Ev
<1>26. ASSUME NEW e \in Events, LockExpire(e)
      PROVE  RowStable'
  BY <1>26 DEF RowStable, LockExpire, broker, workers, admin, history, budgets,
    AfterRow, BeforeRow, InLock, Ev, LockOwner
<1>27. ASSUME NEW e \in Events, RedisExpire(e)
      PROVE  RowStable'
  BY <1>27 DEF RowStable, RedisExpire, InHand, broker, workers, admin, history,
    budgets, AfterRow, BeforeRow, InLock, Ev
<1>28. ASSUME NEW e \in Events, RowExpire(e)
      PROVE  RowStable'
  BY <1>28 DEF RowStable, RowExpire, InHand, broker, workers, redis, admin, history,
    budgets, AfterRow, BeforeRow, InLock, Ev
<1>29. CASE cleanupProcessedEvents
  BY <1>29, InHandType DEF RowStable, cleanupProcessedEvents, broker, workers, redis,
    admin, history, budgets, AfterRow, BeforeRow, InLock, Ev
<1>30. ASSUME NEW a \in Admins, AdminCall(a)
      PROVE  RowStable'
  BY <1>30 DEF RowStable, AdminCall, broker, workers, redis, history, budgets,
    AfterRow, BeforeRow, InLock, Ev
<1>31. ASSUME NEW a \in Admins, NEW m \in Msg, AdminGet(a, m)
      PROVE  RowStable'
  BY <1>31 DEF RowStable, AdminGet, workers, redis, history, budgets, AfterRow,
    BeforeRow, InLock, Ev
<1>32. ASSUME NEW a \in Admins, AdminEmpty(a)
      PROVE  RowStable'
  BY <1>32 DEF RowStable, AdminEmpty, broker, workers, redis, history, budgets,
    AfterRow, BeforeRow, InLock, Ev
<1>33. ASSUME NEW a \in Admins, AdminPublish(a)
      PROVE  RowStable'
  BY <1>33 DEF RowStable, AdminPublish, workers, redis, history, budgets, AfterRow,
    BeforeRow, InLock, Ev
<1>34. ASSUME NEW a \in Admins, AdminAck(a)
      PROVE  RowStable'
  BY <1>34 DEF RowStable, AdminAck, broker, workers, redis, history, budgets, AfterRow,
    BeforeRow, InLock, Ev
<1>35. ASSUME NEW a \in Admins, AdminCrash(a)
      PROVE  RowStable'
  BY <1>35 DEF RowStable, AdminCrash, workers, redis, history, AfterRow, BeforeRow,
    InLock, Ev
<1>36. CASE UNCHANGED vars
  BY <1>36 DEF vars, RowStable, broker, workers, redis, admin, history, budgets,
    AfterRow, BeforeRow, InLock, Ev
<1>. QED
  BY <1>1, <1>2, <1>3, <1>4, <1>5, <1>6, <1>7, <1>8, <1>9, <1>10, <1>11, <1>12, <1>13,
    <1>14, <1>15, <1>16, <1>17, <1>18, <1>19, <1>20, <1>21, <1>22, <1>23, <1>24, <1>25,
    <1>26, <1>27, <1>28, <1>29, <1>30, <1>31, <1>32, <1>33, <1>34, <1>35, <1>36 DEF
    Next, Progress, Failure, Clock, AdminStep

----------------------------------------------------------------------------
(* Without back-pressure a copy of a healthy event climbs one retry per fault:
   its retry count never exceeds the faults so far. *)
LadderMsgs ==
  \A m \in Msg : Healthy(m.ev) =>
    /\ main[m] > 0 \/ retry[m] > 0 => faults >= m.tries
    /\ dlq[m] > 0 \/ (\E a \in Admins : adminMsg[a] = m) => faults > MaxRetries

LadderWork ==
  \A w \in Workers : pc[w] # "idle" /\ Healthy(Ev(w)) =>
    /\ faults >= job[w].tries
    /\ pc[w] \in {"failed", "release"} => faults > job[w].tries
    /\ pc[w] = "nack" => faults > MaxRetries

Ladder == stalls = 0 => LadderMsgs /\ LadderWork

LEMMA LadderInit == Init => Ladder
BY DistinctAssumption DEF Init, Ladder, LadderMsgs, LadderWork

LEMMA LadderStep == TypeOK /\ Ladder /\ [Next]_vars => Ladder'
<1> SUFFICES ASSUME TypeOK, Ladder, [Next]_vars PROVE Ladder'
  OBVIOUS
<1>0. main \in [Msg -> Nat] /\ retry \in [Msg -> Nat] /\ dlq \in [Msg -> Nat]
  BY DEF TypeOK
<1> USE BoundsAssumption, MsgFields DEF TypeOK
<1>1. ASSUME NEW e \in Events, Publish(e)
      PROVE  Ladder'
  <2> SUFFICES ASSUME stalls' = 0
               PROVE  LadderMsgs' /\ LadderWork'
    BY DEF Ladder
  <2>1. LadderMsgs /\ LadderWork
    BY <1>1 DEF Ladder, Publish, budgets
  <2>2. LadderWork'
    BY <1>1, <2>1 DEF Publish, LadderWork, Ev, workers, budgets
  <2>3. LadderMsgs'
    <3> DEFINE c == [ev |-> e, tries |-> 0, id |-> TRUE]
    <3>0. c \in Msg /\ c.tries = 0 /\ main' = Put(main, c)
      BY <1>1, NewMsg DEF Publish
    <3> HIDE DEF c
    <3>1. \A n \in Msg : n # c => main'[n] = main[n]
      BY <1>0, <3>0, PutType, SMTT(30)
    <3>2. /\ retry' = retry /\ dlq' = dlq /\ adminMsg' = adminMsg
          /\ faults' = faults /\ faults >= c.tries
      BY <1>1, <3>0 DEF Publish, admin, budgets
    <3>. QED
      BY <2>1, <3>1, <3>2 DEF LadderMsgs
  <2>. QED
    BY <2>2, <2>3
<1>2. ASSUME NEW w \in Workers, NEW m \in Msg, Deliver(w, m)
      PROVE  Ladder'
  <2> SUFFICES ASSUME stalls' = 0
               PROVE  LadderMsgs' /\ LadderWork'
    BY DEF Ladder
  <2>1. LadderMsgs /\ LadderWork
    BY <1>2 DEF Ladder, Deliver, budgets
  <2>2. LadderWork'
    <3>1. main[m] > 0 /\ pc'[w] \in {"dedupRedis", "failed"} /\ job'[w] = m
      BY <1>2 DEF Deliver, Goto
    <3>2. Healthy(m.ev) => pc'[w] = "dedupRedis" /\ faults >= m.tries
      BY <1>2, <2>1, <3>1, HealthyId DEF Deliver, Goto, Parsable, Healthy, LadderMsgs
    <3>3. \A u \in Workers : u # w => pc'[u] = pc[u] /\ job'[u] = job[u]
      BY <1>2 DEF Deliver, Goto
    <3>. QED
      <4>1. faults' = faults
        BY <1>2 DEF Deliver, budgets
      <4>2. ASSUME NEW u \in Workers, u # w, pc'[u] # "idle", Healthy(job'[u].ev)
            PROVE  /\ faults >= job'[u].tries
                   /\ pc'[u] \in {"failed", "release"} => faults > job'[u].tries
                   /\ pc'[u] = "nack" => faults > MaxRetries
        BY <2>1, <3>3, <4>2 DEF LadderWork, Ev
      <4>3. Healthy(job'[w].ev) => pc'[w] = "dedupRedis" /\ faults >= job'[w].tries
        BY <3>1, <3>2
      <4>. QED
        BY <4>1, <4>2, <4>3 DEF LadderWork, Ev
  <2>3. LadderMsgs'
    <3>0. main[m] > 0 /\ main' = Take(main, m)
      BY <1>2 DEF Deliver
    <3>1. \A n \in Msg : main'[n] > 0 => main[n] > 0
      <4>1. \A n \in Msg : n # m => main'[n] = main[n]
        BY <1>0, <3>0, TakeType
      <4>. QED
        BY <3>0, <4>1
    <3>2. retry' = retry /\ dlq' = dlq /\ adminMsg' = adminMsg /\ faults' = faults
      BY <1>2 DEF Deliver, admin, budgets
    <3>. QED
      BY <2>1, <3>1, <3>2 DEF LadderMsgs
  <2>. QED
    BY <2>2, <2>3
<1>3. ASSUME NEW w \in Workers, CheckRedis(w)
      PROVE  Ladder'
  BY <1>3, InHandType DEF Ladder, CheckRedis, At, Goto, Ev, broker, redis, admin,
    history, budgets, LadderMsgs, LadderWork
<1>4. ASSUME NEW w \in Workers, CheckDb(w)
      PROVE  Ladder'
  BY <1>4, InHandType DEF Ladder, CheckDb, At, Goto, Ev, broker, redis, admin, history,
    budgets, LadderMsgs, LadderWork
<1>5. ASSUME NEW w \in Workers, Remark(w)
      PROVE  Ladder'
  BY <1>5, InHandType DEF Ladder, Remark, At, Ev, Goto, broker, admin, history,
    budgets, LadderMsgs, LadderWork
<1>6. ASSUME NEW w \in Workers, Acquire(w)
      PROVE  Ladder'
  BY <1>6, InHandType DEF Ladder, Acquire, At, Ev, Goto, broker, admin, history,
    budgets, LadderMsgs, LadderWork
<1>7. ASSUME NEW w \in Workers, SkipBusy(w)
      PROVE  Ladder'
  BY <1>7, InHandType DEF Ladder, SkipBusy, At, Ev, Goto, broker, redis, admin,
    budgets, LadderMsgs, LadderWork
<1>8. ASSUME NEW w \in Workers, HandleEvent(w)
      PROVE  Ladder'
  BY <1>8, InHandType DEF Ladder, HandleEvent, At, Ev, Goto, broker, redis, admin,
    budgets, LadderMsgs, LadderWork, Healthy
<1>9. ASSUME NEW w \in Workers, Record(w)
      PROVE  Ladder'
  BY <1>9, InHandType DEF Ladder, Record, At, Ev, Goto, broker, redis, admin, budgets,
    LadderMsgs, LadderWork
<1>10. ASSUME NEW w \in Workers, Mark(w)
      PROVE  Ladder'
  BY <1>10, InHandType DEF Ladder, Mark, Ev, Goto, At, broker, admin, history, budgets,
    LadderMsgs, LadderWork
<1>11. ASSUME NEW w \in Workers, Unlock(w)
      PROVE  Ladder'
  BY <1>11, InHandType DEF Ladder, Unlock, Ev, Goto, At, broker, admin, history,
    budgets, LadderMsgs, LadderWork
<1>12. ASSUME NEW w \in Workers, Release(w)
      PROVE  Ladder'
  BY <1>12, InHandType DEF Ladder, Release, Ev, Goto, At, broker, admin, history,
    budgets, LadderMsgs, LadderWork
<1>13. ASSUME NEW w \in Workers, FailBeforeLock(w)
      PROVE  Ladder'
  BY <1>13, InHandType DEF Ladder, FailBeforeLock, PreLock, Fail, broker, redis, admin,
    history, LadderMsgs, LadderWork, Ev, Goto
<1>14. ASSUME NEW w \in Workers, FailAcquire(w)
      PROVE  Ladder'
  BY <1>14, InHandType DEF Ladder, FailAcquire, At, Ev, Fail, broker, admin, history,
    LadderMsgs, LadderWork, Goto
<1>15. ASSUME NEW w \in Workers, FailHandle(w)
      PROVE  Ladder'
  BY <1>15, InHandType DEF Ladder, FailHandle, At, Fail, broker, redis, admin, history,
    LadderMsgs, LadderWork, Ev, Goto
<1>16. ASSUME NEW w \in Workers, FailRecord(w)
      PROVE  Ladder'
  BY <1>16, InHandType DEF Ladder, FailRecord, At, Ev, Fail, broker, redis, admin,
    LadderMsgs, LadderWork, Goto
<1>17. ASSUME NEW w \in Workers, FailMark(w)
      PROVE  Ladder'
  BY <1>17, InHandType DEF Ladder, FailMark, Ev, Fail, broker, admin, history,
    LadderMsgs, LadderWork, Goto
<1>18. ASSUME NEW w \in Workers, FailUnlock(w)
      PROVE  Ladder'
  BY <1>18, InHandType DEF Ladder, FailUnlock, Ev, Fail, broker, admin, history,
    LadderMsgs, LadderWork, Goto
<1>19. ASSUME NEW w \in Workers, FailRelease(w)
      PROVE  Ladder'
  BY <1>19, InHandType DEF Ladder, FailRelease, Ev, Fail, broker, admin, history,
    LadderMsgs, LadderWork, Goto
<1>20. ASSUME NEW w \in Workers, SendRetry(w)
      PROVE  Ladder'
  <2> SUFFICES ASSUME stalls' = 0
               PROVE  LadderMsgs' /\ LadderWork'
    BY DEF Ladder
  <2>1. LadderMsgs /\ LadderWork
    BY <1>20 DEF Ladder, SendRetry
  <2>2. LadderWork'
    BY <1>20, <2>1 DEF SendRetry, LadderWork, Ev, At, Goto
  <2>3. LadderMsgs'
    <3>1. job[w] \in Msg /\ job[w].tries < MaxRetries
      BY <1>20, InHandType DEF SendRetry, At
    <3> DEFINE c == RetryCopy(job[w])
    <3>0. c \in Msg /\ c.ev = Ev(w) /\ c.tries = job[w].tries + 1 /\ retry' = Put(retry, c)
      BY <1>20, <3>1, RetryMsg DEF SendRetry, Ev
    <3> HIDE DEF c
    <3>2. \A n \in Msg : n # c => retry'[n] = retry[n]
      BY <1>0, <3>0, PutType, SMTT(30)
    <3>3. Healthy(c.ev) => faults >= c.tries
      BY <1>20, <2>1, <3>0, <3>1 DEF SendRetry, At, LadderWork
    <3>. QED
      BY <1>20, <2>1, <3>0, <3>2, <3>3 DEF SendRetry, LadderMsgs, admin
  <2>. QED
    BY <2>2, <2>3
<1>21. ASSUME NEW w \in Workers, GiveUp(w)
      PROVE  Ladder'
  BY <1>21, InHandType, MsgFields DEF Ladder, GiveUp, At, Goto, broker, redis, admin,
    history, budgets, LadderMsgs, LadderWork, Ev
<1>22. ASSUME NEW w \in Workers, Ack(w)
      PROVE  Ladder'
  BY <1>22, InHandType DEF Ladder, Ack, At, Done, broker, redis, admin, history,
    budgets, LadderMsgs, LadderWork, Ev, Goto
<1>23. ASSUME NEW w \in Workers, Nack(w)
      PROVE  Ladder'
  <2> SUFFICES ASSUME stalls' = 0
               PROVE  LadderMsgs' /\ LadderWork'
    BY DEF Ladder
  <2>1. LadderMsgs /\ LadderWork
    BY <1>23 DEF Ladder, Nack, budgets
  <2>2. LadderWork'
    BY <1>23, <2>1 DEF Nack, Done, LadderWork, Ev, At, Goto, budgets
  <2>3. LadderMsgs'
    <3>1. job[w] \in Msg /\ \A n \in Msg : n # job[w] => dlq'[n] = dlq[n]
      BY <1>23, InHandType, PutType DEF Nack, At
    <3>2. Healthy(job[w].ev) => faults > MaxRetries
      BY <1>23, <2>1 DEF Nack, At, LadderWork, Ev
    <3>. QED
      BY <1>23, <2>1, <3>1, <3>2 DEF Nack, LadderMsgs, admin, budgets
  <2>. QED
    BY <2>2, <2>3
<1>24. ASSUME NEW w \in Workers, Crash(w)
      PROVE  Ladder'
  <2> SUFFICES ASSUME stalls' = 0
               PROVE  LadderMsgs' /\ LadderWork'
    BY DEF Ladder
  <2>1. LadderMsgs /\ LadderWork
    BY <1>24 DEF Ladder, Crash
  <2>2. LadderWork'
    BY <1>24, <2>1 DEF Crash, Done, LadderWork, Ev, Goto
  <2>3. LadderMsgs'
    <3>0. job[w] \in Msg /\ main' = Put(main, job[w])
      BY <1>24, InHandType DEF Crash, At
    <3>1. \A n \in Msg : n # job[w] => main'[n] = main[n]
      BY <3>0, PutType
    <3>2. Healthy(job[w].ev) => faults >= job[w].tries
      BY <1>24, <2>1 DEF Crash, At, LadderWork, Ev
    <3>. QED
      BY <1>24, <2>1, <3>0, <3>1, <3>2 DEF Crash, LadderMsgs, admin
  <2>. QED
    BY <2>2, <2>3
<1>25. ASSUME NEW m \in Msg, RetryExpire(m)
      PROVE  Ladder'
  <2> SUFFICES ASSUME stalls' = 0
               PROVE  LadderMsgs' /\ LadderWork'
    BY DEF Ladder
  <2>1. LadderMsgs /\ LadderWork
    BY <1>25 DEF Ladder, RetryExpire, budgets
  <2>2. LadderWork'
    BY <1>25, <2>1 DEF RetryExpire, LadderWork, Ev, workers, budgets
  <2>3. LadderMsgs'
    <3>0. retry[m] > 0 /\ retry' = Take(retry, m)
      BY <1>25 DEF RetryExpire
    <3>1. \A n \in Msg : retry'[n] > 0 => retry[n] > 0
      BY <1>0, <3>0, TakeType, SMTT(30)
    <3>2. \A n \in Msg : n # m => main'[n] = main[n]
      BY <1>25, PutType DEF RetryExpire
    <3>. QED
      BY <1>25, <2>1, <3>0, <3>1, <3>2 DEF RetryExpire, LadderMsgs, admin, budgets
  <2>. QED
    BY <2>2, <2>3
<1>26. ASSUME NEW e \in Events, LockExpire(e)
      PROVE  Ladder'
  BY <1>26 DEF Ladder, LockExpire, broker, workers, admin, history, budgets,
    LadderMsgs, LadderWork, Ev
<1>27. ASSUME NEW e \in Events, RedisExpire(e)
      PROVE  Ladder'
  BY <1>27 DEF Ladder, RedisExpire, broker, workers, admin, history, budgets,
    LadderMsgs, LadderWork, Ev
<1>28. ASSUME NEW e \in Events, RowExpire(e)
      PROVE  Ladder'
  BY <1>28 DEF Ladder, RowExpire, broker, workers, redis, admin, history, budgets,
    LadderMsgs, LadderWork, Ev
<1>29. CASE cleanupProcessedEvents
  BY <1>29, InHandType DEF Ladder, cleanupProcessedEvents, broker, workers, redis,
    admin, history, budgets, LadderMsgs, LadderWork, Ev
<1>30. ASSUME NEW a \in Admins, AdminCall(a)
      PROVE  Ladder'
  BY <1>30 DEF Ladder, AdminCall, broker, workers, redis, history, budgets, LadderMsgs,
    LadderWork, Ev
<1>31. ASSUME NEW a \in Admins, NEW m \in Msg, AdminGet(a, m)
      PROVE  Ladder'
  <2> SUFFICES ASSUME stalls' = 0
               PROVE  LadderMsgs' /\ LadderWork'
    BY DEF Ladder
  <2>1. LadderMsgs /\ LadderWork
    BY <1>31 DEF Ladder, AdminGet, budgets
  <2>2. LadderWork'
    BY <1>31, <2>1 DEF AdminGet, LadderWork, Ev, workers, budgets
  <2>3. dlq[m] > 0 /\ \A n \in Msg : n # m => dlq'[n] = dlq[n]
    BY <1>31, TakeType DEF AdminGet
  <2>4. \A n \in Msg :
          dlq'[n] > 0 \/ (\E x \in Admins : adminMsg'[x] = n) =>
          dlq[n] > 0 \/ (\E x \in Admins : adminMsg[x] = n)
    BY <1>31, <2>3 DEF AdminGet
  <2>5. LadderMsgs'
    BY <1>31, <2>1, <2>4 DEF AdminGet, LadderMsgs, budgets
  <2>. QED
    BY <2>2, <2>5
<1>32. ASSUME NEW a \in Admins, AdminEmpty(a)
      PROVE  Ladder'
  BY <1>32, MsgFields DEF Ladder, AdminEmpty, broker, workers, redis, history, budgets,
    LadderMsgs, LadderWork, Ev
<1>33. ASSUME NEW a \in Admins, AdminPublish(a)
      PROVE  Ladder'
  <2> SUFFICES ASSUME stalls' = 0
               PROVE  LadderMsgs' /\ LadderWork'
    BY DEF Ladder
  <2>1. LadderMsgs /\ LadderWork
    BY <1>33 DEF Ladder, AdminPublish, budgets
  <2>2. LadderWork'
    BY <1>33, <2>1 DEF AdminPublish, LadderWork, Ev, workers, budgets
  <2> DEFINE c == Republished(adminMsg[a])
  <2>3. adminMsg[a] \in Msg
    BY <1>33 DEF AdminPublish
  <2>4. /\ c \in Msg /\ c.ev = adminMsg[a].ev /\ c.tries = adminMsg[a].tries
        /\ main' = Put(main, c)
    BY <1>33, <2>3, RepublishedMsg DEF AdminPublish
  <2> HIDE DEF c
  <2>5. \A n \in Msg : n # c => main'[n] = main[n]
    BY <1>0, <2>4, PutType
  <2>6. Healthy(c.ev) => faults >= c.tries
    BY <2>1, <2>3, <2>4 DEF LadderMsgs
  <2>7. LadderMsgs'
    BY <1>33, <2>1, <2>5, <2>6 DEF AdminPublish, LadderMsgs, budgets
  <2>. QED
    BY <2>2, <2>7
<1>34. ASSUME NEW a \in Admins, AdminAck(a)
      PROVE  Ladder'
  BY <1>34, MsgFields DEF Ladder, AdminAck, broker, workers, redis, history, budgets,
    LadderMsgs, LadderWork, Ev
<1>35. ASSUME NEW a \in Admins, AdminCrash(a)
      PROVE  Ladder'
  <2> SUFFICES ASSUME stalls' = 0
               PROVE  LadderMsgs' /\ LadderWork'
    BY DEF Ladder
  <2>1. LadderMsgs /\ LadderWork
    BY <1>35 DEF Ladder, AdminCrash
  <2>2. LadderWork'
    BY <1>35, <2>1 DEF AdminCrash, LadderWork, Ev, workers
  <2>0. adminMsg[a] \in Msg
    BY <1>35 DEF AdminCrash
  <2>3. \A n \in Msg : n # adminMsg[a] => dlq'[n] = dlq[n]
    BY <1>0, <1>35, <2>0, PutType DEF AdminCrash
  <2>4. \A n \in Msg :
          dlq'[n] > 0 \/ (\E x \in Admins : adminMsg'[x] = n) =>
          dlq[n] > 0 \/ (\E x \in Admins : adminMsg[x] = n)
    BY <1>35, <2>0, <2>3 DEF AdminCrash
  <2>5. LadderMsgs'
    BY <1>35, <2>1, <2>4 DEF AdminCrash, LadderMsgs
  <2>. QED
    BY <2>2, <2>5
<1>36. CASE UNCHANGED vars
  BY <1>36 DEF vars, Ladder, broker, workers, redis, admin, history, budgets,
    LadderMsgs, LadderWork, Ev
<1>. QED
  BY <1>1, <1>2, <1>3, <1>4, <1>5, <1>6, <1>7, <1>8, <1>9, <1>10, <1>11, <1>12, <1>13,
    <1>14, <1>15, <1>16, <1>17, <1>18, <1>19, <1>20, <1>21, <1>22, <1>23, <1>24, <1>25,
    <1>26, <1>27, <1>28, <1>29, <1>30, <1>31, <1>32, <1>33, <1>34, <1>35, <1>36 DEF
    Next, Progress, Failure, Clock, AdminStep

----------------------------------------------------------------------------
IInv == TypeOK /\ LockOwner /\ Truthful /\ NoLoss /\ RowStable /\ Ladder

LEMMA IInvInductive == Spec => []IInv
<1>1. Init => IInv
  BY TypeInit, LockOwnerInit, TruthfulInit, NoLossInit, RowStableInit, LadderInit DEF IInv
<1>2. IInv /\ [Next]_vars => IInv'
  BY TypeStep, LockOwnerStep, TruthfulStep, NoLossStep, RowStableStep, LadderStep DEF IInv
<1>. QED
  BY <1>1, <1>2, PTL DEF Spec

(* A published event that is not recorded still has a copy that somebody will
   act on, unless a copy was skipped on an orphaned lock. *)
THEOREM NoEventLost == Spec => []NoLoss
<1>1. IInv => NoLoss
  BY DEF IInv
<1>. QED
  BY <1>1, IInvInductive, PTL

(* Redis marks and rows only ever speak of events that were handled. *)
THEOREM RecordsTrue == Spec => []RecordIsTruthful
<1>1. IInv => RecordIsTruthful
  BY DEF IInv, Truthful, RecordIsTruthful
<1>. QED
  BY <1>1, IInvInductive, PTL

(* As long as handlers end within the lock's TTL, two handlers of one event
   overlap only once its row exists. *)
THEOREM HandlersExclude == Spec => []MutualExclusion
<1>1. IInv => MutualExclusion
  <2> SUFFICES ASSUME IInv, ~Overrun, NEW u \in Workers, NEW w \in Workers,
                      u # w, At(u, "handle"), At(w, "handle"), Ev(u) = Ev(w),
                      row[Ev(w)] = "absent"
               PROVE  FALSE
    BY DEF MutualExclusion
  <2>1. lock[Ev(u)] = u /\ lock[Ev(w)] = w
    BY DEF IInv, RowStable, At, BeforeRow
  <2>. QED
    BY <2>1
<1>. QED
  BY <1>1, IInvInductive, PTL

(* A delivery begun after the row exists never reaches the lock. *)
THEOREM RecordedNotReworked == Spec => []NoRework
<1>1. IInv => NoRework
  BY DEF IInv, RowStable
<1>. QED
  BY <1>1, IInvInductive, PTL

(* A healthy event reaches the DLQ only after more faults than retries. *)
THEOREM DlqEarned == Spec => []DlqNeedsFaults
<1>1. IInv => DlqNeedsFaults
  BY DEF IInv, Ladder, LadderMsgs, DlqNeedsFaults
<1>. QED
  BY <1>1, IInvInductive, PTL

(* Somebody other than the DLQ has a copy of e, and is not about to nack it. *)
Moving(e) ==
  \/ \E m \in Msg : m.ev = e /\ (main[m] > 0 \/ retry[m] > 0)
  \/ \E w \in Workers : pc[w] \notin {"idle", "ack", "nack"} /\ Ev(w) = e

(* While faults are no more than retries and no queue stalled, a published event
   that can be handled is recorded, was skipped on an orphaned lock, or has a copy
   at work: what is left of RetryAbsorbsFaults is that workers and TTLs go on.
   (rabbitmq.service 223-280) *)
THEOREM FewFaultsKeepMoving ==
  ASSUME RetryReturns
  PROVE  Spec => [](stalls = 0 /\ faults <= MaxRetries =>
                     \A e \in Events : published[e] > 0 /\ Healthy(e) =>
                       e \in recorded \cup dropped \/ Moving(e))
<1>1. ASSUME IInv, stalls = 0, faults <= MaxRetries,
             NEW e \in Events, published[e] > 0, Healthy(e), e \notin recorded \cup dropped
      PROVE  Moving(e)
  <2>1. ~(faults > MaxRetries)
    BY <1>1, BoundsAssumption DEF IInv, TypeOK
  <2>2. \A m \in Msg : m.ev = e => ~(dlq[m] > 0) /\ \A a \in Admins : adminMsg[a] # m
    BY <1>1, <2>1 DEF IInv, Ladder, LadderMsgs
  <2>3. \A w \in Workers : pc[w] # "idle" /\ Ev(w) = e => pc[w] # "nack"
    BY <1>1, <2>1 DEF IInv, Ladder, LadderWork
  <2>4. ~InAdmin(e)
    BY <1>1, <2>2 DEF IInv, TypeOK, InAdmin
  <2>5. Pending(e)
    BY <1>1 DEF IInv, NoLoss
  <2>6. CASE InQueue(e)
    BY <2>2, <2>6 DEF InQueue, Moving
  <2>7. CASE InWork(e)
    BY <2>3, <2>7 DEF InWork, Moving
  <2>. QED
    BY <2>4, <2>5, <2>6, <2>7 DEF Pending
<1>2. IInv => (stalls = 0 /\ faults <= MaxRetries =>
                 \A e \in Events : published[e] > 0 /\ Healthy(e) =>
                   e \in recorded \cup dropped \/ Moving(e))
  BY <1>1
<1>. QED
  BY <1>2, IInvInductive, PTL

(* With queues bound so that a retry copy comes back, the pipeline implements
   AtLeastOnce: an event is held until it is recorded or skipped on an orphaned
   lock, and neither happens to an event that is not held. *)
THEOREM AtLeastOnceImplemented ==
  ASSUME RetryReturns
  PROVE  Spec => DeliversAtLeastOnce
<1>1. Init => Ledger!Init
  BY MsgFields, DistinctAssumption DEF Init, Ledger!Init, Pending, InQueue, InWork, InAdmin
<1>2. IInv /\ [Next]_vars => [Ledger!Next]_(Ledger!vars)
  <2> SUFFICES ASSUME IInv, [Next]_vars PROVE Ledger!Next
    OBVIOUS
  <2>1. Kept
    BY KeptStep DEF IInv
  <2>2. recorded' \subseteq Events /\ dropped' \subseteq Events
    BY TypeStep DEF IInv, TypeOK
  <2>3. Ledger!Process
    BY <2>1, <2>2 DEF Kept, Ledger!Process
  <2>4. Ledger!GiveUp
    BY <2>1, <2>2 DEF Kept, Ledger!GiveUp
  <2>5. Ledger!LetGo
    BY <2>1 DEF Kept, Ledger!LetGo
  <2>6. Ledger!Accept
    BY DEF Ledger!Accept
  <2>. QED
    BY <2>3, <2>4, <2>5, <2>6 DEF Ledger!Next
<1>. QED
  BY <1>1, <1>2, IInvInductive, PTL DEF Spec, DeliversAtLeastOnce, Ledger!Spec
============================================================================

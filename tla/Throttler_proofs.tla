--------------------------- MODULE Throttler_proofs ---------------------------
(* Proofs about Throttler, for any clients, addresses, limit, window and block
   duration.

   OneBurst rests on Spaced: what is left of a block and the time since a request
   was let through make up Block.  TTL's rounding lets one half second of it go.  CounterExpires rests on Opened: the request
   that made a counter is the only one about to set its expiry, and until it has
   done so the counter has none. *)
EXTENDS Throttler, TLAPS

Spaced == \A a \in Addresses : since[a] + blockLeft[a] >= Halves(Block)

Opened ==
  /\ \A a \in Addresses : hits[a] = 0 => hitsLeft[a] = NoTtl
  /\ \A c \in Clients : At(c, "window") => hits[Tracker(c)] > 0 /\ hitsLeft[Tracker(c)] = NoTtl
  /\ \A c, d \in Clients : At(c, "window") /\ At(d, "window") /\ Tracker(c) = Tracker(d) => c = d

IInv == TypeOK /\ Spaced /\ Opened /\ OneBurst /\ CounterExpires

LEMMA Facts ==
  /\ Limit \in Nat /\ Block \in Nat /\ MaxFaults \in Nat /\ Window \in Nat /\ Window > 0
  /\ NoTtl \notin Nat
  /\ \A c \in Clients : Tracker(c) \in Addresses
BY ThrottlerAssumption DEF Tracker

LEMMA InitInv == Init => IInv
BY Facts DEF Init, Halves, IInv, TypeOK, Pcs, Spaced, Opened, OneBurst, CounterExpires, At

LEMMA TypeStep ==
  ASSUME TypeOK, [Next]_vars
  PROVE  TypeOK'
<1>1. ASSUME NEW c \in Clients, Refuse(c) PROVE TypeOK'
  BY <1>1 DEF Refuse, vars, keys, TypeOK
<1>2. ASSUME NEW c \in Clients, Pass(c) PROVE TypeOK'
  BY <1>2, Facts DEF Pass, keys, TypeOK, Goto, Pcs
<1>3. ASSUME NEW c \in Clients, Count(c) PROVE TypeOK'
  BY <1>3, Facts DEF Count, Counted, TypeOK, Goto, Pcs, Halves
<1>4. ASSUME NEW c \in Clients, SetWindow(c) PROVE TypeOK'
  BY <1>4, Facts DEF SetWindow, TypeOK, Goto, Pcs, Halves
<1>5. ASSUME NEW c \in Clients, SetBlock(c) PROVE TypeOK'
  BY <1>5, Facts DEF SetBlock, BlockSet, TypeOK, Goto, Pcs, Halves
<1>6. ASSUME NEW c \in Clients, Fail(c) PROVE TypeOK'
  BY <1>6, Facts DEF Fail, Counted, BlockSet, keys, TypeOK, Goto, At, Pcs, Halves
<1>7. CASE Tick
  BY <1>7, Facts DEF Tick, TypeOK, Halves
<1>8. CASE UNCHANGED vars
  BY <1>8 DEF vars, keys, TypeOK
<1>. QED
  BY <1>1, <1>2, <1>3, <1>4, <1>5, <1>6, <1>7, <1>8 DEF Next, Request

(* Blocks and the time between requests. *)
LEMMA SpacedStep ==
  ASSUME IInv, [Next]_vars
  PROVE  Spaced' /\ OneBurst'
<1>1. ASSUME NEW c \in Clients, Pass(c) PROVE Spaced' /\ OneBurst'
  <2>1. since[Tracker(c)] >= Halves(Block) - 1
    <3>1. /\ since[Tracker(c)] + blockLeft[Tracker(c)] >= Halves(Block)
          /\ blockLeft[Tracker(c)] <= 1
      BY <1>1, Facts DEF IInv, Spaced, Pass
    <3>2. since[Tracker(c)] \in Nat /\ blockLeft[Tracker(c)] \in Nat
      BY Facts DEF IInv, TypeOK, Halves
    <3>. QED
      BY <3>1, <3>2, Facts DEF Halves
  <2>. QED
    BY <1>1, <2>1, Facts DEF IInv, TypeOK, Spaced, OneBurst, Pass, Goto, keys
<1>2. ASSUME NEW c \in Clients, SetBlock(c) PROVE Spaced' /\ OneBurst'
  <2>1. Spaced'
    BY <1>2, Facts DEF IInv, TypeOK, Spaced, SetBlock, BlockSet, Halves
  <2>2. OneBurst'
    BY <1>2, Facts DEF IInv, TypeOK, OneBurst, SetBlock, Goto, Halves
  <2>. QED
    BY <2>1, <2>2
<1>3. ASSUME NEW c \in Clients, Refuse(c) \/ Count(c) \/ SetWindow(c) PROVE Spaced' /\ OneBurst'
  <2>1. UNCHANGED <<blockLeft, since, gap>> /\ \A d \in Clients : pc[d] = "idle" => pc'[d] = "idle"
    BY <1>3 DEF IInv, TypeOK, Refuse, Count, SetWindow, Goto, At, vars, keys
  <2>. QED
    BY <2>1 DEF IInv, Spaced, OneBurst
<1>4. ASSUME NEW c \in Clients, Fail(c) PROVE Spaced' /\ OneBurst'
  <2>1. Spaced'
    BY <1>4, Facts DEF IInv, TypeOK, Spaced, Fail, BlockSet, keys, Halves
  <2>2. OneBurst'
    BY <1>4, Facts DEF IInv, TypeOK, OneBurst, Fail, Goto
  <2>. QED
    BY <2>1, <2>2
<1>5. CASE Tick
  BY <1>5, Facts DEF IInv, TypeOK, Spaced, OneBurst, Tick, Halves
<1>6. CASE UNCHANGED vars
  BY <1>6 DEF IInv, Spaced, OneBurst, vars, keys
<1>. QED
  BY <1>1, <1>2, <1>3, <1>4, <1>5, <1>6 DEF Next, Request

(* Counters and their expiry. *)
LEMMA OpenedStep ==
  ASSUME IInv, [Next]_vars
  PROVE  Opened' /\ CounterExpires'
<1>1. ASSUME NEW c \in Clients, Refuse(c) \/ Pass(c) \/ SetBlock(c) PROVE Opened' /\ CounterExpires'
  <2>1. /\ UNCHANGED <<hits, hitsLeft, faults>>
        /\ \A d \in Clients : At(d, "window")' <=> At(d, "window")
    BY <1>1 DEF IInv, TypeOK, Refuse, Pass, SetBlock, Goto, At, vars, keys
  <2>. QED
    BY <2>1 DEF IInv, Opened, CounterExpires, Tracker
<1>2. ASSUME NEW c \in Clients, Count(c) PROVE Opened' /\ CounterExpires'
  <2> DEFINE a == Tracker(c)
  <2>1. a \in Addresses /\ hits[a] \in Nat
    BY Facts DEF IInv, TypeOK
  <2>2. /\ hits'[a] > 0 /\ \A b \in Addresses \ {a} : hits'[b] = hits[b]
        /\ hitsLeft' = hitsLeft /\ faults' = faults
    BY <1>2, <2>1, Facts DEF IInv, TypeOK, Count, Counted
  <2>3. /\ \A d \in Clients \ {c} : At(d, "window")' <=> At(d, "window")
        /\ At(c, "window")' <=> hits[a] = 0
        /\ ~At(c, "window")
    BY <1>2 DEF IInv, TypeOK, Count, Goto, At
  <2>4. \A d \in Clients : At(d, "window") /\ Tracker(d) = a => hits[a] > 0
    BY DEF IInv, Opened
  <2>5. hits[a] = 0 => hitsLeft[a] = NoTtl
    BY <2>1 DEF IInv, Opened
  <2>6. Opened'
    BY <2>1, <2>2, <2>3, <2>4, <2>5, Facts DEF IInv, Opened, Tracker
  <2>7. CounterExpires'
    BY <2>1, <2>2, <2>3, <2>4, Facts DEF IInv, CounterExpires, Tracker
  <2>. QED
    BY <2>6, <2>7
<1>3. ASSUME NEW c \in Clients, SetWindow(c) PROVE Opened' /\ CounterExpires'
  <2> DEFINE a == Tracker(c)
  <2>1. a \in Addresses /\ hits[a] > 0 /\ hits' = hits /\ faults' = faults
    BY <1>3, Facts DEF IInv, Opened, SetWindow
  <2>2. hitsLeft'[a] = Halves(Window) /\ \A b \in Addresses \ {a} : hitsLeft'[b] = hitsLeft[b]
    BY <1>3, <2>1 DEF IInv, TypeOK, SetWindow, Halves
  <2>3. /\ \A d \in Clients \ {c} : At(d, "window")' <=> At(d, "window")
        /\ ~At(c, "window")' /\ At(c, "window")
    BY <1>3 DEF IInv, TypeOK, SetWindow, Goto, At
  <2>4. \A d \in Clients : At(d, "window")' => Tracker(d) # a
    BY <2>3 DEF IInv, Opened
  <2>5. Halves(Window) # NoTtl
    BY Facts DEF Halves
  <2>6. Opened'
    BY <2>1, <2>2, <2>3, <2>4, <2>5, Facts DEF IInv, Opened, Tracker
  <2>7. CounterExpires'
    BY <2>1, <2>2, <2>3, <2>4, <2>5, Facts DEF IInv, CounterExpires, Tracker
  <2>. QED
    BY <2>6, <2>7
<1>4. ASSUME NEW c \in Clients, Fail(c) PROVE Opened' /\ CounterExpires'
  <2> DEFINE a == Tracker(c)
  <2>1. a \in Addresses /\ hits[a] \in Nat
    BY Facts DEF IInv, TypeOK
  <2>2. /\ \A d \in Clients \ {c} : At(d, "window")' <=> At(d, "window")
        /\ ~At(c, "window")'
    BY <1>4 DEF IInv, TypeOK, Fail, Goto, At
  <2>3. CounterExpires'
    <3>1. faults' # 0
      BY <1>4 DEF IInv, TypeOK, Fail
    <3>. QED
      BY <3>1 DEF CounterExpires
  <2>4. CASE UNCHANGED <<hits, hitsLeft>>
    BY <2>2, <2>3, <2>4 DEF IInv, Opened, Tracker
  <2>5. CASE At(c, "count") /\ Counted(a) /\ UNCHANGED hitsLeft
    <3>1. hits'[a] > 0 /\ \A b \in Addresses \ {a} : hits'[b] = hits[b]
      BY <2>1, <2>5, Facts DEF IInv, TypeOK, Counted
    <3>. QED
      BY <2>1, <2>2, <2>3, <2>5, <3>1, Facts DEF IInv, Opened, Tracker
  <2>6. CASE At(c, "window") /\ hitsLeft' = [hitsLeft EXCEPT ![a] = Halves(Window)] /\ hits' = hits
    <3>1. hitsLeft'[a] = Halves(Window) /\ \A b \in Addresses \ {a} : hitsLeft'[b] = hitsLeft[b]
      BY <2>1, <2>6 DEF IInv, TypeOK
    <3>2. hits[a] > 0 /\ \A d \in Clients : At(d, "window")' => Tracker(d) # a
      BY <2>2, <2>6 DEF IInv, Opened
    <3>. QED
      BY <2>1, <2>2, <2>3, <2>6, <3>1, <3>2, Facts DEF IInv, Opened, Tracker
  <2>. QED
    BY <1>4, <2>3, <2>4, <2>5, <2>6 DEF Fail, keys
<1>5. CASE Tick
  <2>1. pc' = pc /\ faults' = faults
    BY <1>5 DEF Tick
  <2>2. \A a \in Addresses :
          /\ hitsLeft[a] = NoTtl => hitsLeft'[a] = NoTtl /\ hits'[a] = hits[a]
          /\ hits'[a] = 0 => hitsLeft'[a] = NoTtl
          /\ hits'[a] > 0 /\ hitsLeft'[a] = NoTtl => hits[a] > 0 /\ hitsLeft[a] = NoTtl
    <3> TAKE a \in Addresses
    <3>1. /\ hits'[a] = (IF hitsLeft[a] = 1 THEN 0 ELSE hits[a])
          /\ hitsLeft'[a] = (IF hitsLeft[a] \in {NoTtl, 1} THEN NoTtl ELSE hitsLeft[a] - 1)
      BY <1>5 DEF Tick
    <3>2. hitsLeft[a] = NoTtl \/ hitsLeft[a] \in 1..Halves(Window)
      BY DEF IInv, TypeOK
    <3>3. hits[a] = 0 => hitsLeft[a] = NoTtl
      BY DEF IInv, Opened
    <3>4. hitsLeft[a] \in 1..Halves(Window) => hitsLeft[a] # NoTtl /\ hitsLeft[a] - 1 # NoTtl
      BY Facts DEF Halves
    <3>. QED
      BY <3>1, <3>2, <3>3, <3>4, Facts DEF Halves
  <2>. QED
    BY <2>1, <2>2, Facts DEF IInv, Opened, CounterExpires, At, Tracker
<1>6. CASE UNCHANGED vars
  BY <1>6 DEF IInv, Opened, CounterExpires, At, Tracker, vars, keys
<1>. QED
  BY <1>1, <1>2, <1>3, <1>4, <1>5, <1>6 DEF Next, Request

LEMMA Invariance == Spec => []IInv
<1>1. IInv /\ [Next]_vars => IInv'
  BY TypeStep, SpacedStep, OpenedStep DEF IInv
<1>. QED
  BY InitInv, <1>1, PTL DEF Spec

(* Counters stay between 0 and Limit + 1, and keys that expire have at most
   their full time left. *)
THEOREM TypeCorrect == Spec => []TypeOK
<1>1. IInv => TypeOK
  BY DEF IInv
<1>. QED
  BY <1>1, Invariance, PTL

(* Requests get past the check Block seconds after one was let through, or half
   a second less, not sooner (redis-throttler-storage 27-36, 47-52). *)
THEOREM RequestsSpaced == Spec => []OneBurst
<1>1. IInv => OneBurst
  BY DEF IInv
<1>. QED
  BY <1>1, Invariance, PTL

(* Without a Redis failure a counter has an expiry or is about to get one
   (redis-throttler-storage 39-43). *)
THEOREM CountersExpire == Spec => []CounterExpires
<1>1. IInv => CounterExpires
  BY DEF IInv
<1>. QED
  BY <1>1, Invariance, PTL
=============================================================================

----------------------------- MODULE Throttler -----------------------------
(* Rate limiting: src/redis/redis-throttler-storage and
   src/common/guards/user-aware-throttler.guard, behind the guard of
   @nestjs/throttler, which refuses a request when the storage answers isBlocked
   and lets it through otherwise.

   One handler is modelled: the keys of different handlers share nothing.  A
   client sends one request after another; each await of increment is a step.
   Redis keys are kept as the time they have left, in half seconds, since TTL
   answers in whole seconds, rounded to the nearest; so the model runs for ever
   and there is no bound on time. *)
EXTENDS Naturals, FiniteSets

CONSTANTS
  Clients,    \* senders of requests, each with one in flight at a time
  Addresses,  \* client addresses
  Address,    \* the address each client sends from
  Limit,      \* RATE_LIMIT_LIMIT or the handler's @Throttle limit
  Window,     \* RATE_LIMIT_TTL, in seconds
  Block,      \* blockDuration, in seconds: Window unless configured, 0 for none
  MaxFaults,  \* bound: Redis calls that fail
  NoTtl       \* a key that exists and never expires

ASSUME ThrottlerAssumption ==
  /\ Address \in [Clients -> Addresses]
  /\ Limit \in Nat /\ Block \in Nat /\ MaxFaults \in Nat
  /\ Window \in Nat \ {0}
  /\ NoTtl \notin Nat

VARIABLES
  hits,       \* the counter of each tracker, up to Limit + 1 (0: no key)
  hitsLeft,   \* half seconds the counter's key has left, or NoTtl
  blockLeft,  \* half seconds the tracker's block key has left (0: no key)
  pc,         \* where each client's request stands
  since,      \* history: half seconds since a request was let through, up to a block
  gap,        \* history: since, when the client's request passed the check
  faults

keys == <<hits, hitsLeft, blockLeft>>
vars == <<keys, pc, since, gap, faults>>

Pcs == {"idle", "count", "window", "block"}

Halves(seconds) == 2 * seconds

(* The guard runs before the one that reads the token, so no request carries a
   user yet: a request is counted by its address. *)
Tracker(c) == Address[c]

At(c, l)   == pc[c] = l
Goto(c, l) == pc' = [pc EXCEPT ![c] = l]

Init ==
  /\ hits = [a \in Addresses |-> 0]
  /\ hitsLeft = [a \in Addresses |-> NoTtl]
  /\ blockLeft = [a \in Addresses |-> 0]
  /\ pc = [c \in Clients |-> "idle"]
  /\ since = [a \in Addresses |-> Halves(Block)]
  /\ gap = [c \in Clients |-> Halves(Block)]
  /\ faults = 0

----------------------------------------------------------------------------
(* Bug: a refused request renews the block. *)
Refuse_Renews(c) ==
  /\ At(c, "idle") /\ blockLeft[Tracker(c)] > 0
  /\ blockLeft' = [blockLeft EXCEPT ![Tracker(c)] = Halves(Block)]
  /\ UNCHANGED <<hits, hitsLeft, pc, since, gap, faults>>

(* TTL of the block key, rounded: a blocked request is refused and not counted,
   and with less than half a second left the key already answers 0.  blockLeft 1
   stands for any time up to half a second, so both answers are possible then. *)
Refuse(c) ==
  /\ At(c, "idle") /\ blockLeft[Tracker(c)] > 0
  /\ UNCHANGED vars

Pass(c) ==
  /\ At(c, "idle") /\ blockLeft[Tracker(c)] <= 1
  /\ gap' = [gap EXCEPT ![c] = since[Tracker(c)]]
  /\ Goto(c, "count")
  /\ UNCHANGED <<keys, since, faults>>

(* INCR: a new key has no expiry; the request that made it sets one. *)
Counted(a) == hits' = [hits EXCEPT ![a] = IF @ > Limit THEN @ ELSE @ + 1]

Count(c) ==
  /\ At(c, "count") /\ Counted(Tracker(c))
  /\ Goto(c, IF hits[Tracker(c)] = 0 THEN "window" ELSE "block")
  /\ UNCHANGED <<hitsLeft, blockLeft, since, gap, faults>>

(* Bug: the counter's expiry is never set. *)
SetWindow_Skipped(c) ==
  /\ At(c, "window") /\ Goto(c, "block")
  /\ UNCHANGED <<keys, since, gap, faults>>

(* EXPIRE of the counter, in seconds. *)
SetWindow(c) ==
  /\ At(c, "window")
  /\ hitsLeft' = [hitsLeft EXCEPT ![Tracker(c)] = Halves(Window)]
  /\ Goto(c, "block")
  /\ UNCHANGED <<hits, blockLeft, since, gap, faults>>

(* Bug: the block's milliseconds are rounded down to seconds. *)
SetBlock_RoundedDown(c) ==
  /\ At(c, "block") /\ Goto(c, "idle")
  /\ blockLeft' = [blockLeft EXCEPT ![Tracker(c)] = IF Block > 0 THEN Halves(Block - 1) ELSE @]
  /\ since' = [since EXCEPT ![Tracker(c)] = 0]
  /\ UNCHANGED <<hits, hitsLeft, gap, faults>>

(* The block key is set for every counted request, unless there is no block
   duration; the answer is isBlocked = false and the request is let through. *)
BlockSet(a) == blockLeft' = [blockLeft EXCEPT ![a] = IF Block > 0 THEN Halves(Block) ELSE @]

SetBlock(c) ==
  /\ At(c, "block") /\ Goto(c, "idle")
  /\ BlockSet(Tracker(c))
  /\ since' = [since EXCEPT ![Tracker(c)] = 0]
  /\ UNCHANGED <<hits, hitsLeft, gap, faults>>

(* A Redis call throws and the request fails, whether or not the call was
   carried out. *)
Fail(c) ==
  /\ pc[c] \in {"count", "window", "block"} /\ faults < MaxFaults
  /\ faults' = faults + 1
  /\ Goto(c, "idle")
  /\ \/ UNCHANGED <<keys, since>>
     \/ At(c, "count") /\ Counted(Tracker(c)) /\ UNCHANGED <<hitsLeft, blockLeft, since>>
     \/ /\ At(c, "window") /\ hitsLeft' = [hitsLeft EXCEPT ![Tracker(c)] = Halves(Window)]
        /\ UNCHANGED <<hits, blockLeft, since>>
     \/ /\ At(c, "block") /\ BlockSet(Tracker(c))
        /\ UNCHANGED <<hits, hitsLeft, since>>
  /\ UNCHANGED gap

(* Half a second passes; keys whose time is over are gone. *)
Tick ==
  /\ blockLeft' = [a \in Addresses |-> IF blockLeft[a] > 0 THEN blockLeft[a] - 1 ELSE 0]
  /\ since' = [a \in Addresses |-> IF since[a] < Halves(Block) THEN since[a] + 1 ELSE Halves(Block)]
  /\ hits' = [a \in Addresses |-> IF hitsLeft[a] = 1 THEN 0 ELSE hits[a]]
  /\ hitsLeft' = [a \in Addresses |->
       IF hitsLeft[a] \in {NoTtl, 1} THEN NoTtl ELSE hitsLeft[a] - 1]
  /\ UNCHANGED <<pc, gap, faults>>

Request(c) == Refuse(c) \/ Pass(c) \/ Count(c) \/ SetWindow(c) \/ SetBlock(c)

Next == Tick \/ \E c \in Clients : Request(c) \/ Fail(c)

Spec == Init /\ [][Next]_vars

(* Time passes, and a request that was begun is finished. *)
Fairness == WF_vars(Tick) /\ \A c \in Clients : WF_vars(Count(c) \/ SetWindow(c) \/ SetBlock(c))

FairSpec == Spec /\ Fairness

----------------------------------------------------------------------------
(* TypeOK: counters stay between 0 and Limit + 1, and keys that expire have at
   most their full time left. *)
TypeOK ==
  /\ hits \in [Addresses -> 0..(Limit + 1)]
  /\ hitsLeft \in [Addresses -> 1..Halves(Window) \cup {NoTtl}]
  /\ blockLeft \in [Addresses -> 0..Halves(Block)]
  /\ pc \in [Clients -> Pcs]
  /\ since \in [Addresses -> 0..Halves(Block)]
  /\ gap \in [Clients -> 0..Halves(Block)]
  /\ faults \in 0..MaxFaults

(* OneBurst: a request gets past the check only when Block seconds, less the
   half that TTL's rounding may take off, have gone by since a request from its
   address, of whatever user, was last let through; only requests that overtake
   each other inside increment share a block.
   (redis-throttler-storage 27-36, 47-52) *)
OneBurst == \A c \in Clients : pc[c] # "idle" => gap[c] >= Halves(Block) - 1

(* CounterExpires: a counter without an expiry is about to get one, unless a
   Redis call has failed. (redis-throttler-storage 39-43) *)
CounterExpires ==
  \A a \in Addresses :
    /\ hits[a] > 0 /\ hitsLeft[a] = NoTtl /\ faults = 0
    => \E c \in Clients : Tracker(c) = a /\ At(c, "window")

(* BlocksEnd: however many requests an address goes on sending, its block
   comes, again and again, to where TTL answers 0 and a request is let through.
   (redis-throttler-storage 28-36, 48-52) *)
BlocksEnd == \A a \in Addresses : []<>(blockLeft[a] <= 1)

(* BlockMeansOverLimit: the block key is set when the counter is over the
   limit.  (redis-throttler-storage 47: "If over limit, set block key") *)
BlockMeansOverLimit ==
  [][\A a \in Addresses : blockLeft'[a] > blockLeft[a] => hits[a] > Limit]_vars
============================================================================

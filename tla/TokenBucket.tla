---------------------------- MODULE TokenBucket ----------------------------
(***************************************************************************)
(* One firm's rate-limit bucket and the requests that spend from it.       *)
(*                                                                         *)
(* A request reads its clock and its tier first and gets the row's lock    *)
(* later: requests of several processes reach the row in another order     *)
(* than that of their clocks, and with a tier that has changed since.  A   *)
(* tier has its capacity and its refill rate, and an override may set      *)
(* either of them, so a change of tier may change one or both.             *)
(*                                                                         *)
(* Time is in the least interval told apart and tokens in what the least   *)
(* rate refills in it, of which a request costs Cost.                      *)
(***************************************************************************)
EXTENDS Integers

CONSTANTS
  Arrivals,  \* bound: the requests of the firm, in any order
  Tiers,     \* the limits the firm may have
  Cost,      \* what a request spends
  MaxClock   \* bound: how long the model runs

ASSUME TokenBucketAssumption ==
  /\ Tiers \subseteq [capacity : Nat \ {0}, rate : Nat \ {0}] /\ Tiers # {}
  /\ Cost \in Nat \ {0} /\ MaxClock \in Nat

VARIABLES
  clock,    \* real time
  tier,     \* the limits of the firm
  bucket,   \* the row of rate_limit_buckets; created on the first request
  arrival,  \* per request: its now, its snapshot of the tier and (history) what
            \* had been earned by then
  changed,  \* history: the firm has had more than one tier
  earned,   \* history: tokens worth the time so far, at the tier of each moment
  origin,   \* history: what was earned when the row was created
  stamped,  \* history: what was earned at last_refill_at
  spent,    \* history: tokens of the requests let through
  granted,  \* history: tokens the bucket was given at once
  rewound,  \* history: tokens of the times last_refill_at was set back over
  repriced  \* history: what refills paid for past time above its own rate

historyVars == <<changed, earned, origin, stamped, spent, granted, rewound, repriced>>
bucketVars == <<clock, tier, bucket, arrival, historyVars>>

Least(a, b) == IF a <= b THEN a ELSE b

\* What a is beyond b.
Excess(a, b) == IF a > b THEN a - b ELSE 0

NoBucket == [exists |-> FALSE, capacity |-> 0, rate |-> 0, tokens |-> 0, lastRefill |-> 0]
FullBucket(limits, now) ==
  [exists |-> TRUE, capacity |-> limits.capacity, rate |-> limits.rate,
   tokens |-> limits.capacity, lastRefill |-> now]

Waiting(pc, now, limits, worth) == [pc |-> pc, now |-> now, tier |-> limits, earned |-> worth]

BucketInit ==
  /\ clock = 0
  /\ tier \in Tiers
  /\ bucket = NoBucket
  /\ arrival = [r \in Arrivals |-> Waiting("new", 0, tier, 0)]
  /\ changed = FALSE
  /\ earned = 0 /\ origin = 0 /\ stamped = 0
  /\ spent = 0 /\ granted = 0 /\ rewound = 0 /\ repriced = 0

Tick ==
  /\ clock < MaxClock
  /\ clock' = clock + 1
  /\ earned' = earned + tier.rate
  /\ UNCHANGED <<tier, bucket, arrival, changed, origin, stamped, spent, granted, rewound, repriced>>

ChangeTier(limits) ==
  /\ tier' = limits
  /\ changed' = (changed \/ limits # tier)
  /\ UNCHANGED <<clock, bucket, arrival, earned, origin, stamped, spent, granted, rewound, repriced>>

\* applyRateLimit's caller takes the time, and resolves the tier.
Arrive(r) ==
  /\ arrival[r].pc = "new"
  /\ arrival' = [arrival EXCEPT ![r] = Waiting("consume", clock, tier, earned)]
  /\ UNCHANGED <<clock, tier, bucket, historyVars>>

\* refillTokens: a clock that runs backwards counts as no time.
RefillEitherWay(b, now) ==                                                     \* mutation
  Least(b.tokens + b.rate * (now - b.lastRefill), b.capacity)
Refill(b, now) == Least(b.tokens + b.rate * Excess(now, b.lastRefill), b.capacity)

\* reconcileTier: an upgrade adds the difference, a downgrade clamps.  The rate
\* is the new one from here on, for the time since last_refill_at too.
ResetToFull(b, limits) == FullBucket(limits, b.lastRefill)                      \* mutation
ReconcileTier(b, limits) ==
  [b EXCEPT !.capacity = limits.capacity,
            !.rate = limits.rate,
            !.tokens = Least(@ + Excess(limits.capacity, b.capacity), limits.capacity)]

\* consumeBucket, a transaction under the row's lock: create, reconcile, refill,
\* spend the cost if it is there, and stamp last_refill_at with the request's
\* own time.  What the time since the last stamp was worth is what was earned
\* since: less than nothing where the stamp goes back.
ConsumeBucket(r) ==
  LET now == arrival[r].now
      limits == arrival[r].tier
      old == IF bucket.exists THEN bucket ELSE FullBucket(limits, now)
      new == ReconcileTier(old, limits)
      refilled == Refill(new, now)
      left == IF refilled >= Cost THEN refilled - Cost ELSE refilled
      since == IF bucket.exists THEN stamped ELSE arrival[r].earned
      paid == limits.rate * Excess(now, old.lastRefill)
      given == (IF bucket.exists THEN 0 ELSE old.tokens) + Excess(limits.capacity, old.capacity)
  IN /\ arrival[r].pc = "consume"
     /\ bucket' = [new EXCEPT !.tokens = left, !.lastRefill = now]
     /\ arrival' = [arrival EXCEPT ![r].pc = "done"]
     /\ spent' = spent + (refilled - left)
     /\ granted' = granted + given
     /\ rewound' = rewound + Excess(since, arrival[r].earned)
     /\ repriced' = repriced + Excess(paid, Excess(arrival[r].earned, since))
     /\ stamped' = arrival[r].earned
     /\ origin' = IF bucket.exists THEN origin ELSE arrival[r].earned
     /\ UNCHANGED <<clock, tier, changed, earned>>

BucketNext ==
  \/ Tick
  \/ \E limits \in Tiers : ChangeTier(limits)
  \/ \E r \in Arrivals : Arrive(r) \/ ConsumeBucket(r)

BucketSpec == BucketInit /\ [][BucketNext]_bucketVars

-----------------------------------------------------------------------------
BucketRow == [exists : BOOLEAN, capacity : Nat, rate : Nat, tokens : Nat, lastRefill : Nat]

TokenBucketTypeOK ==
  /\ clock \in Nat /\ tier \in Tiers
  /\ bucket \in BucketRow
  /\ arrival \in [Arrivals -> [pc : {"new", "consume", "done"}, now : Nat, tier : Tiers, earned : Nat]]
  /\ changed \in BOOLEAN
  /\ earned \in Nat /\ origin \in Nat /\ stamped \in Nat
  /\ spent \in Nat /\ granted \in Nat /\ rewound \in Nat /\ repriced \in Nat

\* What was let through is paid for by what the bucket was given, by what the
\* time since its creation earned at the tier of each moment, and by two more:
\* requests out of order set last_refill_at back, and that time refills twice;
\* and a change of tier sets the rate for the time since last_refill_at as well,
\* which then pays more than it earned.  A firm that keeps its tier has none of
\* the latter, and the row never holds more than its capacity.
SpendIsFunded ==
  /\ spent + bucket.tokens <= granted + (earned - origin) + rewound + repriced
  /\ ~changed => repriced = 0
  /\ bucket.tokens <= bucket.capacity
=============================================================================

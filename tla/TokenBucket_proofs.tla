-------------------------- MODULE TokenBucket_proofs --------------------------
(***************************************************************************)
(* The bounds of the token bucket, for any number of threads, any rate and *)
(* burst, and any interval.                                                *)
(***************************************************************************)
EXTENDS TokenBucket, TLAPS

(* Burst commands fill the bucket, at least one.                           *)
LEMMA CapacityHoldsOne == Capacity \in Nat /\ Capacity >= Period
<1>1. PICK k \in Nat : Burst = k + 1
  BY BucketAssumption
<1>2. Capacity = k * Period + Period /\ k * Period \in Nat
  BY <1>1, BucketAssumption DEF Capacity
<1> QED
  BY <1>2, BucketAssumption

(* A refill is an integer no larger than the bucket, nor than what passed. *)
LEMMA RefillBounds ==
  ASSUME NEW now \in Int, tokens_ \in Int, last_ \in Int
  PROVE  /\ Refill(now) \in Int
         /\ Refill(now) <= Capacity
         /\ Refill(now) - now <= tokens_ - last_
         /\ Refill(now) = Capacity \/ Refill(now) - now = tokens_ - last_
  BY CapacityHoldsOne DEF Refill

(* The type invariant: the clock, the stamps and the bucket stay in their  *)
(* sets whichever thread overtakes which.                                  *)
THEOREM BucketTypeCorrect == Spec => []BucketType
<1>1. Init => BucketType
  BY BucketAssumption, CapacityHoldsOne DEF Init, BucketType, Times, NoStamp
<1>2. BucketType /\ [Next]_vars => BucketType'
  <2> SUFFICES ASSUME BucketType, [Next]_vars PROVE BucketType'
    OBVIOUS
  <2>1. CASE Tick
    BY <2>1, BucketAssumption DEF Tick, BucketType, Times
  <2>2. ASSUME NEW t \in Threads, try_acquire(t) PROVE BucketType'
    BY <2>2 DEF try_acquire, BucketType
  <2>3. ASSUME NEW t \in Threads, try_acquire_locked(t) PROVE BucketType'
    <3>1. stamp[t] \in Times /\ stamp[t] \in Int
      BY <2>3 DEF try_acquire_locked, BucketType, NoStamp, Times
    <3>2. Refill(stamp[t]) \in Int
      BY <3>1, RefillBounds DEF BucketType, Times
    <3>3. tokens_' \in Int /\ last_' \in Times /\ latest' \in Times /\ spent' \in Nat
      BY <2>3, <3>1, <3>2, BucketAssumption
      DEF try_acquire_locked, BucketType, LastStamp, Later
    <3> QED
      BY <2>3, <3>3 DEF try_acquire_locked, BucketType
  <2>4. CASE UNCHANGED vars
    BY <2>4 DEF vars, BucketType
  <2> QED
    BY <2>1, <2>2, <2>3, <2>4 DEF Next
<1> QED
  BY <1>1, <1>2, PTL DEF Spec

(* A call that is granted or refused keeps the invariant.                  *)
LEMMA AcquireKeepsInv ==
  ASSUME BucketType, BucketInv, NEW t \in Threads, try_acquire_locked(t)
  PROVE  BucketInv'
<1> DEFINE now == stamp[t]
           refilled == Refill(now)
<1>1. now \in Int /\ now \in Times
  BY DEF try_acquire_locked, BucketType, NoStamp, Times
<1>2. /\ tokens_ \in Int /\ last_ \in Int /\ latest \in Int /\ spent \in Int /\ spent >= 0
      /\ window.from \in Int /\ window.to \in Int /\ window.from <= window.to
      /\ Capacity \in Int /\ Period \in Int /\ Period > 0 /\ Capacity >= Period
  BY CapacityHoldsOne, BucketAssumption DEF BucketType, Times
<1>3. /\ refilled \in Int /\ refilled <= Capacity /\ refilled - now <= tokens_ - last_
      /\ refilled = Capacity \/ refilled - now = tokens_ - last_
  BY <1>1, <1>2, RefillBounds
<1>4. latest' >= latest /\ latest' >= now /\ latest' \in Int
  BY <1>1, <1>2 DEF try_acquire_locked, Later
<1>5. last_' = now /\ window' = window
  BY DEF try_acquire_locked, LastStamp
<1>6. CASE refilled >= Period
  <2>1. tokens_' = refilled - Period
    BY <1>6 DEF try_acquire_locked
  <2>2. CASE window.from <= now /\ now <= window.to
    <3>1. spent' = spent + Period
      BY <1>6, <2>2 DEF try_acquire_locked
    <3>2. spent' + tokens_' - last_' <= Capacity - window.from
      BY <1>1, <1>2, <1>3, <1>5, <2>1, <2>2, <3>1 DEF BucketInv
    <3>3. spent' <= Capacity + (window.to - window.from)
      BY <1>1, <1>2, <1>3, <1>5, <1>6, <2>1, <2>2, <3>1, <3>2
    <3> QED
      BY <1>1, <1>2, <1>3, <1>4, <1>5, <1>6, <2>1, <3>2, <3>3, CapacityHoldsOne
      DEF BucketInv, RateBounded, Capacity
  <2>3. CASE ~(window.from <= now /\ now <= window.to)
    <3>1. spent' = spent
      BY <2>3 DEF try_acquire_locked
    <3> QED
      BY <1>1, <1>2, <1>3, <1>4, <1>5, <1>6, <2>1, <3>1 DEF BucketInv, RateBounded, Capacity
  <2> QED
    BY <2>2, <2>3
<1>7. CASE ~(refilled >= Period)
  <2>1. tokens_' = refilled /\ spent' = spent
    BY <1>7 DEF try_acquire_locked
  <2> QED
    BY <1>1, <1>2, <1>3, <1>4, <1>5, <2>1 DEF BucketInv, RateBounded, Capacity
<1> QED
  BY <1>6, <1>7

(* BucketInv is an invariant.                                              *)
THEOREM BucketInvariant == Spec => []BucketInv
<1>1. Init => BucketInv
  BY BucketAssumption, CapacityHoldsOne DEF Init, BucketInv, RateBounded, Times
<1>2. BucketType /\ BucketInv /\ [Next]_vars => BucketInv'
  <2> SUFFICES ASSUME BucketType, BucketInv, [Next]_vars PROVE BucketInv'
    OBVIOUS
  <2>1. CASE Tick
    BY <2>1 DEF Tick, BucketInv, RateBounded, Capacity
  <2>2. ASSUME NEW t \in Threads, try_acquire(t) PROVE BucketInv'
    BY <2>2 DEF try_acquire, BucketInv, RateBounded, Capacity
  <2>3. ASSUME NEW t \in Threads, try_acquire_locked(t) PROVE BucketInv'
    BY <2>3, AcquireKeepsInv
  <2>4. CASE UNCHANGED vars
    BY <2>4 DEF vars, BucketInv, RateBounded, Capacity
  <2> QED
    BY <2>1, <2>2, <2>3, <2>4 DEF Next
<1> QED
  BY <1>1, <1>2, BucketTypeCorrect, PTL DEF Spec

(* In any interval the commands granted by CmdVel's bucket are at most the *)
(* burst and what the rate allows in its length.                           *)
THEOREM RateAlwaysBounded == Spec => []RateBounded
<1>1. BucketInv => RateBounded
  BY DEF BucketInv
<1> QED
  BY <1>1, BucketInvariant, PTL

(* A command a period after all others is granted.                         *)
THEOREM SpacedAlwaysGranted == Spec => []SpacedIsGranted
<1>1. BucketType /\ BucketInv => SpacedIsGranted
  BY CapacityHoldsOne, BucketAssumption
  DEF BucketType, BucketInv, SpacedIsGranted, Refill, Times
<1> QED
  BY <1>1, BucketTypeCorrect, BucketInvariant, PTL
=============================================================================

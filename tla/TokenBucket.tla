----------------------------- MODULE TokenBucket -----------------------------
(***************************************************************************)
(* The limit on velocity commands (src/src/rate_limiter.cpp, used by       *)
(* RobotImpl::CmdVel).  try_acquire reads the clock and only then takes    *)
(* the lock: threads that call CmdVel at the same time reach the bucket in *)
(* another order than that of their stamps, so that the time elapsed since *)
(* the last call may be negative.                                          *)
(*                                                                         *)
(* Time is counted in ticks, and so are tokens: one command costs Period   *)
(* ticks, the inverse of max_hz_, and Burst commands fit in the bucket.    *)
(* In these units elapsed * max_hz_ is the elapsed time, and the arithmetic*)
(* is exact (the code allows for rounding errors with kEpsilon).           *)
(***************************************************************************)
EXTENDS Integers

CONSTANTS
  Threads,
  Period,    \* ticks for one token: 1 / max_hz_
  Burst,     \* burst_, in commands
  MaxTime    \* bound: ticks of the clock

ASSUME BucketAssumption ==
  /\ Period \in Nat \ {0} /\ Burst \in Nat \ {0} /\ MaxTime \in Nat

Capacity == Burst * Period
Times == 0 .. MaxTime
NoStamp == -1

VARIABLES
  clock,
  stamp,     \* the time each thread has read, on its way to the lock
  tokens_, last_,
  latest,    \* history: the latest stamp that reached the bucket
  window,    \* any interval of time, fixed from the start
  spent      \* history: ticks paid by commands stamped in that interval

vars == <<clock, stamp, tokens_, last_, latest, window, spent>>

Tick ==
  /\ clock < MaxTime /\ clock' = clock + 1
  /\ UNCHANGED <<stamp, tokens_, last_, latest, window, spent>>

(* try_acquire: the clock is read before the lock is taken.                *)
try_acquire(t) ==
  /\ stamp[t] = NoStamp /\ stamp' = [stamp EXCEPT ![t] = clock]
  /\ UNCHANGED <<clock, tokens_, last_, latest, window, spent>>

(* Mutant: the bucket is refilled without a limit.                         *)
RefillUnlimited(now) == tokens_ + (now - last_)

Refill(now) ==
  IF tokens_ + (now - last_) < Capacity THEN tokens_ + (now - last_) ELSE Capacity

(* Mutant: a late stamp does not turn back last_, but is paid for.         *)
LastForgets(now) == IF now > last_ THEN now ELSE last_
LastStamp(now) == now

Later(a, b) == IF a > b THEN a ELSE b

(* try_acquire_locked: refill, stamp, and grant or refuse.                 *)
try_acquire_locked(t) ==
  LET now == stamp[t]
      refilled == Refill(now)
      granted == refilled >= Period
  IN
  /\ now # NoStamp
  /\ tokens_' = IF granted THEN refilled - Period ELSE refilled
  /\ last_' = LastStamp(now)
  /\ stamp' = [stamp EXCEPT ![t] = NoStamp]
  /\ latest' = Later(latest, now)
  /\ spent' = IF granted /\ window.from <= now /\ now <= window.to THEN spent + Period ELSE spent
  /\ UNCHANGED <<clock, window>>

Init ==
  /\ clock = 0 /\ stamp = [t \in Threads |-> NoStamp]
  /\ tokens_ = Capacity /\ last_ = 0 /\ latest = 0
  /\ window \in [from : Times, to : Times] /\ window.from <= window.to
  /\ spent = 0
Next == Tick \/ \E t \in Threads : try_acquire(t) \/ try_acquire_locked(t)
Spec == Init /\ [][Next]_vars

-----------------------------------------------------------------------------
(* Every variable has its type.                                            *)
BucketType ==
  /\ clock \in Times /\ stamp \in [Threads -> Times \cup {NoStamp}]
  /\ tokens_ \in Int /\ last_ \in Times /\ latest \in Times
  /\ window \in [from : Times, to : Times] /\ window.from <= window.to
  /\ spent \in Nat

(* In any interval the commands granted are at most the burst and what     *)
(* max_hz_ allows in its length, counting a command at the time its thread *)
(* read the clock, however the threads overtake each other.                *)
RateBounded == spent <= Capacity + (window.to - window.from)

(* Nobody is starved by refused calls or by late stamps: a command stamped *)
(* a period after every other one is granted.                              *)
SpacedIsGranted == \A now \in Times : now >= latest + Period => Refill(now) >= Period

(* The inductive invariant of both.  tokens_ - last_ never grows: a refill *)
(* adds the time that passed to both, or less.  A command in the interval  *)
(* brings it to Capacity - window.from, less what was paid since.          *)
BucketInv ==
  /\ tokens_ <= Capacity
  /\ tokens_ - last_ >= -latest
  /\ spent > 0 => spent + tokens_ - last_ <= Capacity - window.from
  /\ RateBounded
=============================================================================

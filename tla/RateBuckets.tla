----------------------------- MODULE RateBuckets -----------------------------
(***************************************************************************)
(* The rate at which frames were received in the last minute               *)
(* (SlideHzBuckets, DeliverPushToSub and GetDiagnostics in                 *)
(* src/src/robot_impl.cpp): a ring of counters, one for each second of the *)
(* system clock, of which those of seconds that passed without a frame are *)
(* cleared when the ring is next used.  The system clock may be set back.  *)
(***************************************************************************)
EXTENDS Integers

CONSTANTS
  Buckets,     \* 60 in the code
  MaxClock,    \* bound: the last second of the clock
  MaxFrames    \* bound: frames in one second

ASSUME BucketsAssumption == Buckets \in Nat \ {0}
ASSUME BoundsAssumption == MaxClock \in Nat \ {0} /\ MaxFrames \in Nat

Slots == 0 .. Buckets - 1
Seconds == 1 .. MaxClock

VARIABLES
  now,         \* the second the system clock shows
  slot,        \* SubSlot's hz_bucket_epoch_ms, in seconds (0: never used), and hz_buckets
  seen,        \* history: the frames received in each second, as the clock has it now
  setBackTo    \* history: the second of the last use that found the clock set back
bucketVars == <<now, slot, seen, setBackTo>>

Empty == [sec |-> 0, hz_buckets |-> [i \in Slots |-> 0]]

(* Before the clock was ever set back.                                     *)
Never == -Buckets

-----------------------------------------------------------------------------
(* Mutant: the seconds between the last use and now are not cleared.       *)
ClearedLast(sec, gap) == {(sec + gap) % Buckets}

(* The counters of the gap seconds after sec.                              *)
Cleared(sec, gap) == {(sec + i) % Buckets : i \in 1 .. gap}

SlideHzBuckets ==
  LET gap == IF now - slot.sec > Buckets THEN Buckets ELSE now - slot.sec IN
  CASE now = slot.sec -> slot
    [] now # slot.sec /\ slot.sec = 0 -> [slot EXCEPT !.sec = now]
    [] OTHER -> [sec |-> now,
                 hz_buckets |-> [i \in Slots |-> IF i \in Cleared(slot.sec, gap) THEN 0
                                                 ELSE slot.hz_buckets[i]]]

(* The frames seen, when a use finds the clock set back: the seconds after *)
(* now are still to come.                                                  *)
SeenAt == IF now < slot.sec THEN [s \in Seconds |-> IF s > now THEN 0 ELSE seen[s]] ELSE seen
SetBackAt == IF now < slot.sec THEN now ELSE setBackTo

DeliverPushToSub ==
  /\ SeenAt[now] < MaxFrames
  /\ slot' = [SlideHzBuckets EXCEPT !.hz_buckets[now % Buckets] = @ + 1]
  /\ seen' = [SeenAt EXCEPT ![now] = @ + 1]
  /\ setBackTo' = SetBackAt
  /\ UNCHANGED now

(* What GetDiagnostics then sums up and divides by the number of seconds   *)
(* is slot'.hz_buckets.                                                    *)
GetDiagnostics ==
  /\ slot' = SlideHzBuckets
  /\ seen' = SeenAt
  /\ setBackTo' = SetBackAt
  /\ UNCHANGED now

(* The clock goes on, jumps, or is set back.                               *)
ClockMoves == now' \in Seconds /\ UNCHANGED <<slot, seen, setBackTo>>

BucketsInit ==
  /\ now = 1
  /\ slot = Empty
  /\ seen = [s \in Seconds |-> 0]
  /\ setBackTo = Never
BucketsNext == DeliverPushToSub \/ GetDiagnostics \/ ClockMoves
BucketsSpec == BucketsInit /\ [][BucketsNext]_bucketVars

-----------------------------------------------------------------------------
Received(s) == IF s \in Seconds THEN seen[s] ELSE 0

(* Types of the state, and no frame of a second that is still to come.     *)
BucketsTyped ==
  /\ now \in Seconds
  /\ slot \in [sec : 0 .. MaxClock, hz_buckets : [Slots -> Nat]]
  /\ seen \in [Seconds -> Nat]
  /\ setBackTo \in Seconds \cup {Never} /\ setBackTo <= slot.sec
  /\ \A s \in Seconds : s > slot.sec => seen[s] = 0

(* The counters of the seconds of the window after the one the clock was   *)
(* set back to are right; of that one and of earlier ones they may not be. *)
CountersRight ==
  \A s \in slot.sec - Buckets + 1 .. slot.sec :
    s > setBackTo => slot.hz_buckets[s % Buckets] = Received(s)

(* What GetDiagnostics sums up are the frames of the last minute, none     *)
(* forgotten and no older one left over, whatever the gaps between the     *)
(* uses; after a use that found the clock set back that is true again once *)
(* the clock is a minute past the second it was set back to.               *)
WindowExact ==
  slot.sec - setBackTo >= Buckets =>
    \A s \in slot.sec - Buckets + 1 .. slot.sec : slot.hz_buckets[s % Buckets] = Received(s)
=============================================================================

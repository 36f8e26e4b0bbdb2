------------------------------- MODULE Backoff -------------------------------
(***************************************************************************)
(* The delay before a connection is made again (NextBackoff in             *)
(* src/src/robot_impl.cpp), in milliseconds.  The jitter ratio and the     *)
(* random number are in hundredths, which stand for the doubles of the     *)
(* code; the result is truncated as in the code.                           *)
(***************************************************************************)
EXTENDS Integers

(* What ValidateOpts demands of the options.                               *)
ValidBackoff(base, max, jitter) == max >= base /\ jitter \in 0 .. 100

AtMost(a, b) == IF a < b THEN a ELSE b
AtLeast(a, b) == IF a < b THEN b ELSE a

(* Mutant: doubled once more than there were attempts.                     *)
ExpDelayLate(base, max, attempt) ==
  LET exp[i \in Nat] ==
        IF i = 0 THEN 2 * base ELSE IF exp[i - 1] < max THEN 2 * exp[i - 1] ELSE exp[i - 1]
  IN AtMost(exp[attempt], max)

(* The loop: doubled for every attempt while below the maximum; the cap.   *)
ExpDelay(base, max, attempt) ==
  LET exp[i \in Nat] ==
        IF i = 0 THEN base ELSE IF exp[i - 1] < max THEN 2 * exp[i - 1] ELSE exp[i - 1]
  IN AtMost(exp[attempt], max)

(* random is in 0 .. 99.                                                   *)
NextBackoff(base, max, jitter, attempt, random) ==
  LET exp == ExpDelay(base, max, attempt)
      jr == AtLeast(5, jitter)
  IN AtLeast(0, exp * (10000 - jr * random)) \div 10000
=============================================================================

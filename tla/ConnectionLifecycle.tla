------------------------ MODULE ConnectionLifecycle ------------------------
(***************************************************************************)
(* What a Robot promises of its connection, seen from outside: the states  *)
(* of API.md ("ConnectionState"), the limit on reconnect attempts, and the *)
(* emergency stop that is confirmed again before a new connection is used. *)
(* RobotSession implements it.  A failed attempt to connect is one step.   *)
(***************************************************************************)
EXTENDS Integers

CONSTANT MaxAttempts   \* reconnect_max_attempts; -1 is no limit

VARIABLES state,       \* ConnectionState
          attempt,     \* attempts spent on the current outage
          intent,      \* the emergency stop the user last achieved
          confirmed    \* the robot confirmed it on the current connection

lifecycleVars == <<state, attempt, intent, confirmed>>

Terminal == {"Shutdown", "Fatal"}
Allowed(n) == MaxAttempts >= 0 => n <= MaxAttempts

Init == state = "Idle" /\ attempt = 0 /\ intent = "None" /\ confirmed = FALSE

(* The attempt under way: the first one is not counted.                    *)
Attempt(n) ==
  \/ state = "Idle" /\ n = attempt
  \/ state = "TransientFailure" /\ n = attempt + 1 /\ Allowed(n)

(* A connection is made; nothing is confirmed on it yet.                   *)
Begin ==
  /\ Attempt(attempt')
  /\ state' = IF state = "Idle" THEN "Connecting" ELSE "Reconnecting"
  /\ confirmed' = FALSE /\ UNCHANGED intent

(* It becomes usable, which an engaged stop allows only once confirmed.    *)
Up ==
  /\ state \in {"Connecting", "Reconnecting"} /\ state' = "Ready" /\ attempt' = 0
  /\ confirmed' \in {confirmed, TRUE} /\ UNCHANGED intent
  /\ intent = "Engaged" => confirmed'

(* It is lost, or could not be made, and there is an attempt left.         *)
Fail ==
  /\ state \notin Terminal /\ state' = "TransientFailure"
  /\ Attempt(attempt') \/ attempt' = attempt
  /\ Allowed(attempt' + 1)
  /\ UNCHANGED <<intent, confirmed>>

(* Credentials are refused, or no attempt is left.                         *)
GiveUp ==
  /\ state \notin Terminal /\ state' = "Fatal"
  /\ Attempt(attempt') \/ attempt' = attempt
  /\ UNCHANGED <<intent, confirmed>>

(* The robot confirms an engage or a release of the user, or the replay.   *)
EmergencyStop ==
  /\ \/ state = "Ready" /\ intent' \in {"Engaged", "None"} /\ confirmed' = (intent' = "Engaged")
     \/ state = "Reconnecting" /\ confirmed' = TRUE /\ UNCHANGED intent
  /\ UNCHANGED <<state, attempt>>

Shut == state # "Shutdown" /\ state' = "Shutdown" /\ UNCHANGED <<attempt, intent, confirmed>>

Next == Begin \/ Up \/ Fail \/ GiveUp \/ EmergencyStop \/ Shut

Spec == Init /\ [][Next]_lifecycleVars
=============================================================================

-------------------------------- MODULE Socket --------------------------------
(***************************************************************************)
(* What a WsClient promises its owner (src/src/ws_client.hpp): it opens    *)
(* once, takes messages in the order it accepted them, gives each Send one *)
(* true answer, ends once, reports that end at most once, and calls        *)
(* nothing back before it was open or after it is gone.  Threads, handlers *)
(* and deadlines are not seen.  WsClient implements it.                    *)
(***************************************************************************)
EXTENDS Integers

CONSTANT MaxMsgs       \* bound: messages

VARIABLES phase,       \* "new", "open", "shut" or "gone" (destroyed)
          accepted,    \* messages 1 .. accepted were accepted,
          taken,       \* of which the network took 1 .. taken
          answers,     \* what Send told its caller of each message; "none" before
          delivered,   \* messages handed to on_message
          late,        \* of which after on_close was called
          reports      \* calls of on_close

socketVars == <<phase, accepted, taken, answers, delivered, late, reports>>

Msgs == 1 .. MaxMsgs
InUse == phase \in {"open", "shut"}

Init ==
  /\ phase = "new" /\ accepted = 0 /\ taken = 0 /\ answers = [m \in Msgs |-> "none"]
  /\ delivered = 0 /\ late = 0 /\ reports = 0

Open ==
  /\ phase = "new" /\ phase' = "open"
  /\ UNCHANGED <<accepted, taken, answers, delivered, late, reports>>

Accept ==
  /\ phase = "open" /\ accepted < MaxMsgs /\ accepted' = accepted + 1
  /\ UNCHANGED <<phase, taken, answers, delivered, late, reports>>

(* The next message goes out, unless its sender was told that it did not.  *)
Take ==
  /\ InUse /\ taken < accepted /\ answers[taken + 1] # "TransportFailure"
  /\ taken' = taken + 1
  /\ UNCHANGED <<phase, accepted, answers, delivered, late, reports>>

(* An answer is given once, and is true: "ok" of a message that went out,  *)
(* "TransportFailure" of one that did not.  Of several messages at a time, *)
(* when those still queued fail.                                           *)
Answers ==
  /\ answers' \in [Msgs -> {"none", "ok", "Timeout", "TransportFailure"}]
  /\ \A m \in Msgs : answers'[m] # answers[m] =>
       /\ answers[m] = "none" /\ m <= accepted
       /\ answers'[m] = "ok" => m <= taken
       /\ answers'[m] = "TransportFailure" => m > taken
Answer ==
  /\ InUse /\ Answers
  /\ UNCHANGED <<phase, accepted, taken, delivered, late, reports>>

(* One message at most comes after the report: the one that was being read.*)
Deliver ==
  /\ InUse /\ delivered' = delivered + 1
  /\ \/ reports = 0 /\ UNCHANGED late
     \/ reports = 1 /\ late = 0 /\ late' = 1
  /\ UNCHANGED <<phase, accepted, taken, answers, reports>>

End ==
  /\ phase = "open" /\ phase' = "shut"
  /\ UNCHANGED <<accepted, taken, answers, delivered, late, reports>>

(* on_close; what was still queued may fail in the same step.              *)
Report ==
  /\ phase = "shut" /\ reports = 0 /\ reports' = 1
  /\ Answers
  /\ UNCHANGED <<phase, accepted, taken, delivered, late>>

(* The destructor is over.                                                 *)
Vanish ==
  /\ phase \in {"new", "shut"} /\ phase' = "gone"
  /\ UNCHANGED <<accepted, taken, answers, delivered, late, reports>>

Next == Open \/ Accept \/ Take \/ Answer \/ Deliver \/ End \/ Report \/ Vanish
Spec == Init /\ [][Next]_socketVars
=============================================================================

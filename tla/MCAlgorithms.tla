---------------------------- MODULE MCAlgorithms ----------------------------
(***************************************************************************)
(* The SDK's pure functions against reference definitions: a step picks an *)
(* input.  Besides them the ring of counters, which runs on its own.       *)
(***************************************************************************)
EXTENDS Integers, WireFormat, Backoff, RateBuckets

CONSTANTS
  Ids, Codes, Stamps,   \* request ids, error codes, times and sequence numbers
  Texts,                \* strings, NoText among them or not
  Delays,               \* delays in milliseconds
  Percents,             \* jitter ratios and random numbers, in hundredths
  Attempts              \* reconnect attempts

ASSUME NumbersAssumption ==
  Ids \subseteq Nat /\ Codes \subseteq Int /\ Stamps \subseteq Nat /\ Delays \subseteq Nat
    /\ Percents \subseteq Nat /\ Attempts \subseteq Nat

(* For TLC: every code the robot may send, and some it may not.            *)
SomeCodes == SdkErrorCodes \cup {13, 39, 42, 909, 911}

VARIABLES kind, input
vars == <<kind, input, bucketVars>>

Responses ==
  [request_id : Ids, success : BOOLEAN, error_code : Codes, message : Texts,
   server_ts_ms : Stamps, payload : {"none", "handshake", "rpc", "subscribe"}]
Pushes == [topic : Texts, timestamp_ms : Stamps, payload : Texts, seq : Stamps]
Options ==
  [base : Delays, max : Delays, jitter : Percents, random : Percents, attempt : Attempts]

PickResponse == kind' = "response" /\ input' \in Responses
PickPush == kind' = "push" /\ input' \in Pushes
PickCode == kind' = "code" /\ input' \in Codes
PickBackoff ==
  /\ kind' = "backoff"
  /\ input' \in Options
  /\ ValidBackoff(input'.base, input'.max, input'.jitter) /\ input'.random < 100

Pick ==
  /\ kind = "none"
  /\ PickResponse \/ PickPush \/ PickCode \/ PickBackoff
  /\ UNCHANGED bucketVars
Count ==
  /\ kind \in {"none", "frames"} /\ kind' = "frames"
  /\ BucketsNext
  /\ UNCHANGED input

Init == kind = "none" /\ input = 0 /\ BucketsInit
Next == Pick \/ Count
Spec == Init /\ [][Next]_vars

-----------------------------------------------------------------------------
(* A response, as HandleSdkResponse is to see it.                          *)
AsSent(r) ==
  [request_id |-> r.request_id, success |-> r.success,
   sdk_code |-> map_sdk_error_code(r.error_code), message |-> r.message,
   server_ts_ms |-> r.server_ts_ms, payload |-> r.payload]

(* A response that answers a request or carries a payload reaches          *)
(* HandleSdkResponse, and a frame with a topic HandleSdkTopicPush, with    *)
(* every field as it was sent, though nothing in the message tells which   *)
(* it is: field 1 is a number in one and a string in the other.            *)
ToldApart ==
  /\ kind = "response" /\ (input.request_id # 0 \/ input.payload # "none") =>
       OnInboundMessage(EncodeResponse(input)) = [to |-> "HandleSdkResponse", what |-> AsSent(input)]
  /\ kind = "push" /\ input.topic # NoText =>
       OnInboundMessage(EncodePush(input)) = [to |-> "HandleSdkTopicPush", what |-> input]

(* What the robot's error codes, by number, lead to: the codes of a failed *)
(* authentication and of an unsupported version end the session, those of  *)
(* the session are retried, and neither happens for any other number, one  *)
(* this SDK does not know included.                                        *)
CodesDecide ==
  kind = "code" => classify(map_sdk_error_code(input)) =
    CASE input = 0 -> "Ok"
      [] input \in 1 .. 5 \cup {22} -> "Fatal"
      [] input \in 10 .. 12 -> "Transient"
      [] input \in {20, 21} \cup 30 .. 32 \cup (900 .. 910 \ {909}) -> "Application"
      [] OTHER -> "Local"

Power2[n \in Nat] == IF n = 0 THEN 1 ELSE 2 * Power2[n - 1]

(* The delay doubles with each attempt up to the maximum and loses at most *)
(* the jitter, of which there is always a twentieth.                       *)
BackoffInRange ==
  kind = "backoff" =>
    LET full == AtMost(input.base * Power2[input.attempt], input.max)
        jr == AtLeast(input.jitter, 5)
        delay == NextBackoff(input.base, input.max, input.jitter, input.attempt, input.random)
    IN delay <= full /\ (delay + 1) * 100 > full * (100 - jr)
=============================================================================

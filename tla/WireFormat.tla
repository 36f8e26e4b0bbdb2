------------------------------ MODULE WireFormat ------------------------------
(***************************************************************************)
(* What arrives from the robot (src/src/proto_codec.cpp, OnInboundMessage  *)
(* in src/src/robot_impl.cpp, src/proto/sdk/session.proto): a response or  *)
(* a frame of a topic, in one socket message without a tag that tells      *)
(* which.  Protocol buffers skip a field whose wire type is not the one of *)
(* the schema, and leave out a field that has its default value; a message *)
(* is the set of its fields.  Then what the SDK makes of error codes.      *)
(***************************************************************************)
EXTENDS Integers

NoText == ""
Field(num, type, val) == [num |-> num, type |-> type, val |-> val]
Varint(num, val) == IF val = 0 THEN {} ELSE {Field(num, "varint", val)}
Bytes(num, val) == IF val = NoText THEN {} ELSE {Field(num, "len", val)}
Flag(num, val) == Varint(num, IF val THEN 1 ELSE 0)

(* The robot's side: SdkResponse with its oneof payload, and SdkTopicPush. *)
PayloadField == [handshake |-> 10, rpc |-> 11, subscribe |-> 12]
EncodeResponse(r) ==
  Varint(1, r.request_id) \cup Flag(2, r.success) \cup Varint(3, r.error_code)
    \cup Bytes(4, r.message) \cup Varint(5, r.server_ts_ms)
    \cup IF r.payload = "none" THEN {} ELSE {Field(PayloadField[r.payload], "len", r.payload)}
EncodePush(p) ==
  Bytes(1, p.topic) \cup Varint(2, p.timestamp_ms) \cup Bytes(3, p.payload) \cup Varint(4, p.seq)

(* The robot's SdkErrorCode, by number, as codes of the SDK.               *)
SdkErrorCodes ==
  0 .. 5 \cup 10 .. 12 \cup 20 .. 22 \cup 30 .. 32 \cup {40, 41} \cup 900 .. 908 \cup {910}

map_sdk_error_code(c) ==
  CASE c = 0 -> "Ok"
    [] c \in 1 .. 5 -> <<"AuthFailed", "AuthCnNotAllowed", "AuthSerialRevoked",
                         "AuthTokenInvalid", "AuthTokenExpired">>[c]
    [] c \in 10 .. 12 -> <<"SessionTokenInvalid", "SessionTokenExpired", "HandshakeRequired">>[c - 9]
    [] c \in 20 .. 22 -> <<"CapabilityDenied", "RateLimited", "UnsupportedVersion">>[c - 19]
    [] c \in 30 .. 32 -> <<"TopicNotFound", "TopicAlreadySubscribed", "TopicNotSubscribed">>[c - 29]
    [] c \in {40, 41} -> <<"Disconnected", "WouldDeadlock">>[c - 39]
    [] c = 905 -> "TaskRunning"
    [] c \in {900, 901, 906, 907, 908} -> "ControlEStopActive"
    [] c \in {902, 903, 904, 910} -> "ControlPublisherUnavailable"
    [] OTHER -> "InternalError"

(* The generated parser: a field of the number and wire type, or a default.*)
Get(msg, num, type, default) ==
  LET found == {f \in msg : f.num = num /\ f.type = type} IN
  IF found = {} THEN default ELSE (CHOOSE f \in found : TRUE).val

has(msg, num) == \E f \in msg : f.num = num /\ f.type = "len"

decode_response(msg) ==
  [request_id   |-> Get(msg, 1, "varint", 0),
   success      |-> Get(msg, 2, "varint", 0) # 0,
   sdk_code     |-> map_sdk_error_code(Get(msg, 3, "varint", 0)),
   message      |-> Get(msg, 4, "len", NoText),
   server_ts_ms |-> Get(msg, 5, "varint", 0),
   payload      |-> CASE has(msg, 10) -> "handshake"
                      [] ~has(msg, 10) /\ has(msg, 11) -> "rpc"
                      [] ~has(msg, 10) /\ ~has(msg, 11) /\ has(msg, 12) -> "subscribe"
                      [] OTHER -> "none"]

decode_topic_push(msg) ==
  [topic        |-> Get(msg, 1, "len", NoText),
   timestamp_ms |-> Get(msg, 2, "varint", 0),
   payload      |-> Get(msg, 3, "len", NoText),
   seq          |-> Get(msg, 4, "varint", 0)]

(* Mutant: whatever parses as a response is one.                           *)
TakesAny(resp) == TRUE

TakesResponse(resp) == resp.payload # "none" \/ resp.request_id # 0

(* To which handler a message goes, and what the handler is given.         *)
OnInboundMessage(msg) ==
  LET resp == decode_response(msg)
      push == decode_topic_push(msg)
  IN CASE TakesResponse(resp) -> [to |-> "HandleSdkResponse", what |-> resp]
       [] ~TakesResponse(resp) /\ push.topic # NoText -> [to |-> "HandleSdkTopicPush", what |-> push]
       [] OTHER -> [to |-> "log", what |-> {}]

-----------------------------------------------------------------------------
(* The category of a code of the SDK, which decides what the SDK does.     *)

(* Mutant: an expired session is taken for a failed authentication.        *)
classifyStrict(e) ==
  CASE e \in {"SessionTokenInvalid", "SessionTokenExpired", "AuthFailed"} -> "Fatal"
    [] e = "Ok" -> "Ok"
    [] OTHER -> "Application"

classify(e) ==
  CASE e = "Ok" -> "Ok"
    [] e \in {"AuthFailed", "AuthCnNotAllowed", "AuthSerialRevoked", "AuthTokenInvalid",
              "AuthTokenExpired", "UnsupportedVersion"} -> "Fatal"
    [] e \in {"SessionTokenInvalid", "SessionTokenExpired", "HandshakeRequired",
              "TransportFailure", "Timeout"} -> "Transient"
    [] e \in {"CapabilityDenied", "RateLimited", "TopicNotFound", "TopicAlreadySubscribed",
              "TopicNotSubscribed", "ControlEStopActive", "ControlPublisherUnavailable",
              "ControlInvalidTwist", "TaskRunning", "TaskNotFound", "TaskInvalidState",
              "NavMarkerNotFound", "NavNoActiveMap", "NavGoalUnreachable", "NavLowBattery"} ->
         "Application"
    [] OTHER -> "Local"
=============================================================================

-------------------------- MODULE Algorithms_proofs --------------------------
(***************************************************************************)
(* Theorems about the SDK's pure functions and the ring of counters, for   *)
(* every input: which handler a message reaches, what an error code leads  *)
(* to, the delay before a reconnection, the frames of the last minute.     *)
(***************************************************************************)
EXTENDS MCAlgorithms, WellFoundedInduction, NaturalsInduction, TLAPS

-----------------------------------------------------------------------------
(* The inputs that were picked.                                            *)

InputTyped ==
  /\ kind \in {"none", "response", "push", "code", "backoff", "frames"}
  /\ kind = "response" => input \in Responses
  /\ kind = "push" => input \in Pushes
  /\ kind = "code" => input \in Codes
  /\ kind = "backoff" =>
       /\ input \in Options
       /\ ValidBackoff(input.base, input.max, input.jitter) /\ input.random < 100

(* What was picked is an input of its function.                            *)
LEMMA InputsTyped == Spec => []InputTyped
<1>1. Init => InputTyped
  BY DEF Init, InputTyped
<1>2. InputTyped /\ [Next]_vars => InputTyped'
  <2> SUFFICES ASSUME InputTyped, [Next]_vars PROVE InputTyped'
    OBVIOUS
  <2>1. CASE Pick
    <3>1. CASE PickResponse
      BY <3>1 DEF PickResponse, InputTyped
    <3>2. CASE PickPush
      BY <3>2 DEF PickPush, InputTyped
    <3>3. CASE PickCode
      BY <3>3 DEF PickCode, InputTyped
    <3>4. CASE PickBackoff
      BY <3>4 DEF PickBackoff, InputTyped
    <3> QED BY <2>1, <3>1, <3>2, <3>3, <3>4 DEF Pick
  <2>2. CASE Count
    BY <2>2 DEF Count, InputTyped
  <2>3. CASE UNCHANGED vars
    BY <2>3 DEF vars, InputTyped
  <2> QED BY <2>1, <2>2, <2>3 DEF Next
<1> QED BY <1>1, <1>2, PTL DEF Spec

-----------------------------------------------------------------------------
(* Error codes.                                                            *)

(* Every error code leads to what CodesDecide says, whatever its number:   *)
(* map_sdk_error_code and classify agree on every code.                    *)
THEOREM CodesDecided == Spec => []CodesDecide
<1>1. InputTyped => CodesDecide
  <2> SUFFICES ASSUME input \in Int PROVE CodesDecide
    BY NumbersAssumption DEF InputTyped, CodesDecide
  <2>1. CASE input \in 0 .. 5
    BY <2>1 DEF CodesDecide, map_sdk_error_code, classify
  <2>2. CASE input \in 10 .. 12
    BY <2>2 DEF CodesDecide, map_sdk_error_code, classify
  <2>3. CASE input \in 20 .. 22
    BY <2>3 DEF CodesDecide, map_sdk_error_code, classify
  <2>4. CASE input \in 30 .. 32
    BY <2>4 DEF CodesDecide, map_sdk_error_code, classify
  <2>5. CASE input \in {40, 41}
    BY <2>5 DEF CodesDecide, map_sdk_error_code, classify
  <2>6. CASE input \in 900 .. 910 \ {909}
    BY <2>6 DEF CodesDecide, map_sdk_error_code, classify
  <2>7. CASE ~ (input \in 0 .. 5 \cup 10 .. 12 \cup 20 .. 22 \cup 30 .. 32 \cup {40, 41}
                            \cup (900 .. 910 \ {909}))
    <3>1. map_sdk_error_code(input) = "InternalError"
      BY <2>7 DEF map_sdk_error_code
    <3>2. classify("InternalError") = "Local"
      BY DEF classify
    <3> QED BY <2>7, <3>1, <3>2 DEF CodesDecide
  <2> QED BY <2>1, <2>2, <2>3, <2>4, <2>5, <2>6, <2>7
<1> QED BY <1>1, InputsTyped, PTL

-----------------------------------------------------------------------------
(* Messages.                                                               *)

(* A field that was sent, or left out for having its default value, is     *)
(* read as it was.                                                         *)
LEMMA GetVarint ==
  ASSUME NEW msg, NEW num, NEW val,
         {f \in msg : f.num = num /\ f.type = "varint"} = Varint(num, val)
  PROVE  Get(msg, num, "varint", 0) = val
<1>1. CASE val = 0
  BY <1>1 DEF Get, Varint
<1>2. CASE val # 0
  <2>1. Varint(num, val) = {Field(num, "varint", val)}
    BY <1>2 DEF Varint
  <2>2. (CHOOSE f \in {Field(num, "varint", val)} : TRUE) = Field(num, "varint", val)
    OBVIOUS
  <2>3. Field(num, "varint", val).val = val
    BY DEF Field
  <2> QED BY <2>1, <2>2, <2>3 DEF Get
<1> QED BY <1>1, <1>2

LEMMA GetBytes ==
  ASSUME NEW msg, NEW num, NEW val,
         {f \in msg : f.num = num /\ f.type = "len"} = Bytes(num, val)
  PROVE  Get(msg, num, "len", NoText) = val
<1>1. CASE val = NoText
  BY <1>1 DEF Get, Bytes
<1>2. CASE val # NoText
  <2>1. Bytes(num, val) = {Field(num, "len", val)}
    BY <1>2 DEF Bytes
  <2>2. (CHOOSE f \in {Field(num, "len", val)} : TRUE) = Field(num, "len", val)
    OBVIOUS
  <2>3. Field(num, "len", val).val = val
    BY DEF Field
  <2> QED BY <2>1, <2>2, <2>3 DEF Get
<1> QED BY <1>1, <1>2

LEMMA FieldsWritten ==
  ASSUME NEW num, NEW val
  PROVE  /\ \A f \in Varint(num, val) : f.num = num /\ f.type = "varint"
         /\ \A f \in Bytes(num, val) : f.num = num /\ f.type = "len"
         /\ \A f \in Flag(num, val) : f.num = num /\ f.type = "varint"
<1>1. ASSUME NEW v PROVE \A f \in Varint(num, v) : f.num = num /\ f.type = "varint"
  <2>1. \A f \in Varint(num, v) : f = Field(num, "varint", v)
    BY Zenon DEF Varint
  <2>2. Field(num, "varint", v).num = num /\ Field(num, "varint", v).type = "varint"
    BY DEF Field
  <2> QED BY <2>1, <2>2
<1>2. \A f \in Bytes(num, val) : f.num = num /\ f.type = "len"
  <2>1. \A f \in Bytes(num, val) : f = Field(num, "len", val)
    BY Zenon DEF Bytes
  <2>2. Field(num, "len", val).num = num /\ Field(num, "len", val).type = "len"
    BY DEF Field
  <2> QED BY <2>1, <2>2
<1> QED BY <1>1, <1>2 DEF Flag

(* The fields of a message are those with a number and a wire type of the  *)
(* schema it was written with.                                             *)
LEMMA ResponseFields ==
  ASSUME NEW r \in Responses
  PROVE  LET msg == EncodeResponse(r) IN
         /\ {f \in msg : f.num = 1 /\ f.type = "varint"} = Varint(1, r.request_id)
         /\ {f \in msg : f.num = 2 /\ f.type = "varint"} = Flag(2, r.success)
         /\ {f \in msg : f.num = 3 /\ f.type = "varint"} = Varint(3, r.error_code)
         /\ {f \in msg : f.num = 4 /\ f.type = "len"} = Bytes(4, r.message)
         /\ {f \in msg : f.num = 5 /\ f.type = "varint"} = Varint(5, r.server_ts_ms)
         /\ has(msg, 10) <=> r.payload = "handshake"
         /\ has(msg, 11) <=> r.payload = "rpc"
         /\ has(msg, 12) <=> r.payload = "subscribe"
<1> DEFINE msg == EncodeResponse(r)
           rest == IF r.payload = "none" THEN {}
                   ELSE {Field(PayloadField[r.payload], "len", r.payload)}
<1>1. /\ \A f \in Varint(1, r.request_id) : f.num = 1 /\ f.type = "varint"
      /\ \A f \in Flag(2, r.success) : f.num = 2 /\ f.type = "varint"
      /\ \A f \in Varint(3, r.error_code) : f.num = 3 /\ f.type = "varint"
      /\ \A f \in Bytes(4, r.message) : f.num = 4 /\ f.type = "len"
      /\ \A f \in Varint(5, r.server_ts_ms) : f.num = 5 /\ f.type = "varint"
  BY FieldsWritten
<1>2. r.payload \in {"none", "handshake", "rpc", "subscribe"}
  BY DEF Responses
<1>3. /\ \A f \in rest : f.type = "len" /\ f.num \in {10, 11, 12}
      /\ (\E f \in rest : f.num = 10) <=> r.payload = "handshake"
      /\ (\E f \in rest : f.num = 11) <=> r.payload = "rpc"
      /\ (\E f \in rest : f.num = 12) <=> r.payload = "subscribe"
  <2>1. CASE r.payload = "none"
    BY <2>1
  <2>2. CASE r.payload = "handshake"
    <3>1. rest = {[num |-> 10, type |-> "len", val |-> "handshake"]}
      BY <2>2 DEF Field, PayloadField
    <3> HIDE DEF rest
    <3> QED BY <2>2, <3>1
  <2>3. CASE r.payload = "rpc"
    <3>1. rest = {[num |-> 11, type |-> "len", val |-> "rpc"]}
      BY <2>3 DEF Field, PayloadField
    <3> HIDE DEF rest
    <3> QED BY <2>3, <3>1
  <2>4. CASE r.payload = "subscribe"
    <3>1. rest = {[num |-> 12, type |-> "len", val |-> "subscribe"]}
      BY <2>4 DEF Field, PayloadField
    <3> HIDE DEF rest
    <3> QED BY <2>4, <3>1
  <2> QED BY <1>2, <2>1, <2>2, <2>3, <2>4
<1>4. msg = Varint(1, r.request_id) \cup Flag(2, r.success) \cup Varint(3, r.error_code)
              \cup Bytes(4, r.message) \cup Varint(5, r.server_ts_ms) \cup rest
  BY DEF EncodeResponse
<1> HIDE DEF msg, rest
<1>5. /\ {f \in msg : f.num = 1 /\ f.type = "varint"} = Varint(1, r.request_id)
      /\ {f \in msg : f.num = 2 /\ f.type = "varint"} = Flag(2, r.success)
  BY <1>1, <1>3, <1>4
<1>6. /\ {f \in msg : f.num = 3 /\ f.type = "varint"} = Varint(3, r.error_code)
      /\ {f \in msg : f.num = 4 /\ f.type = "len"} = Bytes(4, r.message)
  BY <1>1, <1>3, <1>4
<1>7. {f \in msg : f.num = 5 /\ f.type = "varint"} = Varint(5, r.server_ts_ms)
  BY <1>1, <1>3, <1>4
<1>8. /\ has(msg, 10) <=> r.payload = "handshake"
      /\ has(msg, 11) <=> r.payload = "rpc"
      /\ has(msg, 12) <=> r.payload = "subscribe"
  BY <1>1, <1>3, <1>4 DEF has
<1> QED BY <1>5, <1>6, <1>7, <1>8 DEF msg

LEMMA PushFields ==
  ASSUME NEW p \in Pushes
  PROVE  LET msg == EncodePush(p) IN
         /\ {f \in msg : f.num = 1 /\ f.type = "len"} = Bytes(1, p.topic)
         /\ {f \in msg : f.num = 2 /\ f.type = "varint"} = Varint(2, p.timestamp_ms)
         /\ {f \in msg : f.num = 3 /\ f.type = "len"} = Bytes(3, p.payload)
         /\ {f \in msg : f.num = 4 /\ f.type = "varint"} = Varint(4, p.seq)
         /\ {f \in msg : f.num = 1 /\ f.type = "varint"} = {}
         /\ ~ has(msg, 10) /\ ~ has(msg, 11) /\ ~ has(msg, 12)
<1> DEFINE msg == EncodePush(p)
<1>1. /\ \A f \in Bytes(1, p.topic) : f.num = 1 /\ f.type = "len"
      /\ \A f \in Varint(2, p.timestamp_ms) : f.num = 2 /\ f.type = "varint"
      /\ \A f \in Bytes(3, p.payload) : f.num = 3 /\ f.type = "len"
      /\ \A f \in Varint(4, p.seq) : f.num = 4 /\ f.type = "varint"
  BY FieldsWritten
<1>2. msg = Bytes(1, p.topic) \cup Varint(2, p.timestamp_ms) \cup Bytes(3, p.payload)
              \cup Varint(4, p.seq)
  BY DEF EncodePush
<1> HIDE DEF msg
<1>3. /\ {f \in msg : f.num = 1 /\ f.type = "len"} = Bytes(1, p.topic)
      /\ {f \in msg : f.num = 2 /\ f.type = "varint"} = Varint(2, p.timestamp_ms)
      /\ {f \in msg : f.num = 3 /\ f.type = "len"} = Bytes(3, p.payload)
  BY <1>1, <1>2
<1>4. /\ {f \in msg : f.num = 4 /\ f.type = "varint"} = Varint(4, p.seq)
      /\ {f \in msg : f.num = 1 /\ f.type = "varint"} = {}
  BY <1>1, <1>2
<1>5. ~ has(msg, 10) /\ ~ has(msg, 11) /\ ~ has(msg, 12)
  BY <1>1, <1>2 DEF has
<1> QED BY <1>3, <1>4, <1>5 DEF msg

(* decode_response gives back the response that was encoded.               *)
LEMMA ResponseDecoded ==
  ASSUME NEW r \in Responses
  PROVE  decode_response(EncodeResponse(r)) = AsSent(r)
<1> DEFINE msg == EncodeResponse(r)
<1>1. /\ Get(msg, 1, "varint", 0) = r.request_id
      /\ Get(msg, 3, "varint", 0) = r.error_code
      /\ Get(msg, 4, "len", NoText) = r.message
      /\ Get(msg, 5, "varint", 0) = r.server_ts_ms
  <2>1. /\ {f \in msg : f.num = 1 /\ f.type = "varint"} = Varint(1, r.request_id)
        /\ {f \in msg : f.num = 3 /\ f.type = "varint"} = Varint(3, r.error_code)
        /\ {f \in msg : f.num = 4 /\ f.type = "len"} = Bytes(4, r.message)
        /\ {f \in msg : f.num = 5 /\ f.type = "varint"} = Varint(5, r.server_ts_ms)
    BY ResponseFields
  <2> HIDE DEF msg
  <2>2. Get(msg, 1, "varint", 0) = r.request_id
    BY <2>1, GetVarint
  <2>3. Get(msg, 3, "varint", 0) = r.error_code
    BY <2>1, GetVarint
  <2>4. Get(msg, 4, "len", NoText) = r.message
    BY <2>1, GetBytes
  <2>5. Get(msg, 5, "varint", 0) = r.server_ts_ms
    BY <2>1, GetVarint
  <2> QED BY <2>2, <2>3, <2>4, <2>5
<1>2. Get(msg, 2, "varint", 0) = IF r.success THEN 1 ELSE 0
  BY ResponseFields, GetVarint DEF Flag
<1>3. (Get(msg, 2, "varint", 0) # 0) = r.success
  BY <1>2 DEF Responses
<1>4. r.payload \in {"none", "handshake", "rpc", "subscribe"}
  BY DEF Responses
<1>5. r.payload = CASE has(msg, 10) -> "handshake"
                    [] ~has(msg, 10) /\ has(msg, 11) -> "rpc"
                    [] ~has(msg, 10) /\ ~has(msg, 11) /\ has(msg, 12) -> "subscribe"
                    [] OTHER -> "none"
  BY <1>4, ResponseFields
<1> QED BY <1>1, <1>3, <1>5 DEF decode_response, AsSent

(* decode_topic_push gives back the frame that was encoded, and            *)
(* decode_response finds neither a request nor a payload in it.            *)
LEMMA PushDecoded ==
  ASSUME NEW p \in Pushes
  PROVE  /\ decode_topic_push(EncodePush(p)) = p
         /\ ~ TakesResponse(decode_response(EncodePush(p)))
<1> DEFINE msg == EncodePush(p)
<1>1. /\ Get(msg, 1, "len", NoText) = p.topic
      /\ Get(msg, 2, "varint", 0) = p.timestamp_ms
      /\ Get(msg, 3, "len", NoText) = p.payload
      /\ Get(msg, 4, "varint", 0) = p.seq
  <2>1. /\ {f \in msg : f.num = 1 /\ f.type = "len"} = Bytes(1, p.topic)
        /\ {f \in msg : f.num = 2 /\ f.type = "varint"} = Varint(2, p.timestamp_ms)
        /\ {f \in msg : f.num = 3 /\ f.type = "len"} = Bytes(3, p.payload)
        /\ {f \in msg : f.num = 4 /\ f.type = "varint"} = Varint(4, p.seq)
    BY PushFields
  <2> HIDE DEF msg
  <2>2. Get(msg, 1, "len", NoText) = p.topic
    BY <2>1, GetBytes
  <2>3. Get(msg, 2, "varint", 0) = p.timestamp_ms
    BY <2>1, GetVarint
  <2>4. Get(msg, 3, "len", NoText) = p.payload
    BY <2>1, GetBytes
  <2>5. Get(msg, 4, "varint", 0) = p.seq
    BY <2>1, GetVarint
  <2> QED BY <2>2, <2>3, <2>4, <2>5
<1>2. Get(msg, 1, "varint", 0) = 0
  BY PushFields DEF Get
<1>3. ~ has(msg, 10) /\ ~ has(msg, 11) /\ ~ has(msg, 12)
  BY PushFields
<1>4. decode_topic_push(msg) = p
  BY <1>1 DEF decode_topic_push, Pushes
<1>5. ~ TakesResponse(decode_response(msg))
  BY <1>2, <1>3 DEF TakesResponse, decode_response
<1> QED BY <1>4, <1>5

(* OnInboundMessage hands every response that answers a request or carries *)
(* a payload to HandleSdkResponse and every frame with a topic to          *)
(* HandleSdkTopicPush, unchanged, whatever their fields hold.              *)
THEOREM MessagesToldApart == Spec => []ToldApart
<1>1. InputTyped => ToldApart
  <2> SUFFICES ASSUME InputTyped PROVE ToldApart
    OBVIOUS
  <2>1. ASSUME kind = "response", input.request_id # 0 \/ input.payload # "none"
        PROVE  OnInboundMessage(EncodeResponse(input)) =
                 [to |-> "HandleSdkResponse", what |-> AsSent(input)]
    <3>1. decode_response(EncodeResponse(input)) = AsSent(input)
      BY <2>1, ResponseDecoded DEF InputTyped
    <3>2. TakesResponse(AsSent(input))
      BY <2>1 DEF TakesResponse, AsSent
    <3> QED BY <3>1, <3>2 DEF OnInboundMessage
  <2>2. ASSUME kind = "push", input.topic # NoText
        PROVE  OnInboundMessage(EncodePush(input)) = [to |-> "HandleSdkTopicPush", what |-> input]
    BY <2>2, PushDecoded DEF InputTyped, OnInboundMessage
  <2> QED BY <2>1, <2>2 DEF ToldApart
<1> QED BY <1>1, InputsTyped, PTL

-----------------------------------------------------------------------------
(* Recursive functions on the naturals.  An operator cannot be passed to   *)
(* the library's induction theorems, but a set can: a set that holds 0 and *)
(* the successor of each of its naturals holds them all, since the set of  *)
(* those missing would have a least element.                               *)

LEMMA SetInduction ==
  ASSUME NEW T, 0 \in T, \A n \in Nat : n \in T => n + 1 \in T
  PROVE  \A n \in Nat : n \in T
<1> DEFINE U == {n \in Nat : n \notin T}
           R == OpToRel(<, Nat)
<1>1. SUFFICES ASSUME U # {} PROVE FALSE
  OBVIOUS
<1>2. U \subseteq Nat
  OBVIOUS
<1>3. \A a, b \in Nat : a < b => <<a, b>> \in R
  BY Zenon DEF OpToRel
<1>4. IsWellFoundedOn(R, Nat)
  BY NatLessThanWellFounded, Zenon
<1> HIDE DEF R, U
<1>5. PICK x \in U : \A y \in U : ~ (<<y, x>> \in R)
  BY <1>1, <1>2, <1>4, WFMin, Zenon
<1>6. x # 0 /\ x \in Nat /\ x - 1 \in Nat /\ x - 1 < x /\ (x - 1) + 1 = x
  BY <1>2 DEF U
<1>7. <<x - 1, x>> \in R
  BY <1>3, <1>6
<1>8. x - 1 \notin U
  BY <1>5, <1>7
<1> QED BY <1>6, <1>8 DEF U

(* The naturals up to n can be mapped to a start value and what a function *)
(* F makes of each value before.                                           *)
Iterates(h, n, c, F) == h[0] = c /\ \A k \in 1 .. n : h[k] = F[h[k - 1]]

LEMMA IteratesAgree ==
  ASSUME NEW n \in Nat, NEW m \in Nat, NEW c, NEW F, NEW g, NEW h,
         Iterates(g, n, c, F), Iterates(h, m, c, F)
  PROVE  \A k \in Nat : k <= n /\ k <= m => g[k] = h[k]
<1> DEFINE T == {k \in Nat : k <= n /\ k <= m => g[k] = h[k]}
<1>1. 0 \in T
  BY DEF Iterates
<1>2. ASSUME NEW k \in Nat, k \in T PROVE k + 1 \in T
  <2>1. SUFFICES ASSUME k + 1 <= n, k + 1 <= m PROVE g[k + 1] = h[k + 1]
    OBVIOUS
  <2>2. g[k] = h[k] /\ k + 1 \in 1 .. n /\ k + 1 \in 1 .. m /\ (k + 1) - 1 = k
    BY <1>2, <2>1
  <2>3. g[k + 1] = F[g[k]] /\ h[k + 1] = F[h[k]]
    BY <2>2 DEF Iterates
  <2> QED BY <2>2, <2>3
<1> HIDE DEF T
<1>3. \A k \in Nat : k \in T
  BY <1>1, <1>2, SetInduction
<1> QED BY <1>3 DEF T

LEMMA IteratesUpTo ==
  ASSUME NEW c \in Nat, NEW F \in [Nat -> Nat]
  PROVE  \A n \in Nat : \E h \in [0 .. n -> Nat] : Iterates(h, n, c, F)
<1> DEFINE T == {n \in Nat : \E h \in [0 .. n -> Nat] : Iterates(h, n, c, F)}
<1>1. 0 \in T
  <2> DEFINE h == [k \in 0 .. 0 |-> c]
  <2>1. h \in [0 .. 0 -> Nat] /\ Iterates(h, 0, c, F)
    BY DEF Iterates
  <2> QED BY <2>1
<1>2. ASSUME NEW n \in Nat, n \in T PROVE n + 1 \in T
  <2>1. PICK g \in [0 .. n -> Nat] : Iterates(g, n, c, F)
    BY <1>2
  <2> DEFINE h == [k \in 0 .. n + 1 |-> IF k = n + 1 THEN F[g[n]] ELSE g[k]]
  <2>2. g[n] \in Nat /\ F[g[n]] \in Nat
    OBVIOUS
  <2>3. h \in [0 .. n + 1 -> Nat]
    BY <2>2
  <2>4. h[0] = c
    BY <2>1 DEF Iterates
  <2>5. ASSUME NEW k \in 1 .. n + 1 PROVE h[k] = F[h[k - 1]]
    <3>1. CASE k = n + 1
      BY <3>1
    <3>2. CASE k # n + 1
      <4>1. k \in 1 .. n /\ k \in 0 .. n + 1 /\ k - 1 \in 0 .. n + 1 /\ k - 1 # n + 1
        BY <3>2
      <4>2. h[k] = g[k] /\ h[k - 1] = g[k - 1]
        BY <3>2, <4>1
      <4> QED BY <2>1, <4>1, <4>2 DEF Iterates
    <3> QED BY <3>1, <3>2
  <2>6. Iterates(h, n + 1, c, F)
    BY <2>4, <2>5 DEF Iterates
  <2> HIDE DEF h
  <2>7. \E f \in [0 .. n + 1 -> Nat] : Iterates(f, n + 1, c, F)
    BY <2>3, <2>6, Zenon
  <2>8. n + 1 \in Nat
    OBVIOUS
  <2> QED BY <2>7, <2>8, Zenon
<1> HIDE DEF T
<1>3. \A n \in Nat : n \in T
  BY <1>1, <1>2, SetInduction
<1> QED BY <1>3 DEF T

LEMMA IteratesExist ==
  ASSUME NEW c \in Nat, NEW F \in [Nat -> Nat]
  PROVE  \E g \in [Nat -> Nat] : g[0] = c /\ \A n \in Nat : g[n + 1] = F[g[n]]
<1> DEFINE H(n) == CHOOSE h \in [0 .. n -> Nat] : Iterates(h, n, c, F)
           g == [n \in Nat |-> H(n)[n]]
<1>1. ASSUME NEW n \in Nat PROVE H(n) \in [0 .. n -> Nat] /\ Iterates(H(n), n, c, F)
  BY IteratesUpTo
<1> HIDE DEF H
<1>2. g \in [Nat -> Nat]
  BY <1>1
<1>3. g[0] = c
  BY <1>1 DEF Iterates
<1>4. ASSUME NEW n \in Nat PROVE g[n + 1] = F[g[n]]
  <2>1. n + 1 \in Nat /\ n + 1 \in 1 .. n + 1 /\ (n + 1) - 1 = n /\ n <= n + 1 /\ n <= n
    OBVIOUS
  <2>2. Iterates(H(n), n, c, F) /\ Iterates(H(n + 1), n + 1, c, F)
    BY <1>1, <2>1
  <2>3. H(n + 1)[n + 1] = F[H(n + 1)[n]]
    BY <2>1, <2>2 DEF Iterates
  <2>4. H(n + 1)[n] = H(n)[n]
    BY <2>1, <2>2, IteratesAgree
  <2> QED BY <2>1, <2>3, <2>4
<1> HIDE DEF g
<1> QED BY <1>2, <1>3, <1>4

-----------------------------------------------------------------------------
(* The delay before a reconnection.                                        *)

LEMMA Power2Values ==
  /\ Power2 \in [Nat -> Nat]
  /\ Power2[0] = 1
  /\ \A n \in Nat : Power2[n + 1] = 2 * Power2[n]
<1> DEFINE F == [x \in Nat |-> 2 * x]
           Body(f) == [n \in Nat |-> IF n = 0 THEN 1 ELSE 2 * f[n - 1]]
<1>1. PICK g \in [Nat -> Nat] : g[0] = 1 /\ \A n \in Nat : g[n + 1] = F[g[n]]
  <2>1. 1 \in Nat /\ F \in [Nat -> Nat]
    OBVIOUS
  <2> HIDE DEF F
  <2> QED BY <2>1, IteratesExist
<1>2. ASSUME NEW n \in Nat PROVE g[n] = IF n = 0 THEN 1 ELSE 2 * g[n - 1]
  <2>1. CASE n # 0
    <3>1. n - 1 \in Nat /\ (n - 1) + 1 = n
      BY <2>1
    <3>2. g[(n - 1) + 1] = F[g[n - 1]] /\ g[n - 1] \in Nat
      BY <1>1, <3>1
    <3> HIDE DEF F
    <3>3. g[n] = F[g[n - 1]]
      <4> DEFINE m == n - 1
      <4>1. m + 1 = n /\ g[m + 1] = F[g[m]]
        BY <3>1, <3>2
      <4> HIDE DEF m
      <4>2. g[n] = F[g[m]]
        BY <4>1
      <4> QED BY <4>2 DEF m
    <3> QED BY <2>1, <3>2, <3>3 DEF F
  <2> QED BY <1>1, <2>1
<1>3. g = Body(g)
  BY <1>2
<1>4. Power2 = CHOOSE f : f = Body(f)
  BY DEF Power2
<1> HIDE DEF Body
<1>5. Power2 = Body(Power2)
  BY <1>3, <1>4
<1>6. ASSUME NEW n \in Nat PROVE Power2[n] = IF n = 0 THEN 1 ELSE 2 * Power2[n - 1]
  BY <1>5 DEF Body
<1> DEFINE T == {n \in Nat : Power2[n] \in Nat}
<1>7. 0 \in T
  BY <1>6
<1>8. ASSUME NEW n \in Nat PROVE Power2[n + 1] = 2 * Power2[n]
  <2>1. n + 1 \in Nat /\ n + 1 # 0 /\ (n + 1) - 1 = n
    OBVIOUS
  <2> QED BY <1>6, <2>1
<1>9. ASSUME NEW n \in Nat, n \in T PROVE n + 1 \in T
  BY <1>8, <1>9
<1> HIDE DEF T
<1>10. \A n \in Nat : n \in T
  BY <1>7, <1>9, SetInduction
<1>11. Power2 = [n \in Nat |-> Power2[n]]
  BY <1>5 DEF Body
<1>12. Power2 \in [Nat -> Nat]
  BY <1>10, <1>11 DEF T
<1> QED BY <1>6, <1>8, <1>12

(* The loop of NextBackoff, doubling only while below the maximum, comes   *)
(* to the same as doubling for every attempt and then taking the maximum.  *)
LEMMA ExpDelayValue ==
  ASSUME NEW base \in Nat, NEW max \in Nat, NEW attempt \in Nat
  PROVE  ExpDelay(base, max, attempt) = AtMost(base * Power2[attempt], max)
<1> DEFINE F == [x \in Nat |-> IF x < max THEN 2 * x ELSE x]
           Body(f) == [i \in Nat |-> IF i = 0 THEN base
                                     ELSE IF f[i - 1] < max THEN 2 * f[i - 1] ELSE f[i - 1]]
           exp == CHOOSE f : f = Body(f)
<1>1. PICK g \in [Nat -> Nat] : g[0] = base /\ \A n \in Nat : g[n + 1] = F[g[n]]
  <2>1. F \in [Nat -> Nat]
    OBVIOUS
  <2> HIDE DEF F
  <2> QED BY <2>1, IteratesExist
<1>2. ASSUME NEW n \in Nat
      PROVE  g[n] = IF n = 0 THEN base
                    ELSE IF g[n - 1] < max THEN 2 * g[n - 1] ELSE g[n - 1]
  <2>1. CASE n # 0
    <3>1. n - 1 \in Nat /\ (n - 1) + 1 = n
      BY <2>1
    <3>2. g[(n - 1) + 1] = F[g[n - 1]] /\ g[n - 1] \in Nat
      BY <1>1, <3>1
    <3> HIDE DEF F
    <3>3. g[n] = F[g[n - 1]]
      <4> DEFINE m == n - 1
      <4>1. m + 1 = n /\ g[m + 1] = F[g[m]]
        BY <3>1, <3>2
      <4> HIDE DEF m
      <4>2. g[n] = F[g[m]]
        BY <4>1
      <4> QED BY <4>2 DEF m
    <3> QED BY <2>1, <3>2, <3>3 DEF F
  <2> QED BY <1>1, <2>1
<1>3. g = Body(g)
  BY <1>2
<1>4. ExpDelay(base, max, attempt) = AtMost(exp[attempt], max)
  BY DEF ExpDelay
<1> HIDE DEF Body
<1>5. exp = Body(exp)
  BY <1>3
<1> HIDE DEF exp
<1>6. ASSUME NEW n \in Nat
      PROVE  exp[n] = IF n = 0 THEN base
                      ELSE IF exp[n - 1] < max THEN 2 * exp[n - 1] ELSE exp[n - 1]
  BY <1>5 DEF Body
<1>7. \A n \in Nat : Power2[n] \in Nat
  BY Power2Values
<1> DEFINE Full(n) == base * Power2[n]
           T == {n \in Nat : /\ exp[n] \in Nat
                             /\ IF exp[n] < max THEN exp[n] = Full(n) ELSE Full(n) >= max}
<1>8. \A n \in Nat : Full(n) \in Nat
  BY <1>7
<1>9. Full(0) = base
  BY Power2Values
<1>10. ASSUME NEW n \in Nat PROVE Full(n + 1) = 2 * Full(n)
  <2>1. Power2[n + 1] = 2 * Power2[n]
    BY Power2Values
  <2> DEFINE p == Power2[n]
  <2>2. p \in Nat /\ Power2[n + 1] = 2 * p
    BY <1>7, <2>1
  <2> HIDE DEF p
  <2>3. base * (2 * p) = 2 * (base * p)
    BY <2>2
  <2> QED BY <2>2, <2>3 DEF p
<1> HIDE DEF Full
<1>11. 0 \in T
  BY <1>6, <1>8, <1>9
<1>12. ASSUME NEW n \in Nat, n \in T PROVE n + 1 \in T
  <2>1. n + 1 \in Nat /\ n + 1 # 0 /\ (n + 1) - 1 = n
    OBVIOUS
  <2>2. exp[n + 1] = IF exp[n] < max THEN 2 * exp[n] ELSE exp[n]
    BY <1>6, <2>1
  <2> QED BY <1>8, <1>10, <1>12, <2>1, <2>2
<1> HIDE DEF T
<1>13. attempt \in T
  BY <1>11, <1>12, SetInduction
<1>14. AtMost(exp[attempt], max) = AtMost(Full(attempt), max)
  BY <1>8, <1>13 DEF T, AtMost
<1> QED BY <1>4, <1>14 DEF Full

(* Products of naturals.                                                   *)
LEMMA ProductMonotone ==
  ASSUME NEW x \in Nat, NEW y \in Nat, NEW z \in Nat, y <= z
  PROVE  x * y \in Nat /\ x * y <= x * z
<1>1. PICK d \in Nat : z = y + d
  <2>1. z - y \in Nat /\ z = y + (z - y)
    OBVIOUS
  <2> QED BY <2>1
<1>2. x * z = x * y + x * d /\ x * d \in Nat /\ x * y \in Nat
  BY <1>1
<1> QED BY <1>2

LEMMA Division ==
  ASSUME NEW a \in Nat, NEW b \in Nat, b > 0
  PROVE  /\ a \div b \in Nat
         /\ (a \div b) * b <= a /\ a < ((a \div b) + 1) * b
  OBVIOUS

(* The delay NextBackoff computes is never above the doubled one nor above *)
(* the maximum, and loses less than the jitter ratio and a millisecond,    *)
(* for every base, maximum, ratio and number of attempts.                  *)
THEOREM BackoffBounded == Spec => []BackoffInRange
<1>1. ASSUME InputTyped, kind = "backoff"
      PROVE  BackoffInRange
  <2> DEFINE base == input.base
             max == input.max
             attempt == input.attempt
             random == input.random
             full == AtMost(base * Power2[attempt], max)
             jr == AtLeast(input.jitter, 5)
             delay == NextBackoff(base, max, input.jitter, attempt, random)
             z == full * (jr * random)
  <2>1. /\ base \in Nat /\ max \in Nat /\ attempt \in Nat
        /\ random \in Nat /\ random <= 99
        /\ input.jitter \in Nat /\ input.jitter <= 100
    <3>1. /\ input \in Options
          /\ ValidBackoff(input.base, input.max, input.jitter) /\ input.random < 100
      BY <1>1 DEF InputTyped
    <3>2. /\ base \in Nat /\ max \in Nat /\ attempt \in Nat
          /\ random \in Nat /\ input.jitter \in Nat
      BY <3>1, NumbersAssumption DEF Options
    <3> QED BY <3>1, <3>2 DEF ValidBackoff
  <2>2. Power2[attempt] \in Nat /\ base * Power2[attempt] \in Nat
    BY <2>1, Power2Values
  <2>3. full \in Nat /\ jr \in Nat /\ jr <= 100 /\ jr = AtLeast(5, input.jitter)
    BY <2>1, <2>2 DEF AtMost, AtLeast
  <2>4. delay = AtLeast(0, full * (10000 - jr * random)) \div 10000
    BY <2>1, <2>3, ExpDelayValue DEF NextBackoff
  <2> HIDE DEF full, jr, random
  <2>5. z \in Nat /\ z <= 100 * (full * jr) /\ full * jr \in Nat
    <3>1. jr * random \in Nat /\ jr * random <= jr * 100
      BY <2>1, <2>3, ProductMonotone
    <3>2. full * (jr * random) \in Nat /\ full * (jr * random) <= full * (jr * 100)
      BY <2>3, <3>1, ProductMonotone
    <3>3. full * (jr * 100) = 100 * (full * jr) /\ full * jr \in Nat
      BY <2>3
    <3> QED BY <3>2, <3>3
  <2>6. z <= 10000 * full
    <3>1. full * jr <= full * 100
      BY <2>3, ProductMonotone
    <3> QED BY <2>3, <2>5, <3>1
  <2>7. full * (10000 - jr * random) = 10000 * full - z
    <3>1. jr * random \in Nat
      BY <2>1, <2>3
    <3> QED BY <2>3, <3>1
  <2>8. full * (100 - jr) = 100 * full - full * jr
    BY <2>3
  <2> HIDE DEF z
  <2> DEFINE a == 10000 * full - z
             w == full * jr
  <2>9. a \in Nat /\ a <= 10000 * full /\ delay = a \div 10000
    BY <2>3, <2>4, <2>5, <2>6, <2>7 DEF AtLeast
  <2>10. delay \in Nat /\ delay * 10000 <= a /\ a < (delay + 1) * 10000
    BY <2>9, Division
  <2>11. w \in Nat /\ z <= 100 * w /\ full * (100 - jr) = 100 * full - w
    BY <2>5, <2>8
  <2> HIDE DEF w, delay, a
  <2>12. delay <= full /\ (delay + 1) * 100 > 100 * full - w
    <3>1. a = 10000 * full - z
      BY DEF a
    <3> QED BY <2>3, <2>5, <2>9, <2>10, <2>11, <3>1
  <2>13. delay <= full /\ (delay + 1) * 100 > full * (100 - jr)
    BY <2>11, <2>12
  <2> QED BY <2>13 DEF BackoffInRange, delay, full, jr, random
<1>2. InputTyped => BackoffInRange
  BY <1>1 DEF BackoffInRange
<1> QED BY <1>2, InputsTyped, PTL

-----------------------------------------------------------------------------
(* The ring of counters.                                                   *)

(* Every second has a counter.                                             *)
LEMMA CounterOf ==
  ASSUME NEW a \in Int
  PROVE  /\ a % Buckets \in Slots
         /\ a \div Buckets \in Int
         /\ a = Buckets * (a \div Buckets) + (a % Buckets)
<1>1. Buckets \in Nat /\ Buckets > 0
  BY BucketsAssumption
<1> QED BY <1>1 DEF Slots

LEMMA OneRemainder ==
  ASSUME NEW q \in Int, NEW r \in Slots, NEW p \in Int, NEW s \in Slots,
         Buckets * q + r = Buckets * p + s
  PROVE  r = s
<1>1. Buckets \in Nat /\ Buckets > 0 /\ r \in Nat /\ s \in Nat /\ r < Buckets /\ s < Buckets
  BY BucketsAssumption DEF Slots
<1>2. ASSUME NEW x \in Int, NEW y \in Int, x < y PROVE Buckets * x + Buckets <= Buckets * y
  <2>1. PICK d \in Nat : y = x + 1 + d
    <3>1. y - x - 1 \in Nat /\ y = x + 1 + (y - x - 1)
      BY <1>2
    <3> QED BY <3>1
  <2>2. Buckets * y = Buckets * x + Buckets + Buckets * d /\ Buckets * d \in Nat
    BY <1>1, <2>1
  <2>3. Buckets * x \in Int
    BY <1>1
  <2> QED BY <1>1, <2>2, <2>3
<1>3. Buckets * q \in Int /\ Buckets * p \in Int
  BY <1>1
<1>4. ~ (q < p) /\ ~ (p < q)
  BY <1>1, <1>2, <1>3
<1> QED BY <1>1, <1>3, <1>4

(* Two seconds have the same counter if and only if whole rounds of the    *)
(* ring lie between them.                                                  *)
LEMMA CountersApart ==
  ASSUME NEW a \in Int, NEW b \in Int, a < b, b - a < Buckets
  PROVE  a % Buckets # b % Buckets
<1>1. Buckets \in Nat /\ Buckets > 0
  BY BucketsAssumption
<1> DEFINE q == a \div Buckets
           p == b \div Buckets
           r == a % Buckets
<1>2. q \in Int /\ p \in Int /\ r \in Slots /\ a = Buckets * q + r
      /\ b = Buckets * p + (b % Buckets)
  BY CounterOf
<1>3. SUFFICES ASSUME b % Buckets = r PROVE FALSE
  OBVIOUS
<1>4. b = Buckets * p + r
  BY <1>2, <1>3
<1> HIDE DEF q, p, r
<1>5. r \in Nat
  BY <1>1, <1>2 DEF Slots
<1>6. Buckets * p \in Int /\ Buckets * q \in Int /\ Buckets * (p - q) = Buckets * p - Buckets * q
  BY <1>1, <1>2
<1>7. Buckets * (p - q) = b - a
  BY <1>2, <1>4, <1>5, <1>6
<1>8. p - q \in Nat /\ 1 <= p - q
  BY <1>1, <1>2, <1>7
<1>9. Buckets * 1 <= Buckets * (p - q)
  BY <1>1, <1>8, ProductMonotone
<1> QED BY <1>1, <1>7, <1>9

LEMMA CountersAround ==
  ASSUME NEW a \in Int, NEW s \in Int, a < s
  PROVE  \E i \in 1 .. Buckets : (a + i) % Buckets = s % Buckets
<1>1. Buckets \in Nat /\ Buckets > 0
  BY BucketsAssumption
<1> DEFINE d == s - a - 1
           q == d \div Buckets
           r == d % Buckets
           p == s \div Buckets
           t == a + (r + 1)
           u == t \div Buckets
<1>2. d \in Int /\ s = a + d + 1
  OBVIOUS
<1> HIDE DEF d
<1>3. q \in Int /\ r \in Slots /\ d = Buckets * q + r
  BY <1>2, CounterOf
<1> HIDE DEF q, r
<1>4. r \in Nat /\ r + 1 \in 1 .. Buckets /\ t \in Int
  BY <1>1, <1>3 DEF Slots
<1>5. p \in Int /\ s % Buckets \in Slots /\ s = Buckets * p + (s % Buckets)
  BY CounterOf
<1>6. t = s - Buckets * q
  <2>1. Buckets * q \in Int
    BY <1>1, <1>3
  <2> QED BY <1>2, <1>3, <1>4, <2>1
<1> HIDE DEF p, t
<1>7. t = Buckets * (p - q) + (s % Buckets)
  <2> DEFINE v == s % Buckets
  <2>1. v \in Int /\ s = Buckets * p + v
    BY <1>1, <1>5 DEF Slots
  <2> HIDE DEF v
  <2>2. Buckets * (p - q) = Buckets * p - Buckets * q /\ Buckets * p \in Int /\ Buckets * q \in Int
    BY <1>1, <1>3, <1>5
  <2>3. t = Buckets * (p - q) + v
    BY <1>6, <2>1, <2>2
  <2> QED BY <2>3 DEF v
<1>8. u \in Int /\ t % Buckets \in Slots /\ t = Buckets * u + (t % Buckets)
  BY <1>4, CounterOf
<1> HIDE DEF u
<1>9. p - q \in Int
  BY <1>3, <1>5
<1>10. t % Buckets = s % Buckets
  BY <1>5, <1>7, <1>8, <1>9, OneRemainder
<1> QED BY <1>4, <1>10 DEF t

(* What a use of the ring leaves, before a frame is counted.               *)
SlidRight ==
  LET slid == SlideHzBuckets IN
  /\ slid \in [sec : 0 .. MaxClock, hz_buckets : [Slots -> Nat]] /\ slid.sec = now
  /\ SeenAt \in [Seconds -> Nat]
  /\ SetBackAt \in Seconds \cup {Never} /\ SetBackAt <= now
  /\ \A s \in Seconds : s > now => SeenAt[s] = 0
  /\ \A s \in now - Buckets + 1 .. now : s > SetBackAt =>
       slid.hz_buckets[s % Buckets] = IF s \in Seconds THEN SeenAt[s] ELSE 0

LEMMA SlideRight ==
  ASSUME BucketsTyped, CountersRight
  PROVE  SlidRight
<1> DEFINE gap == IF now - slot.sec > Buckets THEN Buckets ELSE now - slot.sec
           slid == SlideHzBuckets
<1>1. /\ Buckets \in Nat /\ Buckets > 0 /\ MaxClock \in Nat
      /\ now \in Nat /\ now >= 1 /\ now \in 0 .. MaxClock /\ now \in Seconds
      /\ slot.sec \in Nat /\ slot.hz_buckets \in [Slots -> Nat] /\ seen \in [Seconds -> Nat]
      /\ setBackTo \in Int /\ setBackTo \in Seconds \cup {Never} /\ setBackTo <= slot.sec
      /\ Never \in Int
  BY BucketsAssumption, BoundsAssumption DEF BucketsTyped, Seconds, Never
<1>2. slot = [sec |-> slot.sec, hz_buckets |-> slot.hz_buckets]
  BY DEF BucketsTyped
<1>3. \A s \in Seconds : s \in Nat /\ s >= 1 /\ (s > slot.sec => seen[s] = 0)
  BY <1>1 DEF BucketsTyped, Seconds
<1>4. CASE now = slot.sec
  <2>1. slid = slot /\ SeenAt = seen /\ SetBackAt = setBackTo
    BY <1>1, <1>4 DEF SlideHzBuckets, SeenAt, SetBackAt
  <2> HIDE DEF slid
  <2> QED BY <1>1, <1>3, <1>4, <2>1 DEF SlidRight, slid, BucketsTyped, CountersRight, Received
<1>5. CASE slot.sec = 0
  <2>1. slid = [slot EXCEPT !.sec = now] /\ SeenAt = seen /\ SetBackAt = setBackTo
    BY <1>1, <1>5 DEF SlideHzBuckets, SeenAt, SetBackAt
  <2>2. slid = [sec |-> now, hz_buckets |-> slot.hz_buckets]
    BY <1>2, <2>1
  <2>3. setBackTo = Never /\ Never = -Buckets
    BY <1>1, <1>5 DEF Seconds, Never
  <2>4. ASSUME NEW s \in now - Buckets + 1 .. now
        PROVE  slot.hz_buckets[s % Buckets] = IF s \in Seconds THEN seen[s] ELSE 0
    <3>1. s \in Int /\ -Buckets < s /\ -Buckets \in Int
      BY <1>1
    <3>2. PICK i \in 1 .. Buckets : (-Buckets + i) % Buckets = s % Buckets
      BY <3>1, CountersAround
    <3> DEFINE z == -Buckets + i
    <3>3. z \in slot.sec - Buckets + 1 .. slot.sec /\ z > setBackTo /\ z \notin Seconds
      BY <1>1, <1>5, <2>3 DEF Seconds
    <3>4. slot.hz_buckets[z % Buckets] = 0
      BY <3>3 DEF CountersRight, Received
    <3>5. s \in Seconds => seen[s] = 0
      BY <1>3, <1>5
    <3> QED BY <3>2, <3>4, <3>5
  <2> HIDE DEF slid
  <2>5. slid \in [sec : 0 .. MaxClock, hz_buckets : [Slots -> Nat]] /\ slid.sec = now
        /\ slid.hz_buckets = slot.hz_buckets
    BY <1>1, <2>2
  <2>6. setBackTo <= now /\ \A s \in Seconds : s > now => seen[s] = 0
    BY <1>1, <1>3, <1>5
  <2> QED BY <1>1, <2>1, <2>4, <2>5, <2>6 DEF SlidRight, slid
<1>6. CASE now # slot.sec /\ slot.sec # 0
  <2> DEFINE cleared == Cleared(slot.sec, gap)
             ring == [i \in Slots |-> IF i \in cleared THEN 0 ELSE slot.hz_buckets[i]]
  <2>1. slid = [sec |-> now, hz_buckets |-> ring]
    BY <1>6 DEF SlideHzBuckets
  <2> HIDE DEF slid
  <2>2. ring \in [Slots -> Nat]
    BY <1>1
  <2>3. slid \in [sec : 0 .. MaxClock, hz_buckets : [Slots -> Nat]] /\ slid.sec = now
        /\ slid.hz_buckets = ring
    <3> HIDE DEF ring
    <3> QED BY <1>1, <2>1, <2>2
  <2>4. CASE now < slot.sec
    <3>1. SetBackAt = now /\ SeenAt = [s \in Seconds |-> IF s > now THEN 0 ELSE seen[s]]
      BY <2>4 DEF SetBackAt, SeenAt
    <3>2. SeenAt \in [Seconds -> Nat] /\ \A s \in Seconds : s > now => SeenAt[s] = 0
      BY <1>1, <3>1
    <3>3. \A s \in now - Buckets + 1 .. now : ~ (s > SetBackAt)
      BY <1>1, <3>1
    <3>4. SetBackAt \in Seconds \cup {Never} /\ SetBackAt <= now
      BY <1>1, <3>1
    <3> QED BY <2>3, <3>2, <3>3, <3>4 DEF SlidRight, slid
  <2>5. CASE now > slot.sec
    <3>1. SetBackAt = setBackTo /\ SeenAt = seen
      BY <1>1, <2>5 DEF SetBackAt, SeenAt
    <3>2. gap \in Nat /\ gap <= Buckets /\ slot.sec + gap <= now
          /\ (gap = Buckets \/ slot.sec + gap = now)
      BY <1>1, <2>5
    <3> HIDE DEF gap
    <3>3. ASSUME NEW s \in now - Buckets + 1 .. now, s > setBackTo
          PROVE  ring[s % Buckets] = IF s \in Seconds THEN seen[s] ELSE 0
      <4>1. s \in Int /\ s % Buckets \in Slots
        BY <1>1, CounterOf
      <4>2. CASE s > slot.sec
        <5>1. \E i \in 1 .. gap : (slot.sec + i) % Buckets = s % Buckets
          <6>1. CASE gap = Buckets
            <7>1. slot.sec \in Int /\ slot.sec < s
              BY <1>1, <4>1, <4>2
            <7>2. \E i \in 1 .. Buckets : (slot.sec + i) % Buckets = s % Buckets
              BY <4>1, <7>1, CountersAround
            <7> QED BY <6>1, <7>2, Zenon
          <6>2. CASE slot.sec + gap = now
            <7>1. s - slot.sec \in 1 .. gap /\ slot.sec + (s - slot.sec) = s
              BY <1>1, <3>2, <4>1, <4>2, <6>2
            <7> QED BY <7>1
          <6> QED BY <3>2, <6>1, <6>2
        <5>2. s % Buckets \in cleared
          BY <5>1, Zenon DEF Cleared
        <5>3. s \in Seconds => seen[s] = 0
          BY <1>3, <4>2
        <5> HIDE DEF cleared
        <5> QED BY <4>1, <5>2, <5>3
      <4>3. CASE s <= slot.sec
        <5>1. s % Buckets \notin cleared
          <6>1. SUFFICES ASSUME NEW i \in 1 .. gap PROVE s % Buckets # (slot.sec + i) % Buckets
            BY DEF Cleared
          <6>2. slot.sec + i \in Int /\ s < slot.sec + i /\ (slot.sec + i) - s < Buckets
            BY <1>1, <3>2, <4>1, <4>3
          <6> QED BY <4>1, <6>2, CountersApart
        <5>2. s \in slot.sec - Buckets + 1 .. slot.sec
          BY <1>1, <2>5, <4>1, <4>3
        <5>3. slot.hz_buckets[s % Buckets] = Received(s)
          BY <3>3, <5>2 DEF CountersRight
        <5> HIDE DEF cleared
        <5> QED BY <4>1, <5>1, <5>3 DEF Received
      <4> QED BY <1>1, <4>1, <4>2, <4>3
    <3>4. setBackTo <= now /\ \A s \in Seconds : s > now => seen[s] = 0
      BY <1>1, <1>3, <2>5
    <3> HIDE DEF ring
    <3> QED BY <1>1, <2>3, <3>1, <3>3, <3>4 DEF SlidRight, slid
  <2> QED BY <1>1, <1>6, <2>4, <2>5
<1> QED BY <1>4, <1>5, <1>6

(* The ring alone: its counters are right for as long as it is used.       *)
LEMMA RingRight == BucketsSpec => [](BucketsTyped /\ CountersRight)
<1>1. BucketsInit => BucketsTyped /\ CountersRight
  <2> SUFFICES ASSUME BucketsInit PROVE BucketsTyped /\ CountersRight
    OBVIOUS
  <2>1. Buckets \in Nat /\ Buckets > 0 /\ MaxClock \in Nat /\ MaxClock > 0
    BY BucketsAssumption, BoundsAssumption
  <2>2. slot \in [sec : 0 .. MaxClock, hz_buckets : [Slots -> Nat]] /\ slot.sec = 0
        /\ \A i \in Slots : slot.hz_buckets[i] = 0
    BY <2>1 DEF BucketsInit, Empty
  <2>3. BucketsTyped
    BY <2>1, <2>2 DEF BucketsInit, BucketsTyped, Seconds, Never
  <2>4. CountersRight
    <3>1. ASSUME NEW s \in slot.sec - Buckets + 1 .. slot.sec
          PROVE  slot.hz_buckets[s % Buckets] = Received(s)
      <4>1. s \in Int
        BY <2>1, <2>2
      <4>2. slot.hz_buckets[s % Buckets] = 0
        BY <2>2, <4>1, CounterOf
      <4>3. Received(s) = 0
        BY DEF Received, BucketsInit
      <4> QED BY <4>2, <4>3
    <3> QED BY <3>1 DEF CountersRight
  <2> QED BY <2>3, <2>4
<1>2. BucketsTyped /\ CountersRight /\ [BucketsNext]_bucketVars => (BucketsTyped /\ CountersRight)'
  <2> SUFFICES ASSUME BucketsTyped, CountersRight, [BucketsNext]_bucketVars
               PROVE  BucketsTyped' /\ CountersRight'
    OBVIOUS
  <2> DEFINE slid == SlideHzBuckets
             ring == slid.hz_buckets
             n == now % Buckets
  <2>1. /\ slid \in [sec : 0 .. MaxClock, hz_buckets : [Slots -> Nat]] /\ slid.sec = now
        /\ SeenAt \in [Seconds -> Nat]
        /\ SetBackAt \in Seconds \cup {Never} /\ SetBackAt <= now
        /\ \A s \in Seconds : s > now => SeenAt[s] = 0
        /\ \A s \in now - Buckets + 1 .. now : s > SetBackAt =>
             ring[s % Buckets] = IF s \in Seconds THEN SeenAt[s] ELSE 0
    BY SlideRight DEF SlidRight
  <2> HIDE DEF slid
  <2>2. now \in Seconds /\ now \in Int /\ Buckets \in Nat
    BY BucketsAssumption DEF BucketsTyped, Seconds
  <2>3. n \in Slots
    BY <2>2, CounterOf
  <2>4. CASE GetDiagnostics
    <3>1. slot' = slid /\ seen' = SeenAt /\ setBackTo' = SetBackAt /\ now' = now
      BY <2>4 DEF GetDiagnostics, slid
    <3> QED BY <2>1, <2>2, <3>1 DEF BucketsTyped, CountersRight, Received
  <2>5. CASE DeliverPushToSub
    <3>1. /\ slot' = [slid EXCEPT !.hz_buckets[n] = @ + 1]
          /\ seen' = [SeenAt EXCEPT ![now] = @ + 1]
          /\ setBackTo' = SetBackAt /\ now' = now
      BY <2>5 DEF DeliverPushToSub, slid
    <3> HIDE DEF n
    <3>2. slot' \in [sec : 0 .. MaxClock, hz_buckets : [Slots -> Nat]] /\ slot'.sec = now
          /\ \A i \in Slots : slot'.hz_buckets[i] = IF i = n THEN ring[i] + 1 ELSE ring[i]
      BY <2>1, <2>3, <3>1
    <3>3. seen' \in [Seconds -> Nat]
          /\ \A s \in Seconds : seen'[s] = IF s = now THEN SeenAt[s] + 1 ELSE SeenAt[s]
      BY <2>1, <2>2, <3>1
    <3>4. BucketsTyped'
      BY <2>1, <2>2, <3>1, <3>2, <3>3 DEF BucketsTyped
    <3>5. ASSUME NEW s \in now - Buckets + 1 .. now, s > SetBackAt
          PROVE  slot'.hz_buckets[s % Buckets] = IF s \in Seconds THEN seen'[s] ELSE 0
      <4>1. s \in Int /\ s % Buckets \in Slots
        BY <2>2, CounterOf
      <4>2. ring[s % Buckets] = IF s \in Seconds THEN SeenAt[s] ELSE 0
        BY <2>1, <3>5
      <4>3. CASE s = now
        BY <2>2, <3>2, <3>3, <4>1, <4>2, <4>3 DEF n
      <4>4. CASE s # now
        <5>1. s < now /\ now - s < Buckets
          BY <2>2, <4>1, <4>4
        <5>2. s % Buckets # n
          BY <2>2, <4>1, <5>1, CountersApart DEF n
        <5>3. slot'.hz_buckets[s % Buckets] = ring[s % Buckets]
          BY <3>2, <4>1, <5>2
        <5> QED BY <3>3, <4>2, <4>4, <5>3
      <4> QED BY <4>3, <4>4
    <3>6. CountersRight'
      BY <3>1, <3>2, <3>5 DEF CountersRight, Received
    <3> QED BY <3>4, <3>6
  <2>6. CASE ClockMoves
    BY <2>6 DEF ClockMoves, BucketsTyped, CountersRight, Received
  <2>7. CASE UNCHANGED bucketVars
    BY <2>7 DEF bucketVars, BucketsTyped, CountersRight, Received
  <2> QED BY <2>4, <2>5, <2>6, <2>7 DEF BucketsNext
<1> QED BY <1>1, <1>2, PTL DEF BucketsSpec

(* The counters GetDiagnostics sums up are those of the frames of the last *)
(* minute, for every number of counters, however long the ring was not     *)
(* used, and again a minute after the clock was set back.                  *)
THEOREM WindowCounted == Spec => []WindowExact
<1>1. Spec => BucketsSpec
  <2>1. Init => BucketsInit
    BY DEF Init
  <2>2. [Next]_vars => [BucketsNext]_bucketVars
    BY DEF Next, Pick, Count, vars
  <2> QED BY <2>1, <2>2, PTL DEF Spec, BucketsSpec
<1>2. BucketsTyped /\ CountersRight => WindowExact
  <2> SUFFICES ASSUME BucketsTyped, CountersRight, slot.sec - setBackTo >= Buckets,
                      NEW s \in slot.sec - Buckets + 1 .. slot.sec
               PROVE  slot.hz_buckets[s % Buckets] = Received(s)
    BY DEF WindowExact
  <2>1. Buckets \in Nat /\ slot.sec \in Int /\ setBackTo \in Int
    BY BucketsAssumption DEF BucketsTyped, Seconds, Never
  <2>2. s > setBackTo
    BY <2>1
  <2> QED BY <2>2 DEF CountersRight
<1> QED BY <1>1, <1>2, RingRight, PTL
=============================================================================

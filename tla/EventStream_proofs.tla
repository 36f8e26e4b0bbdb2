------------------------- MODULE EventStream_proofs -------------------------
(***************************************************************************)
(* Theorems about EventStream, for every queue size, number of frames and  *)
(* number of faults.                                                       *)
(***************************************************************************)
EXTENDS EventStream, TLAPS

-----------------------------------------------------------------------------
(* Queues: what is left, and what is added, has the type of the rest.      *)
LEMMA QueueOps ==
  ASSUME NEW S, NEW q \in Seq(S)
  PROVE  /\ <<>> \in Seq(S)
         /\ \A e \in S : Append(q, e) \in Seq(S)
         /\ q # <<>> => /\ Head(q) \in S /\ Tail(q) \in Seq(S)
                        /\ \A e \in S : Append(Tail(q), e) \in Seq(S)
<1>1. <<>> \in Seq(S) /\ \A e \in S : Append(q, e) \in Seq(S)
  OBVIOUS
<1>2. ASSUME q # <<>> PROVE Head(q) \in S /\ Tail(q) \in Seq(S)
  BY <1>2
<1>3. ASSUME q # <<>>, NEW e \in S PROVE Append(Tail(q), e) \in Seq(S)
  BY <1>2, <1>3
<1> QED BY <1>1, <1>2, <1>3

(* The control thread only ever takes the head of the wire.                *)
LEMMA ReceivedType ==
  ASSUME StreamType, NEW kind, Received(kind)
  PROVE  Head(wire).seq \in Nat /\ wire' \in Seq(Message)
<1>1. wire \in Seq(Message) /\ wire # <<>> /\ wire' = Tail(wire)
  BY DEF StreamType, Received
<1>2. Head(wire) \in Message /\ Tail(wire) \in Seq(Message)
  BY <1>1
<1> QED BY <1>1, <1>2 DEF Message

(* What a delivery does to the numbers, in full.                           *)
LEMMA DeliverType ==
  ASSUME StreamType, NEW n \in Nat, DeliverPushToSub(n)
  PROVE  /\ last_seq' \in Nat
         /\ status' \in {"none", "Started", "Resumed", "Gap", "Paused", "Closed"}
         /\ first' \in Nat /\ got' \in Nat /\ told' \in Nat /\ heard' \in Nat
<1>0. /\ last_seq \in Nat /\ first \in Nat /\ got \in Nat /\ told \in Nat /\ heard \in Nat
      /\ status \in {"none", "Started", "Resumed", "Gap", "Paused", "Closed"}
  BY DEF StreamType
<1>1. CASE UNCHANGED <<last_seq, toldVars>>
  BY <1>0, <1>1 DEF DeliverPushToSub, toldVars
<1>2. CASE Event /\ n # 0 /\ ~Stale(n) /\ Numbered(n)
  <2>1. Lost(n) \in Nat
    BY <1>0, <1>2 DEF Lost, Stale
  <2> QED BY <1>0, <1>2, <2>1 DEF DeliverPushToSub, Numbered
<1> QED BY <1>1, <1>2 DEF DeliverPushToSub, toldVars

(* A delivery keeps the account of an Active stream, and goes forward.     *)
LEMMA DeliverKeeps ==
  ASSUME StreamType, NEW n \in Nat, DeliverPushToSub(n), slot_state = "Active",
         Event /\ first > 1 => last_seq + 1 = first + got + told,
         heard <= last_seq, ~Event => heard = 0
  PROVE  /\ Event /\ first' > 1 => last_seq' + 1 = first' + got' + told'
         /\ heard' <= last_seq' /\ heard' >= heard /\ (~Event => heard' = 0)
         /\ heard' = heard \/ heard' > heard
<1>0. last_seq \in Nat /\ first \in Nat /\ got \in Nat /\ told \in Nat /\ heard \in Nat
  BY DEF StreamType
<1>1. CASE UNCHANGED <<last_seq, toldVars>>
  BY <1>0, <1>1 DEF toldVars
<1>2. CASE Event /\ n # 0 /\ ~Stale(n) /\ Numbered(n)
  <2>1. last_seq' = n /\ got' = got + 1 /\ heard' = n /\ told' = told + Lost(n) /\ first' = first
    BY <1>2 DEF Numbered
  <2>2. CASE last_seq = 0
    BY <1>0, <1>2, <2>1, <2>2 DEF Lost
  <2>3. CASE last_seq # 0
    <3>1. n > last_seq /\ Lost(n) = n - last_seq - 1
      BY <1>0, <1>2, <2>3 DEF Stale, Lost
    <3> QED BY <1>0, <1>2, <2>1, <3>1
  <2> QED BY <2>2, <2>3
<1> QED BY <1>1, <1>2 DEF DeliverPushToSub, toldVars

-----------------------------------------------------------------------------
(* Types.                                                                  *)

SlotType ==
  /\ slot_state \in {"Pending", "Active", "Paused", "Closed"}
  /\ last_seq \in Nat /\ expected_resume_seq \in Nat
  /\ pending_buffer \in Seq(Nat) /\ draining \in Nat \cup {NotDraining}
FlagType ==
  /\ awaiting \in BOOLEAN /\ is_reconnect_resume \in BOOLEAN /\ ever_active \in BOOLEAN
  /\ fresh_retry_done \in BOOLEAN /\ reconnecting \in BOOLEAN /\ up \in BOOLEAN
OptsType ==
  opts \in [semantics : {"Telemetry", "Event"}, drop_policy : {"DropOldest", "DropNewest"},
            replay_history : BOOLEAN]
RobotType ==
  /\ head \in Nat /\ request \in Nat \cup {NoRequest} /\ start \in Nat /\ cursor \in Nat
  /\ wire \in Seq(Message) /\ faults \in Nat
ToldType ==
  /\ status \in {"none", "Started", "Resumed", "Gap", "Paused", "Closed"}
  /\ first \in Nat /\ got \in Nat /\ told \in Nat /\ heard \in Nat

(* StreamType is the five parts, before and after a step.                  *)
LEMMA TypeParts ==
  /\ StreamType <=> OptsType /\ SlotType /\ FlagType /\ RobotType /\ ToldType
  /\ StreamType' <=> OptsType' /\ SlotType' /\ FlagType' /\ RobotType' /\ ToldType'
<1>1. StreamType <=> OptsType /\ SlotType /\ FlagType /\ RobotType /\ ToldType
  BY DEF StreamType, OptsType, SlotType, FlagType, RobotType, ToldType
<1>2. StreamType' <=> OptsType' /\ SlotType' /\ FlagType' /\ RobotType' /\ ToldType'
  BY DEF StreamType, OptsType, SlotType, FlagType, RobotType, ToldType
<1> QED BY <1>1, <1>2

(* Every step keeps the types.                                             *)
LEMMA StreamTypeInductive == StreamType /\ [Next]_vars => StreamType'
<1> SUFFICES ASSUME StreamType, [Next]_vars
             PROVE  StreamType'
  OBVIOUS
<1> USE DEF NoRequest, NotDraining
<1>0. OptsType /\ SlotType /\ FlagType /\ RobotType /\ ToldType
  BY TypeParts
<1>r. ASSUME NEW kind, Received(kind)
      PROVE  /\ Head(wire).seq \in Nat /\ wire' \in Seq(Message)
             /\ OptsType' /\ UNCHANGED <<up, faults>>
  BY <1>0, <1>r, ReceivedType DEF Received, OptsType
<1>1. CASE HandleSdkTopicPush
  <2>1. Received("push")
    BY <1>1 DEF HandleSdkTopicPush
  <2>2. FlagType' /\ RobotType'
    BY <1>0, <1>1, <1>r, <2>1 DEF HandleSdkTopicPush, FlagType, RobotType, robotVars
  <2>3. CASE slot_state = "Pending"
    <3>1. pending_buffer' \in Seq(Nat)
      <4>1. /\ pending_buffer \in Seq(Nat) /\ Head(wire).seq \in Nat /\ QueueSize > 0
            /\ Buffer(Head(wire).seq)
        BY <1>0, <1>1, <1>r, <2>1, <2>3, StreamAssumption DEF HandleSdkTopicPush, SlotType
      <4>2. Len(pending_buffer) < QueueSize \/ pending_buffer # <<>>
        BY <4>1, StreamAssumption
      <4> QED BY <4>1, <4>2, QueueOps DEF Buffer
    <3>2. SlotType' /\ ToldType'
      BY <1>0, <1>1, <2>3, <3>1 DEF HandleSdkTopicPush, SlotType, ToldType, toldVars
    <3> QED BY <1>r, <2>1, <2>2, <3>2, TypeParts
  <2>4. CASE slot_state = "Active"
    <3>1. DeliverPushToSub(Head(wire).seq) /\ Head(wire).seq \in Nat
      BY <1>1, <1>r, <2>1, <2>4 DEF HandleSdkTopicPush
    <3>2. /\ last_seq' \in Nat /\ ToldType'
      BY <3>1, DeliverType DEF ToldType
    <3>3. SlotType'
      BY <1>0, <1>1, <2>4, <3>2 DEF HandleSdkTopicPush, SlotType
    <3> QED BY <1>r, <2>1, <2>2, <3>2, <3>3, TypeParts
  <2>5. CASE slot_state \in {"Paused", "Closed"}
    <3>1. SlotType' /\ ToldType'
      BY <1>0, <1>1, <2>5 DEF HandleSdkTopicPush, SlotType, ToldType, toldVars
    <3> QED BY <1>r, <2>1, <2>2, <3>1, TypeParts
  <2> QED BY <1>1, <2>3, <2>4, <2>5 DEF HandleSdkTopicPush
<1>2. CASE DrainPendingBuffer
  <2>1. OptsType' /\ FlagType' /\ RobotType'
    BY <1>0, <1>2 DEF DrainPendingBuffer, OptsType, FlagType, RobotType, robotVars
  <2>2. CASE UNCHANGED <<last_seq, toldVars>>
    <3>1. pending_buffer' \in Seq(Nat) /\ draining' \in Nat \cup {NotDraining} /\ UNCHANGED <<slot_state, expected_resume_seq>>
      BY <1>0, <1>2, QueueOps DEF DrainPendingBuffer, SlotType
    <3>2. SlotType' /\ ToldType'
      BY <1>0, <2>2, <3>1 DEF SlotType, ToldType, toldVars
    <3> QED BY <2>1, <3>2, TypeParts
  <2>3. CASE pending_buffer # <<>> /\ DeliverPushToSub(Head(pending_buffer))
    <3>1. Head(pending_buffer) \in Nat
      BY <1>0, <2>3 DEF SlotType
    <3>2. last_seq' \in Nat /\ ToldType'
      BY <2>3, <3>1, DeliverType DEF ToldType
    <3>3. pending_buffer' \in Seq(Nat) /\ draining' \in Nat \cup {NotDraining} /\ UNCHANGED <<slot_state, expected_resume_seq>>
      BY <1>0, <1>2, QueueOps DEF DrainPendingBuffer, SlotType
    <3>4. SlotType'
      BY <1>0, <3>2, <3>3 DEF SlotType
    <3> QED BY <2>1, <3>2, <3>4, TypeParts
  <2> QED BY <1>2, <2>2, <2>3 DEF DrainPendingBuffer
<1>s. ASSUME NEW since \in Nat, NEW again \in BOOLEAN, SendSubscribe(since, again)
      PROVE  /\ expected_resume_seq' \in Nat /\ request' \in Nat \cup {NoRequest}
             /\ is_reconnect_resume' \in BOOLEAN /\ awaiting' \in BOOLEAN
             /\ slot_state' \in {"Pending", "Active", "Paused", "Closed"}
             /\ start' \in Nat /\ cursor' \in Nat
  BY <1>s DEF SendSubscribe
<1>3. CASE Resubscribe
  <2>1. (IF Event /\ opts.replay_history /\ last_seq > 0 THEN last_seq + 1 ELSE 0) \in Nat
    BY <1>0 DEF SlotType
  <2>2. SlotType'
    BY <1>0, <1>3, <1>s, <2>1 DEF Resubscribe, SlotType
  <2>3. FlagType' /\ OptsType'
    BY <1>0, <1>3, <1>s, <2>1 DEF Resubscribe, FlagType, OptsType
  <2>4. RobotType' /\ ToldType'
    BY <1>0, <1>3, <1>s, <2>1 DEF Resubscribe, RobotType, ToldType, toldVars
  <2> QED BY <2>2, <2>3, <2>4, TypeParts
<1>4. CASE AckAccepted
  <2> DEFINE k == Head(wire).seq
  <2>1. Received("ack") /\ k \in Nat
    BY <1>4, <1>r DEF AckAccepted
  <2> HIDE DEF k
  <2>2. ToldType' /\ last_seq' \in Nat
    <3>1. CASE Continues(k)
      BY <1>0, <2>1, <3>1 DEF Continues, ToldType, SlotType
    <3>2. CASE StartsAnew(k)
      BY <1>0, <2>1, <3>2 DEF StartsAnew, ToldType, SlotType
    <3> QED BY <1>4, <3>1, <3>2 DEF AckAccepted, k
  <2>3. SlotType'
    BY <1>0, <1>4, <2>1, <2>2 DEF AckAccepted, SlotType, k
  <2>4. FlagType' /\ RobotType'
    BY <1>0, <1>4, <1>r, <2>1 DEF AckAccepted, FlagType, RobotType, robotVars
  <2> QED BY <1>r, <2>1, <2>2, <2>3, <2>4, TypeParts
<1>5. CASE AckFreshRetry
  <2>1. Received("retry") /\ SendSubscribe(0, reconnecting) /\ reconnecting \in BOOLEAN
    BY <1>0, <1>5 DEF AckFreshRetry, FlagType
  <2>2. SlotType'
    BY <1>0, <1>5, <1>s, <2>1 DEF AckFreshRetry, SlotType
  <2>3. FlagType' /\ RobotType' /\ ToldType'
    BY <1>0, <1>5, <1>r, <1>s, <2>1 DEF AckFreshRetry, FlagType, RobotType, ToldType, toldVars
  <2> QED BY <1>r, <2>1, <2>2, <2>3, TypeParts
<1>c. ASSUME SlotClosed, OptsType', UNCHANGED <<up, faults>>, wire' \in Seq(Message)
      PROVE  StreamType'
  <2>1. SlotType' /\ FlagType'
    BY <1>0, <1>c DEF SlotClosed, SlotType, FlagType
  <2>2. RobotType' /\ ToldType'
    BY <1>0, <1>c DEF SlotClosed, RobotType, ToldType, robotVars
  <2> QED BY <1>c, <2>1, <2>2, TypeParts
<1>6. CASE AckRejected
  BY <1>6, <1>c, <1>r DEF AckRejected
<1>7. CASE AckTooLate
  <2>1. OptsType' /\ UNCHANGED <<up, faults>> /\ wire' \in Seq(Message)
    BY <1>7, <1>r DEF AckTooLate
  <2>2. SlotType' /\ FlagType'
    BY <1>0, <1>7, <2>1 DEF AckTooLate, SlotType, FlagType, slotVars
  <2>3. RobotType' /\ ToldType'
    BY <1>0, <1>7, <2>1 DEF AckTooLate, RobotType, ToldType, robotVars, toldVars
  <2> QED BY <2>1, <2>2, <2>3, TypeParts
<1>8. CASE Unsubscribe
  BY <1>0, <1>8, <1>c DEF Unsubscribe, OptsType, RobotType
<1>9. CASE OnTransportClose
  <2>1. OptsType' /\ SlotType'
    BY <1>0, <1>9, QueueOps DEF OnTransportClose, OptsType, SlotType
  <2>2. FlagType'
    BY <1>0, <1>9 DEF OnTransportClose, FlagType
  <2>3. RobotType' /\ ToldType'
    BY <1>0, <1>9 DEF OnTransportClose, Spend, RobotType, ToldType
  <2> QED BY <2>1, <2>2, <2>3, TypeParts
<1>w. ASSUME UNCHANGED <<opts, slotVars, up, toldVars>>, RobotType'
      PROVE  StreamType'
  <2>1. OptsType' /\ SlotType' /\ FlagType' /\ ToldType'
    BY <1>0, <1>w DEF OptsType, SlotType, FlagType, ToldType, slotVars, toldVars
  <2> QED BY <1>w, <2>1, TypeParts
<1>m. ASSUME NEW m \in Message, RobotSends(m)
      PROVE  wire' \in Seq(Message) /\ head' \in Nat /\ UNCHANGED <<opts, slotVars, up, toldVars>>
  BY <1>0, <1>m DEF RobotSends, RobotType
<1>11. CASE Publish \/ RobotSubscribes \/ RobotRestarts
  <2>1. RobotType'
    BY <1>0, <1>11 DEF Publish, RobotSubscribes, RobotRestarts, Spend, RobotType
  <2> QED BY <1>11, <1>w, <2>1 DEF Publish, RobotSubscribes, RobotRestarts
<1>12. CASE RobotAcks
  <2>1. PICK k \in Nat : RobotSends([kind |-> "ack", seq |-> k]) /\ (UNCHANGED faults \/ Spend)
    BY <1>0, <1>12 DEF RobotAcks, RobotType
  <2>2. [kind |-> "ack", seq |-> k] \in Message
    BY DEF Message
  <2>3. RobotType'
    BY <1>0, <1>12, <1>m, <2>1, <2>2 DEF RobotAcks, Spend, RobotType
  <2> QED BY <1>m, <1>w, <2>1, <2>2, <2>3
<1>13. CASE RobotRefuses
  <2>1. PICK kind \in {"retry", "reject"} : RobotSends([kind |-> kind, seq |-> 0])
    BY <1>13 DEF RobotRefuses
  <2>2. [kind |-> kind, seq |-> 0] \in Message
    BY DEF Message
  <2>3. RobotType'
    BY <1>0, <1>13, <1>m, <2>1, <2>2 DEF RobotRefuses, Spend, RobotType
  <2> QED BY <1>m, <1>w, <2>1, <2>2, <2>3
<1>14. CASE RobotPushes
  <2>1. cursor # 0 /\ cursor' \in Nat /\ UNCHANGED <<request, start>> /\ faults' \in Nat
    BY <1>0, <1>14 DEF RobotPushes, Spend, RobotType
  <2>2. CASE \E n \in Nat : RobotSends(Push(n))
    <3>1. PICK n \in Nat : RobotSends(Push(n))
      BY <2>2
    <3>2. Push(n) \in Message
      BY DEF Push, Message
    <3>3. RobotType'
      BY <1>0, <1>m, <2>1, <3>1, <3>2 DEF RobotType
    <3> QED BY <1>m, <1>w, <3>1, <3>2, <3>3
  <2>3. CASE UNCHANGED <<opts, slotVars, up, head, wire, toldVars>>
    <3>1. RobotType'
      BY <1>0, <2>1, <2>3 DEF RobotType
    <3> QED BY <1>w, <2>3, <3>1
  <2>4. cursor \in Nat /\ cursor - 1 \in Nat
    BY <1>0, <2>1 DEF RobotType
  <2> QED BY <1>14, <2>2, <2>3, <2>4 DEF RobotPushes
<1>15. CASE UNCHANGED vars
  <2>1. RobotType'
    BY <1>0, <1>15 DEF vars, robotVars, RobotType
  <2> QED BY <1>15, <1>w, <2>1 DEF vars
<1> QED
  BY <1>1, <1>2, <1>3, <1>4, <1>5, <1>6, <1>7, <1>8, <1>9, <1>11, <1>12, <1>13, <1>14, <1>15
  DEF Next, Control, Robot

(* Every reachable state of a stream is well typed.                        *)
THEOREM StreamTypeCorrect == Spec => []StreamType
<1>1. Init => StreamType
  <2> SUFFICES ASSUME Init PROVE StreamType
    OBVIOUS
  <2>1. OptsType /\ SlotType
    BY DEF Init, OptsType, SlotType
  <2>2. FlagType
    BY Zenon DEF Init, FlagType
  <2>3. RobotType /\ ToldType
    BY StreamAssumption DEF Init, RobotType, ToldType
  <2> QED BY <2>1, <2>2, <2>3, TypeParts
<1> QED BY <1>1, StreamTypeInductive, PTL DEF Spec

-----------------------------------------------------------------------------
(* The account of the frames.                                              *)

(* A step that leaves alone what StreamInv is about keeps it.              *)
LEMMA InvUnchanged ==
  ASSUME StreamInv,
         UNCHANGED <<opts, awaiting, slot_state, draining, expected_resume_seq, last_seq, first, got, told, heard>>
  PROVE  StreamInv'
  BY DEF StreamInv, Idle, Remembers, Event

(* Closing the slot keeps it.                                              *)
LEMMA InvClosed ==
  ASSUME StreamInv, SlotClosed, UNCHANGED opts, Idle
  PROVE  StreamInv'
  BY DEF StreamInv, SlotClosed, Idle, Remembers, Event

(* StreamInv is inductive, and no step goes back in the stream unless it   *)
(* starts anew.                                                            *)
LEMMA StreamInvInductive ==
  StreamType /\ StreamInv /\ [Next]_vars => StreamInv' /\ (heard' \in {heard, 0} \/ heard' > heard)
<1> SUFFICES ASSUME StreamType, StreamInv, [Next]_vars
             PROVE  StreamInv' /\ (heard' \in {heard, 0} \/ heard' > heard)
  OBVIOUS
<1>0. /\ last_seq \in Nat /\ expected_resume_seq \in Nat /\ first \in Nat /\ got \in Nat /\ told \in Nat
      /\ heard \in Nat /\ draining \in Nat \cup {NotDraining} /\ pending_buffer \in Seq(Nat)
  BY DEF StreamType
<1>d. ASSUME slot_state = "Active", NEW n \in Nat, DeliverPushToSub(n),
             UNCHANGED <<opts, slot_state, awaiting, expected_resume_seq>>
      PROVE  StreamInv' /\ (heard' \in {heard, 0} \/ heard' > heard)
  <2>1. /\ Event /\ first > 1 => last_seq + 1 = first + got + told
        /\ heard <= last_seq /\ (~Event => heard = 0) /\ ~awaiting
    BY <1>d DEF StreamInv, Remembers
  <2>2. /\ Event /\ first' > 1 => last_seq' + 1 = first' + got' + told'
        /\ heard' <= last_seq' /\ (~Event => heard' = 0) /\ (heard' = heard \/ heard' > heard)
    BY <1>d, <2>1, DeliverKeeps
  <2> QED BY <1>d, <2>1, <2>2 DEF StreamInv, Remembers, Event, Idle
<1>1. CASE HandleSdkTopicPush
  <2>1. UNCHANGED <<opts, slot_state, awaiting, expected_resume_seq, draining>> /\ Head(wire).seq \in Nat
    BY <1>1, ReceivedType DEF HandleSdkTopicPush, Received
  <2>2. CASE UNCHANGED <<last_seq, toldVars>>
    BY <2>1, <2>2, InvUnchanged DEF toldVars
  <2>3. CASE slot_state = "Active" /\ DeliverPushToSub(Head(wire).seq)
    BY <1>d, <2>1, <2>3
  <2> QED BY <1>1, <2>2, <2>3 DEF HandleSdkTopicPush
<1>2. CASE DrainPendingBuffer
  <2>1. slot_state = "Active" /\ UNCHANGED <<opts, slot_state, awaiting, expected_resume_seq>>
    BY <1>2 DEF DrainPendingBuffer, StreamInv
  <2>2. CASE UNCHANGED <<last_seq, toldVars>>
    BY <2>1, <2>2 DEF StreamInv, Idle, Remembers, Event, toldVars
  <2>3. CASE pending_buffer # <<>> /\ DeliverPushToSub(Head(pending_buffer))
    <3>1. Head(pending_buffer) \in Nat
      BY <1>0, <2>3, QueueOps
    <3> QED BY <1>d, <2>1, <2>3, <3>1
  <2> QED BY <1>2, <2>2, <2>3 DEF DrainPendingBuffer
<1>3. CASE Resubscribe
  <2>1. /\ slot_state = "Paused" /\ slot_state' = "Pending"
        /\ UNCHANGED <<opts, draining, last_seq, first, got, told, heard>>
        /\ expected_resume_seq' = IF Event /\ opts.replay_history /\ last_seq > 0 THEN last_seq + 1 ELSE 0
    BY <1>3 DEF Resubscribe, SendSubscribe, toldVars
  <2>2. Idle'
    BY <2>1 DEF StreamInv, Idle
  <2>3. expected_resume_seq' # 0 => Event' /\ last_seq' # 0 /\ expected_resume_seq' = last_seq' + 1
    BY <1>0, <2>1 DEF Event
  <2>4. Remembers' => Remembers
    BY <2>1 DEF Remembers
  <2> QED BY <2>1, <2>2, <2>3, <2>4 DEF StreamInv, Event
<1>4. CASE AckAccepted
  <2> DEFINE k == Head(wire).seq
  <2>1. k \in Nat /\ UNCHANGED opts
    BY <1>4, ReceivedType DEF AckAccepted, Received
  <2>2. slot_state = "Pending" /\ slot_state' = "Active" /\ awaiting' = FALSE
    BY <1>4 DEF AckAccepted, StreamInv
  <2> HIDE DEF k
  <2>3. CASE Continues(k)
    <3>1. /\ Event /\ last_seq # 0 /\ expected_resume_seq = last_seq + 1 /\ k >= expected_resume_seq
          /\ first > 1 => last_seq + 1 = first + got + told
          /\ heard <= last_seq
      BY <1>0, <2>1, <2>2, <2>3 DEF Continues, StreamInv, Remembers
    <3>2. /\ last_seq' = k - 1 /\ told' = told + (k - expected_resume_seq)
          /\ first' = first /\ got' = got /\ heard' = heard
      BY <1>0, <2>1, <2>3, <3>1 DEF Continues
    <3>3. /\ first' > 1 => last_seq' + 1 = first' + got' + told'
          /\ heard' <= last_seq'
      BY <1>0, <2>1, <3>1, <3>2
    <3> QED BY <2>1, <2>2, <3>1, <3>2, <3>3 DEF StreamInv, Event, Remembers
  <2>4. CASE StartsAnew(k)
    <3>1. /\ first' = k /\ got' = 0 /\ told' = 0 /\ heard' = 0 /\ last_seq' \in Nat
          /\ Event /\ k > 1 => last_seq' = k - 1
      BY <1>0, <2>1, <2>4 DEF StartsAnew
    <3>2. Event' /\ first' > 1 => last_seq' + 1 = first' + got' + told'
      BY <2>1, <3>1 DEF Event
    <3> QED BY <2>2, <3>1, <3>2 DEF StreamInv, Remembers
  <2> QED BY <1>4, <2>3, <2>4 DEF AckAccepted, k
<1>5. CASE AckFreshRetry
  <2>1. /\ slot_state' = "Pending" /\ last_seq' = 0 /\ expected_resume_seq' = 0
        /\ UNCHANGED <<opts, draining, heard>> /\ Idle /\ Event
    BY <1>5 DEF AckFreshRetry, SendSubscribe, Received, toldVars
  <2> QED BY <2>1 DEF StreamInv, Idle, Remembers, Event
<1>6. CASE AckRejected
  BY <1>6, InvClosed DEF AckRejected, Received, SlotClosed
<1>7. CASE AckTooLate
  BY <1>7, InvUnchanged DEF AckTooLate, Received, slotVars, toldVars
<1>8. CASE Unsubscribe
  BY <1>8, InvClosed DEF Unsubscribe, SlotClosed
<1>9. CASE OnTransportClose
  <2>1. /\ Idle /\ UNCHANGED <<opts, draining, last_seq, expected_resume_seq, first, got, told, heard>>
        /\ slot_state' \in {"Paused", "Closed"}
        /\ awaiting' = FALSE \/ (slot_state = "Closed" /\ awaiting' = awaiting)
    BY <1>9 DEF OnTransportClose
  <2>2. ~awaiting'
    BY <2>1 DEF StreamInv
  <2>3. Remembers' => Remembers
    BY <2>1 DEF Remembers
  <2> QED BY <2>1, <2>2, <2>3 DEF StreamInv, Idle, Event
<1>11. CASE Robot
  <2>1. UNCHANGED <<opts, slotVars, toldVars>>
    BY <1>11 DEF Robot, Publish, RobotSubscribes, RobotAcks, RobotRefuses, RobotPushes, RobotRestarts, RobotSends
  <2> QED BY <2>1, InvUnchanged DEF slotVars, toldVars
<1>12. CASE UNCHANGED vars
  BY <1>12, InvUnchanged DEF vars, slotVars, toldVars
<1> QED
  BY <1>1, <1>2, <1>3, <1>4, <1>5, <1>6, <1>7, <1>8, <1>9, <1>11, <1>12 DEF Next, Control

(* The numbers a slot keeps are those the user was told.                   *)
LEMMA StreamInvCorrect == Spec => []StreamInv
<1>1. Init => StreamInv
  BY DEF Init, StreamInv, Idle, Remembers, NotDraining
<1> QED BY <1>1, StreamTypeCorrect, StreamInvInductive, PTL DEF Spec

(* No frame of an Active Event stream is lost in silence once the robot    *)
(* numbered the stream from 2 or more: delivered or reported, for any      *)
(* buffer size, reconnections, replays, restarts and refusals.             *)
THEOREM LossAlwaysAccounted == Spec => []LossAccounted
<1>1. StreamInv => LossAccounted
  BY DEF StreamInv, Remembers, LossAccounted
<1> QED BY <1>1, StreamInvCorrect, PTL

(* Frames come in the order of their numbers, none twice, until the user   *)
(* is told that the stream starts anew.                                    *)
THEOREM AlwaysInOrder == Spec => DeliveredInOrder
<1>1. StreamType /\ StreamInv /\ [Next]_vars => [heard' \in {heard, 0} \/ heard' > heard]_vars
  BY StreamInvInductive
<1> QED BY <1>1, StreamTypeCorrect, StreamInvCorrect, PTL DEF Spec, DeliveredInOrder

-----------------------------------------------------------------------------
(* The buffer.                                                             *)

(* A slot is Pending on a connection only.                                 *)
BufferInv == BufferBounded /\ (slot_state = "Pending" => up)

(* Lengths of queues.                                                      *)
LEMMA QueueLengths ==
  ASSUME NEW q \in Seq(Nat), NEW n \in Nat
  PROVE  /\ Len(q) \in Nat /\ Len(<<>>) = 0 /\ Len(Append(q, n)) = Len(q) + 1
         /\ q # <<>> => /\ Len(Tail(q)) = Len(q) - 1
                        /\ Len(Append(Tail(q), n)) = Len(q)
<1>1. Len(q) \in Nat /\ Len(<<>>) = 0 /\ Len(Append(q, n)) = Len(q) + 1
  OBVIOUS
<1>2. ASSUME q # <<>> PROVE Len(Tail(q)) = Len(q) - 1 /\ Tail(q) \in Seq(Nat)
  BY <1>2
<1>3. ASSUME q # <<>> PROVE Len(Append(Tail(q), n)) = Len(q)
  BY <1>1, <1>2, <1>3
<1> QED BY <1>1, <1>2, <1>3

(* BufferInv is inductive.                                                 *)
LEMMA BufferInductive == StreamType /\ StreamInv /\ BufferInv /\ [Next]_vars => BufferInv'
<1> SUFFICES ASSUME StreamType, StreamInv, BufferInv, [Next]_vars
             PROVE  BufferInv'
  OBVIOUS
<1>0. /\ pending_buffer \in Seq(Nat) /\ QueueSize \in Nat \ {0}
      /\ Len(pending_buffer) \in Nat /\ Len(pending_buffer) <= QueueSize
      /\ pending_buffer # <<>> => slot_state = "Closed" \/ (slot_state = "Pending" /\ up) \/ ~Idle
      /\ slot_state = "Pending" => up
  BY StreamAssumption DEF StreamType, BufferInv, BufferBounded
<1>u. ASSUME UNCHANGED <<pending_buffer, slot_state, draining, up>>
      PROVE  BufferInv'
  BY <1>0, <1>u DEF BufferInv, BufferBounded, Idle
<1>c. ASSUME SlotClosed, UNCHANGED up
      PROVE  BufferInv'
  BY <1>0, <1>c DEF SlotClosed, BufferInv, BufferBounded, Idle
<1>1. CASE HandleSdkTopicPush
  <2>1. UNCHANGED <<slot_state, draining, up>> /\ Head(wire).seq \in Nat
    BY <1>1, ReceivedType DEF HandleSdkTopicPush, Received
  <2>2. CASE UNCHANGED pending_buffer
    BY <1>u, <2>1, <2>2
  <2>3. CASE slot_state = "Pending" /\ Buffer(Head(wire).seq)
    <3>1. Len(pending_buffer') <= QueueSize
      <4>1. CASE Len(pending_buffer) < QueueSize
        BY <1>0, <2>1, <2>3, <4>1, QueueLengths DEF Buffer
      <4>2. CASE ~(Len(pending_buffer) < QueueSize)
        <5>1. pending_buffer # <<>>
          BY <1>0, <4>2
        <5> QED BY <1>0, <2>1, <2>3, <4>2, <5>1, QueueLengths DEF Buffer
      <4> QED BY <4>1, <4>2
    <3> QED BY <1>0, <2>1, <2>3, <3>1 DEF BufferInv, BufferBounded
  <2> QED BY <1>1, <2>2, <2>3 DEF HandleSdkTopicPush
<1>2. CASE DrainPendingBuffer
  <2>1. UNCHANGED <<slot_state, up>> /\ ~Idle
    BY <1>2 DEF DrainPendingBuffer
  <2>2. CASE pending_buffer = <<>>
    BY <1>0, <1>2, <2>1, <2>2 DEF DrainPendingBuffer, BufferInv, BufferBounded
  <2>3. CASE pending_buffer # <<>>
    <3>1. pending_buffer' = Tail(pending_buffer) /\ UNCHANGED draining
      BY <1>2, <2>3 DEF DrainPendingBuffer
    <3>2. Len(pending_buffer') <= QueueSize
      BY <1>0, <2>3, <3>1, QueueLengths
    <3> QED BY <1>0, <2>1, <3>1, <3>2 DEF BufferInv, BufferBounded, Idle
  <2> QED BY <2>2, <2>3
<1>3. CASE Resubscribe
  <2>1. up' = TRUE /\ slot_state' = "Pending" /\ UNCHANGED pending_buffer
    BY <1>3 DEF Resubscribe, SendSubscribe
  <2> QED BY <1>0, <2>1 DEF BufferInv, BufferBounded
<1>4. CASE AckAccepted
  <2>1. UNCHANGED pending_buffer /\ slot_state' = "Active" /\ draining' \in Nat
    BY <1>4, ReceivedType DEF AckAccepted
  <2>2. ~Idle'
    BY <2>1 DEF Idle, NotDraining
  <2> QED BY <1>0, <2>1, <2>2 DEF BufferInv, BufferBounded
<1>5. CASE AckFreshRetry
  <2>1. UNCHANGED <<pending_buffer, up>> /\ slot_state' = "Pending" /\ slot_state = "Pending"
    BY <1>5 DEF AckFreshRetry, SendSubscribe, Received, StreamInv
  <2> QED BY <1>0, <2>1 DEF BufferInv, BufferBounded
<1>6. CASE AckRejected \/ Unsubscribe
  BY <1>6, <1>c DEF AckRejected, Unsubscribe, Received
<1>7. CASE AckTooLate
  BY <1>7, <1>u DEF AckTooLate, Received, slotVars
<1>8. CASE OnTransportClose
  <2>1. CASE slot_state = "Closed"
    BY <1>0, <1>8, <2>1 DEF OnTransportClose, BufferInv, BufferBounded
  <2>2. CASE slot_state # "Closed"
    <3>1. pending_buffer' = <<>> /\ slot_state' = "Paused"
      BY <1>8, <2>2 DEF OnTransportClose
    <3>2. Len(pending_buffer') <= QueueSize
      BY <1>0, <3>1, QueueLengths
    <3> QED BY <3>1, <3>2 DEF BufferInv, BufferBounded
  <2> QED BY <2>1, <2>2
<1>10. CASE Robot
  <2>1. UNCHANGED <<slotVars, up>>
    BY <1>10 DEF Robot, Publish, RobotSubscribes, RobotAcks, RobotRefuses, RobotPushes, RobotRestarts, RobotSends
  <2> QED BY <1>u, <2>1 DEF slotVars
<1>11. CASE UNCHANGED vars
  BY <1>11, <1>u DEF vars, slotVars
<1> QED
  BY <1>1, <1>2, <1>3, <1>4, <1>5, <1>6, <1>7, <1>8, <1>10, <1>11 DEF Next, Control

(* A slot's buffer never exceeds subscription_queue_size, and frames of a  *)
(* lost connection never reach the next one through it.                    *)
THEOREM BufferAlwaysBounded == Spec => []BufferBounded
<1>1. Init => BufferInv
  BY StreamAssumption DEF Init, BufferInv, BufferBounded
<1>2. BufferInv => BufferBounded
  BY DEF BufferInv
<1> QED BY <1>1, <1>2, StreamTypeCorrect, StreamInvCorrect, BufferInductive, PTL DEF Spec

-----------------------------------------------------------------------------
(* A slot that was active and awaits an ack was subscribed again in a      *)
(* reconnection, and its request remembers that.                           *)
ResumeInv == ever_active /\ awaiting => is_reconnect_resume /\ reconnecting

LEMMA ResumeInductive == ResumeInv /\ [Next]_vars => ResumeInv'
<1> SUFFICES ASSUME ResumeInv, [Next]_vars PROVE ResumeInv'
  OBVIOUS
<1>u. ASSUME UNCHANGED <<ever_active, awaiting, is_reconnect_resume, reconnecting>> PROVE ResumeInv'
  BY <1>u, Zenon DEF ResumeInv
<1>1. CASE HandleSdkTopicPush \/ DrainPendingBuffer \/ AckTooLate
  BY <1>u, <1>1, Zenon DEF HandleSdkTopicPush, DrainPendingBuffer, AckTooLate, slotVars
<1>2. CASE Resubscribe
  BY <1>2, Zenon DEF Resubscribe, SendSubscribe, ResumeInv
<1>3. CASE AckAccepted
  BY <1>3, Zenon DEF AckAccepted, ResumeInv
<1>4. CASE AckFreshRetry
  <2>1. /\ awaiting /\ UNCHANGED <<ever_active, reconnecting>>
        /\ is_reconnect_resume' = (slot_state = "Paused" \/ (ever_active /\ reconnecting))
    BY <1>4, Zenon DEF AckFreshRetry, SendSubscribe
  <2> QED BY <2>1, Zenon DEF ResumeInv
<1>5. CASE AckRejected \/ Unsubscribe
  BY <1>5, Zenon DEF AckRejected, Unsubscribe, SlotClosed, ResumeInv
<1>6. CASE OnTransportClose
  <2>1. /\ UNCHANGED <<ever_active, is_reconnect_resume, reconnecting>>
        /\ awaiting' = awaiting \/ awaiting' = FALSE
    BY <1>6, Zenon DEF OnTransportClose
  <2> QED BY <2>1, Zenon DEF ResumeInv
<1>7. CASE Robot
  <2>1. UNCHANGED slotVars
    BY <1>7, Zenon DEF Robot, Publish, RobotSubscribes, RobotAcks, RobotRefuses, RobotPushes, RobotRestarts, RobotSends
  <2> QED BY <1>u, <2>1, Zenon DEF slotVars
<1>8. CASE UNCHANGED vars
  BY <1>u, <1>8, Zenon DEF vars, slotVars
<1> QED BY <1>1, <1>2, <1>3, <1>4, <1>5, <1>6, <1>7, <1>8 DEF Next, Control

(* For every length of a run: only the first ack of a subscription says    *)
(* Started; whatever is lost or refused later, a stream that was active is *)
(* told to have Resumed (HandleSubscribeAck).                              *)
THEOREM AlwaysStartsOnce == Spec => StartsOnce
<1>1. Init => ResumeInv
  BY Zenon DEF Init, ResumeInv
<1>2. ResumeInv /\ [Next]_vars => [status' = "Started" /\ status # "Started" => ~ever_active]_vars
  <2> SUFFICES ASSUME ResumeInv, Next, status' = "Started", status # "Started" PROVE ~ever_active
    BY DEF vars, toldVars
  <2>1. AckAccepted
    <3>1. ~HandleSdkTopicPush /\ ~DrainPendingBuffer
      <4>1. ASSUME NEW n, DeliverPushToSub(n) PROVE FALSE
        BY <4>1 DEF DeliverPushToSub, Numbered, toldVars
      <4> QED BY <4>1 DEF HandleSdkTopicPush, DrainPendingBuffer, toldVars
    <3>2. ~Resubscribe /\ ~AckFreshRetry /\ ~AckTooLate
      BY DEF Resubscribe, AckFreshRetry, AckTooLate, toldVars
    <3>3. ~AckRejected /\ ~Unsubscribe /\ ~OnTransportClose
      BY DEF AckRejected, Unsubscribe, SlotClosed, OnTransportClose
    <3>4. ~Robot
      BY DEF Robot, Publish, RobotSubscribes, RobotAcks, RobotRefuses, RobotPushes, RobotRestarts, RobotSends, toldVars
    <3> QED BY <3>1, <3>2, <3>3, <3>4 DEF Next, Control
  <2>2. awaiting /\ ~is_reconnect_resume
    <3>1. awaiting /\ (Continues(Head(wire).seq) \/ StartsAnew(Head(wire).seq))
      BY <2>1 DEF AckAccepted
    <3>2. StartsAnew(Head(wire).seq)
      BY <3>1 DEF Continues
    <3>3. status' = IF is_reconnect_resume \/ expected_resume_seq # 0 THEN "Resumed" ELSE "Started"
      BY <3>2 DEF StartsAnew
    <3> QED BY <3>1, <3>3
  <2> QED BY <2>2, Zenon DEF ResumeInv
<1> QED BY <1>1, <1>2, ResumeInductive, PTL DEF Spec, StartsOnce
=============================================================================

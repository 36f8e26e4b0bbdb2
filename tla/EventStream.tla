----------------------------- MODULE EventStream -----------------------------
(***************************************************************************)
(* One subscription (SubSlot) and the frames of its topic: buffering until *)
(* the SubscribeAck, sequence numbers, gaps, and resuming the stream after *)
(* a reconnection (src/src/robot_impl.cpp: HandleSdkTopicPush,             *)
(* SendSubscribe, HandleSubscribeAck, DeliverPushToSub,                    *)
(* DrainPendingBuffer).  The connection itself is RobotSession; here it is *)
(* up or down.  Counters for diagnostics are left out, and so is the queue *)
(* of the dispatcher, which keeps the order: a frame posted is a frame     *)
(* delivered.  In Inline mode frames do not pass through that queue, while *)
(* statuses do: then frames keep their order among themselves, and so do   *)
(* statuses, but a frame may reach the user before a status fired earlier. *)
(***************************************************************************)
EXTENDS Integers, Sequences

CONSTANTS
  QueueSize,     \* opts_.subscription_queue_size
  MaxSeq,        \* bound: frames published
  MaxWire,       \* bound: messages from the robot under way
  MaxFaults      \* bound: misfortunes of the network and of the robot

ASSUME StreamAssumption ==
  /\ QueueSize \in Nat \ {0}    \* ValidateOpts
  /\ MaxSeq \in Nat /\ MaxWire \in Nat /\ MaxFaults \in Nat

VARIABLES
  opts,                  \* semantics, drop_policy of the slot; reconnect_replay_history
  slot_state,            \* SubscriptionState
  last_seq,
  expected_resume_seq,
  awaiting,              \* inflight_subscribe_request_id # 0
  is_reconnect_resume, ever_active, fresh_retry_done,
  pending_buffer,        \* sequence numbers of the buffered frames
  draining,              \* argument of the DrainPendingBuffer under way, or NotDraining
  reconnecting,          \* state_ is Reconnecting, as far as this slot can tell
  up,                    \* is there a connection?
  head,                  \* robot: number of the newest frame
  request,               \* robot: since_seq of a subscribe request, or NoRequest
  start, cursor,         \* robot: first frame, if the ack is due; next frame to send
  wire,                  \* messages of the robot the control thread has yet to handle
  faults,
  (* History: what the user was told.                                      *)
  status,                \* the last StreamStatus
  first, got, told, heard \* since the last status that left the gap unknown: the next_seq
                          \* of its ack, frames delivered, reported lost, the last one heard

slotVars == <<slot_state, last_seq, expected_resume_seq, awaiting, is_reconnect_resume,
              ever_active, fresh_retry_done, pending_buffer, draining, reconnecting>>
toldVars == <<status, first, got, told, heard>>
robotVars == <<head, request, start, cursor>>
vars == <<opts, slotVars, up, robotVars, wire, faults, toldVars>>

NoRequest == -1
NotDraining == -1
Event == opts.semantics = "Event"
Idle == draining = NotDraining
Push(n) == [kind |-> "push", seq |-> n]
Message == [kind : {"push", "ack", "retry", "reject"}, seq : Nat]
Spend == faults > 0 /\ faults' = faults - 1

-----------------------------------------------------------------------------
(* DeliverPushToSub.                                                       *)

(* Mutant: a step back is not recognised.                                  *)
Duplicate(n) == n # 0 /\ n = last_seq

(* A frame that is not new: a duplicate, or a step back.                   *)
Stale(n) == n # 0 /\ last_seq # 0 /\ n <= last_seq

(* Mutant: off by one.                                                     *)
LostOffByOne(n) == IF last_seq = 0 THEN 0 ELSE n - last_seq

Lost(n) == IF last_seq = 0 THEN 0 ELSE n - last_seq - 1

Numbered(n) ==
  /\ last_seq' = n
  /\ got' = got + 1 /\ heard' = n /\ told' = told + Lost(n)
  /\ status' = IF Lost(n) > 0 THEN "Gap" ELSE status
  /\ UNCHANGED first

(* Frames without a number, and all of a Telemetry topic, reach the user  *)
(* with no trace in the slot.                                              *)
DeliverPushToSub(n) ==
  IF Event /\ n # 0 /\ ~Stale(n) THEN Numbered(n) ELSE UNCHANGED <<last_seq, toldVars>>

(* Mutant: one frame too many.                                             *)
BufferOneMore(n) ==
  IF Len(pending_buffer) <= QueueSize
  THEN pending_buffer' = Append(pending_buffer, n)
  ELSE IF opts.drop_policy = "DropNewest"
  THEN UNCHANGED pending_buffer
  ELSE pending_buffer' = Append(Tail(pending_buffer), n)

(* HandleSdkTopicPush while the slot is Pending.                           *)
Buffer(n) ==
  IF Len(pending_buffer) < QueueSize
  THEN pending_buffer' = Append(pending_buffer, n)
  ELSE IF opts.drop_policy = "DropNewest"
  THEN UNCHANGED pending_buffer
  ELSE pending_buffer' = Append(Tail(pending_buffer), n)

Received(kind) ==
  /\ Idle /\ wire # <<>> /\ Head(wire).kind = kind
  /\ wire' = Tail(wire)
  /\ UNCHANGED <<opts, up, faults>>

HandleSdkTopicPush ==
  /\ Received("push")
  /\ \/ /\ slot_state = "Pending"
        /\ Buffer(Head(wire).seq)
        /\ UNCHANGED <<last_seq, toldVars>>
     \/ /\ slot_state = "Active"
        /\ DeliverPushToSub(Head(wire).seq)
        /\ UNCHANGED pending_buffer
     \/ /\ slot_state \in {"Paused", "Closed"}
        /\ UNCHANGED <<pending_buffer, last_seq, toldVars>>
  /\ UNCHANGED <<slot_state, expected_resume_seq, awaiting, is_reconnect_resume, ever_active,
                 fresh_retry_done, draining, reconnecting, robotVars>>

(* One turn of DrainPendingBuffer's loop.  The handler that called it goes *)
(* on to the end: nothing else of the control thread happens in between,   *)
(* but the user, the robot and the dispatcher run.                         *)
DrainPendingBuffer ==
  /\ ~Idle
  /\ IF pending_buffer = <<>>
     THEN draining' = NotDraining /\ UNCHANGED <<pending_buffer, last_seq, toldVars>>
     ELSE LET n == Head(pending_buffer) IN
          /\ pending_buffer' = Tail(pending_buffer) /\ UNCHANGED draining
          /\ IF Event /\ n # 0 /\ n < draining
             THEN UNCHANGED <<last_seq, toldVars>>
             ELSE DeliverPushToSub(n)
  /\ UNCHANGED <<opts, slot_state, expected_resume_seq, awaiting, is_reconnect_resume, ever_active,
                 fresh_retry_done, reconnecting, up, robotVars, wire, faults>>

-----------------------------------------------------------------------------
(* Subscribing.                                                            *)

(* Mutant: the fresh retry forgets the reconnection.                       *)
SendForgetful(since, again) ==
  /\ expected_resume_seq' = IF Event THEN since ELSE 0
  /\ request' = expected_resume_seq'
  /\ is_reconnect_resume' = (slot_state = "Paused")
  /\ slot_state' = "Pending" /\ awaiting' = TRUE
  /\ start' = 0 /\ cursor' = 0

(* The request is sent; again: during a reconnection.                      *)
SendSubscribe(since, again) ==
  /\ expected_resume_seq' = IF Event THEN since ELSE 0
  /\ request' = expected_resume_seq'
  /\ is_reconnect_resume' = (slot_state = "Paused" \/ (ever_active /\ again))
  /\ slot_state' = "Pending" /\ awaiting' = TRUE
  /\ start' = 0 /\ cursor' = 0

(* ResubscribeAllAfterReconnect, when the next connection is established.  *)
Resubscribe ==
  /\ ~up /\ up' = TRUE /\ wire = <<>> /\ slot_state = "Paused"
  /\ fresh_retry_done' = FALSE /\ reconnecting' = TRUE
  /\ SendSubscribe(IF Event /\ opts.replay_history /\ last_seq > 0 THEN last_seq + 1 ELSE 0, TRUE)
  /\ UNCHANGED <<opts, last_seq, ever_active, pending_buffer, draining, head, wire,
                 faults, toldVars>>

(* HandleSubscribeAck, accepted.  What the user was told before goes on to *)
(* hold only if the gap is known.                                          *)
Continues(k) ==
  LET gap == k - expected_resume_seq IN
  /\ Event /\ expected_resume_seq # 0 /\ gap >= 0
  /\ last_seq' = IF gap = 0 THEN last_seq ELSE k - 1
  /\ status' = "Resumed" /\ told' = told + gap
  /\ UNCHANGED <<first, got, heard>>

StartsAnew(k) ==
  /\ ~Event \/ expected_resume_seq = 0 \/ k < expected_resume_seq
  /\ last_seq' = IF Event /\ k >= 1 THEN k - 1 ELSE 0
  /\ status' = IF is_reconnect_resume \/ expected_resume_seq # 0 THEN "Resumed" ELSE "Started"
  /\ first' = k /\ got' = 0 /\ told' = 0 /\ heard' = 0

AckAccepted ==
  /\ Received("ack") /\ awaiting
  /\ awaiting' = FALSE /\ slot_state' = "Active"
  /\ Continues(Head(wire).seq) \/ StartsAnew(Head(wire).seq)
  /\ draining' = IF Event THEN Head(wire).seq ELSE 0
  /\ ever_active' = TRUE /\ is_reconnect_resume' = FALSE
  /\ UNCHANGED <<expected_resume_seq, fresh_retry_done, pending_buffer, reconnecting,
                 robotVars>>

(* Rejected for want of history: once more, for the frames to come.        *)
AckFreshRetry ==
  /\ Received("retry") /\ awaiting /\ Event /\ ~fresh_retry_done
  /\ last_seq' = 0 /\ fresh_retry_done' = TRUE
  /\ SendSubscribe(0, reconnecting)
  /\ UNCHANGED <<ever_active, pending_buffer, draining, reconnecting, head, toldVars>>

SlotClosed ==
  /\ slot_state' = "Closed" /\ awaiting' = FALSE /\ status' = "Closed"
  /\ UNCHANGED <<last_seq, expected_resume_seq, is_reconnect_resume, ever_active, fresh_retry_done,
                 pending_buffer, draining, reconnecting, robotVars, first, got, told, heard>>

AckRejected ==
  /\ awaiting
  /\ Received("reject") \/ (Received("retry") /\ (~Event \/ fresh_retry_done))
  /\ SlotClosed

(* The answer to a request given up: its connection was lost since.        *)
AckTooLate ==
  /\ ~awaiting /\ (Received("ack") \/ Received("retry") \/ Received("reject"))
  /\ UNCHANGED <<slotVars, robotVars, toldVars>>

Unsubscribe ==
  /\ Idle /\ slot_state # "Closed"
  /\ SlotClosed
  /\ UNCHANGED <<opts, up, wire, faults>>

(* OnTransportClose.  After a timeout, messages received before it can be  *)
(* still waiting for the control thread.                                   *)
OnTransportClose ==
  /\ Idle /\ up /\ up' = FALSE /\ Spend
  /\ request' = NoRequest /\ start' = 0 /\ cursor' = 0
  /\ IF slot_state = "Closed"
     THEN UNCHANGED <<slot_state, pending_buffer, awaiting, status>>
     ELSE slot_state' = "Paused" /\ pending_buffer' = <<>> /\ awaiting' = FALSE /\ status' = "Paused"
  /\ UNCHANGED <<opts, last_seq, expected_resume_seq, is_reconnect_resume, ever_active,
                 fresh_retry_done, draining, reconnecting, head, wire, first, got, told, heard>>

-----------------------------------------------------------------------------
(* The robot.                                                              *)

RobotSends(m) ==
  /\ up /\ Len(wire) < MaxWire
  /\ wire' = Append(wire, m)
  /\ UNCHANGED <<opts, slotVars, up, head, toldVars>>

Publish ==
  /\ head < MaxSeq /\ head' = head + 1
  /\ UNCHANGED <<opts, slotVars, up, request, start, cursor, wire, faults, toldVars>>

(* The frames to send are chosen: from now on, or those asked for as far   *)
(* as it has them.                                                         *)
RobotSubscribes ==
  /\ request # NoRequest /\ request' = NoRequest
  /\ cursor' \in IF request = 0 \/ request > head THEN {head + 1} ELSE request .. head + 1
  /\ start' = cursor'
  /\ UNCHANGED <<opts, slotVars, up, head, wire, faults, toldVars>>

(* The ack may come after the first frames, and count some of them in.     *)
RobotAcks ==
  /\ start # 0 /\ start' = 0
  /\ \/ \E k \in start .. cursor : RobotSends([kind |-> "ack", seq |-> k]) /\ UNCHANGED faults
     \/ RobotSends([kind |-> "ack", seq |-> 0]) /\ Spend
  /\ UNCHANGED <<request, cursor>>

RobotRefuses ==
  /\ request # NoRequest /\ request' = NoRequest /\ Spend
  /\ \E kind \in {"retry", "reject"} : RobotSends([kind |-> kind, seq |-> 0])
  /\ UNCHANGED <<start, cursor>>

(* A frame is sent or, by misfortune, skipped, repeated or not numbered (0).*)
RobotPushes ==
  \/ /\ cursor # 0 /\ cursor <= head /\ cursor' = cursor + 1
     /\ \/ RobotSends(Push(cursor)) /\ UNCHANGED faults
        \/ Spend /\ UNCHANGED <<opts, slotVars, up, head, wire, toldVars>>
     /\ UNCHANGED <<request, start>>
  \/ /\ cursor # 0 /\ Spend
     /\ \E n \in 0 .. cursor - 1 : RobotSends(Push(n))
     /\ UNCHANGED <<request, start, cursor>>

(* While it is disconnected the robot restarts, and counts from 1 again.   *)
RobotRestarts ==
  /\ ~up /\ head > 0 /\ head' = 0 /\ Spend
  /\ UNCHANGED <<opts, slotVars, up, request, start, cursor, wire, toldVars>>

-----------------------------------------------------------------------------
(* The slot of SubscribeInternal, its request just sent in Ready.          *)
Init ==
  /\ opts \in [semantics : {"Telemetry", "Event"}, drop_policy : {"DropOldest", "DropNewest"},
               replay_history : BOOLEAN]
  /\ slot_state = "Pending" /\ awaiting = TRUE
  /\ last_seq = 0 /\ expected_resume_seq = 0
  /\ is_reconnect_resume = FALSE /\ ever_active = FALSE /\ fresh_retry_done = FALSE
  /\ pending_buffer = <<>> /\ draining = NotDraining
  /\ reconnecting = FALSE
  /\ up = TRUE /\ head = 0 /\ request = 0 /\ start = 0 /\ cursor = 0
  /\ wire = <<>> /\ faults = MaxFaults
  /\ status = "none" /\ first = 0 /\ got = 0 /\ told = 0 /\ heard = 0

Control == HandleSdkTopicPush \/ DrainPendingBuffer \/ Resubscribe \/ AckAccepted \/ AckFreshRetry
           \/ AckRejected \/ AckTooLate \/ OnTransportClose
Robot == Publish \/ RobotSubscribes \/ RobotAcks \/ RobotRefuses \/ RobotPushes \/ RobotRestarts
Next == Control \/ Unsubscribe \/ Robot

Spec == Init /\ [][Next]_vars

-----------------------------------------------------------------------------
(* Properties.                                                             *)

(* Every variable has its type.                                            *)
StreamType ==
  /\ opts \in [semantics : {"Telemetry", "Event"}, drop_policy : {"DropOldest", "DropNewest"},
               replay_history : BOOLEAN]
  /\ slot_state \in {"Pending", "Active", "Paused", "Closed"}
  /\ last_seq \in Nat /\ expected_resume_seq \in Nat
  /\ awaiting \in BOOLEAN /\ is_reconnect_resume \in BOOLEAN /\ ever_active \in BOOLEAN
  /\ fresh_retry_done \in BOOLEAN /\ reconnecting \in BOOLEAN
  /\ pending_buffer \in Seq(Nat) /\ draining \in Nat \cup {NotDraining}
  /\ up \in BOOLEAN
  /\ head \in Nat /\ request \in Nat \cup {NoRequest} /\ start \in Nat /\ cursor \in Nat
  /\ wire \in Seq(Message) /\ faults \in Nat
  /\ status \in {"none", "Started", "Resumed", "Gap", "Paused", "Closed"}
  /\ first \in Nat /\ got \in Nat /\ told \in Nat /\ heard \in Nat

(* While a stream is Active every number up to last_seq was delivered or   *)
(* reported lost, through reconnections, replays and a full buffer: all    *)
(* since the ack of the last status that left the gap unknown.  A stream   *)
(* whose known start is 1, or that has none, is excepted (first > 1): with *)
(* last_seq = 0, which also means that no frame came yet, DeliverPushToSub *)
(* does not notice what is missing before the first frame.                 *)
LossAccounted ==
  Event /\ slot_state = "Active" /\ first > 1 => last_seq + 1 = first + got + told

(* The user never sees a frame twice, or after a later one, unless it was  *)
(* told (in Inline mode: is about to be told) that the stream starts anew. *)
DeliveredInOrder == [][heard' \in {heard, 0} \/ heard' > heard]_vars

(* The buffer keeps within subscription_queue_size, and no frame of a lost *)
(* connection stays in it: it is empty but for a slot awaiting its ack, or *)
(* while the ack is being handled.                                         *)
BufferBounded ==
  /\ Len(pending_buffer) <= QueueSize
  /\ pending_buffer # <<>> => slot_state = "Closed" \/ (slot_state = "Pending" /\ up) \/ ~Idle

(* A stream starts once: one that was active resumes, even if its history  *)
(* was refused and it is subscribed afresh.                                *)
StartsOnce == [][status' = "Started" /\ status # "Started" => ~ever_active]_vars

(* The numbers known to the slot, with a request out or not: a resumption  *)
(* is asked for from the very next number, and only a slot that restarts   *)
(* (last_seq = 0, not Active) has forgotten how far the user got.          *)
Remembers == slot_state = "Active" \/ last_seq # 0
StreamInv ==
  /\ awaiting => slot_state = "Pending"
  /\ Idle \/ slot_state = "Active"
  /\ slot_state = "Pending" /\ expected_resume_seq # 0 =>
       Event /\ last_seq # 0 /\ expected_resume_seq = last_seq + 1
  /\ Event /\ Remembers /\ first > 1 => last_seq + 1 = first + got + told
  /\ Remembers => heard <= last_seq
  /\ ~Event => heard = 0

(* API.md 626: every lost frame of an Event stream is detected.            *)
EveryLossDetected ==
  Event /\ slot_state = "Active" /\ first # 0 => last_seq + 1 = first + got + told
=============================================================================

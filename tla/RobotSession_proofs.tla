------------------------ MODULE RobotSession_proofs ------------------------
(***************************************************************************)
(* Theorems about RobotSession, for every value of its constants: typing;  *)
(* what depends on which requests can be in flight in which phase of a     *)
(* connection (neither the limit on attempts nor the confirmed emergency   *)
(* stop is inductive; PhaseInv is); what the slots of the subscriptions,   *)
(* the acks they wait for, the timers and the WsClient are in each phase   *)
(* (SlotInv, inductive given PhaseInv); what that says of a lost, a closed *)
(* and a restored connection; and that the session implements              *)
(* ConnectionLifecycle.                                                    *)
(***************************************************************************)
EXTENDS RobotSession, FiniteSetTheorems, TLAPS

-----------------------------------------------------------------------------
(* Types.  The session's own variables are typed by the shared effects,    *)
(* the others by the actions.                                              *)

SessionType ==
  /\ state_ \in ConnectionState /\ ws_ \in {"none", "open", "dead"}
  /\ reconnect_attempt_ \in Nat /\ reconnect_timer_ \in BOOLEAN
  /\ active_subs_ \in [Topics -> Slot]
  /\ inflight_rpc_ \subseteq InflightRpc
  /\ inflight_sub_request_ \subseteq [rid : Nat, topic : Topics]
  /\ sub_ack_timers_ \subseteq Nat
  /\ net \subseteq Request
  /\ crashed \in {"no", "stack overflow", "dangling iterator"}

OtherType ==
  /\ last_estop_intent_ \in {"None", "Engaged"}
  /\ reconnect_subs_pending_ \in Nat /\ reconnect_estop_pending_ \in BOOLEAN
  /\ robot_info_ \in BOOLEAN /\ next_request_id_ \in Nat \ {0}
  /\ inq \in Seq(Posted)
  /\ engageAcked \in BOOLEAN
  /\ faults \in Nat /\ ops \in Nat

(* TypeOK is the two halves, before and after a step.                      *)
LEMMA TypeSplit == /\ TypeOK <=> SessionType /\ OtherType
                   /\ TypeOK' <=> SessionType' /\ OtherType'
<1>1. TypeOK <=> SessionType /\ OtherType
  BY DEF TypeOK, SessionType, OtherType
<1>2. TypeOK' <=> SessionType' /\ OtherType'
  BY DEF TypeOK, SessionType, OtherType
<1> QED BY <1>1, <1>2

(* The set of numbered topics is finite, and its ids are new.              *)
LEMMA FreshIdsProperties ==
  ASSUME NEW ts \in SUBSET Topics, NEW ids \in FreshIds(ts), next_request_id_ \in Nat \ {0}
  PROVE  /\ IsFiniteSet(ts) /\ Cardinality(ts) \in Nat
         /\ ids \in [ts -> Nat] /\ DOMAIN ids = ts
         /\ \A t \in ts : ids[t] >= next_request_id_ /\ ids[t] < next_request_id_ + Cardinality(ts)
         /\ \A t, u \in ts : ids[t] = ids[u] => t = u
<1>1. IsFiniteSet(ts) /\ Cardinality(ts) \in Nat
  BY SessionAssumption, FS_Subset, FS_CardinalityType
<1>2. ids \in [ts -> next_request_id_ .. next_request_id_ + Cardinality(ts) - 1]
  BY DEF FreshIds
<1>3. \A t, u \in ts : ids[t] = ids[u] => t = u
  BY DEF FreshIds
<1> QED BY <1>1, <1>2, <1>3

(* An empty place of active_subs_ is a slot.                               *)
LEMMA NoSlotType == NoSlot \in Slot /\ NoSlots \in [Topics -> Slot]
  BY DEF NoSlot, NoSlots, Slot, SubscriptionState

(* A handler that dies leaves the types alone.                             *)
LEMMA CrashType ==
  ASSUME SessionType, NEW how \in {"stack overflow", "dangling iterator"}, Crash(how)
  PROVE  SessionType'
  BY DEF SessionType, Crash

(* What AbortToFatal leaves behind has its type.                           *)
LEMMA ToFatalType ==
  ASSUME SessionType, NEW attempt \in Nat, ToFatal(attempt)
  PROVE  SessionType'
  BY NoSlotType DEF SessionType, ToFatal, ConnectionState

(* Arming the retry, or giving up, keeps the types.                        *)
LEMMA DoReconnectType ==
  ASSUME SessionType, NEW attempt \in Nat, NEW slots \in [Topics -> Slot],
         NEW rpcs \in SUBSET InflightRpc,
         NEW requests \in SUBSET [rid : Nat, topic : Topics],
         NEW timers \in SUBSET Nat,
         DoReconnect(attempt, slots, rpcs, requests, timers)
  PROVE  SessionType'
<1>1. CASE ToFatal(attempt)
  BY <1>1, ToFatalType
<1>2. CASE ~ToFatal(attempt)
  BY <1>2 DEF SessionType, DoReconnect, ConnectionState
<1> QED BY <1>1, <1>2

(* Pausing every slot yields slots.                                        *)
LEMMA PausedType ==
  ASSUME NEW slots \in [Topics -> Slot]
  PROVE  Paused(slots) \in [Topics -> Slot]
  BY NoSlotType DEF Paused, Slot, SubscriptionState

(* OnTransportClose keeps the types, crash or not.                         *)
LEMMA OnTransportCloseType ==
  ASSUME SessionType, NEW slots \in [Topics -> Slot], NEW rpcs,
         NEW requests \in SUBSET [rid : Nat, topic : Topics],
         OnTransportClose(slots, rpcs, requests)
  PROVE  SessionType'
<1>1. CASE ReplayInflight(rpcs)
  BY <1>1, CrashType DEF OnTransportClose
<1>2. CASE ~ReplayInflight(rpcs)
  <2>1. DoReconnect(reconnect_attempt_, Paused(slots), {}, requests, {})
    BY <1>2 DEF OnTransportClose
  <2>2. reconnect_attempt_ \in Nat
    BY DEF SessionType
  <2> QED BY <2>1, <2>2, PausedType, DoReconnectType
<1> QED BY <1>1, <1>2

(* AbortToFatal keeps the types, crash or not.                             *)
LEMMA AbortToFatalType ==
  ASSUME SessionType, NEW rpcs, AbortToFatal(rpcs)
  PROVE  SessionType'
<1>1. reconnect_attempt_ \in Nat
  BY DEF SessionType
<1> QED BY <1>1, CrashType, ToFatalType DEF AbortToFatal

(* A failed send keeps the types.                                          *)
LEMMA SendFailsType ==
  ASSUME SessionType, NEW looping, NEW slots \in [Topics -> Slot], NEW rpcs,
         NEW requests \in SUBSET [rid : Nat, topic : Topics],
         SendFails(looping, slots, rpcs, requests)
  PROVE  SessionType' /\ next_request_id_' = next_request_id_
  BY CrashType, OnTransportCloseType DEF SendFails

(* SendSubscribe numbers slots, requests and timers.                       *)
LEMMA SendSubscribeType ==
  ASSUME TypeOK, NEW slots \in [Topics -> Slot], NEW ts \in SUBSET Topics,
         NEW ids \in FreshIds(ts), NEW rpcs \in SUBSET InflightRpc, NEW done,
         IsFiniteSet(rpcs \ inflight_rpc_),
         state_' \in ConnectionState, reconnect_attempt_' \in Nat,
         SendSubscribe(slots, ids, rpcs, done)
  PROVE  SessionType' /\ next_request_id_' \in Nat \ {0}
<1>1. /\ ids \in [ts -> Nat] /\ DOMAIN ids = ts /\ Cardinality(ts) \in Nat
  BY FreshIdsProperties DEF TypeOK
<1>2. active_subs_' \in [Topics -> Slot]
  <2>1. active_subs_' = [t \in Topics |->
          IF t \in ts THEN [slots[t] EXCEPT !.state = "Pending", !.rid = ids[t]] ELSE slots[t]]
    BY <1>1 DEF SendSubscribe
  <2>2. ASSUME NEW t \in Topics
        PROVE  active_subs_'[t] \in Slot
    BY <1>1, <2>1 DEF Slot, SubscriptionState
  <2> QED BY <2>1, <2>2
<1>3. inflight_sub_request_' \subseteq [rid : Nat, topic : Topics]
  <2>1. inflight_sub_request_' = {q \in inflight_sub_request_ : q.rid \notin done}
                                   \cup {[rid |-> ids[t], topic |-> t] : t \in ts}
    BY <1>1 DEF SendSubscribe
  <2>2. \A t \in ts : [rid |-> ids[t], topic |-> t] \in [rid : Nat, topic : Topics]
    BY <1>1
  <2>3. inflight_sub_request_ \subseteq [rid : Nat, topic : Topics]
    BY DEF TypeOK
  <2> QED BY <2>1, <2>2, <2>3
<1>4. sub_ack_timers_' \subseteq Nat
  <2>1. sub_ack_timers_' = (sub_ack_timers_ \ done) \cup {ids[t] : t \in ts}
    BY <1>1 DEF SendSubscribe
  <2> QED BY <1>1, <2>1 DEF TypeOK
<1>5. net' \subseteq Request
  <2>1. net' = net \cup {Req(ids[t], "subscribe") : t \in ts}
                   \cup {Req(r.rid, r.method) : r \in rpcs \ inflight_rpc_}
    BY <1>1 DEF SendSubscribe
  <2>2. \A t \in ts : Req(ids[t], "subscribe") \in Request
    BY <1>1 DEF Req, Request
  <2>3. \A r \in rpcs : Req(r.rid, r.method) \in Request
    BY DEF Req, Request, InflightRpc
  <2> QED BY <2>1, <2>2, <2>3 DEF TypeOK
<1>6. next_request_id_' \in Nat \ {0}
  <2>1. next_request_id_' = next_request_id_ + Cardinality(ts) + Cardinality(rpcs \ inflight_rpc_)
    BY <1>1 DEF SendSubscribe
  <2>2. Cardinality(rpcs \ inflight_rpc_) \in Nat
    BY FS_CardinalityType
  <2>3. next_request_id_ \in Nat \ {0} /\ Cardinality(ts) \in Nat
    BY <1>1 DEF TypeOK
  <2> QED BY <2>1, <2>2, <2>3
<1> QED BY <1>2, <1>3, <1>4, <1>5, <1>6 DEF SendSubscribe, TypeOK, SessionType

(* EstablishConnection keeps the types, made or failed.                    *)
LEMMA EstablishConnectionType ==
  ASSUME TypeOK, NEW s \in ConnectionState, NEW attempt \in Nat, EstablishConnection(s, attempt)
  PROVE  SessionType' /\ next_request_id_' \in Nat \ {0} /\ engageAcked' \in BOOLEAN /\ faults' \in Nat
<1> USE TypeSplit
<1>1. CASE SendHandshake(s, attempt)
  <2>1. Rpc(next_request_id_, "handshake", NoTopic) \in InflightRpc
        /\ Req(next_request_id_, "handshake") \in Request
    BY DEF OtherType, Rpc, Req, InflightRpc, Request, Method
  <2>2. SessionType'
    BY <1>1, <2>1 DEF SendHandshake, SessionType
  <2>3. next_request_id_' \in Nat \ {0} /\ faults' \in Nat
    BY <1>1 DEF SendHandshake, OtherType
  <2>4. engageAcked' \in BOOLEAN
    BY <1>1 DEF SendHandshake
  <2> QED BY <2>2, <2>3, <2>4
<1>2. CASE Spend /\ UNCHANGED <<next_request_id_, engageAcked>>
           /\ DoReconnect(attempt, active_subs_, inflight_rpc_, inflight_sub_request_, sub_ack_timers_)
  <2>1. SessionType'
    BY <1>2, DoReconnectType DEF SessionType
  <2> QED BY <1>2, <2>1 DEF OtherType, Spend
<1>3. CASE Spend /\ UNCHANGED <<next_request_id_, engageAcked>> /\ ToFatal(attempt)
  <2>1. SessionType'
    BY <1>3, ToFatalType
  <2> QED BY <1>3, <2>1 DEF OtherType, Spend
<1> QED BY <1>1, <1>2, <1>3 DEF EstablishConnection

(* A settled ack keeps the types.                                          *)
LEMMA AckSettlesType ==
  ASSUME TypeOK, NEW q \in inflight_sub_request_, NEW slot \in Slot, AckSettles(q, slot)
  PROVE  SessionType' /\ reconnect_subs_pending_' \in Nat
         /\ UNCHANGED <<last_estop_intent_, reconnect_estop_pending_, robot_info_, engageAcked,
                        next_request_id_>>
<1>1. state_' \in ConnectionState /\ reconnect_attempt_' \in Nat /\ reconnect_subs_pending_' \in Nat
  <2>1. CASE state_ = "Reconnecting" /\ reconnect_subs_pending_ > 0
    <3>1. reconnect_subs_pending_' = reconnect_subs_pending_ - 1
      BY <2>1 DEF AckSettles, SettleResubscription
    <3>2. \/ state_' = "Ready" /\ reconnect_attempt_' = 0
          \/ UNCHANGED <<state_, reconnect_attempt_>>
      BY <2>1 DEF AckSettles, SettleResubscription
    <3>3. reconnect_subs_pending_ \in Nat /\ state_ \in ConnectionState /\ reconnect_attempt_ \in Nat
      BY DEF TypeOK
    <3>4. reconnect_subs_pending_' \in Nat
      BY <2>1, <3>1, <3>3
    <3>5. state_' \in ConnectionState /\ reconnect_attempt_' \in Nat
      BY <3>2, <3>3 DEF ConnectionState
    <3> QED BY <3>4, <3>5
  <2>2. CASE ~(state_ = "Reconnecting" /\ reconnect_subs_pending_ > 0)
    BY <2>2 DEF AckSettles, SettleResubscription, TypeOK
  <2> QED BY <2>1, <2>2
<1>2. active_subs_' \in [Topics -> Slot]
  BY DEF AckSettles, TypeOK
<1> QED BY <1>1, <1>2 DEF AckSettles, EraseRequest, OtherRequests, TypeOK, SessionType

(* A request of the user keeps the types.                                  *)
LEMMA CallType ==
  ASSUME SessionType, OtherType, NEW m \in Method, NEW t \in Topics \cup {NoTopic}, Call(m, t)
  PROVE  SessionType' /\ next_request_id_' \in Nat \ {0}
<1>1. Rpc(next_request_id_, m, t) \in InflightRpc /\ Req(next_request_id_, m) \in Request
  BY DEF OtherType, Rpc, Req, InflightRpc, Request
<1>2. SessionType'
  BY <1>1 DEF Call, SessionType
<1>3. next_request_id_ \in Nat /\ next_request_id_' = next_request_id_ + 1
  BY DEF Call, OtherType
<1> QED BY <1>2, <1>3

(* A posted event handled, the rest of the queue keeps its type.           *)
LEMMA TailType ==
  ASSUME inq \in Seq(Posted), inq # <<>>, inq' = Tail(inq)
  PROVE  inq' \in Seq(Posted) /\ Head(inq) \in Posted
  OBVIOUS

-----------------------------------------------------------------------------
(* Typing is inductive: one step per action.                               *)
LEMMA TypeInductive == TypeOK /\ [Next]_vars => TypeOK'
<1> SUFFICES ASSUME TypeOK, [Next]_vars
             PROVE  TypeOK'
  OBVIOUS
<1>0. SessionType /\ OtherType
  BY TypeSplit
<1>1. CASE Connect
  <2>1. SessionType' /\ next_request_id_' \in Nat \ {0} /\ engageAcked' \in BOOLEAN /\ faults' \in Nat
    BY <1>1, EstablishConnectionType DEF Connect, ConnectionState
  <2>2. OtherType'
    BY <1>0, <1>1, <2>1 DEF Connect, OtherType
  <2> QED BY <2>1, <2>2, TypeSplit
<1>2. CASE ReconnectTimer
  <2>b. reconnect_attempt_ \in Nat
    BY <1>0 DEF SessionType
  <2>1. reconnect_attempt_ + 1 \in Nat
    BY <2>b
  <2>a. "Reconnecting" \in ConnectionState
    BY DEF ConnectionState
  <2>2. SessionType' /\ next_request_id_' \in Nat \ {0} /\ engageAcked' \in BOOLEAN /\ faults' \in Nat
    BY <1>2, <2>1, <2>a, EstablishConnectionType DEF ReconnectTimer
  <2>3. OtherType'
    BY <1>0, <1>2, <2>2 DEF ReconnectTimer, OtherType
  <2> QED BY <2>2, <2>3, TypeSplit
<1>3. CASE HandshakeRejected
  <2>1. PICK r \in inflight_rpc_, out \in {"fatal", "error"} :
          /\ Response("handshake", out, r)
          /\ IF out = "fatal"
             THEN AbortToFatal(inflight_rpc_ \ {r})
             ELSE DoReconnect(reconnect_attempt_, active_subs_, inflight_rpc_ \ {r},
                              inflight_sub_request_, sub_ack_timers_)
          /\ UNCHANGED <<reconnectVars, next_request_id_, faults, ops>>
    BY <1>3 DEF HandshakeRejected
  <2>2. SessionType'
    <3>1. CASE out = "fatal"
      BY <1>0, <2>1, <3>1, AbortToFatalType
    <3>2. CASE out # "fatal"
      BY <1>0, <2>1, <3>2, DoReconnectType DEF SessionType
    <3> QED BY <3>1, <3>2
  <2>3. OtherType'
    BY <1>0, <2>1, TailType DEF Response, OtherType, reconnectVars
  <2> QED BY <2>2, <2>3, TypeSplit
<1>4. CASE TransportClosed
  <2>1. SessionType'
    <3>1. CASE UNCHANGED sessionVars
      BY <1>0, <3>1 DEF SessionType, sessionVars
    <3>2. CASE OnTransportClose(active_subs_, inflight_rpc_, inflight_sub_request_)
      BY <1>0, <3>2, OnTransportCloseType DEF SessionType
    <3> QED BY <1>4, <3>1, <3>2 DEF TransportClosed
  <2>2. OtherType'
    BY <1>0, <1>4, TailType DEF TransportClosed, OtherType, reconnectVars
  <2> QED BY <2>1, <2>2, TypeSplit
<1>5. CASE AckTimeout
  <2>1. SessionType'
    BY <1>0, <1>5, OnTransportCloseType DEF AckTimeout, SessionType
  <2>2. OtherType'
    BY <1>0, <1>5 DEF AckTimeout, Deadline, Spend, OtherType, reconnectVars
  <2> QED BY <2>1, <2>2, TypeSplit
<1>6. CASE HeartbeatDead
  <2>1. SessionType'
    BY <1>0, <1>6, OnTransportCloseType DEF HeartbeatDead, SessionType
  <2>2. OtherType'
    BY <1>0, <1>6 DEF HeartbeatDead, Spend, OtherType, reconnectVars
  <2> QED BY <2>1, <2>2, TypeSplit
<1>7. CASE FirstHandshakeOk
  <2> DEFINE unsent == {t \in Registered : active_subs_[t].state = "Pending" /\ active_subs_[t].rid = 0}
  <2>1. PICK r \in inflight_rpc_ :
          /\ Response("handshake", "ok", r) /\ state_ = "Connecting"
          /\ robot_info_' = TRUE
          /\ IF ws_ = "open" \/ unsent = {}
             THEN /\ state_' = "Ready" /\ UNCHANGED reconnect_attempt_
                  /\ \E ids \in FreshIds(unsent) :
                       SendSubscribe(active_subs_, ids, inflight_rpc_ \ {r}, {})
             ELSE SendFails(TRUE, active_subs_, inflight_rpc_ \ {r}, inflight_sub_request_)
          /\ UNCHANGED <<last_estop_intent_, reconnect_subs_pending_, reconnect_estop_pending_,
                         engageAcked, faults, ops>>
    BY <1>7 DEF FirstHandshakeOk
  <2>2. SessionType' /\ next_request_id_' \in Nat \ {0}
    <3>1. CASE ws_ = "open" \/ unsent = {}
      <4>1. unsent \in SUBSET Topics
        BY DEF Registered
      <4>2. (inflight_rpc_ \ {r}) \ inflight_rpc_ = {}
        OBVIOUS
      <4>3. inflight_rpc_ \ {r} \in SUBSET InflightRpc /\ active_subs_ \in [Topics -> Slot]
            /\ reconnect_attempt_' \in Nat /\ state_' \in ConnectionState
        BY <1>0, <2>1, <3>1 DEF SessionType, ConnectionState
      <4> HIDE DEF unsent
      <4> QED BY <2>1, <3>1, <4>1, <4>2, <4>3, FS_EmptySet, SendSubscribeType
    <3>2. CASE ~(ws_ = "open" \/ unsent = {})
      <4>1. SendFails(TRUE, active_subs_, inflight_rpc_ \ {r}, inflight_sub_request_)
        BY <2>1, <3>2
      <4> QED BY <1>0, <4>1, SendFailsType DEF SessionType, OtherType
    <3> QED BY <3>1, <3>2
  <2>3. OtherType'
    BY <1>0, <2>1, <2>2, TailType DEF Response, OtherType
  <2> QED BY <2>2, <2>3, TypeSplit
<1>8. CASE ReconnectHandshakeOk
  <2> DEFINE engaged == last_estop_intent_ = "Engaged"
             slots   == [t \in Topics |-> [active_subs_[t] EXCEPT !.fresh_retry_done = FALSE]]
             replay  == IF engaged
                        THEN {Rpc(next_request_id_ + Cardinality(Registered), "replay", NoTopic)}
                        ELSE {}
  <2>1. PICK r \in inflight_rpc_ :
          /\ Response("handshake", "ok", r) /\ state_ = "Reconnecting"
          /\ robot_info_' = TRUE
          /\ reconnect_subs_pending_' = Cardinality(Registered)
          /\ reconnect_estop_pending_' = (engaged /\ ws_ = "open")
          /\ IF Registered = {} /\ ~engaged
             THEN /\ state_' = "Ready" /\ reconnect_attempt_' = 0
                  /\ inflight_rpc_' = inflight_rpc_ \ {r}
                  /\ UNCHANGED <<ws_, reconnect_timer_, active_subs_, inflight_sub_request_,
                                 sub_ack_timers_, net, crashed, next_request_id_>>
             ELSE IF ws_ = "open"
             THEN /\ UNCHANGED <<state_, reconnect_attempt_>>
                  /\ \E ids \in FreshIds(Registered) :
                       SendSubscribe(slots, ids, (inflight_rpc_ \ {r}) \cup replay, {})
             ELSE SendFails(Registered # {}, slots, inflight_rpc_ \ {r}, inflight_sub_request_)
          /\ UNCHANGED <<last_estop_intent_, engageAcked, faults, ops>>
    BY <1>8 DEF ReconnectHandshakeOk
  <2>2. Registered \in SUBSET Topics /\ IsFiniteSet(Registered) /\ Cardinality(Registered) \in Nat
    BY SessionAssumption, FS_Subset, FS_CardinalityType DEF Registered
  <2>3. slots \in [Topics -> Slot]
    BY <1>0 DEF SessionType, Slot
  <2>4. SessionType' /\ next_request_id_' \in Nat \ {0}
    <3>1. CASE Registered = {} /\ ~engaged
      <4>1. state_' \in ConnectionState /\ reconnect_attempt_' \in Nat
        BY <2>1, <3>1 DEF ConnectionState
      <4>2. UNCHANGED <<ws_, reconnect_timer_, active_subs_, inflight_sub_request_,
                        sub_ack_timers_, net, crashed, next_request_id_>>
            /\ inflight_rpc_' = inflight_rpc_ \ {r}
        BY <2>1, <3>1
      <4> QED BY <1>0, <4>1, <4>2 DEF SessionType, OtherType
    <3>2. CASE ~(Registered = {} /\ ~engaged) /\ ws_ = "open"
      <4>1. next_request_id_ + Cardinality(Registered) \in Nat
        BY <1>0, <2>2 DEF OtherType
      <4>2. replay \in SUBSET InflightRpc
        BY <4>1 DEF Rpc, InflightRpc, Method
      <4>3. IsFiniteSet(replay)
        BY FS_EmptySet, FS_Singleton
      <4>4. ((inflight_rpc_ \ {r}) \cup replay) \ inflight_rpc_ \in SUBSET replay
        OBVIOUS
      <4>5. IsFiniteSet(((inflight_rpc_ \ {r}) \cup replay) \ inflight_rpc_)
        BY <4>3, <4>4, FS_Subset
      <4>6. (inflight_rpc_ \ {r}) \cup replay \in SUBSET InflightRpc
            /\ reconnect_attempt_' \in Nat /\ state_' \in ConnectionState
        BY <1>0, <2>1, <3>2, <4>2 DEF SessionType
      <4> HIDE DEF engaged, slots, replay
      <4> QED BY <2>1, <2>2, <2>3, <3>2, <4>5, <4>6, SendSubscribeType
    <3>3. CASE ~(Registered = {} /\ ~engaged) /\ ws_ # "open"
      <4>1. SendFails(Registered # {}, slots, inflight_rpc_ \ {r}, inflight_sub_request_)
        BY <2>1, <3>3
      <4> HIDE DEF slots
      <4> QED BY <1>0, <2>3, <4>1, SendFailsType DEF SessionType, OtherType
    <3> QED BY <3>1, <3>2, <3>3
  <2>5. OtherType'
    BY <1>0, <2>1, <2>2, <2>4, TailType DEF Response, OtherType
  <2> QED BY <2>4, <2>5, TypeSplit
<1>9. CASE EStopReply
  <2>1. PICK r \in inflight_rpc_, m \in {"engage", "release"}, out \in {"ok", "error"} :
          /\ Response(m, out, r)
          /\ inflight_rpc_' = inflight_rpc_ \ {r}
          /\ IF out = "ok"
             THEN /\ last_estop_intent_' = IF m = "engage" THEN "Engaged" ELSE "None"
                  /\ engageAcked' = (m = "engage")
             ELSE UNCHANGED <<last_estop_intent_, engageAcked>>
          /\ UNCHANGED <<state_, ws_, reconnect_attempt_, reconnect_timer_, active_subs_,
                         inflight_sub_request_, sub_ack_timers_, net, crashed,
                         reconnect_subs_pending_, reconnect_estop_pending_, robot_info_,
                         next_request_id_, faults, ops>>
    BY <1>9 DEF EStopReply
  <2>2. SessionType'
    BY <1>0, <2>1 DEF SessionType
  <2>3. last_estop_intent_' \in {"None", "Engaged"} /\ engageAcked' \in BOOLEAN
    BY <1>0, <2>1 DEF OtherType
  <2>4. OtherType'
    BY <1>0, <2>1, <2>3, TailType DEF Response, OtherType
  <2> QED BY <2>2, <2>4, TypeSplit
<1>10. CASE ReplayOk
  <2>1. PICK r \in inflight_rpc_ :
          /\ Response("replay", "ok", r)
          /\ inflight_rpc_' = inflight_rpc_ \ {r}
          /\ reconnect_estop_pending_' = FALSE /\ engageAcked' = TRUE
          /\ \/ state_' = "Ready" /\ reconnect_attempt_' = 0
             \/ UNCHANGED <<state_, reconnect_attempt_>>
          /\ UNCHANGED <<ws_, reconnect_timer_, active_subs_, inflight_sub_request_,
                         sub_ack_timers_, net, crashed, last_estop_intent_,
                         reconnect_subs_pending_, robot_info_, next_request_id_, faults, ops>>
    BY <1>10 DEF ReplayOk
  <2>2. state_' \in ConnectionState /\ reconnect_attempt_' \in Nat
    <3>1. \/ state_' = "Ready" /\ reconnect_attempt_' = 0
          \/ state_' = state_ /\ reconnect_attempt_' = reconnect_attempt_
      BY <2>1
    <3>2. state_ \in ConnectionState /\ reconnect_attempt_ \in Nat
      BY <1>0 DEF SessionType
    <3> QED BY <3>1, <3>2 DEF ConnectionState
  <2>3. SessionType'
    BY <1>0, <2>1, <2>2 DEF SessionType
  <2>4. OtherType'
    BY <1>0, <2>1, TailType DEF Response, OtherType
  <2> QED BY <2>3, <2>4, TypeSplit
<1>11. CASE ReplayRejected \/ ReplayTimeout
  <2>1. PICK r \in inflight_rpc_ : ReplayFailed(r)
    BY <1>11 DEF ReplayRejected, ReplayTimeout
  <2>2. SessionType'
    BY <1>0, <2>1, OnTransportCloseType DEF ReplayFailed, SessionType
  <2>3. inq' \in Seq(Posted) /\ faults' \in Nat
    BY <1>0, <1>11, TailType
    DEF ReplayRejected, ReplayTimeout, Response, Deadline, Spend, OtherType
  <2>4. OtherType'
    BY <1>0, <2>1, <2>3 DEF ReplayFailed, OtherType
  <2> QED BY <2>2, <2>4, TypeSplit
<1>12. CASE UnsubscribeReply
  <2>1. PICK r \in inflight_rpc_, out \in {"ok", "error"} :
          /\ Response("unsubscribe", out, r)
          /\ inflight_rpc_' = inflight_rpc_ \ {r}
          /\ active_subs_' = [active_subs_ EXCEPT ![r.topic] = NoSlot]
          /\ UNCHANGED <<state_, ws_, reconnect_attempt_, reconnect_timer_,
                         inflight_sub_request_, sub_ack_timers_, net, crashed,
                         reconnectVars, next_request_id_, faults, ops>>
    BY <1>12 DEF UnsubscribeReply
  <2>a. active_subs_' \in [Topics -> Slot]
    <3>1. active_subs_ \in [Topics -> Slot]
      BY <1>0 DEF SessionType
    <3> QED BY <2>1, <3>1, NoSlotType
  <2>2. SessionType'
    BY <1>0, <2>1, <2>a DEF SessionType
  <2>3. OtherType'
    BY <1>0, <2>1, TailType DEF Response, OtherType, reconnectVars
  <2> QED BY <2>2, <2>3, TypeSplit
<1>13. CASE UnknownResponse
  <2>1. SessionType'
    BY <1>0, <1>13 DEF UnknownResponse, SessionType, sessionVars
  <2>2. OtherType'
    BY <1>0, <1>13, TailType DEF UnknownResponse, OtherType, reconnectVars
  <2> QED BY <2>1, <2>2, TypeSplit
<1>14. CASE AckAccepted \/ AckRejected
  <2>1. PICK q \in inflight_sub_request_, slot \in Slot, out \in AnyOutcome :
          Ack(q, out) /\ AckSettles(q, slot)
    <3>1. CASE AckAccepted
      <4>1. PICK q \in inflight_sub_request_ :
              Ack(q, "ok") /\ AckSettles(q, [active_subs_[q.topic] EXCEPT !.state = "Active", !.rid = 0])
        BY <3>1 DEF AckAccepted
      <4>2. [active_subs_[q.topic] EXCEPT !.state = "Active", !.rid = 0] \in Slot
        BY <1>0 DEF SessionType, Slot, SubscriptionState
      <4> QED BY <4>1, <4>2 DEF AnyOutcome
    <3>2. CASE AckRejected
      BY <3>2, NoSlotType DEF AckRejected, AnyOutcome
    <3> QED BY <1>14, <3>1, <3>2
  <2>2. SessionType' /\ reconnect_subs_pending_' \in Nat
        /\ UNCHANGED <<last_estop_intent_, reconnect_estop_pending_, robot_info_, engageAcked,
                       next_request_id_>>
    BY <2>1, AckSettlesType
  <2>3. OtherType'
    BY <1>0, <2>1, <2>2, TailType DEF Ack, OtherType
  <2> QED BY <2>2, <2>3, TypeSplit
<1>15. CASE AckFreshRetry
  <2> DEFINE slots(q) == [active_subs_ EXCEPT ![q.topic].fresh_retry_done = TRUE]
  <2>1. PICK q \in inflight_sub_request_ :
          /\ Ack(q, "retry")
          /\ IF ws_ = "open"
             THEN /\ \E ids \in FreshIds({q.topic}) :
                       SendSubscribe(slots(q), ids, inflight_rpc_, {q.rid})
                  /\ UNCHANGED <<state_, reconnect_attempt_>>
             ELSE SendFails(FALSE, slots(q), inflight_rpc_, OtherRequests(q))
          /\ UNCHANGED reconnectVars
    BY <1>15 DEF AckFreshRetry
  <2>2. q.topic \in Topics /\ active_subs_ \in [Topics -> Slot]
    BY <1>0 DEF SessionType
  <2>3. slots(q) \in [Topics -> Slot]
    BY <2>2 DEF Slot
  <2>4. SessionType' /\ next_request_id_' \in Nat \ {0}
    <3>1. CASE ws_ = "open"
      <4>1. inflight_rpc_ \ inflight_rpc_ = {} /\ {q.topic} \in SUBSET Topics
        BY <2>2
      <4>2. inflight_rpc_ \in SUBSET InflightRpc /\ state_' \in ConnectionState
            /\ reconnect_attempt_' \in Nat
        BY <1>0, <2>1, <3>1 DEF SessionType
      <4> HIDE DEF slots
      <4> QED BY <2>1, <2>3, <3>1, <4>1, <4>2, FS_EmptySet, SendSubscribeType
    <3>2. CASE ws_ # "open"
      <4>1. SendFails(FALSE, slots(q), inflight_rpc_, OtherRequests(q))
        BY <2>1, <3>2
      <4>2. OtherRequests(q) \in SUBSET [rid : Nat, topic : Topics]
        BY <1>0 DEF OtherRequests, SessionType
      <4> HIDE DEF slots
      <4> QED BY <1>0, <2>3, <4>1, <4>2, SendFailsType DEF OtherType
    <3> QED BY <3>1, <3>2
  <2>5. OtherType'
    BY <1>0, <2>1, <2>4, TailType DEF Ack, OtherType, reconnectVars
  <2> QED BY <2>4, <2>5, TypeSplit
<1>16. CASE AckFatal
  <2>1. PICK q \in inflight_sub_request_ :
          Ack(q, "fatal") /\ AbortToFatal(inflight_rpc_) /\ UNCHANGED <<reconnectVars, next_request_id_>>
    BY <1>16 DEF AckFatal
  <2>2. SessionType'
    BY <1>0, <2>1, AbortToFatalType
  <2>3. OtherType'
    BY <1>0, <2>1, TailType DEF Ack, OtherType, reconnectVars
  <2> QED BY <2>2, <2>3, TypeSplit
<1>17. CASE AckTransient
  <2>1. PICK q \in inflight_sub_request_ :
          /\ Ack(q, "transient")
          /\ \/ /\ OnTransportClose(active_subs_, inflight_rpc_, OtherRequests(q))
                /\ UNCHANGED <<reconnectVars, next_request_id_>>
             \/ AckSettles(q, NoSlot)
    BY <1>17 DEF AckTransient
  <2>2. CASE AckSettles(q, NoSlot)
    <3>1. SessionType' /\ reconnect_subs_pending_' \in Nat
          /\ UNCHANGED <<last_estop_intent_, reconnect_estop_pending_, robot_info_, engageAcked,
                         next_request_id_>>
      BY <2>2, AckSettlesType, NoSlotType
    <3>2. OtherType'
      BY <1>0, <2>1, <3>1, TailType DEF Ack, OtherType
    <3> QED BY <3>1, <3>2, TypeSplit
  <2>3. CASE OnTransportClose(active_subs_, inflight_rpc_, OtherRequests(q))
             /\ UNCHANGED <<reconnectVars, next_request_id_>>
    <3>1. OtherRequests(q) \in SUBSET [rid : Nat, topic : Topics] /\ active_subs_ \in [Topics -> Slot]
      BY <1>0 DEF OtherRequests, SessionType
    <3>2. SessionType'
      BY <1>0, <2>3, <3>1, OnTransportCloseType
    <3>3. OtherType'
      BY <1>0, <2>1, <2>3, TailType DEF Ack, OtherType, reconnectVars
    <3> QED BY <3>2, <3>3, TypeSplit
  <2> QED BY <2>1, <2>2, <2>3
<1>18. CASE AckTooLate
  <2>1. PICK q \in inflight_sub_request_, out \in AnyOutcome :
          /\ Ack(q, out) /\ EraseRequest(q)
          /\ UNCHANGED <<state_, ws_, reconnect_attempt_, reconnect_timer_, active_subs_,
                         inflight_rpc_, net, crashed, reconnectVars, next_request_id_>>
    BY <1>18 DEF AckTooLate
  <2>2. SessionType'
    BY <1>0, <2>1 DEF EraseRequest, OtherRequests, SessionType
  <2>3. OtherType'
    BY <1>0, <2>1, TailType DEF Ack, OtherType, reconnectVars
  <2> QED BY <2>2, <2>3, TypeSplit
<1>19. CASE HandshakeTimeout \/ CallTimeout
  <2>1. SessionType'
    BY <1>0, <1>19 DEF HandshakeTimeout, CallTimeout, SessionType
  <2>2. OtherType'
    BY <1>0, <1>19 DEF HandshakeTimeout, CallTimeout, Deadline, Spend, OtherType, reconnectVars
  <2> QED BY <2>1, <2>2, TypeSplit
<1>20. ASSUME NEW t \in Topics, Subscribe(t)
       PROVE  TypeOK'
  <2> DEFINE slot  == [NoSlot EXCEPT !.state = "Pending", !.semantics =
                         IF robot_info_ /\ t \in EventTopics THEN "Event" ELSE "Telemetry"]
             slots == [active_subs_ EXCEPT ![t] = slot]
  <2>1. slot \in Slot
    BY DEF NoSlot, Slot, SubscriptionState
  <2>2. slots \in [Topics -> Slot]
    BY <1>0, <2>1 DEF SessionType
  <2>3. /\ UseOp /\ UNCHANGED <<reconnectVars, inq, faults>>
        /\ \/ /\ active_subs_' = slots
              /\ UNCHANGED <<state_, ws_, reconnect_attempt_, reconnect_timer_, inflight_rpc_,
                             inflight_sub_request_, sub_ack_timers_, net, crashed, next_request_id_>>
           \/ /\ \E ids \in FreshIds({t}) : SendSubscribe(slots, ids, inflight_rpc_, {})
              /\ UNCHANGED <<state_, reconnect_attempt_>>
           \/ SendFails(FALSE, slots, inflight_rpc_, inflight_sub_request_)
    BY <1>20 DEF Subscribe
  <2> HIDE DEF slot, slots
  <2>4. SessionType' /\ next_request_id_' \in Nat \ {0}
    <3>1. CASE /\ active_subs_' = slots
               /\ UNCHANGED <<state_, ws_, reconnect_attempt_, reconnect_timer_, inflight_rpc_,
                              inflight_sub_request_, sub_ack_timers_, net, crashed, next_request_id_>>
      BY <1>0, <2>2, <3>1 DEF SessionType, OtherType
    <3>2. CASE /\ \E ids \in FreshIds({t}) : SendSubscribe(slots, ids, inflight_rpc_, {})
               /\ UNCHANGED <<state_, reconnect_attempt_>>
      <4>1. inflight_rpc_ \ inflight_rpc_ = {} /\ {t} \in SUBSET Topics
        OBVIOUS
      <4>2. inflight_rpc_ \in SUBSET InflightRpc /\ state_' \in ConnectionState
            /\ reconnect_attempt_' \in Nat
        BY <1>0, <3>2 DEF SessionType
      <4> QED BY <2>2, <3>2, <4>1, <4>2, FS_EmptySet, SendSubscribeType
    <3>3. CASE SendFails(FALSE, slots, inflight_rpc_, inflight_sub_request_)
      BY <1>0, <2>2, <3>3, SendFailsType DEF SessionType, OtherType
    <3> QED BY <2>3, <3>1, <3>2, <3>3
  <2>5. OtherType'
    BY <1>0, <2>3, <2>4 DEF UseOp, OtherType, reconnectVars
  <2> QED BY <2>4, <2>5, TypeSplit
<1>21. ASSUME NEW t \in Topics, DropSubscription(t) \/ Unsubscribe(t)
       PROVE  TypeOK'
  <2>1. /\ UseOp /\ UNCHANGED <<reconnectVars, inq, faults>>
        /\ \/ CloseSlot(t, TRUE) \/ CloseSlot(t, FALSE) \/ Call("unsubscribe", t)
    BY <1>21 DEF DropSubscription, Unsubscribe
  <2>2. SessionType' /\ next_request_id_' \in Nat \ {0}
    <3>1. ASSUME NEW d \in BOOLEAN, CloseSlot(t, d)
          PROVE  SessionType' /\ next_request_id_' \in Nat \ {0}
      BY <1>0, <3>1, NoSlotType DEF CloseSlot, SessionType, OtherType
    <3>2. CASE Call("unsubscribe", t)
      BY <1>0, <3>2, CallType DEF Method
    <3> QED BY <2>1, <3>1, <3>2
  <2>3. OtherType'
    BY <1>0, <2>1, <2>2 DEF UseOp, OtherType, reconnectVars
  <2> QED BY <2>2, <2>3, TypeSplit
<1>22. ASSUME NEW engage \in BOOLEAN, EmergencyStop(engage)
       PROVE  TypeOK'
  <2>1. /\ UseOp /\ UNCHANGED <<reconnectVars, inq, faults>>
        /\ \/ Call("engage", NoTopic) \/ Call("release", NoTopic)
    BY <1>22 DEF EmergencyStop
  <2>2. SessionType' /\ next_request_id_' \in Nat \ {0}
    BY <1>0, <2>1, CallType DEF Method
  <2>3. OtherType'
    BY <1>0, <2>1, <2>2 DEF UseOp, OtherType, reconnectVars
  <2> QED BY <2>2, <2>3, TypeSplit
<1>23. CASE Close
  <2>1. SessionType'
    BY <1>0, <1>23, NoSlotType DEF Close, SessionType, ConnectionState
  <2>2. reconnect_estop_pending_' \in BOOLEAN
    BY <1>23 DEF Close
  <2>3. OtherType'
    BY <1>0, <1>23, <2>2 DEF Close, UseOp, OtherType
  <2> QED BY <2>1, <2>3, TypeSplit
<1>24. CASE RobotAccepts \/ RobotRefuses
  <2>1. PICK q \in net, out \in AnyOutcome :
          Reply(q, out) /\ (Spend \/ UNCHANGED faults)
    <3>1. CASE RobotAccepts
      BY <3>1 DEF RobotAccepts, AnyOutcome
    <3>2. CASE RobotRefuses
      <4>1. PICK q \in net : \E out \in Outcome(q.kind) \ {"ok"} : Reply(q, out) /\ Spend
        BY <3>2 DEF RobotRefuses
      <4>2. Outcome(q.kind) \subseteq AnyOutcome
        BY DEF Outcome, AnyOutcome
      <4> QED BY <4>1, <4>2
    <3> QED BY <1>24, <3>1, <3>2
  <2>2. SessionType'
    BY <1>0, <2>1 DEF Reply, SessionType
  <2>3. inq' \in Seq(Posted)
    <3>1. [kind |-> IF q.kind = "subscribe" THEN "ack" ELSE "response",
           rid |-> q.rid, out |-> out] \in Posted
      BY <1>0 DEF Posted, SessionType, Request
    <3> QED BY <1>0, <2>1, <3>1 DEF Reply, OtherType
  <2>4. OtherType'
    BY <1>0, <2>1, <2>3 DEF Reply, Spend, OtherType, reconnectVars
  <2> QED BY <2>2, <2>4, TypeSplit
<1>25. CASE RequestLost
  <2>1. SessionType'
    BY <1>0, <1>25 DEF RequestLost, SessionType
  <2>2. OtherType'
    BY <1>0, <1>25 DEF RequestLost, Spend, OtherType, reconnectVars
  <2> QED BY <2>1, <2>2, TypeSplit
<1>26. CASE OnDisconnect
  <2>1. SessionType'
    BY <1>0, <1>26 DEF OnDisconnect, SessionType
  <2>2. inq' \in Seq(Posted)
    BY <1>0, <1>26 DEF OnDisconnect, OtherType, Posted, AnyOutcome
  <2>3. OtherType'
    BY <1>0, <1>26, <2>2 DEF OnDisconnect, Spend, OtherType, reconnectVars
  <2> QED BY <2>1, <2>3, TypeSplit
<1>27. CASE UNCHANGED vars
  BY <1>0, <1>27, TypeSplit DEF vars, sessionVars, reconnectVars, SessionType, OtherType
<1> QED
  BY <1>1, <1>2, <1>3, <1>4, <1>5, <1>6, <1>7, <1>8, <1>9, <1>10, <1>11, <1>12, <1>13, <1>14,
     <1>15, <1>16, <1>17, <1>18, <1>19, <1>20, <1>21, <1>22, <1>23, <1>24, <1>25, <1>26, <1>27
  DEF Next, Handle, Timer, User, Environment

(* Every reachable state of a session is well typed.                       *)
THEOREM TypeCorrect == Spec => []TypeOK
<1>1. Init => TypeOK
  <2> SUFFICES ASSUME Init PROVE TypeOK
    OBVIOUS
  <2>1. /\ state_ \in ConnectionState /\ ws_ \in {"none", "open", "dead"}
        /\ crashed \in {"no", "stack overflow", "dangling iterator"}
        /\ last_estop_intent_ \in {"None", "Engaged"}
    BY DEF Init, ConnectionState
  <2>2. /\ reconnect_timer_ \in BOOLEAN /\ reconnect_estop_pending_ \in BOOLEAN
        /\ robot_info_ \in BOOLEAN /\ engageAcked \in BOOLEAN
    BY Zenon DEF Init
  <2>3. /\ reconnect_attempt_ \in Nat /\ reconnect_subs_pending_ \in Nat
        /\ next_request_id_ \in Nat \ {0} /\ faults \in Nat /\ ops \in Nat
    BY SessionAssumption DEF Init
  <2>4. inq \in Seq(Posted)
    BY DEF Init
  <2>5. /\ inflight_rpc_ \subseteq InflightRpc /\ sub_ack_timers_ \subseteq Nat /\ net \subseteq Request
        /\ inflight_sub_request_ \subseteq [rid : Nat, topic : Topics]
        /\ active_subs_ \in [Topics -> Slot]
    BY NoSlotType DEF Init
  <2> QED BY <2>1, <2>2, <2>3, <2>4, <2>5 DEF TypeOK
<1> QED BY <1>1, TypeInductive, PTL DEF Spec

-----------------------------------------------------------------------------
(* The shared effects establish or keep PhaseInv.                          *)

(* No ack is awaited for an empty place.                                   *)
LEMMA NoSlotRid == NoSlot.rid = 0 /\ \A t \in Topics : NoSlots[t].rid = 0
  BY DEF NoSlot, NoSlots

(* No ack is awaited for a paused slot.                                    *)
LEMMA PausedRid ==
  ASSUME NEW slots \in [Topics -> Slot], NEW t \in Topics
  PROVE  Paused(slots)[t].rid = 0
  BY DEF Paused, NoSlot, Slot

(* ToFatal establishes the invariant whatever was.                         *)
LEMMA FatalPhase ==
  ASSUME NEW attempt \in Nat, WithinLimit(attempt), ToFatal(attempt)
  PROVE  PhaseInv'
<1>1. FreshSession' /\ RequestsOfPhase' /\ StopOfPhase'
  BY DEF ToFatal, FreshSession, RequestsOfPhase, StopOfPhase
<1>2. RetryArmed'
  BY DEF ToFatal, RetryArmed, WithinLimit
<1>3. AcksOfPhase'
  BY NoSlotRid DEF ToFatal, AcksOfPhase, NoneAwaited
<1> QED BY <1>1, <1>2, <1>3 DEF PhaseInv

(* DoReconnect with nothing in flight establishes it.                      *)
LEMMA RetryPhase ==
  ASSUME NEW attempt \in Nat, WithinLimit(attempt), NEW slots,
         \A t \in Topics : slots[t].rid = 0,
         NEW requests, \A q \in requests : q.rid # 0,
         DoReconnect(attempt, slots, {}, requests, {})
  PROVE  PhaseInv'
<1>1. CASE Exhausted(attempt + 1)
  BY <1>1, FatalPhase DEF DoReconnect
<1>2. CASE ~Exhausted(attempt + 1)
  <2>1. /\ state_' = "TransientFailure" /\ reconnect_attempt_' = attempt
        /\ active_subs_' = slots /\ inflight_rpc_' = {}
        /\ inflight_sub_request_' = requests /\ sub_ack_timers_' = {}
    BY <1>2 DEF DoReconnect
  <2>2. FreshSession' /\ RequestsOfPhase' /\ StopOfPhase'
    BY <2>1 DEF FreshSession, RequestsOfPhase, StopOfPhase
  <2>3. RetryArmed'
    BY <1>2, <2>1, SessionAssumption DEF RetryArmed, WithinLimit, Exhausted
  <2>4. AcksOfPhase'
    BY <2>1 DEF AcksOfPhase, NoneAwaited
  <2> QED BY <2>2, <2>3, <2>4 DEF PhaseInv
<1> QED BY <1>1, <1>2

stopVars == <<last_estop_intent_, reconnect_estop_pending_, engageAcked>>

(* A handler that dies preserves it.                                       *)
LEMMA CrashPhase ==
  ASSUME PhaseInv, NEW how, Crash(how), UNCHANGED stopVars
  PROVE  PhaseInv'
  BY DEF PhaseInv, FreshSession, RetryArmed, WithinLimit, RequestsOfPhase, AcksOfPhase,
         StopOfPhase, NoneAwaited, Crash, stopVars

(* OnTransportClose preserves it.                                          *)
LEMMA ClosePhase ==
  ASSUME TypeOK, PhaseInv, NEW slots \in [Topics -> Slot], NEW rpcs,
         NEW requests, \A q \in requests : q.rid # 0,
         ReplayInflight(rpcs) => UNCHANGED stopVars,
         OnTransportClose(slots, rpcs, requests)
  PROVE  PhaseInv'
<1>1. CASE ReplayInflight(rpcs)
  BY <1>1, CrashPhase DEF OnTransportClose
<1>2. CASE ~ReplayInflight(rpcs)
  <2>1. DoReconnect(reconnect_attempt_, Paused(slots), {}, requests, {})
    BY <1>2 DEF OnTransportClose
  <2>2. reconnect_attempt_ \in Nat /\ WithinLimit(reconnect_attempt_)
    BY DEF TypeOK, PhaseInv, RetryArmed
  <2>3. \A t \in Topics : Paused(slots)[t].rid = 0
    BY PausedRid
  <2> QED BY <2>1, <2>2, <2>3, RetryPhase
<1> QED BY <1>1, <1>2

(* AbortToFatal preserves it.                                              *)
LEMMA AbortPhase ==
  ASSUME TypeOK, PhaseInv, NEW rpcs, ReplayInflight(rpcs) => UNCHANGED stopVars,
         AbortToFatal(rpcs)
  PROVE  PhaseInv'
<1>1. reconnect_attempt_ \in Nat /\ WithinLimit(reconnect_attempt_)
  BY DEF TypeOK, PhaseInv, RetryArmed
<1> QED BY <1>1, CrashPhase, FatalPhase DEF AbortToFatal

(* The variables PhaseInv speaks of.                                       *)
phaseVars == <<state_, reconnect_attempt_, active_subs_, inflight_rpc_, inflight_sub_request_,
               sub_ack_timers_, last_estop_intent_, reconnect_estop_pending_, engageAcked>>

(* A step that changes no variable of PhaseInv keeps it.                   *)
LEMMA UnchangedPhase ==
  ASSUME PhaseInv, UNCHANGED phaseVars
  PROVE  PhaseInv'
  BY DEF PhaseInv, FreshSession, RetryArmed, WithinLimit, RequestsOfPhase, AcksOfPhase,
         StopOfPhase, NoneAwaited, phaseVars

(* So does one that completes requests and changes nothing else.           *)
LEMMA FewerRequestsPhase ==
  ASSUME PhaseInv, inflight_rpc_' \subseteq inflight_rpc_,
         UNCHANGED <<state_, reconnect_attempt_, active_subs_, inflight_sub_request_,
                     sub_ack_timers_, last_estop_intent_, reconnect_estop_pending_, engageAcked>>
  PROVE  PhaseInv'
<1>1. FreshSession' /\ RetryArmed' /\ AcksOfPhase' /\ StopOfPhase'
  BY DEF PhaseInv, FreshSession, RetryArmed, WithinLimit, AcksOfPhase, StopOfPhase, NoneAwaited
<1>2. RequestsOfPhase'
  BY DEF PhaseInv, RequestsOfPhase, NoneAwaited
<1> QED BY <1>1, <1>2 DEF PhaseInv

(* And one that lets slots wait for no ack, or for the one they wait for.  *)
LEMMA FewerAcksPhase ==
  ASSUME PhaseInv, \A t \in Topics : active_subs_'[t].rid \in {0, active_subs_[t].rid},
         sub_ack_timers_' \subseteq sub_ack_timers_,
         inflight_sub_request_' \subseteq inflight_sub_request_,
         UNCHANGED <<state_, reconnect_attempt_, inflight_rpc_, last_estop_intent_,
                     reconnect_estop_pending_, engageAcked>>
  PROVE  PhaseInv'
<1>1. NoneAwaited => NoneAwaited'
  BY DEF NoneAwaited
<1>2. FreshSession' /\ RetryArmed' /\ StopOfPhase'
  BY <1>1 DEF PhaseInv, FreshSession, RetryArmed, WithinLimit, StopOfPhase
<1>3. RequestsOfPhase'
  BY <1>1 DEF PhaseInv, RequestsOfPhase
<1>4. AcksOfPhase'
  BY <1>1 DEF PhaseInv, AcksOfPhase
<1> QED BY <1>2, <1>3, <1>4 DEF PhaseInv

(* The requests in flight, by phase.                                       *)
LEMMA RequestFacts ==
  ASSUME PhaseInv, TypeOK
  PROVE  /\ state_ \in {"Idle", "TransientFailure", "Shutdown", "Fatal"} => inflight_rpc_ = {}
         /\ state_ # "Ready" => \A r \in inflight_rpc_ : inflight_rpc_ = {r}
         /\ \A r \in inflight_rpc_ : r.method = "handshake" =>
              NoneAwaited /\ sub_ack_timers_ = {} /\ inflight_rpc_ = {r}
<1>1. \A r \in inflight_rpc_ : r.method \in Method
  BY DEF TypeOK, InflightRpc
<1>2. RequestsOfPhase
  BY DEF PhaseInv
<1> QED BY <1>1, <1>2 DEF RequestsOfPhase, Method

(* EstablishConnection preserves it.                                       *)
LEMMA EstablishPhase ==
  ASSUME TypeOK, PhaseInv, NEW s \in {"Connecting", "Reconnecting"}, NEW attempt \in Nat,
         state_ \in {"Idle", "TransientFailure"}, WithinLimit(attempt),
         s = "Connecting" => attempt = 0 /\ last_estop_intent_ = "None",
         EstablishConnection(s, attempt), UNCHANGED <<last_estop_intent_, reconnect_estop_pending_>>
  PROVE  PhaseInv'
<1>1. /\ inflight_rpc_ = {} /\ NoneAwaited /\ sub_ack_timers_ = {}
      /\ \A q \in inflight_sub_request_ : q.rid # 0
  BY RequestFacts DEF PhaseInv, AcksOfPhase
<1>2. CASE SendHandshake(s, attempt)
  <2>1. /\ state_' = s /\ reconnect_attempt_' = attempt
        /\ inflight_rpc_' = {Rpc(next_request_id_, "handshake", NoTopic)}
        /\ UNCHANGED <<active_subs_, inflight_sub_request_, sub_ack_timers_>>
    BY <1>1, <1>2 DEF SendHandshake
  <2>2. NoneAwaited'
    BY <1>1, <2>1 DEF NoneAwaited
  <2>3. FreshSession' /\ RetryArmed'
    BY <2>1 DEF FreshSession, RetryArmed, WithinLimit
  <2>4. RequestsOfPhase'
    BY <1>1, <2>1, <2>2 DEF RequestsOfPhase, Rpc
  <2>5. AcksOfPhase' /\ StopOfPhase'
    BY <1>1, <2>1, <2>2 DEF AcksOfPhase, StopOfPhase
  <2> QED BY <2>3, <2>4, <2>5 DEF PhaseInv
<1>3. CASE DoReconnect(attempt, active_subs_, inflight_rpc_, inflight_sub_request_, sub_ack_timers_)
  BY <1>1, <1>3, RetryPhase DEF NoneAwaited
<1>4. CASE ToFatal(attempt)
  BY <1>4, FatalPhase
<1> QED BY <1>2, <1>3, <1>4 DEF EstablishConnection

(* Sending subscriptions on a connection that shook hands.                 *)
LEMMA SendSubscribePhase ==
  ASSUME TypeOK, PhaseInv, NEW slots, NEW ts \in SUBSET Topics, NEW ids \in FreshIds(ts),
         NEW rpcs, NEW done, SendSubscribe(slots, ids, rpcs, done),
         state_' \in {"Ready", "Reconnecting"}, FreshSession', RetryArmed', StopOfPhase',
         \A r \in rpcs : /\ r.method # "handshake"
                         /\ r.method = "replay" => state_' = "Reconnecting" /\ reconnect_estop_pending_'
                         /\ r.method \in {"engage", "release", "unsubscribe"} => state_' = "Ready"
                         /\ state_' # "Ready" => rpcs = {r}
  PROVE  PhaseInv'
<1>a. next_request_id_ \in Nat \ {0}
  BY DEF TypeOK
<1>b. DOMAIN ids = ts /\ \A t \in ts : ids[t] \in Nat /\ ids[t] >= next_request_id_
  BY <1>a, FreshIdsProperties
<1>1. DOMAIN ids = ts /\ \A t \in ts : ids[t] # 0
  BY <1>a, <1>b
<1>2. inflight_rpc_' = rpcs
  BY DEF SendSubscribe
<1>3. RequestsOfPhase'
  BY <1>2 DEF RequestsOfPhase
<1>4. \A q \in inflight_sub_request_' : q.rid # 0
  <2>1. inflight_sub_request_' = {q \in inflight_sub_request_ : q.rid \notin done}
                                   \cup {[rid |-> ids[t], topic |-> t] : t \in ts}
    BY <1>1 DEF SendSubscribe
  <2>2. \A q \in inflight_sub_request_ : q.rid # 0
    BY DEF PhaseInv, AcksOfPhase
  <2> QED BY <1>1, <2>1, <2>2
<1>5. AcksOfPhase'
  BY <1>4 DEF AcksOfPhase
<1> QED BY <1>3, <1>5 DEF PhaseInv
(* A send that fails on a dead socket, the stop's record left alone.       *)
LEMMA SendFailsPhase ==
  ASSUME TypeOK, PhaseInv, NEW looping, NEW slots \in [Topics -> Slot], NEW rpcs,
         NEW requests, \A q \in requests : q.rid # 0, UNCHANGED stopVars,
         SendFails(looping, slots, rpcs, requests)
  PROVE  PhaseInv'
<1>1. CASE Crash("dangling iterator")
  BY <1>1, CrashPhase
<1>2. CASE OnTransportClose(slots, rpcs, requests)
  BY <1>2, ClosePhase
<1> QED BY <1>1, <1>2 DEF SendFails

(* An awaited ack that settles its slot, and maybe the reconnection: then  *)
(* an engaged stop is confirmed, and no request of the phase is left.      *)
LEMMA AckSettlesPhase ==
  ASSUME TypeOK, PhaseInv, NEW q \in inflight_sub_request_, NEW slot,
         Awaits(q), slot.rid = 0, AckSettles(q, slot)
  PROVE  PhaseInv'
<1>1. /\ FreshSession /\ RetryArmed /\ RequestsOfPhase /\ AcksOfPhase /\ StopOfPhase
      /\ active_subs_ \in [Topics -> Slot] /\ q.topic \in Topics /\ q.rid # 0
  BY DEF PhaseInv, AcksOfPhase, TypeOK
<1>2. ~NoneAwaited
  BY <1>1 DEF NoneAwaited, Awaits
<1>3. state_ \in {"Ready", "Reconnecting"}
  BY <1>1, <1>2 DEF AcksOfPhase
<1>4. /\ inflight_sub_request_' \subseteq inflight_sub_request_
      /\ sub_ack_timers_' \subseteq sub_ack_timers_
      /\ \A t \in Topics : active_subs_'[t].rid \in {0, active_subs_[t].rid}
      /\ UNCHANGED <<inflight_rpc_, last_estop_intent_, reconnect_estop_pending_, engageAcked>>
  BY <1>1 DEF AckSettles, EraseRequest, OtherRequests
<1>5. CASE UNCHANGED <<state_, reconnect_attempt_>>
  BY <1>4, <1>5, FewerAcksPhase
<1>6. CASE state_ = "Reconnecting" /\ ~reconnect_estop_pending_ /\ state_' = "Ready" /\ reconnect_attempt_' = 0
  <2>1. inflight_rpc_' = {}
    <3>1. ASSUME NEW r \in inflight_rpc_ PROVE FALSE
      <4>1. r.method \in Method
        BY DEF TypeOK, InflightRpc
      <4> QED BY <1>1, <1>2, <1>6, <4>1 DEF RequestsOfPhase, Method
    <3> QED BY <1>4, <3>1
  <2>2. last_estop_intent_ = "Engaged" => engageAcked
    BY <1>1, <1>2, <1>6 DEF StopOfPhase
  <2>3. FreshSession' /\ RequestsOfPhase' /\ StopOfPhase'
    BY <1>4, <1>6, <2>1, <2>2 DEF FreshSession, RequestsOfPhase, StopOfPhase
  <2>4. RetryArmed'
    BY <1>6, SessionAssumption DEF RetryArmed, WithinLimit
  <2>5. AcksOfPhase'
    BY <1>1, <1>4, <1>6 DEF AcksOfPhase
  <2> QED BY <2>3, <2>4, <2>5 DEF PhaseInv
<1> QED BY <1>5, <1>6 DEF AckSettles, SettleResubscription

(* Sending subscriptions with nothing else changed, on such a connection.  *)
LEMMA ResendPhase ==
  ASSUME TypeOK, PhaseInv, NEW slots, NEW t \in Topics, NEW ids \in FreshIds({t}), NEW done,
         SendSubscribe(slots, ids, inflight_rpc_, done),
         state_ = "Ready" \/ ~NoneAwaited,
         UNCHANGED <<state_, reconnect_attempt_>>, UNCHANGED stopVars
  PROVE  PhaseInv'
<1>1. FreshSession /\ RetryArmed /\ RequestsOfPhase /\ AcksOfPhase /\ StopOfPhase
  BY DEF PhaseInv
<1>2. state_ \in {"Ready", "Reconnecting"}
  BY <1>1 DEF AcksOfPhase
<1>3. FreshSession' /\ RetryArmed' /\ StopOfPhase'
  BY <1>1 DEF FreshSession, RetryArmed, WithinLimit, StopOfPhase, stopVars
<1>4. \A r \in inflight_rpc_ :
        /\ r.method # "handshake"
        /\ r.method = "replay" => state_' = "Reconnecting" /\ reconnect_estop_pending_'
        /\ r.method \in {"engage", "release", "unsubscribe"} => state_' = "Ready"
        /\ state_' # "Ready" => inflight_rpc_ = {r}
  BY <1>1 DEF RequestsOfPhase, stopVars
<1> QED BY <1>2, <1>3, <1>4, SendSubscribePhase

-----------------------------------------------------------------------------
(* PhaseInv is inductive: one step per action.                             *)
LEMMA PhaseInductive == TypeOK /\ PhaseInv /\ [Next]_vars => PhaseInv'
<1> SUFFICES ASSUME TypeOK, PhaseInv, [Next]_vars
             PROVE  PhaseInv'
  OBVIOUS
<1>0. /\ FreshSession /\ RetryArmed /\ RequestsOfPhase /\ AcksOfPhase /\ StopOfPhase
      /\ \A q \in inflight_sub_request_ : q.rid # 0
      /\ active_subs_ \in [Topics -> Slot] /\ reconnect_attempt_ \in Nat
      /\ \A r \in inflight_rpc_ : r.method \in Method
  BY DEF PhaseInv, AcksOfPhase, TypeOK, InflightRpc
<1>1. CASE Connect
  <2>1. reconnect_attempt_ = 0 /\ last_estop_intent_ = "None" /\ WithinLimit(0)
    BY <1>0, <1>1 DEF Connect, FreshSession, RetryArmed
  <2> QED BY <1>1, <2>1, EstablishPhase DEF Connect
<1>2. CASE ReconnectTimer
  <2>1. state_ = "TransientFailure" /\ WithinLimit(reconnect_attempt_ + 1)
    BY <1>0, <1>2 DEF ReconnectTimer, RetryArmed
  <2>2. reconnect_attempt_ + 1 \in Nat
    BY <1>0
  <2> QED BY <1>2, <2>1, <2>2, EstablishPhase DEF ReconnectTimer
<1>3. CASE HandshakeRejected
  <2>1. PICK r \in inflight_rpc_, out \in {"fatal", "error"} :
          /\ Response("handshake", out, r)
          /\ IF out = "fatal"
             THEN AbortToFatal(inflight_rpc_ \ {r})
             ELSE DoReconnect(reconnect_attempt_, active_subs_, inflight_rpc_ \ {r},
                              inflight_sub_request_, sub_ack_timers_)
          /\ UNCHANGED reconnectVars
    BY <1>3 DEF HandshakeRejected
  <2>2. r.method = "handshake"
    BY <2>1 DEF Response
  <2>3. inflight_rpc_ \ {r} = {} /\ NoneAwaited /\ sub_ack_timers_ = {}
    BY <2>2, RequestFacts
  <2>4. CASE out = "fatal"
    BY <2>1, <2>4, AbortPhase DEF reconnectVars, stopVars
  <2>5. CASE out # "fatal"
    <3>1. DoReconnect(reconnect_attempt_, active_subs_, {}, inflight_sub_request_, {})
      BY <2>1, <2>3, <2>5
    <3>2. WithinLimit(reconnect_attempt_)
      BY <1>0 DEF RetryArmed
    <3> QED BY <1>0, <2>3, <3>1, <3>2, RetryPhase DEF NoneAwaited
  <2> QED BY <2>4, <2>5
<1>4. CASE TransportClosed
  <2>1. CASE UNCHANGED sessionVars
    BY <1>4, <2>1, UnchangedPhase DEF TransportClosed, sessionVars, reconnectVars, phaseVars
  <2>2. CASE OnTransportClose(active_subs_, inflight_rpc_, inflight_sub_request_)
    BY <1>0, <1>4, <2>2, ClosePhase DEF TransportClosed, reconnectVars, stopVars
  <2> QED BY <1>4, <2>1, <2>2 DEF TransportClosed
<1>5. CASE AckTimeout \/ HeartbeatDead
  BY <1>0, <1>5, ClosePhase DEF AckTimeout, HeartbeatDead, reconnectVars, stopVars
<1>6. CASE ReplayRejected \/ ReplayTimeout
  <2>1. PICK r \in inflight_rpc_ : r.method = "replay" /\ ReplayFailed(r)
    BY <1>6 DEF ReplayRejected, ReplayTimeout, Response
  <2>2. state_ = "Reconnecting"
    BY <1>0, <2>1 DEF RequestsOfPhase
  <2>3. inflight_rpc_ \ {r} = {}
    BY <2>2, RequestFacts
  <2>4. ~ReplayInflight(inflight_rpc_ \ {r})
    BY <2>3 DEF ReplayInflight
  <2> QED BY <1>0, <2>1, <2>4, ClosePhase DEF ReplayFailed
<1>7. CASE UnknownResponse \/ RobotAccepts \/ RobotRefuses \/ RequestLost \/ OnDisconnect
  BY <1>7, UnchangedPhase
  DEF UnknownResponse, RobotAccepts, RobotRefuses, RequestLost, OnDisconnect, Reply,
      sessionVars, reconnectVars, phaseVars
<1>8. CASE HandshakeTimeout \/ CallTimeout
  BY <1>8, FewerRequestsPhase DEF HandshakeTimeout, CallTimeout, reconnectVars
<1>9. CASE UnsubscribeReply
  <2>1. PICK r \in inflight_rpc_ :
          /\ r.method = "unsubscribe"
          /\ inflight_rpc_' = inflight_rpc_ \ {r}
          /\ active_subs_' = [active_subs_ EXCEPT ![r.topic] = NoSlot]
          /\ UNCHANGED <<state_, reconnect_attempt_, inflight_sub_request_, sub_ack_timers_>>
          /\ UNCHANGED reconnectVars
    BY <1>9 DEF UnsubscribeReply, Response
  <2>2. state_ = "Ready"
    BY <1>0, <2>1 DEF RequestsOfPhase
  <2>3. FreshSession' /\ RetryArmed' /\ StopOfPhase' /\ AcksOfPhase'
    BY <1>0, <2>1, <2>2
    DEF FreshSession, RetryArmed, WithinLimit, StopOfPhase, AcksOfPhase, reconnectVars
  <2>4. RequestsOfPhase'
    BY <1>0, <2>1, <2>2 DEF RequestsOfPhase
  <2> QED BY <2>3, <2>4 DEF PhaseInv
<1>10. CASE EStopReply
  <2>1. PICK r \in inflight_rpc_, m \in {"engage", "release"}, out \in {"ok", "error"} :
          /\ r.method = m
          /\ inflight_rpc_' = inflight_rpc_ \ {r}
          /\ IF out = "ok"
             THEN /\ last_estop_intent_' = IF m = "engage" THEN "Engaged" ELSE "None"
                  /\ engageAcked' = (m = "engage")
             ELSE UNCHANGED <<last_estop_intent_, engageAcked>>
          /\ UNCHANGED <<state_, reconnect_attempt_, active_subs_, inflight_sub_request_,
                         sub_ack_timers_, reconnect_estop_pending_>>
    BY <1>10 DEF EStopReply, Response
  <2>2. state_ = "Ready"
    BY <1>0, <2>1 DEF RequestsOfPhase
  <2>3. FreshSession' /\ RetryArmed' /\ AcksOfPhase'
    BY <1>0, <2>1, <2>2 DEF FreshSession, RetryArmed, WithinLimit, AcksOfPhase
  <2>4. RequestsOfPhase'
    BY <1>0, <2>1, <2>2 DEF RequestsOfPhase
  <2>5. StopOfPhase'
    BY <1>0, <2>1, <2>2 DEF StopOfPhase
  <2> QED BY <2>3, <2>4, <2>5 DEF PhaseInv
<1>11. CASE ReplayOk
  <2>1. PICK r \in inflight_rpc_ :
          /\ r.method = "replay"
          /\ inflight_rpc_' = inflight_rpc_ \ {r} /\ engageAcked' = TRUE
          /\ \/ state_' = "Ready" /\ reconnect_attempt_' = 0
             \/ UNCHANGED <<state_, reconnect_attempt_>>
          /\ UNCHANGED <<active_subs_, inflight_sub_request_, sub_ack_timers_, last_estop_intent_>>
    BY <1>11 DEF ReplayOk, Response
  <2>2. state_ = "Reconnecting"
    BY <1>0, <2>1 DEF RequestsOfPhase
  <2>3. inflight_rpc_' = {}
    BY <2>1, <2>2, RequestFacts
  <2>4. state_' \in {"Ready", "Reconnecting"}
    BY <2>1, <2>2
  <2>5. RetryArmed'
    BY <1>0, <2>1, <2>4, SessionAssumption DEF RetryArmed, WithinLimit
  <2>6. FreshSession' /\ RequestsOfPhase' /\ AcksOfPhase'
    BY <1>0, <2>1, <2>3, <2>4 DEF FreshSession, RequestsOfPhase, AcksOfPhase
  <2>7. StopOfPhase'
    BY <1>0, <2>1, <2>2 DEF StopOfPhase
  <2> QED BY <2>5, <2>6, <2>7 DEF PhaseInv
<1>12. CASE FirstHandshakeOk
  <2> DEFINE unsent == {t \in Registered : active_subs_[t].state = "Pending" /\ active_subs_[t].rid = 0}
  <2>1. PICK r \in inflight_rpc_ :
          /\ r.method = "handshake" /\ state_ = "Connecting"
          /\ IF ws_ = "open" \/ unsent = {}
             THEN /\ state_' = "Ready" /\ UNCHANGED reconnect_attempt_
                  /\ \E ids \in FreshIds(unsent) : SendSubscribe(active_subs_, ids, inflight_rpc_ \ {r}, {})
             ELSE SendFails(TRUE, active_subs_, inflight_rpc_ \ {r}, inflight_sub_request_)
          /\ UNCHANGED <<last_estop_intent_, reconnect_estop_pending_, engageAcked>>
    BY <1>12 DEF FirstHandshakeOk, Response
  <2>2. inflight_rpc_ \ {r} = {}
    BY <2>1, RequestFacts
  <2>3. reconnect_attempt_ = 0 /\ last_estop_intent_ = "None" /\ WithinLimit(0)
    BY <1>0, <2>1 DEF FreshSession, RetryArmed
  <2>4. unsent \in SUBSET Topics
    BY DEF Registered
  <2> HIDE DEF unsent
  <2>5. CASE ws_ = "open" \/ unsent = {}
    <3>1. PICK ids \in FreshIds(unsent) : SendSubscribe(active_subs_, ids, {}, {})
      BY <2>1, <2>2, <2>5
    <3>2. state_' = "Ready" /\ reconnect_attempt_' = 0 /\ last_estop_intent_' = "None"
      BY <2>1, <2>3, <2>5
    <3>3. FreshSession' /\ RetryArmed' /\ StopOfPhase'
      BY <2>3, <3>2 DEF FreshSession, RetryArmed, WithinLimit, StopOfPhase
    <3> QED BY <2>4, <3>1, <3>2, <3>3, SendSubscribePhase
  <2>6. CASE ~(ws_ = "open" \/ unsent = {})
    BY <1>0, <2>1, <2>2, <2>6, SendFailsPhase DEF stopVars
  <2> QED BY <2>5, <2>6
<1>13. CASE ReconnectHandshakeOk
  <2> DEFINE engaged == last_estop_intent_ = "Engaged"
             slots   == [t \in Topics |-> [active_subs_[t] EXCEPT !.fresh_retry_done = FALSE]]
             replay  == IF engaged
                        THEN {Rpc(next_request_id_ + Cardinality(Registered), "replay", NoTopic)}
                        ELSE {}
  <2>1. PICK r \in inflight_rpc_ :
          /\ r.method = "handshake" /\ state_ = "Reconnecting"
          /\ reconnect_estop_pending_' = (engaged /\ ws_ = "open")
          /\ IF Registered = {} /\ ~engaged
             THEN /\ state_' = "Ready" /\ reconnect_attempt_' = 0
                  /\ inflight_rpc_' = inflight_rpc_ \ {r}
                  /\ UNCHANGED <<active_subs_, inflight_sub_request_, sub_ack_timers_>>
             ELSE IF ws_ = "open"
             THEN /\ UNCHANGED <<state_, reconnect_attempt_>>
                  /\ \E ids \in FreshIds(Registered) :
                       SendSubscribe(slots, ids, (inflight_rpc_ \ {r}) \cup replay, {})
             ELSE SendFails(Registered # {}, slots, inflight_rpc_ \ {r}, inflight_sub_request_)
          /\ UNCHANGED <<last_estop_intent_, engageAcked>>
    BY <1>13 DEF ReconnectHandshakeOk, Response
  <2>2. inflight_rpc_ \ {r} = {} /\ NoneAwaited /\ inflight_rpc_ = {r}
    BY <2>1, RequestFacts
  <2>3. slots \in [Topics -> Slot]
    BY <1>0 DEF Slot
  <2>4. CASE Registered = {} /\ ~engaged
    <3>1. /\ state_' = "Ready" /\ reconnect_attempt_' = 0 /\ inflight_rpc_' = {}
          /\ last_estop_intent_' # "Engaged"
          /\ UNCHANGED inflight_sub_request_
      BY <2>1, <2>2, <2>4
    <3> QED
      BY <1>0, <3>1, SessionAssumption
      DEF PhaseInv, FreshSession, RetryArmed, WithinLimit, RequestsOfPhase, AcksOfPhase, StopOfPhase
  <2>5. CASE ~(Registered = {} /\ ~engaged) /\ ws_ = "open"
    <3>1. PICK ids \in FreshIds(Registered) : SendSubscribe(slots, ids, replay, {})
      BY <2>1, <2>2, <2>5
    <3>2. /\ state_' = "Reconnecting" /\ UNCHANGED <<reconnect_attempt_, last_estop_intent_>>
          /\ engaged => reconnect_estop_pending_'
      BY <2>1, <2>5
    <3>3. FreshSession' /\ RetryArmed' /\ StopOfPhase'
      BY <1>0, <3>2 DEF FreshSession, RetryArmed, WithinLimit, StopOfPhase
    <3>4. \A q \in replay : q.method = "replay" /\ engaged /\ replay = {q}
      BY DEF Rpc
    <3>5. Registered \in SUBSET Topics
      BY DEF Registered
    <3> HIDE DEF slots, replay
    <3> QED BY <3>1, <3>2, <3>3, <3>4, <3>5, SendSubscribePhase
  <2>6. CASE ~(Registered = {} /\ ~engaged) /\ ws_ # "open"
    <3>1. SendFails(Registered # {}, slots, {}, inflight_sub_request_)
      BY <2>1, <2>2, <2>6
    <3>2. CASE Crash("dangling iterator")
      <4>1. UNCHANGED <<state_, reconnect_attempt_, active_subs_, inflight_rpc_,
                        inflight_sub_request_, sub_ack_timers_, last_estop_intent_, engageAcked>>
        BY <2>1, <3>2 DEF Crash
      <4>2. NoneAwaited'
        BY <2>2, <4>1 DEF NoneAwaited
      <4>3. FreshSession' /\ RetryArmed' /\ AcksOfPhase'
        BY <1>0, <4>1, <4>2 DEF FreshSession, RetryArmed, WithinLimit, AcksOfPhase
      <4>4. RequestsOfPhase'
        BY <1>0, <2>1, <2>2, <4>1, <4>2 DEF RequestsOfPhase
      <4>5. StopOfPhase'
        BY <1>0, <2>1, <4>1, <4>2 DEF StopOfPhase
      <4> QED BY <4>3, <4>4, <4>5 DEF PhaseInv
    <3>3. CASE OnTransportClose(slots, {}, inflight_sub_request_)
      <4>1. ~ReplayInflight({})
        BY DEF ReplayInflight
      <4> HIDE DEF slots
      <4> QED BY <1>0, <2>3, <3>3, <4>1, ClosePhase
    <3> QED BY <3>1, <3>2, <3>3 DEF SendFails
  <2> QED BY <2>4, <2>5, <2>6
<1>14. CASE AckAccepted \/ AckRejected \/ AckTransient
  <2>1. CASE /\ state_ = "Reconnecting" /\ UNCHANGED reconnectVars
             /\ \E q \in inflight_sub_request_ :
                  OnTransportClose(active_subs_, inflight_rpc_, OtherRequests(q))
    BY <1>0, <2>1, ClosePhase DEF OtherRequests, reconnectVars, stopVars
  <2>2. ASSUME NEW q \in inflight_sub_request_, NEW slot, Awaits(q), slot.rid = 0, AckSettles(q, slot)
        PROVE  PhaseInv'
    BY <2>2, AckSettlesPhase
  <2>3. NoSlot.rid = 0
    BY NoSlotRid
  <2>4. \A q \in inflight_sub_request_ :
          [active_subs_[q.topic] EXCEPT !.state = "Active", !.rid = 0].rid = 0
    BY <1>0 DEF TypeOK, Slot
  <2>5. CASE AckAccepted
    BY <2>2, <2>4, <2>5 DEF AckAccepted
  <2>6. CASE AckRejected
    BY <2>2, <2>3, <2>6 DEF AckRejected
  <2>7. CASE AckTransient
    BY <2>1, <2>2, <2>3, <2>7 DEF AckTransient
  <2> QED BY <1>14, <2>5, <2>6, <2>7
<1>15. CASE AckFreshRetry
  <2>1. PICK q \in inflight_sub_request_ :
          /\ Awaits(q)
          /\ IF ws_ = "open"
             THEN /\ \E ids \in FreshIds({q.topic}) :
                       SendSubscribe([active_subs_ EXCEPT ![q.topic].fresh_retry_done = TRUE],
                                     ids, inflight_rpc_, {q.rid})
                  /\ UNCHANGED <<state_, reconnect_attempt_>>
             ELSE SendFails(FALSE, [active_subs_ EXCEPT ![q.topic].fresh_retry_done = TRUE],
                            inflight_rpc_, OtherRequests(q))
          /\ UNCHANGED reconnectVars
    BY <1>15 DEF AckFreshRetry
  <2> DEFINE slots == [active_subs_ EXCEPT ![q.topic].fresh_retry_done = TRUE]
  <2>2. q.topic \in Topics /\ q.rid # 0
    BY <1>0 DEF TypeOK
  <2>3. ~NoneAwaited
    BY <2>1, <2>2 DEF NoneAwaited, Awaits
  <2>4. slots \in [Topics -> Slot]
    BY <1>0, <2>2 DEF Slot
  <2>5. CASE ws_ = "open"
    <3>1. PICK ids \in FreshIds({q.topic}) : SendSubscribe(slots, ids, inflight_rpc_, {q.rid})
      BY <2>1, <2>5
    <3>2. UNCHANGED <<state_, reconnect_attempt_>> /\ UNCHANGED stopVars
      BY <2>1, <2>5 DEF reconnectVars, stopVars
    <3> HIDE DEF slots
    <3> QED BY <2>2, <2>3, <3>1, <3>2, ResendPhase
  <2>6. CASE ws_ # "open"
    <3>1. SendFails(FALSE, slots, inflight_rpc_, OtherRequests(q)) /\ UNCHANGED stopVars
      BY <2>1, <2>6 DEF reconnectVars, stopVars
    <3>2. \A p \in OtherRequests(q) : p.rid # 0
      BY <1>0 DEF OtherRequests
    <3> HIDE DEF slots
    <3> QED BY <2>4, <3>1, <3>2, SendFailsPhase
  <2> QED BY <2>5, <2>6
<1>16. CASE AckFatal
  BY <1>16, AbortPhase DEF AckFatal, reconnectVars, stopVars
<1>17. CASE AckTooLate
  <2>1. /\ inflight_sub_request_' \subseteq inflight_sub_request_
        /\ sub_ack_timers_' \subseteq sub_ack_timers_
        /\ UNCHANGED <<state_, reconnect_attempt_, active_subs_, inflight_rpc_>>
        /\ UNCHANGED reconnectVars
    BY <1>17 DEF AckTooLate, EraseRequest, OtherRequests
  <2> QED BY <2>1, FewerAcksPhase DEF reconnectVars
<1>18. ASSUME NEW t \in Topics, Subscribe(t)
       PROVE  PhaseInv'
  <2> DEFINE slot  == [NoSlot EXCEPT !.state = "Pending", !.semantics =
                         IF robot_info_ /\ t \in EventTopics THEN "Event" ELSE "Telemetry"]
             slots == [active_subs_ EXCEPT ![t] = slot]
  <2>1. slot \in Slot /\ slot.rid = 0
    BY NoSlotType, NoSlotRid DEF Slot, NoSlot, SubscriptionState
  <2>2. UNCHANGED reconnectVars
    BY <1>18 DEF Subscribe
  <2>3. slots \in [Topics -> Slot] /\ \A u \in Topics : slots[u].rid \in {0, active_subs_[u].rid}
    <3> HIDE DEF slot
    <3> QED BY <1>0, <2>1
  <2>4. CASE state_ # "Ready"
    <3>1. /\ active_subs_' = slots
          /\ UNCHANGED <<state_, reconnect_attempt_, inflight_rpc_, inflight_sub_request_, sub_ack_timers_>>
      BY <1>18, <2>4 DEF Subscribe
    <3> HIDE DEF slots
    <3> QED BY <2>2, <2>3, <3>1, FewerAcksPhase DEF reconnectVars
  <2>5. CASE state_ = "Ready" /\ ws_ = "open"
    <3>1. PICK ids \in FreshIds({t}) : SendSubscribe(slots, ids, inflight_rpc_, {})
      BY <1>18, <2>5 DEF Subscribe
    <3>2. UNCHANGED <<state_, reconnect_attempt_>> /\ UNCHANGED stopVars
      BY <1>18, <2>2, <2>5 DEF Subscribe, reconnectVars, stopVars
    <3> HIDE DEF slots
    <3> QED BY <2>5, <3>1, <3>2, ResendPhase
  <2>6. CASE state_ = "Ready" /\ ws_ # "open"
    <3>1. SendFails(FALSE, slots, inflight_rpc_, inflight_sub_request_)
      BY <1>18, <2>6 DEF Subscribe
    <3> HIDE DEF slots
    <3> QED BY <1>0, <2>2, <2>3, <3>1, SendFailsPhase DEF reconnectVars, stopVars
  <2> QED BY <2>4, <2>5, <2>6
<1>19. ASSUME NEW t \in Topics, NEW dropped, CloseSlot(t, dropped), UNCHANGED reconnectVars
       PROVE  PhaseInv'
  <2>1. /\ \A u \in Topics : active_subs_'[u].rid \in {0, active_subs_[u].rid}
        /\ sub_ack_timers_' \subseteq sub_ack_timers_
        /\ UNCHANGED <<state_, reconnect_attempt_, inflight_rpc_, inflight_sub_request_>>
    BY <1>0, <1>19, NoSlotRid DEF CloseSlot
  <2> QED BY <1>19, <2>1, FewerAcksPhase DEF reconnectVars
<1>20. ASSUME NEW m \in {"engage", "release", "unsubscribe"}, NEW t, state_ = "Ready",
              Call(m, t), UNCHANGED reconnectVars
       PROVE  PhaseInv'
  <2>1. /\ inflight_rpc_' = inflight_rpc_ \cup {Rpc(next_request_id_, m, t)}
        /\ UNCHANGED <<state_, reconnect_attempt_, active_subs_, inflight_sub_request_, sub_ack_timers_>>
    BY <1>20 DEF Call
  <2>2. FreshSession' /\ RetryArmed' /\ AcksOfPhase' /\ StopOfPhase'
    BY <1>0, <1>20, <2>1
    DEF FreshSession, RetryArmed, WithinLimit, AcksOfPhase, StopOfPhase, reconnectVars
  <2>3. Rpc(next_request_id_, m, t).method = m
    BY DEF Rpc
  <2>4. RequestsOfPhase'
    BY <1>0, <1>20, <2>1, <2>3 DEF RequestsOfPhase
  <2> QED BY <2>2, <2>4 DEF PhaseInv
<1>21. ASSUME NEW t \in Topics, DropSubscription(t) \/ Unsubscribe(t)
       PROVE  PhaseInv'
  BY <1>19, <1>20, <1>21 DEF DropSubscription, Unsubscribe
<1>22. ASSUME NEW engage \in BOOLEAN, EmergencyStop(engage)
       PROVE  PhaseInv'
  <2>1. (IF engage THEN "engage" ELSE "release") \in {"engage", "release", "unsubscribe"}
    OBVIOUS
  <2> QED BY <1>20, <1>22, <2>1 DEF EmergencyStop
<1>23. CASE Close
  <2>1. /\ state_' = "Shutdown" /\ inflight_rpc_' = {} /\ sub_ack_timers_' = {}
        /\ active_subs_' = NoSlots /\ UNCHANGED <<reconnect_attempt_, inflight_sub_request_>>
    BY <1>23 DEF Close
  <2>2. NoneAwaited'
    BY <2>1, NoSlotRid DEF NoneAwaited
  <2> QED
    BY <1>0, <2>1, <2>2
    DEF PhaseInv, FreshSession, RetryArmed, WithinLimit, RequestsOfPhase, AcksOfPhase, StopOfPhase
<1>24. CASE UNCHANGED vars
  BY <1>24, UnchangedPhase DEF vars, sessionVars, reconnectVars, phaseVars
<1> QED
  BY <1>1, <1>2, <1>3, <1>4, <1>5, <1>6, <1>7, <1>8, <1>9, <1>10, <1>11, <1>12, <1>13, <1>14,
     <1>15, <1>16, <1>17, <1>18, <1>21, <1>22, <1>23, <1>24
  DEF Next, Handle, Timer, User, Environment

-----------------------------------------------------------------------------
(* Requests are in flight only in the phase of a connection they belong to,*)
(* the retry is armed within the limit, and the stop is confirmed or still *)
(* to be replayed.                                                         *)
THEOREM PhaseCorrect == Spec => []PhaseInv
<1>1. Init => PhaseInv
  BY NoSlotRid, SessionAssumption
  DEF Init, PhaseInv, FreshSession, RetryArmed, WithinLimit, RequestsOfPhase, AcksOfPhase,
      StopOfPhase, NoneAwaited
<1> QED BY <1>1, TypeCorrect, PhaseInductive, PTL DEF Spec

(* Ready never hides an emergency stop that this connection's robot has    *)
(* not confirmed, for any number of topics, faults and reconnections.      *)
THEOREM EStopSafe == Spec => []EStopConfirmedWhenReady
<1>1. PhaseInv => EStopConfirmedWhenReady
  BY DEF PhaseInv, StopOfPhase, EStopConfirmedWhenReady
<1> QED BY <1>1, PhaseCorrect, PTL

(* The reconnect attempts of one outage never exceed the limit, and Ready  *)
(* forgets them.                                                           *)
THEOREM AttemptsBounded == Spec => []AttemptsWithinLimit
<1>1. PhaseInv => AttemptsWithinLimit
  BY DEF PhaseInv, RetryArmed, WithinLimit, StopOfPhase, AttemptsWithinLimit
<1> QED BY <1>1, PhaseCorrect, PTL

-----------------------------------------------------------------------------
(* SlotInv: the slots of the subscriptions and the acks they wait for.     *)

(* The variables that tell which connection there is.                      *)
slotVars == <<state_, ws_, reconnect_timer_, active_subs_, inflight_rpc_,
              inflight_sub_request_, sub_ack_timers_, reconnect_subs_pending_, next_request_id_>>

(* A step that changes no variable of SlotInv keeps it.                    *)
LEMMA UnchangedSlots ==
  ASSUME SlotInv, UNCHANGED slotVars
  PROVE  SlotInv'
<1>1. ConnectionOfPhase'
  BY Zenon DEF SlotInv, ConnectionOfPhase, slotVars
<1>2. RequestIdsDistinct' /\ AcksCounted'
  BY DEF SlotInv, RequestIdsDistinct, AcksCounted, Awaited, slotVars
<1>3. \A t \in Topics : SlotOfPhase(t)'
  BY DEF SlotInv, SlotOfPhase, slotVars
<1> QED BY <1>1, <1>2, <1>3 DEF SlotInv

(* Between live states the timer stays as it is, unarmed.                  *)
LEMMA LiveConnection ==
  ASSUME ConnectionOfPhase, UNCHANGED reconnect_timer_,
         state_ \in {"Connecting", "Ready", "Reconnecting"},
         state_' \in {"Connecting", "Ready", "Reconnecting"}
  PROVE  ConnectionOfPhase'
  BY Zenon DEF ConnectionOfPhase

(* Requests erased, ids handed out to other requests: ids stay distinct.   *)
LEMMA FewerIds ==
  ASSUME TypeOK, RequestIdsDistinct, inflight_sub_request_' \subseteq inflight_sub_request_,
         next_request_id_' \in Nat, next_request_id_' >= next_request_id_
  PROVE  RequestIdsDistinct'
<1>1. next_request_id_ \in Nat /\ \A q \in inflight_sub_request_ : q.rid \in Nat
  <2>1. next_request_id_ \in Nat \ {0} /\ inflight_sub_request_ \subseteq [rid : Nat, topic : Topics]
    BY Zenon DEF TypeOK
  <2> QED BY <2>1
<1> QED BY <1>1 DEF RequestIdsDistinct

(* The topics that await an ack are finitely many.                         *)
LEMMA AwaitedFinite ==
  /\ IsFiniteSet(Awaited) /\ Cardinality(Awaited) \in Nat
  /\ NoneAwaited <=> Awaited = {}
<1>1. Awaited \subseteq Topics
  BY DEF Awaited
<1>2. IsFiniteSet(Awaited) /\ Cardinality(Awaited) \in Nat
  BY <1>1, SessionAssumption, FS_Subset, FS_CardinalityType
<1>3. NoneAwaited <=> Awaited = {}
  BY DEF NoneAwaited, Awaited
<1> QED BY <1>2, <1>3

(* With no more acks awaited than before, none goes uncounted.             *)
LEMMA FewerAwaited ==
  ASSUME TypeOK, AcksCounted, state_' = "Reconnecting" => state_ = "Reconnecting",
         UNCHANGED reconnect_subs_pending_,
         \A t \in Topics : active_subs_'[t].rid # 0 => active_subs_[t].rid # 0
  PROVE  AcksCounted'
<1>1. Awaited' \subseteq Awaited
  BY DEF Awaited
<1>2. IsFiniteSet(Awaited) /\ Cardinality(Awaited) \in Nat
  BY AwaitedFinite
<1>3. Cardinality(Awaited') <= Cardinality(Awaited) /\ Cardinality(Awaited') \in Nat
  BY <1>1, <1>2, FS_Subset, FS_CardinalityType
<1>4. reconnect_subs_pending_ \in Nat
  BY DEF TypeOK
<1> QED BY <1>2, <1>3, <1>4 DEF AcksCounted

(* With none awaited, nothing is to be counted.                            *)
LEMMA NoneCounted ==
  ASSUME NoneAwaited', reconnect_subs_pending_' \in Nat
  PROVE  AcksCounted'
<1>1. Awaited' = {}
  BY DEF NoneAwaited, Awaited
<1>2. Cardinality(Awaited') = 0
  BY <1>1, FS_EmptySet
<1> QED BY <1>2 DEF AcksCounted

(* ToFatal leaves nothing to speak of.                                     *)
LEMMA FatalSlots ==
  ASSUME NEW attempt, ToFatal(attempt)
  PROVE  SlotInv'
<1>1. ConnectionOfPhase'
  <2>1. state_' = "Fatal" /\ ws_' = "none" /\ reconnect_timer_' = FALSE
    BY DEF ToFatal
  <2> QED BY <2>1, Zenon DEF ConnectionOfPhase
<1>2. RequestIdsDistinct' /\ AcksCounted'
  BY DEF ToFatal, RequestIdsDistinct, AcksCounted
<1>3. \A t \in Topics : SlotOfPhase(t)'
  BY DEF ToFatal, SlotOfPhase, NoSlots, NoSlot
<1> QED BY <1>1, <1>2, <1>3 DEF SlotInv

(* Nor does DoReconnect, with slots that wait for nothing.                 *)
LEMMA RetrySlots ==
  ASSUME TypeOK, SlotInv, NEW attempt, NEW slots,
         \A t \in Topics : slots[t].rid = 0 /\ slots[t].state # "Active",
         NEW requests \in SUBSET inflight_sub_request_, NEW timers, UNCHANGED next_request_id_,
         DoReconnect(attempt, slots, {}, requests, timers)
  PROVE  SlotInv'
<1>1. CASE Exhausted(attempt + 1)
  BY <1>1, FatalSlots DEF DoReconnect
<1>2. CASE ~Exhausted(attempt + 1)
  <2>1. /\ state_' = "TransientFailure" /\ ws_' = "none" /\ reconnect_timer_' = TRUE
        /\ active_subs_' = slots /\ inflight_rpc_' = {} /\ inflight_sub_request_' = requests
    BY <1>2 DEF DoReconnect
  <2>2. ConnectionOfPhase'
    BY <2>1, Zenon DEF ConnectionOfPhase
  <2>3. RequestIdsDistinct'
    <3>1. next_request_id_ \in Nat \ {0}
      BY Zenon DEF TypeOK
    <3> QED BY <2>1, <3>1, FewerIds DEF SlotInv
  <2>4. AcksCounted'
    BY <2>1 DEF AcksCounted
  <2>5. \A t \in Topics : SlotOfPhase(t)'
    BY <2>1 DEF SlotOfPhase
  <2> QED BY <2>2, <2>3, <2>4, <2>5 DEF SlotInv
<1> QED BY <1>1, <1>2

(* A paused slot waits for nothing and is not active.                      *)
LEMMA PausedIdle ==
  ASSUME NEW slots \in [Topics -> Slot], NEW t \in Topics
  PROVE  Paused(slots)[t].rid = 0 /\ Paused(slots)[t].state # "Active"
  BY DEF Paused, NoSlot, Slot

(* A handler that dies preserves SlotInv.                                  *)
LEMMA CrashSlots ==
  ASSUME SlotInv, NEW how, Crash(how), UNCHANGED <<reconnect_subs_pending_, next_request_id_>>
  PROVE  SlotInv'
  BY UnchangedSlots DEF Crash, slotVars

(* OnTransportClose preserves it.                                          *)
LEMMA CloseSlots ==
  ASSUME TypeOK, SlotInv, NEW slots \in [Topics -> Slot], NEW rpcs,
         NEW requests \in SUBSET inflight_sub_request_,
         ReplayInflight(rpcs) => UNCHANGED reconnect_subs_pending_, UNCHANGED next_request_id_,
         OnTransportClose(slots, rpcs, requests)
  PROVE  SlotInv'
<1>1. CASE ReplayInflight(rpcs)
  BY <1>1, CrashSlots DEF OnTransportClose
<1>2. CASE ~ReplayInflight(rpcs)
  <2>1. DoReconnect(reconnect_attempt_, Paused(slots), {}, requests, {})
    BY <1>2 DEF OnTransportClose
  <2> QED BY <2>1, PausedIdle, RetrySlots
<1> QED BY <1>1, <1>2

(* AbortToFatal preserves it.                                              *)
LEMMA AbortSlots ==
  ASSUME SlotInv, NEW rpcs, UNCHANGED <<reconnect_subs_pending_, next_request_id_>>, AbortToFatal(rpcs)
  PROVE  SlotInv'
  BY CrashSlots, FatalSlots DEF AbortToFatal

(* So does a failed send that leaves the counter alone.                    *)
LEMMA SendFailsSlots ==
  ASSUME TypeOK, SlotInv, NEW looping, NEW slots \in [Topics -> Slot], NEW rpcs,
         NEW requests \in SUBSET inflight_sub_request_, UNCHANGED reconnect_subs_pending_,
         SendFails(looping, slots, rpcs, requests)
  PROVE  SlotInv'
<1>1. CASE Crash("dangling iterator")
  BY <1>1, CrashSlots DEF SendFails
<1>2. CASE OnTransportClose(slots, rpcs, requests)
  BY <1>2, CloseSlots DEF SendFails
<1> QED BY <1>1, <1>2 DEF SendFails

(* A step on the same connection that lets slots be, or leave them waiting *)
(* for nothing, and erases no request or deadline that is waited for.      *)
LEMMA KeptSlots ==
  ASSUME TypeOK, SlotInv,
         UNCHANGED <<state_, ws_, reconnect_timer_, reconnect_subs_pending_>>,
         \A r \in inflight_rpc_' : r.method = "handshake" => r \in inflight_rpc_,
         inflight_sub_request_' \subseteq inflight_sub_request_,
         next_request_id_' \in Nat, next_request_id_' >= next_request_id_,
         \A t \in Topics :
           \/ active_subs_'[t].rid = 0 /\ active_subs_'[t].state \in {"Absent", "Pending"}
           \/ /\ active_subs_'[t] = active_subs_[t]
              /\ active_subs_[t].rid # 0 =>
                   /\ active_subs_[t].rid \in sub_ack_timers_'
                   /\ [rid |-> active_subs_[t].rid, topic |-> t] \in inflight_sub_request_'
  PROVE  SlotInv'
<1>1. ConnectionOfPhase'
  BY Zenon DEF SlotInv, ConnectionOfPhase
<1>2. RequestIdsDistinct'
  BY FewerIds DEF SlotInv
<1>3. AcksCounted'
  <2>1. \A t \in Topics : active_subs_'[t].rid # 0 => active_subs_[t].rid # 0
    OBVIOUS
  <2> QED BY <2>1, FewerAwaited DEF SlotInv
<1>4. ASSUME NEW t \in Topics PROVE SlotOfPhase(t)'
  <2>1. CASE active_subs_'[t].rid = 0 /\ active_subs_'[t].state \in {"Absent", "Pending"}
    BY <2>1 DEF SlotOfPhase
  <2>2. CASE /\ active_subs_'[t] = active_subs_[t]
             /\ active_subs_[t].rid # 0 =>
                  /\ active_subs_[t].rid \in sub_ack_timers_'
                  /\ [rid |-> active_subs_[t].rid, topic |-> t] \in inflight_sub_request_'
    <3>1. SlotOfPhase(t)
      BY DEF SlotInv
    <3> QED BY <2>2, <3>1 DEF SlotOfPhase
  <2> QED BY <2>1, <2>2
<1> QED BY <1>1, <1>2, <1>3, <1>4 DEF SlotInv

(* EstablishConnection finds no slot that waits or is active.              *)
LEMMA EstablishSlots ==
  ASSUME TypeOK, PhaseInv, SlotInv, NEW s \in {"Connecting", "Reconnecting"}, NEW attempt,
         state_ \in {"Idle", "TransientFailure"}, EstablishConnection(s, attempt),
         UNCHANGED reconnect_subs_pending_
  PROVE  SlotInv'
<1>1. inflight_rpc_ = {} /\ NoneAwaited /\ sub_ack_timers_ = {}
  BY RequestFacts DEF PhaseInv, AcksOfPhase
<1>2. \A t \in Topics : active_subs_[t].rid = 0 /\ active_subs_[t].state # "Active"
  BY <1>1 DEF SlotInv, SlotOfPhase, NoneAwaited
<1>3. next_request_id_ \in Nat \ {0} /\ reconnect_subs_pending_ \in Nat
  BY Zenon DEF TypeOK
<1>4. CASE SendHandshake(s, attempt)
  <2>1. /\ state_' = s /\ ws_' = "open" /\ reconnect_timer_' = FALSE
        /\ next_request_id_' = next_request_id_ + 1
        /\ UNCHANGED <<active_subs_, inflight_sub_request_>>
    BY <1>4 DEF SendHandshake
  <2>2. ConnectionOfPhase'
    BY <2>1, Zenon DEF ConnectionOfPhase
  <2>3. RequestIdsDistinct'
    BY <1>3, <2>1, FewerIds DEF SlotInv
  <2>4. AcksCounted'
    BY <1>2, <1>3, <2>1, NoneCounted DEF NoneAwaited
  <2>5. \A t \in Topics : SlotOfPhase(t)'
    BY <1>2, <2>1 DEF SlotOfPhase
  <2> QED BY <2>2, <2>3, <2>4, <2>5 DEF SlotInv
<1>5. CASE /\ DoReconnect(attempt, active_subs_, inflight_rpc_, inflight_sub_request_, sub_ack_timers_)
           /\ UNCHANGED next_request_id_
  BY <1>1, <1>2, <1>5, RetrySlots
<1>6. CASE ToFatal(attempt)
  BY <1>6, FatalSlots
<1> QED BY <1>4, <1>5, <1>6 DEF EstablishConnection

(* SendSubscribe numbers its slots with new ids, and arms their deadlines; *)
(* the other slots keep theirs.                                            *)
LEMMA SendSubscribeSlots ==
  ASSUME TypeOK, SlotInv, NEW slots \in [Topics -> Slot], NEW ts \in SUBSET Topics,
         NEW ids \in FreshIds(ts), NEW rpcs, NEW done, IsFiniteSet(rpcs \ inflight_rpc_),
         state_ \in {"Connecting", "Ready", "Reconnecting"},
         state_' \in {"Ready", "Reconnecting"}, AcksCounted',
         ws_ = "open" \/ (ts = {} /\ NoneAwaited),
         \A r \in rpcs : r.method # "handshake",
         \A t \in Topics \ ts : /\ slots[t].rid = active_subs_[t].rid
                                /\ slots[t].state = active_subs_[t].state
                                /\ slots[t].rid # 0 => slots[t].rid \notin done,
         SendSubscribe(slots, ids, rpcs, done)
  PROVE  SlotInv'
<1>1. /\ next_request_id_ \in Nat \ {0}
      /\ inflight_sub_request_ \subseteq [rid : Nat, topic : Topics]
  BY Zenon DEF TypeOK
<1>2. /\ DOMAIN ids = ts /\ ids \in [ts -> Nat] /\ Cardinality(ts) \in Nat
      /\ \A t \in ts : ids[t] >= next_request_id_ /\ ids[t] < next_request_id_ + Cardinality(ts)
      /\ \A t, u \in ts : ids[t] = ids[u] => t = u
  BY <1>1, FreshIdsProperties
<1>3. Cardinality(rpcs \ inflight_rpc_) \in Nat
  BY FS_CardinalityType
<1>4. /\ active_subs_' = [t \in Topics |->
           IF t \in ts THEN [slots[t] EXCEPT !.state = "Pending", !.rid = ids[t]] ELSE slots[t]]
      /\ inflight_sub_request_' = {q \in inflight_sub_request_ : q.rid \notin done}
                                    \cup {[rid |-> ids[t], topic |-> t] : t \in ts}
      /\ sub_ack_timers_' = (sub_ack_timers_ \ done) \cup {ids[t] : t \in ts}
      /\ inflight_rpc_' = rpcs
      /\ next_request_id_' = next_request_id_ + Cardinality(ts) + Cardinality(rpcs \ inflight_rpc_)
      /\ UNCHANGED <<ws_, reconnect_timer_>>
  BY <1>2 DEF SendSubscribe
<1>5. ConnectionOfPhase'
  BY <1>4, LiveConnection DEF SlotInv
<1>6. RequestIdsDistinct'
  <2> DEFINE old == {q \in inflight_sub_request_ : q.rid \notin done}
             new == {[rid |-> ids[t], topic |-> t] : t \in ts}
  <2>1. \A q \in old : q.rid \in Nat /\ q.rid < next_request_id_
    BY <1>1 DEF SlotInv, RequestIdsDistinct
  <2>2. \A q \in new : /\ q.rid \in Nat /\ q.rid >= next_request_id_
                       /\ q.rid < next_request_id_ + Cardinality(ts)
    BY <1>2
  <2>3. \A p, q \in old : p.rid = q.rid => p.topic = q.topic
    BY DEF SlotInv, RequestIdsDistinct
  <2>4. ASSUME NEW p \in new, NEW q \in new, p.rid = q.rid PROVE p.topic = q.topic
    <3>1. PICK t \in ts, u \in ts : p = [rid |-> ids[t], topic |-> t] /\ q = [rid |-> ids[u], topic |-> u]
      OBVIOUS
    <3>2. t = u
      BY <1>2, <2>4, <3>1
    <3> QED BY <3>1, <3>2
  <2>5. inflight_sub_request_' = old \cup new
    BY <1>4
  <2> HIDE DEF old, new
  <2>a. next_request_id_' \in Nat /\ next_request_id_' >= next_request_id_ + Cardinality(ts)
    <3>1. PICK n \in Nat : next_request_id_' = next_request_id_ + Cardinality(ts) + n
      BY <1>3, <1>4, Zenon
    <3>2. Cardinality(ts) \in Nat
      BY <1>2
    <3> QED BY <1>1, <3>1, <3>2
  <2>6. \A q \in inflight_sub_request_' : q.rid < next_request_id_'
    <3>1. Cardinality(ts) \in Nat
      BY <1>2
    <3> QED BY <1>1, <2>1, <2>2, <2>5, <2>a, <3>1
  <2>7. \A p, q \in inflight_sub_request_' : p.rid = q.rid => p.topic = q.topic
    BY <1>1, <2>1, <2>2, <2>3, <2>4, <2>5
  <2> QED BY <2>6, <2>7 DEF RequestIdsDistinct
<1>7. ASSUME NEW t \in Topics PROVE SlotOfPhase(t)'
  <2>1. SlotOfPhase(t)
    BY DEF SlotInv
  <2>2. CASE t \in ts
    <3>1. active_subs_'[t].rid = ids[t] /\ active_subs_'[t].state = "Pending"
      BY <1>4, <2>2 DEF Slot
    <3>2. ids[t] \in sub_ack_timers_' /\ [rid |-> ids[t], topic |-> t] \in inflight_sub_request_'
      BY <1>4, <2>2
    <3>3. ws_' = "open"
      BY <1>4, <2>2
    <3> QED BY <3>1, <3>2, <3>3 DEF SlotOfPhase
  <2>3. CASE t \notin ts
    <3>1. /\ active_subs_'[t].rid = active_subs_[t].rid
          /\ active_subs_'[t].state = active_subs_[t].state
      BY <1>4, <2>3
    <3>2. ASSUME active_subs_[t].rid # 0
          PROVE  /\ active_subs_[t].rid \in sub_ack_timers_' /\ ws_' # "none"
                 /\ [rid |-> active_subs_[t].rid, topic |-> t] \in inflight_sub_request_'
      <4>1. /\ active_subs_[t].rid \in sub_ack_timers_ /\ ws_ # "none"
            /\ [rid |-> active_subs_[t].rid, topic |-> t] \in inflight_sub_request_
        BY <2>1, <3>2 DEF SlotOfPhase
      <4>2. active_subs_[t].rid \notin done
        BY <2>3, <3>2
      <4> QED BY <1>4, <4>1, <4>2
    <3> QED BY <1>4, <2>1, <3>1, <3>2 DEF SlotOfPhase
  <2> QED BY <2>2, <2>3
<1> QED BY <1>5, <1>6, <1>7 DEF SlotInv

(* An ack settles its slot; the counter of a reconnection goes down with   *)
(* the number of acks awaited, and Ready comes with the last one.          *)
LEMMA AckSettlesSlots ==
  ASSUME TypeOK, PhaseInv, SlotInv, NEW q \in inflight_sub_request_, NEW slot \in Slot,
         Awaits(q), slot.rid = 0, slot.state \in {"Absent", "Active"}, AckSettles(q, slot)
  PROVE  SlotInv' /\ (state_ = "Reconnecting" /\ state_' = "Ready" => NoneAwaited')
<1>1. /\ active_subs_ \in [Topics -> Slot] /\ reconnect_subs_pending_ \in Nat
      /\ inflight_sub_request_ \subseteq [rid : Nat, topic : Topics] /\ next_request_id_ \in Nat \ {0}
  BY Zenon DEF TypeOK
<1>2. q.topic \in Topics /\ q.rid # 0 /\ active_subs_[q.topic].rid = q.rid
  BY <1>1 DEF PhaseInv, AcksOfPhase, Awaits
<1>3. ~NoneAwaited
  BY <1>2 DEF NoneAwaited
<1>4. state_ \in {"Ready", "Reconnecting"} /\ \A r \in inflight_rpc_ : r.method # "handshake"
  BY <1>3 DEF PhaseInv, AcksOfPhase, RequestsOfPhase
<1>5. /\ inflight_sub_request_' = {p \in inflight_sub_request_ : p.rid # q.rid}
      /\ sub_ack_timers_' = sub_ack_timers_ \ {q.rid}
      /\ active_subs_' = [active_subs_ EXCEPT ![q.topic] = slot]
      /\ UNCHANGED <<ws_, reconnect_timer_, inflight_rpc_, next_request_id_>>
  BY DEF AckSettles, EraseRequest, OtherRequests
<1>6. state_' \in {"Ready", "Reconnecting"}
  BY <1>4 DEF AckSettles, SettleResubscription
<1>7. ConnectionOfPhase'
  BY <1>4, <1>5, <1>6, LiveConnection DEF SlotInv
<1>8. RequestIdsDistinct'
  BY <1>1, <1>5, FewerIds DEF SlotInv
<1>9. Awaited' = Awaited \ {q.topic} /\ q.topic \in Awaited
  BY <1>1, <1>2, <1>5 DEF Awaited
<1>10. /\ Cardinality(Awaited') = Cardinality(Awaited) - 1 /\ Cardinality(Awaited) \in Nat
       /\ Cardinality(Awaited') \in Nat /\ IsFiniteSet(Awaited')
  BY <1>9, AwaitedFinite, FS_RemoveElement, FS_CardinalityType
<1>11. ASSUME NEW t \in Topics PROVE SlotOfPhase(t)'
  <2>1. SlotOfPhase(t) /\ SlotOfPhase(q.topic) /\ RequestIdsDistinct
    BY <1>2 DEF SlotInv
  <2>2. CASE t = q.topic
    <3>1. active_subs_'[t] = slot
      BY <1>1, <1>5, <2>2
    <3> QED BY <1>4, <1>5, <1>6, <3>1 DEF SlotOfPhase
  <2>3. CASE t # q.topic
    <3>1. active_subs_'[t] = active_subs_[t]
      BY <1>1, <1>5, <2>3
    <3>2. active_subs_[t].rid # 0 => active_subs_[t].rid # q.rid
      <4>1. SUFFICES ASSUME active_subs_[t].rid = q.rid, q.rid # 0 PROVE FALSE
        OBVIOUS
      <4>2. [rid |-> q.rid, topic |-> t] \in inflight_sub_request_
        BY <2>1, <4>1 DEF SlotOfPhase
      <4> QED BY <2>1, <2>3, <4>2 DEF RequestIdsDistinct
    <3> QED BY <1>4, <1>5, <1>6, <2>1, <3>1, <3>2 DEF SlotOfPhase
  <2> QED BY <2>2, <2>3
<1>12. CASE state_ # "Reconnecting"
  <2>1. state_' = "Ready"
    BY <1>4, <1>12 DEF AckSettles, SettleResubscription
  <2>2. AcksCounted'
    BY <2>1 DEF AcksCounted
  <2> QED BY <1>7, <1>8, <1>11, <1>12, <2>2 DEF SlotInv
<1>13. CASE state_ = "Reconnecting"
  <2>1. Cardinality(Awaited) <= reconnect_subs_pending_
    BY <1>13 DEF SlotInv, AcksCounted
  <2>2. reconnect_subs_pending_ > 0
    BY <1>1, <1>10, <2>1
  <2>3. /\ reconnect_subs_pending_' = reconnect_subs_pending_ - 1
        /\ state_' = "Ready" => reconnect_subs_pending_ = 1
    BY <1>13, <2>2 DEF AckSettles, SettleResubscription
  <2>4. AcksCounted'
    BY <1>1, <1>10, <2>1, <2>3 DEF AcksCounted
  <2>5. state_' = "Ready" => Awaited' = {}
    BY <1>1, <1>10, <2>1, <2>3, FS_EmptySet
  <2>6. state_' = "Ready" => NoneAwaited'
    BY <2>5 DEF NoneAwaited, Awaited
  <2> QED BY <1>7, <1>8, <1>11, <2>4, <2>6 DEF SlotInv
<1> QED BY <1>12, <1>13

-----------------------------------------------------------------------------
(* SlotInv is inductive, given PhaseInv: one step per action.              *)
LEMMA SlotInductive == TypeOK /\ PhaseInv /\ SlotInv /\ [Next]_vars => SlotInv'
<1> SUFFICES ASSUME TypeOK, PhaseInv, SlotInv, [Next]_vars
             PROVE  SlotInv'
  OBVIOUS
<1>0. /\ active_subs_ \in [Topics -> Slot] /\ reconnect_subs_pending_ \in Nat
      /\ inflight_rpc_ \subseteq InflightRpc
      /\ inflight_sub_request_ \subseteq [rid : Nat, topic : Topics] /\ next_request_id_ \in Nat \ {0}
  BY Zenon DEF TypeOK
<1>a. /\ ConnectionOfPhase /\ RequestIdsDistinct /\ AcksCounted
      /\ \A t \in Topics : SlotOfPhase(t)
  BY DEF SlotInv
<1>b. next_request_id_ \in Nat /\ next_request_id_ >= next_request_id_
  BY <1>0
(* A request on the same connection, with the deadline of another ack.     *)
<1>c. ASSUME NEW t \in Topics, NEW u \in Topics, u # t, active_subs_[u].rid # 0
      PROVE  active_subs_[u].rid # active_subs_[t].rid
  <2>1. SUFFICES ASSUME active_subs_[t].rid = active_subs_[u].rid PROVE FALSE
    OBVIOUS
  <2>2. /\ [rid |-> active_subs_[u].rid, topic |-> u] \in inflight_sub_request_
        /\ [rid |-> active_subs_[u].rid, topic |-> t] \in inflight_sub_request_
    BY <1>a, <1>c, <2>1 DEF SlotOfPhase
  <2> QED BY <1>a, <1>c, <2>2 DEF RequestIdsDistinct
<1>1. CASE Connect
  BY <1>1, EstablishSlots DEF Connect
<1>2. CASE ReconnectTimer
  BY <1>2, EstablishSlots DEF ReconnectTimer
<1>3. CASE HandshakeRejected
  <2>1. PICK r \in inflight_rpc_, out \in {"fatal", "error"} :
          /\ r.method = "handshake"
          /\ IF out = "fatal"
             THEN AbortToFatal(inflight_rpc_ \ {r})
             ELSE DoReconnect(reconnect_attempt_, active_subs_, inflight_rpc_ \ {r},
                              inflight_sub_request_, sub_ack_timers_)
          /\ UNCHANGED <<reconnect_subs_pending_, next_request_id_>>
    BY <1>3 DEF HandshakeRejected, Response, reconnectVars
  <2>2. inflight_rpc_ \ {r} = {} /\ NoneAwaited
    BY <2>1, RequestFacts
  <2>3. \A t \in Topics : active_subs_[t].rid = 0 /\ active_subs_[t].state # "Active"
    BY <1>a, <2>1, <2>2 DEF SlotOfPhase, NoneAwaited
  <2>4. CASE out = "fatal"
    BY <2>1, <2>4, AbortSlots
  <2>5. CASE out # "fatal"
    <3>1. DoReconnect(reconnect_attempt_, active_subs_, {}, inflight_sub_request_, sub_ack_timers_)
      BY <2>1, <2>2, <2>5
    <3> QED BY <2>1, <2>3, <3>1, RetrySlots
  <2> QED BY <2>4, <2>5
<1>4. CASE TransportClosed
  <2>1. UNCHANGED <<reconnect_subs_pending_, next_request_id_>>
    BY <1>4 DEF TransportClosed, reconnectVars
  <2>2. CASE UNCHANGED sessionVars
    BY <2>1, <2>2, UnchangedSlots DEF sessionVars, slotVars
  <2>3. CASE OnTransportClose(active_subs_, inflight_rpc_, inflight_sub_request_)
    BY <1>0, <2>1, <2>3, CloseSlots
  <2> QED BY <1>4, <2>2, <2>3 DEF TransportClosed
<1>5. CASE AckTimeout \/ HeartbeatDead
  BY <1>0, <1>5, CloseSlots DEF AckTimeout, HeartbeatDead, reconnectVars
<1>6. CASE ReplayRejected \/ ReplayTimeout
  <2>1. PICK r \in inflight_rpc_ :
          /\ OnTransportClose(active_subs_, inflight_rpc_ \ {r}, inflight_sub_request_)
          /\ UNCHANGED <<reconnect_subs_pending_, next_request_id_>>
    BY <1>6 DEF ReplayRejected, ReplayTimeout, ReplayFailed
  <2> QED BY <1>0, <2>1, CloseSlots
<1>7. CASE UnknownResponse \/ RobotAccepts \/ RobotRefuses \/ RequestLost
  BY <1>7, UnchangedSlots
  DEF UnknownResponse, RobotAccepts, RobotRefuses, RequestLost, Reply, sessionVars, reconnectVars, slotVars
<1>8. CASE OnDisconnect
  <2>1. /\ ws_ = "open" /\ ws_' = "dead"
        /\ UNCHANGED <<state_, reconnect_timer_, active_subs_, inflight_rpc_, inflight_sub_request_,
                       sub_ack_timers_, reconnect_subs_pending_, next_request_id_>>
    BY <1>8 DEF OnDisconnect, reconnectVars
  <2>2. ConnectionOfPhase'
    BY <1>a, <2>1, Zenon DEF ConnectionOfPhase
  <2>3. RequestIdsDistinct' /\ AcksCounted'
    BY <1>a, <2>1 DEF RequestIdsDistinct, AcksCounted, Awaited
  <2>4. \A t \in Topics : SlotOfPhase(t)'
    BY <1>a, <2>1 DEF SlotOfPhase
  <2> QED BY <2>2, <2>3, <2>4 DEF SlotInv
<1>9. CASE HandshakeTimeout
  <2>1. PICK r \in inflight_rpc_ :
          /\ r.method = "handshake" /\ inflight_rpc_' = inflight_rpc_ \ {r} /\ ws_' = "none"
          /\ UNCHANGED <<state_, reconnect_timer_, active_subs_, inflight_sub_request_,
                         sub_ack_timers_, reconnect_subs_pending_, next_request_id_>>
    BY <1>9 DEF HandshakeTimeout, reconnectVars
  <2>2. NoneAwaited
    BY <2>1, RequestFacts
  <2>3. ConnectionOfPhase'
    BY <1>a, <2>1, Zenon DEF ConnectionOfPhase
  <2>4. RequestIdsDistinct' /\ AcksCounted'
    BY <1>a, <2>1 DEF RequestIdsDistinct, AcksCounted, Awaited
  <2>5. \A t \in Topics : SlotOfPhase(t)'
    BY <1>a, <2>1, <2>2 DEF SlotOfPhase, NoneAwaited
  <2> QED BY <2>3, <2>4, <2>5 DEF SlotInv
<1>10. CASE CallTimeout \/ EStopReply
  <2>1. /\ inflight_rpc_' \subseteq inflight_rpc_
        /\ UNCHANGED <<state_, ws_, reconnect_timer_, active_subs_, inflight_sub_request_,
                       sub_ack_timers_, reconnect_subs_pending_, next_request_id_>>
    BY <1>10 DEF CallTimeout, EStopReply, reconnectVars
  <2>2. \A t \in Topics : active_subs_[t].rid # 0 =>
          /\ active_subs_[t].rid \in sub_ack_timers_'
          /\ [rid |-> active_subs_[t].rid, topic |-> t] \in inflight_sub_request_'
    BY <1>a, <2>1 DEF SlotOfPhase
  <2> QED BY <1>b, <2>1, <2>2, KeptSlots
<1>11. CASE UnsubscribeReply
  <2>1. PICK r \in inflight_rpc_ :
          /\ inflight_rpc_' = inflight_rpc_ \ {r}
          /\ active_subs_' = [active_subs_ EXCEPT ![r.topic] = NoSlot]
          /\ UNCHANGED <<state_, ws_, reconnect_timer_, inflight_sub_request_,
                         sub_ack_timers_, reconnect_subs_pending_, next_request_id_>>
    BY <1>11 DEF UnsubscribeReply, reconnectVars
  <2>2. ASSUME NEW t \in Topics
        PROVE  \/ active_subs_'[t].rid = 0 /\ active_subs_'[t].state \in {"Absent", "Pending"}
               \/ /\ active_subs_'[t] = active_subs_[t]
                  /\ active_subs_[t].rid # 0 =>
                       /\ active_subs_[t].rid \in sub_ack_timers_'
                       /\ [rid |-> active_subs_[t].rid, topic |-> t] \in inflight_sub_request_'
    <3>1. active_subs_'[t] \in {NoSlot, active_subs_[t]}
      BY <1>0, <2>1
    <3>2. NoSlot.rid = 0 /\ NoSlot.state = "Absent"
      BY DEF NoSlot
    <3>3. SlotOfPhase(t)
      BY <1>a
    <3> QED BY <2>1, <3>1, <3>2, <3>3 DEF SlotOfPhase
  <2> QED BY <1>b, <2>1, <2>2, KeptSlots
<1>12. CASE ReplayOk
  <2>1. PICK r \in inflight_rpc_ :
          /\ r.method = "replay"
          /\ inflight_rpc_' = inflight_rpc_ \ {r}
          /\ state_' = "Ready" \/ UNCHANGED state_
          /\ UNCHANGED <<ws_, reconnect_timer_, active_subs_, inflight_sub_request_,
                         sub_ack_timers_, reconnect_subs_pending_, next_request_id_>>
    BY <1>12 DEF ReplayOk, Response
  <2>2. state_ = "Reconnecting"
    BY <2>1 DEF PhaseInv, RequestsOfPhase
  <2>3. ConnectionOfPhase'
    BY <1>a, <2>1, <2>2, LiveConnection
  <2>4. RequestIdsDistinct' /\ AcksCounted'
    BY <1>a, <2>1, <2>2 DEF RequestIdsDistinct, AcksCounted, Awaited
  <2>5. \A t \in Topics : SlotOfPhase(t)'
    BY <1>a, <2>1, <2>2 DEF SlotOfPhase
  <2> QED BY <2>3, <2>4, <2>5 DEF SlotInv
<1>13. CASE AckAccepted \/ AckRejected \/ AckTransient
  <2>1. ASSUME NEW q \in inflight_sub_request_, UNCHANGED <<reconnect_subs_pending_, next_request_id_>>,
               OnTransportClose(active_subs_, inflight_rpc_, OtherRequests(q))
        PROVE  SlotInv'
    <3>1. OtherRequests(q) \in SUBSET inflight_sub_request_
      BY DEF OtherRequests
    <3> QED BY <1>0, <2>1, <3>1, CloseSlots
  <2>2. ASSUME NEW q \in inflight_sub_request_, NEW slot \in Slot, Awaits(q), slot.rid = 0,
               slot.state \in {"Absent", "Active"}, AckSettles(q, slot)
        PROVE  SlotInv'
    BY <2>2, AckSettlesSlots
  <2>3. NoSlot \in Slot /\ NoSlot.rid = 0 /\ NoSlot.state = "Absent"
    BY NoSlotType DEF NoSlot
  <2>4. ASSUME NEW q \in inflight_sub_request_
        PROVE  LET slot == [active_subs_[q.topic] EXCEPT !.state = "Active", !.rid = 0]
               IN  slot \in Slot /\ slot.rid = 0 /\ slot.state = "Active"
    BY <1>0 DEF Slot, SubscriptionState
  <2>5. CASE AckAccepted
    BY <2>2, <2>4, <2>5 DEF AckAccepted
  <2>6. CASE AckRejected
    BY <2>2, <2>3, <2>6 DEF AckRejected
  <2>7. CASE AckTransient
    BY <2>1, <2>2, <2>3, <2>7 DEF AckTransient, reconnectVars
  <2> QED BY <1>13, <2>5, <2>6, <2>7
<1>14. CASE AckFatal
  BY <1>14, AbortSlots DEF AckFatal, reconnectVars
<1>15. CASE AckTooLate
  <2>1. PICK q \in inflight_sub_request_ :
          /\ ~Awaits(q)
          /\ inflight_sub_request_' = {p \in inflight_sub_request_ : p.rid # q.rid}
          /\ sub_ack_timers_' = sub_ack_timers_ \ {q.rid}
          /\ UNCHANGED <<state_, ws_, reconnect_timer_, active_subs_, inflight_rpc_,
                         reconnect_subs_pending_, next_request_id_>>
    BY <1>15 DEF AckTooLate, EraseRequest, OtherRequests, reconnectVars
  <2>2. ASSUME NEW t \in Topics, active_subs_[t].rid # 0
        PROVE  /\ active_subs_[t].rid \in sub_ack_timers_'
               /\ [rid |-> active_subs_[t].rid, topic |-> t] \in inflight_sub_request_'
    <3>1. /\ active_subs_[t].rid \in sub_ack_timers_ /\ active_subs_[t].state = "Pending"
          /\ [rid |-> active_subs_[t].rid, topic |-> t] \in inflight_sub_request_
      BY <1>a, <2>2 DEF SlotOfPhase
    <3>2. active_subs_[t].rid # q.rid
      <4>1. SUFFICES ASSUME active_subs_[t].rid = q.rid PROVE FALSE
        OBVIOUS
      <4>2. q.topic = t
        BY <1>a, <3>1, <4>1 DEF RequestIdsDistinct
      <4> QED BY <2>1, <3>1, <4>1, <4>2 DEF Awaits
    <3> QED BY <2>1, <3>1, <3>2
  <2> QED BY <1>b, <2>1, <2>2, KeptSlots
<1>16. CASE FirstHandshakeOk
  <2> DEFINE unsent == {t \in Registered : active_subs_[t].state = "Pending" /\ active_subs_[t].rid = 0}
  <2>1. PICK r \in inflight_rpc_ :
          /\ r.method = "handshake" /\ state_ = "Connecting"
          /\ IF ws_ = "open" \/ unsent = {}
             THEN /\ state_' = "Ready"
                  /\ \E ids \in FreshIds(unsent) : SendSubscribe(active_subs_, ids, inflight_rpc_ \ {r}, {})
             ELSE SendFails(TRUE, active_subs_, inflight_rpc_ \ {r}, inflight_sub_request_)
          /\ UNCHANGED reconnect_subs_pending_
    BY <1>16 DEF FirstHandshakeOk, Response
  <2>2. inflight_rpc_ \ {r} = {} /\ NoneAwaited
    BY <2>1, RequestFacts
  <2>3. unsent \in SUBSET Topics
    BY DEF Registered
  <2> HIDE DEF unsent
  <2>4. CASE ws_ = "open" \/ unsent = {}
    <3>1. PICK ids \in FreshIds(unsent) : SendSubscribe(active_subs_, ids, {}, {})
      BY <2>1, <2>2, <2>4
    <3>2. state_' = "Ready"
      BY <2>1, <2>4
    <3>3. AcksCounted'
      BY <3>2 DEF AcksCounted
    <3>4. IsFiniteSet({} \ inflight_rpc_)
      BY FS_EmptySet
    <3> QED BY <1>0, <2>1, <2>2, <2>3, <2>4, <3>1, <3>2, <3>3, <3>4, SendSubscribeSlots
  <2>5. CASE ~(ws_ = "open" \/ unsent = {})
    BY <1>0, <2>1, <2>5, SendFailsSlots
  <2> QED BY <2>4, <2>5
<1>17. CASE ReconnectHandshakeOk
  <2> DEFINE engaged == last_estop_intent_ = "Engaged"
             slots   == [t \in Topics |-> [active_subs_[t] EXCEPT !.fresh_retry_done = FALSE]]
             replay  == IF engaged
                        THEN {Rpc(next_request_id_ + Cardinality(Registered), "replay", NoTopic)}
                        ELSE {}
  <2>1. PICK r \in inflight_rpc_ :
          /\ r.method = "handshake" /\ state_ = "Reconnecting"
          /\ reconnect_subs_pending_' = Cardinality(Registered)
          /\ IF Registered = {} /\ ~engaged
             THEN /\ state_' = "Ready" /\ inflight_rpc_' = inflight_rpc_ \ {r}
                  /\ UNCHANGED <<ws_, reconnect_timer_, active_subs_, inflight_sub_request_,
                                 sub_ack_timers_, next_request_id_>>
             ELSE IF ws_ = "open"
             THEN /\ UNCHANGED state_
                  /\ \E ids \in FreshIds(Registered) :
                       SendSubscribe(slots, ids, (inflight_rpc_ \ {r}) \cup replay, {})
             ELSE SendFails(Registered # {}, slots, inflight_rpc_ \ {r}, inflight_sub_request_)
    BY <1>17 DEF ReconnectHandshakeOk, Response
  <2>2. inflight_rpc_ \ {r} = {} /\ NoneAwaited
    BY <2>1, RequestFacts
  <2>3. /\ slots \in [Topics -> Slot]
        /\ \A t \in Topics : slots[t].rid = active_subs_[t].rid /\ slots[t].state = active_subs_[t].state
    BY <1>0 DEF Slot
  <2>4. Registered \in SUBSET Topics
    BY DEF Registered
  <2>5. IsFiniteSet(Registered) /\ Cardinality(Registered) \in Nat
    BY <2>4, SessionAssumption, FS_Subset, FS_CardinalityType
  <2>6. CASE Registered = {} /\ ~engaged
    <3>1. /\ state_' = "Ready" /\ inflight_rpc_' = {}
          /\ UNCHANGED <<ws_, reconnect_timer_, active_subs_, inflight_sub_request_,
                         sub_ack_timers_, next_request_id_>>
      BY <2>1, <2>2, <2>6
    <3>2. ConnectionOfPhase'
      BY <1>a, <2>1, <3>1, LiveConnection
    <3>3. RequestIdsDistinct' /\ AcksCounted'
      BY <1>a, <3>1 DEF RequestIdsDistinct, AcksCounted
    <3>4. \A t \in Topics : SlotOfPhase(t)'
      BY <1>a, <3>1 DEF SlotOfPhase
    <3> QED BY <3>2, <3>3, <3>4 DEF SlotInv
  <2>7. CASE ~(Registered = {} /\ ~engaged) /\ ws_ = "open"
    <3>1. PICK ids \in FreshIds(Registered) : SendSubscribe(slots, ids, replay, {})
      BY <2>1, <2>2, <2>7
    <3>2. state_' = "Reconnecting" /\ reconnect_subs_pending_' = Cardinality(Registered)
      BY <2>1, <2>7
    <3>3. IsFiniteSet(replay \ inflight_rpc_) /\ \A m \in replay : m.method # "handshake"
      <4>1. IsFiniteSet(replay)
        BY FS_EmptySet, FS_Singleton
      <4>2. \A m \in replay : m.method # "handshake"
        BY DEF Rpc
      <4> HIDE DEF replay
      <4> QED BY <4>1, <4>2, FS_Difference
    <3>4. AcksCounted'
      <4>1. DOMAIN ids = Registered
        BY <1>0, <2>4, FreshIdsProperties
      <4>2. active_subs_' = [t \in Topics |->
              IF t \in Registered THEN [slots[t] EXCEPT !.state = "Pending", !.rid = ids[t]] ELSE slots[t]]
        BY <3>1, <4>1 DEF SendSubscribe
      <4>3. Awaited' \subseteq Registered
        <5> SUFFICES ASSUME NEW t \in Topics \ Registered PROVE active_subs_'[t].rid = 0
          BY DEF Awaited
        <5>1. active_subs_'[t] = slots[t]
          BY <4>2
        <5> HIDE DEF slots
        <5> QED BY <2>2, <2>3, <5>1 DEF NoneAwaited
      <4>4. Cardinality(Awaited') <= Cardinality(Registered)
        BY <2>5, <4>3, FS_Subset
      <4> QED BY <3>2, <4>4 DEF AcksCounted
    <3> HIDE DEF slots, replay
    <3> QED BY <2>1, <2>3, <2>4, <2>7, <3>1, <3>2, <3>3, <3>4, SendSubscribeSlots
  <2>8. CASE ~(Registered = {} /\ ~engaged) /\ ws_ # "open"
    <3>1. SendFails(Registered # {}, slots, {}, inflight_sub_request_)
      BY <2>1, <2>2, <2>8
    <3>2. UNCHANGED next_request_id_
      BY <3>1 DEF SendFails
    <3>3. CASE Crash("dangling iterator")
      <4>1. UNCHANGED <<state_, ws_, reconnect_timer_, active_subs_, inflight_rpc_,
                        inflight_sub_request_, sub_ack_timers_>>
        BY <3>3 DEF Crash
      <4>2. NoneAwaited'
        BY <2>2, <4>1 DEF NoneAwaited
      <4>3. AcksCounted'
        BY <2>1, <2>5, <4>2, NoneCounted
      <4>4. ConnectionOfPhase'
        BY <1>a, <4>1, Zenon DEF ConnectionOfPhase
      <4>5. RequestIdsDistinct' /\ \A t \in Topics : SlotOfPhase(t)'
        BY <1>a, <3>2, <4>1 DEF RequestIdsDistinct, SlotOfPhase
      <4> QED BY <4>3, <4>4, <4>5 DEF SlotInv
    <3>4. CASE OnTransportClose(slots, {}, inflight_sub_request_)
      <4>1. ~ReplayInflight({})
        BY DEF ReplayInflight
      <4> HIDE DEF slots
      <4> QED BY <2>3, <3>2, <3>4, <4>1, CloseSlots
    <3> QED BY <3>1, <3>3, <3>4 DEF SendFails
  <2> QED BY <2>6, <2>7, <2>8
<1>18. CASE AckFreshRetry
  <2>1. PICK q \in inflight_sub_request_ :
          /\ Awaits(q)
          /\ IF ws_ = "open"
             THEN /\ \E ids \in FreshIds({q.topic}) :
                       SendSubscribe([active_subs_ EXCEPT ![q.topic].fresh_retry_done = TRUE],
                                     ids, inflight_rpc_, {q.rid})
                  /\ UNCHANGED state_
             ELSE SendFails(FALSE, [active_subs_ EXCEPT ![q.topic].fresh_retry_done = TRUE],
                            inflight_rpc_, OtherRequests(q))
          /\ UNCHANGED reconnect_subs_pending_
    BY <1>18 DEF AckFreshRetry, reconnectVars
  <2> DEFINE slots == [active_subs_ EXCEPT ![q.topic].fresh_retry_done = TRUE]
  <2>2. q.topic \in Topics /\ q.rid # 0 /\ active_subs_[q.topic].rid = q.rid
    BY <1>0, <2>1 DEF PhaseInv, AcksOfPhase, Awaits
  <2>3. /\ slots \in [Topics -> Slot]
        /\ \A t \in Topics : slots[t].rid = active_subs_[t].rid /\ slots[t].state = active_subs_[t].state
    BY <1>0, <2>2 DEF Slot
  <2>4. /\ state_ \in {"Ready", "Reconnecting"}
        /\ \A r \in inflight_rpc_ : r.method # "handshake"
    BY <2>2 DEF PhaseInv, AcksOfPhase, RequestsOfPhase, NoneAwaited
  <2>5. CASE ws_ = "open"
    <3>1. PICK ids \in FreshIds({q.topic}) : SendSubscribe(slots, ids, inflight_rpc_, {q.rid})
      BY <2>1, <2>5
    <3>2. DOMAIN ids = {q.topic} /\ {q.topic} \in SUBSET Topics
      BY <1>0, <2>2, FreshIdsProperties
    <3>3. \A t \in Topics \ {q.topic} : slots[t].rid # 0 => slots[t].rid \notin {q.rid}
      BY <1>c, <2>2, <2>3
    <3>4. AcksCounted'
      <4>1. \A t \in Topics \ {q.topic} : active_subs_'[t] = slots[t]
        BY <3>1, <3>2 DEF SendSubscribe
      <4> HIDE DEF slots
      <4>2. \A t \in Topics : active_subs_'[t].rid # 0 => active_subs_[t].rid # 0
        BY <2>2, <2>3, <4>1
      <4> QED BY <1>a, <2>1, <2>5, <4>2, FewerAwaited
    <3>5. IsFiniteSet(inflight_rpc_ \ inflight_rpc_)
      BY FS_EmptySet, inflight_rpc_ \ inflight_rpc_ = {}
    <3>6. UNCHANGED state_
      BY <2>1, <2>5
    <3> HIDE DEF slots
    <3> QED BY <2>3, <2>4, <2>5, <3>1, <3>2, <3>3, <3>4, <3>5, <3>6, SendSubscribeSlots
  <2>6. CASE ws_ # "open"
    <3>1. SendFails(FALSE, slots, inflight_rpc_, OtherRequests(q))
      BY <2>1, <2>6
    <3>2. OtherRequests(q) \in SUBSET inflight_sub_request_
      BY DEF OtherRequests
    <3> HIDE DEF slots
    <3> QED BY <2>1, <2>3, <3>1, <3>2, SendFailsSlots
  <2> QED BY <2>5, <2>6
<1>19. ASSUME NEW t \in Topics, Subscribe(t)
       PROVE  SlotInv'
  <2> DEFINE slot  == [NoSlot EXCEPT !.state = "Pending", !.semantics =
                         IF robot_info_ /\ t \in EventTopics THEN "Event" ELSE "Telemetry"]
             slots == [active_subs_ EXCEPT ![t] = slot]
  <2>1. slot \in Slot /\ slot.rid = 0 /\ slot.state = "Pending"
    BY DEF Slot, NoSlot, SubscriptionState
  <2>2. UNCHANGED reconnect_subs_pending_
    BY <1>19 DEF Subscribe, reconnectVars
  <2>3. /\ slots \in [Topics -> Slot] /\ slots[t] = slot
        /\ \A u \in Topics \ {t} : slots[u] = active_subs_[u]
    <3> HIDE DEF slot
    <3> QED BY <1>0, <2>1
  <2>4. CASE state_ # "Ready"
    <3>1. /\ active_subs_' = slots
          /\ UNCHANGED <<state_, ws_, reconnect_timer_, inflight_rpc_, inflight_sub_request_,
                         sub_ack_timers_, next_request_id_>>
      BY <1>19, <2>4 DEF Subscribe
    <3>2. \A u \in Topics : active_subs_[u].rid # 0 =>
            /\ active_subs_[u].rid \in sub_ack_timers_'
            /\ [rid |-> active_subs_[u].rid, topic |-> u] \in inflight_sub_request_'
      BY <1>a, <3>1 DEF SlotOfPhase
    <3> HIDE DEF slots, slot
    <3>3. \A u \in Topics : \/ active_subs_'[u].rid = 0 /\ active_subs_'[u].state \in {"Absent", "Pending"}
                            \/ active_subs_'[u] = active_subs_[u]
      BY <2>1, <2>3, <3>1
    <3> QED BY <1>b, <2>2, <3>1, <3>2, <3>3, KeptSlots
  <2>5. CASE state_ = "Ready" /\ ws_ = "open"
    <3>1. PICK ids \in FreshIds({t}) : SendSubscribe(slots, ids, inflight_rpc_, {})
      BY <1>19, <2>5 DEF Subscribe
    <3>2. UNCHANGED state_
      BY <1>19, <2>5 DEF Subscribe
    <3>3. AcksCounted'
      BY <2>5, <3>2 DEF AcksCounted
    <3>4. IsFiniteSet(inflight_rpc_ \ inflight_rpc_)
      BY FS_EmptySet, inflight_rpc_ \ inflight_rpc_ = {}
    <3>5. \A r \in inflight_rpc_ : r.method # "handshake"
      BY <2>5 DEF PhaseInv, RequestsOfPhase
    <3> HIDE DEF slots
    <3> QED BY <2>3, <2>5, <3>1, <3>2, <3>3, <3>4, <3>5, SendSubscribeSlots
  <2>6. CASE state_ = "Ready" /\ ws_ # "open"
    <3>1. SendFails(FALSE, slots, inflight_rpc_, inflight_sub_request_)
      BY <1>19, <2>6 DEF Subscribe
    <3> HIDE DEF slots
    <3> QED BY <2>2, <2>3, <3>1, SendFailsSlots
  <2> QED BY <2>4, <2>5, <2>6
<1>20. ASSUME NEW t \in Topics, NEW dropped, CloseSlot(t, dropped), UNCHANGED reconnectVars
       PROVE  SlotInv'
  <2>1. /\ active_subs_' = [active_subs_ EXCEPT ![t] = NoSlot]
        /\ sub_ack_timers_ \ {active_subs_[t].rid} \subseteq sub_ack_timers_'
        /\ UNCHANGED <<state_, ws_, reconnect_timer_, inflight_rpc_, inflight_sub_request_,
                       next_request_id_>>
        /\ UNCHANGED reconnect_subs_pending_
    BY <1>20 DEF CloseSlot, reconnectVars
  <2>2. ASSUME NEW u \in Topics
        PROVE  \/ active_subs_'[u].rid = 0 /\ active_subs_'[u].state \in {"Absent", "Pending"}
               \/ /\ active_subs_'[u] = active_subs_[u]
                  /\ active_subs_[u].rid # 0 =>
                       /\ active_subs_[u].rid \in sub_ack_timers_'
                       /\ [rid |-> active_subs_[u].rid, topic |-> u] \in inflight_sub_request_'
    <3>1. CASE u = t
      <4>1. active_subs_'[u] = NoSlot
        BY <1>0, <2>1, <3>1
      <4> QED BY <4>1 DEF NoSlot
    <3>2. CASE u # t
      <4>1. active_subs_'[u] = active_subs_[u]
        BY <1>0, <2>1, <3>2
      <4>2. SlotOfPhase(u)
        BY <1>a
      <4> QED BY <1>c, <2>1, <3>2, <4>1, <4>2 DEF SlotOfPhase
    <3> QED BY <3>1, <3>2
  <2> QED BY <1>b, <2>1, <2>2, KeptSlots
<1>21. ASSUME NEW m \in {"engage", "release", "unsubscribe"}, NEW t, Call(m, t), UNCHANGED reconnectVars
       PROVE  SlotInv'
  <2>1. /\ inflight_rpc_' = inflight_rpc_ \cup {Rpc(next_request_id_, m, t)}
        /\ next_request_id_' = next_request_id_ + 1
        /\ UNCHANGED <<state_, ws_, reconnect_timer_, active_subs_, inflight_sub_request_,
                       sub_ack_timers_, reconnect_subs_pending_>>
    BY <1>21 DEF Call, reconnectVars
  <2>2. \A r \in inflight_rpc_' : r.method = "handshake" => r \in inflight_rpc_
    BY <2>1 DEF Rpc
  <2>3. \A u \in Topics : active_subs_[u].rid # 0 =>
          /\ active_subs_[u].rid \in sub_ack_timers_'
          /\ [rid |-> active_subs_[u].rid, topic |-> u] \in inflight_sub_request_'
    BY <1>a, <2>1 DEF SlotOfPhase
  <2>4. next_request_id_' \in Nat /\ next_request_id_' >= next_request_id_
    BY <1>0, <2>1
  <2> QED BY <2>1, <2>2, <2>3, <2>4, KeptSlots
<1>22. ASSUME NEW t \in Topics, DropSubscription(t) \/ Unsubscribe(t)
       PROVE  SlotInv'
  BY <1>20, <1>21, <1>22 DEF DropSubscription, Unsubscribe
<1>23. ASSUME NEW engage \in BOOLEAN, EmergencyStop(engage)
       PROVE  SlotInv'
  <2>1. (IF engage THEN "engage" ELSE "release") \in {"engage", "release", "unsubscribe"}
    OBVIOUS
  <2> QED BY <1>21, <1>23, <2>1 DEF EmergencyStop
<1>24. CASE Close
  <2>1. /\ state_' = "Shutdown" /\ ws_' = "none" /\ reconnect_timer_' = FALSE
        /\ active_subs_' = NoSlots /\ UNCHANGED <<inflight_sub_request_, next_request_id_>>
    BY <1>24 DEF Close
  <2>2. ConnectionOfPhase'
    BY <2>1, Zenon DEF ConnectionOfPhase
  <2>3. RequestIdsDistinct' /\ AcksCounted'
    BY <1>a, <2>1 DEF RequestIdsDistinct, AcksCounted
  <2>4. \A t \in Topics : SlotOfPhase(t)'
    BY <2>1 DEF SlotOfPhase, NoSlots, NoSlot
  <2> QED BY <2>2, <2>3, <2>4 DEF SlotInv
<1>25. CASE UNCHANGED vars
  BY <1>25, UnchangedSlots DEF vars, sessionVars, reconnectVars, slotVars
<1> QED
  BY <1>1, <1>2, <1>3, <1>4, <1>5, <1>6, <1>7, <1>8, <1>9, <1>10, <1>11, <1>12, <1>13, <1>14,
     <1>15, <1>16, <1>17, <1>18, <1>19, <1>22, <1>23, <1>24, <1>25
  DEF Next, Handle, Timer, User, Environment

(* The step that completes a reconnection leaves no ack awaited: it is the *)
(* handshake with nothing to restore, the last ack, or the replay after it.*)
LEMMA ReadyStep ==
  ASSUME TypeOK, PhaseInv, SlotInv, [Next]_vars, state_ = "Reconnecting", state_' = "Ready"
  PROVE  NoneAwaited'
<1>0. /\ active_subs_ \in [Topics -> Slot]
      /\ inflight_sub_request_ \subseteq [rid : Nat, topic : Topics]
  BY Zenon DEF TypeOK
<1>1. ASSUME NEW slots, NEW rpcs, NEW requests, OnTransportClose(slots, rpcs, requests)
      PROVE  FALSE
  BY <1>1, Zenon DEF OnTransportClose, Crash, DoReconnect, ToFatal
<1>2. ASSUME NEW rpcs, AbortToFatal(rpcs)
      PROVE  FALSE
  BY <1>2, Zenon DEF AbortToFatal, Crash, ToFatal
<1>3. ASSUME NEW attempt, NEW slots, NEW rpcs, NEW requests, NEW timers,
             DoReconnect(attempt, slots, rpcs, requests, timers)
      PROVE  FALSE
  BY <1>3, Zenon DEF DoReconnect, ToFatal
<1>4. ASSUME NEW looping, NEW slots, NEW rpcs, NEW requests, SendFails(looping, slots, rpcs, requests)
      PROVE  FALSE
  BY <1>1, <1>4, Zenon DEF SendFails, Crash
<1>5. CASE ReconnectHandshakeOk
  <2>1. PICK r \in inflight_rpc_ : r.method = "handshake" /\ UNCHANGED active_subs_
    BY <1>4, <1>5 DEF ReconnectHandshakeOk, Response
  <2>2. NoneAwaited
    BY <2>1, RequestFacts
  <2> QED BY <2>1, <2>2 DEF NoneAwaited
<1>6. CASE ReplayOk
  <2>1. reconnect_subs_pending_ = 0 /\ UNCHANGED active_subs_
    BY <1>6 DEF ReplayOk
  <2>2. Cardinality(Awaited) <= 0
    BY <2>1 DEF SlotInv, AcksCounted
  <2>3. Awaited = {}
    BY <2>2, AwaitedFinite, FS_EmptySet
  <2> QED BY <2>1, <2>3 DEF NoneAwaited, Awaited
<1>7. ASSUME NEW q \in inflight_sub_request_, NEW slot \in Slot, Awaits(q), slot.rid = 0,
             slot.state \in {"Absent", "Active"}, AckSettles(q, slot)
      PROVE  NoneAwaited'
  BY <1>7, AckSettlesSlots
<1>8. CASE AckAccepted
  <2>1. ASSUME NEW q \in inflight_sub_request_
        PROVE  LET slot == [active_subs_[q.topic] EXCEPT !.state = "Active", !.rid = 0]
               IN  slot \in Slot /\ slot.rid = 0 /\ slot.state = "Active"
    BY <1>0 DEF Slot, SubscriptionState
  <2> QED BY <1>7, <1>8, <2>1 DEF AckAccepted
<1>9. CASE AckRejected
  <2>1. NoSlot \in Slot /\ NoSlot.rid = 0 /\ NoSlot.state = "Absent"
    BY NoSlotType DEF NoSlot
  <2> QED BY <1>7, <1>9, <2>1 DEF AckRejected
<1>10. CASE \/ HandshakeRejected \/ ReplayRejected \/ ReplayTimeout \/ AckTransient \/ AckFatal
            \/ TransportClosed \/ AckTimeout \/ HeartbeatDead
  BY <1>1, <1>2, <1>3, <1>10, Zenon
  DEF HandshakeRejected, ReplayRejected, ReplayTimeout, ReplayFailed, AckTransient, AckFatal,
      TransportClosed, AckTimeout, HeartbeatDead, sessionVars
<1>11. CASE AckFreshRetry
  BY <1>4, <1>11, Zenon DEF AckFreshRetry
<1>12. CASE Connect \/ ReconnectTimer \/ FirstHandshakeOk \/ Close
  BY <1>12, Zenon DEF Connect, ReconnectTimer, FirstHandshakeOk, Close
<1>13. CASE \/ EStopReply \/ UnsubscribeReply \/ UnknownResponse \/ AckTooLate
            \/ HandshakeTimeout \/ CallTimeout \/ Environment \/ UNCHANGED vars
  BY <1>13, Zenon
  DEF EStopReply, UnsubscribeReply, UnknownResponse, AckTooLate, HandshakeTimeout, CallTimeout,
      Environment, RobotAccepts, RobotRefuses, Reply, RequestLost, OnDisconnect, vars, sessionVars
<1>14. ASSUME NEW t \in Topics, Subscribe(t) \/ DropSubscription(t) \/ Unsubscribe(t)
       PROVE  FALSE
  BY <1>14, Zenon DEF Subscribe, DropSubscription, Unsubscribe, CloseSlot, Call
<1>15. ASSUME NEW engage \in BOOLEAN, EmergencyStop(engage)
       PROVE  FALSE
  BY <1>15, Zenon DEF EmergencyStop
<1> QED
  BY <1>5, <1>6, <1>8, <1>9, <1>10, <1>11, <1>12, <1>13, <1>14, <1>15
  DEF Next, Handle, Timer, User

-----------------------------------------------------------------------------
(* The inductive invariant of the session: requests, acks, slots, timers   *)
(* and the WsClient are those of the phase the connection is in.           *)
THEOREM SessionCorrect == Spec => []SessionInv
<1>1. Init => SlotInv
  <2> SUFFICES ASSUME Init PROVE SlotInv
    OBVIOUS
  <2>1. ConnectionOfPhase
    BY Zenon DEF Init, ConnectionOfPhase
  <2>2. RequestIdsDistinct /\ AcksCounted
    BY DEF Init, RequestIdsDistinct, AcksCounted
  <2>3. \A t \in Topics : SlotOfPhase(t)
    BY DEF Init, SlotOfPhase, NoSlots, NoSlot
  <2> QED BY <2>1, <2>2, <2>3 DEF SlotInv
<1>2. Spec => []SlotInv
  BY <1>1, TypeCorrect, PhaseCorrect, SlotInductive, PTL DEF Spec
<1>3. PhaseInv /\ SlotInv => SessionInv
  BY DEF SessionInv
<1> QED BY <1>2, <1>3, PhaseCorrect, PTL

(* In TransientFailure the retry is armed, nothing of the lost connection  *)
(* is left, and no subscription passes for Active, whichever of the ways   *)
(* of losing a connection led there.                                       *)
THEOREM TransientFailureClean == Spec => []TransientFailureRetries
<1>1. TypeOK /\ SessionInv => TransientFailureRetries
  <2> SUFFICES ASSUME TypeOK, SessionInv, state_ = "TransientFailure"
               PROVE  /\ reconnect_timer_ /\ ws_ = "none"
                      /\ inflight_rpc_ = {} /\ sub_ack_timers_ = {}
                      /\ \A t \in Topics : active_subs_[t].rid = 0 /\ active_subs_[t].state # "Active"
    BY Zenon DEF TransientFailureRetries
  <2>1. PhaseInv /\ SlotInv
    BY DEF SessionInv
  <2>2. reconnect_timer_ /\ ws_ = "none"
    BY <2>1, Zenon DEF SlotInv, ConnectionOfPhase
  <2>3. inflight_rpc_ = {}
    BY <2>1, RequestFacts
  <2>4. sub_ack_timers_ = {} /\ NoneAwaited
    BY <2>1 DEF PhaseInv, AcksOfPhase
  <2>5. \A t \in Topics : active_subs_[t].rid = 0 /\ active_subs_[t].state # "Active"
    BY <2>1, <2>4 DEF SlotInv, SlotOfPhase, NoneAwaited
  <2> QED BY <2>2, <2>3, <2>4, <2>5
<1> QED BY <1>1, TypeCorrect, SessionCorrect, PTL

(* No slot waits for an ack without a connection, an armed deadline and a  *)
(* request on record.                                                      *)
THEOREM AcksHaveDeadlines == Spec => []AckAwaitedHasDeadline
<1>1. SessionInv => AckAwaitedHasDeadline
  BY DEF SessionInv, PhaseInv, AcksOfPhase, NoneAwaited, SlotInv, SlotOfPhase, AckAwaitedHasDeadline
<1> QED BY <1>1, SessionCorrect, PTL

(* Shutdown and Fatal hold no connection, timer, request or live stream,   *)
(* whichever handler was under way.                                        *)
THEOREM TerminalClean == Spec => []TerminalReleasesAll
<1>1. TypeOK /\ SessionInv => TerminalReleasesAll
  <2> SUFFICES ASSUME TypeOK, SessionInv, state_ \in {"Shutdown", "Fatal"}
               PROVE  /\ ws_ = "none" /\ ~reconnect_timer_
                      /\ inflight_rpc_ = {} /\ sub_ack_timers_ = {}
                      /\ \A t \in Topics : active_subs_[t].state \in {"Absent", "Pending"}
    BY Zenon DEF TerminalReleasesAll
  <2>1. PhaseInv /\ SlotInv
    BY DEF SessionInv
  <2>2. ws_ = "none" /\ ~reconnect_timer_
    BY <2>1, Zenon DEF SlotInv, ConnectionOfPhase
  <2>3. inflight_rpc_ = {} /\ sub_ack_timers_ = {}
    BY <2>1, RequestFacts DEF PhaseInv, AcksOfPhase
  <2>4. \A t \in Topics : active_subs_[t].state \in SubscriptionState
    BY DEF TypeOK, Slot
  <2>5. \A t \in Topics : active_subs_[t].state \in {"Absent", "Pending"}
    BY <2>1, <2>4 DEF SlotInv, SlotOfPhase, SubscriptionState
  <2> QED BY <2>2, <2>3, <2>5
<1> QED BY <1>1, TypeCorrect, SessionCorrect, PTL

(* Ready is declared after a reconnection only once every resubscription   *)
(* has been answered: reconnect_subs_pending_ never undercounts.           *)
THEOREM ReadyNotEarly == Spec => NoEarlyReady
<1>1. TypeOK /\ SessionInv /\ [Next]_vars =>
        [state_ = "Reconnecting" /\ state_' = "Ready" => \A t \in Topics : active_subs_'[t].rid = 0]_vars
  BY ReadyStep DEF SessionInv, NoneAwaited
<1> QED BY <1>1, TypeCorrect, SessionCorrect, PTL DEF Spec, NoEarlyReady

-----------------------------------------------------------------------------
(* RobotSession implements ConnectionLifecycle: PhaseInv tells in which    *)
(* states a handler can be entered; each handler then is one step of the   *)
(* lifecycle, or none.  First the shared effects.                          *)
LStep == Lifecycle!Next \/ UNCHANGED Lifecycle!lifecycleVars
LVars == <<state_, reconnect_attempt_, last_estop_intent_, engageAcked>>
Live == state_ \notin {"Shutdown", "Fatal"}

(* A step that changes none of the four mapped variables is a stutter.     *)
LEMMA StutterStep ==
  ASSUME UNCHANGED LVars
  PROVE  LStep
  BY DEF LStep, LVars, Lifecycle!lifecycleVars

(* Giving up, with the attempt under way or the one already counted.       *)
LEMMA ToFatalStep ==
  ASSUME Live, NEW attempt, Lifecycle!Attempt(attempt) \/ attempt = reconnect_attempt_,
         ToFatal(attempt), UNCHANGED <<last_estop_intent_, engageAcked>>
  PROVE  LStep
<1>1. state_' = "Fatal" /\ reconnect_attempt_' = attempt
  BY DEF ToFatal
<1>2. Lifecycle!Attempt(reconnect_attempt_') \/ reconnect_attempt_' = reconnect_attempt_
  BY <1>1
<1>3. Lifecycle!GiveUp
  BY <1>1, <1>2 DEF Lifecycle!GiveUp, Lifecycle!Terminal, Live
<1> QED BY <1>3 DEF LStep, Lifecycle!Next

(* DoReconnect: one more attempt if the limit allows it.                   *)
LEMMA DoReconnectStep ==
  ASSUME Live, NEW attempt \in Nat, Lifecycle!Attempt(attempt) \/ attempt = reconnect_attempt_,
         NEW slots, NEW rpcs, NEW requests, NEW timers,
         DoReconnect(attempt, slots, rpcs, requests, timers),
         UNCHANGED <<last_estop_intent_, engageAcked>>
  PROVE  LStep
<1>1. CASE Exhausted(attempt + 1)
  BY <1>1, ToFatalStep DEF DoReconnect
<1>2. CASE ~Exhausted(attempt + 1)
  <2>1. state_' = "TransientFailure" /\ reconnect_attempt_' = attempt
    BY <1>2 DEF DoReconnect
  <2>2. Lifecycle!Attempt(reconnect_attempt_') \/ reconnect_attempt_' = reconnect_attempt_
    BY <2>1
  <2>3. Lifecycle!Allowed(reconnect_attempt_' + 1)
    BY <1>2, <2>1, SessionAssumption DEF Exhausted, Lifecycle!Allowed
  <2>4. Lifecycle!Fail
    BY <2>1, <2>2, <2>3 DEF Lifecycle!Fail, Lifecycle!Terminal, Live
  <2> QED BY <2>4 DEF LStep, Lifecycle!Next
<1> QED BY <1>1, <1>2

(* The loss of the connection, a crash in its handler included.            *)
LEMMA CloseStep ==
  ASSUME Live, reconnect_attempt_ \in Nat, NEW slots, NEW rpcs, NEW requests,
         OnTransportClose(slots, rpcs, requests), UNCHANGED <<last_estop_intent_, engageAcked>>
  PROVE  LStep
<1>1. CASE ReplayInflight(rpcs)
  BY <1>1, StutterStep DEF OnTransportClose, Crash, LVars
<1>2. CASE ~ReplayInflight(rpcs)
  BY <1>2, DoReconnectStep DEF OnTransportClose
<1> QED BY <1>1, <1>2

(* A send that fails.                                                      *)
LEMMA SendFailsStep ==
  ASSUME Live, reconnect_attempt_ \in Nat, NEW looping, NEW slots, NEW rpcs, NEW requests,
         SendFails(looping, slots, rpcs, requests), UNCHANGED <<last_estop_intent_, engageAcked>>
  PROVE  LStep
<1>1. CASE Crash("dangling iterator")
  BY <1>1, StutterStep DEF Crash, LVars
<1>2. CASE OnTransportClose(slots, rpcs, requests)
  BY <1>2, CloseStep
<1> QED BY <1>1, <1>2 DEF SendFails

(* AbortToFatal.                                                           *)
LEMMA AbortStep ==
  ASSUME Live, NEW rpcs, AbortToFatal(rpcs), UNCHANGED <<last_estop_intent_, engageAcked>>
  PROVE  LStep
<1>1. CASE ReplayInflight(rpcs)
  BY <1>1, StutterStep DEF AbortToFatal, Crash, LVars
<1>2. CASE ~ReplayInflight(rpcs)
  BY <1>2, ToFatalStep DEF AbortToFatal
<1> QED BY <1>1, <1>2

(* Ready, with the stop confirmed if it is engaged.                        *)
LEMMA UpStep ==
  ASSUME state_ \in {"Connecting", "Reconnecting"}, state_' = "Ready", reconnect_attempt_' = 0,
         engageAcked' = engageAcked \/ engageAcked' = TRUE,
         last_estop_intent_ = "Engaged" => engageAcked', UNCHANGED last_estop_intent_
  PROVE  LStep
<1>1. Lifecycle!Up
  BY DEF Lifecycle!Up
<1> QED BY <1>1 DEF LStep, Lifecycle!Next

(* An attempt to connect: made, failed or refused.                         *)
LEMMA EstablishStep ==
  ASSUME NEW s, NEW attempt \in Nat, EstablishConnection(s, attempt), UNCHANGED last_estop_intent_,
         Live, Lifecycle!Attempt(attempt), s = IF state_ = "Idle" THEN "Connecting" ELSE "Reconnecting"
  PROVE  LStep
<1>1. CASE SendHandshake(s, attempt)
  <2>1. state_' = s /\ reconnect_attempt_' = attempt /\ engageAcked' = FALSE
    BY <1>1 DEF SendHandshake
  <2>2. Lifecycle!Attempt(reconnect_attempt_')
    BY <2>1
  <2>3. Lifecycle!Begin
    BY <2>1, <2>2 DEF Lifecycle!Begin
  <2> QED BY <2>3 DEF LStep, Lifecycle!Next
<1>2. CASE ToFatal(attempt) /\ UNCHANGED engageAcked
  BY <1>2, ToFatalStep
<1>3. CASE /\ DoReconnect(attempt, active_subs_, inflight_rpc_, inflight_sub_request_, sub_ack_timers_)
           /\ UNCHANGED engageAcked
  BY <1>3, DoReconnectStep
<1> QED BY <1>1, <1>2, <1>3 DEF EstablishConnection

-----------------------------------------------------------------------------
(* Every step of the session is a step of the lifecycle or a stutter.      *)
LEMMA StepRefines == TypeOK /\ PhaseInv /\ [Next]_vars => LStep
<1> SUFFICES ASSUME TypeOK, PhaseInv, [Next]_vars
             PROVE  LStep
  OBVIOUS
<1>0. /\ FreshSession /\ RetryArmed /\ RequestsOfPhase /\ AcksOfPhase /\ StopOfPhase
      /\ reconnect_attempt_ \in Nat
      /\ \A q \in inflight_sub_request_ : q.rid # 0 /\ q.topic \in Topics
  BY DEF PhaseInv, AcksOfPhase, TypeOK
<1>r. \A r \in inflight_rpc_ : Live
  BY RequestFacts DEF Live
<1>q. ASSUME NEW q \in inflight_sub_request_, Awaits(q)
      PROVE  state_ \in {"Ready", "Reconnecting"} /\ ~NoneAwaited /\ Live
  BY <1>0, <1>q DEF AcksOfPhase, NoneAwaited, Awaits, Live
<1>1. CASE Connect
  <2>1. reconnect_attempt_ = 0 /\ state_ = "Idle"
    BY <1>0, <1>1 DEF Connect, FreshSession
  <2>2. Lifecycle!Attempt(0) /\ Live
    BY <2>1 DEF Lifecycle!Attempt, Live
  <2> QED BY <1>1, <2>1, <2>2, EstablishStep DEF Connect
<1>2. CASE ReconnectTimer
  <2>1. state_ = "TransientFailure" /\ WithinLimit(reconnect_attempt_ + 1)
    BY <1>0, <1>2 DEF ReconnectTimer, RetryArmed
  <2>2. Lifecycle!Attempt(reconnect_attempt_ + 1) /\ Live /\ reconnect_attempt_ + 1 \in Nat
    BY <1>0, <2>1 DEF Lifecycle!Attempt, Lifecycle!Allowed, WithinLimit, Live
  <2> QED BY <1>2, <2>1, <2>2, EstablishStep DEF ReconnectTimer
<1>3. CASE HandshakeRejected
  BY <1>0, <1>3, <1>r, AbortStep, DoReconnectStep DEF HandshakeRejected, reconnectVars
<1>4. CASE TransportClosed
  <2>1. CASE Live
    BY <1>0, <1>4, <2>1, CloseStep DEF TransportClosed, Live, reconnectVars
  <2>2. CASE ~Live
    BY <1>4, <2>2, StutterStep DEF TransportClosed, Live, sessionVars, reconnectVars, LVars
  <2> QED BY <2>1, <2>2
<1>5. CASE AckTimeout \/ HeartbeatDead
  <2>1. Live
    BY <1>0, <1>5 DEF AckTimeout, HeartbeatDead, AcksOfPhase, Live
  <2> QED BY <1>0, <1>5, <2>1, CloseStep DEF AckTimeout, HeartbeatDead, reconnectVars
<1>6. CASE ReplayRejected \/ ReplayTimeout
  BY <1>0, <1>6, <1>r, CloseStep DEF ReplayRejected, ReplayTimeout, ReplayFailed
<1>7. CASE \/ UnknownResponse \/ RobotAccepts \/ RobotRefuses \/ RequestLost \/ OnDisconnect
           \/ HandshakeTimeout \/ CallTimeout \/ UnsubscribeReply \/ AckTooLate
  BY <1>7, StutterStep
  DEF UnknownResponse, RobotAccepts, RobotRefuses, RequestLost, OnDisconnect, Reply,
      HandshakeTimeout, CallTimeout, UnsubscribeReply, AckTooLate, sessionVars, reconnectVars, LVars
<1>8. CASE EStopReply
  <2>1. PICK r \in inflight_rpc_, m \in {"engage", "release"}, out \in {"ok", "error"} :
          /\ r.method = m
          /\ IF out = "ok"
             THEN /\ last_estop_intent_' = IF m = "engage" THEN "Engaged" ELSE "None"
                  /\ engageAcked' = (m = "engage")
             ELSE UNCHANGED <<last_estop_intent_, engageAcked>>
          /\ UNCHANGED <<state_, reconnect_attempt_>>
    BY <1>8 DEF EStopReply, Response
  <2>2. state_ = "Ready"
    BY <1>0, <2>1 DEF RequestsOfPhase
  <2>3. CASE out = "ok"
    <3>1. last_estop_intent_' \in {"Engaged", "None"} /\ engageAcked' = (last_estop_intent_' = "Engaged")
      BY <2>1, <2>3
    <3>2. Lifecycle!EmergencyStop
      BY <2>1, <2>2, <3>1 DEF Lifecycle!EmergencyStop
    <3> QED BY <3>2 DEF LStep, Lifecycle!Next
  <2>4. CASE out # "ok"
    BY <2>1, <2>4, StutterStep DEF LVars
  <2> QED BY <2>3, <2>4
<1>9. CASE ReplayOk
  <2>1. PICK r \in inflight_rpc_ :
          /\ r.method = "replay" /\ engageAcked' = TRUE
          /\ \/ state_' = "Ready" /\ reconnect_attempt_' = 0
             \/ UNCHANGED <<state_, reconnect_attempt_>>
          /\ UNCHANGED last_estop_intent_
    BY <1>9 DEF ReplayOk, Response
  <2>2. state_ = "Reconnecting"
    BY <1>0, <2>1 DEF RequestsOfPhase
  <2>3. CASE state_' = "Ready" /\ reconnect_attempt_' = 0
    BY <2>1, <2>2, <2>3, UpStep
  <2>4. CASE UNCHANGED <<state_, reconnect_attempt_>>
    <3>1. Lifecycle!EmergencyStop
      BY <2>1, <2>2, <2>4 DEF Lifecycle!EmergencyStop
    <3> QED BY <3>1 DEF LStep, Lifecycle!Next
  <2> QED BY <2>1, <2>3, <2>4
<1>10. CASE FirstHandshakeOk
  <2>1. /\ state_ = "Connecting" /\ reconnect_attempt_ = 0 /\ last_estop_intent_ = "None" /\ Live
        /\ UNCHANGED <<last_estop_intent_, engageAcked>>
    BY <1>0, <1>10 DEF FirstHandshakeOk, FreshSession, Live
  <2>2. CASE state_' = "Ready" /\ UNCHANGED reconnect_attempt_
    BY <2>1, <2>2, UpStep
  <2>3. CASE ~(state_' = "Ready" /\ UNCHANGED reconnect_attempt_)
    BY <1>0, <1>10, <2>1, <2>3, SendFailsStep DEF FirstHandshakeOk
  <2> QED BY <2>2, <2>3
<1>11. CASE ReconnectHandshakeOk
  <2>1. state_ = "Reconnecting" /\ Live /\ UNCHANGED <<last_estop_intent_, engageAcked>>
    BY <1>11 DEF ReconnectHandshakeOk, Live
  <2>2. CASE state_' = "Ready" /\ reconnect_attempt_' = 0 /\ last_estop_intent_ # "Engaged"
    BY <2>1, <2>2, UpStep
  <2>3. CASE UNCHANGED <<state_, reconnect_attempt_>>
    BY <2>1, <2>3, StutterStep DEF LVars
  <2>4. CASE \E looping, slots, rpcs, requests : SendFails(looping, slots, rpcs, requests)
    BY <1>0, <2>1, <2>4, SendFailsStep
  <2> QED BY <1>11, <2>2, <2>3, <2>4 DEF ReconnectHandshakeOk
<1>12. ASSUME NEW q \in inflight_sub_request_, NEW slot, Awaits(q), AckSettles(q, slot)
       PROVE  LStep
  <2>1. UNCHANGED <<last_estop_intent_, engageAcked>>
    BY <1>12 DEF AckSettles
  <2>2. CASE UNCHANGED <<state_, reconnect_attempt_>>
    BY <2>1, <2>2, StutterStep DEF LVars
  <2>3. CASE /\ state_ = "Reconnecting" /\ ~reconnect_estop_pending_
             /\ state_' = "Ready" /\ reconnect_attempt_' = 0
    <3>1. last_estop_intent_ = "Engaged" => engageAcked
      BY <1>0, <1>12, <1>q, <2>3 DEF StopOfPhase
    <3> QED BY <2>1, <2>3, <3>1, UpStep
  <2> QED BY <1>12, <2>2, <2>3 DEF AckSettles, SettleResubscription
<1>13. CASE AckAccepted \/ AckRejected
  BY <1>12, <1>13 DEF AckAccepted, AckRejected
<1>14. CASE AckTransient
  BY <1>0, <1>12, <1>14, <1>q, CloseStep DEF AckTransient, reconnectVars
<1>15. CASE AckFatal
  BY <1>15, <1>q, AbortStep DEF AckFatal, reconnectVars
<1>16. CASE AckFreshRetry
  <2>1. Live /\ UNCHANGED <<last_estop_intent_, engageAcked>>
    BY <1>16, <1>q DEF AckFreshRetry, reconnectVars
  <2>2. CASE UNCHANGED <<state_, reconnect_attempt_>>
    BY <2>1, <2>2, StutterStep DEF LVars
  <2>3. CASE \E looping, slots, rpcs, requests : SendFails(looping, slots, rpcs, requests)
    BY <1>0, <2>1, <2>3, SendFailsStep
  <2> QED BY <1>16, <2>2, <2>3 DEF AckFreshRetry
<1>17. ASSUME NEW t \in Topics, Subscribe(t)
       PROVE  LStep
  <2>1. UNCHANGED <<last_estop_intent_, engageAcked>>
    BY <1>17 DEF Subscribe, reconnectVars
  <2>2. CASE UNCHANGED <<state_, reconnect_attempt_>>
    BY <2>1, <2>2, StutterStep DEF LVars
  <2>3. CASE state_ = "Ready" /\ \E looping, slots, rpcs, requests : SendFails(looping, slots, rpcs, requests)
    BY <1>0, <2>1, <2>3, SendFailsStep DEF Live
  <2> QED BY <1>17, <2>2, <2>3 DEF Subscribe
<1>18. ASSUME NEW t \in Topics, DropSubscription(t) \/ Unsubscribe(t)
       PROVE  LStep
  BY <1>18, StutterStep DEF DropSubscription, Unsubscribe, CloseSlot, Call, reconnectVars, LVars
<1>19. ASSUME NEW engage \in BOOLEAN, EmergencyStop(engage)
       PROVE  LStep
  BY <1>19, StutterStep DEF EmergencyStop, Call, reconnectVars, LVars
<1>20. CASE Close
  <2>1. Lifecycle!Shut
    BY <1>20 DEF Close, Lifecycle!Shut
  <2> QED BY <2>1 DEF LStep, Lifecycle!Next
<1>21. CASE UNCHANGED vars
  BY <1>21, StutterStep DEF vars, sessionVars, reconnectVars, LVars
<1> QED
  BY <1>1, <1>2, <1>3, <1>4, <1>5, <1>6, <1>7, <1>8, <1>9, <1>10, <1>11, <1>13, <1>14, <1>15,
     <1>16, <1>17, <1>18, <1>19, <1>20, <1>21
  DEF Next, Handle, Timer, User, Environment

(* The session implements the lifecycle: only the documented changes of    *)
(* state, attempts counted one by one within the limit, no way out of a    *)
(* terminal state but Close, and no Ready with an unconfirmed stop.        *)
THEOREM LifecycleImplemented == Spec => ImplementsLifecycle
<1>1. Init => Lifecycle!Init
  BY DEF Init, Lifecycle!Init
<1>2. TypeOK /\ PhaseInv /\ [Next]_vars => [Lifecycle!Next]_(Lifecycle!lifecycleVars)
  BY StepRefines DEF LStep
<1> QED BY <1>1, <1>2, TypeCorrect, PhaseCorrect, PTL DEF Spec, ImplementsLifecycle, Lifecycle!Spec
=============================================================================

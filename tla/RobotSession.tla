---------------------------- MODULE RobotSession ----------------------------
(***************************************************************************)
(* The connection core of RobotImpl (src/src/robot_impl.cpp): connecting,  *)
(* the handshake, reconnecting with back-off, resubscribing, replaying the *)
(* emergency stop, unsubscribing and closing.                              *)
(*                                                                         *)
(* Every handler runs on the one control thread (control_ioc_), so a       *)
(* handler is one action.  What is concurrent with it is the io thread of  *)
(* the WsClient (it reads the socket, notices its end, and posts both to   *)
(* the control thread's queue), the timers, the robot and the user.  A     *)
(* call of the user is modelled by the handler it posts.  A handler that   *)
(* sends several messages sees the socket open for all of them or for      *)
(* none: a socket lost half-way has the outcome of one lost before.        *)
(***************************************************************************)
EXTENDS Integers, Sequences, FiniteSets

CONSTANTS
  Topics,        \* the topics of the Subscribe* methods
  EventTopics,   \* those the robot declares with Event semantics
  MaxAttempts,   \* opts_.reconnect_max_attempts; -1 is no limit
  MaxFaults,     \* bound: misfortunes of the network and of the robot
  MaxOps,        \* bound: operations of the user
  NoTopic        \* argument of a request that names no topic

ASSUME SessionAssumption ==
  /\ IsFiniteSet(Topics) /\ EventTopics \subseteq Topics
  /\ NoTopic \notin Topics
  /\ MaxAttempts \in Int /\ MaxAttempts >= -1
  /\ MaxFaults \in Nat /\ MaxOps \in Nat

VARIABLES
  state_,                    \* ConnectionState
  ws_,                       \* "none", "open", or "dead": held, but its socket is gone
  reconnect_attempt_,
  reconnect_timer_,          \* is the timer armed?
  active_subs_,              \* slot of every topic; "Absent" when not in the map
  inflight_rpc_,             \* requests with a completion handler and a deadline
  inflight_sub_request_,     \* unanswered subscribe requests
  sub_ack_timers_,           \* ids of those whose deadline is armed
  last_estop_intent_,
  reconnect_subs_pending_,
  reconnect_estop_pending_,
  robot_info_,               \* is it set, i.e. did some handshake succeed?
  next_request_id_,
  inq,                       \* what the io thread posted to the control thread
  net,                       \* requests the robot has yet to answer
  engageAcked,               \* history: engage was confirmed on this connection
  crashed,                   \* "no", or how the process died
  faults, ops                \* what is left of MaxFaults and MaxOps

reconnectVars == <<last_estop_intent_, reconnect_subs_pending_,
                   reconnect_estop_pending_, robot_info_, engageAcked>>
sessionVars == <<state_, ws_, reconnect_attempt_, reconnect_timer_, active_subs_,
                 inflight_rpc_, inflight_sub_request_, sub_ack_timers_, net, crashed>>
vars == <<sessionVars, reconnectVars, next_request_id_, inq, faults, ops>>

-----------------------------------------------------------------------------
ConnectionState == {"Idle", "Connecting", "Ready", "TransientFailure",
                    "Reconnecting", "Shutdown", "Fatal"}
SubscriptionState == {"Absent", "Pending", "Active", "Paused"}
Slot == [state : SubscriptionState, rid : Nat, fresh_retry_done : BOOLEAN,
         semantics : {"Telemetry", "Event"}]
NoSlot == [state |-> "Absent", rid |-> 0, fresh_retry_done |-> FALSE,
           semantics |-> "Telemetry"]
NoSlots == [t \in Topics |-> NoSlot]

(* The requests whose answers matter to the session.  Left out are those   *)
(* that only hand a result to a caller (CmdVel, tasks, Ping: SyncCalls)    *)
(* and the pings of the heartbeat, which sit in inflight_rpc_ without a    *)
(* deadline of their own until they are answered or the connection ends,   *)
(* and for which nobody waits (Heartbeat).                                 *)
Method == {"handshake", "engage", "release", "replay", "unsubscribe"}
InflightRpc == [rid : Nat, method : Method, topic : Topics \cup {NoTopic}]
Request == [rid : Nat, kind : Method \cup {"subscribe"}]

(* Replies by what the handlers tell apart: the category of the error code *)
(* (classify) and, for a subscription, a rejection that asks for a fresh   *)
(* subscribe (HistoryTooOld, ReplayNotSupported).                          *)
Outcome(kind) ==
  CASE kind = "handshake" -> {"ok", "fatal", "error"}
    [] kind = "subscribe" -> {"ok", "fatal", "transient", "error", "retry"}
    [] OTHER              -> {"ok", "error"}
AnyOutcome == {"ok", "fatal", "transient", "error", "retry"}
Posted == [kind : {"response", "ack", "close"}, rid : Nat, out : AnyOutcome]

Registered == {t \in Topics : active_subs_[t].state # "Absent"}
Rpc(id, m, t) == [rid |-> id, method |-> m, topic |-> t]
Req(id, k) == [rid |-> id, kind |-> k]
ReplayInflight(rpcs) == \E r \in rpcs : r.method = "replay"

Running == crashed = "no"
Spend == faults > 0 /\ faults' = faults - 1
UseOp == ops > 0 /\ ops' = ops - 1

-----------------------------------------------------------------------------
(* The effects the handlers share.                                         *)

(* The process dies inside a handler.                                      *)
Crash(how) ==
  /\ crashed' = how
  /\ UNCHANGED <<state_, ws_, reconnect_attempt_, reconnect_timer_, active_subs_,
                 inflight_rpc_, inflight_sub_request_, sub_ack_timers_, net>>

(* AbortToFatal, the requests in flight having no handler that re-enters.  *)
ToFatal(attempt) ==
  /\ state_' = "Fatal" /\ ws_' = "none"
  /\ reconnect_attempt_' = attempt /\ reconnect_timer_' = FALSE
  /\ active_subs_' = NoSlots
  /\ inflight_rpc_' = {} /\ inflight_sub_request_' = {} /\ sub_ack_timers_' = {}
  /\ net' = {} /\ UNCHANGED crashed

(* The completion handler of the replay calls OnTransportClose, which      *)
(* completes every request still in inflight_rpc_, the replay among them:  *)
(* with it in flight the two call each other until the stack is exhausted. *)
AbortToFatal(rpcs) ==
  IF ReplayInflight(rpcs) THEN Crash("stack overflow") ELSE ToFatal(reconnect_attempt_)

(* Mutant: one attempt too many.                                           *)
ExhaustedTooLate(attempt) == MaxAttempts >= 0 /\ attempt > MaxAttempts + 1

Exhausted(attempt) == MaxAttempts >= 0 /\ attempt > MaxAttempts

(* Mutant: the timer is not armed.                                         *)
DoReconnectUnarmed(attempt, slots, rpcs, requests, timers) ==
  IF Exhausted(attempt + 1)
  THEN ToFatal(attempt)
  ELSE /\ state_' = "TransientFailure" /\ ws_' = "none"
       /\ reconnect_attempt_' = attempt /\ reconnect_timer_' = FALSE
       /\ active_subs_' = slots /\ inflight_rpc_' = rpcs
       /\ inflight_sub_request_' = requests /\ sub_ack_timers_' = timers
       /\ net' = {} /\ UNCHANGED crashed

(* TransientFailure, the WsClient released, and DoReconnect(attempt + 1).  *)
DoReconnect(attempt, slots, rpcs, requests, timers) ==
  IF Exhausted(attempt + 1)
  THEN ToFatal(attempt)
  ELSE /\ state_' = "TransientFailure" /\ ws_' = "none"
       /\ reconnect_attempt_' = attempt /\ reconnect_timer_' = TRUE
       /\ active_subs_' = slots /\ inflight_rpc_' = rpcs
       /\ inflight_sub_request_' = requests /\ sub_ack_timers_' = timers
       /\ net' = {} /\ UNCHANGED crashed

(* Mutant: the slot still waits for the ack of the lost connection.        *)
PausedAwaiting(slots) ==
  [t \in Topics |-> IF slots[t].state = "Absent" THEN NoSlot ELSE [slots[t] EXCEPT !.state = "Paused"]]

Paused(slots) ==
  [t \in Topics |-> IF slots[t].state = "Absent" THEN NoSlot
                    ELSE [slots[t] EXCEPT !.state = "Paused", !.rid = 0]]

(* Mutant: the requests in flight are kept.                                *)
CloseKeepsRequests(slots, rpcs, requests) ==
  DoReconnect(reconnect_attempt_, Paused(slots), rpcs, requests, {})

(* slots, rpcs, requests: active_subs_, inflight_rpc_ and                  *)
(* inflight_sub_request_ as the caller has them by then.                   *)
OnTransportClose(slots, rpcs, requests) ==
  IF ReplayInflight(rpcs) THEN Crash("stack overflow")
  ELSE DoReconnect(reconnect_attempt_, Paused(slots), {}, requests, {})

(* The numberings of the topics ts with the next request ids.              *)
FreshIds(ts) ==
  {f \in [ts -> next_request_id_ .. next_request_id_ + Cardinality(ts) - 1] :
     \A t, u \in ts : f[t] = f[u] => t = u}

(* SendSubscribe on an open socket for every topic that ids numbers: slots *)
(* is active_subs_ as the caller has it by then, rpcs is inflight_rpc_ and *)
(* done are the subscribe requests the caller has erased.                  *)
SendSubscribe(slots, ids, rpcs, done) ==
  LET ts == DOMAIN ids IN
  /\ active_subs_' = [t \in Topics |->
       IF t \in ts THEN [slots[t] EXCEPT !.state = "Pending", !.rid = ids[t]]
                   ELSE slots[t]]
  /\ inflight_sub_request_' = {q \in inflight_sub_request_ : q.rid \notin done}
                                \cup {[rid |-> ids[t], topic |-> t] : t \in ts}
  /\ sub_ack_timers_' = (sub_ack_timers_ \ done) \cup {ids[t] : t \in ts}
  /\ net' = net \cup {Req(ids[t], "subscribe") : t \in ts}
                \cup {Req(r.rid, r.method) : r \in rpcs \ inflight_rpc_}
  /\ inflight_rpc_' = rpcs
  /\ next_request_id_' = next_request_id_ + Cardinality(ts)
                           + Cardinality(rpcs \ inflight_rpc_)
  /\ UNCHANGED <<ws_, reconnect_timer_, crashed>>

(* A send on a dead socket fails and ends in OnTransportClose, as do the   *)
(* later sends of the same handler, to the same effect.  If that gives up  *)
(* while active_subs_ is being iterated over, AbortToFatal empties the map *)
(* under the loop, whose iterator is then dangling.                        *)
SendFails(looping, slots, rpcs, requests) ==
  /\ IF looping /\ Exhausted(reconnect_attempt_ + 1)
     THEN Crash("dangling iterator")
     ELSE OnTransportClose(slots, rpcs, requests)
  /\ UNCHANGED next_request_id_

-----------------------------------------------------------------------------
(* Connecting.                                                             *)

(* The connection is made, in state s, and the handshake sent.             *)
SendHandshake(s, attempt) ==
  LET id == next_request_id_ IN
  /\ state_' = s /\ ws_' = "open"
  /\ reconnect_attempt_' = attempt /\ reconnect_timer_' = FALSE
  /\ inflight_rpc_' = inflight_rpc_ \cup {Rpc(id, "handshake", NoTopic)}
  /\ net' = {Req(id, "handshake")}
  /\ next_request_id_' = id + 1
  /\ engageAcked' = FALSE
  /\ UNCHANGED <<active_subs_, inflight_sub_request_, sub_ack_timers_, crashed, faults>>

(* Or it fails (setup, connect, handshake not sent) and is retried, or for *)
(* good (a bad certificate).                                               *)
EstablishConnection(s, attempt) ==
  \/ SendHandshake(s, attempt)
  \/ /\ \/ DoReconnect(attempt, active_subs_, inflight_rpc_, inflight_sub_request_, sub_ack_timers_)
        \/ ToFatal(attempt)
     /\ Spend
     /\ UNCHANGED <<next_request_id_, engageAcked>>

Connect ==
  /\ Running /\ state_ = "Idle"
  /\ EstablishConnection("Connecting", 0)
  /\ UNCHANGED <<last_estop_intent_, reconnect_subs_pending_,
                 reconnect_estop_pending_, robot_info_, inq, ops>>

(* The handler that DoReconnect arms.  What the previous WsClient posted   *)
(* was queued before the timer was armed, hence it has been handled.       *)
ReconnectTimer ==
  /\ Running /\ reconnect_timer_ /\ inq = <<>>
  /\ state_ = "TransientFailure"
  /\ EstablishConnection("Reconnecting", reconnect_attempt_ + 1)
  /\ UNCHANGED <<last_estop_intent_, reconnect_subs_pending_,
                 reconnect_estop_pending_, robot_info_, inq, ops>>

-----------------------------------------------------------------------------
(* Replies to requests of inflight_rpc_ (HandleSdkResponse).               *)

(* The next event of the queue is the reply out to a request r of method m. *)
Response(m, out, r) ==
  /\ Running /\ inq # <<>>
  /\ Head(inq).kind = "response" /\ Head(inq).out = out
  /\ r \in inflight_rpc_ /\ r.method = m /\ r.rid = Head(inq).rid
  /\ inq' = Tail(inq)

HandshakeRejected ==
  \E r \in inflight_rpc_, out \in {"fatal", "error"} :
    /\ Response("handshake", out, r)
    /\ IF out = "fatal"
       THEN AbortToFatal(inflight_rpc_ \ {r})
       ELSE DoReconnect(reconnect_attempt_, active_subs_, inflight_rpc_ \ {r},
                        inflight_sub_request_, sub_ack_timers_)
    /\ UNCHANGED <<reconnectVars, next_request_id_, faults, ops>>

(* The first handshake: Ready, and the subscriptions made so far are sent. *)
FirstHandshakeOk ==
  \E r \in inflight_rpc_ :
    LET unsent == {t \in Registered : active_subs_[t].state = "Pending" /\ active_subs_[t].rid = 0}
        rpcs   == inflight_rpc_ \ {r}
    IN
    /\ Response("handshake", "ok", r) /\ state_ = "Connecting"
    /\ robot_info_' = TRUE
    /\ IF ws_ = "open" \/ unsent = {}
       THEN /\ state_' = "Ready" /\ UNCHANGED reconnect_attempt_
            /\ \E ids \in FreshIds(unsent) : SendSubscribe(active_subs_, ids, rpcs, {})
       ELSE SendFails(TRUE, active_subs_, rpcs, inflight_sub_request_)
    /\ UNCHANGED <<last_estop_intent_, reconnect_subs_pending_, reconnect_estop_pending_,
                   engageAcked, faults, ops>>

(* The handshake of a reconnection: every subscription is sent again, then *)
(* the emergency stop if it is engaged; Ready at once if there is neither. *)
ReconnectHandshakeOk ==
  \E r \in inflight_rpc_ :
    LET engaged == last_estop_intent_ = "Engaged"
        rpcs    == inflight_rpc_ \ {r}
        slots   == [t \in Topics |-> [active_subs_[t] EXCEPT !.fresh_retry_done = FALSE]]
        replay  == IF engaged
                   THEN {Rpc(next_request_id_ + Cardinality(Registered), "replay", NoTopic)}
                   ELSE {}
    IN
    /\ Response("handshake", "ok", r) /\ state_ = "Reconnecting"
    /\ robot_info_' = TRUE
    /\ reconnect_subs_pending_' = Cardinality(Registered)
    /\ reconnect_estop_pending_' = (engaged /\ ws_ = "open")
    /\ IF Registered = {} /\ ~engaged
       THEN /\ state_' = "Ready" /\ reconnect_attempt_' = 0
            /\ inflight_rpc_' = rpcs
            /\ UNCHANGED <<ws_, reconnect_timer_, active_subs_, inflight_sub_request_,
                           sub_ack_timers_, net, crashed, next_request_id_>>
       ELSE IF ws_ = "open"
       THEN /\ UNCHANGED <<state_, reconnect_attempt_>>
            /\ \E ids \in FreshIds(Registered) : SendSubscribe(slots, ids, rpcs \cup replay, {})
       ELSE SendFails(Registered # {}, slots, rpcs, inflight_sub_request_)
    /\ UNCHANGED <<last_estop_intent_, engageAcked, faults, ops>>

(* EmergencyStopRpc: the intent is recorded when the robot confirms it.    *)
EStopReply ==
  \E r \in inflight_rpc_, m \in {"engage", "release"}, out \in {"ok", "error"} :
    /\ Response(m, out, r)
    /\ inflight_rpc_' = inflight_rpc_ \ {r}
    /\ IF out = "ok"
       THEN /\ last_estop_intent_' = IF m = "engage" THEN "Engaged" ELSE "None"
            /\ engageAcked' = (m = "engage")
       ELSE UNCHANGED <<last_estop_intent_, engageAcked>>
    /\ UNCHANGED <<state_, ws_, reconnect_attempt_, reconnect_timer_, active_subs_,
                   inflight_sub_request_, sub_ack_timers_, net, crashed,
                   reconnect_subs_pending_, reconnect_estop_pending_, robot_info_,
                   next_request_id_, faults, ops>>

(* DoEStopReplay's completion; the reconnection may now be complete.       *)
ReplayOk ==
  \E r \in inflight_rpc_ :
    /\ Response("replay", "ok", r)
    /\ inflight_rpc_' = inflight_rpc_ \ {r}
    /\ reconnect_estop_pending_' = FALSE /\ engageAcked' = TRUE
    /\ IF reconnect_subs_pending_ = 0
       THEN state_' = "Ready" /\ reconnect_attempt_' = 0
       ELSE UNCHANGED <<state_, reconnect_attempt_>>
    /\ UNCHANGED <<ws_, reconnect_timer_, active_subs_, inflight_sub_request_,
                   sub_ack_timers_, net, crashed, last_estop_intent_,
                   reconnect_subs_pending_, robot_info_, next_request_id_, faults, ops>>

ReplayFailed(r) ==
  /\ reconnect_estop_pending_' = FALSE
  /\ OnTransportClose(active_subs_, inflight_rpc_ \ {r}, inflight_sub_request_)
  /\ UNCHANGED <<last_estop_intent_, engageAcked, reconnect_subs_pending_, robot_info_,
                 next_request_id_, ops>>

ReplayRejected ==
  \E r \in inflight_rpc_ :
    Response("replay", "error", r) /\ ReplayFailed(r) /\ UNCHANGED faults

(* The reply to a synchronous Unsubscribe closes whatever the topic has.   *)
UnsubscribeReply ==
  \E r \in inflight_rpc_, out \in {"ok", "error"} :
    /\ Response("unsubscribe", out, r)
    /\ inflight_rpc_' = inflight_rpc_ \ {r}
    /\ active_subs_' = [active_subs_ EXCEPT ![r.topic] = NoSlot]
    /\ UNCHANGED <<state_, ws_, reconnect_attempt_, reconnect_timer_,
                   inflight_sub_request_, sub_ack_timers_, net, crashed,
                   reconnectVars, next_request_id_, faults, ops>>

(* A reply nobody waits for any more.                                      *)
UnknownResponse ==
  /\ Running /\ inq # <<>>
  /\ \/ /\ Head(inq).kind = "response"
        /\ \A r \in inflight_rpc_ : r.rid # Head(inq).rid
     \/ /\ Head(inq).kind = "ack"
        /\ \A q \in inflight_sub_request_ : q.rid # Head(inq).rid
  /\ inq' = Tail(inq)
  /\ UNCHANGED <<sessionVars, reconnectVars, next_request_id_, faults, ops>>

-----------------------------------------------------------------------------
(* HandleSubscribeAck.                                                     *)

(* The ack is the answer out to the request q: the request and its timer   *)
(* are erased; live when the slot of the topic still waits for it.         *)
Ack(q, out) ==
  /\ Running /\ inq # <<>>
  /\ Head(inq).kind = "ack" /\ Head(inq).rid = q.rid /\ Head(inq).out = out
  /\ inq' = Tail(inq)
  /\ UNCHANGED <<faults, ops>>
Awaits(q) == active_subs_[q.topic].state # "Absent" /\ active_subs_[q.topic].rid = q.rid
OtherRequests(q) == {p \in inflight_sub_request_ : p.rid # q.rid}
(* Mutant: every timer is cancelled with the one of the request.           *)
EraseAllTimers(q) == inflight_sub_request_' = OtherRequests(q) /\ sub_ack_timers_' = {}

EraseRequest(q) ==
  /\ inflight_sub_request_' = OtherRequests(q)
  /\ sub_ack_timers_' = sub_ack_timers_ \ {q.rid}

(* Mutants: whatever the emergency stop; one ack too early.                *)
SettleReady(n) ==
  IF state_ = "Reconnecting" /\ reconnect_subs_pending_ > 0
  THEN /\ reconnect_subs_pending_' = reconnect_subs_pending_ - 1
       /\ IF reconnect_subs_pending_ <= n
          THEN state_' = "Ready" /\ reconnect_attempt_' = 0
          ELSE UNCHANGED <<state_, reconnect_attempt_>>
  ELSE UNCHANGED <<reconnect_subs_pending_, state_, reconnect_attempt_>>
SettleUnconfirmed == SettleReady(1)
SettleEarly == ~reconnect_estop_pending_ /\ SettleReady(2)

(* One resubscription is settled; with the last one, unless the emergency  *)
(* stop is still to be confirmed, the reconnection is complete.            *)
SettleResubscription ==
  IF state_ = "Reconnecting" /\ reconnect_subs_pending_ > 0
  THEN /\ reconnect_subs_pending_' = reconnect_subs_pending_ - 1
       /\ IF reconnect_subs_pending_ = 1 /\ ~reconnect_estop_pending_
          THEN state_' = "Ready" /\ reconnect_attempt_' = 0
          ELSE UNCHANGED <<state_, reconnect_attempt_>>
  ELSE UNCHANGED <<reconnect_subs_pending_, state_, reconnect_attempt_>>

(* The slot of q ends up as given.                                         *)
AckSettles(q, slot) ==
  /\ EraseRequest(q)
  /\ active_subs_' = [active_subs_ EXCEPT ![q.topic] = slot]
  /\ SettleResubscription
  /\ UNCHANGED <<ws_, reconnect_timer_, inflight_rpc_, net, crashed, last_estop_intent_,
                 reconnect_estop_pending_, robot_info_, engageAcked, next_request_id_>>

WantsFreshRetry(q) ==
  active_subs_[q.topic].semantics = "Event" /\ ~active_subs_[q.topic].fresh_retry_done

AckAccepted ==
  \E q \in inflight_sub_request_ :
    /\ Ack(q, "ok") /\ Awaits(q)
    /\ AckSettles(q, [active_subs_[q.topic] EXCEPT !.state = "Active", !.rid = 0])

AckRejected ==
  \E q \in inflight_sub_request_, out \in {"error", "retry"} :
    /\ Ack(q, out) /\ Awaits(q)
    /\ out = "retry" => ~WantsFreshRetry(q)
    /\ AckSettles(q, NoSlot)

(* The history asked for is gone: subscribe once more, from now on.        *)
AckFreshRetry ==
  \E q \in inflight_sub_request_ :
    LET slots == [active_subs_ EXCEPT ![q.topic].fresh_retry_done = TRUE] IN
    /\ Ack(q, "retry") /\ Awaits(q) /\ WantsFreshRetry(q)
    /\ IF ws_ = "open"
       THEN /\ \E ids \in FreshIds({q.topic}) :
                 SendSubscribe(slots, ids, inflight_rpc_, {q.rid})
            /\ UNCHANGED <<state_, reconnect_attempt_>>
       ELSE SendFails(FALSE, slots, inflight_rpc_, OtherRequests(q))
    /\ UNCHANGED reconnectVars

AckFatal ==
  \E q \in inflight_sub_request_ :
    /\ Ack(q, "fatal") /\ Awaits(q)
    /\ AbortToFatal(inflight_rpc_)
    /\ UNCHANGED <<reconnectVars, next_request_id_>>

(* A transient error restarts a reconnection, and otherwise closes the     *)
(* subscription.                                                           *)
AckTransient ==
  \E q \in inflight_sub_request_ :
    /\ Ack(q, "transient") /\ Awaits(q)
    /\ \/ /\ state_ = "Reconnecting"
          /\ OnTransportClose(active_subs_, inflight_rpc_, OtherRequests(q))
          /\ UNCHANGED <<reconnectVars, next_request_id_>>
       \/ state_ # "Reconnecting" /\ AckSettles(q, NoSlot)

(* The subscription was dropped in the meantime.                           *)
AckTooLate ==
  \E q \in inflight_sub_request_, out \in AnyOutcome :
    /\ Ack(q, out) /\ ~Awaits(q)
    /\ EraseRequest(q)
    /\ UNCHANGED <<state_, ws_, reconnect_attempt_, reconnect_timer_, active_subs_,
                   inflight_rpc_, net, crashed, reconnectVars, next_request_id_>>

-----------------------------------------------------------------------------
(* The end of the socket, and the timers.  A deadline may pass although    *)
(* the answer is on its way, which counts as a misfortune.                 *)

OnWay(id) == (\E q \in net : q.rid = id) \/ (\E i \in 1 .. Len(inq) : inq[i].rid = id)
Deadline(id) == IF OnWay(id) THEN Spend ELSE UNCHANGED faults

(* Mutant: without the check for a terminal state.                         *)
TransportClosedAnyState ==
  /\ Running /\ inq # <<>> /\ Head(inq).kind = "close"
  /\ inq' = Tail(inq)
  /\ OnTransportClose(active_subs_, inflight_rpc_, inflight_sub_request_)
  /\ UNCHANGED <<reconnectVars, next_request_id_, faults, ops>>

(* OnTransportClose as posted by the close handler of the WsClient, maybe  *)
(* one that has been released since.                                       *)
TransportClosed ==
  /\ Running /\ inq # <<>> /\ Head(inq).kind = "close"
  /\ inq' = Tail(inq)
  /\ IF state_ \in {"Shutdown", "Fatal"} THEN UNCHANGED sessionVars
     ELSE OnTransportClose(active_subs_, inflight_rpc_, inflight_sub_request_)
  /\ UNCHANGED <<reconnectVars, next_request_id_, faults, ops>>

(* Nothing but the WsClient is released: the state stays what it is.       *)
HandshakeTimeout ==
  \E r \in inflight_rpc_ :
    /\ Running /\ r.method = "handshake" /\ Deadline(r.rid)
    /\ inflight_rpc_' = inflight_rpc_ \ {r}
    /\ ws_' = "none" /\ net' = {}
    /\ UNCHANGED <<state_, reconnect_attempt_, reconnect_timer_, active_subs_,
                   inflight_sub_request_, sub_ack_timers_, crashed, reconnectVars,
                   next_request_id_, inq, ops>>

(* Mutant: the synchronous Unsubscribe has no deadline.                    *)
StopTimeout ==
  \E r \in inflight_rpc_ :
    /\ Running /\ r.method \in {"engage", "release"} /\ Deadline(r.rid)
    /\ inflight_rpc_' = inflight_rpc_ \ {r}
    /\ UNCHANGED <<state_, ws_, reconnect_attempt_, reconnect_timer_, active_subs_,
                   inflight_sub_request_, sub_ack_timers_, net, crashed, reconnectVars,
                   next_request_id_, inq, ops>>

(* The deadline of a request of the user: the caller gets Timeout.         *)
CallTimeout ==
  \E r \in inflight_rpc_ :
    /\ Running /\ r.method \in {"engage", "release", "unsubscribe"} /\ Deadline(r.rid)
    /\ inflight_rpc_' = inflight_rpc_ \ {r}
    /\ UNCHANGED <<state_, ws_, reconnect_attempt_, reconnect_timer_, active_subs_,
                   inflight_sub_request_, sub_ack_timers_, net, crashed, reconnectVars,
                   next_request_id_, inq, ops>>

ReplayTimeout ==
  \E r \in inflight_rpc_ :
    /\ Running /\ r.method = "replay" /\ Deadline(r.rid)
    /\ ReplayFailed(r)
    /\ UNCHANGED inq

(* Mutant: the deadline counts during a reconnection only.                 *)
ResubscribeTimeout ==
  \E id \in sub_ack_timers_ :
    /\ Running /\ state_ = "Reconnecting" /\ Deadline(id)
    /\ OnTransportClose(active_subs_, inflight_rpc_, inflight_sub_request_)
    /\ UNCHANGED <<reconnectVars, next_request_id_, inq, ops>>

AckTimeout ==
  \E id \in sub_ack_timers_ :
    /\ Running /\ Deadline(id)
    /\ OnTransportClose(active_subs_, inflight_rpc_, inflight_sub_request_)
    /\ UNCHANGED <<reconnectVars, next_request_id_, inq, ops>>

(* OnIdleTimerExpired or OnPingDeadlineExpired gives the peer up.          *)
HeartbeatDead ==
  /\ Running /\ state_ = "Ready" /\ Spend
  /\ OnTransportClose(active_subs_, inflight_rpc_, inflight_sub_request_)
  /\ UNCHANGED <<reconnectVars, next_request_id_, inq, ops>>

-----------------------------------------------------------------------------
(* The user.                                                               *)

(* SubscribeInternal; the semantics are those known at this moment.        *)
Subscribe(t) ==
  LET slot  == [NoSlot EXCEPT !.state = "Pending", !.semantics =
                  IF robot_info_ /\ t \in EventTopics THEN "Event" ELSE "Telemetry"]
      slots == [active_subs_ EXCEPT ![t] = slot]
  IN
  /\ Running /\ UseOp
  /\ t \notin Registered
  /\ IF state_ # "Ready"
     THEN /\ active_subs_' = slots
          /\ UNCHANGED <<state_, ws_, reconnect_attempt_, reconnect_timer_, inflight_rpc_,
                         inflight_sub_request_, sub_ack_timers_, net, crashed, next_request_id_>>
     ELSE IF ws_ = "open"
     THEN /\ \E ids \in FreshIds({t}) : SendSubscribe(slots, ids, inflight_rpc_, {})
          /\ UNCHANGED <<state_, reconnect_attempt_>>
     ELSE SendFails(FALSE, slots, inflight_rpc_, inflight_sub_request_)
  /\ UNCHANGED <<reconnectVars, inq, faults>>

(* The slot of t leaves active_subs_; its timer goes with it if the user   *)
(* has dropped the handle, which owned it.                                 *)
CloseSlot(t, dropped) ==
  /\ active_subs_' = [active_subs_ EXCEPT ![t] = NoSlot]
  /\ sub_ack_timers_' = IF dropped THEN sub_ack_timers_ \ {active_subs_[t].rid} ELSE sub_ack_timers_
  /\ UNCHANGED <<state_, ws_, reconnect_attempt_, reconnect_timer_, inflight_rpc_,
                 inflight_sub_request_, net, crashed, next_request_id_>>

(* ~SubscriptionFacade, by UnsubscribeRequest without waiting.             *)
DropSubscription(t) ==
  /\ Running /\ UseOp /\ t \in Registered
  /\ CloseSlot(t, TRUE)
  /\ UNCHANGED <<reconnectVars, inq, faults>>

Call(m, t) ==
  /\ inflight_rpc_' = inflight_rpc_ \cup {Rpc(next_request_id_, m, t)}
  /\ net' = net \cup {Req(next_request_id_, m)}
  /\ next_request_id_' = next_request_id_ + 1
  /\ UNCHANGED <<state_, ws_, reconnect_attempt_, reconnect_timer_, active_subs_,
                 inflight_sub_request_, sub_ack_timers_, crashed>>

(* Subscription::Unsubscribe, which waits for the reply when connected.    *)
Unsubscribe(t) ==
  /\ Running /\ UseOp /\ t \in Registered
  /\ IF state_ = "Ready" /\ ws_ = "open" THEN Call("unsubscribe", t) ELSE CloseSlot(t, FALSE)
  /\ UNCHANGED <<reconnectVars, inq, faults>>

(* EmergencyStop; otherwise it fails at once and changes nothing.          *)
EmergencyStop(engage) ==
  /\ Running /\ UseOp
  /\ state_ = "Ready" /\ ws_ = "open"
  /\ Call(IF engage THEN "engage" ELSE "release", NoTopic)
  /\ UNCHANGED <<reconnectVars, inq, faults>>

(* Mutant: the reconnect timer is not cancelled.                           *)
CloseKeepsTimer ==
  /\ Running /\ UseOp /\ state_ # "Shutdown"
  /\ state_' = "Shutdown" /\ ws_' = "none" /\ UNCHANGED reconnect_timer_
  /\ active_subs_' = NoSlots
  /\ inflight_rpc_' = {} /\ sub_ack_timers_' = {} /\ net' = {}
  /\ reconnect_estop_pending_' = (reconnect_estop_pending_ /\ ~ReplayInflight(inflight_rpc_))
  /\ UNCHANGED <<reconnect_attempt_, inflight_sub_request_, crashed, last_estop_intent_,
                 reconnect_subs_pending_, robot_info_, engageAcked, next_request_id_, inq, faults>>

(* The completion of a replay sees Shutdown and does nothing.              *)
Close ==
  /\ Running /\ UseOp /\ state_ # "Shutdown"
  /\ state_' = "Shutdown" /\ ws_' = "none" /\ reconnect_timer_' = FALSE
  /\ active_subs_' = NoSlots
  /\ inflight_rpc_' = {} /\ sub_ack_timers_' = {} /\ net' = {}
  /\ reconnect_estop_pending_' = (reconnect_estop_pending_ /\ ~ReplayInflight(inflight_rpc_))
  /\ UNCHANGED <<reconnect_attempt_, inflight_sub_request_, crashed, last_estop_intent_,
                 reconnect_subs_pending_, robot_info_, engageAcked, next_request_id_, inq, faults>>

-----------------------------------------------------------------------------
(* The robot and the network, and the io thread that reads the socket.     *)

Reply(q, out) ==
  /\ Running /\ ws_ = "open"
  /\ net' = net \ {q}
  /\ inq' = Append(inq, [kind |-> IF q.kind = "subscribe" THEN "ack" ELSE "response",
                         rid |-> q.rid, out |-> out])
  /\ UNCHANGED <<state_, ws_, reconnect_attempt_, reconnect_timer_, active_subs_, inflight_rpc_,
                 inflight_sub_request_, sub_ack_timers_, crashed, reconnectVars,
                 next_request_id_, ops>>

RobotAccepts == \E q \in net : Reply(q, "ok") /\ UNCHANGED faults
RobotRefuses == \E q \in net : \E out \in Outcome(q.kind) \ {"ok"} : Reply(q, out) /\ Spend

(* The request, or its reply, never arrives.                               *)
RequestLost ==
  /\ Running /\ Spend
  /\ \E q \in net : net' = net \ {q}
  /\ UNCHANGED <<state_, ws_, reconnect_attempt_, reconnect_timer_, active_subs_, inflight_rpc_,
                 inflight_sub_request_, sub_ack_timers_, crashed, reconnectVars,
                 next_request_id_, inq, ops>>

(* WsClient::OnDisconnect on the io thread.                                *)
OnDisconnect ==
  /\ Running /\ ws_ = "open" /\ Spend
  /\ ws_' = "dead" /\ net' = {}
  /\ inq' = Append(inq, [kind |-> "close", rid |-> 0, out |-> "error"])
  /\ UNCHANGED <<state_, reconnect_attempt_, reconnect_timer_, active_subs_, inflight_rpc_,
                 inflight_sub_request_, sub_ack_timers_, crashed, reconnectVars,
                 next_request_id_, ops>>

-----------------------------------------------------------------------------
Init ==
  /\ state_ = "Idle" /\ ws_ = "none"
  /\ reconnect_attempt_ = 0 /\ reconnect_timer_ = FALSE
  /\ active_subs_ = NoSlots
  /\ inflight_rpc_ = {} /\ inflight_sub_request_ = {} /\ sub_ack_timers_ = {}
  /\ last_estop_intent_ = "None"
  /\ reconnect_subs_pending_ = 0 /\ reconnect_estop_pending_ = FALSE
  /\ robot_info_ = FALSE /\ next_request_id_ = 1
  /\ inq = <<>> /\ net = {}
  /\ engageAcked = FALSE /\ crashed = "no"
  /\ faults = MaxFaults /\ ops = MaxOps

Handle ==
  \/ HandshakeRejected \/ FirstHandshakeOk \/ ReconnectHandshakeOk
  \/ EStopReply \/ ReplayOk \/ ReplayRejected \/ UnsubscribeReply \/ UnknownResponse
  \/ AckAccepted \/ AckRejected \/ AckFreshRetry \/ AckFatal \/ AckTransient \/ AckTooLate
  \/ TransportClosed
Timer == ReconnectTimer \/ HandshakeTimeout \/ CallTimeout \/ ReplayTimeout \/ AckTimeout
User ==
  \/ Connect \/ Close
  \/ \E t \in Topics : Subscribe(t) \/ DropSubscription(t) \/ Unsubscribe(t)
  \/ \E engage \in BOOLEAN : EmergencyStop(engage)
Environment == RobotAccepts \/ RobotRefuses \/ RequestLost \/ OnDisconnect

Next == Handle \/ Timer \/ HeartbeatDead \/ User \/ Environment

Spec == Init /\ [][Next]_vars

(* The control thread keeps running handlers and timers, and a robot that  *)
(* is reached and willing answers.                                         *)
Fairness ==
  /\ WF_vars(Handle) /\ WF_vars(ReconnectTimer) /\ WF_vars(HandshakeTimeout)
  /\ WF_vars(CallTimeout) /\ WF_vars(ReplayTimeout) /\ WF_vars(AckTimeout)
  /\ WF_vars(RobotAccepts)
FairSpec == Spec /\ Fairness

-----------------------------------------------------------------------------
(* Properties.                                                             *)

(* Every piece of the session state has its type.                          *)
TypeOK ==
  /\ state_ \in ConnectionState /\ ws_ \in {"none", "open", "dead"}
  /\ reconnect_attempt_ \in Nat /\ reconnect_timer_ \in BOOLEAN
  /\ active_subs_ \in [Topics -> Slot]
  /\ inflight_rpc_ \subseteq InflightRpc
  /\ inflight_sub_request_ \subseteq [rid : Nat, topic : Topics]
  /\ sub_ack_timers_ \subseteq Nat
  /\ last_estop_intent_ \in {"None", "Engaged"}
  /\ reconnect_subs_pending_ \in Nat /\ reconnect_estop_pending_ \in BOOLEAN
  /\ robot_info_ \in BOOLEAN /\ next_request_id_ \in Nat \ {0}
  /\ inq \in Seq(Posted) /\ net \subseteq Request
  /\ engageAcked \in BOOLEAN
  /\ crashed \in {"no", "stack overflow", "dangling iterator"}
  /\ faults \in Nat /\ ops \in Nat

(* An engaged emergency stop has been confirmed by the robot on the very   *)
(* connection that is Ready: after a reconnection, Ready is not declared   *)
(* until DoEStopReplay succeeded, whatever the order of acks and replies.  *)
EStopConfirmedWhenReady ==
  state_ = "Ready" /\ last_estop_intent_ = "Engaged" => engageAcked

(* DoReconnect never lets the attempts exceed reconnect_max_attempts, and  *)
(* an attempt counted against one outage is forgotten by Ready.            *)
AttemptsWithinLimit ==
  /\ MaxAttempts >= 0 => reconnect_attempt_ <= MaxAttempts
  /\ state_ = "Ready" => reconnect_attempt_ = 0

(* In TransientFailure the retry is armed, the old WsClient is gone, no    *)
(* request of the lost connection can still complete or time out, and no   *)
(* subscription passes for Active.                                         *)
TransientFailureRetries ==
  state_ = "TransientFailure" =>
    /\ reconnect_timer_ /\ ws_ = "none"
    /\ inflight_rpc_ = {} /\ sub_ack_timers_ = {}
    /\ \A t \in Topics : active_subs_[t].rid = 0 /\ active_subs_[t].state # "Active"

(* A slot waits for an ack only while there is a connection, with its      *)
(* deadline armed and its request on record: it cannot wait for ever.      *)
AckAwaitedHasDeadline ==
  \A t \in Topics : active_subs_[t].rid # 0 =>
    /\ active_subs_[t].state = "Pending"
    /\ state_ \in {"Ready", "Reconnecting"} /\ ws_ # "none"
    /\ active_subs_[t].rid \in sub_ack_timers_
    /\ [rid |-> active_subs_[t].rid, topic |-> t] \in inflight_sub_request_

(* A terminal state holds no connection, timer, request or live stream,    *)
(* whichever handler was interrupted by it.                                *)
TerminalReleasesAll ==
  state_ \in {"Shutdown", "Fatal"} =>
    /\ ws_ = "none" /\ ~reconnect_timer_
    /\ inflight_rpc_ = {} /\ sub_ack_timers_ = {}
    /\ \A t \in Topics : active_subs_[t].state \in {"Absent", "Pending"}

(* A reconnection is not complete before every resubscription it sent has  *)
(* been answered: reconnect_subs_pending_ never undercounts.               *)
NoEarlyReady ==
  [][state_ = "Reconnecting" /\ state_' = "Ready" =>
       \A t \in Topics : active_subs_'[t].rid = 0]_vars

NoneAwaited == \A t \in Topics : active_subs_[t].rid = 0
WithinLimit(n) == MaxAttempts >= 0 => n <= MaxAttempts

(* Before the first Ready nothing was attempted, engaged or subscribed.    *)
FreshSession ==
  state_ \in {"Idle", "Connecting"} => reconnect_attempt_ = 0 /\ last_estop_intent_ = "None"

(* The retry is armed in TransientFailure only, and within the limit.      *)
RetryArmed ==
  /\ WithinLimit(reconnect_attempt_)
  /\ state_ = "TransientFailure" => WithinLimit(reconnect_attempt_ + 1)

(* The phases in which a request can be in flight.  While connecting it is *)
(* alone: the handshake, then the replay.                                  *)
RequestsOfPhase ==
  \A r \in inflight_rpc_ :
    /\ r.method = "handshake" =>
         /\ state_ \in {"Connecting", "Reconnecting"}
         /\ NoneAwaited /\ sub_ack_timers_ = {}
    /\ r.method = "replay" => state_ = "Reconnecting" /\ reconnect_estop_pending_
    /\ r.method \in {"engage", "release", "unsubscribe"} => state_ = "Ready"
    /\ state_ # "Ready" => inflight_rpc_ = {r}

(* Subscriptions are outstanding on a connection that shook hands only.    *)
AcksOfPhase ==
  /\ state_ \in {"Ready", "Reconnecting"} \/ (NoneAwaited /\ sub_ack_timers_ = {})
  /\ \A q \in inflight_sub_request_ : q.rid # 0

(* The stop is confirmed by Ready, and until then still to be replayed.    *)
StopOfPhase ==
  /\ state_ = "Ready" => reconnect_attempt_ = 0
  /\ last_estop_intent_ = "Engaged" =>
       /\ state_ = "Ready" => engageAcked
       /\ state_ = "Reconnecting" /\ ~NoneAwaited => reconnect_estop_pending_ \/ engageAcked

(* The inductive invariant behind the theorems of RobotSession_proofs.     *)
PhaseInv ==
  FreshSession /\ RetryArmed /\ RequestsOfPhase /\ AcksOfPhase /\ StopOfPhase

(* A WsClient is held, and a retry armed, in the states made for it only.   *)
ConnectionOfPhase ==
  /\ state_ \in {"Idle", "TransientFailure", "Shutdown", "Fatal"} => ws_ = "none"
  /\ reconnect_timer_ <=> state_ = "TransientFailure"

(* No two subscribe requests share an id, and every id was handed out.     *)
RequestIdsDistinct ==
  \A q \in inflight_sub_request_ :
    /\ q.rid < next_request_id_
    /\ \A p \in inflight_sub_request_ : p.rid = q.rid => p.topic = q.topic

(* An awaited ack has its connection, its deadline and its request; frames *)
(* are accepted on a connection that shook hands only, and a subscription  *)
(* to be resumed exists only where a reconnection is still possible.       *)
SlotOfPhase(t) ==
  /\ active_subs_[t].rid # 0 =>
       /\ active_subs_[t].state = "Pending" /\ ws_ # "none"
       /\ active_subs_[t].rid \in sub_ack_timers_
       /\ [rid |-> active_subs_[t].rid, topic |-> t] \in inflight_sub_request_
  /\ active_subs_[t].state = "Active" =>
       /\ state_ \in {"Ready", "Reconnecting"}
       /\ \A r \in inflight_rpc_ : r.method # "handshake"
  /\ active_subs_[t].state = "Paused" => state_ \notin {"Shutdown", "Fatal"}

(* The counter of a reconnection never undercounts the acks it waits for.  *)
Awaited == {t \in Topics : active_subs_[t].rid # 0}
AcksCounted == state_ = "Reconnecting" => Cardinality(Awaited) <= reconnect_subs_pending_

(* The inductive invariant behind the theorems on slots and acks.          *)
SlotInv ==
  /\ ConnectionOfPhase /\ RequestIdsDistinct
  /\ \A t \in Topics : SlotOfPhase(t)
  /\ AcksCounted

(* The two together are what RobotSession_proofs proves inductive.         *)
SessionInv == PhaseInv /\ SlotInv

(* The session implements ConnectionLifecycle: only the documented changes *)
(* of state, attempts counted one by one, no way out of a terminal state   *)
(* but Close, and no Ready with an engaged stop that is not confirmed.     *)
Lifecycle == INSTANCE ConnectionLifecycle WITH
  state <- state_, attempt <- reconnect_attempt_,
  intent <- last_estop_intent_, confirmed <- engageAcked
ImplementsLifecycle == Lifecycle!Spec

(* TransientFailure is left: the armed retry is taken.                     *)
RetryHappens == state_ = "TransientFailure" ~> state_ # "TransientFailure"

(* Every subscribe request is answered, times out or is abandoned.         *)
SubscribeSettles ==
  \A t \in Topics : active_subs_[t].rid # 0 ~> (active_subs_[t].rid = 0 \/ ~Running)

(* Every request in flight is completed: no caller waits for ever.         *)
CallsComplete == inflight_rpc_ # {} ~> (inflight_rpc_ = {} \/ ~Running)

(* API.md 192: Connecting is the time of the first attempt to connect; a   *)
(* failed handshake is a runtime failure that the state machine exposes.   *)
ConnectingEnds == state_ = "Connecting" ~> state_ # "Connecting"

(* API.md 194: a lost connection is made again of its own accord, so that  *)
(* Reconnecting, during which it is (195), is left.                        *)
ReconnectingEnds == state_ = "Reconnecting" ~> state_ # "Reconnecting" \/ ~Running

(* API.md 105: a subscription made before Ready is established by Ready.   *)
ReadySubscribesAll ==
  state_ = "Ready" =>
    \A t \in Registered : active_subs_[t].state = "Pending" => active_subs_[t].rid # 0

(* API.md 626: frames of an Event topic are watched for loss.              *)
EventTopicsWatched ==
  \A t \in EventTopics : active_subs_[t].state = "Active" => active_subs_[t].semantics = "Event"

(* README.md 163: a failure at run time is reported by the state machine;  *)
(* no handler brings the process down.                                     *)
NeverCrashes == Running
=============================================================================

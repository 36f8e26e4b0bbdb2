------------------------------- MODULE Handles -------------------------------
(***************************************************************************)
(* The handles Subscribe returns (SubscriptionFacade in                    *)
(* src/src/robot_impl.cpp and src/src/subscription_impl.hpp), several of   *)
(* them for one topic.  The threads of the user subscribe, unsubscribe and *)
(* destroy handles; each of these posts a handler to the control thread,   *)
(* which runs them in order.  An unsubscription names the topic, not the   *)
(* handle, so that it takes down whichever slot the topic has when it is   *)
(* handled, or when its reply arrives.                                     *)
(*                                                                         *)
(* The connection is Ready; "Dead", Ready with a socket that has ended;    *)
(* "Down"; or "Restoring", connected again and waiting for the acks.  The  *)
(* robot handles what is sent to it in order.                              *)
(***************************************************************************)
EXTENDS Integers, Sequences

CONSTANTS
  Handles,      \* handles of one topic
  None,         \* no handle
  MaxUnsubs,    \* bound: calls of Unsubscribe
  MaxLosses     \* bound: connections lost

ASSUME HandlesAssumption == None \notin Handles /\ MaxUnsubs \in Nat /\ MaxLosses \in Nat

VARIABLES
  careful,          \* does the user end a subscription before making another?
  obj,              \* each handle: "none", "held", "calling" or "destroyed"
  state,            \* of its slot: SubscriptionState
  user_closed,
  unsubscribe_sent,
  result,           \* what the last Unsubscribe of the handle returned
  active,           \* the handle whose slot active_subs_ has for the topic
  queue,            \* handlers posted to control_ioc_
  inflight,         \* calls of Unsubscribe waiting for a reply
  ids,              \* request ids used
  conn, losses,
  wire, back,       \* requests on their way to the robot, and its replies
  serving,          \* does the robot send frames of the topic?
  foreign,          \* history: slots taken down by another handle's call
  stale,            \* history: unsubscribe_sent speaks of an earlier connection
  untold            \* history: a slot was dropped and the robot not told

handleVars == <<obj, user_closed, result>>
slotVars == <<state, unsubscribe_sent, active, foreign, untold>>
linkVars == <<conn, losses, wire, back, serving, stale>>
vars == <<careful, handleVars, slotVars, queue, inflight, ids, linkVars>>

Task(run, h, id) == [run |-> run, handle |-> h, id |-> id]
Ready == conn \in {"Ready", "Dead"}

-----------------------------------------------------------------------------
(* The user.                                                               *)

Ended(h) == obj[h] \in {"none", "destroyed"} \/ result[h] = "Ok"

Subscribe(h) ==
  /\ obj[h] = "none" /\ (careful => \A g \in Handles : Ended(g))
  /\ obj' = [obj EXCEPT ![h] = "held"]
  /\ queue' = Append(queue, Task("subscribe", h, 0))
  /\ UNCHANGED <<careful, user_closed, result, slotVars, inflight, ids, linkVars>>

Unsubscribe(h) ==
  /\ obj[h] = "held" /\ ids < MaxUnsubs /\ (careful => result[h] # "Ok")
  /\ obj' = [obj EXCEPT ![h] = "calling"] /\ ids' = ids + 1
  /\ queue' = Append(queue, Task("unsubscribe", h, ids + 1))
  /\ UNCHANGED <<careful, user_closed, result, slotVars, inflight, linkVars>>

(* Mutants: the destructor leaves a subscription that is not Active; it    *)
(* unsubscribes one that is closed.                                        *)
DropActiveOnly(h) ==
  IF state[h] = "Active" THEN queue' = Append(queue, Task("drop", h, 0)) ELSE UNCHANGED queue
DropAlways(h) == queue' = Append(queue, Task("drop", h, 0))

Drop(h) ==
  IF state[h] # "Closed" THEN queue' = Append(queue, Task("drop", h, 0)) ELSE UNCHANGED queue

(* ~SubscriptionFacade.                                                    *)
Destroy(h) ==
  /\ obj[h] = "held"
  /\ obj' = [obj EXCEPT ![h] = "destroyed"] /\ user_closed' = [user_closed EXCEPT ![h] = TRUE]
  /\ Drop(h)
  /\ UNCHANGED <<careful, result, slotVars, inflight, ids, linkVars>>

-----------------------------------------------------------------------------
(* The control thread.                                                     *)

Dequeue(run) ==
  /\ queue # <<>> /\ Head(queue).run = run /\ queue' = Tail(queue)
  /\ UNCHANGED <<careful, user_closed, ids>>

(* A call of Unsubscribe returns r.                                        *)
Return(hs, r) ==
  /\ obj' = [h \in Handles |-> IF h \in hs THEN "held" ELSE obj[h]]
  /\ result' = [h \in Handles |-> IF h \in hs THEN r ELSE result[h]]

SetState(h, s) == state' = [state EXCEPT ![h] = s]

(* The topic's slot is closed and leaves the map.                          *)
Erase(by) ==
  /\ SetState(active, "Closed") /\ active' = None
  /\ foreign' = IF active # by THEN foreign \cup {active} ELSE foreign

(* OnTransportClose: calls in flight fail, the slot waits.                 *)
OnTransportClose(slot) ==
  /\ conn' = "Down" /\ losses' = losses + 1
  /\ state' = [h \in Handles |-> IF h = slot THEN "Paused" ELSE state[h]]
  /\ Return({c.handle : c \in inflight}, "TransportFailure") /\ inflight' = {}
  /\ wire' = <<>> /\ back' = <<>> /\ serving' = FALSE
  /\ stale' = {h \in Handles : unsubscribe_sent[h]}

(* SubscribeInternal's handler: the handle is gone, the topic is taken, or *)
(* the slot is entered and, if the connection is Ready, asked for.         *)
HandleSubscribe ==
  LET h == Head(queue).handle IN
  /\ Dequeue("subscribe")
  /\ CASE user_closed[h] \/ active # None ->
            /\ SetState(h, "Closed")
            /\ UNCHANGED <<obj, result, active, inflight, linkVars>>
       [] ~user_closed[h] /\ active = None /\ conn = "Dead" ->
            active' = h /\ OnTransportClose(h)
       [] OTHER ->
            /\ active' = h /\ UNCHANGED <<state, obj, result, inflight>>
            /\ wire' = IF Ready THEN Append(wire, Task("subscribe", h, 0)) ELSE wire
            /\ UNCHANGED <<conn, losses, back, serving, stale>>
  /\ UNCHANGED <<unsubscribe_sent, foreign, untold>>

(* Mutant: the robot is not told.                                          *)
TellNothing == UNCHANGED <<wire, unsubscribe_sent>>

(* Tell the robot, once, if it can be told.                                *)
Tell ==
  IF conn = "Ready" /\ ~unsubscribe_sent[active]
  THEN /\ wire' = Append(wire, Task("unsubscribe", active, 0))
       /\ unsubscribe_sent' = [unsubscribe_sent EXCEPT ![active] = TRUE]
  ELSE UNCHANGED <<wire, unsubscribe_sent>>

Untold == untold \/ conn = "Restoring" \/ active \in stale

(* UnsubscribeRequest(topic, false), posted by the destructor.             *)
HandleDrop ==
  /\ Dequeue("drop")
  /\ IF active = None THEN UNCHANGED <<slotVars, wire>>
     ELSE Tell /\ Erase(Head(queue).handle) /\ untold' = Untold
  /\ UNCHANGED <<obj, result, inflight, conn, losses, back, serving, stale>>

(* UnsubscribeRequest(topic, true).                                        *)
HandleUnsubscribe ==
  LET h == Head(queue).handle
      id == Head(queue).id
  IN
  /\ Dequeue("unsubscribe")
  /\ CASE active = None ->
            Return({h}, "Ok") /\ UNCHANGED <<slotVars, inflight, wire>>
       [] active # None /\ conn # "Ready" ->
            /\ Return({h}, "Disconnected") /\ Erase(h) /\ untold' = Untold
            /\ UNCHANGED <<unsubscribe_sent, inflight, wire>>
       [] OTHER ->
            /\ inflight' = inflight \cup {[handle |-> h, id |-> id]}
            /\ wire' = Append(wire, Task("unsubscribe", h, id))
            /\ unsubscribe_sent' = [unsubscribe_sent EXCEPT ![active] = TRUE]
            /\ UNCHANGED <<obj, result, state, active, foreign, untold>>
  /\ UNCHANGED <<conn, losses, back, serving, stale>>

(* The socket ends between the look at it and SendOrFail: the slot stays.  *)
UnsubscribeSendFails ==
  /\ Dequeue("unsubscribe") /\ active # None /\ conn = "Dead"
  /\ Return({Head(queue).handle}, "TransportFailure")
  /\ UNCHANGED <<slotVars, inflight, linkVars>>

(* subscribe_ack_timeout passes: the call returns, the slot stays.         *)
UnsubscribeTimesOut ==
  /\ \E c \in inflight : Return({c.handle}, "Timeout") /\ inflight' = inflight \ {c}
  /\ UNCHANGED <<careful, user_closed, slotVars, queue, ids, linkVars>>

(* Replies.  An ack is for a slot that waits for it; with it, or with a    *)
(* refusal, the connection is restored.  The reply to an unsubscription    *)
(* takes down the slot the topic has now; it is Ok or an error.            *)
Reply(kinds) == back # <<>> /\ Head(back).run \in kinds /\ back' = Tail(back)

HandleSubscribeAck ==
  LET h == Head(back).handle IN
  /\ Reply({"accepted", "refused"})
  /\ IF h # active \/ state[h] # "Pending" THEN UNCHANGED <<slotVars, conn>>
     ELSE /\ conn' = IF conn = "Restoring" THEN "Ready" ELSE conn
          /\ \/ Head(back).run = "accepted" /\ SetState(h, "Active") /\ UNCHANGED <<active, foreign>>
             \/ Head(back).run = "refused" /\ Erase(h)
          /\ UNCHANGED <<unsubscribe_sent, untold>>
  /\ UNCHANGED <<careful, handleVars, queue, inflight, ids, losses, wire, serving, stale>>

(* Mutant: the call returns, and the slot is left to the timeout.          *)
ReplyKeepsSlot(h) == UNCHANGED <<state, active, foreign>>
ReplyErases(h) ==
  IF active = None THEN UNCHANGED <<state, active, foreign>> ELSE Erase(h)

HandleUnsubscribeReply ==
  LET h == Head(back).handle
      calls == {c \in inflight : c.id = Head(back).id}
  IN
  /\ Reply({"unsubscribed"})
  /\ inflight' = inflight \ calls
  /\ IF calls = {} THEN UNCHANGED <<obj, result, state, active, foreign>>
     ELSE ReplyErases(h) /\ \E r \in {"Ok", "Refused"} : Return({h}, r)
  /\ UNCHANGED <<careful, user_closed, unsubscribe_sent, untold, queue, ids, conn, losses, wire,
                 serving, stale>>

-----------------------------------------------------------------------------
(* The robot, and the connection.                                          *)

RobotAnswers(how) == wire' = Tail(wire) /\ back' = Append(back, [Head(wire) EXCEPT !.run = how])
RobotHandles ==
  /\ wire # <<>>
  /\ \/ Head(wire).run = "subscribe" /\ RobotAnswers("accepted") /\ serving' = TRUE
     \/ Head(wire).run = "subscribe" /\ RobotAnswers("refused") /\ UNCHANGED serving
     \/ Head(wire).run = "unsubscribe" /\ RobotAnswers("unsubscribed") /\ serving' = FALSE
  /\ UNCHANGED <<careful, handleVars, slotVars, queue, inflight, ids, conn, losses, stale>>

SocketEnds ==
  /\ conn = "Ready" /\ losses < MaxLosses /\ conn' = "Dead"
  /\ wire' = <<>> /\ serving' = FALSE
  /\ UNCHANGED <<careful, handleVars, slotVars, queue, inflight, ids, losses, back, stale>>
Lose ==
  /\ conn \in {"Ready", "Restoring", "Dead"} /\ (conn = "Dead" \/ losses < MaxLosses)
  /\ OnTransportClose(active)
  /\ UNCHANGED <<careful, user_closed, unsubscribe_sent, active, foreign, untold, queue, ids>>
Restore ==
  /\ conn = "Down"
  /\ IF active = None THEN conn' = "Ready" /\ UNCHANGED <<state, wire>>
     ELSE /\ conn' = "Restoring" /\ SetState(active, "Pending")
          /\ wire' = <<Task("subscribe", active, 0)>>
  /\ UNCHANGED <<careful, handleVars, unsubscribe_sent, active, foreign, untold, queue, inflight,
                 ids, losses, back, serving, stale>>

(* AbortToFatal: the connection is not made again.                         *)
AbortToFatal ==
  /\ conn # "Fatal" /\ conn' = "Fatal"
  /\ IF active = None THEN UNCHANGED <<state, active, foreign>> ELSE Erase(active)
  /\ Return({c.handle : c \in inflight}, "Disconnected") /\ inflight' = {}
  /\ wire' = <<>> /\ back' = <<>> /\ serving' = FALSE
  /\ UNCHANGED <<careful, user_closed, unsubscribe_sent, untold, queue, ids, losses, stale>>

-----------------------------------------------------------------------------
Init ==
  /\ careful \in BOOLEAN
  /\ obj = [h \in Handles |-> "none"] /\ state = [h \in Handles |-> "Pending"]
  /\ user_closed = [h \in Handles |-> FALSE] /\ unsubscribe_sent = [h \in Handles |-> FALSE]
  /\ result = [h \in Handles |-> "none"]
  /\ active = None /\ queue = <<>> /\ inflight = {} /\ ids = 0
  /\ conn = "Ready" /\ losses = 0 /\ wire = <<>> /\ back = <<>> /\ serving = FALSE
  /\ foreign = {} /\ stale = {} /\ untold = FALSE

Control ==
  \/ HandleSubscribe \/ HandleDrop \/ HandleUnsubscribe \/ UnsubscribeSendFails
  \/ UnsubscribeTimesOut \/ HandleSubscribeAck \/ HandleUnsubscribeReply
Next ==
  \/ \E h \in Handles : Subscribe(h) \/ Unsubscribe(h) \/ Destroy(h)
  \/ Control \/ RobotHandles \/ SocketEnds \/ Lose \/ Restore \/ AbortToFatal

Spec == Init /\ [][Next]_vars

-----------------------------------------------------------------------------
(* Properties.                                                             *)

Tasks(runs) == Seq([run : runs, handle : Handles, id : Nat])
Posted == Tasks({"subscribe", "drop", "unsubscribe"})
Requests == Tasks({"subscribe", "unsubscribe"})
Replies == Tasks({"accepted", "refused", "unsubscribed"})
UnsubscribeCalls == [handle : Handles, id : Nat]
Objects == {"none", "held", "calling", "destroyed"}
SubscriptionState == {"Pending", "Active", "Paused", "Closed"}
Returned == {"Ok", "Refused", "Disconnected", "Timeout", "TransportFailure"}

FlagsType ==
  /\ careful \in BOOLEAN /\ serving \in BOOLEAN /\ untold \in BOOLEAN
  /\ user_closed \in [Handles -> BOOLEAN] /\ unsubscribe_sent \in [Handles -> BOOLEAN]

(* Every variable has its type.                                            *)
HandlesType ==
  /\ FlagsType /\ obj \in [Handles -> Objects] /\ state \in [Handles -> SubscriptionState]
  /\ result \in [Handles -> Returned \cup {"none"}] /\ active \in Handles \cup {None}
  /\ queue \in Posted /\ wire \in Requests /\ back \in Replies
  /\ inflight \subseteq UnsubscribeCalls /\ ids \in Nat
  /\ conn \in {"Ready", "Dead", "Down", "Restoring", "Fatal"} /\ losses \in Nat
  /\ foreign \subseteq Handles /\ stale \subseteq Handles

(* The subscription of a handle that was destroyed ends: either it is not  *)
(* in the map, or a handler that takes it out is queued, behind which it   *)
(* cannot enter again, also when the destructor overtook the subscription. *)
NoOrphan ==
  \A h \in Handles : obj[h] = "destroyed" /\ active = h =>
    \E i \in 1 .. Len(queue) : queue[i].run = "drop"

(* A handle that reads Closed, on which the destructor relies when it does *)
(* not unsubscribe, or whose Unsubscribe returned Ok is out of the map for *)
(* good, whatever is still queued or on its way for its topic.             *)
EndedIsOff == \A h \in Handles : state[h] = "Closed" \/ result[h] = "Ok" => active # h

(* A user who ends a subscription, by Unsubscribe that returned Ok or by   *)
(* destroying the handle, before the next one of that topic never loses    *)
(* one to a late drop or a late reply for another.                         *)
OwnSlotOnly == careful => foreign = {}

(* For such a user the robot stops sending once the subscription is gone   *)
(* and all messages are handled, but for the two cases in untold: dropped  *)
(* while it was being restored, or after an Unsubscribe that timed out and *)
(* a new connection.                                                       *)
RobotTold ==
  careful /\ active = None /\ wire = <<>> /\ conn \in {"Ready", "Restoring"} /\ serving => untold
=============================================================================

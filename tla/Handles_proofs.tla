---------------------------- MODULE Handles_proofs ----------------------------
(***************************************************************************)
(* For any number of handles of a topic, of calls and of lost connections: *)
(* handles end for good, whether or not the user is careful; and of a user *)
(* who ends one subscription before making the next, no handle takes down  *)
(* the slot of another, and the robot is told of every end it has to know. *)
(***************************************************************************)
EXTENDS Handles, SequenceTheorems, TLAPS

(* What a queue q of handlers or messages holds: something for handle h;   *)
(* the subscription of h; a drop.                                          *)
For(q, h) == \E i \in 1 .. Len(q) : q[i].handle = h
Waits(q, h) == \E i \in 1 .. Len(q) : q[i].run = "subscribe" /\ q[i].handle = h
Drops(q) == \E i \in 1 .. Len(q) : q[i].run = "drop"

(* The subscription of a handle comes before all else that names it.       *)
SubscribedFirst(q) ==
  \A i, j \in 1 .. Len(q) : q[i].run = "subscribe" /\ q[j].handle = q[i].handle => i <= j

Kinds == {"subscribe", "drop", "unsubscribe", "accepted", "refused", "unsubscribed"}
AnyTask == [run : Kinds, handle : Handles, id : Nat]

(* A message is added to a queue.                                          *)
LEMMA AppendOps ==
  ASSUME NEW q \in Seq(AnyTask), NEW e \in AnyTask
  PROVE  /\ \A h : For(Append(q, e), h) <=> For(q, h) \/ e.handle = h
         /\ \A h : Waits(Append(q, e), h) <=> Waits(q, h) \/ (e.run = "subscribe" /\ e.handle = h)
         /\ Drops(Append(q, e)) <=> Drops(q) \/ e.run = "drop"
         /\ SubscribedFirst(q) /\ (e.run = "subscribe" => ~For(q, e.handle))
              => SubscribedFirst(Append(q, e))
<1> DEFINE a == Append(q, e)
           n == Len(q)
<1>1. n \in Nat /\ Len(a) = n + 1 /\ a[n + 1] = e /\ \A i \in 1 .. n : a[i] = q[i]
  OBVIOUS
<1> HIDE DEF a
<1>2. 1 .. Len(a) = (1 .. n) \cup {n + 1}
  BY <1>1
<1>3. \A h : For(a, h) <=> For(q, h) \/ e.handle = h
  BY <1>1, <1>2 DEF For
<1>4. \A h : Waits(a, h) <=> Waits(q, h) \/ (e.run = "subscribe" /\ e.handle = h)
  BY <1>1, <1>2 DEF Waits
<1>5. Drops(a) <=> Drops(q) \/ e.run = "drop"
  BY <1>1, <1>2 DEF Drops
<1>6. SubscribedFirst(q) /\ (e.run = "subscribe" => ~For(q, e.handle)) => SubscribedFirst(a)
  BY <1>1, <1>2 DEF SubscribedFirst, For
<1> QED
  BY <1>3, <1>4, <1>5, <1>6 DEF a

(* The first one is taken.                                                 *)
LEMMA TailOps ==
  ASSUME NEW q \in Seq(AnyTask), q # <<>>
  PROVE  /\ Head(q) \in AnyTask /\ For(q, Head(q).handle)
         /\ Head(q).run = "subscribe" => Waits(q, Head(q).handle)
         /\ \A h : For(Tail(q), h) => For(q, h)
         /\ \A h : Waits(Tail(q), h) => Waits(q, h)
         /\ Drops(q) /\ Head(q).run # "drop" => Drops(Tail(q))
         /\ SubscribedFirst(q) =>
              SubscribedFirst(Tail(q)) /\ ~Waits(Tail(q), Head(q).handle)
<1> DEFINE t == Tail(q)
           n == Len(q)
<1>1. /\ n \in Nat /\ n >= 1 /\ Len(t) = n - 1 /\ Head(q) = q[1] /\ q[1] \in AnyTask
      /\ \A i \in 1 .. n - 1 : t[i] = q[i + 1]
  OBVIOUS
<1> HIDE DEF t
<1>2. For(q, Head(q).handle) /\ (Head(q).run = "subscribe" => Waits(q, Head(q).handle))
  BY <1>1 DEF For, Waits
<1>3. \A i \in 1 .. Len(t) : i + 1 \in 1 .. n /\ t[i] = q[i + 1]
  BY <1>1
<1>4. \A h : For(t, h) => For(q, h)
  BY <1>3 DEF For
<1>5. \A h : Waits(t, h) => Waits(q, h)
  BY <1>3 DEF Waits
<1>6. ASSUME Drops(q), Head(q).run # "drop" PROVE Drops(t)
  <2>1. PICK i \in 1 .. n : q[i].run = "drop"
    BY <1>6 DEF Drops
  <2>2. i - 1 \in 1 .. Len(t) /\ t[i - 1] = q[i]
    BY <2>1, <1>1, <1>6
  <2> QED BY <2>1, <2>2 DEF Drops
<1>7. ASSUME SubscribedFirst(q) PROVE SubscribedFirst(t) /\ ~Waits(t, Head(q).handle)
  <2>1. ASSUME NEW i \in 1 .. Len(t), NEW j \in 1 .. Len(t),
               t[i].run = "subscribe", t[j].handle = t[i].handle
        PROVE  i <= j
    <3>1. i + 1 <= j + 1
      BY <2>1, <1>3, <1>7 DEF SubscribedFirst
    <3> QED BY <3>1
  <2>2. ASSUME NEW i \in 1 .. Len(t), t[i].run = "subscribe", t[i].handle = Head(q).handle
        PROVE  FALSE
    <3>1. i + 1 <= 1
      BY <2>2, <1>1, <1>3, <1>7 DEF SubscribedFirst
    <3> QED BY <3>1
  <2> QED BY <2>1, <2>2 DEF SubscribedFirst, Waits
<1> QED
  BY <1>1, <1>2, <1>4, <1>5, <1>6, <1>7 DEF t

(* Nothing is in the empty queue.                                          *)
LEMMA EmptyOps == \A h : ~For(<<>>, h)
  BY DEF For

-----------------------------------------------------------------------------
(* Types.                                                                  *)

(* A sequence of messages of some kinds is one of messages.                *)
LEMMA QueueTypes == Posted \cup Requests \cup Replies \subseteq Seq(AnyTask)
<1>1. ASSUME NEW ks, ks \subseteq Kinds, NEW q \in Tasks(ks) PROVE q \in Seq(AnyTask)
  <2>1. [run : ks, handle : Handles, id : Nat] \subseteq AnyTask
    BY <1>1 DEF AnyTask
  <2> QED BY <2>1, SeqMonotonic DEF Tasks
<1>2. \A ks : ks \subseteq Kinds => Tasks(ks) \subseteq Seq(AnyTask)
  BY <1>1
<1> QED
  <2>1. /\ {"subscribe", "drop", "unsubscribe"} \subseteq Kinds
        /\ {"subscribe", "unsubscribe"} \subseteq Kinds
        /\ {"accepted", "refused", "unsubscribed"} \subseteq Kinds
    BY DEF Kinds
  <2> QED BY <1>2, <2>1 DEF Posted, Requests, Replies

(* A sequence of messages of the kinds ks stays one when a message is      *)
(* added to it or taken from it.                                           *)
LEMMA TypeOps ==
  ASSUME NEW ks, NEW q \in Tasks(ks)
  PROVE  /\ \A k \in ks, h \in Handles, n \in Nat : Append(q, Task(k, h, n)) \in Tasks(ks)
         /\ q # <<>> =>
              /\ Tail(q) \in Tasks(ks) /\ Head(q).run \in ks
              /\ Head(q).handle \in Handles /\ Head(q).id \in Nat
              /\ \A k : [Head(q) EXCEPT !.run = k] = Task(k, Head(q).handle, Head(q).id)
<1> DEFINE T == [run : ks, handle : Handles, id : Nat]
<1>1. q \in Seq(T)
  BY DEF Tasks
<1>2. \A k \in ks, h \in Handles, n \in Nat : Task(k, h, n) \in T
  BY DEF Task
<1>4. \A e \in T : /\ e.run \in ks /\ e.handle \in Handles /\ e.id \in Nat
                    /\ \A k : [e EXCEPT !.run = k] = Task(k, e.handle, e.id)
  BY DEF Task
<1> HIDE DEF T
<1>3. q # <<>> => Head(q) \in T /\ Tail(q) \in Seq(T)
  BY <1>1
<1>5. \A e \in T : Append(q, e) \in Seq(T)
  BY <1>1
<1> QED
  BY <1>2, <1>3, <1>4, <1>5 DEF Tasks, T

LEMMA PostedOps ==
  ASSUME HandlesType
  PROVE  /\ \A k \in {"subscribe", "drop", "unsubscribe"}, h \in Handles, n \in Nat :
              Append(queue, Task(k, h, n)) \in Posted
         /\ queue # <<>> =>
              /\ Tail(queue) \in Posted
              /\ Head(queue).handle \in Handles /\ Head(queue).id \in Nat
  BY TypeOps DEF HandlesType, Posted

LEMMA RequestOps ==
  ASSUME HandlesType
  PROVE  /\ \A k \in {"subscribe", "unsubscribe"}, h \in Handles, n \in Nat :
              Append(wire, Task(k, h, n)) \in Requests
         /\ wire # <<>> =>
              /\ Tail(wire) \in Requests
              /\ Head(wire).handle \in Handles /\ Head(wire).id \in Nat
              /\ \A k : [Head(wire) EXCEPT !.run = k] = Task(k, Head(wire).handle, Head(wire).id)
  BY TypeOps DEF HandlesType, Requests

LEMMA ReplyOps ==
  ASSUME HandlesType
  PROVE  /\ \A k \in {"accepted", "refused", "unsubscribed"}, h \in Handles, n \in Nat :
              Append(back, Task(k, h, n)) \in Replies
         /\ back # <<>> =>
              /\ Tail(back) \in Replies /\ Head(back).run \in {"accepted", "refused", "unsubscribed"}
              /\ Head(back).handle \in Handles /\ Head(back).id \in Nat
  BY TypeOps DEF HandlesType, Replies

(* Nothing, and the request Restore sends.                                 *)
LEMMA ShortQueues ==
  /\ <<>> \in Posted /\ <<>> \in Requests /\ <<>> \in Replies
  /\ \A h \in Handles : <<Task("subscribe", h, 0)>> \in Requests
  BY DEF Posted, Requests, Replies, Tasks, Task

(* The shared effects keep the types.                                      *)
LEMMA EffectTypes ==
  ASSUME HandlesType
  PROVE  /\ \A hs : \A r \in Returned : Return(hs, r) =>
              obj' \in [Handles -> Objects] /\ result' \in [Handles -> Returned \cup {"none"}]
         /\ \A by : active # None /\ Erase(by) =>
              state' \in [Handles -> SubscriptionState] /\ active' = None /\ foreign' \subseteq Handles
  BY DEF HandlesType, Return, Erase, SetState, Objects, SubscriptionState

(* A lost connection keeps the types, whichever slot waits for it.         *)
LEMMA LossTypes ==
  ASSUME HandlesType, NEW slot, OnTransportClose(slot), active' \in Handles \cup {None},
         queue' \in Posted, FlagsType', UNCHANGED <<ids, foreign>>
  PROVE  HandlesType'
<1>1. obj' \in [Handles -> Objects] /\ result' \in [Handles -> Returned \cup {"none"}]
  BY EffectTypes DEF OnTransportClose, Returned
<1>2. state' \in [Handles -> SubscriptionState]
  BY DEF OnTransportClose, HandlesType, SubscriptionState
<1> QED
  BY <1>1, <1>2, ShortQueues DEF OnTransportClose, HandlesType

(* The flags stay flags.                                                   *)
LEMMA FlagsStep == FlagsType /\ [Next]_vars => FlagsType'
<1> SUFFICES ASSUME FlagsType, [Next]_vars PROVE FlagsType'
  OBVIOUS
<1> USE DEF FlagsType, handleVars, slotVars, linkVars
<1>1. ASSUME NEW h \in Handles, Subscribe(h) \/ Unsubscribe(h) \/ Destroy(h) PROVE FlagsType'
  BY <1>1, Zenon DEF Subscribe, Unsubscribe, Destroy
<1>2. CASE HandleSubscribe
  BY <1>2, Zenon DEF HandleSubscribe, Dequeue, OnTransportClose
<1>3. CASE HandleDrop
  BY <1>3, Zenon DEF HandleDrop, Dequeue, Tell, Untold
<1>4. CASE HandleUnsubscribe
  BY <1>4, Zenon DEF HandleUnsubscribe, Dequeue, Untold
<1>5. CASE UnsubscribeTimesOut \/ HandleSubscribeAck \/ HandleUnsubscribeReply
  BY <1>5, Zenon DEF UnsubscribeTimesOut, HandleSubscribeAck, HandleUnsubscribeReply
<1>6. CASE RobotHandles \/ SocketEnds
  BY <1>6, Zenon DEF RobotHandles, SocketEnds
<1>7. CASE Lose \/ Restore \/ AbortToFatal
  BY <1>7, Zenon DEF Lose, OnTransportClose, Restore, AbortToFatal
<1>8. CASE UNCHANGED vars
  BY <1>8, Zenon DEF vars
<1>9. CASE UnsubscribeSendFails
  BY <1>9, Zenon DEF UnsubscribeSendFails, Dequeue
<1> QED
  BY <1>1, <1>2, <1>3, <1>4, <1>5, <1>6, <1>7, <1>8, <1>9 DEF Next, Control

LEMMA TypeStep == HandlesType /\ [Next]_vars => HandlesType'
<1> SUFFICES ASSUME HandlesType, [Next]_vars PROVE HandlesType'
  OBVIOUS
<1> USE HandlesAssumption DEF Objects, SubscriptionState, Returned
<1>f. FlagsType'
  BY FlagsStep DEF HandlesType
<1>q. queue \in Posted /\ \A k \in {"subscribe", "drop", "unsubscribe"}, h \in Handles, n \in Nat :
        Append(queue, Task(k, h, n)) \in Posted
  BY PostedOps DEF HandlesType
<1>w. wire \in Requests /\ \A k \in {"subscribe", "unsubscribe"}, h \in Handles, n \in Nat :
        Append(wire, Task(k, h, n)) \in Requests
  BY RequestOps DEF HandlesType
<1>1. ASSUME NEW h \in Handles, Subscribe(h) PROVE HandlesType'
  BY <1>f, <1>1, PostedOps DEF HandlesType, Subscribe, slotVars, linkVars
<1>2. ASSUME NEW h \in Handles, Unsubscribe(h) PROVE HandlesType'
  BY <1>f, <1>2, PostedOps DEF HandlesType, Unsubscribe, slotVars, linkVars
<1>3. ASSUME NEW h \in Handles, Destroy(h) PROVE HandlesType'
  <2>1. queue' = queue \/ queue' = Append(queue, Task("drop", h, 0))
    BY <1>3 DEF Destroy, Drop
  <2>2. queue' \in Posted
    BY <2>1, <1>q
  <2> QED
    BY <1>f, <1>3, <2>2 DEF HandlesType, Destroy, slotVars, linkVars
<1>4. CASE HandleSubscribe
  <2> DEFINE h == Head(queue).handle
  <2>1. h \in Handles /\ queue' \in Posted
    BY <1>f, <1>4, PostedOps DEF HandleSubscribe, Dequeue
  <2>2. CASE user_closed[h] \/ active # None
    BY <1>f, <1>4, <2>1, <2>2 DEF HandleSubscribe, Dequeue, SetState, HandlesType, linkVars
  <2>3. CASE ~user_closed[h] /\ active = None /\ conn = "Dead"
    <3>1. active' = h /\ OnTransportClose(h)
      BY <1>f, <1>4, <2>3 DEF HandleSubscribe
    <3> QED
      BY <1>f, <1>4, <2>1, <3>1, LossTypes DEF HandleSubscribe, Dequeue
  <2>4. CASE ~user_closed[h] /\ active = None /\ conn # "Dead"
    <3>0. wire' = wire \/ wire' = Append(wire, Task("subscribe", h, 0))
      BY <1>4, <2>4 DEF HandleSubscribe
    <3>1. wire' \in Requests
      BY <2>1, <3>0, <1>w
    <3> QED
      BY <1>f, <1>4, <2>1, <2>4, <3>1 DEF HandleSubscribe, Dequeue, HandlesType
  <2> QED BY <2>2, <2>3, <2>4
<1>5. CASE HandleDrop
  <2>1. queue' \in Posted
    BY <1>f, <1>5, PostedOps DEF HandleDrop, Dequeue
  <2>2. CASE active = None
    BY <1>f, <1>5, <2>1, <2>2 DEF HandleDrop, Dequeue, HandlesType, slotVars
  <2>3. CASE active # None
    <3>1. active \in Handles /\ Tell /\ Erase(Head(queue).handle) /\ untold' = Untold
      BY <1>f, <1>5, <2>3 DEF HandleDrop, HandlesType
    <3>0. wire' = wire \/ wire' = Append(wire, Task("unsubscribe", active, 0))
      BY <3>1 DEF Tell
    <3>2. wire' \in Requests
      BY <3>0, <3>1, <1>w
    <3> QED
      BY <1>f, <1>5, <2>1, <2>3, <3>1, <3>2, EffectTypes DEF HandleDrop, Dequeue, HandlesType, Untold
  <2> QED BY <2>2, <2>3
<1>6. CASE HandleUnsubscribe
  <2> DEFINE h == Head(queue).handle
             id == Head(queue).id
  <2>1. /\ h \in Handles /\ id \in Nat
        /\ queue' \in Posted
    BY <1>f, <1>6, PostedOps DEF HandleUnsubscribe, Dequeue
  <2>2. CASE active = None
    BY <1>f, <1>6, <2>1, <2>2, EffectTypes DEF HandleUnsubscribe, Dequeue, HandlesType, slotVars
  <2>3. CASE active # None /\ conn # "Ready"
    BY <1>f, <1>6, <2>1, <2>3, EffectTypes DEF HandleUnsubscribe, Dequeue, HandlesType, Untold
  <2>4. CASE active # None /\ conn = "Ready"
    <3>0. /\ wire' = Append(wire, Task("unsubscribe", h, id))
          /\ inflight' = inflight \cup {[handle |-> h, id |-> id]}
      BY <1>6, <2>4 DEF HandleUnsubscribe
    <3>1. wire' \in Requests /\ inflight' \subseteq UnsubscribeCalls
      BY <2>1, <3>0, <1>w DEF HandlesType, UnsubscribeCalls
    <3> QED
      BY <1>f, <1>6, <2>1, <2>4, <3>1 DEF HandleUnsubscribe, Dequeue, HandlesType
  <2> QED BY <2>2, <2>3, <2>4
<1>7. CASE UnsubscribeTimesOut
  BY <1>f, <1>7, EffectTypes DEF UnsubscribeTimesOut, HandlesType, slotVars, linkVars
<1>8. CASE HandleSubscribeAck
  <2>1. CASE Head(back).handle # active \/ state[Head(back).handle] # "Pending"
    BY <1>f, <1>8, ReplyOps, <2>1 DEF HandleSubscribeAck, Reply, HandlesType, handleVars, slotVars
  <2>2. CASE ~(Head(back).handle # active \/ state[Head(back).handle] # "Pending")
    <3>1. active # None
      BY <1>f, <1>8, ReplyOps, <2>2 DEF HandleSubscribeAck, Reply
    <3>2. CASE Head(back).run = "accepted"
      BY <1>f, <1>8, ReplyOps, <2>2, <3>1, <3>2 DEF HandleSubscribeAck, Reply, HandlesType, handleVars, SetState
    <3>3. CASE Head(back).run # "accepted"
      BY <1>f, <1>8, ReplyOps, <2>2, <3>1, <3>3, EffectTypes
      DEF HandleSubscribeAck, Reply, HandlesType, handleVars
    <3> QED BY <3>2, <3>3
  <2> QED BY <2>1, <2>2
<1>9. CASE HandleUnsubscribeReply
  <2>1. CASE {c \in inflight : c.id = Head(back).id} = {}
    BY <1>f, <1>9, ReplyOps, <2>1 DEF HandleUnsubscribeReply, Reply, HandlesType
  <2>2. CASE {c \in inflight : c.id = Head(back).id} # {}
    BY <1>f, <1>9, ReplyOps, <2>2, EffectTypes DEF HandleUnsubscribeReply, Reply, ReplyErases, HandlesType
  <2> QED BY <2>1, <2>2
<1>10. CASE RobotHandles
  <2>0. /\ wire # <<>> /\ wire' = Tail(wire)
        /\ \E k \in {"accepted", "refused", "unsubscribed"} :
             back' = Append(back, [Head(wire) EXCEPT !.run = k])
    BY <1>10 DEF RobotHandles, RobotAnswers
  <2>1. wire' \in Requests /\ back' \in Replies
    BY <2>0, RequestOps, ReplyOps
  <2> QED
    BY <1>f, <1>10, <2>1 DEF RobotHandles, HandlesType, handleVars, slotVars
<1>11. CASE SocketEnds
  BY <1>f, <1>11, ShortQueues DEF SocketEnds, HandlesType, handleVars, slotVars
<1>12. CASE Lose
  BY <1>f, <1>12, LossTypes DEF Lose, HandlesType
<1>13. CASE Restore
  BY <1>f, <1>13, ShortQueues DEF Restore, HandlesType, handleVars, SetState, SubscriptionState
<1>14. CASE AbortToFatal
  BY <1>f, <1>14, EffectTypes, ShortQueues DEF AbortToFatal, HandlesType, Returned
<1>15. CASE UNCHANGED vars
  BY <1>f, <1>15 DEF vars, handleVars, slotVars, linkVars, HandlesType
<1>16. CASE UnsubscribeSendFails
  <2>1. queue' \in Posted
    BY <1>16, PostedOps DEF UnsubscribeSendFails, Dequeue
  <2> QED
    BY <1>f, <1>16, <2>1, EffectTypes DEF UnsubscribeSendFails, Dequeue, HandlesType, slotVars, linkVars
<1> QED
  BY <1>1, <1>2, <1>3, <1>4, <1>5, <1>6, <1>7, <1>8, <1>9, <1>10, <1>11, <1>12, <1>13, <1>14, <1>15, <1>16
  DEF Next, Control

(* The type invariant, for any number of handles, calls and losses.        *)
THEOREM HandlesTypeCorrect == Spec => []HandlesType
<1>1. Init => HandlesType
  <2>1. Init => FlagsType
    BY Zenon DEF Init, FlagsType
  <2> QED BY <2>1, ShortQueues DEF Init, HandlesType, Objects, SubscriptionState
<1> QED
  BY <1>1, TypeStep, PTL DEF Spec

-----------------------------------------------------------------------------
(* Handles that ended.                                                     *)

(* A request, a reply or a call for the handle is under way.               *)
SentFor(h) == For(wire, h) \/ For(back, h) \/ \E c \in inflight : c.handle = h

(* Nothing has happened to its slot yet.                                   *)
Fresh(h) == state[h] = "Pending" /\ active # h /\ result[h] # "Ok" /\ ~SentFor(h)

(* Why an ended handle does not enter the map again: it is subscribed once,*)
(* and all else that names it comes after its subscription was handled.    *)
HandlesInv ==
  /\ SubscribedFirst(queue)
  /\ \A h \in Handles : Waits(queue, h) => Fresh(h)
  /\ \A h \in Handles : obj[h] = "none" => Fresh(h) /\ ~For(queue, h)
  /\ \A h \in Handles : obj[h] = "destroyed" => user_closed[h]
  /\ \A h \in Handles : state[h] = "Closed" \/ result[h] = "Ok" => active # h
  /\ \A h \in Handles : obj[h] = "destroyed" /\ active = h => Drops(queue)

(* Every step of the user, the control thread, the robot and the           *)
(* connection keeps it.                                                    *)
LEMMA InvStep == HandlesType /\ HandlesInv /\ [Next]_vars => HandlesInv'
<1> SUFFICES ASSUME HandlesType, HandlesInv, [Next]_vars PROVE HandlesInv'
  OBVIOUS
<1> USE HandlesAssumption
<1>t. queue \in Seq(AnyTask) /\ wire \in Seq(AnyTask) /\ back \in Seq(AnyTask)
  BY QueueTypes DEF HandlesType
<1>k. \A k \in Kinds, h \in Handles, n \in Nat :
        Task(k, h, n) \in AnyTask /\ Task(k, h, n).run = k /\ Task(k, h, n).handle = h
  BY DEF AnyTask, Task
<1>a. \A k \in Kinds, g \in Handles, n \in Nat :
        LET q == Append(queue, Task(k, g, n)) IN
        /\ \A h : For(q, h) <=> For(queue, h) \/ g = h
        /\ \A h : Waits(q, h) <=> Waits(queue, h) \/ (k = "subscribe" /\ g = h)
        /\ Drops(q) <=> Drops(queue) \/ k = "drop"
        /\ (k = "subscribe" => ~For(queue, g)) => SubscribedFirst(q)
  BY <1>t, <1>k, AppendOps DEF HandlesInv
<1>w. \A k \in Kinds, g \in Handles, n \in Nat : \A h :
        For(Append(wire, Task(k, g, n)), h) <=> For(wire, h) \/ g = h
  BY <1>t, <1>k, AppendOps
<1>d. queue # <<>> =>
        /\ Head(queue).handle \in Handles /\ For(queue, Head(queue).handle)
        /\ Head(queue).run = "subscribe" => Waits(queue, Head(queue).handle)
        /\ \A h : For(Tail(queue), h) => For(queue, h)
        /\ \A h : Waits(Tail(queue), h) => Waits(queue, h)
        /\ Drops(queue) /\ Head(queue).run # "drop" => Drops(Tail(queue))
        /\ SubscribedFirst(Tail(queue)) /\ ~Waits(Tail(queue), Head(queue).handle)
  BY <1>t, TailOps, PostedOps DEF HandlesInv
<1>r. back # <<>> => /\ Head(back).handle \in Handles /\ For(back, Head(back).handle)
                     /\ \A h : For(Tail(back), h) => For(back, h)
  BY <1>t, TailOps, ReplyOps
<1>e. \A h : ~For(<<>>, h)
  BY EmptyOps
<1>1. ASSUME NEW h \in Handles, Subscribe(h) PROVE HandlesInv'
  <2>1. queue' = Append(queue, Task("subscribe", h, 0)) /\ obj[h] = "none"
    BY <1>1 DEF Subscribe
  <2> QED
    BY <1>1, <1>a, <2>1
    DEF Subscribe, HandlesInv, HandlesType, Fresh, SentFor, slotVars, linkVars, Kinds
<1>2. ASSUME NEW h \in Handles, Unsubscribe(h) PROVE HandlesInv'
  <2>1. queue' = Append(queue, Task("unsubscribe", h, ids + 1)) /\ ids + 1 \in Nat
    BY <1>2 DEF Unsubscribe, HandlesType
  <2> QED
    BY <1>2, <1>a, <2>1
    DEF Unsubscribe, HandlesInv, HandlesType, Fresh, SentFor, slotVars, linkVars, Kinds
<1>3. ASSUME NEW h \in Handles, Destroy(h) PROVE HandlesInv'
  <2>1. IF state[h] # "Closed" THEN queue' = Append(queue, Task("drop", h, 0)) ELSE queue' = queue
    BY <1>3 DEF Destroy, Drop
  <2>2. \A g \in Handles : user_closed[g] => user_closed'[g]
    BY <1>3 DEF Destroy, HandlesType, FlagsType
  <2>3. user_closed'[h]
    BY <1>3 DEF Destroy, HandlesType, FlagsType
  <2>4. /\ obj[h] = "held" /\ obj' = [obj EXCEPT ![h] = "destroyed"]
        /\ UNCHANGED <<result, state, active, inflight, wire, back>>
    BY <1>3 DEF Destroy, slotVars, linkVars
  <2>5. /\ \A g : For(queue', g) => For(queue, g) \/ g = h
        /\ \A g : Waits(queue', g) => Waits(queue, g)
        /\ Drops(queue) \/ state[h] # "Closed" => Drops(queue')
        /\ SubscribedFirst(queue')
    <3>1. LET q == Append(queue, Task("drop", h, 0)) IN
          /\ \A g : For(q, g) <=> For(queue, g) \/ h = g
          /\ \A g : Waits(q, g) <=> Waits(queue, g)
          /\ Drops(q) /\ SubscribedFirst(q)
      BY <1>a DEF Kinds
    <3> QED BY <2>1, <3>1 DEF HandlesInv
  <2> QED
    BY <2>2, <2>3, <2>4, <2>5 DEF HandlesInv, HandlesType, Fresh, SentFor
<1>4. CASE HandleSubscribe
  <2> DEFINE h == Head(queue).handle
  <2>1. /\ h \in Handles /\ Waits(queue, h) /\ queue' = Tail(queue) /\ Head(queue).run = "subscribe"
        /\ queue # <<>> /\ UNCHANGED user_closed
    BY <1>4, <1>d DEF HandleSubscribe, Dequeue
  <2> HIDE DEF h
  <2>2. CASE user_closed[h] \/ active # None
    <3>1. state' = [state EXCEPT ![h] = "Closed"] /\ UNCHANGED <<obj, result, active, inflight, wire, back>>
      BY <1>4, <2>2 DEF HandleSubscribe, SetState, linkVars, h
    <3> QED
      BY <1>d, <2>1, <3>1 DEF HandlesInv, HandlesType, Fresh, SentFor, h
  <2>3. CASE ~(user_closed[h] \/ active # None) /\ conn = "Dead"
    <3>1. /\ active' = h /\ state' = [g \in Handles |-> IF g = h THEN "Paused" ELSE state[g]]
          /\ inflight' = {} /\ wire' = <<>> /\ back' = <<>>
          /\ Return({c.handle : c \in inflight}, "TransportFailure")
      BY <1>4, <2>3 DEF HandleSubscribe, OnTransportClose, h
    <3>2. \A g \in Handles : /\ obj'[g] \in {obj[g], "held"}
                              /\ result'[g] \in {result[g], "TransportFailure"}
      BY <3>1 DEF Return
    <3> QED
      BY <1>d, <1>e, <2>1, <2>3, <3>1, <3>2 DEF HandlesInv, HandlesType, Fresh, SentFor, h
  <2>4. CASE ~(user_closed[h] \/ active # None) /\ conn # "Dead"
    <3>1. /\ active' = h /\ UNCHANGED <<state, obj, result, inflight, back>>
          /\ wire' = wire \/ wire' = Append(wire, Task("subscribe", h, 0))
      BY <1>4, <2>4 DEF HandleSubscribe, h
    <3>2. \A g : For(wire', g) => For(wire, g) \/ g = h
      <4>1. \A g : For(Append(wire, Task("subscribe", h, 0)), g) <=> For(wire, g) \/ h = g
        BY <1>w, <2>1 DEF Kinds
      <4> QED BY <3>1, <4>1
    <3> QED
      BY <1>d, <2>1, <2>4, <3>1, <3>2 DEF HandlesInv, HandlesType, Fresh, SentFor, h
  <2> QED BY <2>2, <2>3, <2>4
<1>5. CASE HandleDrop
  <2>1. /\ queue' = Tail(queue) /\ queue # <<>> /\ UNCHANGED <<user_closed, obj, result, inflight, back>>
    BY <1>5 DEF HandleDrop, Dequeue
  <2>2. CASE active = None
    <3>1. UNCHANGED <<state, active, wire>>
      BY <1>5, <2>2 DEF HandleDrop, slotVars
    <3> QED
      BY <1>d, <2>1, <2>2, <3>1 DEF HandlesInv, HandlesType, Fresh, SentFor
  <2>3. CASE active # None
    <3>1. /\ active \in Handles /\ active' = None /\ state' = [state EXCEPT ![active] = "Closed"]
          /\ wire' = wire \/ wire' = Append(wire, Task("unsubscribe", active, 0))
      BY <1>5, <2>3 DEF HandleDrop, Tell, Erase, SetState, HandlesType
    <3>2. \A g : For(wire', g) => For(wire, g) \/ g = active
      <4>1. \A g : For(Append(wire, Task("unsubscribe", active, 0)), g) <=> For(wire, g) \/ active = g
        BY <1>w, <3>1 DEF Kinds
      <4> QED BY <3>1, <4>1
    <3> QED
      BY <1>d, <2>1, <2>3, <3>1, <3>2 DEF HandlesInv, HandlesType, Fresh, SentFor
  <2> QED BY <2>2, <2>3
<1>6. CASE HandleUnsubscribe
  <2> DEFINE h == Head(queue).handle
             id == Head(queue).id
  <2>1. /\ h \in Handles /\ id \in Nat /\ For(queue, h) /\ queue' = Tail(queue) /\ queue # <<>>
        /\ ~Waits(Tail(queue), h) /\ Head(queue).run # "drop"
        /\ UNCHANGED <<user_closed, back>>
    BY <1>6, <1>d, PostedOps DEF HandleUnsubscribe, Dequeue
  <2> HIDE DEF h, id
  <2>2. CASE active = None
    <3>1. /\ obj' = [g \in Handles |-> IF g = h THEN "held" ELSE obj[g]]
          /\ result' = [g \in Handles |-> IF g = h THEN "Ok" ELSE result[g]]
          /\ UNCHANGED <<state, active, inflight, wire>>
      BY <1>6, <2>2 DEF HandleUnsubscribe, Return, slotVars, h
    <3> QED
      BY <1>d, <2>1, <2>2, <3>1 DEF HandlesInv, HandlesType, Fresh, SentFor
  <2>3. CASE active # None /\ conn # "Ready"
    <3>1. /\ obj' = [g \in Handles |-> IF g = h THEN "held" ELSE obj[g]]
          /\ result' = [g \in Handles |-> IF g = h THEN "Disconnected" ELSE result[g]]
          /\ active \in Handles /\ active' = None /\ state' = [state EXCEPT ![active] = "Closed"]
          /\ UNCHANGED <<inflight, wire>>
      BY <1>6, <2>3 DEF HandleUnsubscribe, Return, Erase, SetState, HandlesType, h
    <3> QED
      BY <1>d, <2>1, <2>3, <3>1 DEF HandlesInv, HandlesType, Fresh, SentFor
  <2>4. CASE active # None /\ conn = "Ready"
    <3>1. /\ inflight' = inflight \cup {[handle |-> h, id |-> id]}
          /\ wire' = Append(wire, Task("unsubscribe", h, id))
          /\ UNCHANGED <<obj, result, state, active>>
      BY <1>6, <2>4 DEF HandleUnsubscribe, h, id
    <3>2. \A g : SentFor(g)' => SentFor(g) \/ g = h
      BY <1>w, <2>1, <3>1 DEF SentFor, Kinds
    <3> QED
      BY <1>d, <2>1, <3>1, <3>2 DEF HandlesInv, HandlesType, Fresh
  <2> QED BY <2>2, <2>3, <2>4
<1>7. CASE UnsubscribeTimesOut
  <2>1. PICK c \in inflight : Return({c.handle}, "Timeout") /\ inflight' = inflight \ {c}
    BY <1>7 DEF UnsubscribeTimesOut
  <2>2. UNCHANGED <<user_closed, state, active, queue, wire, back>>
    BY <1>7 DEF UnsubscribeTimesOut, slotVars, linkVars
  <2>3. \A g \in Handles : /\ obj'[g] \in {obj[g], "held"}
                            /\ result'[g] \in {result[g], "Timeout"}
    BY <2>1 DEF Return
  <2> QED
    BY <2>1, <2>2, <2>3 DEF HandlesInv, Fresh, SentFor
<1>8. CASE HandleSubscribeAck
  <2> DEFINE h == Head(back).handle
  <2>1. /\ h \in Handles /\ For(back, h) /\ back' = Tail(back) /\ back # <<>>
        /\ UNCHANGED <<user_closed, obj, result, queue, inflight, wire>>
    BY <1>8, <1>r DEF HandleSubscribeAck, Reply, handleVars
  <2>2. \/ UNCHANGED <<state, active>>
        \/ h = active /\ state' = [state EXCEPT ![h] = "Active"] /\ active' = active
        \/ h = active /\ state' = [state EXCEPT ![h] = "Closed"] /\ active' = None
    BY <1>8 DEF HandleSubscribeAck, slotVars, Erase, SetState
  <2> HIDE DEF h
  <2> QED
    BY <1>r, <2>1, <2>2 DEF HandlesInv, HandlesType, Fresh, SentFor
<1>9. CASE HandleUnsubscribeReply
  <2> DEFINE h == Head(back).handle
             calls == {c \in inflight : c.id = Head(back).id}
  <2>1. /\ h \in Handles /\ For(back, h) /\ back' = Tail(back) /\ back # <<>>
        /\ inflight' \subseteq inflight /\ UNCHANGED <<user_closed, queue, wire>>
    BY <1>9, <1>r DEF HandleUnsubscribeReply, Reply
  <2>2. CASE calls = {}
    <3>1. UNCHANGED <<obj, result, state, active>>
      BY <1>9, <2>2 DEF HandleUnsubscribeReply
    <3> QED
      BY <1>r, <2>1, <3>1 DEF HandlesInv, Fresh, SentFor
  <2>3. CASE calls # {}
    <3>1. /\ \E r \in {"Ok", "Refused"} : Return({h}, r)
          /\ IF active = None THEN UNCHANGED <<state, active>>
             ELSE state' = [state EXCEPT ![active] = "Closed"] /\ active' = None
      BY <1>9, <2>3 DEF HandleUnsubscribeReply, ReplyErases, Erase, SetState
    <3> HIDE DEF h
    <3>2. \A g \in Handles : obj'[g] \in {obj[g], "held"} /\ (g # h => result'[g] = result[g])
      BY <3>1 DEF Return
    <3> QED
      BY <1>r, <2>1, <3>1, <3>2 DEF HandlesInv, HandlesType, Fresh, SentFor
  <2> QED BY <2>2, <2>3
<1>10. CASE RobotHandles
  <2>1. /\ wire # <<>> /\ wire' = Tail(wire)
        /\ \E k \in {"accepted", "refused", "unsubscribed"} :
             back' = Append(back, [Head(wire) EXCEPT !.run = k])
        /\ UNCHANGED <<user_closed, obj, result, state, active, queue, inflight>>
    BY <1>10 DEF RobotHandles, RobotAnswers, handleVars, slotVars
  <2>2. \A g : For(wire', g) => For(wire, g)
    BY <1>t, <2>1, TailOps
  <2>3. \A g : For(back', g) => For(back, g) \/ g = Head(wire).handle
    <3>1. PICK k \in {"accepted", "refused", "unsubscribed"} :
            back' = Append(back, Task(k, Head(wire).handle, Head(wire).id))
      BY <2>1, RequestOps
    <3>2. Head(wire).handle \in Handles /\ Head(wire).id \in Nat /\ k \in Kinds
      BY <2>1, RequestOps DEF Kinds
    <3> QED BY <1>t, <1>k, <3>1, <3>2, AppendOps
  <2>4. For(wire, Head(wire).handle)
    BY <1>t, <2>1, TailOps
  <2> QED
    BY <2>1, <2>2, <2>3, <2>4 DEF HandlesInv, Fresh, SentFor
<1>11. CASE SocketEnds
  BY <1>11, <1>e DEF SocketEnds, HandlesInv, Fresh, SentFor, handleVars, slotVars
<1>12. CASE Lose
  <2>1. /\ state' = [g \in Handles |-> IF g = active THEN "Paused" ELSE state[g]]
        /\ inflight' = {} /\ wire' = <<>> /\ back' = <<>>
        /\ Return({c.handle : c \in inflight}, "TransportFailure")
        /\ UNCHANGED <<user_closed, active, queue>>
    BY <1>12 DEF Lose, OnTransportClose
  <2>2. \A g \in Handles : /\ obj'[g] \in {obj[g], "held"}
                            /\ result'[g] \in {result[g], "TransportFailure"}
    BY <2>1 DEF Return
  <2> QED
    BY <1>e, <2>1, <2>2 DEF HandlesInv, Fresh, SentFor
<1>13. CASE Restore
  <2>1. /\ UNCHANGED <<user_closed, obj, result, active, queue, inflight, back>>
        /\ IF active = None THEN UNCHANGED <<state, wire>>
           ELSE /\ state' = [state EXCEPT ![active] = "Pending"]
                /\ wire' = <<Task("subscribe", active, 0)>>
    BY <1>13 DEF Restore, SetState, handleVars
  <2>2. \A h \in Handles : \A g : For(<<Task("subscribe", h, 0)>>, g) => g = h
    BY DEF For, Task
  <2>3. CASE active = None
    BY <2>1, <2>3 DEF HandlesInv, Fresh, SentFor
  <2>4. CASE active # None
    <3>1. active \in Handles
      BY <2>4 DEF HandlesType
    <3> QED
      BY <2>1, <2>2, <2>4, <3>1 DEF HandlesInv, HandlesType, Fresh, SentFor
  <2> QED BY <2>3, <2>4
<1>14. CASE AbortToFatal
  <2>1. /\ IF active = None THEN UNCHANGED <<state, active>>
           ELSE state' = [state EXCEPT ![active] = "Closed"] /\ active' = None
        /\ inflight' = {} /\ wire' = <<>> /\ back' = <<>>
        /\ Return({c.handle : c \in inflight}, "Disconnected")
        /\ UNCHANGED <<user_closed, queue>>
    BY <1>14 DEF AbortToFatal, Erase, SetState
  <2>2. \A g \in Handles : /\ obj'[g] \in {obj[g], "held"}
                            /\ result'[g] \in {result[g], "Disconnected"}
    BY <2>1 DEF Return
  <2> QED
    BY <1>e, <2>1, <2>2 DEF HandlesInv, HandlesType, Fresh, SentFor
<1>15. CASE UNCHANGED vars
  BY <1>15 DEF vars, handleVars, slotVars, linkVars, HandlesInv, Fresh, SentFor
<1>16. CASE UnsubscribeSendFails
  <2>1. /\ queue' = Tail(queue) /\ queue # <<>> /\ Head(queue).run # "drop"
        /\ Return({Head(queue).handle}, "TransportFailure")
        /\ UNCHANGED <<user_closed, state, active, inflight, wire, back>>
    BY <1>16 DEF UnsubscribeSendFails, Dequeue, slotVars, linkVars
  <2>2. \A g \in Handles : /\ obj'[g] \in {obj[g], "held"}
                            /\ result'[g] \in {result[g], "TransportFailure"}
    BY <2>1 DEF Return
  <2> QED
    BY <1>d, <2>1, <2>2 DEF HandlesInv, Fresh, SentFor
<1> QED
  BY <1>1, <1>2, <1>3, <1>4, <1>5, <1>6, <1>7, <1>8, <1>9, <1>10, <1>11, <1>12, <1>13, <1>14, <1>15, <1>16
  DEF Next, Control

(* The invariant holds from the start.                                     *)
LEMMA InvCorrect == Spec => []HandlesInv
<1>1. Init => HandlesInv
  BY HandlesAssumption DEF Init, HandlesInv, SubscribedFirst, Waits, For, Drops, Fresh, SentFor
<1> QED
  BY <1>1, InvStep, HandlesTypeCorrect, PTL DEF Spec

(* A handle whose subscription ended, by whichever of a refusal, a drop, a *)
(* reply and a fatal error, never has a slot in active_subs_ again.        *)
THEOREM EndedStaysOff == Spec => []EndedIsOff
<1>1. HandlesInv => EndedIsOff
  BY DEF HandlesInv, EndedIsOff
<1> QED
  BY <1>1, InvCorrect, PTL

(* The subscription of a destroyed handle is dropped, also when the        *)
(* destructor overtook the handler of Subscribe.                           *)
THEOREM NeverOrphaned == Spec => []NoOrphan
<1>1. HandlesInv => NoOrphan
  BY DEF HandlesInv, NoOrphan, Drops
<1> QED
  BY <1>1, InvCorrect, PTL

-----------------------------------------------------------------------------
(* Calls of Unsubscribe, and whose slot they take down.                    *)

(* The queue q holds a drop or a call of Unsubscribe of handle h; something*)
(* with the number n for it; one call for each handle, all with a number.  *)
DropsOf(q, h) == \E i \in 1 .. Len(q) : q[i].run = "drop" /\ q[i].handle = h
Calls(q, h) == \E i \in 1 .. Len(q) : q[i].run = "unsubscribe" /\ q[i].handle = h
Mentions(q, h, n) == \E i \in 1 .. Len(q) : q[i].handle = h /\ q[i].id = n
OneCall(q) ==
  /\ \A i, j \in 1 .. Len(q) :
       q[i].run = "unsubscribe" /\ q[j].run = "unsubscribe" /\ q[i].handle = q[j].handle => i = j
  /\ \A i \in 1 .. Len(q) : q[i].run = "unsubscribe" => q[i].id # 0

(* In q all that is not for handle h comes after a drop of h; and so it is *)
(* behind every subscription.                                              *)
DroppedFirst(q, h) ==
  \A j \in 1 .. Len(q) : q[j].handle # h =>
    \E k \in 1 .. j - 1 : q[k].run = "drop" /\ q[k].handle = h
Segmented(q) ==
  \A i, j \in 1 .. Len(q) : i < j /\ q[i].run = "subscribe" /\ q[j].handle # q[i].handle =>
    \E k \in i + 1 .. j - 1 : q[k].run = "drop" /\ q[k].handle = q[i].handle

LEMMA AppendCalls ==
  ASSUME NEW q \in Seq(AnyTask), NEW e \in AnyTask
  PROVE  /\ \A h : DropsOf(Append(q, e), h) <=> DropsOf(q, h) \/ (e.run = "drop" /\ e.handle = h)
         /\ \A h : Calls(Append(q, e), h) <=> Calls(q, h) \/ (e.run = "unsubscribe" /\ e.handle = h)
         /\ \A h, n : Mentions(Append(q, e), h, n) <=> Mentions(q, h, n) \/ (e.handle = h /\ e.id = n)
         /\ OneCall(q) /\ (e.run = "unsubscribe" => ~Calls(q, e.handle) /\ e.id # 0)
              => OneCall(Append(q, e))
         /\ \A h : DroppedFirst(q, h) /\ (e.handle = h \/ DropsOf(q, h)) => DroppedFirst(Append(q, e), h)
         /\ Segmented(q) /\ SubscribedFirst(q) /\ (\A g : Waits(q, g) /\ g # e.handle => DropsOf(q, g))
              => Segmented(Append(q, e))
<1> DEFINE a == Append(q, e)
           n == Len(q)
<1>1. n \in Nat /\ Len(a) = n + 1 /\ a[n + 1] = e /\ \A i \in 1 .. n : a[i] = q[i]
  OBVIOUS
<1> HIDE DEF a
<1>2. 1 .. Len(a) = (1 .. n) \cup {n + 1}
  BY <1>1
<1>3. \A h : DropsOf(a, h) <=> DropsOf(q, h) \/ (e.run = "drop" /\ e.handle = h)
  BY <1>1, <1>2 DEF DropsOf
<1>4. \A h : Calls(a, h) <=> Calls(q, h) \/ (e.run = "unsubscribe" /\ e.handle = h)
  BY <1>1, <1>2 DEF Calls
<1>5. \A h, m : Mentions(a, h, m) <=> Mentions(q, h, m) \/ (e.handle = h /\ e.id = m)
  BY <1>1, <1>2 DEF Mentions
<1>6. OneCall(q) /\ (e.run = "unsubscribe" => ~Calls(q, e.handle) /\ e.id # 0) => OneCall(a)
  BY <1>1, <1>2 DEF OneCall, Calls
<1>7. ASSUME NEW h, DroppedFirst(q, h), e.handle = h \/ DropsOf(q, h) PROVE DroppedFirst(a, h)
  <2> SUFFICES ASSUME NEW j \in 1 .. Len(a), a[j].handle # h
               PROVE  \E k \in 1 .. j - 1 : a[k].run = "drop" /\ a[k].handle = h
    BY DEF DroppedFirst
  <2>1. CASE j \in 1 .. n
    <3>1. PICK k \in 1 .. j - 1 : q[k].run = "drop" /\ q[k].handle = h
      BY <1>1, <1>7, <2>1 DEF DroppedFirst
    <3>2. k \in 1 .. n
      BY <1>1, <2>1
    <3> QED BY <1>1, <3>1, <3>2
  <2>2. CASE j = n + 1
    <3>1. PICK k \in 1 .. n : q[k].run = "drop" /\ q[k].handle = h
      BY <1>1, <1>7, <2>2 DEF DropsOf
    <3> QED BY <1>1, <2>2, <3>1
  <2> QED BY <1>2, <2>1, <2>2
<1>8. ASSUME Segmented(q), SubscribedFirst(q), \A g : Waits(q, g) /\ g # e.handle => DropsOf(q, g)
      PROVE  Segmented(a)
  <2> SUFFICES ASSUME NEW i \in 1 .. Len(a), NEW j \in 1 .. Len(a), i < j,
                      a[i].run = "subscribe", a[j].handle # a[i].handle
               PROVE  \E k \in i + 1 .. j - 1 : a[k].run = "drop" /\ a[k].handle = a[i].handle
    BY DEF Segmented
  <2>1. i \in 1 .. n /\ a[i] = q[i]
    BY <1>1
  <2>2. CASE j \in 1 .. n
    <3>1. PICK k \in i + 1 .. j - 1 : q[k].run = "drop" /\ q[k].handle = q[i].handle
      BY <1>1, <1>8, <2>1, <2>2 DEF Segmented
    <3>2. k \in 1 .. n
      BY <1>1, <2>2
    <3> QED BY <1>1, <2>1, <3>1, <3>2
  <2>3. CASE j = n + 1
    <3>1. Waits(q, q[i].handle) /\ q[i].handle # e.handle
      BY <1>1, <2>1, <2>3 DEF Waits
    <3>2. PICK k \in 1 .. n : q[k].run = "drop" /\ q[k].handle = q[i].handle
      BY <1>8, <3>1 DEF DropsOf
    <3>3. i <= k
      BY <1>8, <2>1, <3>2 DEF SubscribedFirst
    <3>4. i # k
      BY <2>1, <3>2
    <3>5. k \in i + 1 .. j - 1
      BY <1>1, <2>1, <2>3, <3>2, <3>3, <3>4
    <3> QED BY <1>1, <2>1, <3>2, <3>5
  <2> QED BY <1>2, <2>2, <2>3
<1> QED
  BY <1>3, <1>4, <1>5, <1>6, <1>7, <1>8 DEF a

LEMMA TailCalls ==
  ASSUME NEW q \in Seq(AnyTask), q # <<>>
  PROVE  /\ Head(q).run = "unsubscribe" => Calls(q, Head(q).handle)
         /\ Mentions(q, Head(q).handle, Head(q).id)
         /\ \A h : DropsOf(q, h) => DropsOf(Tail(q), h) \/ (Head(q).run = "drop" /\ Head(q).handle = h)
         /\ \A h : Waits(q, h) => Waits(Tail(q), h) \/ (Head(q).run = "subscribe" /\ Head(q).handle = h)
         /\ \A h : Calls(Tail(q), h) => Calls(q, h)
         /\ \A h, n : Mentions(Tail(q), h, n) => Mentions(q, h, n)
         /\ OneCall(q) =>
              /\ OneCall(Tail(q))
              /\ Head(q).run = "unsubscribe" => ~Calls(Tail(q), Head(q).handle) /\ Head(q).id # 0
         /\ \A h : DroppedFirst(q, h) =>
              Head(q).handle = h /\ (Head(q).run # "drop" => DroppedFirst(Tail(q), h))
         /\ Segmented(q) =>
              /\ Segmented(Tail(q))
              /\ Head(q).run = "subscribe" => DroppedFirst(Tail(q), Head(q).handle)
<1> DEFINE t == Tail(q)
           n == Len(q)
<1>1. /\ n \in Nat /\ n >= 1 /\ Len(t) = n - 1 /\ Head(q) = q[1] /\ q[1] \in AnyTask
      /\ \A i \in 1 .. n - 1 : t[i] = q[i + 1]
  OBVIOUS
<1> HIDE DEF t
<1>2. \A i \in 1 .. Len(t) : i + 1 \in 1 .. n /\ t[i] = q[i + 1]
  BY <1>1
<1>3. \A i \in 1 .. n : i = 1 \/ (i - 1 \in 1 .. Len(t) /\ t[i - 1] = q[i])
  BY <1>1
<1>4. /\ Head(q).run = "unsubscribe" => Calls(q, Head(q).handle)
      /\ Mentions(q, Head(q).handle, Head(q).id)
  BY <1>1 DEF Calls, Mentions
<1>5. \A h : DropsOf(q, h) => DropsOf(t, h) \/ (Head(q).run = "drop" /\ Head(q).handle = h)
  BY <1>1, <1>3 DEF DropsOf
<1>6. \A h : Waits(q, h) => Waits(t, h) \/ (Head(q).run = "subscribe" /\ Head(q).handle = h)
  BY <1>1, <1>3 DEF Waits
<1>7. /\ \A h : Calls(t, h) => Calls(q, h)
      /\ \A h, m : Mentions(t, h, m) => Mentions(q, h, m)
  BY <1>2 DEF Calls, Mentions
<1>8. ASSUME OneCall(q)
      PROVE  /\ OneCall(t)
             /\ Head(q).run = "unsubscribe" => ~Calls(t, Head(q).handle) /\ Head(q).id # 0
  <2>1. ASSUME NEW i \in 1 .. Len(t), NEW j \in 1 .. Len(t), t[i].run = "unsubscribe",
               t[j].run = "unsubscribe", t[i].handle = t[j].handle
        PROVE  i = j
    <3>1. i + 1 = j + 1
      BY <1>2, <1>8, <2>1 DEF OneCall
    <3> QED BY <3>1
  <2>2. \A i \in 1 .. Len(t) : t[i].run = "unsubscribe" => t[i].id # 0
    BY <1>2, <1>8 DEF OneCall
  <2>3. ASSUME Head(q).run = "unsubscribe",
               NEW i \in 1 .. Len(t), t[i].run = "unsubscribe", t[i].handle = Head(q).handle
        PROVE  FALSE
    <3>1. i + 1 = 1
      BY <1>1, <1>2, <1>8, <2>3 DEF OneCall
    <3> QED BY <3>1
  <2> QED BY <1>1, <1>8, <2>1, <2>2, <2>3 DEF OneCall, Calls
<1>9. ASSUME NEW h, DroppedFirst(q, h)
      PROVE  Head(q).handle = h /\ (Head(q).run # "drop" => DroppedFirst(t, h))
  <2>1. q[1].handle = h
    BY <1>1, <1>9 DEF DroppedFirst
  <2>2. ASSUME Head(q).run # "drop", NEW j \in 1 .. Len(t), t[j].handle # h
        PROVE  \E k \in 1 .. j - 1 : t[k].run = "drop" /\ t[k].handle = h
    <3>1. PICK k \in 1 .. (j + 1) - 1 : q[k].run = "drop" /\ q[k].handle = h
      BY <1>2, <1>9, <2>2 DEF DroppedFirst
    <3>2. k # 1
      BY <1>1, <2>2, <3>1
    <3>3. k - 1 \in 1 .. j - 1 /\ t[k - 1] = q[k]
      BY <1>1, <1>3, <3>1, <3>2
    <3> QED BY <3>1, <3>3
  <2> QED BY <1>1, <2>1, <2>2 DEF DroppedFirst
<1>10. ASSUME Segmented(q)
       PROVE  Segmented(t) /\ (Head(q).run = "subscribe" => DroppedFirst(t, Head(q).handle))
  <2>1. ASSUME NEW i \in 1 .. Len(t), NEW j \in 1 .. Len(t), i < j,
               t[i].run = "subscribe", t[j].handle # t[i].handle
        PROVE  \E k \in i + 1 .. j - 1 : t[k].run = "drop" /\ t[k].handle = t[i].handle
    <3>0. /\ i + 1 \in 1 .. n /\ j + 1 \in 1 .. n /\ i + 1 < j + 1
          /\ q[i + 1].run = "subscribe" /\ q[j + 1].handle # q[i + 1].handle
      BY <1>2, <2>1
    <3>1. PICK k \in (i + 1) + 1 .. (j + 1) - 1 : q[k].run = "drop" /\ q[k].handle = q[i + 1].handle
      BY <1>10, <3>0 DEF Segmented
    <3>2. k - 1 \in i + 1 .. j - 1 /\ t[k - 1] = q[k]
      BY <1>1, <1>3, <3>1
    <3> QED BY <1>2, <3>1, <3>2
  <2>2. ASSUME Head(q).run = "subscribe", NEW j \in 1 .. Len(t), t[j].handle # Head(q).handle
        PROVE  \E k \in 1 .. j - 1 : t[k].run = "drop" /\ t[k].handle = Head(q).handle
    <3>1. PICK k \in 1 + 1 .. (j + 1) - 1 : q[k].run = "drop" /\ q[k].handle = q[1].handle
      BY <1>1, <1>2, <1>10, <2>2 DEF Segmented
    <3>2. k - 1 \in 1 .. j - 1 /\ t[k - 1] = q[k]
      BY <1>1, <1>3, <3>1
    <3> QED BY <1>1, <3>1, <3>2
  <2> QED BY <2>1, <2>2 DEF Segmented, DroppedFirst
<1> QED
  BY <1>4, <1>5, <1>6, <1>7, <1>8, <1>9, <1>10 DEF t

(* A handler, a message or a call under way has number n and is for h.     *)
Known(h, n) ==
  \/ Mentions(queue, h, n) \/ Mentions(wire, h, n) \/ Mentions(back, h, n)
  \/ \E c \in inflight : c.handle = h /\ c.id = n

(* A handle makes one call at a time, and a number is of one handle.       *)
CallInv ==
  /\ OneCall(queue)
  /\ \A h \in Handles : Calls(queue, h) => obj[h] = "calling"
  /\ \A c \in inflight : obj[c.handle] = "calling" /\ c.id # 0 /\ ~Calls(queue, c.handle)
  /\ \A c, d \in inflight : c.handle = d.handle => c = d
NameInv ==
  /\ \A h \in Handles, n \in Nat : Known(h, n) => n <= ids
  /\ \A g, h \in Handles, n \in Nat : n # 0 /\ Known(g, n) /\ Known(h, n) => g = h

(* What is known of a number stays as it is, but for the one Unsubscribe   *)
(* takes.                                                                  *)
LEMMA KnownStep ==
  ASSUME HandlesType, [Next]_vars
  PROVE  \A h, n : Known(h, n)' =>
           \/ Known(h, n) \/ n = 0
           \/ n = ids + 1 /\ h \in Handles /\ Unsubscribe(h)
<1> USE HandlesAssumption
<1>t. queue \in Seq(AnyTask) /\ wire \in Seq(AnyTask) /\ back \in Seq(AnyTask)
  BY QueueTypes DEF HandlesType
<1>k. \A k \in Kinds, h \in Handles, n \in Nat :
        /\ Task(k, h, n) \in AnyTask /\ Task(k, h, n).run = k /\ Task(k, h, n).handle = h
        /\ Task(k, h, n).id = n
  BY DEF AnyTask, Task
<1>a. \A q \in Seq(AnyTask), k \in Kinds, g \in Handles, m \in Nat : \A h, n :
        Mentions(Append(q, Task(k, g, m)), h, n) <=> Mentions(q, h, n) \/ (g = h /\ m = n)
  BY <1>k, AppendCalls
<1>d. \A q \in Seq(AnyTask) : q # <<>> =>
        /\ Mentions(q, Head(q).handle, Head(q).id)
        /\ \A h, n : Mentions(Tail(q), h, n) => Mentions(q, h, n)
  BY TailCalls
<1>e. \A h, n : ~Mentions(<<>>, h, n)
  BY DEF Mentions
<1>1. ASSUME NEW g \in Handles, Subscribe(g) PROVE \A h, n : Known(h, n)' => Known(h, n) \/ n = 0
  <2>1. queue' = Append(queue, Task("subscribe", g, 0)) /\ UNCHANGED <<wire, back, inflight>>
    BY <1>1 DEF Subscribe, linkVars
  <2> QED BY <1>t, <1>a, <2>1 DEF Known, Kinds
<1>2. ASSUME NEW g \in Handles, Unsubscribe(g)
      PROVE  \A h, n : Known(h, n)' => Known(h, n) \/ n = 0 \/ (n = ids + 1 /\ h = g)
  <2>1. queue' = Append(queue, Task("unsubscribe", g, ids + 1)) /\ UNCHANGED <<wire, back, inflight>>
    BY <1>2 DEF Unsubscribe, linkVars
  <2>2. ids + 1 \in Nat
    BY DEF HandlesType
  <2> QED BY <1>t, <1>a, <2>1, <2>2 DEF Known, Kinds
<1>3. ASSUME NEW g \in Handles, Destroy(g) PROVE \A h, n : Known(h, n)' => Known(h, n) \/ n = 0
  <2>1. /\ queue' = Append(queue, Task("drop", g, 0)) \/ queue' = queue
        /\ UNCHANGED <<wire, back, inflight>>
    BY <1>3 DEF Destroy, Drop, linkVars
  <2>2. \A h, n : Mentions(Append(queue, Task("drop", g, 0)), h, n) => Mentions(queue, h, n) \/ n = 0
    BY <1>t, <1>a DEF Kinds
  <2> QED BY <2>1, <2>2 DEF Known
<1>4. ASSUME queue # <<>>, queue' = Tail(queue),
             \/ wire' = wire \/ wire' = <<>>
             \/ \E k \in {"subscribe", "unsubscribe"}, h \in Handles : wire' = Append(wire, Task(k, h, 0)),
             back' = back \/ back' = <<>>, inflight' \subseteq inflight
      PROVE  \A h, n : Known(h, n)' => Known(h, n) \/ n = 0
  <2>1. \A h, n : Mentions(wire', h, n) => Mentions(wire, h, n) \/ n = 0
    <3>1. \A k \in {"subscribe", "unsubscribe"}, g \in Handles : \A h, n :
            Mentions(Append(wire, Task(k, g, 0)), h, n) => Mentions(wire, h, n) \/ n = 0
      BY <1>t, <1>a DEF Kinds
    <3> QED BY <1>e, <1>4, <3>1
  <2>2. \A h, n : Mentions(back', h, n) => Mentions(back, h, n)
    BY <1>e, <1>4
  <2> QED BY <1>t, <1>d, <1>4, <2>1, <2>2 DEF Known
<1>5. ASSUME UNCHANGED queue,
             wire' = wire \/ wire' = <<>> \/ \E h \in Handles : wire' = <<Task("subscribe", h, 0)>>,
             \/ back' = back \/ back' = <<>>
             \/ back # <<>> /\ back' = Tail(back),
             inflight' \subseteq inflight
      PROVE  \A h, n : Known(h, n)' => Known(h, n) \/ n = 0
  <2>0. \A g \in Handles : \A h, n : Mentions(<<Task("subscribe", g, 0)>>, h, n) => n = 0
    BY DEF Mentions, Task
  <2>1. \A h, n : Mentions(wire', h, n) => Mentions(wire, h, n) \/ n = 0
    BY <1>e, <1>5, <2>0
  <2>2. \A h, n : Mentions(back', h, n) => Mentions(back, h, n)
    <3>1. back # <<>> => \A h, n : Mentions(Tail(back), h, n) => Mentions(back, h, n)
      BY <1>t, <1>d
    <3> QED BY <1>e, <1>5, <3>1
  <2> QED BY <1>5, <2>1, <2>2 DEF Known
<1>6. CASE HandleSubscribe
  <2>1. queue # <<>> /\ queue' = Tail(queue) /\ Head(queue).handle \in Handles
    BY <1>6, PostedOps DEF HandleSubscribe, Dequeue
  <2>2. /\ \/ wire' = wire \/ wire' = <<>> \/ wire' = Append(wire, Task("subscribe", Head(queue).handle, 0))
        /\ back' = back \/ back' = <<>>
        /\ inflight' = inflight \/ inflight' = {}
    BY <1>6 DEF HandleSubscribe, OnTransportClose, linkVars
  <2> QED BY <1>4, <2>1, <2>2
<1>7. CASE HandleDrop
  <2>1. queue # <<>> /\ queue' = Tail(queue) /\ UNCHANGED <<back, inflight>>
    BY <1>7 DEF HandleDrop, Dequeue
  <2>2. wire' = wire \/ (active # None /\ wire' = Append(wire, Task("unsubscribe", active, 0)))
    BY <1>7 DEF HandleDrop, Tell, slotVars
  <2>3. active # None => active \in Handles
    BY DEF HandlesType
  <2> QED BY <1>4, <2>1, <2>2, <2>3
<1>8. CASE HandleUnsubscribe
  <2>1. /\ queue # <<>> /\ queue' = Tail(queue) /\ UNCHANGED back
        /\ Head(queue).handle \in Handles /\ Head(queue).id \in Nat
    BY <1>8, PostedOps DEF HandleUnsubscribe, Dequeue
  <2>2. CASE UNCHANGED <<inflight, wire>>
    BY <1>4, <2>1, <2>2
  <2>3. CASE /\ inflight' = inflight \cup {[handle |-> Head(queue).handle, id |-> Head(queue).id]}
             /\ wire' = Append(wire, Task("unsubscribe", Head(queue).handle, Head(queue).id))
    <3>1. \A h, n : Mentions(wire', h, n) =>
            Mentions(wire, h, n) \/ (h = Head(queue).handle /\ n = Head(queue).id)
      BY <1>t, <1>a, <2>1, <2>3 DEF Kinds
    <3>2. \A h, n : (\E c \in inflight' : c.handle = h /\ c.id = n) =>
            (\E c \in inflight : c.handle = h /\ c.id = n) \/ (h = Head(queue).handle /\ n = Head(queue).id)
      BY <2>3
    <3>3. /\ Mentions(queue, Head(queue).handle, Head(queue).id)
          /\ \A h, n : Mentions(queue', h, n) => Mentions(queue, h, n)
      BY <1>t, <1>d, <2>1
    <3>4. UNCHANGED back
      BY <2>1
    <3>5. ASSUME NEW h, NEW n, Known(h, n)' PROVE Known(h, n)
      BY <3>1, <3>2, <3>3, <3>4, <3>5, Zenon DEF Known
    <3> QED BY <3>5
  <2> QED BY <1>8, <2>2, <2>3 DEF HandleUnsubscribe
<1>9. CASE UnsubscribeSendFails
  BY <1>4, <1>9 DEF UnsubscribeSendFails, Dequeue, linkVars
<1>10. CASE UnsubscribeTimesOut
  BY <1>5, <1>10 DEF UnsubscribeTimesOut, linkVars
<1>11. CASE HandleSubscribeAck
  BY <1>5, <1>11 DEF HandleSubscribeAck, Reply
<1>12. CASE HandleUnsubscribeReply
  BY <1>5, <1>12 DEF HandleUnsubscribeReply, Reply
<1>13. CASE RobotHandles
  <2>1. /\ wire # <<>> /\ wire' = Tail(wire)
        /\ \E k \in {"accepted", "refused", "unsubscribed"} :
             back' = Append(back, [Head(wire) EXCEPT !.run = k])
        /\ UNCHANGED <<queue, inflight>>
    BY <1>13 DEF RobotHandles, RobotAnswers
  <2>2. PICK k \in {"accepted", "refused", "unsubscribed"} :
          back' = Append(back, Task(k, Head(wire).handle, Head(wire).id))
    BY <2>1, RequestOps
  <2>3. Head(wire).handle \in Handles /\ Head(wire).id \in Nat /\ k \in Kinds
    BY <2>1, RequestOps DEF Kinds
  <2>4. \A h, n : Mentions(back', h, n) =>
          Mentions(back, h, n) \/ (h = Head(wire).handle /\ n = Head(wire).id)
    BY <1>t, <1>a, <2>2, <2>3
  <2>5. /\ Mentions(wire, Head(wire).handle, Head(wire).id)
        /\ \A h, n : Mentions(wire', h, n) => Mentions(wire, h, n)
    BY <1>t, <1>d, <2>1
  <2> QED BY <2>1, <2>4, <2>5 DEF Known
<1>14. CASE SocketEnds
  BY <1>5, <1>14 DEF SocketEnds
<1>15. CASE Lose
  BY <1>5, <1>15 DEF Lose, OnTransportClose
<1>16. CASE Restore
  <2>1. active # None => active \in Handles
    BY DEF HandlesType
  <2>2. wire' = wire \/ \E h \in Handles : wire' = <<Task("subscribe", h, 0)>>
    BY <1>16, <2>1 DEF Restore
  <2>3. UNCHANGED <<queue, inflight, back>>
    BY <1>16 DEF Restore
  <2> QED BY <1>5, <2>2, <2>3
<1>17. CASE AbortToFatal
  BY <1>5, <1>17 DEF AbortToFatal
<1>18. CASE UNCHANGED vars
  BY <1>5, <1>18 DEF vars, linkVars
<1> QED
  BY <1>1, <1>2, <1>3, <1>6, <1>7, <1>8, <1>9, <1>10, <1>11, <1>12, <1>13, <1>14, <1>15, <1>16, <1>17, <1>18
  DEF Next, Control

LEMMA NameStep == HandlesType /\ NameInv /\ [Next]_vars => NameInv'
<1> SUFFICES ASSUME HandlesType, NameInv, [Next]_vars PROVE NameInv'
  OBVIOUS
<1>t. ids \in Nat
  BY DEF HandlesType
<1>1. CASE \E h \in Handles : Unsubscribe(h)
  <2>1. PICK g \in Handles : Unsubscribe(g)
    BY <1>1
  <2>2. ids' = ids + 1
    BY <2>1 DEF Unsubscribe
  <2>3. ASSUME NEW h \in Handles, Unsubscribe(h) PROVE h = g
    BY <2>1, <2>3 DEF Unsubscribe, HandlesType
  <2>4. \A h \in Handles, n \in Nat : Known(h, n)' => Known(h, n) \/ n = 0 \/ (n = ids + 1 /\ h = g)
    BY <2>3, KnownStep
  <2>5. \A h \in Handles, n \in Nat : Known(h, n) => n <= ids
    BY DEF NameInv
  <2>6. \A h \in Handles, n \in Nat : Known(h, n)' => n <= ids'
    BY <1>t, <2>2, <2>4, <2>5
  <2>7. ASSUME NEW e \in Handles, NEW h \in Handles, NEW n \in Nat, n # 0, Known(e, n)', Known(h, n)'
        PROVE  e = h
    <3>1. CASE n = ids + 1
      BY <1>t, <2>4, <2>5, <2>7, <3>1
    <3>2. CASE n # ids + 1
      BY <2>4, <2>7, <3>2 DEF NameInv
    <3> QED BY <3>1, <3>2
  <2> QED BY <2>6, <2>7 DEF NameInv
<1>2. CASE ~ \E h \in Handles : Unsubscribe(h)
  <2>1. ids' = ids
    <3>1. \A h \in Handles : Subscribe(h) \/ Destroy(h) => ids' = ids
      BY DEF Subscribe, Destroy
    <3>2. HandleSubscribe \/ HandleDrop \/ HandleUnsubscribe \/ UnsubscribeSendFails => ids' = ids
      BY DEF HandleSubscribe, HandleDrop, HandleUnsubscribe, UnsubscribeSendFails, Dequeue
    <3>3. UnsubscribeTimesOut \/ HandleSubscribeAck \/ HandleUnsubscribeReply => ids' = ids
      BY DEF UnsubscribeTimesOut, HandleSubscribeAck, HandleUnsubscribeReply
    <3>4. RobotHandles \/ SocketEnds \/ Lose \/ Restore \/ AbortToFatal => ids' = ids
      BY DEF RobotHandles, SocketEnds, Lose, Restore, AbortToFatal
    <3>5. UNCHANGED vars => ids' = ids
      BY DEF vars
    <3> QED BY <1>2, <3>1, <3>2, <3>3, <3>4, <3>5 DEF Next, Control
  <2>2. \A h \in Handles, n \in Nat : Known(h, n)' => Known(h, n) \/ n = 0
    BY <1>2, KnownStep
  <2> QED BY <1>t, <2>1, <2>2 DEF NameInv
<1> QED BY <1>1, <1>2

(* The call that the reply at the front of back answers is of the handle   *)
(* the reply names.                                                        *)
LEMMA ReplyNamesCaller ==
  ASSUME HandlesType, CallInv, NameInv, back # <<>>, NEW c \in inflight, c.id = Head(back).id
  PROVE  c.handle = Head(back).handle
<1>1. back \in Seq(AnyTask)
  BY QueueTypes DEF HandlesType
<1>2. Mentions(back, Head(back).handle, Head(back).id)
  BY <1>1, TailCalls
<1>3. c.handle \in Handles /\ c.id \in Nat
  BY DEF HandlesType, UnsubscribeCalls
<1>4. Head(back).handle \in Handles
  BY ReplyOps
<1>5. Known(c.handle, c.id) /\ Known(Head(back).handle, c.id)
  BY <1>2 DEF Known
<1>6. c.id # 0
  BY DEF CallInv
<1> QED BY <1>3, <1>4, <1>5, <1>6 DEF NameInv

(* Whoever is told the result of a call was in a call, and is in no other. *)
LEMMA ReturnEnds ==
  ASSUME HandlesType, CallInv, NEW hs, NEW r, Return(hs, r), NEW q, q \in Seq(AnyTask),
         OneCall(q), \A h : Calls(q, h) => Calls(queue, h), \A h \in hs : ~Calls(q, h),
         queue' = q, inflight' \subseteq inflight, \A c \in inflight' : c.handle \notin hs
  PROVE  CallInv'
<1>1. \A h \in Handles : obj'[h] = IF h \in hs THEN "held" ELSE obj[h]
  BY DEF Return
<1>2. \A c \in inflight' : c.handle \in Handles /\ obj'[c.handle] = obj[c.handle]
  BY <1>1 DEF HandlesType, UnsubscribeCalls
<1>3. \A h \in Handles : Calls(queue', h) => obj'[h] = "calling"
  BY <1>1 DEF CallInv
<1>4. \A c \in inflight' : obj'[c.handle] = "calling" /\ c.id # 0 /\ ~Calls(queue', c.handle)
  BY <1>2 DEF CallInv
<1> QED BY <1>3, <1>4 DEF CallInv

LEMMA CallStep == HandlesType /\ HandlesInv /\ CallInv /\ NameInv /\ [Next]_vars => CallInv'
<1> SUFFICES ASSUME HandlesType, HandlesInv, CallInv, NameInv, [Next]_vars PROVE CallInv'
  OBVIOUS
<1> USE HandlesAssumption
<1>t. queue \in Seq(AnyTask) /\ back \in Seq(AnyTask)
  BY QueueTypes DEF HandlesType
<1>k. \A k \in Kinds, h \in Handles, n \in Nat :
        /\ Task(k, h, n) \in AnyTask /\ Task(k, h, n).run = k /\ Task(k, h, n).handle = h
        /\ Task(k, h, n).id = n
  BY DEF AnyTask, Task
<1>a. \A k \in Kinds, g \in Handles, n \in Nat :
        LET q == Append(queue, Task(k, g, n)) IN
        /\ \A h : Calls(q, h) <=> Calls(queue, h) \/ (k = "unsubscribe" /\ g = h)
        /\ (k = "unsubscribe" => ~Calls(queue, g) /\ n # 0) => OneCall(q)
  BY <1>t, <1>k, AppendCalls DEF CallInv
<1>d. queue # <<>> =>
        /\ Head(queue).handle \in Handles /\ Head(queue).id \in Nat
        /\ Tail(queue) \in Seq(AnyTask) /\ OneCall(Tail(queue))
        /\ \A h : Calls(Tail(queue), h) => Calls(queue, h)
        /\ Head(queue).run = "unsubscribe" =>
             /\ Calls(queue, Head(queue).handle) /\ ~Calls(Tail(queue), Head(queue).handle)
             /\ Head(queue).id # 0
  BY <1>t, TailCalls, PostedOps DEF CallInv
<1>h. \A c \in inflight : c.handle \in Handles
  BY DEF HandlesType, UnsubscribeCalls
<1>1. ASSUME NEW h \in Handles, Subscribe(h) PROVE CallInv'
  <2>1. /\ queue' = Append(queue, Task("subscribe", h, 0)) /\ obj[h] = "none"
        /\ obj' = [obj EXCEPT ![h] = "held"] /\ UNCHANGED inflight
    BY <1>1 DEF Subscribe
  <2>2. OneCall(queue') /\ \A g : Calls(queue', g) <=> Calls(queue, g)
    BY <1>a, <2>1 DEF Kinds
  <2> QED BY <1>h, <2>1, <2>2 DEF CallInv, HandlesType
<1>2. ASSUME NEW h \in Handles, Unsubscribe(h) PROVE CallInv'
  <2>1. /\ queue' = Append(queue, Task("unsubscribe", h, ids + 1)) /\ obj[h] = "held"
        /\ obj' = [obj EXCEPT ![h] = "calling"] /\ UNCHANGED inflight
    BY <1>2 DEF Unsubscribe
  <2>2. ids + 1 \in Nat /\ ids + 1 # 0
    BY DEF HandlesType
  <2>3. ~Calls(queue, h) /\ \A c \in inflight : c.handle # h
    BY <2>1 DEF CallInv
  <2>4. OneCall(queue') /\ \A g : Calls(queue', g) <=> Calls(queue, g) \/ g = h
    BY <1>a, <2>1, <2>2, <2>3 DEF Kinds
  <2> QED BY <1>h, <2>1, <2>3, <2>4 DEF CallInv, HandlesType
<1>3. ASSUME NEW h \in Handles, Destroy(h) PROVE CallInv'
  <2>1. /\ queue' = Append(queue, Task("drop", h, 0)) \/ queue' = queue
        /\ obj[h] = "held" /\ obj' = [obj EXCEPT ![h] = "destroyed"] /\ UNCHANGED inflight
    BY <1>3 DEF Destroy, Drop
  <2>2. OneCall(queue') /\ \A g : Calls(queue', g) <=> Calls(queue, g)
    <3>1. LET q == Append(queue, Task("drop", h, 0)) IN
          OneCall(q) /\ \A g : Calls(q, g) <=> Calls(queue, g)
      BY <1>a DEF Kinds
    <3> QED BY <2>1, <3>1 DEF CallInv
  <2> QED BY <1>h, <2>1, <2>2 DEF CallInv, HandlesType
<1>4. ASSUME queue # <<>>, queue' = Tail(queue), UNCHANGED <<obj, inflight>> PROVE CallInv'
  BY <1>d, <1>4 DEF CallInv
<1>5. ASSUME Return({c.handle : c \in inflight}, "TransportFailure")
               \/ Return({c.handle : c \in inflight}, "Disconnected"),
             inflight' = {}, queue' = queue \/ (queue # <<>> /\ queue' = Tail(queue))
      PROVE  CallInv'
  <2>1. \A h \in {c.handle : c \in inflight} : ~Calls(queue, h)
    BY DEF CallInv
  <2>2. /\ queue' \in Seq(AnyTask) /\ OneCall(queue') /\ \A h : Calls(queue', h) => Calls(queue, h)
    BY <1>d, <1>t, <1>5 DEF CallInv
  <2>3. \A h \in {c.handle : c \in inflight} : ~Calls(queue', h)
    BY <2>1, <2>2
  <2>4. inflight' \subseteq inflight /\ \A c \in inflight' : c.handle \notin {d.handle : d \in inflight}
    BY <1>5
  <2>5. PICK r : Return({c.handle : c \in inflight}, r)
    BY <1>5
  <2> HIDE DEF CallInv
  <2> QED BY <2>2, <2>3, <2>4, <2>5, ReturnEnds
<1>6. ASSUME queue # <<>>, Head(queue).run = "unsubscribe", queue' = Tail(queue), UNCHANGED inflight,
             NEW r, Return({Head(queue).handle}, r)
      PROVE  CallInv'
  <2>1. \A c \in inflight' : c.handle \notin {Head(queue).handle}
    BY <1>d, <1>6 DEF CallInv
  <2>2. \A h \in {Head(queue).handle} : ~Calls(Tail(queue), h)
    BY <1>d, <1>6
  <2>3. /\ Tail(queue) \in Seq(AnyTask) /\ OneCall(Tail(queue))
        /\ \A h : Calls(Tail(queue), h) => Calls(queue, h)
    BY <1>d, <1>6
  <2> QED BY <1>6, <2>1, <2>2, <2>3, ReturnEnds
<1>7. ASSUME NEW c \in inflight, UNCHANGED queue, inflight' \subseteq inflight \ {c},
             NEW r, Return({c.handle}, r)
      PROVE  CallInv'
  <2>1. \A d \in inflight' : d.handle \notin {c.handle}
    BY <1>7 DEF CallInv
  <2>2. OneCall(queue) /\ \A h \in {c.handle} : ~Calls(queue, h)
    BY DEF CallInv
  <2> QED BY <1>t, <1>7, <2>1, <2>2, ReturnEnds
<1>8. ASSUME UNCHANGED <<queue, obj, inflight>> PROVE CallInv'
  BY <1>8 DEF CallInv
<1>9. CASE HandleSubscribe
  <2>1. queue # <<>> /\ queue' = Tail(queue)
    BY <1>9 DEF HandleSubscribe, Dequeue
  <2>2. CASE UNCHANGED <<obj, inflight>>
    BY <1>4, <2>1, <2>2
  <2>3. CASE OnTransportClose(Head(queue).handle)
    BY <1>5, <2>1, <2>3 DEF OnTransportClose
  <2> QED BY <1>9, <2>2, <2>3 DEF HandleSubscribe
<1>10. CASE HandleDrop
  BY <1>4, <1>10 DEF HandleDrop, Dequeue
<1>11. CASE HandleUnsubscribe
  <2> DEFINE h == Head(queue).handle
             id == Head(queue).id
  <2>1. queue # <<>> /\ queue' = Tail(queue) /\ Head(queue).run = "unsubscribe"
    BY <1>11 DEF HandleUnsubscribe, Dequeue
  <2>2. CASE (Return({h}, "Ok") \/ Return({h}, "Disconnected")) /\ UNCHANGED inflight
    BY <1>6, <2>1, <2>2
  <2>3. CASE UNCHANGED obj /\ inflight' = inflight \cup {[handle |-> h, id |-> id]}
    <3>1. /\ h \in Handles /\ Calls(queue, h) /\ ~Calls(Tail(queue), h) /\ id # 0
          /\ OneCall(Tail(queue)) /\ \A g : Calls(Tail(queue), g) => Calls(queue, g)
      BY <1>d, <2>1
    <3>2. obj[h] = "calling" /\ \A c \in inflight : c.handle # h
      BY <3>1 DEF CallInv
    <3> HIDE DEF h, id
    <3>3. \A c \in inflight' : c \in inflight \/ (c.handle = h /\ c.id = id)
      BY <2>3
    <3>4. \A c, d \in inflight' : c.handle = d.handle => c = d
      BY <2>3, <3>2 DEF CallInv
    <3>5. \A c \in inflight' : obj'[c.handle] = "calling" /\ c.id # 0 /\ ~Calls(queue', c.handle)
      BY <2>1, <2>3, <3>1, <3>2, <3>3 DEF CallInv
    <3>6. \A g \in Handles : Calls(queue', g) => obj'[g] = "calling"
      BY <2>1, <2>3, <3>1 DEF CallInv
    <3> QED BY <2>1, <3>1, <3>4, <3>5, <3>6 DEF CallInv
  <2> QED BY <1>11, <2>2, <2>3 DEF HandleUnsubscribe
<1>12. CASE UnsubscribeSendFails
  BY <1>6, <1>12 DEF UnsubscribeSendFails, Dequeue
<1>13. CASE UnsubscribeTimesOut
  BY <1>7, <1>13 DEF UnsubscribeTimesOut
<1>14. CASE HandleSubscribeAck \/ RobotHandles \/ SocketEnds \/ Restore \/ UNCHANGED vars
  BY <1>8, <1>14 DEF HandleSubscribeAck, RobotHandles, SocketEnds, Restore, vars, handleVars
<1>15. CASE HandleUnsubscribeReply
  <2> DEFINE calls == {c \in inflight : c.id = Head(back).id}
  <2>1. /\ back # <<>> /\ UNCHANGED queue /\ inflight' = inflight \ calls
        /\ IF calls = {} THEN UNCHANGED obj ELSE \E r \in {"Ok", "Refused"} : Return({Head(back).handle}, r)
    BY <1>15 DEF HandleUnsubscribeReply, Reply
  <2>2. CASE calls = {}
    BY <1>8, <2>1, <2>2
  <2>3. CASE calls # {}
    <3>1. PICK c \in inflight : c.id = Head(back).id
      BY <2>3
    <3>2. c.handle = Head(back).handle
      BY <2>1, <3>1, ReplyNamesCaller
    <3>3. inflight' \subseteq inflight \ {c}
      BY <2>1, <3>1
    <3> QED BY <1>7, <2>1, <2>3, <3>2, <3>3
  <2> QED BY <2>2, <2>3
<1>16. CASE Lose
  BY <1>5, <1>16 DEF Lose, OnTransportClose
<1>17. CASE AbortToFatal
  BY <1>5, <1>17 DEF AbortToFatal
<1> QED
  BY <1>1, <1>2, <1>3, <1>9, <1>10, <1>11, <1>12, <1>13, <1>14, <1>15, <1>16, <1>17 DEF Next, Control

(* How a handle changes: the user makes, uses and destroys it, and only a  *)
(* call that it is in returns.                                             *)
LEMMA ObjectStep ==
  ASSUME HandlesType, CallInv, NameInv, [Next]_vars, NEW h \in Handles
  PROVE  \/ UNCHANGED <<obj[h], result[h]>>
         \/ obj[h] = "none" /\ obj'[h] = "held" /\ result'[h] = result[h] /\ Subscribe(h)
         \/ obj[h] = "held" /\ obj'[h] = "calling" /\ result'[h] = result[h] /\ Unsubscribe(h)
         \/ obj[h] = "held" /\ obj'[h] = "destroyed" /\ result'[h] = result[h] /\ Destroy(h)
         \/ obj[h] = "calling" /\ obj'[h] = "held"
<1>1. ASSUME NEW g \in Handles, Subscribe(g) \/ Unsubscribe(g) \/ Destroy(g)
      PROVE  \/ UNCHANGED <<obj[h], result[h]>>
             \/ obj[h] = "none" /\ obj'[h] = "held" /\ result'[h] = result[h] /\ Subscribe(h)
             \/ obj[h] = "held" /\ obj'[h] = "calling" /\ result'[h] = result[h] /\ Unsubscribe(h)
             \/ obj[h] = "held" /\ obj'[h] = "destroyed" /\ result'[h] = result[h] /\ Destroy(h)
  <2>1. CASE g = h
    BY <1>1, <2>1 DEF Subscribe, Unsubscribe, Destroy, HandlesType
  <2>2. CASE g # h
    BY <1>1, <2>2 DEF Subscribe, Unsubscribe, Destroy, HandlesType
  <2> QED BY <2>1, <2>2
<1> DEFINE Kept == UNCHANGED <<obj[h], result[h]>> \/ (obj[h] = "calling" /\ obj'[h] = "held")
<1>2. ASSUME UNCHANGED <<obj, result>> PROVE Kept
  BY <1>2
<1>3. ASSUME NEW hs, NEW r, Return(hs, r), \A g \in hs : obj[g] = "calling" PROVE Kept
  BY <1>3 DEF Return, HandlesType
<1>4. \A g \in {c.handle : c \in inflight} : obj[g] = "calling"
  BY DEF CallInv
<1>5. queue # <<>> /\ Head(queue).run = "unsubscribe" =>
        \A g \in {Head(queue).handle} : obj[g] = "calling"
  <2>1. queue \in Seq(AnyTask)
    BY QueueTypes DEF HandlesType
  <2> QED BY <2>1, TailCalls, PostedOps DEF CallInv
<1>6. ASSUME NEW slot, OnTransportClose(slot) PROVE Kept
  BY <1>3, <1>4, <1>6 DEF OnTransportClose
<1>7. CASE HandleSubscribe
  <2>1. UNCHANGED <<obj, result>> \/ OnTransportClose(Head(queue).handle)
    BY <1>7 DEF HandleSubscribe
  <2> QED BY <1>2, <1>6, <2>1
<1>8. CASE HandleUnsubscribe \/ UnsubscribeSendFails
  <2>1. queue # <<>> /\ Head(queue).run = "unsubscribe"
    BY <1>8 DEF HandleUnsubscribe, UnsubscribeSendFails, Dequeue
  <2>2. UNCHANGED <<obj, result>> \/ \E r : Return({Head(queue).handle}, r)
    BY <1>8 DEF HandleUnsubscribe, UnsubscribeSendFails
  <2> QED BY <1>2, <1>3, <1>5, <2>1, <2>2
<1>9. CASE UnsubscribeTimesOut
  <2>1. PICK c \in inflight : Return({c.handle}, "Timeout")
    BY <1>9 DEF UnsubscribeTimesOut
  <2> QED BY <1>3, <1>4, <2>1
<1>10. CASE HandleUnsubscribeReply
  <2>1. CASE UNCHANGED <<obj, result>>
    BY <1>2, <2>1
  <2>2. CASE ~UNCHANGED <<obj, result>>
    <3>1. /\ back # <<>> /\ {c \in inflight : c.id = Head(back).id} # {}
          /\ \E r \in {"Ok", "Refused"} : Return({Head(back).handle}, r)
      BY <1>10, <2>2 DEF HandleUnsubscribeReply, Reply
    <3>2. PICK c \in inflight : c.id = Head(back).id
      BY <3>1
    <3>3. c.handle = Head(back).handle
      BY <3>1, <3>2, ReplyNamesCaller
    <3> QED BY <1>3, <1>4, <3>1, <3>3
  <2> QED BY <2>1, <2>2
<1>11. CASE HandleDrop \/ HandleSubscribeAck \/ RobotHandles \/ SocketEnds \/ Restore \/ UNCHANGED vars
  BY <1>2, <1>11 DEF HandleDrop, HandleSubscribeAck, RobotHandles, SocketEnds, Restore, vars, handleVars
<1>12. CASE Lose
  BY <1>6, <1>12 DEF Lose
<1>13. CASE AbortToFatal
  BY <1>3, <1>4, <1>13 DEF AbortToFatal
<1> QED
  BY <1>1, <1>7, <1>8, <1>9, <1>10, <1>11, <1>12, <1>13 DEF Next, Control

(* A destroyed handle that is or will be in the map has its own drop       *)
(* queued; a handle that is neither in the map nor waiting is closed, and  *)
(* so is one whose Unsubscribe returned Ok.                                *)
SlotInv ==
  /\ \A h \in Handles : obj[h] = "destroyed" /\ (active = h \/ Waits(queue, h)) => DropsOf(queue, h)
  /\ \A h \in Handles : obj[h] # "none" => Waits(queue, h) \/ active = h \/ state[h] = "Closed"
  /\ \A h \in Handles : result[h] = "Ok" => state[h] = "Closed"

(* How the queue and the map change, but for the user.                     *)
Enters(h) ==
  /\ queue # <<>> /\ queue' = Tail(queue) /\ Head(queue) \in AnyTask
  /\ Head(queue).run = "subscribe" /\ Head(queue).handle = h
  /\ active = None /\ active' = h /\ ~user_closed[h]
  /\ \A g \in Handles \ {h} : state'[g] = state[g]
Dequeues ==
  /\ queue # <<>> /\ queue' = Tail(queue) /\ Head(queue) \in AnyTask
  /\ Head(queue).run = "drop" => active' = None
  /\ Head(queue).run = "subscribe" => state'[Head(queue).handle] = "Closed"
SlotKept ==
  /\ active' = active
  /\ \A g \in Handles \ {active} : state[g] = "Closed" => state'[g] = "Closed"
SlotErased ==
  /\ active # None /\ active' = None /\ state' = [state EXCEPT ![active] = "Closed"]

LEMMA SlotSteps ==
  ASSUME HandlesType, [Next]_vars, \A h \in Handles : ~(Subscribe(h) \/ Unsubscribe(h) \/ Destroy(h))
  PROVE  \/ Enters(Head(queue).handle)
         \/ (queue' = queue \/ Dequeues) /\ (SlotKept \/ SlotErased)
<1> USE HandlesAssumption
<1>t. queue # <<>> => Head(queue) \in AnyTask /\ Head(queue).handle \in Handles
  <2>1. queue \in Seq(AnyTask)
    BY QueueTypes DEF HandlesType
  <2> QED BY <2>1, TailOps, PostedOps
<1>s. active \in Handles \cup {None} /\ state \in [Handles -> SubscriptionState]
  BY DEF HandlesType
<1>1. CASE HandleSubscribe
  <2> DEFINE h == Head(queue).handle
  <2>1. queue # <<>> /\ queue' = Tail(queue) /\ Head(queue).run = "subscribe"
    BY <1>1 DEF HandleSubscribe, Dequeue
  <2>2. CASE user_closed[h] \/ active # None
    <3>1. state' = [state EXCEPT ![h] = "Closed"] /\ UNCHANGED active
      BY <1>1, <2>2 DEF HandleSubscribe, SetState
    <3>2. Dequeues
      BY <1>s, <1>t, <2>1, <3>1 DEF Dequeues
    <3> QED BY <1>s, <1>t, <2>1, <3>1, <3>2 DEF SlotKept
  <2>3. CASE ~user_closed[h] /\ active = None /\ conn = "Dead"
    <3>1. active' = h /\ state' = [g \in Handles |-> IF g = h THEN "Paused" ELSE state[g]]
      BY <1>1, <2>3 DEF HandleSubscribe, OnTransportClose
    <3> QED BY <1>t, <2>1, <2>3, <3>1 DEF Enters
  <2>4. CASE ~user_closed[h] /\ active = None /\ conn # "Dead"
    <3>1. active' = h /\ UNCHANGED state
      BY <1>1, <2>4 DEF HandleSubscribe
    <3> QED BY <1>t, <2>1, <2>4, <3>1 DEF Enters
  <2> QED BY <2>2, <2>3, <2>4
<1>2. CASE HandleDrop
  <2>1. queue # <<>> /\ queue' = Tail(queue) /\ Head(queue).run = "drop"
    BY <1>2 DEF HandleDrop, Dequeue
  <2>2. CASE active = None
    BY <1>2, <1>t, <2>1, <2>2 DEF HandleDrop, slotVars, Dequeues, SlotKept
  <2>3. CASE active # None
    BY <1>2, <1>t, <2>1, <2>3 DEF HandleDrop, Erase, SetState, Dequeues, SlotErased
  <2> QED BY <2>2, <2>3
<1>3. CASE HandleUnsubscribe \/ UnsubscribeSendFails
  <2>1. queue # <<>> /\ queue' = Tail(queue) /\ Head(queue).run = "unsubscribe"
    BY <1>3 DEF HandleUnsubscribe, UnsubscribeSendFails, Dequeue
  <2>2. Dequeues
    BY <1>t, <2>1 DEF Dequeues
  <2>3. SlotKept \/ SlotErased
    BY <1>3 DEF HandleUnsubscribe, UnsubscribeSendFails, slotVars, Erase, SetState, SlotKept, SlotErased
  <2> QED BY <2>2, <2>3
<1>4. CASE UnsubscribeTimesOut \/ RobotHandles \/ SocketEnds \/ UNCHANGED vars
  BY <1>4 DEF UnsubscribeTimesOut, RobotHandles, SocketEnds, vars, slotVars, SlotKept
<1>5. CASE HandleSubscribeAck
  <2>1. \/ UNCHANGED <<state, active>>
        \/ state' = [state EXCEPT ![active] = "Active"] /\ active' = active
        \/ active \in Handles /\ state' = [state EXCEPT ![active] = "Closed"] /\ active' = None
    BY <1>5, ReplyOps DEF HandleSubscribeAck, Reply, slotVars, Erase, SetState
  <2> QED BY <1>5, <1>s, <2>1 DEF HandleSubscribeAck, SlotKept, SlotErased
<1>6. CASE HandleUnsubscribeReply
  BY <1>6 DEF HandleUnsubscribeReply, ReplyErases, Erase, SetState, SlotKept, SlotErased
<1>7. CASE Lose
  BY <1>7 DEF Lose, OnTransportClose, SlotKept
<1>8. CASE Restore
  BY <1>8, <1>s DEF Restore, SetState, SlotKept
<1>9. CASE AbortToFatal
  BY <1>9 DEF AbortToFatal, Erase, SetState, SlotKept, SlotErased
<1> QED
  BY <1>1, <1>2, <1>3, <1>4, <1>5, <1>6, <1>7, <1>8, <1>9 DEF Next, Control

(* Unsubscribe returns Ok when the topic has no slot, any more or at all.  *)
LEMMA OkStep ==
  ASSUME HandlesType, HandlesInv, CallInv, NameInv, [Next]_vars,
         NEW h \in Handles, result'[h] = "Ok", result[h] # "Ok"
  PROVE  active' = None /\ ~Waits(queue', h) /\ obj'[h] = "held"
<1> USE HandlesAssumption
<1>t. queue \in Seq(AnyTask) /\ back \in Seq(AnyTask)
  BY QueueTypes DEF HandlesType
<1>1. ASSUME UNCHANGED result PROVE FALSE
  BY <1>1
<1>2. ASSUME NEW hs, NEW r, Return(hs, r), r # "Ok" PROVE FALSE
  BY <1>2 DEF Return
<1>3. ASSUME NEW slot, OnTransportClose(slot) PROVE FALSE
  <2>1. Return({c.handle : c \in inflight}, "TransportFailure")
    BY <1>3 DEF OnTransportClose
  <2> QED BY <1>2, <2>1
<1>4. ASSUME NEW g, NEW r, Return({g}, r) PROVE g = h /\ obj'[h] = "held"
  BY <1>4 DEF Return
<1>5. CASE HandleUnsubscribe
  <2>1. queue # <<>> /\ queue' = Tail(queue)
    BY <1>5 DEF HandleUnsubscribe, Dequeue
  <2>2. CASE active = None
    <3>1. Return({Head(queue).handle}, "Ok") /\ active' = None
      BY <1>5, <2>2 DEF HandleUnsubscribe, slotVars
    <3>2. Head(queue).handle = h /\ obj'[h] = "held"
      BY <1>4, <3>1
    <3> QED BY <1>t, <2>1, <3>1, <3>2, TailOps DEF HandlesInv
  <2>3. CASE active # None
    <3>1. Return({Head(queue).handle}, "Disconnected") \/ UNCHANGED result
      BY <1>5, <2>3 DEF HandleUnsubscribe
    <3> QED BY <1>1, <1>2, <3>1
  <2> QED BY <2>2, <2>3
<1>6. CASE HandleUnsubscribeReply
  <2>1. /\ back # <<>> /\ UNCHANGED queue
        /\ \E r \in {"Ok", "Refused"} : Return({Head(back).handle}, r)
        /\ ReplyErases(Head(back).handle)
    BY <1>1, <1>6 DEF HandleUnsubscribeReply, Reply
  <2>2. Head(back).handle = h /\ obj'[h] = "held"
    BY <1>4, <2>1
  <2>3. active' = None
    BY <2>1 DEF ReplyErases, Erase
  <2>4. For(back, h)
    BY <1>t, <2>1, <2>2, TailOps
  <2> QED BY <2>1, <2>2, <2>3, <2>4 DEF HandlesInv, Fresh, SentFor
<1>7. ~HandleSubscribe
  <2>1. HandleSubscribe => UNCHANGED result \/ OnTransportClose(Head(queue).handle)
    BY DEF HandleSubscribe
  <2> QED BY <1>1, <1>3, <2>1
<1>8. ~(UnsubscribeSendFails \/ UnsubscribeTimesOut)
  <2>1. UnsubscribeSendFails => Return({Head(queue).handle}, "TransportFailure")
    BY DEF UnsubscribeSendFails
  <2>2. UnsubscribeTimesOut => \E c \in inflight : Return({c.handle}, "Timeout")
    BY DEF UnsubscribeTimesOut
  <2> QED BY <1>2, <2>1, <2>2
<1>9. ~Lose
  BY <1>3 DEF Lose
<1>10. ~AbortToFatal
  <2>1. AbortToFatal => Return({c.handle : c \in inflight}, "Disconnected")
    BY DEF AbortToFatal
  <2> QED BY <1>2, <2>1
<1>11. ~(HandleDrop \/ HandleSubscribeAck \/ RobotHandles \/ SocketEnds \/ Restore \/ UNCHANGED vars)
  BY <1>1 DEF HandleDrop, HandleSubscribeAck, RobotHandles, SocketEnds, Restore, vars, handleVars
<1>12. \A g \in Handles : ~(Subscribe(g) \/ Unsubscribe(g) \/ Destroy(g))
  BY <1>1 DEF Subscribe, Unsubscribe, Destroy
<1> QED
  BY <1>5, <1>6, <1>7, <1>8, <1>9, <1>10, <1>11, <1>12 DEF Next, Control

LEMMA SlotStep ==
  HandlesType /\ HandlesInv /\ CallInv /\ NameInv /\ SlotInv /\ [Next]_vars => SlotInv'
<1> SUFFICES ASSUME HandlesType, HandlesInv, CallInv, NameInv, SlotInv, [Next]_vars PROVE SlotInv'
  OBVIOUS
<1> USE HandlesAssumption
<1>t. queue \in Seq(AnyTask)
  BY QueueTypes DEF HandlesType
<1>s. active \in Handles \cup {None} /\ state \in [Handles -> SubscriptionState]
  BY DEF HandlesType
<1>k. \A k \in Kinds, h \in Handles, n \in Nat :
        /\ Task(k, h, n) \in AnyTask /\ Task(k, h, n).run = k /\ Task(k, h, n).handle = h
  BY DEF AnyTask, Task
<1>a. \A k \in Kinds, g \in Handles, n \in Nat :
        LET q == Append(queue, Task(k, g, n)) IN
        /\ \A h : Waits(q, h) <=> Waits(queue, h) \/ (k = "subscribe" /\ g = h)
        /\ \A h : DropsOf(q, h) <=> DropsOf(queue, h) \/ (k = "drop" /\ g = h)
  BY <1>t, <1>k, AppendOps, AppendCalls
<1>d. queue # <<>> =>
        /\ Head(queue).handle \in Handles
        /\ Head(queue).run = "subscribe" => Waits(queue, Head(queue).handle)
        /\ \A h : Waits(Tail(queue), h) => Waits(queue, h)
        /\ ~Waits(Tail(queue), Head(queue).handle)
        /\ \A h : Waits(queue, h) =>
             Waits(Tail(queue), h) \/ (Head(queue).run = "subscribe" /\ Head(queue).handle = h)
        /\ \A h : DropsOf(queue, h) =>
             DropsOf(Tail(queue), h) \/ (Head(queue).run = "drop" /\ Head(queue).handle = h)
  BY <1>t, TailOps, TailCalls, PostedOps DEF HandlesInv
<1>1. ASSUME NEW g \in Handles, Subscribe(g) PROVE SlotInv'
  <2>1. /\ queue' = Append(queue, Task("subscribe", g, 0)) /\ obj[g] = "none"
        /\ obj' = [obj EXCEPT ![g] = "held"] /\ UNCHANGED <<state, active, result>>
    BY <1>1 DEF Subscribe, slotVars
  <2>2. /\ \A h : Waits(queue', h) <=> Waits(queue, h) \/ g = h
        /\ \A h : DropsOf(queue', h) <=> DropsOf(queue, h)
    BY <1>a, <2>1 DEF Kinds
  <2> QED BY <2>1, <2>2 DEF SlotInv, HandlesType
<1>2. ASSUME NEW g \in Handles, Unsubscribe(g) PROVE SlotInv'
  <2>1. /\ queue' = Append(queue, Task("unsubscribe", g, ids + 1)) /\ obj[g] = "held" /\ ids + 1 \in Nat
        /\ obj' = [obj EXCEPT ![g] = "calling"] /\ UNCHANGED <<state, active, result>>
    BY <1>2 DEF Unsubscribe, slotVars, HandlesType
  <2>2. /\ \A h : Waits(queue', h) <=> Waits(queue, h)
        /\ \A h : DropsOf(queue', h) <=> DropsOf(queue, h)
    BY <1>a, <2>1 DEF Kinds
  <2> QED BY <2>1, <2>2 DEF SlotInv, HandlesType
<1>3. ASSUME NEW g \in Handles, Destroy(g) PROVE SlotInv'
  <2>1. /\ IF state[g] # "Closed" THEN queue' = Append(queue, Task("drop", g, 0)) ELSE queue' = queue
        /\ obj[g] = "held" /\ obj' = [obj EXCEPT ![g] = "destroyed"]
        /\ UNCHANGED <<state, active, result>>
    BY <1>3 DEF Destroy, Drop, slotVars
  <2>2. LET q == Append(queue, Task("drop", g, 0)) IN
        /\ \A h : Waits(q, h) <=> Waits(queue, h)
        /\ \A h : DropsOf(q, h) <=> DropsOf(queue, h) \/ g = h
    BY <1>a DEF Kinds
  <2>3. CASE state[g] # "Closed"
    BY <2>1, <2>2, <2>3 DEF SlotInv, HandlesType
  <2>4. CASE state[g] = "Closed"
    <3>1. active # g /\ ~Waits(queue, g)
      BY <2>4 DEF HandlesInv, Fresh
    <3> QED BY <2>1, <2>4, <3>1 DEF SlotInv, HandlesType
  <2> QED BY <2>3, <2>4
<1>4. CASE \A g \in Handles : ~(Subscribe(g) \/ Unsubscribe(g) \/ Destroy(g))
  <2>o. \A h \in Handles : /\ obj'[h] # "none" => obj[h] # "none"
                           /\ obj'[h] = "destroyed" => obj[h] = "destroyed"
    BY <1>4, ObjectStep
  <2>1. CASE Enters(Head(queue).handle)
    <3> DEFINE g == Head(queue).handle
    <3>1. /\ queue # <<>> /\ queue' = Tail(queue) /\ Head(queue).run = "subscribe"
          /\ active = None /\ active' = g /\ ~user_closed[g]
          /\ \A h \in Handles \ {g} : state'[h] = state[h]
      BY <2>1 DEF Enters
    <3>2. obj[g] # "destroyed" /\ g \in Handles /\ Waits(queue, g)
      BY <1>d, <3>1 DEF HandlesInv
    <3>3. \A h \in Handles : obj'[h] = "destroyed" /\ (active' = h \/ Waits(queue', h)) => DropsOf(queue', h)
      BY <1>d, <2>o, <3>1, <3>2 DEF SlotInv
    <3>4. \A h \in Handles : obj'[h] # "none" => Waits(queue', h) \/ active' = h \/ state'[h] = "Closed"
      BY <1>d, <2>o, <3>1, <3>2 DEF SlotInv
    <3>5. \A h \in Handles : result'[h] = "Ok" => state'[h] = "Closed"
      BY <3>1, <3>2, OkStep DEF SlotInv, HandlesInv, Fresh
    <3> QED BY <3>3, <3>4, <3>5 DEF SlotInv
  <2>2. CASE (queue' = queue \/ Dequeues) /\ (SlotKept \/ SlotErased)
    <3>0. \A h \in Handles : state[h] = "Closed" => state'[h] = "Closed"
      BY <1>s, <2>2 DEF SlotKept, SlotErased, HandlesInv
    <3>1. \A h \in Handles : active' = h => active = h
      BY <2>2 DEF SlotKept, SlotErased
    <3>2. \A h \in Handles : active = h => active' = h \/ state'[h] = "Closed"
      BY <1>s, <2>2 DEF SlotKept, SlotErased
    <3>3. \A h \in Handles : Waits(queue', h) => Waits(queue, h)
      BY <1>d, <2>2 DEF Dequeues
    <3>4. \A h \in Handles : Waits(queue, h) => Waits(queue', h) \/ state'[h] = "Closed"
      BY <1>d, <2>2 DEF Dequeues
    <3>5. \A h \in Handles : DropsOf(queue, h) /\ (active' = h \/ Waits(queue', h)) => DropsOf(queue', h)
      BY <1>d, <2>2 DEF Dequeues
    <3>6. \A h \in Handles : obj'[h] = "destroyed" /\ (active' = h \/ Waits(queue', h)) => DropsOf(queue', h)
      BY <2>o, <3>1, <3>3, <3>5 DEF SlotInv
    <3>7. \A h \in Handles : obj'[h] # "none" => Waits(queue', h) \/ active' = h \/ state'[h] = "Closed"
      BY <2>o, <3>0, <3>2, <3>4 DEF SlotInv
    <3>8. ASSUME NEW h \in Handles, result'[h] = "Ok" PROVE state'[h] = "Closed"
      <4>1. CASE result[h] = "Ok"
        BY <3>0, <4>1 DEF SlotInv
      <4>2. CASE result[h] # "Ok"
        BY <3>7, <3>8, <4>2, OkStep
      <4> QED BY <4>1, <4>2
    <3> QED BY <3>6, <3>7, <3>8 DEF SlotInv
  <2> QED BY <1>4, <2>1, <2>2, SlotSteps
<1> QED BY <1>1, <1>2, <1>3, <1>4

-----------------------------------------------------------------------------
(* A careful user has one subscription at a time.                          *)

(* All others ended, in the queue too: each handle's part of it ends with  *)
(* its drop.  So the front of the queue, and a call in flight, are for the *)
(* handle in the map.                                                      *)
CarefulInv == careful =>
  /\ \A g, h \in Handles : ~Ended(g) /\ ~Ended(h) => g = h
  /\ \A h \in Handles : obj[h] = "calling" => result[h] # "Ok"
  /\ Segmented(queue) /\ (active # None => DroppedFirst(queue, active))
  /\ \A c \in inflight : active \in {None, c.handle}
  /\ foreign = {}

(* A handle that ended and is or will be in the map has a drop queued.     *)
LEMMA EndedDropped ==
  ASSUME HandlesType, HandlesInv, SlotInv, NEW h \in Handles, Ended(h), active = h \/ Waits(queue, h)
  PROVE  DropsOf(queue, h)
<1>1. result[h] # "Ok" /\ obj[h] # "none"
  BY DEF HandlesInv, Fresh, For, Waits
<1> QED BY <1>1 DEF Ended, SlotInv

(* So the queue keeps its order when a handle whose fellows all ended adds *)
(* to it.                                                                  *)
LEMMA CarefulAppend ==
  ASSUME HandlesType, HandlesInv, SlotInv, CarefulInv, careful, NEW g \in Handles,
         \A h \in Handles \ {g} : Ended(h), NEW k \in Kinds, NEW n \in Nat
  PROVE  LET q == Append(queue, Task(k, g, n)) IN
         Segmented(q) /\ (active # None => DroppedFirst(q, active))
<1>t. queue \in Seq(AnyTask) /\ Task(k, g, n) \in AnyTask /\ Task(k, g, n).handle = g
  BY QueueTypes DEF HandlesType, AnyTask, Task
<1>1. \A h : Waits(queue, h) => h \in Handles
  <2>1. \A i \in 1 .. Len(queue) : queue[i] \in AnyTask
    BY <1>t
  <2>2. \A e \in AnyTask : e.handle \in Handles
    BY DEF AnyTask
  <2> QED BY <2>1, <2>2 DEF Waits
<1>2. \A h : Waits(queue, h) /\ h # g => DropsOf(queue, h)
  BY <1>1, EndedDropped
<1>3. active # None => active = g \/ DropsOf(queue, active)
  BY EndedDropped DEF HandlesType
<1>4. Segmented(queue) /\ SubscribedFirst(queue) /\ (active # None => DroppedFirst(queue, active))
  BY DEF CarefulInv, HandlesInv
<1> QED BY <1>t, <1>2, <1>3, <1>4, AppendCalls

LEMMA CarefulKept == [Next]_vars => careful' = careful
<1>1. \A h \in Handles : Subscribe(h) \/ Unsubscribe(h) \/ Destroy(h) => careful' = careful
  BY DEF Subscribe, Unsubscribe, Destroy
<1>2. HandleSubscribe \/ HandleDrop \/ HandleUnsubscribe \/ UnsubscribeSendFails => careful' = careful
  BY DEF HandleSubscribe, HandleDrop, HandleUnsubscribe, UnsubscribeSendFails, Dequeue
<1>3. UnsubscribeTimesOut \/ HandleSubscribeAck \/ HandleUnsubscribeReply => careful' = careful
  BY DEF UnsubscribeTimesOut, HandleSubscribeAck, HandleUnsubscribeReply
<1>4. RobotHandles \/ SocketEnds \/ Lose \/ Restore \/ AbortToFatal => careful' = careful
  BY DEF RobotHandles, SocketEnds, Lose, Restore, AbortToFatal
<1>5. UNCHANGED vars => careful' = careful
  BY DEF vars
<1> QED BY <1>1, <1>2, <1>3, <1>4, <1>5 DEF Next, Control

(* One subscription at a time.                                             *)
LEMMA OneAtATime ==
  ASSUME HandlesType, CallInv, NameInv, CarefulInv, careful, [Next]_vars
  PROVE  /\ \A g, h \in Handles : ~Ended(g)' /\ ~Ended(h)' => g = h
         /\ \A h \in Handles : obj'[h] = "calling" => result'[h] # "Ok"
<1>1. /\ \A g, h \in Handles : ~Ended(g) /\ ~Ended(h) => g = h
      /\ \A h \in Handles : obj[h] = "calling" => result[h] # "Ok"
  BY DEF CarefulInv
<1>2. ASSUME NEW h \in Handles PROVE Ended(h) => Ended(h)' \/ Subscribe(h)
  <2>1. Unsubscribe(h) => ~Ended(h)
    BY DEF Unsubscribe, Ended
  <2> QED BY <1>1, <2>1, ObjectStep DEF Ended
<1>3. ASSUME NEW h \in Handles, obj'[h] = "calling" PROVE result'[h] # "Ok"
  <2>1. Unsubscribe(h) => result[h] # "Ok"
    BY DEF Unsubscribe
  <2> QED BY <1>1, <1>3, <2>1, ObjectStep
<1>4. ASSUME NEW g \in Handles, NEW h \in Handles, Subscribe(g), ~Ended(h)' PROVE h = g
  BY <1>4 DEF Subscribe, Ended, HandlesType
<1> QED BY <1>1, <1>2, <1>3, <1>4

(* The queue keeps its order.                                              *)
LEMMA KeptSegmented ==
  ASSUME HandlesType, HandlesInv, CallInv, NameInv, SlotInv, CarefulInv, careful, [Next]_vars
  PROVE  Segmented(queue') /\ (active' # None => DroppedFirst(queue', active'))
<1> USE HandlesAssumption
<1>t. queue \in Seq(AnyTask)
  BY QueueTypes DEF HandlesType
<1>c. /\ \A g, h \in Handles : ~Ended(g) /\ ~Ended(h) => g = h
      /\ Segmented(queue) /\ (active # None => DroppedFirst(queue, active))
  BY DEF CarefulInv
<1>1. ASSUME NEW g \in Handles, Subscribe(g)
      PROVE  Segmented(queue') /\ (active' # None => DroppedFirst(queue', active'))
  <2>1. /\ queue' = Append(queue, Task("subscribe", g, 0)) /\ UNCHANGED active
        /\ \A h \in Handles : Ended(h)
    BY <1>1 DEF Subscribe, slotVars
  <2> QED BY <2>1, CarefulAppend DEF Kinds
<1>2. ASSUME NEW g \in Handles, Unsubscribe(g)
      PROVE  Segmented(queue') /\ (active' # None => DroppedFirst(queue', active'))
  <2>1. /\ queue' = Append(queue, Task("unsubscribe", g, ids + 1)) /\ UNCHANGED active
        /\ ~Ended(g) /\ ids + 1 \in Nat
    BY <1>2 DEF Unsubscribe, slotVars, Ended, HandlesType
  <2>2. \A h \in Handles \ {g} : Ended(h)
    BY <1>c, <2>1
  <2> QED BY <2>1, <2>2, CarefulAppend DEF Kinds
<1>3. ASSUME NEW g \in Handles, Destroy(g)
      PROVE  Segmented(queue') /\ (active' # None => DroppedFirst(queue', active'))
  <2>1. UNCHANGED active
    BY <1>3 DEF Destroy, slotVars
  <2>2. CASE state[g] = "Closed"
    BY <1>3, <1>c, <2>1, <2>2 DEF Destroy, Drop
  <2>3. CASE state[g] # "Closed"
    <3>1. queue' = Append(queue, Task("drop", g, 0)) /\ ~Ended(g)
      BY <1>3, <2>3 DEF Destroy, Drop, Ended, SlotInv
    <3>2. \A h \in Handles \ {g} : Ended(h)
      BY <1>c, <3>1
    <3> QED BY <2>1, <3>1, <3>2, CarefulAppend DEF Kinds
  <2> QED BY <2>2, <2>3
<1>4. CASE \A g \in Handles : ~(Subscribe(g) \/ Unsubscribe(g) \/ Destroy(g))
  <2>1. queue # <<>> =>
          /\ Segmented(Tail(queue))
          /\ Head(queue).run = "subscribe" => DroppedFirst(Tail(queue), Head(queue).handle)
          /\ active # None /\ Head(queue).run # "drop" => DroppedFirst(Tail(queue), active)
    BY <1>t, <1>c, TailCalls
  <2>2. CASE Enters(Head(queue).handle)
    BY <2>1, <2>2 DEF Enters
  <2>3. CASE (queue' = queue \/ Dequeues) /\ (SlotKept \/ SlotErased)
    <3>1. active' # None => active' = active
      BY <2>3 DEF SlotKept, SlotErased
    <3> QED BY <1>c, <2>1, <2>3, <3>1 DEF Dequeues
  <2> QED BY <1>4, <2>2, <2>3, SlotSteps
<1> QED BY <1>1, <1>2, <1>3, <1>4

(* With such a queue, what is handled first is for the handle in the map.  *)
LEMMA FrontIsActive ==
  ASSUME HandlesType, CarefulInv, careful, queue # <<>>, active # None
  PROVE  Head(queue).handle = active
<1>1. queue \in Seq(AnyTask)
  BY QueueTypes DEF HandlesType
<1>2. DroppedFirst(queue, active)
  BY DEF CarefulInv
<1> QED BY <1>1, <1>2, TailCalls

(* No call is in flight when a slot enters the map.                        *)
LEMMA EntersAlone ==
  ASSUME HandlesType, HandlesInv, CallInv, CarefulInv, careful, queue # <<>>,
         Head(queue).run = "subscribe", ~user_closed[Head(queue).handle]
  PROVE  inflight = {}
<1> DEFINE g == Head(queue).handle
<1>1. queue \in Seq(AnyTask)
  BY QueueTypes DEF HandlesType
<1>2. g \in Handles /\ Waits(queue, g)
  BY <1>1, TailOps, PostedOps
<1>3. Fresh(g) /\ obj[g] # "destroyed"
  BY <1>2 DEF HandlesInv
<1>4. obj[g] # "none"
  BY <1>2 DEF HandlesInv, For, Waits
<1>5. ~Ended(g)
  BY <1>3, <1>4 DEF Ended, Fresh
<1>6. ASSUME NEW c \in inflight PROVE FALSE
  <2>1. c.handle \in Handles /\ obj[c.handle] = "calling"
    BY DEF HandlesType, UnsubscribeCalls, CallInv
  <2>2. ~Ended(c.handle)
    BY <2>1 DEF Ended, CarefulInv
  <2>3. c.handle = g
    BY <1>2, <1>5, <2>1, <2>2 DEF CarefulInv
  <2> QED BY <1>3, <2>3 DEF Fresh, SentFor
<1> QED BY <1>6

(* A call in flight is for the handle in the map, and every slot is taken  *)
(* down for its own handle.                                                *)
LEMMA OwnCalls ==
  ASSUME HandlesType, HandlesInv, CallInv, NameInv, CarefulInv, careful, [Next]_vars
  PROVE  (\A c \in inflight' : active' \in {None, c.handle}) /\ foreign' = {}
<1> USE HandlesAssumption
<1>c. (\A c \in inflight : active \in {None, c.handle}) /\ foreign = {}
  BY DEF CarefulInv
<1>1. ASSUME inflight' \subseteq inflight, active' \in {None, active}, UNCHANGED foreign
      PROVE  (\A c \in inflight' : active' \in {None, c.handle}) /\ foreign' = {}
  BY <1>1, <1>c
<1>2. ASSUME NEW by, Erase(by), by = active
      PROVE  (\A c \in inflight' : active' \in {None, c.handle}) /\ foreign' = {}
  BY <1>2, <1>c DEF Erase
<1>3. ASSUME NEW g \in Handles, Subscribe(g) \/ Unsubscribe(g) \/ Destroy(g)
      PROVE  (\A c \in inflight' : active' \in {None, c.handle}) /\ foreign' = {}
  BY <1>1, <1>3 DEF Subscribe, Unsubscribe, Destroy, slotVars
<1>4. CASE HandleSubscribe
  <2>1. /\ queue # <<>> /\ Head(queue).run = "subscribe" /\ UNCHANGED foreign
        /\ inflight' = inflight \/ inflight' = {}
    BY <1>4 DEF HandleSubscribe, Dequeue, OnTransportClose
  <2>2. CASE user_closed[Head(queue).handle] \/ active # None
    <3>1. UNCHANGED active
      BY <1>4, <2>2 DEF HandleSubscribe
    <3> QED BY <1>1, <2>1, <3>1
  <2>3. CASE ~user_closed[Head(queue).handle] /\ active = None
    <3>1. inflight = {}
      BY <2>1, <2>3, EntersAlone
    <3> QED BY <1>c, <2>1, <3>1
  <2> QED BY <2>2, <2>3
<1>5. CASE HandleDrop
  <2>1. queue # <<>> /\ UNCHANGED inflight
    BY <1>5 DEF HandleDrop, Dequeue
  <2>2. CASE active = None
    BY <1>1, <1>5, <2>1, <2>2 DEF HandleDrop, slotVars
  <2>3. CASE active # None
    BY <1>2, <1>5, <2>1, <2>3, FrontIsActive DEF HandleDrop
  <2> QED BY <2>2, <2>3
<1>6. CASE HandleUnsubscribe
  <2>1. queue # <<>>
    BY <1>6 DEF HandleUnsubscribe, Dequeue
  <2>2. CASE active = None
    BY <1>1, <1>6, <2>2 DEF HandleUnsubscribe, slotVars
  <2>3. CASE active # None
    <3>1. Head(queue).handle = active
      BY <2>1, <2>3, FrontIsActive
    <3>2. CASE conn # "Ready"
      BY <1>2, <1>6, <2>3, <3>1, <3>2 DEF HandleUnsubscribe
    <3>3. CASE conn = "Ready"
      <4>1. /\ inflight' = inflight \cup {[handle |-> Head(queue).handle, id |-> Head(queue).id]}
            /\ UNCHANGED <<active, foreign>>
        BY <1>6, <2>3, <3>3 DEF HandleUnsubscribe
      <4> QED BY <1>c, <3>1, <4>1
    <3> QED BY <3>2, <3>3
  <2> QED BY <2>2, <2>3
<1>7. CASE UnsubscribeSendFails \/ UnsubscribeTimesOut
  BY <1>1, <1>7 DEF UnsubscribeSendFails, UnsubscribeTimesOut, slotVars
<1>8. CASE HandleSubscribeAck
  <2>1. UNCHANGED inflight
    BY <1>8 DEF HandleSubscribeAck
  <2>2. UNCHANGED <<active, foreign>> \/ (Head(back).handle = active /\ Erase(Head(back).handle))
    BY <1>8 DEF HandleSubscribeAck, slotVars
  <2> QED BY <1>1, <1>2, <2>1, <2>2
<1>9. CASE HandleUnsubscribeReply
  <2> DEFINE calls == {c \in inflight : c.id = Head(back).id}
  <2>1. back # <<>> /\ inflight' \subseteq inflight
    BY <1>9 DEF HandleUnsubscribeReply, Reply
  <2>2. CASE calls = {} \/ active = None
    BY <1>1, <1>9, <2>1, <2>2 DEF HandleUnsubscribeReply, ReplyErases
  <2>3. CASE calls # {} /\ active # None
    <3>1. Erase(Head(back).handle)
      BY <1>9, <2>3 DEF HandleUnsubscribeReply, ReplyErases
    <3>2. PICK c \in inflight : c.id = Head(back).id
      BY <2>3
    <3>3. c.handle = Head(back).handle
      BY <2>1, <3>2, ReplyNamesCaller
    <3> QED BY <1>2, <1>c, <2>3, <3>1, <3>2, <3>3
  <2> QED BY <2>2, <2>3
<1>10. CASE RobotHandles \/ SocketEnds \/ Restore \/ UNCHANGED vars
  BY <1>1, <1>10 DEF RobotHandles, SocketEnds, Restore, vars, slotVars
<1>11. CASE Lose
  BY <1>1, <1>11 DEF Lose, OnTransportClose
<1>12. CASE AbortToFatal
  BY <1>1, <1>2, <1>12 DEF AbortToFatal
<1> QED
  BY <1>3, <1>4, <1>5, <1>6, <1>7, <1>8, <1>9, <1>10, <1>11, <1>12 DEF Next, Control

LEMMA CarefulStep ==
  HandlesType /\ HandlesInv /\ CallInv /\ NameInv /\ SlotInv /\ CarefulInv /\ [Next]_vars => CarefulInv'
<1> SUFFICES ASSUME HandlesType, HandlesInv, CallInv, NameInv, SlotInv, CarefulInv, [Next]_vars, careful'
             PROVE  CarefulInv'
  BY DEF CarefulInv
<1>1. careful
  BY CarefulKept
<1>2. /\ \A g, h \in Handles : ~Ended(g)' /\ ~Ended(h)' => g = h
      /\ \A h \in Handles : obj'[h] = "calling" => result'[h] # "Ok"
  BY <1>1, OneAtATime
<1>3. Segmented(queue') /\ (active' # None => DroppedFirst(queue', active'))
  BY <1>1, KeptSegmented
<1>4. (\A c \in inflight' : active' \in {None, c.handle}) /\ foreign' = {}
  BY <1>1, OwnCalls
<1> QED BY <1>2, <1>3, <1>4 DEF CarefulInv

(* All of it holds from the start.                                         *)
OwnerInv == CallInv /\ NameInv /\ SlotInv /\ CarefulInv

LEMMA OwnerCorrect == Spec => []OwnerInv
<1>1. Init => OwnerInv
  <2> SUFFICES ASSUME Init PROVE OwnerInv
    OBVIOUS
  <2>1. /\ queue = <<>> /\ wire = <<>> /\ back = <<>> /\ inflight = {} /\ active = None /\ foreign = {}
        /\ obj = [h \in Handles |-> "none"] /\ result = [h \in Handles |-> "none"]
    BY DEF Init
  <2>2. OneCall(<<>>) /\ Segmented(<<>>)
        /\ \A h : ~Calls(<<>>, h) /\ ~Waits(<<>>, h) /\ \A n : ~Mentions(<<>>, h, n)
    BY DEF OneCall, Segmented, Calls, Waits, Mentions
  <2>3. CallInv /\ NameInv
    BY <2>1, <2>2 DEF CallInv, NameInv, Known
  <2>4. SlotInv
    BY <2>1, <2>2, HandlesAssumption DEF SlotInv
  <2>5. CarefulInv
    BY <2>1, <2>2 DEF CarefulInv, Ended
  <2> QED BY <2>3, <2>4, <2>5 DEF OwnerInv
<1>2. HandlesType /\ HandlesInv /\ OwnerInv /\ [Next]_vars => OwnerInv'
  BY NameStep, CallStep, SlotStep, CarefulStep DEF OwnerInv
<1> QED
  BY <1>1, <1>2, HandlesTypeCorrect, InvCorrect, PTL DEF Spec

(* For any number of handles, calls and losses: a user who ends each       *)
(* subscription before making the next one never loses one to a late drop  *)
(* or a late reply for another, although these name the topic only.        *)
THEOREM OwnSlotTaken == Spec => []OwnSlotOnly
<1>1. OwnerInv => OwnSlotOnly
  BY DEF OwnerInv, CarefulInv, OwnSlotOnly
<1> QED
  BY <1>1, OwnerCorrect, PTL

-----------------------------------------------------------------------------
(* What the robot is told.                                                 *)

(* After all that is in w the robot, serving now or not, does not serve;   *)
(* it is never asked to serve a topic that it serves; w has one            *)
(* subscription of each handle, and ends with none but that of h.          *)
Quiet(w, now) == IF w = <<>> THEN now = FALSE ELSE w[Len(w)].run = "unsubscribe"
Alternates(w, now) ==
  \A i \in 1 .. Len(w) : w[i].run = "subscribe" =>
    IF i = 1 THEN now = FALSE ELSE w[i - 1].run = "unsubscribe"
OneEach(w) ==
  \A i, j \in 1 .. Len(w) :
    w[i].run = "subscribe" /\ w[j].run = "subscribe" /\ w[i].handle = w[j].handle => i = j
LastFor(w, h) == w # <<>> /\ w[Len(w)].run = "subscribe" => w[Len(w)].handle = h
Refuses(q, h) == \E i \in 1 .. Len(q) : q[i].run = "refused" /\ q[i].handle = h

LEMMA WireAppend ==
  ASSUME NEW q \in Seq(AnyTask), NEW e \in AnyTask, NEW now
  PROVE  /\ e.run = "unsubscribe" => Quiet(Append(q, e), now)
         /\ Alternates(q, now) /\ (e.run = "unsubscribe" \/ Quiet(q, now))
              => Alternates(Append(q, e), now)
         /\ OneEach(q) /\ (e.run = "subscribe" => ~For(q, e.handle)) => OneEach(Append(q, e))
         /\ \A h : e.run = "unsubscribe" \/ e.handle = h => LastFor(Append(q, e), h)
<1> DEFINE a == Append(q, e)
           n == Len(q)
<1>1. n \in Nat /\ Len(a) = n + 1 /\ a[n + 1] = e /\ a # <<>> /\ \A i \in 1 .. n : a[i] = q[i]
  OBVIOUS
<1>0. n = 0 => q = <<>>
  OBVIOUS
<1> HIDE DEF a
<1>2. 1 .. Len(a) = (1 .. n) \cup {n + 1}
  BY <1>1
<1>3. e.run = "unsubscribe" => Quiet(a, now)
  BY <1>1 DEF Quiet
<1>4. ASSUME Alternates(q, now), e.run = "unsubscribe" \/ Quiet(q, now) PROVE Alternates(a, now)
  <2> SUFFICES ASSUME NEW i \in 1 .. Len(a), a[i].run = "subscribe"
               PROVE  IF i = 1 THEN now = FALSE ELSE a[i - 1].run = "unsubscribe"
    BY DEF Alternates
  <2>1. CASE i \in 1 .. n
    <3>1. IF i = 1 THEN now = FALSE ELSE q[i - 1].run = "unsubscribe"
      BY <1>1, <1>4, <2>1 DEF Alternates
    <3>2. i # 1 => i - 1 \in 1 .. n
      BY <1>1, <2>1
    <3> QED BY <1>1, <3>1, <3>2
  <2>2. CASE i = n + 1
    <3>1. Quiet(q, now)
      BY <1>1, <1>4, <2>2
    <3>2. CASE n = 0
      BY <1>0, <2>2, <3>1, <3>2 DEF Quiet
    <3>3. CASE n # 0
      BY <1>1, <2>2, <3>1, <3>3 DEF Quiet
    <3> QED BY <3>2, <3>3
  <2> QED BY <1>2, <2>1, <2>2
<1>5. OneEach(q) /\ (e.run = "subscribe" => ~For(q, e.handle)) => OneEach(a)
  BY <1>1, <1>2 DEF OneEach, For
<1>6. \A h : e.run = "unsubscribe" \/ e.handle = h => LastFor(a, h)
  BY <1>1 DEF LastFor
<1> QED
  BY <1>3, <1>4, <1>5, <1>6 DEF a

(* The robot handles the first request, after which it serves or not.  A   *)
(* subscription it refuses leaves it silent.                               *)
LEMMA WireTail ==
  ASSUME NEW q \in Requests, q # <<>>, NEW now, NEW then, Head(q).run = "unsubscribe" => then = FALSE
  PROVE  /\ Quiet(q, now) => Quiet(Tail(q), then)
         /\ Alternates(q, now) => Alternates(Tail(q), then)
         /\ OneEach(q) => OneEach(Tail(q))
         /\ \A h : LastFor(q, h) => LastFor(Tail(q), h)
         /\ Head(q).run = "subscribe" /\ then = now /\ LastFor(q, Head(q).handle)
              /\ OneEach(q) /\ Alternates(q, now) => Quiet(Tail(q), then)
<1> DEFINE t == Tail(q)
           n == Len(q)
<1>0. q \in Seq([run : {"subscribe", "unsubscribe"}, handle : Handles, id : Nat])
  BY DEF Requests, Tasks
<1>1. /\ n \in Nat /\ n >= 1 /\ Len(t) = n - 1 /\ Head(q) = q[1]
      /\ \A i \in 1 .. n - 1 : t[i] = q[i + 1]
  BY <1>0
<1>2. \A i \in 1 .. n : q[i].run \in {"subscribe", "unsubscribe"}
  <2> DEFINE T == [run : {"subscribe", "unsubscribe"}, handle : Handles, id : Nat]
  <2>1. \A e \in T : e.run \in {"subscribe", "unsubscribe"}
    OBVIOUS
  <2>0. q \in Seq(T)
    BY <1>0
  <2> HIDE DEF T
  <2>2. \A i \in 1 .. n : q[i] \in T
    BY <2>0
  <2> QED BY <2>1, <2>2
<1>3. (n = 1 => t = <<>>) /\ (n # 1 => t # <<>>)
  <2>1. t \in Seq([run : {"subscribe", "unsubscribe"}, handle : Handles, id : Nat])
    BY <1>0
  <2>2. Len(t) = 0 <=> t = <<>>
    BY <2>1, EmptySeq
  <2> QED BY <1>1, <2>2
<1> HIDE DEF t
<1>4. n # 1 => t # <<>> /\ Len(t) \in 1 .. n - 1 /\ t[Len(t)] = q[n]
  BY <1>1, <1>3
<1>5. Quiet(q, now) => Quiet(t, then)
  <2>1. CASE n = 1
    BY <1>1, <1>3, <2>1 DEF Quiet
  <2>2. CASE n # 1
    BY <1>4, <2>2 DEF Quiet
  <2> QED BY <2>1, <2>2
<1>6. ASSUME Alternates(q, now) PROVE Alternates(t, then)
  <2> SUFFICES ASSUME NEW i \in 1 .. Len(t), t[i].run = "subscribe"
               PROVE  IF i = 1 THEN then = FALSE ELSE t[i - 1].run = "unsubscribe"
    BY DEF Alternates
  <2>1. i + 1 \in 1 .. n /\ i + 1 # 1 /\ t[i] = q[i + 1] /\ (i + 1) - 1 = i
    BY <1>1
  <2>2. q[i].run = "unsubscribe"
    BY <1>6, <2>1 DEF Alternates
  <2>3. i # 1 => i - 1 \in 1 .. n - 1 /\ (i - 1) + 1 = i
    BY <1>1
  <2> QED BY <1>1, <2>2, <2>3
<1>7. ASSUME OneEach(q) PROVE OneEach(t)
  <2>1. ASSUME NEW i \in 1 .. Len(t), NEW j \in 1 .. Len(t), t[i].run = "subscribe",
               t[j].run = "subscribe", t[i].handle = t[j].handle
        PROVE  i = j
    <3>1. i + 1 \in 1 .. n /\ j + 1 \in 1 .. n /\ t[i] = q[i + 1] /\ t[j] = q[j + 1]
      BY <1>1
    <3>2. i + 1 = j + 1
      BY <1>7, <2>1, <3>1 DEF OneEach
    <3> QED BY <3>2
  <2> QED BY <2>1 DEF OneEach
<1>8. \A h : LastFor(q, h) => LastFor(t, h)
  BY <1>3, <1>4 DEF LastFor
<1>9. ASSUME Head(q).run = "subscribe", then = now, LastFor(q, Head(q).handle), OneEach(q),
             Alternates(q, now)
      PROVE  Quiet(t, then)
  <2>1. CASE n = 1
    <3>1. now = FALSE
      BY <1>1, <1>9 DEF Alternates
    <3> QED BY <1>3, <1>9, <2>1, <3>1 DEF Quiet
  <2>2. CASE n # 1
    <3>1. q[n].run # "subscribe"
      <4>1. SUFFICES ASSUME q[n].run = "subscribe" PROVE FALSE
        OBVIOUS
      <4>2. q[n].handle = Head(q).handle
        BY <1>9, <4>1 DEF LastFor
      <4>3. 1 = n
        BY <1>1, <1>9, <4>1, <4>2 DEF OneEach
      <4> QED BY <2>2, <4>3
    <3>2. q[n].run = "unsubscribe"
      BY <1>1, <1>2, <3>1
    <3> QED BY <1>4, <2>2, <3>2 DEF Quiet
  <2> QED BY <2>1, <2>2
<1> QED
  BY <1>5, <1>6, <1>7, <1>8, <1>9 DEF t

LEMMA RefusesAppend ==
  ASSUME NEW q \in Seq(AnyTask), NEW e \in AnyTask
  PROVE  \A h : Refuses(Append(q, e), h) => Refuses(q, h) \/ (e.run = "refused" /\ e.handle = h)
<1> DEFINE a == Append(q, e)
           n == Len(q)
<1>1. n \in Nat /\ Len(a) = n + 1 /\ a[n + 1] = e /\ \A i \in 1 .. n : a[i] = q[i]
  OBVIOUS
<1> HIDE DEF a
<1>2. 1 .. Len(a) = (1 .. n) \cup {n + 1}
  BY <1>1
<1>3. \A h : Refuses(a, h) => Refuses(q, h) \/ (e.run = "refused" /\ e.handle = h)
  BY <1>1, <1>2 DEF Refuses
<1> QED BY <1>3 DEF a

LEMMA RefusesTail ==
  ASSUME NEW q \in Seq(AnyTask), q # <<>>
  PROVE  /\ Head(q).run = "refused" => Refuses(q, Head(q).handle)
         /\ \A h : Refuses(Tail(q), h) => Refuses(q, h)
<1>1. /\ Len(q) \in Nat /\ Len(q) >= 1 /\ Len(Tail(q)) = Len(q) - 1 /\ Head(q) = q[1]
      /\ \A i \in 1 .. Len(q) - 1 : Tail(q)[i] = q[i + 1]
  OBVIOUS
<1>2. \A i \in 1 .. Len(Tail(q)) : i + 1 \in 1 .. Len(q) /\ Tail(q)[i] = q[i + 1]
  BY <1>1
<1> QED BY <1>1, <1>2 DEF Refuses

LEMMA EmptyWire ==
  /\ Quiet(<<>>, FALSE) /\ \A now : Alternates(<<>>, now)
  /\ OneEach(<<>>) /\ \A h : LastFor(<<>>, h) /\ ~Refuses(<<>>, h)
  BY DEF Quiet, Alternates, OneEach, LastFor, Refuses

(* What a connection in each state has under way; and a handle of which    *)
(* the robot has been told was subscribed before.                          *)
LinkInv ==
  /\ conn \notin {"Ready", "Restoring"} => wire = <<>> /\ serving = FALSE
  /\ conn \in {"Down", "Fatal"} => back = <<>>
  /\ conn \in {"Down", "Restoring", "Fatal"} => inflight = {}
  /\ conn \in {"Down", "Restoring"} => \A h \in Handles : unsubscribe_sent[h] => h \in stale
  /\ \A h \in Handles : Waits(queue, h) \/ obj[h] = "none" => ~unsubscribe_sent[h]
  /\ OneEach(wire)

LEMMA LinkStep == HandlesType /\ HandlesInv /\ CallInv /\ LinkInv /\ [Next]_vars => LinkInv'
<1> SUFFICES ASSUME HandlesType, HandlesInv, CallInv, LinkInv, [Next]_vars PROVE LinkInv'
  OBVIOUS
<1> USE HandlesAssumption
<1>t. queue \in Seq(AnyTask) /\ wire \in Seq(AnyTask) /\ back \in Seq(AnyTask)
  BY QueueTypes DEF HandlesType
<1>k. \A k \in Kinds, h \in Handles, n \in Nat :
        Task(k, h, n) \in AnyTask /\ Task(k, h, n).run = k /\ Task(k, h, n).handle = h
  BY DEF AnyTask, Task
<1>w. \A k \in Kinds, h \in Handles, n \in Nat :
        (k = "subscribe" => ~For(wire, h)) => OneEach(Append(wire, Task(k, h, n)))
  BY <1>t, <1>k, WireAppend DEF LinkInv
<1>d. queue # <<>> => /\ Head(queue).handle \in Handles
                      /\ Head(queue).run = "subscribe" => Waits(queue, Head(queue).handle)
                      /\ \A h : Waits(Tail(queue), h) => Waits(queue, h)
  BY <1>t, TailOps, PostedOps
<1>e. OneEach(<<>>)
  BY EmptyWire
<1>s. unsubscribe_sent \in [Handles -> BOOLEAN] /\ active \in Handles \cup {None}
  BY DEF HandlesType, FlagsType
(* A handle is told of, once it was subscribed.                            *)
<1>1. ASSUME \A h \in Handles : Waits(queue', h) \/ obj'[h] = "none" => Waits(queue, h) \/ obj[h] = "none",
             \/ UNCHANGED unsubscribe_sent
             \/ active \in Handles /\ unsubscribe_sent' = [unsubscribe_sent EXCEPT ![active] = TRUE]
      PROVE  \A h \in Handles : Waits(queue', h) \/ obj'[h] = "none" => ~unsubscribe_sent'[h]
  <2>1. active \in Handles => ~Waits(queue, active) /\ obj[active] # "none"
    BY DEF HandlesInv, Fresh
  <2>2. \A h \in Handles : Waits(queue, h) \/ obj[h] = "none" => ~unsubscribe_sent[h]
    BY DEF LinkInv
  <2> QED BY <1>1, <1>s, <2>1, <2>2
<1>2. ASSUME NEW h \in Handles, Subscribe(h) \/ Unsubscribe(h) \/ Destroy(h) PROVE LinkInv'
  <2>1. UNCHANGED <<conn, wire, back, serving, stale, inflight, unsubscribe_sent>>
    BY <1>2 DEF Subscribe, Unsubscribe, Destroy, linkVars, slotVars
  <2>a. \A k \in Kinds, n \in Nat : \A g :
          Waits(Append(queue, Task(k, h, n)), g) <=> Waits(queue, g) \/ (k = "subscribe" /\ h = g)
    BY <1>t, <1>k, AppendOps
  <2>2. ids + 1 \in Nat /\ obj \in [Handles -> Objects]
    BY DEF HandlesType
  <2>3. \A g \in Handles : Waits(queue', g) \/ obj'[g] = "none" => Waits(queue, g) \/ obj[g] = "none"
    <3>1. CASE Subscribe(h)
      BY <2>a, <2>2, <3>1 DEF Subscribe, Kinds
    <3>2. CASE Unsubscribe(h)
      <4>1. \A g : Waits(queue', g) <=> Waits(queue, g)
        BY <2>a, <2>2, <3>2 DEF Unsubscribe, Kinds
      <4> QED BY <2>2, <3>2, <4>1 DEF Unsubscribe
    <3>3. CASE Destroy(h)
      <4>1. \A g : Waits(Append(queue, Task("drop", h, 0)), g) <=> Waits(queue, g)
        BY <2>a DEF Kinds
      <4>2. \A g : Waits(queue', g) <=> Waits(queue, g)
        BY <3>3, <4>1 DEF Destroy, Drop
      <4> QED BY <2>2, <3>3, <4>2 DEF Destroy
    <3> QED BY <1>2, <3>1, <3>2, <3>3
  <2>4. \A g \in Handles : Waits(queue', g) \/ obj'[g] = "none" => ~unsubscribe_sent'[g]
    BY <1>1, <2>1, <2>3
  <2> QED BY <2>1, <2>4 DEF LinkInv
<1>3. ASSUME \/ UNCHANGED obj
             \/ \E hs, r : Return(hs, r),
             queue' = queue \/ (queue # <<>> /\ queue' = Tail(queue)),
             \/ UNCHANGED unsubscribe_sent
             \/ active \in Handles /\ unsubscribe_sent' = [unsubscribe_sent EXCEPT ![active] = TRUE]
      PROVE  \A h \in Handles : Waits(queue', h) \/ obj'[h] = "none" => ~unsubscribe_sent'[h]
  <2>1. \A h \in Handles : obj'[h] = "none" => obj[h] = "none"
    BY <1>3 DEF Return
  <2>2. \A h \in Handles : Waits(queue', h) => Waits(queue, h)
    BY <1>d, <1>3
  <2> QED BY <1>1, <1>3, <2>1, <2>2
<1>4. ASSUME NEW slot, OnTransportClose(slot), UNCHANGED unsubscribe_sent,
             queue' = queue \/ (queue # <<>> /\ queue' = Tail(queue))
      PROVE  LinkInv'
  <2>1. /\ conn' = "Down" /\ inflight' = {} /\ wire' = <<>> /\ back' = <<>> /\ serving' = FALSE
        /\ stale' = {h \in Handles : unsubscribe_sent[h]}
        /\ Return({c.handle : c \in inflight}, "TransportFailure")
    BY <1>4 DEF OnTransportClose
  <2>2. \A h \in Handles : Waits(queue', h) \/ obj'[h] = "none" => ~unsubscribe_sent'[h]
    BY <1>3, <1>4, <2>1
  <2>3. \A h \in Handles : unsubscribe_sent'[h] => h \in stale'
    BY <1>4, <2>1
  <2> QED BY <1>e, <2>1, <2>2, <2>3 DEF LinkInv
<1>5. CASE HandleSubscribe
  <2> DEFINE h == Head(queue).handle
  <2>1. /\ queue # <<>> /\ queue' = Tail(queue) /\ Head(queue).run = "subscribe"
        /\ UNCHANGED unsubscribe_sent
    BY <1>5 DEF HandleSubscribe, Dequeue
  <2>2. CASE user_closed[h] \/ active # None
    <3>1. UNCHANGED <<obj, inflight, conn, wire, back, serving, stale>>
      BY <1>5, <2>2 DEF HandleSubscribe, linkVars
    <3>2. \A g \in Handles : Waits(queue', g) \/ obj'[g] = "none" => ~unsubscribe_sent'[g]
      BY <1>3, <2>1, <3>1
    <3> QED BY <2>1, <3>1, <3>2 DEF LinkInv
  <2>3. CASE ~(user_closed[h] \/ active # None) /\ conn = "Dead"
    BY <1>4, <1>5, <2>1, <2>3 DEF HandleSubscribe
  <2>4. CASE ~(user_closed[h] \/ active # None) /\ conn # "Dead"
    <3>1. /\ UNCHANGED <<obj, inflight, conn, back, serving, stale>>
          /\ wire' = IF conn = "Ready" THEN Append(wire, Task("subscribe", h, 0)) ELSE wire
      BY <1>5, <2>4 DEF HandleSubscribe, Ready
    <3>2. \A g \in Handles : Waits(queue', g) \/ obj'[g] = "none" => ~unsubscribe_sent'[g]
      BY <1>3, <2>1, <3>1
    <3>3. ~For(wire, h) /\ h \in Handles
      BY <1>d, <2>1 DEF HandlesInv, Fresh, SentFor
    <3>4. OneEach(Append(wire, Task("subscribe", h, 0)))
      BY <1>w, <3>3 DEF Kinds
    <3> HIDE DEF h
    <3> QED BY <2>1, <3>1, <3>2, <3>4 DEF LinkInv
  <2> QED BY <2>2, <2>3, <2>4
<1>6. CASE HandleDrop
  <2>1. /\ queue # <<>> /\ queue' = Tail(queue)
        /\ UNCHANGED <<obj, inflight, conn, back, serving, stale>>
    BY <1>6 DEF HandleDrop, Dequeue
  <2>2. \/ UNCHANGED <<wire, unsubscribe_sent>>
        \/ /\ active # None /\ conn = "Ready"
           /\ wire' = Append(wire, Task("unsubscribe", active, 0))
           /\ unsubscribe_sent' = [unsubscribe_sent EXCEPT ![active] = TRUE]
    BY <1>6 DEF HandleDrop, Tell, slotVars
  <2>3. \A g \in Handles : Waits(queue', g) \/ obj'[g] = "none" => ~unsubscribe_sent'[g]
    BY <1>3, <1>s, <2>1, <2>2
  <2>4. active # None => OneEach(Append(wire, Task("unsubscribe", active, 0)))
    BY <1>s, <1>w DEF Kinds
  <2> QED BY <2>1, <2>2, <2>3, <2>4 DEF LinkInv
<1>7. CASE HandleUnsubscribe
  <2> DEFINE h == Head(queue).handle
             id == Head(queue).id
  <2>1. /\ queue # <<>> /\ queue' = Tail(queue) /\ UNCHANGED <<conn, back, serving, stale>>
        /\ h \in Handles /\ id \in Nat
    BY <1>7, PostedOps DEF HandleUnsubscribe, Dequeue
  <2>2. CASE active = None \/ conn # "Ready"
    <3>1. /\ UNCHANGED <<inflight, wire, unsubscribe_sent>>
          /\ \E hs, r : Return(hs, r)
      BY <1>7, <2>2 DEF HandleUnsubscribe, slotVars
    <3>2. \A g \in Handles : Waits(queue', g) \/ obj'[g] = "none" => ~unsubscribe_sent'[g]
      BY <1>3, <2>1, <3>1
    <3> QED BY <2>1, <3>1, <3>2 DEF LinkInv
  <2>3. CASE active # None /\ conn = "Ready"
    <3>1. /\ UNCHANGED obj /\ wire' = Append(wire, Task("unsubscribe", h, id))
          /\ unsubscribe_sent' = [unsubscribe_sent EXCEPT ![active] = TRUE]
      BY <1>7, <2>3 DEF HandleUnsubscribe
    <3>2. \A g \in Handles : Waits(queue', g) \/ obj'[g] = "none" => ~unsubscribe_sent'[g]
      BY <1>3, <1>s, <2>1, <2>3, <3>1
    <3>3. OneEach(wire')
      BY <1>w, <2>1, <3>1 DEF Kinds
    <3> QED BY <2>1, <2>3, <3>2, <3>3 DEF LinkInv
  <2> QED BY <2>2, <2>3
<1>8. CASE UnsubscribeSendFails
  <2>1. /\ queue # <<>> /\ queue' = Tail(queue) /\ \E hs, r : Return(hs, r)
        /\ UNCHANGED <<inflight, conn, wire, back, serving, stale, unsubscribe_sent>>
    BY <1>8 DEF UnsubscribeSendFails, Dequeue, slotVars, linkVars
  <2>2. \A g \in Handles : Waits(queue', g) \/ obj'[g] = "none" => ~unsubscribe_sent'[g]
    BY <1>3, <2>1
  <2> QED BY <2>1, <2>2 DEF LinkInv
<1>9. CASE UnsubscribeTimesOut
  <2>1. /\ UNCHANGED <<queue, conn, wire, back, serving, stale, unsubscribe_sent>>
        /\ inflight' \subseteq inflight /\ \E hs, r : Return(hs, r)
    BY <1>9 DEF UnsubscribeTimesOut, slotVars, linkVars
  <2>2. \A g \in Handles : Waits(queue', g) \/ obj'[g] = "none" => ~unsubscribe_sent'[g]
    BY <1>3, <2>1
  <2> QED BY <2>1, <2>2 DEF LinkInv
<1>10. CASE HandleSubscribeAck
  <2>1. /\ UNCHANGED <<obj, queue, inflight, wire, serving, stale, unsubscribe_sent>>
        /\ back # <<>> /\ conn' \in {conn, "Ready"} /\ (conn' # conn => conn = "Restoring")
    BY <1>10 DEF HandleSubscribeAck, Reply, handleVars, slotVars
  <2>2. \A g \in Handles : Waits(queue', g) \/ obj'[g] = "none" => ~unsubscribe_sent'[g]
    BY <1>3, <2>1
  <2> QED BY <2>1, <2>2 DEF LinkInv
<1>11. CASE HandleUnsubscribeReply
  <2>1. /\ UNCHANGED <<queue, conn, wire, serving, stale, unsubscribe_sent>>
        /\ inflight' \subseteq inflight /\ back # <<>>
        /\ UNCHANGED obj \/ \E hs, r : Return(hs, r)
    BY <1>11 DEF HandleUnsubscribeReply, Reply
  <2>2. \A g \in Handles : Waits(queue', g) \/ obj'[g] = "none" => ~unsubscribe_sent'[g]
    BY <1>3, <2>1
  <2> QED BY <2>1, <2>2 DEF LinkInv
<1>12. CASE RobotHandles
  <2>1. /\ UNCHANGED <<obj, queue, inflight, conn, stale, unsubscribe_sent>>
        /\ wire # <<>> /\ wire' = Tail(wire)
    BY <1>12 DEF RobotHandles, RobotAnswers, handleVars, slotVars
  <2>2. OneEach(wire')
    BY <2>1, WireTail DEF LinkInv, HandlesType
  <2>3. \A g \in Handles : Waits(queue', g) \/ obj'[g] = "none" => ~unsubscribe_sent'[g]
    BY <1>3, <2>1
  <2> QED BY <2>1, <2>2, <2>3 DEF LinkInv
<1>13. CASE SocketEnds
  BY <1>13, <1>e DEF SocketEnds, handleVars, slotVars, LinkInv
<1>14. CASE Lose
  BY <1>4, <1>14 DEF Lose
<1>15. CASE Restore
  <2>1. /\ UNCHANGED <<obj, queue, inflight, back, serving, stale, unsubscribe_sent>> /\ conn = "Down"
        /\ \/ active = None /\ conn' = "Ready" /\ wire' = wire
           \/ conn' = "Restoring" /\ wire' = <<Task("subscribe", active, 0)>>
    BY <1>15 DEF Restore, handleVars
  <2>2. OneEach(<<Task("subscribe", active, 0)>>)
    BY DEF OneEach
  <2>3. \A g \in Handles : Waits(queue', g) \/ obj'[g] = "none" => ~unsubscribe_sent'[g]
    BY <1>3, <2>1
  <2> QED BY <2>1, <2>2, <2>3 DEF LinkInv
<1>16. CASE AbortToFatal
  <2>1. /\ UNCHANGED <<queue, unsubscribe_sent>> /\ conn' = "Fatal" /\ \E hs, r : Return(hs, r)
        /\ inflight' = {} /\ wire' = <<>> /\ back' = <<>> /\ serving' = FALSE
    BY <1>16 DEF AbortToFatal
  <2>2. \A g \in Handles : Waits(queue', g) \/ obj'[g] = "none" => ~unsubscribe_sent'[g]
    BY <1>3, <2>1
  <2> QED BY <1>e, <2>1, <2>2 DEF LinkInv
<1>17. CASE UNCHANGED vars
  BY <1>17 DEF vars, handleVars, slotVars, linkVars, LinkInv
<1> QED
  BY <1>2, <1>5, <1>6, <1>7, <1>8, <1>9, <1>10, <1>11, <1>12, <1>13, <1>14, <1>15, <1>16, <1>17
  DEF Next, Control

(* The robot has nothing to serve: no slot is in the map, or it was told   *)
(* on this connection that the slot ends, or it refused the slot.          *)
Over ==
  \/ active = None
  \/ unsubscribe_sent[active] /\ active \notin stale
  \/ state[active] = "Pending" /\ Refuses(back, active)
  \/ inflight # {}

(* For a careful user, but for the cases in untold: then the robot does    *)
(* not serve once it has handled all that is on its way.                   *)
ToldInv == careful /\ ~untold =>
  /\ Alternates(wire, serving) /\ LastFor(wire, active)
  /\ Over => Quiet(wire, serving)

LEMMA QuietIsTold ==
  ASSUME NEW w, NEW now, Quiet(w, now)
  PROVE  \A h : LastFor(w, h)
  BY DEF Quiet, LastFor

LEMMA UntoldKept == HandlesType /\ [Next]_vars /\ ~untold' => ~untold
<1> SUFFICES ASSUME HandlesType, [Next]_vars, untold PROVE untold'
  OBVIOUS
<1>1. \A h \in Handles : Subscribe(h) \/ Unsubscribe(h) \/ Destroy(h) => UNCHANGED untold
  BY DEF Subscribe, Unsubscribe, Destroy, slotVars
<1>2. HandleDrop \/ HandleUnsubscribe => untold' = untold \/ untold' = Untold
  BY DEF HandleDrop, HandleUnsubscribe, slotVars
<1>3. HandleSubscribe \/ UnsubscribeSendFails \/ UnsubscribeTimesOut => UNCHANGED untold
  BY DEF HandleSubscribe, UnsubscribeSendFails, UnsubscribeTimesOut, slotVars
<1>4. HandleSubscribeAck \/ HandleUnsubscribeReply => UNCHANGED untold
  BY DEF HandleSubscribeAck, HandleUnsubscribeReply, slotVars
<1>5. RobotHandles \/ SocketEnds \/ Lose \/ Restore \/ AbortToFatal \/ UNCHANGED vars => UNCHANGED untold
  BY DEF RobotHandles, SocketEnds, Lose, Restore, AbortToFatal, vars, slotVars
<1>6. UNCHANGED untold \/ untold' = Untold
  BY <1>1, <1>2, <1>3, <1>4, <1>5 DEF Next, Control
<1> QED BY <1>6 DEF Untold

LEMMA ToldStep ==
  HandlesType /\ HandlesInv /\ OwnerInv /\ LinkInv /\ ToldInv /\ [Next]_vars => ToldInv'
<1> SUFFICES ASSUME HandlesType, HandlesInv, OwnerInv, LinkInv, ToldInv, [Next]_vars, careful', ~untold'
             PROVE  ToldInv'
  BY DEF ToldInv
<1> USE HandlesAssumption
<1>t. queue \in Seq(AnyTask) /\ wire \in Seq(AnyTask) /\ back \in Seq(AnyTask) /\ wire \in Requests
  BY QueueTypes DEF HandlesType
<1>s. active \in Handles \cup {None} /\ state \in [Handles -> SubscriptionState]
  BY DEF HandlesType
<1>k. \A k \in Kinds, h \in Handles, n \in Nat :
        Task(k, h, n) \in AnyTask /\ Task(k, h, n).run = k /\ Task(k, h, n).handle = h
  BY DEF AnyTask, Task
<1>c. careful /\ ~untold
  BY CarefulKept, UntoldKept
<1>i. /\ Alternates(wire, serving) /\ LastFor(wire, active)
      /\ active = None => Quiet(wire, serving)
      /\ unsubscribe_sent[active] /\ active \notin stale => Quiet(wire, serving)
      /\ state[active] = "Pending" /\ Refuses(back, active) => Quiet(wire, serving)
      /\ inflight # {} => Quiet(wire, serving)
  BY <1>c DEF ToldInv, Over
<1>l. conn \notin {"Ready", "Restoring"} => Quiet(wire, serving)
  BY DEF LinkInv, Quiet
<1>e. Quiet(<<>>, FALSE) /\ Alternates(<<>>, FALSE)
  BY EmptyWire
(* The robot will not serve: nothing else is to be shown.                  *)
<1>q. ASSUME Alternates(wire', serving'), Quiet(wire', serving') PROVE ToldInv'
  <2>1. LastFor(wire', active')
    BY <1>q, QuietIsTold
  <2> QED BY <1>q, <2>1 DEF ToldInv
(* It is told to stop.                                                     *)
<1>u. ASSUME NEW h \in Handles, NEW n \in Nat, wire' = Append(wire, Task("unsubscribe", h, n)),
             UNCHANGED serving
      PROVE  ToldInv'
  <2>1. Task("unsubscribe", h, n) \in AnyTask /\ Task("unsubscribe", h, n).run = "unsubscribe"
    BY <1>k DEF Kinds
  <2>2. Alternates(Append(wire, Task("unsubscribe", h, n)), serving)
        /\ Quiet(Append(wire, Task("unsubscribe", h, n)), serving)
    BY <1>t, <1>i, <2>1, WireAppend
  <2> QED BY <1>q, <1>u, <2>2
(* It is told nothing, and was not to serve.                               *)
<1>n. ASSUME UNCHANGED <<wire, serving>>, Quiet(wire, serving) PROVE ToldInv'
  BY <1>n, <1>q, <1>i
(* It is told nothing, and the slot in the map stays.                      *)
<1>m. ASSUME UNCHANGED <<wire, serving, active, unsubscribe_sent, stale>>, inflight' \subseteq inflight,
             active # None /\ state'[active] = "Pending" /\ Refuses(back', active) =>
               state[active] = "Pending" /\ Refuses(back, active)
      PROVE  ToldInv'
  <2>1. CASE Quiet(wire, serving)
    BY <1>m, <1>n, <2>1
  <2>2. CASE ~Quiet(wire, serving)
    <3>1. /\ active # None /\ ~(unsubscribe_sent[active] /\ active \notin stale)
          /\ ~(state[active] = "Pending" /\ Refuses(back, active)) /\ inflight = {}
      BY <1>i, <2>2
    <3>2. /\ active' # None /\ ~(unsubscribe_sent'[active'] /\ active' \notin stale')
          /\ ~(state'[active'] = "Pending" /\ Refuses(back', active')) /\ inflight' = {}
      BY <1>m, <3>1
    <3>3. Alternates(wire', serving') /\ LastFor(wire', active')
      BY <1>m, <1>i
    <3> QED BY <3>2, <3>3 DEF ToldInv, Over
  <2> QED BY <2>1, <2>2
<1>1. ASSUME NEW h \in Handles, Subscribe(h) \/ Unsubscribe(h) \/ Destroy(h) PROVE ToldInv'
  <2>1. UNCHANGED <<wire, serving, active, unsubscribe_sent, stale, inflight, state, back>>
    BY <1>1 DEF Subscribe, Unsubscribe, Destroy, linkVars, slotVars
  <2> QED BY <1>m, <2>1
<1>2. CASE HandleSubscribe
  <2> DEFINE h == Head(queue).handle
  <2>1. queue # <<>> /\ Head(queue).run = "subscribe" /\ UNCHANGED unsubscribe_sent
    BY <1>2 DEF HandleSubscribe, Dequeue
  <2>2. h \in Handles /\ Waits(queue, h)
    BY <1>t, <2>1, TailOps, PostedOps
  <2>3. Fresh(h) /\ ~unsubscribe_sent[h]
    BY <2>2 DEF HandlesInv, LinkInv
  <2>4. CASE user_closed[h] \/ active # None
    <3>1. /\ UNCHANGED <<active, inflight, wire, serving, stale, back>>
          /\ state' = [state EXCEPT ![h] = "Closed"]
      BY <1>2, <2>4 DEF HandleSubscribe, SetState, linkVars
    <3>2. active # None => state'[active] = state[active] \/ state'[active] = "Closed"
      BY <1>s, <3>1
    <3> QED BY <1>m, <2>1, <3>1, <3>2
  <2>5. CASE ~(user_closed[h] \/ active # None) /\ conn = "Dead"
    <3>1. wire' = <<>> /\ serving' = FALSE
      BY <1>2, <2>5 DEF HandleSubscribe, OnTransportClose
    <3> QED BY <1>e, <1>q, <3>1
  <2>6. CASE ~(user_closed[h] \/ active # None) /\ conn # "Dead"
    <3>1. /\ active' = h /\ UNCHANGED <<state, inflight, back, serving>>
          /\ wire' = IF conn = "Ready" THEN Append(wire, Task("subscribe", h, 0)) ELSE wire
      BY <1>2, <2>6 DEF HandleSubscribe, Ready
    <3>2. Quiet(wire, serving)
      BY <1>i, <2>6
    <3>3. CASE conn # "Ready"
      BY <1>n, <3>1, <3>2, <3>3
    <3>4. CASE conn = "Ready"
      <4> DEFINE w == Append(wire, Task("subscribe", h, 0))
      <4>1. Task("subscribe", h, 0) \in AnyTask /\ Task("subscribe", h, 0).handle = h
        BY <1>k, <2>2 DEF Kinds
      <4>2. Alternates(w, serving) /\ LastFor(w, h)
        BY <1>t, <1>i, <3>2, <4>1, WireAppend
      <4>3. wire' = w
        BY <3>1, <3>4
      <4>4. inflight' = {}
        BY <1>c, <2>1, <2>6, <3>1, EntersAlone DEF OwnerInv
      <4>5. ~Refuses(back, h)
        BY <2>3 DEF Fresh, SentFor, For, Refuses
      <4>6. h # None
        BY <2>2
      <4> HIDE DEF w, h
      <4> QED BY <2>1, <2>3, <3>1, <4>2, <4>3, <4>4, <4>5, <4>6 DEF ToldInv, Over
    <3> QED BY <3>3, <3>4
  <2> QED BY <2>4, <2>5, <2>6
<1>3. CASE HandleDrop
  <2>1. UNCHANGED <<inflight, back, serving, stale>>
    BY <1>3 DEF HandleDrop
  <2>2. CASE active = None
    <3>1. UNCHANGED wire
      BY <1>3, <2>2 DEF HandleDrop
    <3> QED BY <1>i, <1>n, <2>1, <2>2, <3>1
  <2>3. CASE active # None
    <3>1. Tell /\ untold' = Untold /\ active \in Handles
      BY <1>3, <1>s, <2>3 DEF HandleDrop
    <3>2. conn # "Restoring" /\ active \notin stale
      BY <3>1 DEF Untold
    <3>3. CASE conn = "Ready" /\ ~unsubscribe_sent[active]
      <4>1. wire' = Append(wire, Task("unsubscribe", active, 0))
        BY <3>1, <3>3 DEF Tell
      <4> QED BY <1>u, <2>1, <3>1, <4>1
    <3>4. CASE ~(conn = "Ready" /\ ~unsubscribe_sent[active])
      <4>1. UNCHANGED wire
        BY <3>1, <3>4 DEF Tell
      <4>2. Quiet(wire, serving)
        BY <1>i, <1>l, <2>3, <3>2, <3>4
      <4> QED BY <1>n, <2>1, <4>1, <4>2
    <3> QED BY <3>3, <3>4
  <2> QED BY <2>2, <2>3
<1>4. CASE HandleUnsubscribe
  <2> DEFINE h == Head(queue).handle
             id == Head(queue).id
  <2>1. UNCHANGED serving /\ h \in Handles /\ id \in Nat
    BY <1>4, PostedOps DEF HandleUnsubscribe, Dequeue
  <2>2. CASE active = None
    <3>1. UNCHANGED wire
      BY <1>4, <2>2 DEF HandleUnsubscribe
    <3> QED BY <1>i, <1>n, <2>1, <2>2, <3>1
  <2>3. CASE active # None /\ conn # "Ready"
    <3>1. UNCHANGED wire /\ untold' = Untold
      BY <1>4, <2>3 DEF HandleUnsubscribe
    <3>2. Quiet(wire, serving)
      BY <1>l, <2>3, <3>1 DEF Untold
    <3> QED BY <1>n, <2>1, <3>1, <3>2
  <2>4. CASE active # None /\ conn = "Ready"
    <3>1. wire' = Append(wire, Task("unsubscribe", h, id))
      BY <1>4, <2>4 DEF HandleUnsubscribe
    <3> QED BY <1>u, <2>1, <3>1
  <2> QED BY <2>2, <2>3, <2>4
<1>5. CASE UnsubscribeSendFails \/ UnsubscribeTimesOut
  <2>1. /\ UNCHANGED <<wire, serving, active, unsubscribe_sent, stale, state, back>>
        /\ inflight' \subseteq inflight
    BY <1>5 DEF UnsubscribeSendFails, UnsubscribeTimesOut, slotVars, linkVars
  <2> QED BY <1>m, <2>1
<1>6. CASE HandleSubscribeAck
  <2> DEFINE h == Head(back).handle
  <2>1. /\ back # <<>> /\ Head(back).run \in {"accepted", "refused"} /\ back' = Tail(back)
        /\ UNCHANGED <<inflight, wire, serving, stale>>
    BY <1>6 DEF HandleSubscribeAck, Reply
  <2>2. /\ \A g : Refuses(back', g) => Refuses(back, g)
        /\ Head(back).run = "refused" => Refuses(back, h)
    BY <1>t, <2>1, RefusesTail
  <2>3. CASE h # active \/ state[h] # "Pending"
    <3>1. UNCHANGED <<active, unsubscribe_sent, state>>
      BY <1>6, <2>3 DEF HandleSubscribeAck, slotVars
    <3> QED BY <1>m, <2>1, <2>2, <3>1
  <2>4. CASE ~(h # active \/ state[h] # "Pending") /\ Head(back).run = "accepted"
    <3>1. /\ UNCHANGED <<active, unsubscribe_sent>> /\ state' = [state EXCEPT ![active] = "Active"]
      BY <1>6, <2>4 DEF HandleSubscribeAck, SetState
    <3>2. active # None => state'[active] # "Pending"
      BY <1>s, <3>1
    <3> QED BY <1>m, <2>1, <3>1, <3>2
  <2>5. CASE ~(h # active \/ state[h] # "Pending") /\ Head(back).run = "refused"
    <3>1. Quiet(wire, serving)
      BY <1>i, <2>2, <2>5
    <3> QED BY <1>n, <2>1, <3>1
  <2> QED BY <2>1, <2>3, <2>4, <2>5
<1>7. CASE HandleUnsubscribeReply
  <2> DEFINE calls == {c \in inflight : c.id = Head(back).id}
  <2>1. /\ back # <<>> /\ back' = Tail(back) /\ inflight' \subseteq inflight
        /\ UNCHANGED <<wire, serving, stale, unsubscribe_sent>>
    BY <1>7 DEF HandleUnsubscribeReply, Reply
  <2>2. CASE calls = {}
    <3>1. UNCHANGED <<active, state>>
      BY <1>7, <2>2 DEF HandleUnsubscribeReply
    <3>2. \A g : Refuses(back', g) => Refuses(back, g)
      BY <1>t, <2>1, RefusesTail
    <3> QED BY <1>m, <2>1, <3>1, <3>2
  <2>3. CASE calls # {}
    <3>1. Quiet(wire, serving)
      BY <1>i, <2>3
    <3> QED BY <1>n, <2>1, <3>1
  <2> QED BY <2>2, <2>3
<1>8. CASE RobotHandles
  <2>1. /\ wire # <<>> /\ wire' = Tail(wire) /\ UNCHANGED <<inflight, stale, unsubscribe_sent, active, state>>
        /\ \/ Head(wire).run = "subscribe" /\ back' = Append(back, [Head(wire) EXCEPT !.run = "accepted"])
           \/ /\ Head(wire).run = "subscribe" /\ back' = Append(back, [Head(wire) EXCEPT !.run = "refused"])
              /\ serving' = serving
           \/ /\ Head(wire).run = "unsubscribe" /\ serving' = FALSE
              /\ back' = Append(back, [Head(wire) EXCEPT !.run = "unsubscribed"])
    BY <1>8 DEF RobotHandles, RobotAnswers, slotVars
  <2>2. Head(wire).run = "unsubscribe" => serving' = FALSE
    BY <2>1
  <2>3. /\ Quiet(wire, serving) => Quiet(wire', serving')
        /\ Alternates(wire', serving') /\ LastFor(wire', active')
        /\ Head(wire).run = "subscribe" /\ serving' = serving /\ LastFor(wire, Head(wire).handle)
             => Quiet(wire', serving')
    BY <1>t, <1>i, <2>1, <2>2, WireTail DEF LinkInv
  <2>4. CASE Quiet(wire, serving)
    BY <1>q, <2>3, <2>4
  <2>5. CASE ~Quiet(wire, serving)
    <3>1. /\ active # None /\ ~(unsubscribe_sent[active] /\ active \notin stale)
          /\ ~(state[active] = "Pending" /\ Refuses(back, active)) /\ inflight = {}
      BY <1>i, <2>5
    <3>2. CASE Quiet(wire', serving')
      BY <1>q, <2>3, <3>2
    <3>3. CASE ~Quiet(wire', serving')
      <4>1. ~(serving' = serving /\ Head(wire).run = "subscribe" /\ Head(wire).handle = active)
        BY <1>i, <2>3, <3>3
      <4>2. ASSUME Refuses(back', active) PROVE Refuses(back, active)
        <5>1. Head(wire).handle \in Handles /\ Head(wire).id \in Nat
          BY <2>1, RequestOps
        <5>2. PICK k \in {"accepted", "refused", "unsubscribed"} :
                /\ back' = Append(back, Task(k, Head(wire).handle, Head(wire).id))
                /\ k = "refused" => Head(wire).handle # active
          BY <2>1, <4>1, RequestOps
        <5>3. /\ Task(k, Head(wire).handle, Head(wire).id) \in AnyTask
              /\ Task(k, Head(wire).handle, Head(wire).id).run = k
              /\ Task(k, Head(wire).handle, Head(wire).id).handle = Head(wire).handle
          BY <1>k, <5>1 DEF Kinds
        <5> QED BY <1>t, <4>2, <5>2, <5>3, RefusesAppend
      <4> QED BY <2>1, <2>3, <3>1, <4>2 DEF ToldInv, Over
    <3> QED BY <3>2, <3>3
  <2> QED BY <2>4, <2>5
<1>9. CASE SocketEnds \/ AbortToFatal
  <2>1. wire' = <<>> /\ serving' = FALSE
    BY <1>9 DEF SocketEnds, AbortToFatal
  <2> QED BY <1>e, <1>q, <2>1
<1>10. CASE Lose
  <2>1. wire' = <<>> /\ serving' = FALSE
    BY <1>10 DEF Lose, OnTransportClose
  <2> QED BY <1>e, <1>q, <2>1
<1>11. CASE Restore
  <2>1. /\ conn = "Down" /\ UNCHANGED <<active, inflight, back, serving, stale, unsubscribe_sent>>
        /\ IF active = None THEN UNCHANGED wire ELSE wire' = <<Task("subscribe", active, 0)>>
    BY <1>11 DEF Restore
  <2>2. serving = FALSE /\ back = <<>> /\ inflight = {} /\ Quiet(wire, serving)
    BY <1>l, <2>1 DEF LinkInv
  <2>3. CASE active = None
    BY <1>n, <2>1, <2>2, <2>3
  <2>4. CASE active # None
    <3>1. unsubscribe_sent[active] => active \in stale
      BY <1>s, <2>1, <2>4 DEF LinkInv
    <3>2. LET w == <<Task("subscribe", active, 0)>> IN Alternates(w, FALSE) /\ LastFor(w, active)
      BY DEF Alternates, LastFor, Task
    <3>3. ~Refuses(<<>>, active)
      BY EmptyWire
    <3> QED BY <2>1, <2>2, <2>4, <3>1, <3>2, <3>3 DEF ToldInv, Over
  <2> QED BY <2>3, <2>4
<1>12. CASE UNCHANGED vars
  <2>1. UNCHANGED <<wire, serving, active, unsubscribe_sent, stale, inflight, state, back>>
    BY <1>12 DEF vars, linkVars, slotVars
  <2> QED BY <1>m, <2>1
<1> QED
  BY <1>1, <1>2, <1>3, <1>4, <1>5, <1>6, <1>7, <1>8, <1>9, <1>10, <1>11, <1>12 DEF Next, Control

LEMMA ToldCorrect == Spec => [](LinkInv /\ ToldInv)
<1>1. Init => LinkInv /\ ToldInv
  <2> SUFFICES ASSUME Init PROVE LinkInv /\ ToldInv
    OBVIOUS
  <2>1. /\ queue = <<>> /\ wire = <<>> /\ back = <<>> /\ inflight = {} /\ active = None
        /\ serving = FALSE /\ conn = "Ready" /\ unsubscribe_sent = [h \in Handles |-> FALSE]
    BY DEF Init
  <2>2. LinkInv
    BY <2>1, EmptyWire DEF LinkInv
  <2>3. ToldInv
    BY <2>1, EmptyWire DEF ToldInv, Over
  <2> QED BY <2>2, <2>3
<1>2. HandlesType /\ HandlesInv /\ OwnerInv /\ (LinkInv /\ ToldInv) /\ [Next]_vars
        => (LinkInv /\ ToldInv)'
  BY LinkStep, ToldStep DEF OwnerInv
<1> QED
  BY <1>1, <1>2, HandlesTypeCorrect, InvCorrect, OwnerCorrect, PTL DEF Spec

(* For any number of handles, calls and losses: once the subscription of a *)
(* careful user is gone and all messages are handled the robot sends none  *)
(* of its frames, but for the two cases in untold.                         *)
THEOREM RobotIsTold == Spec => []RobotTold
<1>1. LinkInv /\ ToldInv => RobotTold
  <2> SUFFICES ASSUME ToldInv, careful, active = None, wire = <<>>, serving, ~untold PROVE FALSE
    BY DEF RobotTold
  <2>1. Quiet(wire, serving)
    BY DEF ToldInv, Over
  <2> QED BY <2>1 DEF Quiet
<1> QED
  BY <1>1, ToldCorrect, PTL
=============================================================================

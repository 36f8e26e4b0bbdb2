--------------------------- MODULE SyncCalls_proofs ---------------------------
(***************************************************************************)
(* Promises, waiting calls and Close, for any number of threads, calls,    *)
(* callbacks and calls of Close.                                           *)
(***************************************************************************)
EXTENDS SyncCalls, TLAPS

(* The queue q holds a handler of one of the kinds for the call id; no two *)
(* of its handlers are of one call.                                        *)
Has(q, kinds, id) == \E i \in 1 .. Len(q) : q[i].kind \in kinds /\ q[i].id = id
OnePerCall(q) ==
  \A i, j \in 1 .. Len(q) :
    q[i].kind \in CallKinds /\ q[j].kind \in CallKinds /\ q[i].id = q[j].id => i = j

(* A handler is added to the queue.                                        *)
LEMMA AppendOps ==
  ASSUME NEW q \in Seq(Task), NEW e \in Task
  PROVE  /\ Append(q, e) \in Seq(Task)
         /\ \A ks, id : Has(Append(q, e), ks, id) <=> Has(q, ks, id) \/ (e.kind \in ks /\ e.id = id)
         /\ OnePerCall(q) /\ (e.kind \in CallKinds => ~Has(q, CallKinds, e.id))
              => OnePerCall(Append(q, e))
<1> DEFINE a == Append(q, e)
           n == Len(q)
<1>1. a \in Seq(Task)
  OBVIOUS
<1>2. n \in Nat /\ Len(a) = n + 1 /\ a[n + 1] = e /\ \A i \in 1 .. n : a[i] = q[i]
  OBVIOUS
<1> HIDE DEF a
<1>3. 1 .. Len(a) = (1 .. n) \cup {n + 1}
  BY <1>2
<1>4. \A ks, id : Has(a, ks, id) <=> Has(q, ks, id) \/ (e.kind \in ks /\ e.id = id)
  BY <1>2, <1>3 DEF Has
<1>5. OnePerCall(q) /\ (e.kind \in CallKinds => ~Has(q, CallKinds, e.id)) => OnePerCall(a)
  BY <1>2, <1>3 DEF OnePerCall, Has
<1> QED
  BY <1>1, <1>4, <1>5 DEF a

(* The first one is taken.                                                 *)
LEMMA TailOps ==
  ASSUME NEW q \in Seq(Task), q # <<>>
  PROVE  /\ Head(q) \in Task /\ Tail(q) \in Seq(Task)
         /\ \A ks, id : Has(Tail(q), ks, id) => Has(q, ks, id)
         /\ \A ks, id : Has(q, ks, id) =>
              Has(Tail(q), ks, id) \/ (Head(q).kind \in ks /\ Head(q).id = id)
         /\ \A ks : Head(q).kind \in ks => Has(q, ks, Head(q).id)
         /\ OnePerCall(q) =>
              /\ OnePerCall(Tail(q))
              /\ Head(q).kind \in CallKinds => ~Has(Tail(q), CallKinds, Head(q).id)
<1> DEFINE t == Tail(q)
           n == Len(q)
<1>1. Head(q) \in Task /\ t \in Seq(Task)
  OBVIOUS
<1>2. /\ n \in Nat /\ n >= 1 /\ Len(t) = n - 1 /\ Head(q) = q[1]
      /\ \A i \in 1 .. n - 1 : t[i] = q[i + 1]
  OBVIOUS
<1> HIDE DEF t
<1>3. \A i \in 1 .. Len(t) : i + 1 \in 1 .. n /\ t[i] = q[i + 1]
  BY <1>2
<1>4. \A ks, id : Has(t, ks, id) => Has(q, ks, id)
  BY <1>3 DEF Has
<1>5. ASSUME NEW ks, NEW id, Has(q, ks, id)
      PROVE  Has(t, ks, id) \/ (Head(q).kind \in ks /\ Head(q).id = id)
  <2>1. PICK i \in 1 .. n : q[i].kind \in ks /\ q[i].id = id
    BY <1>5 DEF Has
  <2>2. CASE i = 1
    BY <1>2, <2>1, <2>2
  <2>3. CASE i # 1
    <3>1. i - 1 \in 1 .. Len(t) /\ t[i - 1] = q[i]
      BY <1>2, <2>3
    <3> QED BY <2>1, <3>1 DEF Has
  <2> QED BY <2>2, <2>3
<1>6. \A ks : Head(q).kind \in ks => Has(q, ks, Head(q).id)
  BY <1>2 DEF Has
<1>7. ASSUME OnePerCall(q)
      PROVE  OnePerCall(t) /\ (Head(q).kind \in CallKinds => ~Has(t, CallKinds, Head(q).id))
  <2>1. ASSUME NEW i \in 1 .. Len(t), NEW j \in 1 .. Len(t),
               t[i].kind \in CallKinds, t[j].kind \in CallKinds, t[i].id = t[j].id
        PROVE  i = j
    <3>1. i + 1 = j + 1
      BY <1>3, <1>7, <2>1 DEF OnePerCall
    <3> QED BY <3>1
  <2>2. ASSUME Head(q).kind \in CallKinds, NEW i \in 1 .. Len(t),
               t[i].kind \in CallKinds, t[i].id = Head(q).id
        PROVE  FALSE
    <3>1. i + 1 = 1
      BY <1>2, <1>3, <1>7, <2>2 DEF OnePerCall
    <3> QED BY <3>1
  <2> QED BY <2>1, <2>2 DEF OnePerCall, Has
<1> QED
  BY <1>1, <1>4, <1>5, <1>6, <1>7 DEF t

-----------------------------------------------------------------------------
(* Types.                                                                  *)

(* The flags stay flags.                                                   *)
LEMMA FlagsStep == FlagsType /\ [Next]_vars => FlagsType'
<1> SUFFICES ASSUME FlagsType, [Next]_vars PROVE FlagsType'
  OBVIOUS
<1> USE DEF FlagsType, controlVars, threadVars
<1>1. ASSUME NEW t \in Threads, Start(t) PROVE FlagsType'
  BY <1>1, Zenon DEF Start, CmdVel, EmergencyStop, TaskRpc, Ping, Unsubscribe, GetDiagnostics, Invoke
<1>2. ASSUME NEW t \in Threads, Continue(t) PROVE FlagsType'
  <2>1. CASE Post(t) \/ Return(t)
    BY <2>1, Zenon DEF Post, Return
  <2>2. CASE CheckJoinable(t) \/ Join(t)
    BY <2>2, Zenon DEF CheckJoinable, Join, CloseUnchanged
  <2>3. CASE Shutdown(t) \/ JoinWorker(t)
    <3>1. (closed \/ t \in Users) \in BOOLEAN
      BY Zenon
    <3> QED BY <2>3, <3>1, Zenon DEF Shutdown, JoinWorker, CloseUnchanged
  <2> QED BY <1>2, <2>1, <2>2, <2>3 DEF Continue
<1>3. ASSUME NEW t \in Threads, Close(t) \/ CallbackEnds(t) PROVE FlagsType'
  BY <1>3, Zenon DEF Close, CallbackEnds, CloseUnchanged
<1>4. CASE Handle
  BY <1>4, Zenon DEF Handle, HandleCall, HandleDeadline, HandleClose, RunControlLoop, Dequeue
<1>5. CASE HandleResponse \/ OnTransportClose \/ Reconnected \/ DeliverPushToSub
  BY <1>5, Zenon DEF HandleResponse, OnTransportClose, Reconnected, DeliverPushToSub
<1>6. CASE Expire \/ WorkerLoop
  BY <1>6, Zenon DEF Expire, WorkerLoop
<1>7. CASE UNCHANGED vars
  BY <1>7, Zenon DEF vars
<1> QED
  BY <1>1, <1>2, <1>3, <1>4, <1>5, <1>6, <1>7 DEF Next

Places == CallKinds \cup {"idle", "out", "waiting", "first", "again", "joining", "rejoining",
                         "stopping", "draining", "exited"}

ThreadsType ==
  /\ call \in [Threads -> Calls \cup {NoCall}] /\ pc \in [Threads -> Places]
  /\ \A t \in Threads : pc[t] \in CallKinds \cup {"waiting"} => call[t] \in Calls

(* The shared effects keep the types.                                      *)
LEMMA EffectTypes ==
  ASSUME SyncType
  PROVE  /\ \A ids : Set(ids) => sets' \in [Calls -> Nat]
         /\ \A ids : Complete(ids) =>
              inflight_rpc_' \subseteq Calls /\ timers' \subseteq Calls /\ sets' \in [Calls -> Nat]
         /\ Dispatch => tasks' \in Nat /\ callbacks' \in 0 .. MaxCallbacks
         /\ PostStateCallback => tasks' \in Nat /\ callbacks' \in 0 .. MaxCallbacks
<1>1. \A ids : Set(ids) => sets' \in [Calls -> Nat]
  BY DEF Set, SyncType
<1>2. Dispatch => tasks' \in Nat /\ callbacks' \in 0 .. MaxCallbacks
  BY SyncAssumption DEF Dispatch, SyncType
<1> QED
  BY <1>1, <1>2 DEF Complete, PostStateCallback, SyncType

LEMMA TypeStep == SyncType /\ [Next]_vars => SyncType'
<1> SUFFICES ASSUME SyncType, [Next]_vars PROVE SyncType'
  OBVIOUS
<1> USE SyncAssumption
<1>f. FlagsType'
  BY FlagsStep DEF SyncType
<1>p. SyncType' <=>
       /\ callback_mode' \in {"Dispatched", "Inline"}
       /\ state_' \in {"Ready", "Lost", "Shutdown"} /\ loop' \in {"running", "ended"}
       /\ queue' \in Seq(Task) /\ inflight_rpc_' \subseteq Calls /\ timers' \subseteq Calls
       /\ sets' \in [Calls -> Nat] /\ tasks' \in Nat /\ ThreadsType'
       /\ made' \in 0 .. MaxCalls /\ closes' \in 0 .. MaxCloses /\ callbacks' \in 0 .. MaxCallbacks
  BY <1>f DEF SyncType, ThreadsType, Places
<1>t. ThreadsType
  BY DEF SyncType, ThreadsType, Places
<1>g. \A t : \A w \in Places \ (CallKinds \cup {"waiting"}) :
        Goto(t, w) /\ UNCHANGED call => ThreadsType'
  BY <1>t DEF Goto, ThreadsType
<1> USE DEF controlVars, threadVars, boundVars
<1>a. queue \in Seq(Task) /\ \A e \in Task : Append(queue, e) \in Seq(Task)
  BY AppendOps DEF SyncType
<1>d. queue # <<>> => Head(queue) \in Task /\ Tail(queue) \in Seq(Task)
  BY TailOps DEF SyncType
<1>k. /\ \A k \in CallKinds \cup {"deadline"}, n \in Calls : [kind |-> k, id |-> n] \in Task
      /\ [kind |-> "close", id |-> NoCall] \in Task
      /\ \A e \in Task : e.kind # "close" => e.id \in Calls
  BY DEF Task
<1>1. ASSUME NEW t \in Threads, Start(t) PROVE SyncType'
  <2>1. PICK k \in CallKinds : Invoke(t, k)
    BY <1>1 DEF Start, CmdVel, EmergencyStop, TaskRpc, Ping, Unsubscribe, GetDiagnostics, CallKinds
  <2>2. made + 1 \in Calls /\ made' \in 0 .. MaxCalls
    BY <2>1 DEF Invoke, SyncType, Calls
  <2>3. ThreadsType'
    BY <1>t, <2>1, <2>2 DEF Invoke, ThreadsType, Places
  <2> QED
    BY <1>p, <2>1, <2>2, <2>3 DEF Invoke, SyncType
<1>2. ASSUME NEW t \in Threads, Post(t) PROVE SyncType'
  <2>1. pc[t] \in CallKinds /\ call[t] \in Calls
    BY <1>2, <1>t DEF Post, ThreadsType, CallKinds
  <2>2. queue' \in Seq(Task)
    BY <1>2, <1>a, <1>k, <2>1 DEF Post
  <2>3. ThreadsType'
    BY <1>2, <1>t, <2>1 DEF Post, Goto, ThreadsType, Places
  <2> QED
    BY <1>p, <1>2, <2>2, <2>3 DEF Post, SyncType
<1>3. ASSUME NEW t \in Threads, Return(t) PROVE SyncType'
  <2>1. ThreadsType'
    BY <1>3, <1>t DEF Return, Goto, ThreadsType, Places, CallKinds
  <2> QED
    BY <1>p, <1>3, <2>1 DEF Return, SyncType
<1>4. ASSUME NEW t \in Threads, CheckJoinable(t) \/ Join(t) \/ Shutdown(t) \/ JoinWorker(t)
      PROVE  SyncType'
  <2>1. \E w \in {"joining", "rejoining", "stopping", "out", "draining"} : Goto(t, w)
    BY <1>4 DEF CheckJoinable, Join, Shutdown, JoinWorker
  <2>2. UNCHANGED <<callback_mode, controlVars, queue, call, tasks, boundVars>>
    BY <1>4 DEF CheckJoinable, Join, Shutdown, JoinWorker, CloseUnchanged
  <2>3. ThreadsType'
    BY <1>g, <2>1, <2>2 DEF Places, CallKinds
  <2> QED
    BY <1>p, <2>2, <2>3 DEF SyncType
<1>5. ASSUME NEW t \in Threads, Close(t) PROVE SyncType'
  <2>1. \E w \in {"first", "again"} : Goto(t, w)
    BY <1>5 DEF Close
  <2>2. ThreadsType'
    BY <1>g, <1>5, <2>1 DEF Close, CloseUnchanged, Places, CallKinds
  <2>3. queue' \in Seq(Task)
    BY <1>a, <1>k, <1>5 DEF Close
  <2>4. closes' \in 0 .. MaxCloses
    BY <1>5 DEF Close, SyncType
  <2> QED
    BY <1>p, <1>5, <2>2, <2>3, <2>4 DEF Close, CloseUnchanged, SyncType
<1>6. ASSUME NEW t \in Threads, CallbackEnds(t) PROVE SyncType'
  <2>1. ThreadsType'
    BY <1>6, <1>g DEF CallbackEnds, Places, CallKinds
  <2> QED
    BY <1>p, <1>6, <2>1 DEF CallbackEnds, SyncType
<1>d2. ASSUME NEW ks, Dequeue(ks)
       PROVE  /\ Head(queue) \in Task /\ Head(queue).kind \in ks /\ queue' \in Seq(Task)
              /\ ThreadsType' /\ UNCHANGED <<callback_mode, made, closes>>
  BY <1>d, <1>d2, <1>t DEF Dequeue, ThreadsType
<1>7. CASE HandleCall
  <2>1. /\ Head(queue).id \in Calls /\ queue' \in Seq(Task) /\ ThreadsType'
        /\ UNCHANGED <<callback_mode, made, closes, state_, loop, tasks, callbacks>>
    BY <1>d2, <1>k, <1>7 DEF HandleCall
  <2>2. inflight_rpc_' \subseteq Calls /\ timers' \subseteq Calls /\ sets' \in [Calls -> Nat]
    BY <1>7, <2>1, EffectTypes DEF HandleCall, SyncType
  <2> QED
    BY <1>p, <2>1, <2>2 DEF SyncType
<1>8. CASE HandleDeadline
  <2>1. /\ queue' \in Seq(Task) /\ ThreadsType'
        /\ UNCHANGED <<callback_mode, made, closes, state_, loop, timers, tasks, callbacks>>
    BY <1>d2, <1>8 DEF HandleDeadline
  <2>2. inflight_rpc_' \subseteq Calls /\ sets' \in [Calls -> Nat]
    BY <1>8, EffectTypes DEF HandleDeadline, SyncType
  <2> QED
    BY <1>p, <2>1, <2>2 DEF SyncType
<1>9. CASE HandleClose
  <2>1. /\ queue' \in Seq(Task) /\ ThreadsType' /\ state_' = "Shutdown"
        /\ UNCHANGED <<callback_mode, made, closes, loop>>
    BY <1>d2, <1>9 DEF HandleClose
  <2>2. /\ inflight_rpc_' \subseteq Calls /\ timers' \subseteq Calls /\ sets' \in [Calls -> Nat]
        /\ tasks' \in Nat /\ callbacks' \in 0 .. MaxCallbacks
    BY <1>9, EffectTypes DEF HandleClose
  <2> QED
    BY <1>p, <2>1, <2>2 DEF SyncType
<1>u. UNCHANGED <<call, pc>> => ThreadsType'
  BY <1>t DEF ThreadsType
<1>10. CASE RunControlLoop
  BY <1>p, <1>u, <1>10 DEF RunControlLoop, SyncType
<1>11. CASE HandleResponse
  BY <1>p, <1>u, <1>11, EffectTypes DEF HandleResponse, SyncType
<1>12. CASE OnTransportClose
  BY <1>p, <1>u, <1>12, EffectTypes DEF OnTransportClose, SyncType
<1>13. CASE Reconnected
  BY <1>p, <1>u, <1>13, EffectTypes DEF Reconnected, SyncType
<1>14. CASE DeliverPushToSub
  <2>1. ThreadsType'
    BY <1>g, <1>u, <1>14 DEF DeliverPushToSub, Places, CallKinds
  <2>2. tasks' \in Nat /\ callbacks' \in 0 .. MaxCallbacks
    BY <1>14, EffectTypes DEF DeliverPushToSub, SyncType
  <2> QED
    BY <1>p, <1>14, <2>1, <2>2 DEF DeliverPushToSub, SyncType
<1>15. CASE Expire
  <2>1. queue' \in Seq(Task) /\ timers' \subseteq Calls
    BY <1>a, <1>k, <1>15 DEF Expire, SyncType
  <2> QED
    BY <1>p, <1>u, <1>15, <2>1 DEF Expire, SyncType
<1>16. CASE WorkerLoop
  <2>1. tasks' \in Nat
    BY <1>16 DEF WorkerLoop, SyncType
  <2>2. ThreadsType'
    BY <1>g, <1>16 DEF WorkerLoop, Places, CallKinds
  <2> QED
    BY <1>p, <1>16, <2>1, <2>2 DEF WorkerLoop, SyncType
<1>17. CASE UNCHANGED vars
  BY <1>p, <1>u, <1>17 DEF vars, SyncType
<1> QED
  BY <1>1, <1>2, <1>3, <1>4, <1>5, <1>6, <1>7, <1>8, <1>9, <1>10, <1>11, <1>12, <1>13, <1>14, <1>15,
     <1>16, <1>17
  DEF Next, Handle, Continue

(* The type invariant, for any number of threads, calls and callbacks.     *)
THEOREM SyncTypeCorrect == Spec => []SyncType
<1>1. Init => SyncType
  <2>1. Init => FlagsType
    BY Zenon DEF Init, FlagsType
  <2>2. <<>> \in Seq(Task)
    OBVIOUS
  <2> QED BY <2>1, <2>2, SyncAssumption DEF Init, SyncType, CallKinds
<1> QED
  BY <1>1, TypeStep, PTL DEF Spec

-----------------------------------------------------------------------------
(* Promises and waiting calls.                                             *)

(* What is known of a call: a promise is set when the call is neither      *)
(* queued nor in flight, and a call in flight has a deadline to come.      *)
CallInv ==
  \A id \in Calls :
    /\ sets[id] <= 1
    /\ id > made => sets[id] = 0
    /\ Has(queue, CallKinds, id) => id <= made /\ sets[id] = 0
    /\ id \in inflight_rpc_ =>
         /\ id <= made /\ sets[id] = 0 /\ ~Has(queue, CallKinds, id)
         /\ loop = "running" /\ (id \in timers \/ Has(queue, {"deadline"}, id))

(* What is known of a thread: no other one has its call, and the call is   *)
(* on its way from when it is posted until its promise is set.             *)
WaitInv ==
  \A t \in Threads :
    /\ call[t] <= made
    /\ \A u \in Threads : t # u /\ call[t] = call[u] => call[t] = NoCall
    /\ pc[t] \in CallKinds =>
         sets[call[t]] = 0 /\ ~Has(queue, CallKinds, call[t]) /\ call[t] \notin inflight_rpc_
    /\ pc[t] = "waiting" /\ sets[call[t]] = 0 =>
         Has(queue, CallKinds, call[t]) \/ call[t] \in inflight_rpc_

PromiseInv == OnePerCall(queue) /\ CallInv /\ WaitInv

(* Steps that leave calls alone keep it, also if they queue a Close.       *)
LEMMA PromiseFrame ==
  ASSUME SyncType, PromiseInv, UNCHANGED <<inflight_rpc_, timers, sets, loop, call, made>>,
         queue' = queue \/ queue' = Append(queue, [kind |-> "close", id |-> NoCall]),
         \A t \in Threads : pc'[t] = pc[t] \/ pc'[t] \notin CallKinds \cup {"waiting"}
  PROVE  PromiseInv'
<1> DEFINE e == [kind |-> "close", id |-> NoCall]
<1>1. e \in Task /\ e.kind \notin CallKinds \cup {"deadline"}
  BY DEF Task, CallKinds
<1>2. queue \in Seq(Task)
  BY DEF SyncType
<1>3. /\ \A id : Has(queue', CallKinds, id) <=> Has(queue, CallKinds, id)
      /\ \A id : Has(queue', {"deadline"}, id) <=> Has(queue, {"deadline"}, id)
      /\ OnePerCall(queue')
  <2>1. CASE queue' = queue
    BY <2>1 DEF PromiseInv
  <2>2. CASE queue' = Append(queue, e)
    <3> HIDE DEF e
    <3>1. /\ \A ks, id : Has(queue', ks, id) <=> Has(queue, ks, id) \/ (e.kind \in ks /\ e.id = id)
          /\ OnePerCall(queue) /\ (e.kind \in CallKinds => ~Has(queue, CallKinds, e.id))
               => OnePerCall(queue')
      BY <1>1, <1>2, <2>2, AppendOps
    <3> QED BY <1>1, <3>1 DEF PromiseInv
  <2> QED BY <2>1, <2>2
<1>4. CallInv'
  BY <1>3 DEF PromiseInv, CallInv
<1>5. WaitInv'
  BY <1>3 DEF PromiseInv, WaitInv
<1> QED
  BY <1>3, <1>4, <1>5 DEF PromiseInv

(* So do steps that complete calls in flight.                              *)
LEMMA PromiseComplete ==
  ASSUME SyncType, PromiseInv, NEW ids \in SUBSET inflight_rpc_,
         inflight_rpc_' = inflight_rpc_ \ ids, Set(ids), UNCHANGED <<pc, loop, call, made>>,
         OnePerCall(queue'),
         \A id : Has(queue', CallKinds, id) <=> Has(queue, CallKinds, id),
         \A id \in inflight_rpc_ \ ids : id \in timers \/ Has(queue, {"deadline"}, id)
                                     => id \in timers' \/ Has(queue', {"deadline"}, id)
  PROVE  PromiseInv'
<1>1. \A id \in Calls : sets'[id] = IF id \in ids THEN sets[id] + 1 ELSE sets[id]
  BY DEF Set
<1>2. \A id \in Calls : sets[id] \in Nat
  BY DEF SyncType
<1>3. CallInv'
  <2> SUFFICES ASSUME NEW id \in Calls
               PROVE  /\ sets'[id] <= 1
                      /\ id > made => sets'[id] = 0
                      /\ Has(queue', CallKinds, id) => id <= made /\ sets'[id] = 0
                      /\ id \in inflight_rpc_' =>
                           /\ id <= made /\ sets'[id] = 0 /\ ~Has(queue', CallKinds, id)
                           /\ loop = "running" /\ (id \in timers' \/ Has(queue', {"deadline"}, id))
    BY DEF CallInv
  <2>1. id > made => ~(id <= made)
    BY SyncAssumption DEF SyncType, Calls
  <2> QED
    BY <1>1, <1>2, <2>1 DEF PromiseInv, CallInv
<1>4. \A t \in Threads : pc[t] \in CallKinds \cup {"waiting"} => call[t] \in Calls
  BY DEF SyncType
<1>5. WaitInv'
  <2> SUFFICES ASSUME NEW t \in Threads
               PROVE  /\ call[t] <= made
                      /\ \A u \in Threads : t # u /\ call[t] = call[u] => call[t] = NoCall
                      /\ pc[t] \in CallKinds =>
                           /\ sets'[call[t]] = 0 /\ ~Has(queue', CallKinds, call[t])
                           /\ call[t] \notin inflight_rpc_'
                      /\ pc[t] = "waiting" /\ sets'[call[t]] = 0 =>
                           Has(queue', CallKinds, call[t]) \/ call[t] \in inflight_rpc_'
    BY DEF WaitInv
  <2> QED
    BY <1>1, <1>2, <1>4 DEF PromiseInv, WaitInv
<1> QED
  BY <1>3, <1>5 DEF PromiseInv

LEMMA PromiseStep == SyncType /\ PromiseInv /\ [Next]_vars => PromiseInv'
<1> SUFFICES ASSUME SyncType, PromiseInv, [Next]_vars PROVE PromiseInv'
  OBVIOUS
<1> USE DEF controlVars, threadVars, boundVars
<1>q. queue \in Seq(Task) /\ inflight_rpc_ \subseteq Calls /\ made \in Nat
  BY SyncAssumption DEF SyncType
<1>p. pc \in [Threads -> Places] /\ call \in [Threads -> Calls \cup {NoCall}]
  BY DEF SyncType, Places
<1>c. Calls \subseteq Nat /\ NoCall \in Nat /\ NoCall \notin Calls
  BY SyncAssumption DEF Calls, NoCall
<1>s. \A id \in Calls : sets[id] \in Nat
  BY DEF SyncType
<1>w. \A t \in Threads : pc[t] \in CallKinds \cup {"waiting"} => call[t] \in Calls
  BY DEF SyncType
<1>1. ASSUME NEW t \in Threads, Start(t) PROVE PromiseInv'
  <2>1. PICK k \in CallKinds : Invoke(t, k)
    BY <1>1 DEF Start, CmdVel, EmergencyStop, TaskRpc, Ping, Unsubscribe, GetDiagnostics, CallKinds
  <2>2. /\ UNCHANGED <<queue, inflight_rpc_, timers, sets, loop>> /\ made' = made + 1
        /\ call' = [call EXCEPT ![t] = made + 1] /\ pc' = [pc EXCEPT ![t] = k]
        /\ made + 1 \in Calls
    BY <2>1, <1>q, SyncAssumption DEF Invoke, Calls
  <2>3. CallInv'
    BY <1>q, <1>c, <2>2 DEF PromiseInv, CallInv
  <2>4. sets[made + 1] = 0 /\ ~Has(queue, CallKinds, made + 1) /\ made + 1 \notin inflight_rpc_
    BY <1>q, <1>c, <2>2 DEF PromiseInv, CallInv
  <2>5. /\ call'[t] = made + 1 /\ pc'[t] = k /\ k # "waiting"
        /\ \A u \in Threads : u # t => call'[u] = call[u] /\ pc'[u] = pc[u]
        /\ \A u \in Threads : call[u] \in Nat /\ call[u] <= made
    BY <1>p, <1>c, <2>2 DEF CallKinds, PromiseInv, WaitInv
  <2>6. WaitInv'
    <3> SUFFICES ASSUME NEW u \in Threads
                 PROVE  /\ call'[u] <= made'
                        /\ \A v \in Threads : u # v /\ call'[u] = call'[v] => call'[u] = NoCall
                        /\ pc'[u] \in CallKinds =>
                             /\ sets[call'[u]] = 0 /\ ~Has(queue, CallKinds, call'[u])
                             /\ call'[u] \notin inflight_rpc_
                        /\ pc'[u] = "waiting" /\ sets[call'[u]] = 0 =>
                             Has(queue, CallKinds, call'[u]) \/ call'[u] \in inflight_rpc_
      BY <2>2 DEF WaitInv
    <3>1. CASE u = t
      BY <1>q, <2>2, <2>4, <2>5, <3>1
    <3>2. CASE u # t
      BY <1>q, <2>2, <2>5, <3>2 DEF PromiseInv, WaitInv
    <3> QED BY <3>1, <3>2
  <2> QED BY <2>2, <2>3, <2>6 DEF PromiseInv
<1>2. ASSUME NEW t \in Threads, Post(t) PROVE PromiseInv'
  <2> DEFINE e == [kind |-> pc[t], id |-> call[t]]
  <2>1. /\ pc[t] \in CallKinds /\ call[t] \in Calls
        /\ UNCHANGED <<inflight_rpc_, timers, sets, loop, call, made>>
        /\ queue' = Append(queue, e) /\ pc' = [pc EXCEPT ![t] = "waiting"]
    BY <1>2, <1>w DEF Post, Goto, CallKinds
  <2>2. e \in Task /\ e.kind \in CallKinds /\ e.kind # "deadline" /\ e.id = call[t]
    BY <2>1 DEF Task, CallKinds
  <2> HIDE DEF e
  <2>3. /\ \A ks, id : Has(queue', ks, id) <=> Has(queue, ks, id) \/ (e.kind \in ks /\ e.id = id)
        /\ OnePerCall(queue) /\ (e.kind \in CallKinds => ~Has(queue, CallKinds, e.id))
             => OnePerCall(queue')
    BY <1>q, <2>1, <2>2, AppendOps
  <2>4. /\ \A id : Has(queue', CallKinds, id) <=> Has(queue, CallKinds, id) \/ id = call[t]
        /\ \A id : Has(queue', {"deadline"}, id) <=> Has(queue, {"deadline"}, id)
    BY <2>2, <2>3
  <2>5. /\ sets[call[t]] = 0 /\ ~Has(queue, CallKinds, call[t]) /\ call[t] \notin inflight_rpc_
        /\ call[t] <= made /\ \A u \in Threads : u # t => call[u] # call[t]
    BY <1>c, <2>1 DEF PromiseInv, WaitInv
  <2>6. CallInv'
    BY <2>1, <2>4, <2>5 DEF PromiseInv, CallInv
  <2>7. /\ pc'[t] = "waiting" /\ "waiting" \notin CallKinds
        /\ \A u \in Threads : u # t => pc'[u] = pc[u]
    BY <1>p, <2>1 DEF CallKinds
  <2>8. WaitInv'
    BY <2>1, <2>4, <2>5, <2>7 DEF PromiseInv, WaitInv
  <2> QED BY <2>2, <2>3, <2>5, <2>6, <2>8 DEF PromiseInv
<1>3. ASSUME NEW t \in Threads, Return(t) PROVE PromiseInv'
  <2>1. /\ UNCHANGED <<queue, inflight_rpc_, timers, sets, loop, made>>
        /\ call' = [call EXCEPT ![t] = NoCall] /\ pc' = [pc EXCEPT ![t] = "out"]
    BY <1>3 DEF Return, Goto
  <2>2. /\ call'[t] = NoCall /\ pc'[t] \notin CallKinds \cup {"waiting"}
        /\ \A u \in Threads : u # t => pc'[u] = pc[u] /\ call'[u] = call[u]
    BY <1>p, <2>1 DEF CallKinds
  <2>3. CallInv'
    BY <2>1 DEF PromiseInv, CallInv
  <2>4. WaitInv'
    BY <1>q, <2>1, <2>2 DEF PromiseInv, WaitInv, NoCall
  <2> QED BY <2>1, <2>3, <2>4 DEF PromiseInv
<1>g. \A t : \A w \in Places \ (CallKinds \cup {"waiting"}) : Goto(t, w) =>
        \A u \in Threads : pc'[u] = pc[u] \/ pc'[u] \notin CallKinds \cup {"waiting"}
  BY <1>p DEF Goto
<1>4. ASSUME NEW t \in Threads, CheckJoinable(t) \/ Join(t) \/ Shutdown(t) \/ JoinWorker(t)
      PROVE  PromiseInv'
  <2>1. \E w \in {"joining", "rejoining", "stopping", "out", "draining"} : Goto(t, w)
    BY <1>4 DEF CheckJoinable, Join, Shutdown, JoinWorker
  <2>2. UNCHANGED <<queue, inflight_rpc_, timers, sets, loop, call, made>>
    BY <1>4 DEF CheckJoinable, Join, Shutdown, JoinWorker, CloseUnchanged
  <2>3. \A u \in Threads : pc'[u] = pc[u] \/ pc'[u] \notin CallKinds \cup {"waiting"}
    BY <1>g, <2>1 DEF Places, CallKinds
  <2> QED BY <2>2, <2>3, PromiseFrame
<1>5. ASSUME NEW t \in Threads, Close(t) PROVE PromiseInv'
  <2>1. \E w \in {"first", "again"} : Goto(t, w)
    BY <1>5 DEF Close
  <2>2. /\ UNCHANGED <<inflight_rpc_, timers, sets, loop, call, made>>
        /\ queue' = queue \/ queue' = Append(queue, [kind |-> "close", id |-> NoCall])
    BY <1>5 DEF Close, CloseUnchanged
  <2>3. \A u \in Threads : pc'[u] = pc[u] \/ pc'[u] \notin CallKinds \cup {"waiting"}
    BY <1>g, <2>1 DEF Places, CallKinds
  <2> QED BY <2>2, <2>3, PromiseFrame
<1>6. ASSUME NEW t \in Threads, CallbackEnds(t) PROVE PromiseInv'
  <2>1. /\ Goto(t, "idle")
        /\ UNCHANGED <<queue, inflight_rpc_, timers, sets, loop, call, made>>
    BY <1>6 DEF CallbackEnds
  <2>2. \A u \in Threads : pc'[u] = pc[u] \/ pc'[u] \notin CallKinds \cup {"waiting"}
    BY <1>g, <2>1 DEF Places, CallKinds
  <2> QED BY <2>1, <2>2, PromiseFrame
<1> DEFINE head == Head(queue)
<1>h. ASSUME NEW ks, Dequeue(ks)
      PROVE  /\ head \in Task /\ head.kind \in ks /\ UNCHANGED <<pc, call, made>>
             /\ \A kinds, id : Has(queue', kinds, id) => Has(queue, kinds, id)
             /\ \A kinds, id : Has(queue, kinds, id) =>
                  Has(queue', kinds, id) \/ (head.kind \in kinds /\ head.id = id)
             /\ OnePerCall(queue')
             /\ head.kind \in CallKinds =>
                  Has(queue, CallKinds, head.id) /\ ~Has(queue', CallKinds, head.id)
             /\ loop = "running"
  BY <1>q, <1>h, TailOps DEF Dequeue, Handling, PromiseInv
<1> HIDE DEF head
<1>7. CASE HandleCall
  <2>1. Dequeue(CallKinds) /\ UNCHANGED loop
    BY <1>7 DEF HandleCall, CallKinds
  <2>2. \/ /\ inflight_rpc_' = inflight_rpc_ \cup {head.id} /\ timers' = timers \cup {head.id}
           /\ UNCHANGED sets
        \/ Set({head.id}) /\ UNCHANGED <<inflight_rpc_, timers>>
    BY <1>7 DEF HandleCall, head
  <2>3. /\ head \in Task /\ head.kind \in CallKinds /\ UNCHANGED <<pc, call, made>>
        /\ \A id : Has(queue', CallKinds, id) => Has(queue, CallKinds, id)
        /\ \A id : Has(queue, CallKinds, id) => Has(queue', CallKinds, id) \/ head.id = id
        /\ \A id : Has(queue, {"deadline"}, id) => Has(queue', {"deadline"}, id)
        /\ OnePerCall(queue')
        /\ Has(queue, CallKinds, head.id) /\ ~Has(queue', CallKinds, head.id) /\ loop = "running"
    BY <1>h, <2>1 DEF CallKinds
  <2>4. head.id \in Calls
    BY <2>3 DEF Task, CallKinds
  <2>5. sets[head.id] = 0 /\ head.id <= made /\ head.id \notin inflight_rpc_
    BY <2>3, <2>4 DEF PromiseInv, CallInv
  <2>6. /\ \A id \in Calls : id # head.id => sets'[id] = sets[id] /\ (id \in inflight_rpc_' <=> id \in inflight_rpc_)
        /\ \A id \in timers : id \in timers'
    BY <2>2 DEF Set
  <2>7. \/ sets'[head.id] = 0 /\ head.id \in inflight_rpc_' /\ head.id \in timers'
        \/ sets'[head.id] = 1 /\ head.id \notin inflight_rpc_'
    BY <2>2, <2>4, <2>5 DEF Set
  <2>8. CallInv'
    BY <1>q, <1>c, <2>1, <2>3, <2>4, <2>5, <2>6, <2>7 DEF PromiseInv, CallInv
  <2>9. WaitInv'
    BY <1>w, <2>3, <2>4, <2>6, <2>7 DEF PromiseInv, WaitInv
  <2> QED BY <2>3, <2>8, <2>9 DEF PromiseInv
<1>8. CASE HandleDeadline
  <2>1. /\ Dequeue({"deadline"}) /\ UNCHANGED <<loop, timers>>
        /\ Set({head.id} \cap inflight_rpc_) /\ inflight_rpc_' = inflight_rpc_ \ {head.id}
    BY <1>8 DEF HandleDeadline, head
  <2>2. /\ head.kind = "deadline" /\ UNCHANGED <<pc, call, made>> /\ OnePerCall(queue')
        /\ \A id : Has(queue', CallKinds, id) <=> Has(queue, CallKinds, id)
        /\ \A id : Has(queue, {"deadline"}, id) => Has(queue', {"deadline"}, id) \/ head.id = id
    BY <1>h, <2>1 DEF CallKinds
  <2> DEFINE ids == {head.id} \cap inflight_rpc_
  <2>3. ids \in SUBSET inflight_rpc_ /\ inflight_rpc_' = inflight_rpc_ \ ids /\ Set(ids)
    BY <2>1
  <2>4. \A id \in inflight_rpc_ \ ids : id # head.id
    OBVIOUS
  <2> HIDE DEF ids
  <2>5. \A id \in inflight_rpc_ \ ids : id \in timers \/ Has(queue, {"deadline"}, id)
                                    => id \in timers' \/ Has(queue', {"deadline"}, id)
    BY <2>1, <2>2, <2>4
  <2> QED BY <2>1, <2>2, <2>3, <2>5, PromiseComplete
<1>9. CASE HandleClose
  <2>1. /\ Dequeue({"close"}) /\ UNCHANGED loop
        /\ inflight_rpc_' = inflight_rpc_ \ inflight_rpc_ /\ Set(inflight_rpc_)
    BY <1>9 DEF HandleClose, Complete
  <2>2. /\ UNCHANGED <<pc, call, made>> /\ OnePerCall(queue')
        /\ \A id : Has(queue', CallKinds, id) <=> Has(queue, CallKinds, id)
    BY <1>h, <2>1 DEF CallKinds
  <2>3. \A id \in inflight_rpc_ \ inflight_rpc_ : FALSE
    OBVIOUS
  <2> QED BY <2>1, <2>2, <2>3, PromiseComplete
<1>10. CASE RunControlLoop
  <2>1. /\ queue = <<>> /\ timers = {}
        /\ UNCHANGED <<queue, inflight_rpc_, timers, sets, pc, call, made>>
    BY <1>10 DEF RunControlLoop
  <2>2. \A ks, id : ~Has(queue, ks, id)
    BY <2>1 DEF Has
  <2>3. inflight_rpc_ = {}
    BY <1>q, <2>1, <2>2 DEF PromiseInv, CallInv
  <2>4. CallInv'
    BY <2>1, <2>3 DEF PromiseInv, CallInv
  <2>5. WaitInv'
    BY <2>1 DEF PromiseInv, WaitInv
  <2> QED BY <2>1, <2>4, <2>5 DEF PromiseInv
<1>11. CASE HandleResponse
  <2>1. PICK i \in inflight_rpc_ : Complete({i})
    BY <1>11 DEF HandleResponse
  <2>2. UNCHANGED <<pc, loop, call, made, queue>>
    BY <1>11 DEF HandleResponse
  <2>3. /\ {i} \in SUBSET inflight_rpc_ /\ inflight_rpc_' = inflight_rpc_ \ {i} /\ Set({i})
        /\ \A id \in inflight_rpc_ \ {i} : id \in timers \/ Has(queue, {"deadline"}, id)
                                       => id \in timers' \/ Has(queue', {"deadline"}, id)
    BY <2>1, <2>2 DEF Complete
  <2>4. OnePerCall(queue')
    BY <2>2 DEF PromiseInv
  <2> QED BY <2>2, <2>3, <2>4, PromiseComplete
<1>12. CASE OnTransportClose
  <2>1. /\ inflight_rpc_' = inflight_rpc_ \ inflight_rpc_ /\ Set(inflight_rpc_)
        /\ UNCHANGED <<pc, loop, call, made, queue>>
    BY <1>12 DEF OnTransportClose, Complete
  <2>2. OnePerCall(queue')
    BY <2>1 DEF PromiseInv
  <2>3. \A id \in inflight_rpc_ \ inflight_rpc_ : FALSE
    OBVIOUS
  <2> QED BY <2>1, <2>2, <2>3, PromiseComplete
<1>13. CASE Reconnected
  BY <1>13, PromiseFrame DEF Reconnected
<1>14. CASE DeliverPushToSub
  <2>1. \A u \in Threads : pc'[u] = pc[u] \/ pc'[u] \notin CallKinds \cup {"waiting"}
    BY <1>g, <1>14 DEF DeliverPushToSub, Places, CallKinds
  <2>2. UNCHANGED <<queue, inflight_rpc_, timers, sets, loop, call, made>>
    BY <1>14 DEF DeliverPushToSub
  <2> QED BY <2>1, <2>2, PromiseFrame
<1>15. CASE Expire
  <2>1. /\ UNCHANGED <<inflight_rpc_, sets, loop, pc, call, made>>
        /\ \E i \in timers :
             timers' = timers \ {i} /\ queue' = Append(queue, [kind |-> "deadline", id |-> i])
    BY <1>15 DEF Expire
  <2>2. PICK i \in timers :
          timers' = timers \ {i} /\ queue' = Append(queue, [kind |-> "deadline", id |-> i])
    BY <2>1
  <2> DEFINE e == [kind |-> "deadline", id |-> i]
  <2>3. e \in Task /\ e.kind = "deadline" /\ e.id = i
    BY DEF Task, SyncType
  <2>4. queue' = Append(queue, e)
    BY <2>2
  <2> HIDE DEF e
  <2>5. /\ \A ks, id : Has(queue', ks, id) <=> Has(queue, ks, id) \/ (e.kind \in ks /\ e.id = id)
        /\ OnePerCall(queue) /\ (e.kind \in CallKinds => ~Has(queue, CallKinds, e.id))
             => OnePerCall(queue')
    BY <1>q, <2>3, <2>4, AppendOps
  <2>6. /\ \A id : Has(queue', CallKinds, id) <=> Has(queue, CallKinds, id)
        /\ \A id : Has(queue', {"deadline"}, id) <=> Has(queue, {"deadline"}, id) \/ id = i
        /\ OnePerCall(queue')
    BY <2>3, <2>5 DEF CallKinds, PromiseInv
  <2>7. CallInv'
    BY <2>1, <2>2, <2>6 DEF PromiseInv, CallInv
  <2>8. WaitInv'
    BY <2>1, <2>6 DEF PromiseInv, WaitInv
  <2> QED BY <2>6, <2>7, <2>8 DEF PromiseInv
<1>16. CASE WorkerLoop
  <2>1. \A u \in Threads : pc'[u] = pc[u] \/ pc'[u] \notin CallKinds \cup {"waiting"}
    BY <1>g, <1>16 DEF WorkerLoop, Places, CallKinds
  <2>2. UNCHANGED <<queue, inflight_rpc_, timers, sets, loop, call, made>>
    BY <1>16 DEF WorkerLoop
  <2> QED BY <2>1, <2>2, PromiseFrame
<1>17. CASE UNCHANGED vars
  BY <1>17, PromiseFrame DEF vars
<1> QED
  BY <1>1, <1>2, <1>3, <1>4, <1>5, <1>6, <1>7, <1>8, <1>9, <1>10, <1>11, <1>12, <1>13, <1>14, <1>15,
     <1>16, <1>17
  DEF Next, Handle, Continue

(* Types and promises hold together.                                       *)
LEMMA PromiseInvariant == Spec => [](SyncType /\ PromiseInv)
<1>1. Init => PromiseInv
  <2> SUFFICES ASSUME Init PROVE PromiseInv
    OBVIOUS
  <2>1. \A ks, id : ~Has(queue, ks, id)
    BY DEF Init, Has
  <2>2. OnePerCall(queue)
    BY DEF Init, OnePerCall
  <2>3. CallInv
    BY <2>1 DEF Init, CallInv
  <2>4. WaitInv
    BY DEF Init, WaitInv, NoCall, CallKinds
  <2> QED BY <2>2, <2>3, <2>4 DEF PromiseInv
<1> QED
  BY <1>1, SyncTypeCorrect, PromiseStep, PTL DEF Spec

(* A promise is set once at most.                                          *)
THEOREM SetAtMostOnce == Spec => []SetOnce
<1>1. SyncType /\ PromiseInv => SetOnce
  BY DEF PromiseInv, CallInv, SetOnce
<1> QED
  BY <1>1, PromiseInvariant, PTL

(* A call that waits is on its way to an answer while the loop runs.       *)
THEOREM NoCallForgotten == Spec => []NoneForgotten
<1>1. SyncType /\ PromiseInv => NoneForgotten
  <2> SUFFICES ASSUME SyncType, PromiseInv, NEW t \in Threads, pc[t] = "waiting", sets[call[t]] = 0
               PROVE  \/ Queued(CallKinds, call[t])
                      \/ /\ loop = "running" /\ call[t] \in inflight_rpc_
                         /\ call[t] \in timers \/ Queued({"deadline"}, call[t])
    BY DEF NoneForgotten
  <2>1. \A ks, id : Queued(ks, id) <=> Has(queue, ks, id)
    BY DEF Queued, Has
  <2>2. call[t] \in Calls
    BY DEF SyncType
  <2>3. Has(queue, CallKinds, call[t]) \/ call[t] \in inflight_rpc_
    BY DEF PromiseInv, WaitInv
  <2> QED
    BY <2>1, <2>2, <2>3 DEF PromiseInv, CallInv
<1> QED
  BY <1>1, PromiseInvariant, PTL

-----------------------------------------------------------------------------
(* Close.                                                                  *)

(* Who joined the control thread found it ended; a user stops the          *)
(* dispatcher only then; a worker that left has nothing to come back to.   *)
CloseInv ==
  /\ ~joinable => loop = "ended"
  /\ \A t \in Users : pc[t] \in {"stopping", "draining"} => ~joinable
  /\ pc[Worker] = "exited" => tasks = 0 /\ ~running_
  /\ closed => ~joinable /\ pc[Worker] = "exited"

(* Steps that leave Close and the worker alone keep it.                    *)
LEMMA CloseFrame ==
  ASSUME CloseInv, UNCHANGED <<joinable, closed, running_>>, loop' = loop \/ loop' = "ended",
         UNCHANGED tasks \/ Dispatch,
         \A t \in Threads : pc'[t] = pc[t] \/ (pc[t] # "exited" /\
                              pc'[t] \notin {"stopping", "draining", "exited"})
  PROVE  CloseInv'
<1>1. Worker \in Threads /\ Users \subseteq Threads
  BY DEF Threads
<1>2. pc[Worker] = "exited" => tasks' = tasks
  BY DEF Dispatch, CloseInv
<1>3. (pc'[Worker] = "exited") <=> (pc[Worker] = "exited")
  BY <1>1
<1>4. \A t \in Users : pc'[t] \in {"stopping", "draining"} => pc[t] \in {"stopping", "draining"}
  BY <1>1
<1> QED
  BY <1>1, <1>2, <1>3, <1>4 DEF CloseInv

LEMMA CloseStep == SyncType /\ CloseInv /\ [Next]_vars => CloseInv'
<1> SUFFICES ASSUME SyncType, CloseInv, [Next]_vars PROVE CloseInv'
  OBVIOUS
<1> USE DEF controlVars, threadVars, boundVars
<1>p. pc \in [Threads -> Places] /\ Worker \in Threads /\ Control \in Threads /\ Users \subseteq Threads
  BY DEF SyncType, Places, Threads
<1>w. Worker # Control /\ Worker \notin Users /\ Control \notin Users
  BY SyncAssumption
<1> DEFINE Kept == \A t \in Threads : pc'[t] = pc[t] \/ (pc[t] # "exited" /\
                      pc'[t] \notin {"stopping", "draining", "exited"})
<1>g. \A t \in Threads : \A w : pc[t] # "exited" /\ pc' = [pc EXCEPT ![t] = w]
                       /\ w \notin {"stopping", "draining", "exited"} => Kept
  BY <1>p
<1>n. UNCHANGED pc => Kept
  OBVIOUS
<1> HIDE DEF Kept
<1>k. Kept /\ UNCHANGED <<joinable, closed, running_>> /\ (loop' = loop \/ loop' = "ended")
        /\ (UNCHANGED tasks \/ Dispatch) => CloseInv'
  BY CloseFrame DEF Kept
<1>1. ASSUME NEW t \in Threads, Start(t) PROVE CloseInv'
  <2>1. PICK k \in CallKinds : Invoke(t, k)
    BY <1>1 DEF Start, CmdVel, EmergencyStop, TaskRpc, Ping, Unsubscribe, GetDiagnostics, CallKinds
  <2>2. Kept
    BY <1>g, <2>1 DEF Invoke, CallKinds
  <2>3. UNCHANGED <<joinable, closed, running_, loop, tasks>>
    BY <2>1 DEF Invoke
  <2> QED BY <1>k, <2>2, <2>3
<1>2. ASSUME NEW t \in Threads, Post(t) \/ Return(t) \/ Close(t) \/ CallbackEnds(t) PROVE CloseInv'
  <2>1. Kept
    BY <1>g, <1>2 DEF Post, Return, Close, CallbackEnds, Goto
  <2>2. UNCHANGED <<joinable, closed, running_, loop, tasks>>
    BY <1>2 DEF Post, Return, Close, CallbackEnds, CloseUnchanged
  <2> QED BY <1>k, <2>1, <2>2
<1>3. ASSUME NEW t \in Threads, CheckJoinable(t) PROVE CloseInv'
  <2>1. /\ UNCHANGED <<joinable, closed, running_, loop, tasks>> /\ pc[t] # "exited"
        /\ \E w \in {"joining", "rejoining", "stopping", "out"} :
             pc' = [pc EXCEPT ![t] = w] /\ (w = "stopping" /\ t \in Users => ~joinable)
    BY <1>3, <1>w DEF CheckJoinable, CloseUnchanged, Goto
  <2>2. PICK w \in {"joining", "rejoining", "stopping", "out"} :
             pc' = [pc EXCEPT ![t] = w] /\ (w = "stopping" /\ t \in Users => ~joinable)
    BY <2>1
  <2>3. \A u \in Users : pc'[u] \in {"stopping", "draining"} => ~joinable
    BY <1>p, <2>2 DEF CloseInv
  <2>4. (pc'[Worker] = "exited") <=> (pc[Worker] = "exited")
    BY <1>p, <2>1, <2>2
  <2> QED BY <2>1, <2>3, <2>4 DEF CloseInv
<1>4. ASSUME NEW t \in Threads, Join(t) PROVE CloseInv'
  <2>1. /\ UNCHANGED <<closed, running_, loop, tasks>> /\ pc[t] # "exited"
        /\ joinable /\ joinable' = FALSE /\ loop = "ended"
        /\ \E w \in {"stopping", "out"} : pc' = [pc EXCEPT ![t] = w]
    BY <1>4 DEF Join, Joining, CloseUnchanged, Goto
  <2>2. (pc'[Worker] = "exited") <=> (pc[Worker] = "exited")
    BY <1>p, <2>1
  <2> QED BY <2>1, <2>2 DEF CloseInv
<1>5. ASSUME NEW t \in Threads, Shutdown(t) PROVE CloseInv'
  <2>1. /\ UNCHANGED <<closed, joinable, loop, tasks>> /\ running_' = FALSE
        /\ pc[t] = "stopping" /\ \E w \in {"draining", "out"} : pc' = [pc EXCEPT ![t] = w]
    BY <1>5 DEF Shutdown, CloseUnchanged, Goto
  <2>2. (pc'[Worker] = "exited") <=> (pc[Worker] = "exited")
    BY <1>p, <2>1
  <2>3. \A u \in Users : pc'[u] \in {"stopping", "draining"} => pc[u] \in {"stopping", "draining"}
    BY <1>p, <2>1
  <2> QED BY <2>1, <2>2, <2>3 DEF CloseInv
<1>6. ASSUME NEW t \in Threads, JoinWorker(t) PROVE CloseInv'
  <2>1. /\ UNCHANGED <<running_, joinable, loop, tasks>> /\ closed' = (closed \/ t \in Users)
        /\ pc[t] = "draining" /\ pc[Worker] = "exited" /\ pc' = [pc EXCEPT ![t] = "out"]
    BY <1>6 DEF JoinWorker, CloseUnchanged, Goto
  <2>2. pc'[Worker] = "exited"
    BY <1>p, <2>1
  <2>3. \A u \in Users : pc'[u] \in {"stopping", "draining"} => pc[u] \in {"stopping", "draining"}
    BY <1>p, <2>1
  <2>4. closed' => ~joinable
    BY <2>1 DEF CloseInv
  <2> QED BY <2>1, <2>2, <2>3, <2>4 DEF CloseInv
<1>7. CASE Handle
  <2>1. /\ UNCHANGED <<pc, joinable, closed, running_>> /\ (loop' = loop \/ loop' = "ended")
        /\ (UNCHANGED tasks \/ Dispatch)
    BY <1>7 DEF Handle, HandleCall, HandleDeadline, HandleClose, RunControlLoop, Dequeue, PostStateCallback
  <2> QED BY <1>k, <1>n, <2>1
<1>8. CASE HandleResponse \/ OnTransportClose \/ Reconnected \/ Expire
  <2>1. UNCHANGED <<pc, joinable, closed, running_, loop>> /\ (UNCHANGED tasks \/ Dispatch)
    BY <1>8 DEF HandleResponse, OnTransportClose, Reconnected, Expire, PostStateCallback
  <2> QED BY <1>k, <1>n, <2>1
<1>9. CASE DeliverPushToSub
  <2>1. UNCHANGED <<joinable, closed, running_, loop>> /\ (UNCHANGED tasks \/ Dispatch)
    BY <1>9 DEF DeliverPushToSub
  <2>2. UNCHANGED pc \/ (pc[Control] # "exited" /\ pc' = [pc EXCEPT ![Control] = "out"])
    BY <1>9 DEF DeliverPushToSub, Goto, Handling
  <2>3. Kept
    BY <1>g, <1>n, <1>p, <2>2
  <2> QED BY <1>k, <2>1, <2>3
<1>10. CASE WorkerLoop
  <2>1. /\ UNCHANGED <<joinable, closed, running_, loop>> /\ pc[Worker] = "idle"
        /\ \/ pc' = [pc EXCEPT ![Worker] = "out"]
           \/ tasks = 0 /\ ~running_ /\ UNCHANGED tasks /\ pc' = [pc EXCEPT ![Worker] = "exited"]
    BY <1>10 DEF WorkerLoop, Goto
  <2>2. \A u \in Users : pc'[u] = pc[u]
    BY <1>p, <1>w, <2>1
  <2>3. pc'[Worker] = "exited" => tasks' = 0 /\ ~running_
    BY <1>p, <2>1
  <2>4. ~closed
    BY <2>1 DEF CloseInv
  <2> QED BY <2>1, <2>2, <2>3, <2>4 DEF CloseInv
<1>11. CASE UNCHANGED vars
  BY <1>k, <1>n, <1>11 DEF vars
<1> QED
  BY <1>1, <1>2, <1>3, <1>4, <1>5, <1>6, <1>7, <1>8, <1>9, <1>10, <1>11 DEF Next, Continue

(* After Close has returned to the user who asked first, no thread of the  *)
(* SDK runs and no call is in flight.                                      *)
THEOREM CloseFinal == Spec => []CloseIsFinal
<1>1. Init => CloseInv
  <2> SUFFICES ASSUME Init PROVE CloseInv
    OBVIOUS
  <2>1. Worker \in Threads /\ Users \subseteq Threads /\ Worker \notin Users
    BY SyncAssumption DEF Threads
  <2>2. joinable /\ ~closed /\ pc = [t \in Threads |-> IF t \in Users THEN "out" ELSE "idle"]
    BY DEF Init
  <2> QED BY <2>1, <2>2 DEF CloseInv
<1>2. SyncType /\ PromiseInv /\ CloseInv => CloseIsFinal
  <2> SUFFICES ASSUME SyncType, PromiseInv, CloseInv, closed
               PROVE  /\ loop = "ended" /\ ~joinable /\ inflight_rpc_ = {}
                      /\ pc[Worker] = "exited" /\ tasks = 0
    BY DEF CloseIsFinal
  <2>1. loop = "ended" /\ ~joinable /\ pc[Worker] = "exited" /\ tasks = 0
    BY DEF CloseInv
  <2>2. inflight_rpc_ = {}
    BY <2>1 DEF SyncType, PromiseInv, CallInv
  <2> QED BY <2>1, <2>2
<1> QED
  BY <1>1, <1>2, SyncTypeCorrect, PromiseInvariant, CloseStep, PTL DEF Spec
=============================================================================

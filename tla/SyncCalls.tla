------------------------------ MODULE SyncCalls ------------------------------
(***************************************************************************)
(* The threads of the SDK (src/src/robot_impl.cpp, src/src/dispatcher.cpp):*)
(* the threads of the user, the control thread that runs control_ioc_, and *)
(* the worker of the dispatcher.  A synchronous method posts a handler to  *)
(* the control thread and blocks on a promise; Close stops and joins both  *)
(* threads.  RobotSession models what the handlers do to the connection;   *)
(* here it is Ready, lost or shut down, and any message of the io thread   *)
(* may be handled at any time.                                             *)
(***************************************************************************)
EXTENDS Integers, Sequences, FiniteSets

CONSTANTS
  Users,        \* threads of the user
  Worker,       \* the thread of the dispatcher
  Control,      \* the control thread
  Modes,        \* values of opts_.callback_mode to consider
  MaxCalls,     \* bound: synchronous calls
  MaxCloses,    \* bound: calls of Close
  MaxCallbacks  \* bound: callbacks of the user

ASSUME SyncAssumption ==
  /\ Worker # Control /\ {Worker, Control} \cap Users = {}
  /\ Modes \subseteq {"Dispatched", "Inline"}
  /\ MaxCalls \in Nat /\ MaxCloses \in Nat /\ MaxCallbacks \in Nat

Threads == Users \cup {Worker, Control}
Calls == 1 .. MaxCalls
NoCall == 0

VARIABLES
  callback_mode,
  state_,               \* "Ready", "Lost" or "Shutdown"
  shutdown_requested_,
  control_work_,        \* does the work guard keep the control loop running?
  loop,                 \* is control_ioc_.run() "running", or has it "ended"?
  joinable,             \* control_thread_.joinable()
  queue,                \* handlers posted to control_ioc_
  inflight_rpc_,        \* calls with a completion handler
  timers,               \* calls whose deadline is armed
  sets,                 \* how often set_value was called on the promise of each call
  pc, call,             \* what each thread does, and the call it waits for
  running_, tasks,      \* the dispatcher, and the number of its queued tasks
  made, closes, callbacks, \* what is used up of the bounds
  closed                \* history: Close has returned to the user who asked first

controlVars == <<state_, control_work_, loop, inflight_rpc_, timers, sets>>
threadVars == <<shutdown_requested_, joinable, pc, call, running_, closed>>
boundVars == <<made, closes, callbacks>>
vars == <<callback_mode, controlVars, queue, threadVars, tasks, boundVars>>

Goto(t, where) == pc' = [pc EXCEPT ![t] = where]
Set(ids) == sets' = [i \in Calls |-> IF i \in ids THEN sets[i] + 1 ELSE sets[i]]

-----------------------------------------------------------------------------
(* The synchronous methods, called by a user, or in a callback by the      *)
(* worker or the control thread.  A call refused at once (Disconnected,    *)
(* WouldDeadlock, RateLimited) changes nothing.                            *)

Invoke(t, kind) ==
  /\ pc[t] = "out" /\ made < MaxCalls
  /\ made' = made + 1
  /\ call' = [call EXCEPT ![t] = made + 1]
  /\ pc' = [pc EXCEPT ![t] = kind]
  /\ UNCHANGED <<callback_mode, controlVars, queue, shutdown_requested_, joinable, running_,
                 closed, tasks, closes, callbacks>>

Ready == state_ = "Ready"
IsInDispatcherThread(t) == t = Worker

CmdVel(t) == Ready /\ ~IsInDispatcherThread(t) /\ Invoke(t, "rpc")
EmergencyStop(t) == Ready /\ ~IsInDispatcherThread(t) /\ Invoke(t, "rpc")
TaskRpc(t) == Ready /\ ~IsInDispatcherThread(t) /\ Invoke(t, "rpc")
Ping(t) == Ready /\ ~IsInDispatcherThread(t) /\ Invoke(t, "rpc")
Unsubscribe(t) == ~IsInDispatcherThread(t) /\ Invoke(t, "unsubscribe")
GetDiagnostics(t) == ~IsInDispatcherThread(t) /\ t # Control /\ Invoke(t, "diagnostics")

(* The state may have changed since it was checked, and the loop ended.    *)
Post(t) ==
  /\ pc[t] \in {"rpc", "unsubscribe", "diagnostics"}
  /\ queue' = Append(queue, [kind |-> pc[t], id |-> call[t]])
  /\ Goto(t, "waiting")
  /\ UNCHANGED <<callback_mode, controlVars, shutdown_requested_, joinable, call, running_,
                 closed, tasks, boundVars>>

(* fut.get() returns.                                                      *)
Return(t) ==
  /\ pc[t] = "waiting" /\ sets[call[t]] > 0
  /\ Goto(t, "out") /\ call' = [call EXCEPT ![t] = NoCall]
  /\ UNCHANGED <<callback_mode, controlVars, queue, shutdown_requested_, joinable, running_,
                 closed, tasks, boundVars>>

-----------------------------------------------------------------------------
(* The control thread.                                                     *)

Handling == loop = "running" /\ pc[Control] = "idle"
Dequeue(kinds) ==
  /\ Handling /\ queue # <<>> /\ Head(queue).kind \in kinds
  /\ queue' = Tail(queue)
  /\ UNCHANGED <<callback_mode, threadVars, made, closes>>

(* Dispatcher::Post of a callback.                                         *)
Dispatch ==
  /\ callbacks < MaxCallbacks /\ callbacks' = callbacks + 1
  /\ tasks' = IF running_ THEN tasks + 1 ELSE tasks

(* A change of state is reported, if a handler for it is registered.       *)
PostStateCallback == Dispatch \/ UNCHANGED <<callbacks, tasks>>

(* The calls are completed: their promises set, their deadlines cancelled. *)
Complete(ids) ==
  /\ inflight_rpc_' = inflight_rpc_ \ ids /\ timers' = timers \ ids
  /\ Set(ids)

(* Mutant: the deadline of the call is not armed.                          *)
HandleCallUntimed ==
  LET task == Head(queue) IN
  /\ Dequeue({"rpc", "unsubscribe", "diagnostics"})
  /\ \/ /\ task.kind # "diagnostics" /\ Ready
        /\ inflight_rpc_' = inflight_rpc_ \cup {task.id} /\ UNCHANGED <<sets, timers>>
     \/ Set({task.id}) /\ UNCHANGED <<inflight_rpc_, timers>>
  /\ UNCHANGED <<state_, control_work_, loop, tasks, callbacks>>

(* The handler of a call: refused, sent, or the send fails.                *)
HandleCall ==
  LET task == Head(queue) IN
  /\ Dequeue({"rpc", "unsubscribe", "diagnostics"})
  /\ \/ /\ task.kind # "diagnostics" /\ Ready
        /\ inflight_rpc_' = inflight_rpc_ \cup {task.id} /\ timers' = timers \cup {task.id}
        /\ UNCHANGED sets
     \/ Set({task.id}) /\ UNCHANGED <<inflight_rpc_, timers>>
  /\ UNCHANGED <<state_, control_work_, loop, tasks, callbacks>>

(* Mutant: the deadline does not look whether the call is still in flight. *)
DeadlineUnchecked ==
  /\ Dequeue({"deadline"})
  /\ inflight_rpc_' = inflight_rpc_ \ {Head(queue).id} /\ Set({Head(queue).id})
  /\ UNCHANGED <<state_, control_work_, loop, timers, tasks, callbacks>>

(* The handler of a deadline, which a reply may have overtaken.            *)
HandleDeadline ==
  /\ Dequeue({"deadline"})
  /\ Set({Head(queue).id} \cap inflight_rpc_)
  /\ inflight_rpc_' = inflight_rpc_ \ {Head(queue).id}
  /\ UNCHANGED <<state_, control_work_, loop, timers, tasks, callbacks>>

(* Mutant: the work guard is not reset.                                    *)
CloseKeepsWork ==
  /\ Dequeue({"close"})
  /\ state_' = "Shutdown" /\ UNCHANGED control_work_
  /\ Complete(inflight_rpc_) /\ PostStateCallback
  /\ UNCHANGED loop

(* Close's handler.                                                        *)
HandleClose ==
  /\ Dequeue({"close"})
  /\ state_' = "Shutdown" /\ control_work_' = FALSE
  /\ Complete(inflight_rpc_) /\ PostStateCallback
  /\ UNCHANGED loop

(* Messages of the io thread, a reply or the end of the connection; and a  *)
(* connection made again.                                                  *)
HandleResponse ==
  /\ Handling /\ \E id \in inflight_rpc_ : Complete({id})
  /\ UNCHANGED <<callback_mode, state_, control_work_, loop, queue, threadVars, tasks, boundVars>>

(* Mutant: the calls in flight are dropped, not completed.                 *)
CloseDropsCalls ==
  /\ Handling /\ Ready /\ state_' = "Lost"
  /\ inflight_rpc_' = {} /\ timers' = {} /\ UNCHANGED sets /\ PostStateCallback
  /\ UNCHANGED <<callback_mode, control_work_, loop, queue, threadVars, made, closes>>

OnTransportClose ==
  /\ Handling /\ Ready /\ state_' = "Lost"
  /\ Complete(inflight_rpc_) /\ PostStateCallback
  /\ UNCHANGED <<callback_mode, control_work_, loop, queue, threadVars, made, closes>>
Reconnected ==
  /\ Handling /\ state_ = "Lost" /\ state_' = "Ready"
  /\ PostStateCallback
  /\ UNCHANGED <<callback_mode, control_work_, loop, inflight_rpc_, timers, sets, queue,
                 threadVars, made, closes>>

(* A frame: its data callback runs in the control thread, or is posted.    *)
DeliverPushToSub ==
  /\ Handling /\ Ready
  /\ IF callback_mode = "Inline"
     THEN /\ callbacks < MaxCallbacks /\ callbacks' = callbacks + 1
          /\ Goto(Control, "out") /\ UNCHANGED tasks
     ELSE Dispatch /\ UNCHANGED pc
  /\ UNCHANGED <<callback_mode, controlVars, queue, shutdown_requested_, joinable, call,
                 running_, closed, made, closes>>

(* A deadline passes; its handler joins the queue.                         *)
Expire ==
  /\ loop = "running"
  /\ \E id \in timers :
       timers' = timers \ {id} /\ queue' = Append(queue, [kind |-> "deadline", id |-> id])
  /\ UNCHANGED <<callback_mode, state_, control_work_, loop, inflight_rpc_, sets, threadVars,
                 tasks, boundVars>>

(* control_ioc_.run() returns when nothing is left to do.                  *)
RunControlLoop ==
  /\ Handling /\ ~control_work_ /\ queue = <<>> /\ timers = {}
  /\ loop' = "ended"
  /\ UNCHANGED <<callback_mode, state_, control_work_, inflight_rpc_, timers, sets, queue,
                 threadVars, tasks, boundVars>>

-----------------------------------------------------------------------------
(* Close: the first one posts, joins and stops the dispatcher; another one *)
(* joins the control thread if it finds it joinable.                       *)

CloseUnchanged == UNCHANGED <<callback_mode, controlVars, call, tasks, made, callbacks>>

Close(t) ==
  /\ pc[t] = "out" /\ closes < MaxCloses /\ closes' = closes + 1
  /\ shutdown_requested_' = TRUE
  /\ IF shutdown_requested_
     THEN Goto(t, "again") /\ UNCHANGED queue
     ELSE Goto(t, "first") /\ queue' = Append(queue, [kind |-> "close", id |-> NoCall])
  /\ UNCHANGED <<joinable, running_, closed>> /\ CloseUnchanged

CheckJoinable(t) ==
  /\ pc[t] \in {"first", "again"}
  /\ Goto(t, CASE joinable /\ t # Control -> IF pc[t] = "first" THEN "joining" ELSE "rejoining"
               [] OTHER                   -> IF pc[t] = "first" THEN "stopping" ELSE "out")
  /\ UNCHANGED <<shutdown_requested_, joinable, running_, closed, queue, closes>> /\ CloseUnchanged

Joining == {t \in Threads : pc[t] \in {"joining", "rejoining"}}

(* What two joins of one thread do is undefined; no step is given for it.  *)
Join(t) ==
  /\ Joining = {t} /\ joinable /\ loop = "ended"
  /\ joinable' = FALSE
  /\ Goto(t, IF pc[t] = "joining" THEN "stopping" ELSE "out")
  /\ UNCHANGED <<shutdown_requested_, running_, closed, queue, closes>> /\ CloseUnchanged

(* Mutant: the worker is not waited for.                                   *)
ShutdownDetaches(t) ==
  /\ pc[t] = "stopping" /\ running_' = FALSE
  /\ Goto(t, "out") /\ closed' = (t \in Users)
  /\ UNCHANGED <<shutdown_requested_, joinable, queue, closes>> /\ CloseUnchanged

(* Dispatcher::Shutdown; the worker itself is detached, not joined.        *)
Shutdown(t) ==
  /\ pc[t] = "stopping" /\ running_' = FALSE
  /\ Goto(t, IF t = Worker THEN "out" ELSE "draining")
  /\ UNCHANGED <<shutdown_requested_, joinable, closed, queue, closes>> /\ CloseUnchanged
JoinWorker(t) ==
  /\ pc[t] = "draining" /\ pc[Worker] = "exited"
  /\ Goto(t, "out") /\ closed' = (closed \/ t \in Users)
  /\ UNCHANGED <<shutdown_requested_, joinable, running_, queue, closes>> /\ CloseUnchanged

-----------------------------------------------------------------------------
(* The worker of the dispatcher takes a task, and exits when told to and   *)
(* none is left.  A callback, of whichever thread, ends.                   *)
WorkerLoop ==
  /\ pc[Worker] = "idle"
  /\ \/ tasks > 0 /\ tasks' = tasks - 1 /\ Goto(Worker, "out")
     \/ tasks = 0 /\ ~running_ /\ Goto(Worker, "exited") /\ UNCHANGED tasks
  /\ UNCHANGED <<callback_mode, controlVars, queue, shutdown_requested_, joinable, call, running_,
                 closed, boundVars>>
CallbackEnds(t) ==
  /\ t \in {Worker, Control} /\ pc[t] = "out" /\ Goto(t, "idle")
  /\ UNCHANGED <<callback_mode, controlVars, queue, shutdown_requested_, joinable, call, running_,
                 closed, tasks, boundVars>>

-----------------------------------------------------------------------------
Init ==
  /\ callback_mode \in Modes
  /\ state_ = "Ready" /\ shutdown_requested_ = FALSE
  /\ control_work_ = TRUE /\ loop = "running" /\ joinable = TRUE
  /\ queue = <<>> /\ inflight_rpc_ = {} /\ timers = {}
  /\ sets = [i \in Calls |-> 0]
  /\ pc = [t \in Threads |-> IF t \in Users THEN "out" ELSE "idle"]
  /\ call = [t \in Threads |-> NoCall]
  /\ running_ = TRUE /\ tasks = 0
  /\ made = 0 /\ closes = 0 /\ callbacks = 0 /\ closed = FALSE

Handle == HandleCall \/ HandleDeadline \/ HandleClose \/ RunControlLoop
Start(t) ==
  CmdVel(t) \/ EmergencyStop(t) \/ TaskRpc(t) \/ Ping(t) \/ Unsubscribe(t) \/ GetDiagnostics(t)
Continue(t) ==
  Post(t) \/ Return(t) \/ CheckJoinable(t) \/ Join(t) \/ Shutdown(t) \/ JoinWorker(t)
Next ==
  \/ Handle \/ HandleResponse \/ OnTransportClose \/ Reconnected \/ DeliverPushToSub
  \/ Expire \/ WorkerLoop
  \/ \E t \in Threads : Start(t) \/ Close(t) \/ Continue(t) \/ CallbackEnds(t)

Spec == Init /\ [][Next]_vars

(* Threads are scheduled, deadlines pass, and callbacks of the user end.   *)
Fairness ==
  /\ WF_vars(Handle) /\ WF_vars(Expire) /\ WF_vars(WorkerLoop)
  /\ \A t \in Threads : WF_vars(Continue(t)) /\ WF_vars(CallbackEnds(t))
FairSpec == Spec /\ Fairness

-----------------------------------------------------------------------------
(* Properties.                                                             *)

Queued(kinds, id) == \E i \in 1 .. Len(queue) : queue[i].kind \in kinds /\ queue[i].id = id

CallKinds == {"rpc", "unsubscribe", "diagnostics"}
Task == [kind : CallKinds \cup {"deadline"}, id : Calls] \cup [kind : {"close"}, id : {NoCall}]
FlagsType ==
  /\ shutdown_requested_ \in BOOLEAN /\ control_work_ \in BOOLEAN /\ joinable \in BOOLEAN
  /\ running_ \in BOOLEAN /\ closed \in BOOLEAN

(* Every variable has its type; a thread in a call knows which.            *)
SyncType ==
  /\ FlagsType /\ callback_mode \in {"Dispatched", "Inline"}
  /\ state_ \in {"Ready", "Lost", "Shutdown"} /\ loop \in {"running", "ended"}
  /\ queue \in Seq(Task) /\ inflight_rpc_ \subseteq Calls /\ timers \subseteq Calls
  /\ sets \in [Calls -> Nat] /\ call \in [Threads -> Calls \cup {NoCall}] /\ tasks \in Nat
  /\ pc \in [Threads -> CallKinds \cup {"idle", "out", "waiting", "first", "again", "joining",
                                      "rejoining", "stopping", "draining", "exited"}]
  /\ \A t \in Threads : pc[t] \in CallKinds \cup {"waiting"} => call[t] \in Calls
  /\ made \in 0 .. MaxCalls /\ closes \in 0 .. MaxCloses /\ callbacks \in 0 .. MaxCallbacks

(* A promise is set once at most, whichever of reply, deadline, loss of    *)
(* the connection and Close come together.  A second set_value would throw *)
(* out of the handler, and silently end RunControlLoop.                    *)
SetOnce == \A i \in Calls : sets[i] <= 1

(* While the control thread runs, every call that waits is on its way to   *)
(* an answer: queued, or in flight with a deadline armed or queued.  When  *)
(* it has ended only calls posted since are left.                          *)
NoneForgotten ==
  \A t \in Threads : pc[t] = "waiting" /\ sets[call[t]] = 0 =>
    \/ Queued(CallKinds, call[t])
    \/ /\ loop = "running" /\ call[t] \in inflight_rpc_
       /\ call[t] \in timers \/ Queued({"deadline"}, call[t])

(* When Close has returned to the user who asked first, both threads of    *)
(* the SDK are gone: no callback runs, no call is in flight.               *)
CloseIsFinal ==
  closed => /\ loop = "ended" /\ ~joinable /\ inflight_rpc_ = {}
            /\ pc[Worker] = "exited" /\ tasks = 0

(* The control thread waits in an Inline callback for what needs it: for a *)
(* call only it can complete (it is not refused, although API.md 379 says  *)
(* so), or in Close for the worker, which waits in another Close for the   *)
(* control thread.                                                         *)
SelfBlocked ==
  \/ pc[Control] = "waiting"
  \/ pc[Control] = "draining" /\ pc[Worker] = "rejoining"

(* A synchronous call that was posted before Close was asked for returns,  *)
(* also if Close comes after, unless the control thread blocks itself.     *)
(* (One posted after the loop has ended does not return.)                  *)
CallsReturn ==
  \A t \in Threads :
    pc[t] = "waiting" /\ ~shutdown_requested_ ~> call[t] = NoCall \/ SelfBlocked

(* API.md 87 and 8 say that Close is idempotent and may be called by any   *)
(* thread; two of them may join at a time.                                 *)
JoinedTwice == Cardinality(Joining) > 1 \/ (Joining # {} /\ ~joinable)

(* Close returns, to the one who asked first and to all who asked again,   *)
(* but for these two cases.                                                *)
CloseReturns ==
  \A t \in Threads :
    pc[t] \in {"first", "again"} ~> pc[t] = "out" \/ SelfBlocked \/ JoinedTwice
=============================================================================

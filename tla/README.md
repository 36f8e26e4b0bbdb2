# TLA+ models of the Karo X2 C++ SDK

The SDK connects a program to a robot over one WebSocket: it shakes hands, subscribes to topics,
calls remote procedures, watches the connection with a heartbeat and, when it is lost, connects
again, resubscribes, and replays an emergency stop that is engaged.  Nearly all of that is
`src/src/robot_impl.cpp`.  These modules model it, TLC checks them on small instances, and TLAPS
proves their safety properties for every value of the constants.

## Inventory

| Part | State | Operations | What makes it correct |
|---|---|---|---|
| Connection core (`robot_impl.cpp`) | `state_`, `ws_`, `reconnect_attempt_`, timers, `active_subs_`, `inflight_rpc_`, `inflight_sub_request_`, `sub_ack_timers_`, `last_estop_intent_`, `reconnect_*_pending_` | `Connect`, `EstablishConnection`, `HandleSdkResponse`, `HandleSubscribeAck`, `OnTransportClose`, `DoReconnect`, `DoEStopReplay`, `AbortToFatal`, `Subscribe*`, `UnsubscribeRequest`, `EmergencyStopRpc`, `Close` | Ready only when all is restored and an engaged stop is confirmed; bounded attempts; nothing in flight survives its connection; terminal states hold nothing; retries happen |
| Subscription stream (`SubSlot`, `robot_impl.cpp`) | `last_seq`, `expected_resume_seq`, `pending_buffer`, flags | `HandleSdkTopicPush`, `DeliverPushToSub`, `DrainPendingBuffer`, `SendSubscribe`, `HandleSubscribeAck` | frames in order, each once; every loss reported; bounded buffer; a stream starts once |
| Heartbeat (`HeartbeatState`, two timers) | `miss_count`, `ping_deadline_active`, `idle_timer_`, `ping_deadline_timer_` | `StartHeartbeat`, `OnIdleTimerExpired`, `OnPingDeadlineExpired`, `ResetLivenessOnInbound` | a dead robot is given up in time, a live one never too early |
| Synchronous calls, `Dispatcher` | promises, `control_ioc_` and its thread, worker thread and its queue | `CmdVel`, `EmergencyStop`, tasks, `Ping`, `Unsubscribe`, `GetDiagnostics`, `Close`, `Dispatcher::Post/Shutdown/WorkerLoop` | a promise is set once; calls and Close return; no thread survives Close |
| Subscription handles (`SubscriptionFacade`) | the slot, `user_closed`, `unsubscribe_sent` | `Subscribe*`, `Unsubscribe`, the destructor | a destroyed handle leaves no subscription; an ended one stays ended; none takes down another's; the robot is told |
| WebSocket client (`ws_client.cpp`) | stream, write queue, io thread, `open`, `closing`, `ConnectAttempt` | `Connect`, `Send`, `Post`, `Close`, destructor; read loop, `ProcessWriteQueue`, `OnDisconnect` | one operation of a kind at a time; messages in order; the end reported once; `Send` tells what happened; calls end |
| Rate limiter (`rate_limiter.cpp`) | `tokens_`, `last_` | `try_acquire` | at most the burst and 20 commands per second in any interval; nobody starved |
| Back-off, codec, error codes | none of their own | `NextBackoff`, `decode_*`, `map_sdk_error_code`, `classify` | agree with a reference definition |
| Counters of frames (`SubSlot`, `robot_impl.cpp`) | `hz_buckets`, `hz_bucket_epoch_ms` | `SlideHzBuckets` in `DeliverPushToSub` and `GetDiagnostics` | what is summed up are the frames of the last minute |
| Facade, log, JSON, proto | none of their own | forwarding, formatting | |

How they interact: every handler of `RobotImpl` runs on the control thread, one after the other.
The io thread of the current `WsClient` posts messages and the end of the socket to it, timers
expire on it, and the methods of the user post to it; synchronous ones then block on a promise.
Callbacks are posted to the dispatcher's worker (or, for data in `Inline` mode, run on the control
thread).  The robot answers requests in any order, late or never.

What is hard: replies, deadlines, closes and user operations meet in every order; a handler may
call another one that changes the map it iterates over; the close of an old connection arrives
after the new one was begun; counts of what is left to restore must survive whatever the user does
meanwhile.  `PROJECT.json` lists these hazards line by line.

## Modules

| Module | Models | Checked / proved in |
|---|---|---|
| `RobotSession` | connection core: every handler one action | `MCRobotSession`; `RobotSession_proofs` |
| `ConnectionLifecycle` | what the core promises: states, attempts, confirmed stop | refined by `RobotSession` |
| `EventStream` | one subscription and the frames of its topic | run directly; `EventStream_proofs` |
| `Handles` | several handles of one topic against the queue of the control thread | run directly; `Handles_proofs` |
| `Heartbeat` | the two timers, in ticks | run directly; `Heartbeat_proofs` |
| `SyncCalls` | the threads: promises, callbacks, Close | run directly; `SyncCalls_proofs` |
| `WsClient` | the WebSocket client: its owner and its io thread | run directly; `WsClient_proofs` |
| `Socket` | what a WebSocket client promises its owner | refined by `WsClient` |
| `TokenBucket` | the limit on velocity commands | run directly; `TokenBucket_proofs` |
| `WireFormat`, `Backoff` | pure functions, as operators | `MCAlgorithms`; `Algorithms_proofs` |
| `RateBuckets` | the ring of counters of received frames | `MCAlgorithms`; `Algorithms_proofs` |

**RobotSession** keeps the names of the code.  `active_subs_` is a function from topics to slots,
`Absent` when the map has no entry.  `inq` is what the io thread posted, `net` the requests the
robot has yet to answer; `ws_ = "dead"` is a client whose socket ended but which is still held.
Payloads are abstracted to the category `classify` gives their error code.  Two failures of the code
end the process, and are the variable `crashed`: unbounded recursion, and an iterator of a map that
was cleared.  `engageAcked` is history: the robot confirmed an engage on the current connection.
Requests take fresh ids; a handler that sends several messages sees the socket in one state, since
`WsClient::Post` looks at a flag that, once false, stays false, and a socket that ends between two
sends has the outcome of one that ended before them: everything sent is given up by
`OnTransportClose`.  The heartbeat appears as `HeartbeatDead`, at any time in Ready.

**EventStream** starts with a subscription whose first request was sent; the connection is up or
down.  `DrainPendingBuffer` is one step for each frame, during which the control thread does nothing
else.  The robot numbers frames from 1, may skip or not number one, repeat any earlier one, ack after
the first frames, refuse history, or restart its numbering while disconnected.  The dispatcher's
queue keeps the order, so that a frame posted counts as delivered.  In `Inline` mode frames run on the
control thread and statuses do not (`robot_impl.cpp:1128`, `1164`): each kind keeps its order, but a frame may
reach the user before a status that was fired earlier, and what is said of the two together is the order in
which the control thread decides.  `first`, `got`, `told` and
`heard` record what the user was told.

**Heartbeat** counts time in ticks and lets an expired timer be handled before the next tick.
`ghost` is the handler of a deadline that was queued when the timer was cancelled or armed again,
which asio runs all the same.  Sending fails at any time.

**SyncCalls** gives every thread a program counter.  A call is invoked (state and thread checked on
the caller's thread), posted, handled, completed by a reply, its deadline, a lost connection or
Close, and returned.  Close is its steps: exchange and post, look whether the thread is joinable,
join, stop the dispatcher.  What two joins of one thread do is undefined in C++; the model has no
step for it.  The dispatcher's callbacks may call anything a user may.

**Handles** has one topic, several handles, and a queue of handlers posted to the control thread.
The rest of the session is reduced to what a slot sees of it: `conn` is Ready, `Dead` (Ready with a
socket that ended), Down, Restoring or Fatal.  The robot handles requests in order and `serving` says
whether it sends frames.  `careful` is chosen at the start: whether the user ends a subscription (by
`Unsubscribe` that returned Ok, or by destroying the handle) before making the next one of the topic.
`foreign`, `stale` and `untold` are history.  `SendOrFail` fails when the socket ends between
`IsOpen` and `Post` (`UnsubscribeSendFails`).

**WsClient** is the owner, which is the control thread and makes one call at a time, and the io
thread, which runs posted handlers in order and completions of operations whenever it is free.  A
callback (`on_message`, `on_close`) is a step of its own, during which the owner goes on and the io
thread does not.  The destructor is the steps between which the io thread can come.  Time is only an
order: a deadline passes at any moment, and the owner's own wait, which is a second longer, ends after
it.  `wire` is what the socket took: a write that was taken completes without error, any other only
once the socket ended.  Endpoint, certificates and payloads are left out.

**Socket** is the client as its owner sees it, without threads: it is new, open, shut or gone; it accepts
messages while it is open and the network takes them in that order; each `Send` is answered once, and
truly; messages and one report of the end are called back between opening and the end of the destructor.
`WsClient` implements it under this mapping: it is open when `open` is set, shut when it has a stream and
`open` is not set, gone when the destructor returned (`Phase`); the messages taken are counted by `wire`
(`Len(wire)`), the answers are the promises that are set (`Told`).

**TokenBucket** counts tokens in ticks, so that its arithmetic is exact.  Reading the clock and taking
the lock are two steps.  `window` is any interval, chosen at the start and never changed: what is
shown of it is shown of every interval.

**WireFormat** takes a message as the set of its fields with number, wire type and value: protocol
buffers omit defaults and skip a field whose wire type is not the expected one.  **Backoff** has the
doubles of the code in hundredths.  In `MCAlgorithms` a step picks an input, and the invariants compare
the operators with reference definitions.

**RateBuckets** is the ring, with any number of counters for the code's 60, and its two uses: a frame
that is counted and a call of `GetDiagnostics`.  Between them the system clock shows any second, later or
earlier.  `seen` is history: the frames of each second, as the clock has it now; a use that finds the clock
set back forgets the seconds that are still to come.  `setBackTo` is the second of the last such use.

Definitions named `...` after "Mutant:" in a comment are plausible bugs of the definition that
follows them.  No specification uses them; `PROJECT.json` says which property notices each.

## Runs

Passing:

| Run | Bounds | Shows |
|---|---|---|
| `session` | 2 topics (one Event), 1 attempt, 3 faults, 3 operations; 774 000 states | `SessionInv`, confirmed stop, attempts, clean retries, deadlines for acks, terminal states, no early Ready, refinement of `ConnectionLifecycle` |
| `session_live` | 2 topics, 1 attempt, 2 faults, 2 operations | `RetryHappens`, `SubscribeSettles`, `CallsComplete` |
| `event_stream` | buffer of 2, 4 frames, 2 messages under way, 3 faults; all options; 2.5 million states | order, accounting of losses, buffer, one start |
| `handles` | 3 handles, 2 calls of Unsubscribe, 1 lost connection, a fatal error at any time; both kinds of user; 3.4 million states | no orphan, ended is off, own slot only, robot told |
| `heartbeat` | interval 4, ping timeout 2, 3 misses, restoring below the interval; 4 300 states | detection within `DetectionTime` (a tight bound), no hasty verdict |
| `sync_calls` | 2 users, worker and control thread, both modes, 2 calls, 2 closes, 2 callbacks; 167 000 states | promises set once, none forgotten, Close final; calls posted before Close return; Close returns, also to those who ask again |
| `ws_client` | 2 messages out, 2 in, one connection; 242 000 states | refinement of `Socket`, one operation of each kind, order, one report, no callback without Connect, truth of Send; calls end; the end is reported |
| `token_bucket` | 3 threads, period 2, burst 2, 6 ticks, every interval | the rate in every interval, no starvation |
| `algorithms` | 3 counters, 7 seconds, 2 frames in each, the clock set anywhere; delays 0 to 30 s, 7 attempts; messages with each field present and absent; 304 000 states | responses told from frames, categories of error codes, back-off in range, counters exact |

Why the bounds are enough: three faults and three operations allow a connection to be lost, lost
again while it is being restored, and a refusal or a late timer in between, with a stop engaged, a
subscription made and one dropped; an attempt limit of 1 is reached on the second loss.  Two topics
distinguish "one of the acks" from "all".  A buffer of two overflows with three frames.  Three handles
are two that interfere and one that profits; two calls of `Unsubscribe` let one time out and another
be answered.  Two messages make one wait behind the other in the write queue, two reads make one
arrive after the end was reported.  Three threads reach the bucket in an order in which a stamp is
turned back twice.  A ring of three counters and a clock of seven seconds let the
clock jump over the ring, and go round it after it was set back.  Deadlock is
not checked where the bounds run out or the system may stop for good (Shutdown, Fatal, a slot that
is closed, a client that is gone); the heartbeat never stops, and is checked.

Violations, each of a sentence of the documentation:

| Run | What happens |
|---|---|
| `handshake_timeout` | the handshake times out: Connecting for ever, no retry |
| `estop_replay_crash` | connection lost while the stop is replayed: `OnTransportClose` and the replay's completion call each other without end |
| `drop_while_resubscribing` | a subscription dropped while it is restored: its ack finds no slot and is not counted, Reconnecting for ever |

In the last run one thing may go wrong (the connection is lost, or an attempt fails) and the robot answers
everything after that, so that nothing else holds a reconnection up.  With an `AckTooLate` that calls `SettleResubscription`, as the other acks do,
`ReconnectingEnds` holds under the same configuration.

The same modules show more, which a reader can see by changing a configuration.  Each is a limit of
what the passing runs claim:

* A subscription made while the others are being restored is registered and never sent
  (`robot_impl.cpp:744`; `API.md:105` says it is established on Ready).  `MCRobotSession`, both topics,
  `EventTopics = {task}`, `MaxAttempts <- NoLimit`, `MaxFaults = 1`, `MaxOps = 2`, invariant
  `ReadySubscribesAll`.
* An Event topic subscribed to before the first handshake stays Telemetry
  (`robot_impl.cpp:727`), without detection of losses (`API.md:626`).  `MCRobotSession`, one Event
  topic, `MaxFaults = 0`, `MaxOps = 1`, invariant `EventTopicsWatched`.
* A failed send inside the loop over `active_subs_` clears the map under it when no attempt is left
  (`robot_impl.cpp:520`).  `MaxAttempts = 0`, one fault, one operation, invariant `NeverCrashes`.
* Losses before the first delivered frame are silent when the stream starts at 1, since `last_seq = 0`
  means "none yet" (`robot_impl.cpp:1097`); the `first > 1` of `LossAccounted` is this exception.  `EventStream`, `MaxFaults = 0`, `EveryLossDetected`;
  `LossAccounted` is what holds.
* The callback queue is not bounded by `subscription_queue_size` (`robot_impl.cpp:1133`, `API.md:162`).
  That is seen in the code; the models leave the dispatcher's queue unbounded.
* When restoring a session takes `heartbeat_interval`, the idle timer expires before Ready and is not
  armed again: the connection has no heartbeat (`robot_impl.cpp:1738`, `API.md:154`).  `Heartbeat` with
  `FairSpec`, interval 4, timeout 2, 2 misses, `MaxRestore = 4`, `MaxSilence = 12`, property
  `DeadPeerGivenUp`; the run `heartbeat` has `MaxRestore` below the interval.
* With `heartbeat_interval <= ping_timeout`, which `ValidateOpts` accepts, every ping restarts the
  deadline and a dead robot is never noticed (`robot_impl.cpp:1777`).  `Heartbeat` with interval 2 and
  timeout 3, `DeadPeerGivenUp`; the run `heartbeat` has the timeout below the interval.
* A call posted after the control loop ended never returns (`Unsubscribe` and `GetDiagnostics` do not
  look at the state, the others look before they post; `robot_impl.cpp:1208`, `API.md:378`): hence
  "posted before Close" in `CallsReturn`.
* A synchronous call in an Inline data callback is not refused, although `API.md:379` says so, and
  waits for the thread it runs on (`dispatcher.cpp:45`); Close in an Inline callback and Close in a
  dispatched one wait for each other.  These are the two cases of `SelfBlocked`, which `CallsReturn` and
  `CloseReturns` except.  `SyncCalls`, `Modes = {"Inline"}`, `~SelfBlocked` as an invariant.
* Two threads in Close may join the control thread at the same time (`robot_impl.cpp:206`, `API.md:87`
  and `8`), which is undefined; `~JoinedTwice` as an invariant of `SyncCalls` shows it.  The model has no
  step for it, and `CloseReturns` excepts it.
* A user who subscribes to a topic again before ending the first subscription may lose it: a drop and a
  reply name the topic, so that they close the slot of another handle (`robot_impl.cpp:1176`, `1231`).
  `Handles`, `foreign = {}` as an invariant; `OwnSlotOnly` is what holds.
* The robot is not told of a subscription dropped or unsubscribed while it is being restored
  (`robot_impl.cpp:1180`, `1215`), nor of one dropped after an `Unsubscribe` that timed out and a
  reconnection, since `unsubscribe_sent` is never reset (`1181`).  These are the cases of `untold` that
  `RobotTold` excepts.
* A release of the emergency stop that timed out at the caller may have been executed.  The intent stays
  Engaged and the stop is replayed on the next connection (`robot_impl.cpp:1426`).  `API.md:271` says that a
  release is not replayed, and nothing of this case; no property is about it.
* The limit of 20 Hz (`API.md:260`) holds by the times the threads read.  A thread that is delayed
  between reading the clock and sending lets more commands through in an interval of real time
  (`rate_limiter.cpp:17`).
* No code of the robot is mapped to `TaskInvalidState` (`proto_codec.cpp:490`, `537`), which `API.md:307`
  promises of `PauseTask` and `ResumeTask`.
* The delay announced as `next_retry_in_ms` is another random draw than the one the timer uses
  (`robot_impl.cpp:638`, `1877`), and a `reconnect_base_delay` of 0 is accepted and means no delay at all.

Fairness (`FairSpec`).  The control thread is a loop over `io_context::run`, which runs queued
handlers and expired timers: weak fairness of handlers and of each deadline.  `RobotAccepts` is fair
in the session: a robot that is reached and willing answers; requests it loses or refuses are faults,
and those are bounded.  In `SyncCalls` threads are scheduled and callbacks of the user end.
In `WsClient` the io thread runs handlers that are ready, deadlines pass, the owner returns from waits
that are over, and an operation on a socket that ended completes; the peer need never answer.  Nor need the
resolver while the io thread runs, but the destructor of `io_context` joins the resolver's thread
(`ws_client.cpp:258`): `Join` is fair because `getaddrinfo` returns sooner or later.  In `Heartbeat` time passes.  No fairness is assumed of users, of the connection being made, or of faults.

## Proofs

Every safety property of the passing runs is a theorem, both refinements included.  The theorems hold for arbitrary finite sets of topics, handles and threads, and any limit of attempts,
buffer size, number of messages, calls and faults.  Each component has a type invariant, proved first,
and an inductive invariant that the listed theorems follow from.

**Session** (`RobotSession_proofs`).  One lemma for each shared effect
(`ToFatal`, `DoReconnect`, `OnTransportClose`, `SendSubscribe`, ...), one step for each action.

* `TypeCorrect`, `PhaseCorrect`, `EStopSafe`, `AttemptsBounded`.  `EStopConfirmedWhenReady` is not
  inductive: that the last ack may declare Ready needs to know that no stop is waiting to be replayed
  *unless* `reconnect_estop_pending_` says so, which needs to know in which phase a replay, a handshake
  or an ack can be outstanding.  `PhaseInv` is that knowledge: the requests of each phase
  (`RequestsOfPhase`), the acks (`AcksOfPhase`), the attempts left (`RetryArmed`), and the stop
  (`StopOfPhase`).
* `SessionCorrect`: `SessionInv`, which is `PhaseInv` and `SlotInv`.  `SlotInv` adds that subscribe requests have
  ids of their own (`RequestIdsDistinct`), so that a reply or a deadline completes one of them; what
  `ws_`, the timers and each slot are in each phase (`ConnectionOfPhase`, `SlotOfPhase`); and that
  `reconnect_subs_pending_` never undercounts the slots that wait for an ack (`AcksCounted`, a count over
  an arbitrary set of topics).  The run `session` checks it as well.
* From it `TransientFailureClean`, `AcksHaveDeadlines` and `TerminalClean`; and `ReadyNotEarly`, an action
  property: a step to Ready out of Reconnecting is the answer that takes the counter to 0.
* `LifecycleImplemented`: `Spec => Lifecycle!Spec` under the mapping of the four abstract variables
  to `state_`, `reconnect_attempt_`, `last_estop_intent_`, `engageAcked`; it uses `TypeOK` and
  `PhaseInv`.

**Stream** (`EventStream_proofs`).  `StreamTypeCorrect`, `LossAlwaysAccounted`, `AlwaysInOrder`,
`BufferAlwaysBounded`, from `StreamInv`, which adds to `LossAccounted` what holds while a slot is not
Active: a resumption is asked for from the number after `last_seq`, and only a slot with `last_seq = 0`
has forgotten how far the user got.  `AlwaysStartsOnce`: the flag that tells a resumption from a start
survives every way to Pending.

**Handles** (`Handles_proofs`).

* `EndedStaysOff`, `NeverOrphaned`, from `HandlesInv`: a handle is subscribed once, so its handler of
  Subscribe is the first in the queue that names it (`SubscribedFirst`), nothing about it is under way
  before that (`Fresh`), and a handler that finds `user_closed` does not enter the slot.  They hold for
  careless users too.
* `OwnSlotTaken`, from `OwnerInv`.  A drop and a reply name the topic and not the handle; what saves a
  careful user is order.  At most one handle has not ended (`CarefulInv`); behind the subscription of a
  handle nothing in the queue is for another one before its drop (`Segmented`, `DroppedFirst`), so that
  the drop at the front of the queue is of the handle in the map; and a number of a request belongs to
  one handle only (`NameInv`), with one call of Unsubscribe at a time (`CallInv`).
* `RobotIsTold`, from `OwnerInv`, `LinkInv` (what is on its way in each phase of the connection) and
  `ToldInv`: on the wire a subscription follows an unsubscription or finds the robot silent
  (`Alternates`), and once the subscription is over for the SDK (`Over`) the last request on the wire is
  an unsubscription, or the wire is empty and the robot does not serve (`Quiet`).

**Heartbeat** (`Heartbeat_proofs`).

* `NeverHasty`, from `SilenceInv`: the silence is at least the interval, the misses counted, and the
  time the last ping has waited.  The difficulty is the handler of a deadline that was queued when the
  timer was cancelled or armed again (`ghost`): either it has waited in full, or a message came since and
  no ping is active, so that it counts nothing.
* `SilentGivenUp`: `DetectedInTime`, if `Timely`: `PingTimeout` and `MaxRestore` are below the interval,
  and the model counts silence beyond the time claimed.  Without the first two the claim is false (see
  "Runs").  `DetectionInv` says how far a silent robot has got (`Pinging`): `j` whole intervals, at the end
  of each of which the idle timer armed the deadline anew, and `r` misses in the present one; all of
  `MissesPerInterval` misses of each whole interval but the first are counted, also when the last deadline
  and the idle timer expire together.  As fewer than `Misses` are counted, division bounds `j` and `r`.

**Threads** (`SyncCalls_proofs`).  `SetAtMostOnce`, `NoCallForgotten`, `CloseFinal`.  The first two from
`PromiseInv`: a call is in one of invoked, queued, in flight and set, one handler for each call is queued
(`OnePerCall`), and a request in flight has a deadline armed or queued.  The last from `CloseInv`, which
says what is over at each step of Close, for any number of threads in it.

**WebSocket client** (`WsClient_proofs`).

* `WsCorrect`: `WsInv` says between any two steps of the owner and the io thread how far the attempt to
  connect has got (`ConnectInv`), which operation the read loop has under way (`ReadInv`), who has closed
  (`CloseInv`), what was reported (`ReportInv`), and that the messages accepted are, in order, those the
  socket took, those in the queue, and those in handlers that are posted (`InFlightInv`, `QueueInv`,
  `NextQueued`).  From it `OneOperationOfEach`, `OrderKept`, `EndReportedOnce`, `OnlyConnect`, `SendTruthful`.
* `SocketImplemented`: `Spec => ImplementsSocket`.  `WsInv` is not enough for it: `OwnerInv` adds that a
  client in its destructor is not open and, once the io thread is being stopped, that its socket has ended,
  so that nothing happens outside any more; and that no message is answered before it was accepted.  Then
  one step for each action: what it does outside is one step of `Socket` or none.  The only action that is
  two things at once is the report of a failed write (`ReportedWrite`), which also fails what was queued.

**Rate limiter** (`TokenBucket_proofs`).  `RateAlwaysBounded`, `SpacedAlwaysGranted`, from `BucketInv`.
`tokens_ - last_` never grows: a refill adds the elapsed time, also a negative one, to both, or less.  At
the first command in the interval it is at most `Capacity - window.from`, and every command in it takes
its price off; as `last_` is at most `window.to` at the last one, no more than the capacity and the length
of the interval was paid.

**Pure functions and counters** (`Algorithms_proofs`).

* `MessagesToldApart` and `CodesDecided`, for all numbers and strings in the fields.  The set of fields of
  an encoded message is looked up field by field (`GetVarint`, `GetBytes`): a field that was not written,
  or has the other wire type, reads as the default.
* `BackoffBounded`, for all options that `ValidateOpts` accepts, all attempts and random numbers.  The loop
  of `NextBackoff` is a recursive function, and so is the power of two it is compared with.  That such a
  function exists and has the values its equation says is proved here (`IteratesAgree`, `IteratesUpTo`,
  `IteratesExist`), by induction in the form of `SetInduction`, which is about a set and not about an
  operator and follows from the library's theorem that a set of numbers has a least element.  The doubled
  delay, cut at the maximum after each doubling, is the power cut once (`ExpDelayValue`).
* `WindowCounted`, for rings of every length.  `WindowExact` is not inductive: it says nothing of a ring
  whose clock was set back, from which a right one must come.  `CountersRight` does: the counters of the
  seconds after the one the clock was set back to are right from the moment they are counted.  That
  clearing the seconds of the gap, at most a whole ring of them, touches no other second of the window is
  arithmetic of remainders (`CountersApart`, `CountersAround`).

Type invariants, and `WsInv`, are proved and not run.

Assumptions: `SessionAssumption` (finite topics, `NoTopic` is none of them, limits are numbers of
the right sign), `StreamAssumption` (`subscription_queue_size >= 1`, as `ValidateOpts` demands),
`HandlesAssumption` (`None` is no handle), `HeartbeatAssumption` (times are numbers, `PingTimeout` is
not 0, silence is counted at least as far as the verdict needs), `SyncAssumption` (the threads are
different ones), `WsAssumption` (the bounds are numbers), `BucketAssumption` (rate and burst are positive),
`BucketsAssumption` and `BoundsAssumption` (a ring has a counter, a clock a second),
`NumbersAssumption` (ids, times, delays and attempts are natural numbers, error codes integers).

Only model-checked: liveness (`RetryHappens`, `SubscribeSettles`, `CallsComplete`, `CallsReturn`,
`CloseReturns`, `CallsEnd`, `EndReported`), which with its fairness is out of the prover's reach.

## Not modelled

Encoding, and the decoding of the replies to single calls (fields copied one to one); latency
histograms, logs and JSON; arguments and results of calls; certificates and the parsing of the
endpoint; the destructor of a `Robot`; the dispatcher's queue in `EventStream`; in `RobotSession` the requests that
only hand a result to a caller (see `SyncCalls`) and the pings of the heartbeat (see `Heartbeat`), which have
no deadline in `inflight_rpc_` (`robot_impl.cpp:1774`, `1825`) and stay there until they are answered or the
connection ends; rounding errors of
floating-point numbers.  `Watchdog` is not used by the library.  `WsClient::Send` is not either, but is
modelled.  `WsClient` and `RobotSession` are not composed: the session takes from the client that its
end is reported once (`EndsOnce`, `EndReported`), that messages keep their order (`WrittenInOrder`) and
that nothing is called back before `Connect` returned or after the client is gone (`OnlyConnectOpens`,
`EndsOnce`).  `Socket` says the same in one specification, and `WsClient` is proved to implement it; that
`inq` and `ws_` of the session behave like it is seen by reading, not proved.

## Plan

Done: the connection core with its abstract specification, the stream, the handles, the heartbeat,
the threads, the WebSocket client with its abstract specification, the token bucket, the pure functions,
the counters of frames, and the theorems above.  Next, in this order:

1. `RobotSession` on top of `Socket`: `ws_` and `inq` as an instance of it, so that the session rests on what
   the client is proved to implement.
2. The replies to single calls, should their handling ever keep state.

------------------------------- MODULE WsClient -------------------------------
(***************************************************************************)
(* The WebSocket client (src/src/ws_client.cpp).  Two threads: the owner,  *)
(* which is the control thread of RobotImpl and makes the public calls one *)
(* after the other, and the io thread, which runs the handlers of ioc.     *)
(* Handlers the owner posts run in order; the completion of an operation   *)
(* on the socket, or the handler of a timer, runs whenever the io thread   *)
(* is free.  Time is only an order of events: the deadline of an operation *)
(* passes at any time, and the owner gives up waiting after that deadline. *)
(***************************************************************************)
EXTENDS Integers, Sequences, FiniteSets

CONSTANTS
  MaxMsgs,   \* bound: messages the owner sends or posts
  MaxReads   \* bound: messages the peer sends

ASSUME WsAssumption == MaxMsgs \in Nat /\ MaxReads \in Nat

Msgs == 1 .. MaxMsgs
Results == {"ok", "Timeout", "TransportFailure"}

VARIABLES
  owner,            \* where the owner is
  sending,          \* the message of the Send it is in
  chain,            \* the step of ConnectAttempt that is outstanding
  deadline,         \* its deadline_timer
  timed_out,
  connect_done,     \* its promise
  attempt_stream,   \* does the attempt hold the stream?
  stream,           \* does the client hold it?
  socket,           \* "up", "broken" (ended by the peer) or "closed" (by us)
  open, closing,
  ioc,              \* handlers posted to ioc
  stopped,          \* ioc.stop() was called
  io,               \* what the io thread does
  reading,          \* number of async_read operations outstanding
  writing,          \* async_write operations outstanding, and whether the socket took each
  close_ops,        \* number of async_close operations outstanding
  draining,         \* the timer of StartDrainAndClose is armed
  write_queue, write_in_flight,
  done,             \* promise of each message; "none" for a posted one
  timer,            \* deadline of each message
  late_send,        \* timed_out of each message
  accepted,         \* history: messages 1 .. accepted were accepted
  wire,             \* history: messages the socket took
  reads,            \* history: messages delivered to on_message
  reports,          \* history: calls of on_close
  late              \* history: messages delivered after on_close was called

attemptVars == <<chain, deadline, timed_out, connect_done, attempt_stream>>
writeVars == <<write_queue, write_in_flight, writing, done, timer>>
opVars == <<reading, close_ops, draining>>
historyVars == <<accepted, wire, reads, reports, late>>
vars == <<owner, sending, attemptVars, stream, socket, open, closing, ioc, stopped, io, opVars,
          writeVars, late_send, historyVars>>

Posted(what) == [run |-> what, msg |-> 0]
PostedWrite(m) == [run |-> "write", msg |-> m]

-----------------------------------------------------------------------------
(* The owner.                                                              *)

(* Connect posts the attempt and waits; an endpoint without a port throws. *)
Connect ==
  /\ owner = "new"
  /\ \/ owner' = "connecting" /\ ioc' = Append(ioc, Posted("start"))
     \/ owner' = "failed" /\ UNCHANGED ioc
  /\ UNCHANGED <<sending, attemptVars, stream, socket, open, closing, stopped, io, opVars,
                 writeVars, late_send, historyVars>>

(* Mutant: the owner waits without a limit.                                *)
ConnectWaits == FALSE /\ UNCHANGED vars

(* The chain did not signal in connect_timeout and a second.               *)
ConnectGivesUp ==
  /\ owner = "connecting" /\ connect_done = "unset" /\ deadline \in {"expired", "fired"}
  /\ owner' = "failed"
  /\ UNCHANGED <<sending, attemptVars, stream, socket, open, closing, ioc, stopped, io, opVars,
                 writeVars, late_send, historyVars>>

(* The promise is set: rethrow, or take the stream and start to read.      *)
ConnectReturns ==
  /\ owner = "connecting" /\ connect_done # "unset"
  /\ IF connect_done = "ok"
     THEN /\ owner' = "using"
          /\ stream' = TRUE /\ attempt_stream' = FALSE
          /\ open' = TRUE /\ ioc' = Append(ioc, Posted("read"))
     ELSE owner' = "failed" /\ UNCHANGED <<stream, attempt_stream, open, ioc>>
  /\ UNCHANGED <<sending, chain, deadline, timed_out, connect_done, socket, closing, stopped, io,
                 opVars, writeVars, late_send, historyVars>>

Accept(m, promise, due) ==
  /\ owner = "using" /\ m = accepted + 1 /\ m \in Msgs
  /\ accepted' = m
  /\ ioc' = Append(ioc, PostedWrite(m))
  /\ done' = [done EXCEPT ![m] = promise] /\ timer' = [timer EXCEPT ![m] = due]
  /\ UNCHANGED <<attemptVars, stream, socket, open, closing, stopped, io, opVars, late_send,
                 write_queue, write_in_flight, writing, wire, reads, reports, late>>

(* Post does not wait; it is refused once the client is closing.           *)
Post == \E m \in Msgs : open /\ ~closing /\ Accept(m, "none", "off") /\ UNCHANGED <<owner, sending>>

(* Send waits for the promise of its message.                              *)
Send ==
  \E m \in Msgs : open /\ Accept(m, "unset", "armed") /\ owner' = "sending" /\ sending' = m

SendReturns ==
  /\ owner = "sending"
  /\ done[sending] # "unset" \/ timer[sending] \in {"expired", "fired"}
  /\ owner' = "using" /\ sending' = 0
  /\ UNCHANGED <<attemptVars, stream, socket, open, closing, ioc, stopped, io, opVars, writeVars,
                 late_send, historyVars>>

Close ==
  /\ owner = "using" /\ ~closing
  /\ closing' = TRUE
  /\ ioc' = IF open THEN Append(ioc, Posted("close")) ELSE ioc
  /\ UNCHANGED <<owner, sending, attemptVars, stream, socket, open, stopped, io, opVars, writeVars,
                 late_send, historyVars>>

(* The destructor, in the steps the io thread can come between: the flags, *)
(* the socket, ioc.stop(), the join.                                       *)
Destroy ==
  /\ owner \in {"new", "failed", "using"}
  /\ owner' = "destroying" /\ closing' = TRUE /\ open' = FALSE
  /\ UNCHANGED <<sending, attemptVars, stream, socket, ioc, stopped, io, opVars, writeVars,
                 late_send, historyVars>>
DestroySocket ==
  /\ owner = "destroying" /\ owner' = "stopping"
  /\ socket' = IF stream THEN "closed" ELSE socket
  /\ UNCHANGED <<sending, attemptVars, stream, open, closing, ioc, stopped, io, opVars, writeVars,
                 late_send, historyVars>>
Stop ==
  /\ owner = "stopping" /\ owner' = "joining" /\ stopped' = TRUE
  /\ UNCHANGED <<sending, attemptVars, stream, socket, open, closing, ioc, io, opVars, writeVars,
                 late_send, historyVars>>

(* Mutant: the io thread is not joined.                                    *)
JoinSkipped ==
  /\ owner = "joining" /\ owner' = "gone"
  /\ UNCHANGED <<sending, attemptVars, stream, socket, open, closing, ioc, stopped, io, opVars,
                 writeVars, late_send, historyVars>>

(* The io thread is joined and ioc destroyed, which joins the thread of    *)
(* the resolver in turn: it ends no sooner than a getaddrinfo under way.   *)
Join ==
  /\ owner = "joining" /\ io = "exited" /\ owner' = "gone"
  /\ UNCHANGED <<sending, attemptVars, stream, socket, open, closing, ioc, stopped, io, opVars,
                 writeVars, late_send, historyVars>>

-----------------------------------------------------------------------------
(* The io thread: the chain of ConnectAttempt.                             *)

Idle == io = "idle" /\ ~stopped
Run(what) == Idle /\ ioc # <<>> /\ Head(ioc).run = what /\ ioc' = Tail(ioc)

AttemptUnchanged ==
  UNCHANGED <<owner, sending, stream, open, closing, stopped, io, opVars, writeVars, late_send,
              historyVars>>

start ==
  /\ Run("start") /\ chain' = "resolve" /\ deadline' = "armed"
  /\ UNCHANGED <<timed_out, connect_done, attempt_stream, socket>> /\ AttemptUnchanged

(* Mutant: an attempt that succeeds opens the client itself.               *)
finishOpens(result) ==
  /\ chain' = "done" /\ connect_done' = result /\ open' = (open \/ result = "ok")
  /\ UNCHANGED <<owner, sending, deadline, stream, closing, stopped, io, opVars, writeVars,
                 late_send, historyVars, timed_out, ioc>>

(* finish sets the promise and cancels the deadline, which may be queued.  *)
finish(result) ==
  /\ chain' = "done" /\ connect_done' = result
  /\ deadline' = IF deadline = "armed" THEN "off" ELSE deadline
  /\ UNCHANGED <<timed_out, ioc>> /\ AttemptUnchanged

(* A socket closed by the deadline reports an error that means Timeout.    *)
map_error == IF timed_out \/ socket = "closed" THEN "Timeout" ELSE "TransportFailure"

Advance(next) ==
  /\ chain' = next
  /\ UNCHANGED <<deadline, timed_out, connect_done, ioc>> /\ AttemptUnchanged

(* The name is resolved, and the stream made; or not.                      *)
Resolved ==
  /\ Idle /\ chain = "resolve"
  /\ \/ attempt_stream' = TRUE /\ socket' = "up" /\ Advance("tcp")
     \/ attempt_stream' = TRUE /\ socket' = "up" /\ finish("TransportFailure")
     \/ UNCHANGED <<attempt_stream, socket>> /\ finish(map_error)

(* The TCP connection, the TLS and the WebSocket handshake.                *)
Connected ==
  /\ Idle /\ chain \in {"tcp", "tls", "ws"} /\ UNCHANGED <<attempt_stream, socket>>
  /\ \/ chain = "tcp" /\ socket = "up" /\ Advance("tls")
     \/ chain = "tls" /\ socket = "up" /\ Advance("ws")
     \/ chain = "ws" /\ socket = "up" /\ finish("ok")
ConnectFails ==
  /\ Idle /\ chain \in {"tcp", "tls", "ws"} /\ UNCHANGED <<attempt_stream, socket>>
  /\ finish(map_error)

(* The deadline passes; its handler closes the socket the attempt holds.   *)
(* It may run after finish: then it races with the owner for the stream.   *)
DeadlinePasses ==
  /\ deadline = "armed" /\ deadline' = "expired"
  /\ UNCHANGED <<chain, timed_out, connect_done, attempt_stream, socket, ioc>> /\ AttemptUnchanged
OnDeadline ==
  /\ Idle /\ deadline = "expired" /\ deadline' = "fired" /\ timed_out' = TRUE
  /\ socket' = IF attempt_stream THEN "closed" ELSE socket
  /\ UNCHANGED <<chain, connect_done, attempt_stream, ioc>> /\ AttemptUnchanged

-----------------------------------------------------------------------------
(* The io thread: reading.                                                 *)

ReadUnchanged ==
  UNCHANGED <<owner, sending, attemptVars, stream, socket, closing, stopped, close_ops, draining,
              writeVars, late_send, accepted, wire>>

DoRead == reading' = IF stream /\ open THEN reading + 1 ELSE reading

StartRead ==
  /\ Run("read") /\ DoRead
  /\ UNCHANGED <<open, io, reads, reports, late>> /\ ReadUnchanged

(* A message is handed to on_message, then the next read begins.  What     *)
(* arrived before the connection ended is still read after it.             *)
ReadMessage ==
  /\ Idle /\ reading > 0 /\ reads < MaxReads
  /\ reading' = reading - 1 /\ io' = "delivering"
  /\ reads' = reads + 1 /\ late' = IF reports > 0 THEN late + 1 ELSE late
  /\ UNCHANGED <<open, ioc, reports>> /\ ReadUnchanged

(* Mutant: the next read is not begun.                                     *)
DeliveredStops ==
  /\ io = "delivering" /\ io' = "idle"
  /\ UNCHANGED <<open, ioc, reading, reads, reports, late>> /\ ReadUnchanged

Delivered ==
  /\ io = "delivering" /\ io' = "idle" /\ DoRead
  /\ UNCHANGED <<open, ioc, reads, reports, late>> /\ ReadUnchanged

(* Mutant: the flag is stored, not exchanged.                              *)
OnDisconnectStores(who) == open' = FALSE /\ io' = who

(* The first to clear open calls on_close, still in this handler.          *)
OnDisconnect(who) == open' = FALSE /\ io' = IF open THEN who ELSE "idle"

ReadFails ==
  /\ Idle /\ reading > 0 /\ socket # "up"
  /\ reading' = reading - 1 /\ OnDisconnect("reporting")
  /\ UNCHANGED <<ioc, reads, reports, late>> /\ ReadUnchanged
Reported ==
  /\ io = "reporting" /\ io' = "idle" /\ reports' = reports + 1
  /\ UNCHANGED <<open, ioc, reading, reads, late>> /\ ReadUnchanged

-----------------------------------------------------------------------------
(* The io thread: writing.                                                 *)

WriteUnchanged ==
  UNCHANGED <<owner, sending, attemptVars, stream, closing, stopped, opVars, accepted, reads, late>>

(* The promises of the messages that still have to be set.                 *)
Fail(dn, msgs) ==
  [m \in Msgs |-> IF m \in msgs /\ dn[m] = "unset" THEN "TransportFailure" ELSE dn[m]]
Cancel(msgs) == [m \in Msgs |-> IF m \in msgs /\ timer[m] = "armed" THEN "off" ELSE timer[m]]

Elements(q) == {q[i] : i \in 1 .. Len(q)}

(* Go on with the queue q, after the promise of the message in fin was set.*)
ProcessWriteQueue(q, dn, fin, ops) ==
  CASE q = <<>> ->
         /\ write_queue' = q /\ write_in_flight' = FALSE /\ writing' = ops
         /\ done' = dn /\ timer' = Cancel(fin)
    [] q # <<>> /\ ~(stream /\ open) ->
         /\ write_queue' = <<>> /\ write_in_flight' = FALSE /\ writing' = ops
         /\ done' = Fail(dn, Elements(q)) /\ timer' = Cancel(fin \cup Elements(q))
    [] OTHER ->
         /\ write_queue' = q /\ write_in_flight' = TRUE /\ writing' = Append(ops, [msg |-> Head(q), taken |-> FALSE])
         /\ done' = dn /\ timer' = Cancel(fin)

(* Mutants: the newest message goes to the front; a message is written at  *)
(* once, though another one is under way.                                  *)
PushFront(m) == <<m>> \o write_queue
AlwaysStart == TRUE

Push(m) == Append(write_queue, m)
NoneInFlight == ~write_in_flight

(* The handler Post and Send post: refused, queued, or written at once.    *)
EnqueueWrite ==
  LET m == Head(ioc).msg IN
  /\ Run("write")
  /\ CASE closing \/ ~open \/ ~stream ->
            /\ done' = Fail(done, {m}) /\ timer' = Cancel({m})
            /\ UNCHANGED <<write_queue, write_in_flight, writing>>
       [] open /\ stream /\ ~closing /\ NoneInFlight ->
            ProcessWriteQueue(Push(m), done, {}, writing)
       [] OTHER -> write_queue' = Push(m) /\ UNCHANGED <<write_in_flight, writing, done, timer>>
  /\ UNCHANGED <<socket, open, io, late_send, wire, reports>> /\ WriteUnchanged

(* The socket takes a message that is being written.                       *)
WireTakes ==
  /\ writing # <<>> /\ ~Head(writing).taken /\ socket = "up"
  /\ writing' = [writing EXCEPT ![1].taken = TRUE] /\ wire' = Append(wire, Head(writing).msg)
  /\ UNCHANGED <<ioc, socket, open, io, write_queue, write_in_flight, done, timer, late_send,
                 reports>> /\ WriteUnchanged

(* Mutant: the error of the write is not looked at.                        *)
WriteResultBlind(m, taken) == IF late_send[m] THEN "Timeout" ELSE "ok"

WriteResult(m, taken) ==
  CASE late_send[m] -> "Timeout" [] ~late_send[m] /\ taken -> "ok" [] OTHER -> "TransportFailure"

(* An async_write is over.  Of a posted message that failed the end of the *)
(* connection is reported; Send reports its own failure to its caller.     *)
WriteCompletes ==
  LET m == Head(writing).msg
      taken == Head(writing).taken
      popped == IF write_queue = <<>> THEN <<>> ELSE Tail(write_queue)
  IN
  /\ Idle /\ writing # <<>> /\ (taken \/ socket # "up")
  /\ IF ~taken /\ done[m] = "none" /\ open
     THEN /\ OnDisconnect("reporting_write")
          /\ writing' = Tail(writing) /\ write_queue' = popped
          /\ UNCHANGED <<write_in_flight, done, timer>>
     ELSE /\ UNCHANGED <<open, io>>
          /\ ProcessWriteQueue(popped,
               IF done[m] = "unset" THEN [done EXCEPT ![m] = WriteResult(m, taken)] ELSE done,
               {m}, Tail(writing))
  /\ UNCHANGED <<ioc, socket, late_send, wire, reports>> /\ WriteUnchanged

ReportedWrite ==
  /\ io = "reporting_write" /\ io' = "idle" /\ reports' = reports + 1
  /\ ProcessWriteQueue(write_queue, done, {}, writing)
  /\ UNCHANGED <<ioc, socket, open, late_send, wire>> /\ WriteUnchanged

(* The deadline of a Send closes the socket, unless the write was over.    *)
SendDeadlinePasses ==
  /\ \E m \in Msgs : timer[m] = "armed" /\ timer' = [timer EXCEPT ![m] = "expired"]
  /\ UNCHANGED <<ioc, socket, open, io, write_queue, write_in_flight, writing, done, late_send,
                 wire, reports>> /\ WriteUnchanged
OnSendDeadline ==
  /\ Idle
  /\ \E m \in Msgs :
       /\ timer[m] = "expired" /\ timer' = [timer EXCEPT ![m] = "fired"]
       /\ IF done[m] # "unset" THEN UNCHANGED <<socket, late_send>>
          ELSE /\ late_send' = [late_send EXCEPT ![m] = TRUE]
               /\ socket' = IF stream THEN "closed" ELSE socket
  /\ UNCHANGED <<ioc, open, io, write_queue, write_in_flight, writing, done, wire, reports>>
  /\ WriteUnchanged

-----------------------------------------------------------------------------
(* The io thread: closing.                                                 *)

CloseUnchanged ==
  UNCHANGED <<owner, sending, attemptVars, stream, socket, closing, stopped, io, reading,
              writeVars, late_send, historyVars>>

DoAsyncClose == close_ops' = IF stream /\ open THEN close_ops + 1 ELSE close_ops

StartDrainAndClose ==
  IF write_queue = <<>> /\ ~write_in_flight
  THEN DoAsyncClose /\ draining' = FALSE
  ELSE draining' = TRUE /\ UNCHANGED close_ops

(* The handler Close posts.                                                *)
OnClose ==
  /\ Run("close")
  /\ IF ~(stream /\ open) THEN UNCHANGED <<close_ops, draining>>
     ELSE IF write_in_flight THEN StartDrainAndClose
     ELSE DoAsyncClose /\ UNCHANGED draining
  /\ UNCHANGED open /\ CloseUnchanged
DrainPoll ==
  /\ Idle /\ draining /\ StartDrainAndClose
  /\ UNCHANGED <<open, ioc>> /\ CloseUnchanged

(* The close handshake ends, or fails; on_close is not called for it.      *)
CloseCompletes ==
  /\ Idle /\ close_ops > 0
  /\ close_ops' = close_ops - 1 /\ open' = FALSE
  /\ UNCHANGED <<ioc, draining>> /\ CloseUnchanged

(* ioc.run() returns once it was stopped.                                  *)
IoExits ==
  /\ io = "idle" /\ stopped /\ io' = "exited"
  /\ UNCHANGED <<owner, sending, attemptVars, stream, socket, open, closing, ioc, stopped, opVars,
                 writeVars, late_send, historyVars>>

(* The peer, or the network, ends the connection.                          *)
Break ==
  /\ socket = "up" /\ socket' = "broken"
  /\ UNCHANGED <<owner, sending, attemptVars, stream, open, closing, ioc, stopped, io, opVars,
                 writeVars, late_send, historyVars>>

-----------------------------------------------------------------------------
Init ==
  /\ owner = "new" /\ sending = 0
  /\ chain = "idle" /\ deadline = "off" /\ timed_out = FALSE /\ connect_done = "unset"
  /\ attempt_stream = FALSE /\ stream = FALSE /\ socket = "none"
  /\ open = FALSE /\ closing = FALSE
  /\ ioc = <<>> /\ stopped = FALSE /\ io = "idle"
  /\ reading = 0 /\ writing = <<>> /\ close_ops = 0 /\ draining = FALSE
  /\ write_queue = <<>> /\ write_in_flight = FALSE
  /\ done = [m \in Msgs |-> "none"] /\ timer = [m \in Msgs |-> "off"]
  /\ late_send = [m \in Msgs |-> FALSE]
  /\ accepted = 0 /\ wire = <<>> /\ reads = 0 /\ reports = 0 /\ late = 0

Owner ==
  \/ Connect \/ ConnectGivesUp \/ ConnectReturns \/ Post \/ Send \/ SendReturns \/ Close
  \/ Destroy \/ DestroySocket \/ Stop \/ Join
Handlers == start \/ OnDeadline \/ StartRead \/ EnqueueWrite \/ OnSendDeadline \/ OnClose \/ DrainPoll
Completions ==
  \/ Resolved \/ Connected \/ ConnectFails \/ ReadMessage \/ Delivered \/ ReadFails \/ Reported
  \/ WireTakes \/ WriteCompletes \/ ReportedWrite \/ CloseCompletes \/ IoExits
Next == Owner \/ Handlers \/ Completions \/ DeadlinePasses \/ SendDeadlinePasses \/ Break

Spec == Init /\ [][Next]_vars

(* The io thread runs what is ready, the owner returns from its waits, and *)
(* deadlines pass.  The peer need never answer, and the owner need not     *)
(* call anything.  Nor need the resolver, while the io thread runs; but    *)
(* the destructor waits for its thread, so that fairness of Join takes it  *)
(* that getaddrinfo returns sooner or later.                               *)
Fairness ==
  /\ WF_vars(Handlers) /\ WF_vars(DeadlinePasses) /\ WF_vars(SendDeadlinePasses)
  /\ WF_vars(Delivered \/ Reported \/ ReportedWrite \/ IoExits)
  /\ WF_vars(ReadFails) /\ WF_vars(WriteCompletes)
  /\ WF_vars(ConnectGivesUp) /\ WF_vars(ConnectReturns) /\ WF_vars(SendReturns)
  /\ WF_vars(DestroySocket \/ Stop \/ Join)
FairSpec == Spec /\ Fairness

-----------------------------------------------------------------------------
(* Properties.                                                             *)

(* Every variable has its type.                                            *)
WsType ==
  /\ owner \in {"new", "connecting", "failed", "using", "sending", "destroying", "stopping",
               "joining", "gone"}
  /\ sending \in 0 .. MaxMsgs /\ (owner = "sending" => sending \in Msgs)
  /\ chain \in {"idle", "resolve", "tcp", "tls", "ws", "done"}
  /\ deadline \in {"off", "armed", "expired", "fired"}
  /\ connect_done \in Results \cup {"unset"}
  /\ timed_out \in BOOLEAN /\ attempt_stream \in BOOLEAN /\ stream \in BOOLEAN
  /\ socket \in {"none", "up", "broken", "closed"}
  /\ open \in BOOLEAN /\ closing \in BOOLEAN /\ stopped \in BOOLEAN /\ draining \in BOOLEAN
  /\ ioc \in Seq([run : {"start", "read", "close"}, msg : {0}] \cup [run : {"write"}, msg : Msgs])
  /\ io \in {"idle", "delivering", "reporting", "reporting_write", "exited"}
  /\ reading \in Nat /\ close_ops \in Nat
  /\ writing \in Seq([msg : Msgs, taken : BOOLEAN])
  /\ write_queue \in Seq(Msgs) /\ write_in_flight \in BOOLEAN
  /\ done \in [Msgs -> Results \cup {"none", "unset"}]
  /\ timer \in [Msgs -> {"off", "armed", "expired", "fired"}]
  /\ late_send \in [Msgs -> BOOLEAN]
  /\ accepted \in 0 .. MaxMsgs /\ wire \in Seq(Msgs)
  /\ reads \in Nat /\ reports \in Nat /\ late \in Nat

(* A stream allows one operation of each kind at a time, and no write      *)
(* after the close: the write queue, the read loop, the flag closing and   *)
(* StartDrainAndClose keep them apart, whatever fails or times out.        *)
OneOfEach ==
  /\ Len(writing) <= 1 /\ reading <= 1 /\ close_ops <= 1
  /\ close_ops > 0 => writing = <<>> /\ write_queue = <<>>

(* What the socket took is what was accepted, in order, from the first     *)
(* message on, none left out and none twice: a refusal or a failure of one *)
(* message is a failure of all later ones.                                 *)
WrittenInOrder == \A i \in 1 .. Len(wire) : wire[i] = i /\ i <= accepted

(* on_close is called at most once, whichever of the read loop, a failed   *)
(* write, Close and the destructor comes first; after it at most the one   *)
(* message being read when a write failed is handed to on_message, and     *)
(* nothing is once the destructor is over.                                 *)
EndsOnce == reports <= 1 /\ late <= 1 /\ (owner = "gone" => io = "exited")

(* A client whose Connect threw or never returned is not open and calls    *)
(* nothing back, though its attempt may still succeed later.               *)
OnlyConnectOpens == ~stream => ~open /\ reading = 0 /\ reads = 0 /\ reports = 0

(* Send that returns has written its message, one that fails with          *)
(* TransportFailure has not; only a Timeout leaves it open.                *)
SendTellsTruth ==
  \A m \in Msgs : /\ done[m] = "ok" => m \in Elements(wire)
                  /\ done[m] = "TransportFailure" => m \notin Elements(wire)

Holds(what) == \E i \in 1 .. Len(ioc) : ioc[i].run = what

(* Until Connect has returned nothing happens but the attempt, which is    *)
(* started once.                                                           *)
ConnectInv ==
  /\ ~stream =>
       /\ ~open /\ ~write_in_flight /\ ~draining
       /\ reading = 0 /\ close_ops = 0 /\ reads = 0 /\ reports = 0
       /\ accepted = 0 /\ wire = <<>> /\ io \in {"idle", "exited"}
       /\ \A i \in 1 .. Len(ioc) : ioc[i].run = "start"
  /\ owner = "new" => ioc = <<>> /\ chain = "idle" /\ ~stream
  /\ owner = "connecting" => ~stream
  /\ owner \in {"using", "sending"} => stream
  /\ stream \/ connect_done # "unset" => chain = "done"
  /\ \A i \in 1 .. Len(ioc) : ioc[i].run = "start" => i = 1 /\ chain = "idle"

(* There is one read, be it posted, outstanding or being delivered.        *)
ReadInv ==
  /\ reading <= 1
  /\ io = "delivering" => reading = 0
  /\ Holds("read") => reading = 0 /\ io # "delivering"
  /\ \A i, j \in 1 .. Len(ioc) : ioc[i].run = "read" /\ ioc[j].run = "read" => i = j

(* There is one close, be it posted, waiting for the queue or outstanding, *)
(* and it is outstanding with no write to come only.                       *)
CloseInv ==
  /\ close_ops <= 1
  /\ close_ops > 0 => closing /\ ~write_in_flight
  /\ draining => closing /\ close_ops = 0
  /\ Holds("close") => closing /\ ~draining /\ close_ops = 0
  /\ \A i, j \in 1 .. Len(ioc) : ioc[i].run = "close" /\ ioc[j].run = "close" => i = j

(* Whoever reports has cleared open, and one read at most outlives it.     *)
ReportInv ==
  /\ reports <= 1 /\ (open => reports = 0)
  /\ io \in {"reporting", "reporting_write"} => reports = 0 /\ ~open
  /\ IF reports = 0 THEN late = 0 ELSE late + reading <= 1
  /\ owner = "gone" => io = "exited"

(* The write that is under way is the one of the front of the queue.       *)
InFlightInv ==
  /\ ~write_in_flight => write_queue = <<>> /\ writing = <<>> /\ io # "reporting_write"
  /\ io = "reporting_write" => writing = <<>> /\ ~open
  /\ write_in_flight /\ io # "reporting_write" =>
       write_queue # <<>> /\ Len(writing) = 1 /\ writing[1].msg = write_queue[1]

(* The writes posted in q are those of the messages n .. last, in order.   *)
WritesFrom(q, n, last) ==
  /\ \A i \in 1 .. Len(q) : q[i].run = "write" => q[i].msg \in n .. last
  /\ \A m \in n .. last : \E i \in 1 .. Len(q) : q[i] = PostedWrite(m)
  /\ \A i, j \in 1 .. Len(q) :
       i < j /\ q[i].run = "write" /\ q[j].run = "write" => q[i].msg < q[j].msg

(* The next message to be queued is n: it follows those in the queue, and  *)
(* those on the wire while none has been refused or has failed.            *)
NextQueued(n) ==
  /\ Len(wire) < n /\ n <= accepted + 1
  /\ WritesFrom(ioc, n, accepted)
  /\ \A i \in 1 .. Len(write_queue) : write_queue[i] < n
  /\ stream /\ open /\ ~closing =>
       IF write_queue # <<>> THEN n = write_queue[1] + Len(write_queue)
       ELSE socket = "up" => n = Len(wire) + 1
  /\ \A m \in Msgs : m >= n => done[m] \in {"none", "unset"}

(* The wire holds the first messages, the queue a run of later ones, and   *)
(* no promise of those has been set.                                       *)
QueueInv ==
  /\ \A i \in 1 .. Len(wire) : wire[i] = i
  /\ \A i \in 1 .. Len(write_queue) :
       /\ write_queue[i] = write_queue[1] + i - 1
       /\ done[write_queue[i]] \in {"none", "unset"}
  /\ write_queue # <<>> =>
       IF writing # <<>> /\ writing[1].taken THEN write_queue[1] = Len(wire)
       ELSE /\ write_queue[1] > Len(wire)
            /\ writing # <<>> /\ socket = "up" => write_queue[1] = Len(wire) + 1
  /\ \A m \in Msgs : /\ done[m] = "ok" => m <= Len(wire)
                     /\ done[m] = "TransportFailure" => m > Len(wire)

(* The inductive invariant behind the theorems of WsClient_proofs.         *)
WsInv ==
  /\ WsType /\ ConnectInv /\ ReadInv /\ CloseInv /\ ReportInv /\ InFlightInv /\ QueueInv
  /\ \E n \in 1 .. MaxMsgs + 1 : NextQueued(n)

(* The client implements Socket: whatever its two threads do, its owner    *)
(* sees a connection that opens once, takes the messages in order, gives   *)
(* each Send one true answer, ends and is reported at most once, and calls *)
(* nothing back before Connect has returned or after the destructor has.   *)
Phase ==
  CASE owner = "gone" -> "gone"
    [] owner # "gone" /\ open -> "open"
    [] owner # "gone" /\ ~open /\ stream -> "shut"
    [] OTHER -> "new"
Told == [m \in Msgs |-> IF done[m] = "unset" THEN "none" ELSE done[m]]
Outside == INSTANCE Socket WITH
  phase <- Phase, taken <- Len(wire), answers <- Told, delivered <- reads
ImplementsSocket == Outside!Spec

(* Connect and Send end, whatever the peer and the resolver do, and the    *)
(* destructor ends once a getaddrinfo that is under way has returned.      *)
CallsEnd ==
  owner \in {"connecting", "sending", "destroying", "stopping", "joining"}
    ~> owner \in {"failed", "using", "gone"}

(* The end of an open connection is reported, unless the owner closes it.  *)
EndReported == open /\ socket \in {"broken", "closed"} ~> reports > 0 \/ closing
=============================================================================

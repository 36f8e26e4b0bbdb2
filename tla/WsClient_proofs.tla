--------------------------- MODULE WsClient_proofs ---------------------------
(* Theorems about WsClient, for every number of messages and of reads.     *)
EXTENDS WsClient, TLAPS

-----------------------------------------------------------------------------
(* Types, in the groups the actions change together.                       *)
Handler == [run : {"start", "read", "close"}, msg : {0}] \cup [run : {"write"}, msg : Msgs]
WriteOp == [msg : Msgs, taken : BOOLEAN]
OwnerType ==
  /\ owner \in {"new", "connecting", "failed", "using", "sending", "destroying", "stopping",
               "joining", "gone"}
  /\ sending \in 0 .. MaxMsgs /\ (owner = "sending" => sending \in Msgs)
AttemptType ==
  /\ chain \in {"idle", "resolve", "tcp", "tls", "ws", "done"}
  /\ deadline \in {"off", "armed", "expired", "fired"}
  /\ connect_done \in Results \cup {"unset"}
  /\ socket \in {"none", "up", "broken", "closed"}
FlagType ==
  /\ timed_out \in BOOLEAN /\ attempt_stream \in BOOLEAN /\ stream \in BOOLEAN
  /\ open \in BOOLEAN /\ closing \in BOOLEAN /\ stopped \in BOOLEAN /\ draining \in BOOLEAN
  /\ write_in_flight \in BOOLEAN
IoType ==
  /\ ioc \in Seq(Handler)
  /\ io \in {"idle", "delivering", "reporting", "reporting_write", "exited"}
  /\ reading \in Nat /\ close_ops \in Nat /\ reads \in Nat /\ reports \in Nat /\ late \in Nat
WriteType ==
  /\ writing \in Seq(WriteOp) /\ write_queue \in Seq(Msgs)
  /\ done \in [Msgs -> Results \cup {"none", "unset"}]
  /\ timer \in [Msgs -> {"off", "armed", "expired", "fired"}]
  /\ late_send \in [Msgs -> BOOLEAN]
  /\ accepted \in 0 .. MaxMsgs /\ wire \in Seq(Msgs)

(* WsType is the five, before and after a step.                            *)
LEMMA TypeSplit ==
  /\ WsType <=> OwnerType /\ AttemptType /\ FlagType /\ IoType /\ WriteType
  /\ WsType' <=> OwnerType' /\ AttemptType' /\ FlagType' /\ IoType' /\ WriteType'
<1>1. WsType <=> OwnerType /\ AttemptType /\ FlagType /\ IoType /\ WriteType
  BY Zenon DEF WsType, OwnerType, AttemptType, FlagType, IoType, WriteType, Handler, WriteOp
<1>2. WsType' <=> OwnerType' /\ AttemptType' /\ FlagType' /\ IoType' /\ WriteType'
  BY Zenon DEF WsType, OwnerType, AttemptType, FlagType, IoType, WriteType, Handler, WriteOp
<1> QED BY <1>1, <1>2

(* The front, the rest, and the front replaced.                            *)
LEMMA SeqFront ==
  ASSUME NEW S, NEW s \in Seq(S), s # <<>>
  PROVE  /\ Len(s) \in Nat /\ Len(s) >= 1 /\ s[1] = Head(s) /\ Head(s) \in S
         /\ Tail(s) \in Seq(S) /\ Len(Tail(s)) = Len(s) - 1
         /\ \A i \in 1 .. Len(s) - 1 : Tail(s)[i] = s[i + 1]
         /\ \A e \in S : [s EXCEPT ![1] = e] \in Seq(S) /\ Len([s EXCEPT ![1] = e]) = Len(s)
  OBVIOUS

LEMMA SeqEmpty == ASSUME NEW S, NEW s \in Seq(S), Len(s) = 0 PROVE s = <<>>
  OBVIOUS

(* Posting and running a handler keeps the type of ioc.                    *)
LEMMA IocType ==
  ASSUME ioc \in Seq(Handler)
  PROVE  /\ \A what \in {"start", "read", "close"} : Append(ioc, Posted(what)) \in Seq(Handler)
         /\ \A m \in Msgs : Append(ioc, PostedWrite(m)) \in Seq(Handler)
         /\ ioc # <<>> => Head(ioc) \in Handler /\ Tail(ioc) \in Seq(Handler)
  BY DEF Handler, Posted, PostedWrite

(* The threads and the timers other than the owner leave the owner be, and *)
(* so on: what each kind of step does not touch.                           *)
Reads == StartRead \/ ReadMessage \/ Delivered \/ ReadFails \/ Reported
Attempts == start \/ Resolved \/ Connected \/ ConnectFails \/ DeadlinePasses \/ OnDeadline
Writes ==
  \/ EnqueueWrite \/ WireTakes \/ WriteCompletes \/ ReportedWrite
  \/ SendDeadlinePasses \/ OnSendDeadline
Closes == OnClose \/ DrainPoll \/ CloseCompletes

(* Every step is one of the owner, of one of the four, or of the rest.     *)
LEMMA NextKinds ==
  Next <=> Owner \/ Attempts \/ Reads \/ Writes \/ Closes \/ IoExits \/ Break
  BY Zenon DEF Next, Handlers, Completions, Attempts, Reads, Writes, Closes

(* What the steps of the io thread leave alone.                            *)
LEMMA Frames ==
  /\ Attempts => UNCHANGED <<owner, sending, stream, open, closing, stopped, io, opVars, writeVars,
                             late_send, historyVars>>
  /\ Reads => UNCHANGED <<owner, sending, attemptVars, stream, socket, closing, stopped, close_ops,
                          draining, writeVars, late_send, accepted, wire>>
  /\ Writes => UNCHANGED <<owner, sending, attemptVars, stream, closing, stopped, opVars, accepted,
                           reads, late>>
  /\ Closes => UNCHANGED <<owner, sending, attemptVars, stream, socket, closing, stopped, io, reading,
                           writeVars, late_send, historyVars>>
<1>1. Attempts => UNCHANGED <<owner, sending, stream, open, closing, stopped, io, opVars, writeVars,
                              late_send, historyVars>>
  BY Zenon DEF Attempts, start, Resolved, Connected, ConnectFails, DeadlinePasses, OnDeadline, finish,
               Advance, AttemptUnchanged
<1>2. Reads => UNCHANGED <<owner, sending, attemptVars, stream, socket, closing, stopped, close_ops,
                           draining, writeVars, late_send, accepted, wire>>
  BY Zenon DEF Reads, StartRead, ReadMessage, Delivered, ReadFails, Reported, ReadUnchanged
<1>3. Writes => UNCHANGED <<owner, sending, attemptVars, stream, closing, stopped, opVars, accepted,
                            reads, late>>
  BY Zenon DEF Writes, EnqueueWrite, WireTakes, WriteCompletes, ReportedWrite, SendDeadlinePasses,
               OnSendDeadline, WriteUnchanged
<1>4. Closes => UNCHANGED <<owner, sending, attemptVars, stream, socket, closing, stopped, io, reading,
                            writeVars, late_send, historyVars>>
  BY Zenon DEF Closes, OnClose, DrainPoll, CloseCompletes, CloseUnchanged
<1> QED BY <1>1, <1>2, <1>3, <1>4

(* The owner stays where it can be.                                        *)
LEMMA OwnerTyped == WsType /\ [Next]_vars => OwnerType'
<1> SUFFICES ASSUME OwnerType, [Next]_vars PROVE OwnerType'
  BY TypeSplit
<1>1. CASE Owner
  BY <1>1, WsAssumption DEF Owner, Connect, ConnectGivesUp, ConnectReturns, Post, Send, SendReturns, Close,
     Destroy, DestroySocket, Stop, Join, Accept, OwnerType, Msgs
<1>2. CASE UNCHANGED <<owner, sending>>
  BY <1>2 DEF OwnerType
<1>3. CASE IoExits \/ Break \/ UNCHANGED vars
  BY <1>2, <1>3, Zenon DEF IoExits, Break, vars
<1> QED BY <1>1, <1>2, <1>3, NextKinds, Frames

(* So does the attempt to connect, and the socket.                         *)
LEMMA AttemptTyped == WsType /\ [Next]_vars => AttemptType'
<1> SUFFICES ASSUME AttemptType, [Next]_vars PROVE AttemptType'
  BY TypeSplit
<1>1. CASE Owner
  BY <1>1 DEF Owner, Connect, ConnectGivesUp, ConnectReturns, Post, Send, SendReturns, Close,
     Destroy, DestroySocket, Stop, Join, Accept, AttemptType, attemptVars
<1>2. CASE Attempts
  BY <1>2 DEF Attempts, start, Resolved, Connected, ConnectFails, DeadlinePasses, OnDeadline, finish,
     Advance, map_error, AttemptType, Results
<1>3. CASE Writes
  <2>1. UNCHANGED <<chain, deadline, connect_done>>
    BY <1>3, Frames DEF attemptVars
  <2>2. socket' \in {socket, "closed"}
    BY <1>3 DEF Writes, EnqueueWrite, WireTakes, WriteCompletes, ReportedWrite, SendDeadlinePasses, OnSendDeadline
  <2> QED BY <2>1, <2>2 DEF AttemptType
<1>4. CASE UNCHANGED <<chain, deadline, connect_done, socket>>
  BY <1>4 DEF AttemptType
<1>5. CASE Reads \/ Closes \/ IoExits \/ UNCHANGED vars
  BY <1>4, <1>5, Frames DEF IoExits, vars, attemptVars
<1>6. CASE Break
  BY <1>6 DEF Break, AttemptType, attemptVars
<1> QED BY <1>1, <1>2, <1>3, <1>5, <1>6, NextKinds

(* The flags are flags.                                                    *)
LEMMA FlagTyped == WsType /\ [Next]_vars => FlagType'
<1> SUFFICES ASSUME FlagType, [Next]_vars PROVE FlagType'
  BY TypeSplit
<1>1. CASE Owner
  <2>1. CASE ConnectReturns
    BY <2>1, Zenon DEF ConnectReturns, FlagType, opVars, writeVars
  <2>2. CASE Connect \/ ConnectGivesUp \/ SendReturns
    BY <2>2, Zenon DEF Connect, ConnectGivesUp, SendReturns, FlagType, attemptVars, opVars, writeVars
  <2>3. CASE Post \/ Send
    <3>1. UNCHANGED <<timed_out, attempt_stream, stream, open, closing, stopped, draining, write_in_flight>>
      BY <2>3, Zenon DEF Post, Send, Accept, attemptVars, opVars
    <3> QED BY <3>1, Zenon DEF FlagType
  <2>4. CASE Close \/ Destroy \/ DestroySocket \/ Stop \/ Join
    BY <2>4, Zenon DEF Close, Destroy, DestroySocket, Stop, Join, FlagType, attemptVars, opVars, writeVars
  <2> QED BY <1>1, <2>1, <2>2, <2>3, <2>4 DEF Owner
<1>2. CASE Attempts
  BY <1>2, Zenon DEF Attempts, start, Resolved, Connected, ConnectFails, DeadlinePasses, OnDeadline, finish,
     Advance, AttemptUnchanged, FlagType, opVars, writeVars
<1>3. CASE Reads
  BY <1>3, Zenon DEF Reads, StartRead, ReadMessage, Delivered, ReadFails, Reported, ReadUnchanged,
     OnDisconnect, FlagType, attemptVars, writeVars
<1>4. CASE Writes
  <2>1. UNCHANGED <<timed_out, attempt_stream, stream, closing, stopped, draining>>
    BY <1>4, Frames, Zenon DEF attemptVars, opVars
  <2>2. open' \in BOOLEAN
    BY <1>4, Zenon DEF Writes, EnqueueWrite, WireTakes, WriteCompletes, ReportedWrite, SendDeadlinePasses,
       OnSendDeadline, OnDisconnect, FlagType
  <2>3. ASSUME NEW q, NEW dn, NEW fin, NEW ops, ProcessWriteQueue(q, dn, fin, ops)
        PROVE  write_in_flight' \in BOOLEAN
    BY <2>3, Zenon DEF ProcessWriteQueue
  <2>4. write_in_flight' \in BOOLEAN
    BY <1>4, <2>3, Zenon DEF Writes, EnqueueWrite, WireTakes, WriteCompletes, ReportedWrite,
       SendDeadlinePasses, OnSendDeadline, FlagType
  <2> QED BY <2>1, <2>2, <2>4, Zenon DEF FlagType
<1>5. CASE Closes
  BY <1>5, Zenon DEF Closes, OnClose, DrainPoll, CloseCompletes, CloseUnchanged, StartDrainAndClose,
     FlagType, attemptVars, writeVars
<1>6. CASE IoExits \/ Break \/ UNCHANGED vars
  BY <1>6, Zenon DEF IoExits, Break, vars, FlagType, attemptVars, opVars, writeVars
<1> QED BY <1>1, <1>2, <1>3, <1>4, <1>5, <1>6, NextKinds

(* The queue of handlers and the counters keep their types.                *)
LEMMA IoTyped == WsType /\ [Next]_vars => IoType'
<1> SUFFICES ASSUME IoType, [Next]_vars PROVE IoType'
  BY TypeSplit
<1>0. /\ \A what \in {"start", "read", "close"} : Append(ioc, Posted(what)) \in Seq(Handler)
      /\ \A m \in Msgs : Append(ioc, PostedWrite(m)) \in Seq(Handler)
      /\ ioc # <<>> => Tail(ioc) \in Seq(Handler)
  BY IocType DEF IoType
<1> HIDE DEF Handler
<1>1. CASE Owner
  BY <1>0, <1>1 DEF Owner, Connect, ConnectGivesUp, ConnectReturns, Post, Send, SendReturns, Close,
     Destroy, DestroySocket, Stop, Join, Accept, IoType, opVars, historyVars
<1>2. CASE Attempts
  BY <1>0, <1>2 DEF Attempts, start, Run, Resolved, Connected, ConnectFails, DeadlinePasses, OnDeadline, finish,
     Advance, AttemptUnchanged, IoType, opVars, historyVars
<1>3. CASE Reads
  <2>1. UNCHANGED close_ops
    BY <1>3, Frames
  <2>2. ioc' \in Seq(Handler)
    BY <1>0, <1>3 DEF Reads, StartRead, Run, ReadMessage, Delivered, ReadFails, Reported, IoType
  <2>3. io' \in {"idle", "delivering", "reporting", "reporting_write", "exited"}
    BY <1>3 DEF Reads, StartRead, ReadMessage, Delivered, ReadFails, Reported, OnDisconnect, IoType
  <2>4. reading' \in Nat /\ reads' \in Nat /\ reports' \in Nat /\ late' \in Nat
    BY <1>3 DEF Reads, StartRead, ReadMessage, Delivered, ReadFails, Reported, DoRead, IoType
  <2> QED BY <2>1, <2>2, <2>3, <2>4 DEF IoType
<1>4. CASE Writes
  <2>1. UNCHANGED <<reading, close_ops, reads, late>>
    BY <1>4, Frames DEF opVars
  <2>2. ioc' \in Seq(Handler)
    BY <1>0, <1>4 DEF Writes, EnqueueWrite, Run, WireTakes, WriteCompletes, ReportedWrite, SendDeadlinePasses,
       OnSendDeadline, IoType
  <2>3. /\ reports' \in {reports, reports + 1}
        /\ io' \in {"idle", "delivering", "reporting", "reporting_write", "exited"}
    BY <1>4 DEF Writes, EnqueueWrite, WireTakes, WriteCompletes, ReportedWrite, SendDeadlinePasses,
       OnSendDeadline, OnDisconnect, IoType
  <2> QED BY <2>1, <2>2, <2>3 DEF IoType
<1>5. CASE Closes
  <2>1. UNCHANGED <<io, reading, reads, reports, late>>
    BY <1>5, Frames DEF historyVars
  <2>2. ioc' \in Seq(Handler)
    BY <1>0, <1>5 DEF Closes, OnClose, Run, DrainPoll, CloseCompletes, IoType
  <2>3. close_ops' \in Nat
    BY <1>5 DEF Closes, OnClose, DrainPoll, CloseCompletes, StartDrainAndClose, DoAsyncClose, IoType
  <2> QED BY <2>1, <2>2, <2>3 DEF IoType
<1>6. CASE IoExits \/ Break \/ UNCHANGED vars
  BY <1>6 DEF IoExits, Break, vars, IoType, opVars, historyVars
<1> QED BY <1>1, <1>2, <1>3, <1>4, <1>5, <1>6, NextKinds

(* Failing promises and cancelling timers keeps their types.               *)
LEMMA FailType ==
  ASSUME WriteType, NEW dn \in [Msgs -> Results \cup {"none", "unset"}], NEW msgs
  PROVE  /\ Fail(dn, msgs) \in [Msgs -> Results \cup {"none", "unset"}]
         /\ Cancel(msgs) \in [Msgs -> {"off", "armed", "expired", "fired"}]
  BY DEF Fail, Cancel, Results, WriteType

(* So does going on with a queue.                                          *)
LEMMA ProcessType ==
  ASSUME WriteType, NEW q \in Seq(Msgs), NEW dn \in [Msgs -> Results \cup {"none", "unset"}], NEW fin,
         NEW ops \in Seq(WriteOp), ProcessWriteQueue(q, dn, fin, ops)
  PROVE  /\ writing' \in Seq(WriteOp) /\ write_queue' \in Seq(Msgs)
         /\ done' \in [Msgs -> Results \cup {"none", "unset"}]
         /\ timer' \in [Msgs -> {"off", "armed", "expired", "fired"}]
<1>1. CASE q = <<>>
  BY <1>1, FailType DEF ProcessWriteQueue
<1>2. CASE q # <<>> /\ ~(stream /\ open)
  <2>1. /\ write_queue' = <<>> /\ writing' = ops
        /\ done' = Fail(dn, Elements(q)) /\ timer' = Cancel(fin \cup Elements(q))
    BY <1>2, Zenon DEF ProcessWriteQueue
  <2> QED BY <2>1, FailType
<1>3. CASE q # <<>> /\ stream /\ open
  <2>1. /\ write_queue' = q /\ writing' = Append(ops, [msg |-> Head(q), taken |-> FALSE])
        /\ done' = dn /\ timer' = Cancel(fin)
    BY <1>3, Zenon DEF ProcessWriteQueue
  <2>2. Head(q) \in Msgs
    BY <1>3
  <2>3. [msg |-> Head(q), taken |-> FALSE] \in WriteOp
    BY <2>2 DEF WriteOp
  <2> QED BY <2>1, <2>3, FailType
<1> QED BY <1>1, <1>2, <1>3

(* Messages, promises, timers and the wire keep their types.               *)
LEMMA WriteTyped == WsType /\ [Next]_vars => WriteType'
<1> SUFFICES ASSUME WriteType, IoType, [Next]_vars PROVE WriteType'
  BY TypeSplit
<1>1. CASE Post \/ Send
  BY <1>1 DEF Post, Send, Accept, WriteType, Msgs
<1>2. CASE UNCHANGED <<writing, write_queue, done, timer, late_send, accepted, wire>>
  BY <1>2 DEF WriteType
<1>3. CASE \/ Connect \/ ConnectGivesUp \/ ConnectReturns \/ SendReturns \/ Close
           \/ Destroy \/ DestroySocket \/ Stop \/ Join \/ IoExits \/ Break \/ UNCHANGED vars
  BY <1>2, <1>3, Zenon DEF Connect, ConnectGivesUp, ConnectReturns, SendReturns, Close, Destroy,
     DestroySocket, Stop, Join, IoExits, Break, vars, writeVars, historyVars
<1>4. CASE Attempts \/ Reads \/ Closes
  BY <1>2, <1>4, Frames, Zenon DEF writeVars, historyVars
<1>5. CASE EnqueueWrite
  <2> DEFINE m == Head(ioc).msg
  <2>1. m \in Msgs
    <3>1. ioc # <<>> /\ Head(ioc).run = "write"
      BY <1>5, Zenon DEF EnqueueWrite, Run
    <3>2. Head(ioc) \in Handler
      BY <3>1, IocType DEF IoType
    <3> QED BY <3>1, <3>2 DEF Handler
  <2>2. UNCHANGED <<late_send, accepted, wire>>
    BY <1>5, Zenon DEF EnqueueWrite, WriteUnchanged
  <2> HIDE DEF m
  <2>3. Push(m) \in Seq(Msgs)
    BY <2>1 DEF Push, WriteType
  <2>4. \/ /\ done' = Fail(done, {m}) /\ timer' = Cancel({m})
           /\ UNCHANGED <<write_queue, write_in_flight, writing>>
        \/ ProcessWriteQueue(Push(m), done, {}, writing)
        \/ write_queue' = Push(m) /\ UNCHANGED <<write_in_flight, writing, done, timer>>
    BY <1>5, Zenon DEF EnqueueWrite, m
  <2>5. CASE ProcessWriteQueue(Push(m), done, {}, writing)
    BY <2>2, <2>3, <2>5, ProcessType DEF WriteType
  <2>6. CASE /\ done' = Fail(done, {m}) /\ timer' = Cancel({m})
             /\ UNCHANGED <<write_queue, write_in_flight, writing>>
    BY <2>2, <2>6, FailType DEF WriteType
  <2>7. CASE write_queue' = Push(m) /\ UNCHANGED <<write_in_flight, writing, done, timer>>
    BY <2>2, <2>3, <2>7 DEF WriteType
  <2> QED BY <2>4, <2>5, <2>6, <2>7
<1>6. CASE WireTakes
  <2>1. /\ writing # <<>> /\ writing' = [writing EXCEPT ![1].taken = TRUE]
        /\ wire' = Append(wire, Head(writing).msg)
        /\ UNCHANGED <<write_queue, done, timer, late_send, accepted>>
    BY <1>6, Zenon DEF WireTakes, WriteUnchanged
  <2>2. writing \in Seq(WriteOp) /\ wire \in Seq(Msgs)
    BY DEF WriteType
  <2>3. writing[1] = Head(writing) /\ Head(writing) \in WriteOp
    BY <2>1, <2>2, SeqFront
  <2>4. wire' \in Seq(Msgs)
    BY <2>1, <2>2, <2>3 DEF WriteOp
  <2>5. writing' \in Seq(WriteOp)
    <3>1. [writing[1] EXCEPT !.taken = TRUE] \in WriteOp
      BY <2>3 DEF WriteOp
    <3> QED BY <2>1, <2>2, <3>1, SeqFront
  <2> QED BY <2>1, <2>4, <2>5 DEF WriteType
<1>7. CASE WriteCompletes
  <2> DEFINE m == Head(writing).msg
             taken == Head(writing).taken
             popped == IF write_queue = <<>> THEN <<>> ELSE Tail(write_queue)
             dn == IF done[m] = "unset" THEN [done EXCEPT ![m] = WriteResult(m, taken)] ELSE done
  <2>1. writing # <<>> /\ UNCHANGED <<late_send, accepted, wire>>
    BY <1>7, Zenon DEF WriteCompletes, WriteUnchanged
  <2>2. m \in Msgs /\ Tail(writing) \in Seq(WriteOp)
    <3>1. Head(writing) \in WriteOp /\ Tail(writing) \in Seq(WriteOp)
      BY <2>1, SeqFront DEF WriteType
    <3> QED BY <3>1 DEF WriteOp
  <2>3. popped \in Seq(Msgs)
    BY DEF WriteType
  <2>4. dn \in [Msgs -> Results \cup {"none", "unset"}]
    <3>1. WriteResult(m, taken) \in Results
      BY DEF WriteResult, Results
    <3> HIDE DEF m, taken
    <3> QED BY <2>2, <3>1 DEF WriteType
  <2>5. \/ /\ writing' = Tail(writing) /\ write_queue' = popped
           /\ UNCHANGED <<write_in_flight, done, timer>>
        \/ ProcessWriteQueue(popped, dn, {m}, Tail(writing))
    BY <1>7, Zenon DEF WriteCompletes
  <2> HIDE DEF m, taken, popped, dn
  <2>6. CASE ProcessWriteQueue(popped, dn, {m}, Tail(writing))
    BY <2>1, <2>2, <2>3, <2>4, <2>6, ProcessType DEF WriteType
  <2>7. CASE /\ writing' = Tail(writing) /\ write_queue' = popped
             /\ UNCHANGED <<write_in_flight, done, timer>>
    BY <2>1, <2>2, <2>3, <2>7 DEF WriteType
  <2> QED BY <2>5, <2>6, <2>7
<1>8. CASE ReportedWrite
  <2>1. ProcessWriteQueue(write_queue, done, {}, writing) /\ UNCHANGED <<late_send, accepted, wire>>
    BY <1>8, Zenon DEF ReportedWrite, WriteUnchanged
  <2> QED BY <2>1, ProcessType DEF WriteType
<1>9. CASE SendDeadlinePasses
  BY <1>9 DEF SendDeadlinePasses, WriteUnchanged, WriteType
<1>10. CASE OnSendDeadline
  <2>1. PICK m \in Msgs :
          /\ timer' = [timer EXCEPT ![m] = "fired"]
          /\ late_send' = late_send \/ late_send' = [late_send EXCEPT ![m] = TRUE]
    BY <1>10, Zenon DEF OnSendDeadline
  <2>2. UNCHANGED <<write_queue, writing, done, accepted, wire>>
    BY <1>10, Zenon DEF OnSendDeadline, WriteUnchanged
  <2> QED BY <2>1, <2>2 DEF WriteType
<1> QED BY <1>1, <1>3, <1>4, <1>5, <1>6, <1>7, <1>8, <1>9, <1>10, NextKinds DEF Owner, Writes

(* Typing is inductive.                                                    *)
LEMMA TypeInductive == WsType /\ [Next]_vars => WsType'
  BY OwnerTyped, AttemptTyped, FlagTyped, IoTyped, WriteTyped, TypeSplit

-----------------------------------------------------------------------------
(* The queue of handlers, with its first one run or one more posted.       *)
LEMMA IocRun ==
  ASSUME ioc \in Seq(Handler), ioc # <<>>, ioc' = Tail(ioc)
  PROVE  /\ Len(ioc) \in Nat /\ Len(ioc) >= 1 /\ Head(ioc) = ioc[1]
         /\ Len(ioc') = Len(ioc) - 1 /\ \A i \in 1 .. Len(ioc') : ioc'[i] = ioc[i + 1]
  BY SeqFront

LEMMA IocPost ==
  ASSUME ioc \in Seq(Handler), NEW e \in Handler, ioc' = Append(ioc, e)
  PROVE  /\ Len(ioc) \in Nat /\ Len(ioc') = Len(ioc) + 1
         /\ ioc'[Len(ioc) + 1] = e /\ \A i \in 1 .. Len(ioc) : ioc'[i] = ioc[i]
  OBVIOUS

(* A step after Connect that runs a handler or none keeps ConnectInv.      *)
LEMMA ConnectKept ==
  ASSUME ConnectInv, ioc \in Seq(Handler), stream, UNCHANGED <<owner, stream, chain>>,
         ioc' = ioc \/ (ioc # <<>> /\ ioc' = Tail(ioc))
  PROVE  ConnectInv'
<1>1. \A i \in 1 .. Len(ioc) : ioc[i].run # "start"
  BY DEF ConnectInv
<1>2. \A i \in 1 .. Len(ioc') : ioc'[i].run # "start"
  <2>1. CASE ioc' = ioc
    BY <1>1, <2>1
  <2>2. CASE ioc # <<>> /\ ioc' = Tail(ioc)
    <3>1. Len(ioc) \in Nat /\ Len(ioc') = Len(ioc) - 1 /\ \A i \in 1 .. Len(ioc') : ioc'[i] = ioc[i + 1]
      BY <2>2, IocRun
    <3> QED BY <1>1, <3>1
  <2> QED BY <2>1, <2>2
<1> QED BY <1>2 DEF ConnectInv

(* Only a client whose Connect returned reads, writes and closes.          *)
LEMMA InUse ==
  ASSUME WsType, ConnectInv, InFlightInv,
         \/ Reads \/ EnqueueWrite \/ WireTakes \/ WriteCompletes \/ ReportedWrite \/ Closes
  PROVE  stream
<1> SUFFICES ASSUME ~stream PROVE FALSE
  OBVIOUS
<1>1. ioc \in Seq(Handler) /\ reading \in Nat /\ close_ops \in Nat
  BY TypeSplit DEF IoType
<1>2. /\ reading = 0 /\ close_ops = 0 /\ ~draining /\ ~write_in_flight
      /\ io \in {"idle", "exited"}
      /\ \A i \in 1 .. Len(ioc) : ioc[i].run = "start"
  BY Zenon DEF ConnectInv
<1>3. writing = <<>>
  BY <1>2, Zenon DEF InFlightInv
<1>4. ASSUME NEW what, what # "start", Run(what) PROVE FALSE
  <2>1. ioc # <<>> /\ Head(ioc).run = what
    BY <1>4 DEF Run
  <2>2. Len(ioc) \in Nat /\ Len(ioc) >= 1 /\ Head(ioc) = ioc[1]
    BY <1>1, <2>1, SeqFront
  <2> QED BY <1>2, <1>4, <2>1, <2>2
<1>5. ~Reads
  BY <1>2, <1>4 DEF Reads, StartRead, ReadMessage, Delivered, ReadFails, Reported
<1>6. ~EnqueueWrite /\ ~WireTakes /\ ~WriteCompletes /\ ~ReportedWrite
  BY <1>2, <1>3, <1>4 DEF EnqueueWrite, WireTakes, WriteCompletes, ReportedWrite
<1>7. ~OnClose
  BY <1>4 DEF OnClose
<1>8. ~DrainPoll
  BY <1>2, Zenon DEF DrainPoll
<1>9. ~CloseCompletes
  BY <1>2 DEF CloseCompletes
<1> QED BY <1>5, <1>6, <1>7, <1>8, <1>9 DEF Closes

(* The steps of the io thread on ioc.                                      *)
LEMMA RunsOrNot ==
  ASSUME Reads \/ Writes \/ Closes
  PROVE  ioc' = ioc \/ (ioc # <<>> /\ ioc' = Tail(ioc))
<1>1. CASE Reads
  BY <1>1, Zenon DEF Reads, StartRead, Run, ReadMessage, Delivered, ReadFails, Reported
<1>2. CASE Writes
  BY <1>2, Zenon DEF Writes, EnqueueWrite, Run, WireTakes, WriteCompletes, ReportedWrite, SendDeadlinePasses,
     OnSendDeadline
<1>3. CASE Closes
  BY <1>3, Zenon DEF Closes, OnClose, Run, DrainPoll, CloseCompletes
<1> QED BY <1>1, <1>2, <1>3

(* ConnectInv is inductive.                                                *)
LEMMA ConnectInductive == WsType /\ ConnectInv /\ InFlightInv /\ [Next]_vars => ConnectInv'
<1> SUFFICES ASSUME WsType, ConnectInv, InFlightInv, [Next]_vars PROVE ConnectInv'
  OBVIOUS
<1>0. ioc \in Seq(Handler) /\ FlagType
  BY TypeSplit DEF IoType
<1>h. /\ \A what \in {"start", "read", "close"} : Posted(what) \in Handler /\ Posted(what).run = what
      /\ \A m \in Msgs : PostedWrite(m) \in Handler /\ PostedWrite(m).run = "write"
  BY DEF Handler, Posted, PostedWrite
<1> HIDE DEF Handler
<1>1. CASE Connect
  <2>1. /\ ioc = <<>> /\ chain = "idle" /\ ~stream /\ owner' \in {"connecting", "failed"}
        /\ UNCHANGED <<stream, chain, connect_done, open, write_in_flight, draining, reading, close_ops,
                       reads, reports, accepted, wire, io>>
    BY <1>1, Zenon DEF Connect, ConnectInv, attemptVars, opVars, writeVars, historyVars
  <2>2. \A i \in 1 .. Len(ioc') : ioc'[i].run = "start" /\ i = 1
    <3>1. CASE ioc' = ioc
      BY <2>1, <3>1
    <3>2. CASE ioc' = Append(ioc, Posted("start"))
      BY <1>h, <2>1, <3>2
    <3> QED BY <1>1, <3>1, <3>2 DEF Connect
  <2> QED BY <2>1, <2>2, Zenon DEF ConnectInv
<1>2. CASE ConnectGivesUp
  <2>1. /\ owner = "connecting" /\ owner' = "failed"
        /\ UNCHANGED <<stream, chain, connect_done, open, write_in_flight, draining, reading, close_ops,
                       reads, reports, accepted, wire, io, ioc>>
    BY <1>2, Zenon DEF ConnectGivesUp, attemptVars, opVars, writeVars, historyVars
  <2> QED BY <2>1, Zenon DEF ConnectInv
<1>3. CASE ConnectReturns
  <2>1. owner = "connecting" /\ connect_done # "unset" /\ UNCHANGED <<chain, connect_done>>
    BY <1>3, Zenon DEF ConnectReturns
  <2>2. chain = "done" /\ ~stream
    BY <2>1, Zenon DEF ConnectInv
  <2>3. CASE connect_done = "ok"
    <3>1. owner' = "using" /\ stream' = TRUE /\ ioc' = Append(ioc, Posted("read"))
      BY <1>3, <2>3, Zenon DEF ConnectReturns
    <3>2. \A i \in 1 .. Len(ioc) : ioc[i].run # "start"
      BY <2>2 DEF ConnectInv
    <3>3. Len(ioc) \in Nat /\ Len(ioc') = Len(ioc) + 1 /\ ioc'[Len(ioc) + 1] = Posted("read")
          /\ \A i \in 1 .. Len(ioc) : ioc'[i] = ioc[i]
      BY <1>0, <1>h, <3>1, IocPost
    <3>4. \A i \in 1 .. Len(ioc') : ioc'[i].run # "start"
      BY <1>h, <3>2, <3>3
    <3> QED BY <2>1, <2>2, <3>1, <3>4, Zenon DEF ConnectInv
  <2>4. CASE connect_done # "ok"
    <3>1. /\ owner' = "failed"
          /\ UNCHANGED <<stream, chain, connect_done, open, write_in_flight, draining, reading, close_ops,
                         reads, reports, accepted, wire, io, ioc>>
      BY <1>3, <2>4, Zenon DEF ConnectReturns, opVars, writeVars, historyVars
    <3> QED BY <3>1, Zenon DEF ConnectInv
  <2> QED BY <2>3, <2>4
<1>4. CASE Post \/ Send \/ Close \/ SendReturns
  <2>1. /\ owner \in {"using", "sending"} /\ owner' \in {"using", "sending"}
        /\ UNCHANGED <<stream, chain>>
    BY <1>4, Zenon DEF Post, Send, Close, SendReturns, Accept, attemptVars
  <2>2. stream /\ \A i \in 1 .. Len(ioc) : ioc[i].run # "start"
    BY <2>1 DEF ConnectInv
  <2>3. ioc' = ioc \/ \E e \in Handler : e.run # "start" /\ ioc' = Append(ioc, e)
    BY <1>4, <1>h DEF Post, Send, Close, SendReturns, Accept
  <2>4. \A i \in 1 .. Len(ioc') : ioc'[i].run # "start"
    <3>1. CASE ioc' = ioc
      BY <2>2, <3>1
    <3>2. ASSUME NEW e \in Handler, e.run # "start", ioc' = Append(ioc, e)
          PROVE  \A i \in 1 .. Len(ioc') : ioc'[i].run # "start"
      <4>1. Len(ioc) \in Nat /\ Len(ioc') = Len(ioc) + 1 /\ ioc'[Len(ioc) + 1] = e
            /\ \A i \in 1 .. Len(ioc) : ioc'[i] = ioc[i]
        BY <1>0, <3>2, IocPost
      <4> QED BY <2>2, <3>2, <4>1
    <3> QED BY <2>3, <3>1, <3>2
  <2> QED BY <2>1, <2>2, <2>4 DEF ConnectInv
<1>5. CASE Destroy \/ DestroySocket \/ Stop \/ Join
  <2>1. /\ owner' \in {"destroying", "stopping", "joining", "gone"}
        /\ open' = FALSE \/ open' = open
        /\ UNCHANGED <<stream, chain, connect_done, write_in_flight, draining, reading, close_ops,
                       reads, reports, accepted, wire, io, ioc>>
    BY <1>5, Zenon DEF Destroy, DestroySocket, Stop, Join, attemptVars, opVars, writeVars, historyVars
  <2>2. owner' # "new" /\ owner' # "connecting" /\ owner' \notin {"using", "sending"}
    BY <2>1
  <2>3. ~open => ~open'
    BY <2>1, Zenon
  <2>4. UNCHANGED <<stream, chain, connect_done, write_in_flight, draining, reading, close_ops,
                    reads, reports, accepted, wire, io, ioc>>
    BY <2>1
  <2> QED BY <2>2, <2>3, <2>4, Zenon DEF ConnectInv
<1>6. CASE start
  <2>1. /\ ioc # <<>> /\ Head(ioc).run = "start" /\ ioc' = Tail(ioc) /\ chain' = "resolve"
        /\ UNCHANGED connect_done
    BY <1>6, Zenon DEF start, Run
  <2>2. /\ Len(ioc) \in Nat /\ Len(ioc) >= 1 /\ Head(ioc) = ioc[1]
        /\ Len(ioc') = Len(ioc) - 1 /\ \A i \in 1 .. Len(ioc') : ioc'[i] = ioc[i + 1]
    BY <1>0, <2>1, IocRun
  <2>3. chain = "idle" /\ \A i \in 2 .. Len(ioc) : ioc[i].run # "start"
    BY <2>1, <2>2 DEF ConnectInv
  <2>4. ~stream /\ connect_done = "unset" /\ owner # "new"
    BY <2>1, <2>3 DEF ConnectInv
  <2>5. Len(ioc') = 0
    <3>1. \A i \in 1 .. Len(ioc) : ioc[i].run = "start"
      BY <2>4 DEF ConnectInv
    <3> QED BY <2>2, <2>3, <3>1
  <2>6. UNCHANGED <<owner, stream, open, write_in_flight, draining, reading, close_ops,
                    reads, reports, accepted, wire, io>>
    BY <1>6, Frames, Zenon DEF Attempts, opVars, writeVars, historyVars
  <2>7. \A i \in 1 .. Len(ioc') : FALSE
    BY <2>5
  <2> QED BY <2>1, <2>4, <2>5, <2>6, <2>7, Zenon DEF ConnectInv
<1>7. CASE Resolved \/ Connected \/ ConnectFails
  <2>1. /\ chain \in {"resolve", "tcp", "tls", "ws"} /\ chain' \in {"tcp", "tls", "ws", "done"}
        /\ chain' = "done" \/ UNCHANGED connect_done
        /\ UNCHANGED ioc
    BY <1>7, Zenon DEF Resolved, Connected, ConnectFails, finish, Advance
  <2>2. UNCHANGED <<owner, stream, open, write_in_flight, draining, reading, close_ops,
                    reads, reports, accepted, wire, io>>
    BY <1>7, Frames, Zenon DEF Attempts, opVars, writeVars, historyVars
  <2> QED BY <2>1, <2>2, Zenon DEF ConnectInv
<1>8. CASE DeadlinePasses \/ OnDeadline
  <2>1. UNCHANGED <<chain, connect_done, ioc>>
    BY <1>8, Zenon DEF DeadlinePasses, OnDeadline
  <2>2. UNCHANGED <<owner, stream, open, write_in_flight, draining, reading, close_ops,
                    reads, reports, accepted, wire, io>>
    BY <1>8, Frames, Zenon DEF Attempts, opVars, writeVars, historyVars
  <2> QED BY <2>1, <2>2, Zenon DEF ConnectInv
<1>9. CASE \/ Reads \/ EnqueueWrite \/ WireTakes \/ WriteCompletes \/ ReportedWrite \/ Closes
  <2>1. stream /\ UNCHANGED <<owner, stream, chain>>
    BY <1>9, InUse, Frames DEF Writes, attemptVars
  <2>2. ioc' = ioc \/ (ioc # <<>> /\ ioc' = Tail(ioc))
    BY <1>9, RunsOrNot DEF Writes
  <2> QED BY <1>0, <2>1, <2>2, ConnectKept
<1>10. CASE SendDeadlinePasses \/ OnSendDeadline
  <2>1. UNCHANGED <<owner, stream, chain, connect_done, open, write_in_flight, draining, reading, close_ops,
                    reads, reports, accepted, wire, io, ioc>>
    BY <1>10, Zenon DEF SendDeadlinePasses, OnSendDeadline, WriteUnchanged, attemptVars, opVars
  <2> QED BY <2>1, Zenon DEF ConnectInv
<1>11. CASE IoExits
  <2>1. /\ io' = "exited"
        /\ UNCHANGED <<owner, stream, chain, connect_done, open, write_in_flight, draining, reading, close_ops,
                       reads, reports, accepted, wire, ioc>>
    BY <1>11, Zenon DEF IoExits, attemptVars, opVars, writeVars, historyVars
  <2> QED BY <2>1, Zenon DEF ConnectInv
<1>12. CASE Break \/ UNCHANGED vars
  <2>1. UNCHANGED <<owner, stream, chain, connect_done, open, write_in_flight, draining, reading, close_ops,
                    reads, reports, accepted, wire, io, ioc>>
    BY <1>12, Zenon DEF Break, vars, attemptVars, opVars, writeVars, historyVars
  <2> QED BY <2>1, Zenon DEF ConnectInv
<1> QED
  BY <1>1, <1>2, <1>3, <1>4, <1>5, <1>6, <1>7, <1>8, <1>9, <1>10, <1>11, <1>12, NextKinds
  DEF Owner, Attempts, Writes
-----------------------------------------------------------------------------
(* At most one handler of a kind is posted.                                *)
Once(what) == \A i, j \in 1 .. Len(ioc) : ioc[i].run = what /\ ioc[j].run = what => i = j

(* Running the one handler of a kind leaves none.                          *)
LEMMA RunTakes ==
  ASSUME ioc \in Seq(Handler), NEW what, Once(what), Run(what)
  PROVE  Holds(what) /\ ~Holds(what)' /\ Once(what)'
<1>1. ioc # <<>> /\ Head(ioc).run = what /\ ioc' = Tail(ioc)
  BY DEF Run
<1>2. /\ Len(ioc) \in Nat /\ Len(ioc) >= 1 /\ Head(ioc) = ioc[1]
      /\ Len(ioc') = Len(ioc) - 1 /\ \A i \in 1 .. Len(ioc') : ioc'[i] = ioc[i + 1]
  BY <1>1, IocRun
<1>3. Holds(what)
  BY <1>1, <1>2 DEF Holds
<1>4. \A i \in 1 .. Len(ioc') : ioc'[i].run # what
  BY <1>1, <1>2 DEF Once
<1> QED BY <1>3, <1>4 DEF Holds, Once

(* Posting the first of a kind.                                            *)
LEMMA PostAdds ==
  ASSUME ioc \in Seq(Handler), NEW e \in Handler, NEW what, ~Holds(what), ioc' = Append(ioc, e)
  PROVE  Once(what)'
<1>1. /\ Len(ioc) \in Nat /\ Len(ioc') = Len(ioc) + 1
      /\ \A i \in 1 .. Len(ioc) : ioc'[i] = ioc[i]
  BY IocPost
<1> QED BY <1>1 DEF Holds, Once

(* No other step adds one of that kind.                                    *)
LEMMA NoneAdded ==
  ASSUME ioc \in Seq(Handler), NEW what, Once(what),
         \/ ioc' = ioc
         \/ ioc # <<>> /\ ioc' = Tail(ioc)
         \/ \E e \in Handler : e.run # what /\ ioc' = Append(ioc, e)
  PROVE  Once(what)' /\ (Holds(what)' => Holds(what))
<1>1. CASE ioc' = ioc
  BY <1>1 DEF Once, Holds
<1>2. CASE ioc # <<>> /\ ioc' = Tail(ioc)
  <2>1. /\ Len(ioc) \in Nat /\ Len(ioc') = Len(ioc) - 1
        /\ \A i \in 1 .. Len(ioc') : ioc'[i] = ioc[i + 1]
    BY <1>2, IocRun
  <2>2. Once(what)'
    <3> SUFFICES ASSUME NEW i \in 1 .. Len(ioc'), NEW j \in 1 .. Len(ioc'),
                        ioc'[i].run = what, ioc'[j].run = what
                 PROVE  i = j
      BY DEF Once
    <3>1. i + 1 \in 1 .. Len(ioc) /\ j + 1 \in 1 .. Len(ioc)
      BY <2>1
    <3>2. i + 1 = j + 1
      BY <2>1, <3>1 DEF Once
    <3> QED BY <2>1, <3>2
  <2> QED BY <2>1, <2>2 DEF Holds
<1>3. ASSUME NEW e \in Handler, e.run # what, ioc' = Append(ioc, e)
      PROVE  Once(what)' /\ (Holds(what)' => Holds(what))
  <2>1. /\ Len(ioc) \in Nat /\ Len(ioc') = Len(ioc) + 1 /\ ioc'[Len(ioc) + 1] = e
        /\ \A i \in 1 .. Len(ioc) : ioc'[i] = ioc[i]
    BY <1>3, IocPost
  <2>2. \A i \in 1 .. Len(ioc') : ioc'[i].run = what => i \in 1 .. Len(ioc) /\ ioc[i].run = what
    BY <1>3, <2>1
  <2> QED BY <2>1, <2>2 DEF Holds, Once
<1> QED BY <1>1, <1>2, <1>3

(* What the owner's steps post, and what those of the io thread do.        *)
LEMMA Posts ==
  ASSUME WsType, [Next]_vars
  PROVE  \/ ioc' = ioc
         \/ ioc # <<>> /\ ioc' = Tail(ioc)
         \/ Connect /\ ioc' = Append(ioc, Posted("start"))
         \/ ConnectReturns /\ ioc' = Append(ioc, Posted("read"))
         \/ Close /\ ioc' = Append(ioc, Posted("close"))
         \/ (Post \/ Send) /\ accepted' = accepted + 1 /\ accepted' \in Msgs
            /\ ioc' = Append(ioc, PostedWrite(accepted'))
<1>1. CASE Post \/ Send
  BY <1>1 DEF Post, Send, Accept
<1>2. CASE Owner /\ ~Post /\ ~Send
  BY <1>2, Zenon DEF Owner, Connect, ConnectGivesUp, ConnectReturns, SendReturns, Close, Destroy,
     DestroySocket, Stop, Join
<1>3. CASE Attempts
  BY <1>3, Zenon DEF Attempts, start, Run, Resolved, Connected, ConnectFails, DeadlinePasses, OnDeadline,
     finish, Advance
<1>4. CASE IoExits \/ Break \/ UNCHANGED vars
  BY <1>4, Zenon DEF IoExits, Break, vars
<1> QED BY <1>1, <1>2, <1>3, <1>4, NextKinds, RunsOrNot

(* The handlers that are posted.                                           *)
LEMMA PostedTyped ==
  /\ \A what \in {"start", "read", "close"} : Posted(what) \in Handler /\ Posted(what).run = what
  /\ \A m \in Msgs : PostedWrite(m) \in Handler /\ PostedWrite(m).run = "write"
                                                /\ PostedWrite(m).msg = m
  BY DEF Handler, Posted, PostedWrite

(* Only ConnectReturns posts a read, and only Close posts a close.         *)
LEMMA PostsOf ==
  ASSUME WsType, [Next]_vars
  PROVE  /\ Once("read") /\ ~ConnectReturns => Once("read")' /\ (Holds("read")' => Holds("read"))
         /\ Once("close") /\ ~Close => Once("close")' /\ (Holds("close")' => Holds("close"))
<1>0. ioc \in Seq(Handler)
  BY TypeSplit DEF IoType
<1>1. ASSUME NEW what, Once(what), what \in {"read", "close"},
             what = "read" => ~ConnectReturns, what = "close" => ~Close
      PROVE  \/ ioc' = ioc
             \/ ioc # <<>> /\ ioc' = Tail(ioc)
             \/ \E e \in Handler : e.run # what /\ ioc' = Append(ioc, e)
  <2>1. CASE Connect /\ ioc' = Append(ioc, Posted("start"))
    BY <1>1, <2>1, PostedTyped
  <2>2. CASE ConnectReturns /\ ioc' = Append(ioc, Posted("read"))
    BY <1>1, <2>2, PostedTyped
  <2>3. CASE Close /\ ioc' = Append(ioc, Posted("close"))
    BY <1>1, <2>3, PostedTyped
  <2>4. CASE accepted' \in Msgs /\ ioc' = Append(ioc, PostedWrite(accepted'))
    BY <1>1, <2>4, PostedTyped
  <2> QED BY <2>1, <2>2, <2>3, <2>4, Posts
<1>2. ASSUME NEW what, Once(what), what \in {"read", "close"},
             what = "read" => ~ConnectReturns, what = "close" => ~Close
      PROVE  Once(what)' /\ (Holds(what)' => Holds(what))
  BY <1>0, <1>1, <1>2, NoneAdded
<1> QED BY <1>2

(* ReadInv is inductive.                                                   *)
LEMMA ReadInductive == WsType /\ ConnectInv /\ ReadInv /\ [Next]_vars => ReadInv'
<1> SUFFICES ASSUME WsType, ConnectInv, ReadInv, [Next]_vars PROVE ReadInv'
  OBVIOUS
<1>0. ioc \in Seq(Handler) /\ reading \in Nat /\ Once("read")
  BY TypeSplit DEF IoType, ReadInv, Once
<1>r. /\ reading <= 1 /\ (io = "delivering" => reading = 0)
      /\ Holds("read") => reading = 0 /\ io # "delivering"
  BY DEF ReadInv
<1>s. SUFFICES /\ reading' <= 1 /\ (io' = "delivering" => reading' = 0)
               /\ Holds("read")' => reading' = 0 /\ io' # "delivering"
               /\ Once("read")'
  BY DEF ReadInv, Once
<1>1. ASSUME UNCHANGED reading, io' = "delivering" => io = "delivering", ~ConnectReturns
      PROVE  /\ reading' <= 1 /\ (io' = "delivering" => reading' = 0)
             /\ Holds("read")' => reading' = 0 /\ io' # "delivering"
             /\ Once("read")'
  BY <1>0, <1>r, <1>1, PostsOf
<1>2. CASE ConnectReturns
  <2>1. owner = "connecting" /\ UNCHANGED <<reading, io>>
    BY <1>2 DEF ConnectReturns, opVars
  <2>2. /\ reading = 0 /\ io \in {"idle", "exited"}
        /\ \A i \in 1 .. Len(ioc) : ioc[i].run = "start"
    BY <2>1, Zenon DEF ConnectInv
  <2>3. ~Holds("read")
    BY <2>2 DEF Holds
  <2>4. ioc' = ioc \/ ioc' = Append(ioc, Posted("read"))
    BY <1>2, Zenon DEF ConnectReturns
  <2>5. Once("read")'
    BY <1>0, <2>3, <2>4, PostedTyped, PostAdds, NoneAdded
  <2> QED BY <2>1, <2>2, <2>5
<1>3. CASE Owner /\ ~ConnectReturns
  <2>1. UNCHANGED <<reading, io>>
    BY <1>3, Zenon DEF Owner, Connect, ConnectGivesUp, Post, Send, SendReturns, Close, Destroy, DestroySocket,
       Stop, Join, Accept, opVars
  <2> QED BY <1>1, <1>3, <2>1
<1>4. CASE StartRead
  <2>1. Run("read") /\ UNCHANGED io /\ io = "idle" /\ DoRead
    BY <1>4 DEF StartRead, Run, Idle
  <2>2. Holds("read") /\ ~Holds("read")' /\ Once("read")'
    BY <1>0, <2>1, RunTakes
  <2> QED BY <1>0, <1>r, <2>1, <2>2 DEF DoRead
<1>5. CASE ReadMessage \/ Delivered \/ ReadFails
  <2>1. UNCHANGED ioc /\ ~Holds("read") /\ reading' \in Nat /\ reading' <= 1 /\ (io' = "delivering" => reading' = 0)
    BY <1>0, <1>5, <1>r DEF ReadMessage, Delivered, ReadFails, OnDisconnect, DoRead
  <2>2. ~Holds("read")' /\ Once("read")'
    BY <1>0, <2>1, NoneAdded
  <2> QED BY <2>1, <2>2
<1>n. ASSUME Reported \/ Attempts \/ Writes \/ Closes \/ IoExits \/ Break \/ UNCHANGED vars
      PROVE  UNCHANGED reading /\ (io' = "delivering" => io = "delivering")
  <2>1. CASE Reported
    BY <2>1 DEF Reported
  <2>2. CASE Attempts \/ Closes
    BY <2>2, Frames DEF opVars
  <2>3. CASE Writes
    <3>1. UNCHANGED reading
      BY <2>3, Frames DEF opVars
    <3>2. io' \in {io, "idle", "reporting_write"}
      BY <2>3 DEF Writes, EnqueueWrite, WireTakes, WriteCompletes, ReportedWrite, SendDeadlinePasses,
         OnSendDeadline, OnDisconnect
    <3> QED BY <3>1, <3>2
  <2>4. CASE IoExits \/ Break \/ UNCHANGED vars
    BY <2>4 DEF IoExits, Break, vars, opVars
  <2> QED BY <1>n, <2>1, <2>2, <2>3, <2>4
<1> QED BY <1>1, <1>2, <1>3, <1>4, <1>5, <1>n, NextKinds DEF Reads

(* Only a write that is begun while the client is not closing, or one that *)
(* follows another, makes write_in_flight true.                            *)
LEMMA BeginsWrite ==
  ASSUME WsType, InFlightInv, [Next]_vars, write_in_flight', ~write_in_flight
  PROVE  EnqueueWrite /\ ~closing /\ UNCHANGED closing
<1>0. write_in_flight \in BOOLEAN
  BY TypeSplit DEF FlagType
<1>i. writing = <<>> /\ io # "reporting_write"
  BY DEF InFlightInv
<1>1. EnqueueWrite
  <2>1. ~Owner
    BY Zenon DEF Owner, Connect, ConnectGivesUp, ConnectReturns, Post, Send, SendReturns, Close, Destroy,
       DestroySocket, Stop, Join, Accept, writeVars
  <2>2. ~Attempts /\ ~Reads /\ ~Closes
    BY Frames, Zenon DEF writeVars
  <2>3. ~IoExits /\ ~Break /\ ~UNCHANGED vars
    BY Zenon DEF IoExits, Break, vars, writeVars
  <2>4. ~WireTakes /\ ~WriteCompletes /\ ~ReportedWrite /\ ~SendDeadlinePasses /\ ~OnSendDeadline
    BY <1>i, Zenon DEF WireTakes, WriteCompletes, ReportedWrite, SendDeadlinePasses, OnSendDeadline
  <2> QED BY <2>1, <2>2, <2>3, <2>4, NextKinds DEF Writes
<1>2. UNCHANGED closing
  BY <1>1, Frames DEF Writes
<1>3. ~closing
  BY <1>1, Zenon DEF EnqueueWrite
<1> QED BY <1>1, <1>2, <1>3

(* CloseInv is inductive.                                                  *)
LEMMA CloseInductive == WsType /\ InFlightInv /\ CloseInv /\ [Next]_vars => CloseInv'
<1> SUFFICES ASSUME WsType, InFlightInv, CloseInv, [Next]_vars PROVE CloseInv'
  OBVIOUS
<1>0. ioc \in Seq(Handler) /\ close_ops \in Nat /\ FlagType /\ Once("close")
  BY TypeSplit DEF IoType, CloseInv, Once
<1>c. /\ close_ops <= 1 /\ (close_ops > 0 => closing /\ ~write_in_flight)
      /\ draining => closing /\ close_ops = 0
      /\ Holds("close") => closing /\ ~draining /\ close_ops = 0
  BY Zenon DEF CloseInv
<1> DEFINE Goal == /\ close_ops' <= 1 /\ (close_ops' > 0 => closing' /\ ~write_in_flight')
                   /\ draining' => closing' /\ close_ops' = 0
                   /\ Holds("close")' => closing' /\ ~draining' /\ close_ops' = 0
                   /\ Once("close")'
<1>s. SUFFICES Goal
  BY Zenon DEF CloseInv, Once
<1>b. write_in_flight' => write_in_flight \/ (~closing /\ UNCHANGED closing /\ EnqueueWrite)
  BY BeginsWrite, Zenon
<1>1. ASSUME UNCHANGED <<close_ops, draining>>, closing => closing', ~Close
      PROVE  Goal
  <2>1. Once("close")' /\ (Holds("close")' => Holds("close"))
    BY <1>0, <1>1, PostsOf
  <2>2. ~closing => ~(close_ops > 0)
    BY <1>c, Zenon
  <2>3. close_ops' > 0 => closing' /\ ~write_in_flight'
    BY <1>c, <1>1, <1>b, <2>2, Zenon
  <2> QED BY <1>c, <1>1, <2>1, <2>3, Zenon
<1>2. CASE Close
  <2>1. /\ ~closing /\ closing' = TRUE /\ UNCHANGED <<close_ops, draining>>
        /\ ioc' = ioc \/ ioc' = Append(ioc, Posted("close"))
    BY <1>2, Zenon DEF Close, opVars
  <2>2. ~Holds("close") /\ ~draining
    BY <1>c, <2>1, Zenon
  <2>3. Once("close")'
    BY <1>0, <2>1, <2>2, PostedTyped, PostAdds, NoneAdded
  <2>4. close_ops = 0
    BY <1>0, <1>c, <2>1
  <2>5. close_ops' <= 1 /\ ~(close_ops' > 0)
    BY <2>1, <2>4
  <2>6. closing' /\ ~draining' /\ close_ops' = 0
    BY <2>1, <2>2, <2>4, Zenon
  <2> QED BY <2>3, <2>5, <2>6, Zenon
<1>3. CASE Owner /\ ~Close
  <2>1. UNCHANGED <<close_ops, draining>>
    BY <1>3, Zenon DEF Owner, Connect, ConnectGivesUp, ConnectReturns, Post, Send, SendReturns, Destroy,
       DestroySocket, Stop, Join, Accept, opVars
  <2>2. closing' = closing \/ closing' = TRUE
    BY <1>3, Zenon DEF Owner, Connect, ConnectGivesUp, ConnectReturns, Post, Send, SendReturns, Destroy,
       DestroySocket, Stop, Join, Accept
  <2>3. closing => closing'
    BY <2>2, Zenon
  <2> QED BY <1>1, <1>3, <2>1, <2>3
<1>4. CASE OnClose
  <2>1. Run("close") /\ UNCHANGED <<closing, write_in_flight>>
    BY <1>4, Zenon DEF OnClose, CloseUnchanged, writeVars
  <2>2. Holds("close") /\ ~Holds("close")' /\ Once("close")'
    BY <1>0, <2>1, RunTakes
  <2>3. closing' /\ ~draining /\ close_ops = 0
    BY <1>c, <2>1, <2>2, Zenon
  <2>4. \/ UNCHANGED <<close_ops, draining>>
        \/ draining' = TRUE /\ UNCHANGED close_ops
        \/ ~write_in_flight /\ UNCHANGED draining /\ DoAsyncClose
    BY <1>4, Zenon DEF OnClose, StartDrainAndClose
  <2>5. DoAsyncClose => close_ops' \in {close_ops, close_ops + 1}
    BY DEF DoAsyncClose
  <2>6. close_ops' <= 1 /\ (close_ops' > 0 => ~write_in_flight /\ UNCHANGED draining)
    <3>1. CASE UNCHANGED close_ops
      BY <2>3, <3>1
    <3>2. CASE ~write_in_flight /\ UNCHANGED draining /\ DoAsyncClose
      BY <2>3, <2>5, <3>2
    <3> QED BY <2>4, <3>1, <3>2
  <2>7. close_ops' = 0 \/ close_ops' > 0
    BY <2>3, <2>4, <2>5
  <2>8. draining' => close_ops' = 0
    BY <2>3, <2>6, <2>7, Zenon
  <2> QED BY <2>1, <2>2, <2>3, <2>6, <2>8, Zenon
<1>5. CASE DrainPoll
  <2>1. draining /\ UNCHANGED <<closing, write_in_flight, ioc>>
    BY <1>5, Zenon DEF DrainPoll, CloseUnchanged, writeVars
  <2>2. closing /\ close_ops = 0 /\ ~Holds("close")
    BY <1>c, <2>1, Zenon
  <2>3. ~Holds("close")' /\ Once("close")'
    BY <1>0, <2>1, <2>2, NoneAdded
  <2>4. \/ ~write_in_flight /\ DoAsyncClose /\ draining' = FALSE
        \/ draining' = TRUE /\ UNCHANGED close_ops
    BY <1>5, Zenon DEF DrainPoll, StartDrainAndClose
  <2>5. CASE ~write_in_flight /\ DoAsyncClose /\ draining' = FALSE
    <3>1. close_ops' <= 1
      BY <2>2, <2>5 DEF DoAsyncClose
    <3> QED BY <2>1, <2>2, <2>3, <2>5, <3>1, Zenon
  <2>6. CASE draining' = TRUE /\ UNCHANGED close_ops
    <3>1. close_ops' <= 1 /\ ~(close_ops' > 0)
      BY <2>2, <2>6
    <3> QED BY <2>1, <2>2, <2>3, <2>6, <3>1, Zenon
  <2> QED BY <2>4, <2>5, <2>6
<1>6. CASE CloseCompletes
  <2>1. close_ops > 0 /\ close_ops' = close_ops - 1 /\ UNCHANGED <<ioc, draining, closing>>
    BY <1>6, Zenon DEF CloseCompletes, CloseUnchanged
  <2>2. close_ops' = 0 /\ close_ops' <= 1 /\ ~(close_ops' > 0)
    BY <1>0, <1>c, <2>1
  <2>3. ~draining /\ ~Holds("close")
    <3>1. close_ops # 0
      BY <1>0, <2>1
    <3> QED BY <1>c, <3>1, Zenon
  <2>4. ~Holds("close")' /\ Once("close")'
    BY <1>0, <2>1, <2>3, NoneAdded
  <2> QED BY <2>1, <2>2, <2>3, <2>4, Zenon
<1>7. CASE Attempts \/ Reads \/ Writes \/ IoExits \/ Break \/ UNCHANGED vars
  <2>1. UNCHANGED <<close_ops, draining, closing>>
    BY <1>7, Frames, Zenon DEF IoExits, Break, vars, opVars
  <2>2. closing => closing'
    BY <2>1, Zenon
  <2> QED BY <1>1, <1>2, <2>1, <2>2
<1> QED BY <1>2, <1>3, <1>4, <1>5, <1>6, <1>7, NextKinds DEF Closes

(* ReportInv is inductive.                                                 *)
LEMMA ReportInductive ==
  WsType /\ ConnectInv /\ ReadInv /\ ReportInv /\ [Next]_vars => ReportInv'
<1> SUFFICES ASSUME WsType, ConnectInv, ReadInv, ReportInv, [Next]_vars PROVE ReportInv'
  OBVIOUS
<1>0. /\ reading \in Nat /\ reports \in Nat /\ late \in Nat /\ reading <= 1
      /\ open \in BOOLEAN
  BY TypeSplit DEF IoType, FlagType, ReadInv
<1>r. /\ reports <= 1 /\ (open => reports = 0)
      /\ io \in {"reporting", "reporting_write"} => reports = 0 /\ ~open
      /\ reports = 0 => late = 0
      /\ reports # 0 => late + reading <= 1
      /\ owner = "gone" => io = "exited"
  BY DEF ReportInv
<1> DEFINE Goal == /\ reports' <= 1 /\ (open' => reports' = 0)
                   /\ io' \in {"reporting", "reporting_write"} => reports' = 0 /\ ~open'
                   /\ reports' = 0 => late' = 0
                   /\ reports' # 0 => late' + reading' <= 1
                   /\ owner' = "gone" => io' = "exited"
<1>s. SUFFICES Goal
  BY Zenon DEF ReportInv
<1>1. ASSUME UNCHANGED <<reports, late, reading>>, open' => open,
             io' = io \/ (io' \notin {"reporting", "reporting_write"} /\ io # "exited") \/ io' = "exited",
             owner' = "gone" => owner = "gone" \/ io' = "exited"
      PROVE  Goal
  BY <1>0, <1>r, <1>1
<1>2. CASE ConnectReturns
  <2>1. /\ owner = "connecting" /\ owner' \in {"using", "failed"}
        /\ UNCHANGED <<io, reading, reports, late>>
    BY <1>2 DEF ConnectReturns, opVars, historyVars
  <2>2. reports = 0 /\ io \in {"idle", "exited"}
    BY <2>1, Zenon DEF ConnectInv
  <2> QED BY <1>r, <2>1, <2>2
<1>3. CASE Owner /\ ~ConnectReturns
  <2>1. /\ UNCHANGED <<reports, late, reading, io>> /\ open' \in {open, FALSE}
        /\ owner' = "gone" => io = "exited"
    BY <1>3 DEF Owner, Connect, ConnectGivesUp, Post, Send, SendReturns, Close, Destroy, DestroySocket, Stop,
       Join, Accept, opVars, historyVars
  <2>2. open' => open
    BY <2>1, Zenon
  <2> QED BY <1>1, <2>1, <2>2
<1>4. CASE StartRead \/ Delivered
  <2>1. /\ DoRead /\ UNCHANGED <<owner, open, reports, late>> /\ io \in {"idle", "delivering"} /\ io' = "idle"
    BY <1>4 DEF StartRead, Run, Idle, Delivered, ReadUnchanged
  <2>2. reports # 0 => UNCHANGED reading
    BY <1>0, <1>r, <2>1 DEF DoRead
  <2> QED BY <1>0, <1>r, <2>1, <2>2
<1>5. CASE ReadMessage \/ ReadFails
  <2>1. /\ UNCHANGED <<owner, reports>> /\ io = "idle" /\ reading > 0 /\ reading' = reading - 1
    BY <1>5 DEF ReadMessage, ReadFails, Idle, ReadUnchanged
  <2>2. \/ open' = open /\ io' = "delivering" /\ late' = IF reports > 0 THEN late + 1 ELSE late
        \/ open' = FALSE /\ (io' = IF open THEN "reporting" ELSE "idle") /\ late' = late
    BY <1>5 DEF ReadMessage, ReadFails, OnDisconnect
  <2>3. owner # "gone"
    BY <1>r, <2>1
  <2>4. CASE open' = open /\ io' = "delivering" /\ late' = IF reports > 0 THEN late + 1 ELSE late
    BY <1>0, <1>r, <2>1, <2>3, <2>4
  <2>5. CASE open' = FALSE /\ (io' = IF open THEN "reporting" ELSE "idle") /\ late' = late
    BY <1>0, <1>r, <2>1, <2>3, <2>5
  <2> QED BY <2>2, <2>4, <2>5
<1>6. CASE Reported \/ ReportedWrite
  <2>1. /\ UNCHANGED <<owner, open, late, reading>> /\ io \in {"reporting", "reporting_write"} /\ io' = "idle"
        /\ reports' = reports + 1
    BY <1>6, Zenon DEF Reported, ReportedWrite, ReadUnchanged, WriteUnchanged, opVars
  <2> QED BY <1>0, <1>r, <2>1
<1>7. CASE WriteCompletes
  <2>1. UNCHANGED <<owner, reports, late, reading>> /\ io = "idle"
    BY <1>7, Zenon DEF WriteCompletes, WriteUnchanged, Idle, opVars
  <2>2. \/ UNCHANGED <<open, io>>
        \/ open /\ open' = FALSE /\ io' = "reporting_write"
    BY <1>7, Zenon DEF WriteCompletes, OnDisconnect
  <2> QED BY <1>0, <1>r, <2>1, <2>2
<1>8. CASE Closes
  <2>1. UNCHANGED <<owner, reports, late, reading, io>>
    BY <1>8, Frames DEF historyVars
  <2>2. open' \in {open, FALSE}
    BY <1>8, Zenon DEF Closes, OnClose, DrainPoll, CloseCompletes
  <2> QED BY <1>0, <1>1, <2>1, <2>2, <1>r
<1>9. CASE IoExits
  <2>1. UNCHANGED <<owner, reports, late, reading, open>> /\ io' = "exited"
    BY <1>9, Zenon DEF IoExits, opVars, historyVars
  <2> QED BY <1>0, <1>1, <2>1
<1>10. CASE \/ Attempts \/ EnqueueWrite \/ WireTakes \/ SendDeadlinePasses \/ OnSendDeadline \/ Break
            \/ UNCHANGED vars
  <2>1. UNCHANGED <<owner, reports, late, reading, open, io>>
    BY <1>10, Frames, Zenon DEF EnqueueWrite, WireTakes, SendDeadlinePasses, OnSendDeadline, WriteUnchanged, Break,
       vars, opVars, historyVars
  <2> QED BY <1>0, <1>1, <2>1, <1>r
<1> QED BY <1>2, <1>3, <1>4, <1>5, <1>6, <1>7, <1>8, <1>9, <1>10, NextKinds DEF Reads, Writes

-----------------------------------------------------------------------------
(* Going on with a queue: nothing is under way, or its front is.           *)
GoesOn(q, dn) ==
  \/ /\ write_in_flight' = FALSE /\ write_queue' = <<>> /\ writing' = <<>>
     /\ \/ q = <<>> /\ done' = dn
        \/ q # <<>> /\ ~(stream /\ open) /\ done' = Fail(dn, Elements(q))
  \/ /\ q # <<>> /\ stream /\ open /\ done' = dn
     /\ write_in_flight' = TRUE /\ write_queue' = q
     /\ writing' = <<[msg |-> q[1], taken |-> FALSE]>>

LEMMA ProcessOutcome ==
  ASSUME NEW q \in Seq(Msgs), NEW dn, NEW fin, ProcessWriteQueue(q, dn, fin, <<>>)
  PROVE  GoesOn(q, dn)
<1>1. CASE q = <<>>
  BY <1>1, Zenon DEF ProcessWriteQueue, GoesOn
<1>2. CASE q # <<>> /\ ~(stream /\ open)
  BY <1>2, Zenon DEF ProcessWriteQueue, GoesOn
<1>3. CASE q # <<>> /\ stream /\ open
  <2>1. /\ write_in_flight' = TRUE /\ write_queue' = q /\ done' = dn
        /\ writing' = Append(<<>>, [msg |-> Head(q), taken |-> FALSE])
    BY <1>3, Zenon DEF ProcessWriteQueue
  <2>2. writing' = <<[msg |-> Head(q), taken |-> FALSE]>> /\ Head(q) = q[1]
    BY <1>3, <2>1
  <2> QED BY <1>3, <2>1, <2>2, Zenon DEF GoesOn
<1> QED BY <1>1, <1>2, <1>3

(* What the messages' handlers do to the queue.                            *)
LEMMA EnqueueOutcome ==
  ASSUME WsType, InFlightInv, EnqueueWrite
  PROVE  \E m \in Msgs :
           /\ ioc # <<>> /\ Head(ioc) = PostedWrite(m) /\ ioc' = Tail(ioc) /\ io = "idle"
           /\ UNCHANGED <<socket, open, io, wire, reports, late_send>>
           /\ \/ /\ closing \/ ~open \/ ~stream
                 /\ done' = Fail(done, {m}) /\ UNCHANGED <<write_queue, write_in_flight, writing>>
              \/ /\ open /\ stream /\ ~closing /\ done' = done /\ ~write_in_flight
                 /\ write_queue = <<>> /\ write_queue' = <<m>> /\ write_in_flight' = TRUE
                 /\ writing' = <<[msg |-> m, taken |-> FALSE]>>
              \/ /\ open /\ stream /\ ~closing /\ done' = done /\ write_in_flight
                 /\ write_queue' = Append(write_queue, m) /\ UNCHANGED <<write_in_flight, writing>>
<1> DEFINE m == Head(ioc).msg
<1>0. ioc \in Seq(Handler) /\ WriteType
  BY TypeSplit DEF IoType
<1>1. /\ ioc # <<>> /\ Head(ioc).run = "write" /\ ioc' = Tail(ioc) /\ io = "idle"
      /\ UNCHANGED <<socket, open, io, wire, reports, late_send>>
  BY Zenon DEF EnqueueWrite, Run, Idle
<1>2. m \in Msgs /\ Head(ioc) = PostedWrite(m)
  <2>1. Head(ioc) \in Handler
    BY <1>0, <1>1, IocType
  <2> QED BY <1>1, <2>1 DEF Handler, PostedWrite
<1>3. \/ /\ closing \/ ~open \/ ~stream
         /\ done' = Fail(done, {m}) /\ UNCHANGED <<write_queue, write_in_flight, writing>>
      \/ /\ open /\ stream /\ ~closing /\ ~write_in_flight
         /\ ProcessWriteQueue(Push(m), done, {}, writing)
      \/ /\ open /\ stream /\ ~closing /\ write_in_flight
         /\ write_queue' = Push(m) /\ UNCHANGED <<write_in_flight, writing, done>>
  BY Zenon DEF EnqueueWrite, NoneInFlight
<1> HIDE DEF m
<1>4. CASE /\ open /\ stream /\ ~closing /\ ~write_in_flight
           /\ ProcessWriteQueue(Push(m), done, {}, writing)
  <2>1. write_queue = <<>> /\ writing = <<>>
    BY <1>4, Zenon DEF InFlightInv
  <2>2. Push(m) = <<m>> /\ <<m>> \in Seq(Msgs) /\ <<m>>[1] = m /\ <<m>> # <<>>
    BY <1>2, <2>1 DEF Push
  <2>3. ProcessWriteQueue(<<m>>, done, {}, <<>>)
    BY <1>4, <2>1, <2>2
  <2>4. /\ done' = done /\ write_in_flight' = TRUE /\ write_queue' = <<m>>
        /\ writing' = <<[msg |-> <<m>>[1], taken |-> FALSE]>>
    BY <1>4, <2>2, <2>3, ProcessOutcome, Zenon DEF GoesOn
  <2>5. writing' = <<[msg |-> m, taken |-> FALSE]>>
    BY <2>2, <2>4
  <2> QED BY <1>1, <1>2, <1>4, <2>1, <2>4, <2>5, Zenon
<1>5. CASE /\ open /\ stream /\ ~closing /\ write_in_flight
           /\ write_queue' = Push(m) /\ UNCHANGED <<write_in_flight, writing, done>>
  BY <1>1, <1>2, <1>5, Zenon DEF Push
<1>6. CASE /\ closing \/ ~open \/ ~stream
           /\ done' = Fail(done, {m}) /\ UNCHANGED <<write_queue, write_in_flight, writing>>
  BY <1>1, <1>2, <1>6, Zenon
<1> QED BY <1>3, <1>4, <1>5, <1>6

(* A write that is over was that of the front of the queue.                *)
Answered(dn, m, taken) ==
  dn = done \/ (done[m] = "unset" /\ dn = [done EXCEPT ![m] = WriteResult(m, taken)])

LEMMA CompleteOutcome ==
  ASSUME WsType, InFlightInv, WriteCompletes
  PROVE  /\ write_in_flight /\ write_queue # <<>> /\ Len(writing) = 1
         /\ writing[1].msg = write_queue[1] /\ (writing[1].taken \/ socket # "up") /\ io = "idle"
         /\ UNCHANGED <<ioc, socket, wire, reports, late_send>>
         /\ \/ /\ ~writing[1].taken /\ open /\ open' = FALSE /\ io' = "reporting_write"
               /\ writing' = <<>> /\ write_queue' = Tail(write_queue)
               /\ UNCHANGED <<write_in_flight, done>>
            \/ /\ UNCHANGED <<open, io>>
               /\ \E dn : /\ Answered(dn, write_queue[1], writing[1].taken)
                          /\ GoesOn(Tail(write_queue), dn)
<1>0. WriteType /\ write_in_flight \in BOOLEAN
  BY TypeSplit DEF FlagType
<1>1. /\ writing # <<>> /\ (Head(writing).taken \/ socket # "up") /\ io = "idle"
      /\ UNCHANGED <<ioc, socket, wire, reports, late_send>>
  BY Zenon DEF WriteCompletes, Idle
<1>2. /\ write_in_flight /\ write_queue # <<>> /\ Len(writing) = 1
      /\ writing[1].msg = write_queue[1]
  BY <1>1, Zenon DEF InFlightInv
<1>3. Head(writing) = writing[1] /\ Tail(writing) = <<>> /\ Tail(write_queue) \in Seq(Msgs)
  <2>1. writing \in Seq(WriteOp) /\ write_queue \in Seq(Msgs)
    BY <1>0 DEF WriteType
  <2>2. Tail(writing) = <<>>
    <3>1. Tail(writing) \in Seq(WriteOp) /\ Len(Tail(writing)) = 1 - 1
      BY <1>1, <1>2, <2>1, SeqFront
    <3>2. Len(Tail(writing)) = 0
      BY <3>1
    <3> HIDE DEF WriteOp
    <3> QED BY <3>1, <3>2, SeqEmpty
  <2> QED BY <1>1, <1>2, <2>1, <2>2, SeqFront
<1> DEFINE m == write_queue[1]
           taken == writing[1].taken
           dn == IF done[m] = "unset" THEN [done EXCEPT ![m] = WriteResult(m, taken)] ELSE done
<1>4. \/ /\ ~taken /\ open /\ OnDisconnect("reporting_write")
         /\ writing' = Tail(writing) /\ write_queue' = Tail(write_queue)
         /\ UNCHANGED <<write_in_flight, done>>
      \/ /\ UNCHANGED <<open, io>>
         /\ ProcessWriteQueue(Tail(write_queue), dn, {m}, Tail(writing))
  BY <1>2, <1>3, Zenon DEF WriteCompletes
<1>5. Answered(dn, m, taken)
  BY Zenon DEF Answered
<1> HIDE DEF m, taken, dn
<1>6. CASE /\ ~taken /\ open /\ OnDisconnect("reporting_write")
           /\ writing' = Tail(writing) /\ write_queue' = Tail(write_queue)
           /\ UNCHANGED <<write_in_flight, done>>
  BY <1>1, <1>2, <1>3, <1>6, Zenon DEF OnDisconnect, taken
<1>7. CASE /\ UNCHANGED <<open, io>>
           /\ ProcessWriteQueue(Tail(write_queue), dn, {m}, Tail(writing))
  <2>1. GoesOn(Tail(write_queue), dn)
    BY <1>3, <1>7, ProcessOutcome
  <2> QED BY <1>1, <1>2, <1>3, <1>5, <1>7, <2>1, Zenon DEF m, taken
<1> QED BY <1>4, <1>6, <1>7

(* After on_close was called for a failed write the queue is failed.       *)
LEMMA ReportedOutcome ==
  ASSUME WsType, InFlightInv, ReportedWrite
  PROVE  /\ writing = <<>> /\ ~open /\ io = "reporting_write" /\ io' = "idle"
         /\ GoesOn(write_queue, done) /\ UNCHANGED <<ioc, socket, wire, open, late_send>>
<1>1. /\ io = "reporting_write" /\ io' = "idle" /\ ProcessWriteQueue(write_queue, done, {}, writing)
      /\ UNCHANGED <<ioc, socket, wire, open, late_send>>
  BY Zenon DEF ReportedWrite
<1>2. writing = <<>> /\ ~open
  BY <1>1, Zenon DEF InFlightInv
<1>3. GoesOn(write_queue, done)
  BY <1>1, <1>2, TypeSplit, ProcessOutcome DEF WriteType
<1> QED BY <1>1, <1>2, <1>3

(* The steps that do not write.                                            *)
LEMMA Others ==
  ASSUME WsType, ConnectInv, [Next]_vars,
         ~EnqueueWrite, ~WireTakes, ~WriteCompletes, ~ReportedWrite
  PROVE  /\ UNCHANGED <<wire, write_queue, writing, write_in_flight>>
         /\ io' = io \/ (io # "reporting_write" /\ io' # "reporting_write")
         /\ open' => open \/ (ConnectReturns /\ ~stream)
<1>u. ASSUME UNCHANGED <<wire, write_queue, writing, write_in_flight, io>>, open' = open \/ open' = FALSE
      PROVE  /\ UNCHANGED <<wire, write_queue, writing, write_in_flight>>
             /\ io' = io \/ (io # "reporting_write" /\ io' # "reporting_write")
             /\ open' => open \/ (ConnectReturns /\ ~stream)
  <2>1. open' => open
    BY <1>u, Zenon
  <2> QED BY <1>u, <2>1
<1>1. CASE ConnectReturns
  <2>1. ~stream
    BY <1>1, Zenon DEF ConnectReturns, ConnectInv
  <2> QED BY <1>1, <2>1, Zenon DEF ConnectReturns, writeVars, historyVars
<1>2. CASE Connect \/ ConnectGivesUp \/ SendReturns \/ Close \/ Destroy \/ DestroySocket \/ Stop \/ Join
  BY <1>u, <1>2, Zenon DEF Connect, ConnectGivesUp, SendReturns, Close, Destroy, DestroySocket, Stop, Join, writeVars,
     historyVars
<1>3. CASE Post \/ Send
  BY <1>u, <1>3, Zenon DEF Post, Send, Accept
<1>4. CASE Attempts
  BY <1>u, <1>4, Frames, Zenon DEF writeVars, historyVars
<1>5. CASE Reads
  <2>1. UNCHANGED <<wire, write_queue, writing, write_in_flight>>
    BY <1>5, Frames, Zenon DEF writeVars
  <2>2. io' = io \/ (io # "reporting_write" /\ io' # "reporting_write")
    BY <1>5 DEF Reads, StartRead, ReadMessage, Delivered, ReadFails, Reported, OnDisconnect, Idle
  <2>3. open' => open
    BY <1>5, Zenon DEF Reads, StartRead, ReadMessage, Delivered, ReadFails, Reported, OnDisconnect
  <2> QED BY <2>1, <2>2, <2>3
<1>6. CASE Closes
  <2>1. UNCHANGED <<wire, write_queue, writing, write_in_flight, io>>
    BY <1>6, Frames, Zenon DEF writeVars, historyVars
  <2>2. open' => open
    BY <1>6, Zenon DEF Closes, OnClose, DrainPoll, CloseCompletes
  <2> QED BY <2>1, <2>2
<1>7. CASE SendDeadlinePasses \/ OnSendDeadline
  BY <1>u, <1>7, Zenon DEF SendDeadlinePasses, OnSendDeadline
<1>8. CASE IoExits
  <2>1. UNCHANGED <<wire, write_queue, writing, write_in_flight, open>> /\ io = "idle" /\ io' = "exited"
    BY <1>8, Zenon DEF IoExits, writeVars, historyVars
  <2> QED BY <2>1
<1>9. CASE Break \/ UNCHANGED vars
  BY <1>u, <1>9, Zenon DEF Break, vars, writeVars, historyVars
<1> QED
  BY <1>1, <1>2, <1>3, <1>4, <1>5, <1>6, <1>7, <1>8, <1>9, NextKinds DEF Owner, Writes

(* InFlightInv is inductive.                                               *)
LEMMA InFlightInductive == WsType /\ ConnectInv /\ InFlightInv /\ [Next]_vars => InFlightInv'
<1> SUFFICES ASSUME WsType, ConnectInv, InFlightInv, [Next]_vars PROVE InFlightInv'
  OBVIOUS
<1>0. WriteType
  BY TypeSplit
<1>1. ASSUME NEW q \in Seq(Msgs), NEW dn, GoesOn(q, dn), io' = "idle" PROVE InFlightInv'
  <2>1. CASE write_in_flight' = FALSE /\ write_queue' = <<>> /\ writing' = <<>>
    BY <1>1, <2>1 DEF InFlightInv
  <2>2. CASE /\ q # <<>> /\ write_in_flight' = TRUE /\ write_queue' = q
             /\ writing' = <<[msg |-> q[1], taken |-> FALSE]>>
    <3>1. write_queue' # <<>> /\ Len(writing') = 1 /\ writing'[1].msg = write_queue'[1]
      BY <2>2
    <3> QED BY <1>1, <2>2, <3>1 DEF InFlightInv
  <2> QED BY <1>1, <2>1, <2>2, Zenon DEF GoesOn
<1>2. CASE EnqueueWrite
  <2>1. PICK m \in Msgs :
          /\ io = "idle" /\ io' = io
          /\ \/ UNCHANGED <<write_queue, write_in_flight, writing>>
             \/ /\ write_queue' = <<m>> /\ write_in_flight' = TRUE
                /\ writing' = <<[msg |-> m, taken |-> FALSE]>>
             \/ /\ write_in_flight
                /\ write_queue' = Append(write_queue, m) /\ UNCHANGED <<write_in_flight, writing>>
    BY <1>2, EnqueueOutcome, Zenon
  <2>2. CASE UNCHANGED <<write_queue, write_in_flight, writing>>
    BY <2>1, <2>2 DEF InFlightInv
  <2>3. CASE /\ write_queue' = <<m>> /\ write_in_flight' = TRUE
             /\ writing' = <<[msg |-> m, taken |-> FALSE]>>
    <3>1. write_queue' # <<>> /\ Len(writing') = 1 /\ writing'[1].msg = write_queue'[1]
      BY <2>3
    <3> QED BY <2>1, <2>3, <3>1 DEF InFlightInv
  <2>4. CASE /\ write_in_flight
             /\ write_queue' = Append(write_queue, m) /\ UNCHANGED <<write_in_flight, writing>>
    <3>1. write_queue # <<>> /\ Len(writing) = 1 /\ writing[1].msg = write_queue[1]
      BY <2>1, <2>4 DEF InFlightInv
    <3>2. write_queue \in Seq(Msgs) /\ m \in Msgs
      BY <1>0 DEF WriteType
    <3>3. write_queue' # <<>> /\ write_queue'[1] = write_queue[1]
      BY <2>4, <3>1, <3>2
    <3>4. write_in_flight' /\ Len(writing') = 1 /\ writing'[1].msg = write_queue'[1]
      BY <2>4, <3>1, <3>3, Zenon
    <3> QED BY <2>1, <3>3, <3>4 DEF InFlightInv
  <2> QED BY <2>1, <2>2, <2>3, <2>4
<1>3. CASE WireTakes
  <2>1. /\ writing # <<>> /\ writing' = [writing EXCEPT ![1].taken = TRUE]
        /\ UNCHANGED <<write_queue, write_in_flight, io, open>>
    BY <1>3, Zenon DEF WireTakes
  <2>2. /\ write_in_flight /\ io # "reporting_write" /\ write_queue # <<>>
        /\ Len(writing) = 1 /\ writing[1].msg = write_queue[1]
    BY <2>1, Zenon DEF InFlightInv
  <2>3. writing \in Seq(WriteOp) /\ writing[1] \in WriteOp
    BY <1>0, <2>1, SeqFront DEF WriteType
  <2>4. [writing[1] EXCEPT !.taken = TRUE] \in WriteOp /\ [writing[1] EXCEPT !.taken = TRUE].msg = writing[1].msg
    BY <2>3 DEF WriteOp
  <2>5. Len(writing') = 1 /\ writing'[1] = [writing[1] EXCEPT !.taken = TRUE]
    BY <2>1, <2>2, <2>3
  <2>6. write_in_flight' /\ io' # "reporting_write" /\ write_queue' # <<>> /\ Len(writing') = 1
        /\ writing'[1].msg = write_queue'[1]
    BY <2>1, <2>2, <2>4, <2>5, Zenon
  <2> QED BY <2>6, Zenon DEF InFlightInv
<1>4. CASE WriteCompletes
  <2>1. /\ write_in_flight /\ write_queue # <<>> /\ io = "idle"
        /\ \/ /\ open' = FALSE /\ io' = "reporting_write" /\ writing' = <<>>
              /\ UNCHANGED write_in_flight
           \/ UNCHANGED io /\ \E dn : GoesOn(Tail(write_queue), dn)
    BY <1>4, CompleteOutcome, Zenon
  <2>2. Tail(write_queue) \in Seq(Msgs)
    BY <1>0, <2>1, SeqFront DEF WriteType
  <2>3. CASE open' = FALSE /\ io' = "reporting_write" /\ writing' = <<>> /\ UNCHANGED write_in_flight
    BY <2>1, <2>3, Zenon DEF InFlightInv
  <2> QED BY <1>1, <2>1, <2>2, <2>3
<1>5. CASE ReportedWrite
  BY <1>0, <1>1, <1>5, ReportedOutcome DEF WriteType
<1>6. CASE ~EnqueueWrite /\ ~WireTakes /\ ~WriteCompletes /\ ~ReportedWrite
  <2>1. /\ UNCHANGED <<write_queue, writing, write_in_flight>>
        /\ io' = io \/ (io # "reporting_write" /\ io' # "reporting_write")
        /\ open' => open \/ ~stream
    BY <1>6, Others
  <2>2. ~stream => io # "reporting_write"
    BY DEF ConnectInv
  <2> QED BY <2>1, <2>2, Zenon DEF InFlightInv
<1> QED BY <1>2, <1>3, <1>4, <1>5, <1>6

-----------------------------------------------------------------------------
(* The writes that are posted, as handlers are posted and run.             *)
LEMMA PostOther ==
  ASSUME NEW q \in Seq(Handler), NEW n \in Nat, NEW last \in Nat, WritesFrom(q, n, last),
         NEW e \in Handler, e.run # "write"
  PROVE  WritesFrom(Append(q, e), n, last)
<1>1. /\ Len(q) \in Nat /\ Len(Append(q, e)) = Len(q) + 1 /\ Append(q, e)[Len(q) + 1] = e
      /\ \A i \in 1 .. Len(q) : Append(q, e)[i] = q[i]
  OBVIOUS
<1> DEFINE r == Append(q, e)
<1>2. \A i \in 1 .. Len(r) : r[i].run = "write" => i \in 1 .. Len(q) /\ r[i] = q[i]
  BY <1>1
<1>3. \A i \in 1 .. Len(q) : i \in 1 .. Len(r) /\ r[i] = q[i]
  BY <1>1
<1> HIDE DEF r
<1>4. WritesFrom(r, n, last)
  BY <1>1, <1>2, <1>3 DEF WritesFrom
<1> QED BY <1>4 DEF r

LEMMA PostNext ==
  ASSUME NEW q \in Seq(Handler), NEW n \in Nat, NEW last \in Nat, WritesFrom(q, n, last),
         n <= last + 1, PostedWrite(last + 1) \in Handler
  PROVE  WritesFrom(Append(q, PostedWrite(last + 1)), n, last + 1)
<1> DEFINE e == PostedWrite(last + 1)
           r == Append(q, e)
<1>1. e.run = "write" /\ e.msg = last + 1
  BY DEF PostedWrite
<1> HIDE DEF e
<1>2. /\ Len(q) \in Nat /\ Len(r) = Len(q) + 1 /\ r[Len(q) + 1] = e
      /\ \A i \in 1 .. Len(q) : r[i] = q[i]
  BY DEF e
<1> HIDE DEF r
<1>3. \A i \in 1 .. Len(r) : r[i].run = "write" => r[i].msg \in n .. last + 1
  BY <1>1, <1>2 DEF WritesFrom
<1>4. \A m \in n .. last + 1 : \E i \in 1 .. Len(r) : r[i] = PostedWrite(m)
  <2> SUFFICES ASSUME NEW m \in n .. last + 1 PROVE \E i \in 1 .. Len(r) : r[i] = PostedWrite(m)
    OBVIOUS
  <2>1. CASE m = last + 1
    BY <1>2, <2>1 DEF e
  <2>2. CASE m # last + 1
    <3>1. PICK i \in 1 .. Len(q) : q[i] = PostedWrite(m)
      BY <2>2 DEF WritesFrom
    <3> QED BY <1>2, <3>1
  <2> QED BY <2>1, <2>2
<1>5. ASSUME NEW i \in 1 .. Len(r), NEW j \in 1 .. Len(r), i < j,
             r[i].run = "write", r[j].run = "write"
      PROVE  r[i].msg < r[j].msg
  <2>1. i \in 1 .. Len(q) /\ r[i] = q[i] /\ r[i].msg \in n .. last
    BY <1>2, <1>5 DEF WritesFrom
  <2>2. CASE j = Len(q) + 1
    BY <1>1, <1>2, <2>1, <2>2
  <2>3. CASE j # Len(q) + 1
    <3>1. j \in 1 .. Len(q) /\ r[j] = q[j]
      BY <1>2, <2>3
    <3> QED BY <1>5, <2>1, <3>1 DEF WritesFrom
  <2> QED BY <2>2, <2>3
<1>6. WritesFrom(r, n, last + 1)
  BY <1>3, <1>4, <1>5 DEF WritesFrom
<1> QED BY <1>6 DEF r, e

LEMMA RunOther ==
  ASSUME NEW q \in Seq(Handler), q # <<>>, NEW n \in Nat, NEW last \in Nat, WritesFrom(q, n, last),
         Head(q).run # "write"
  PROVE  WritesFrom(Tail(q), n, last)
<1> DEFINE r == Tail(q)
<1>1. /\ Len(q) \in Nat /\ Len(q) >= 1 /\ q[1] = Head(q)
      /\ Len(r) = Len(q) - 1 /\ \A i \in 1 .. Len(q) - 1 : r[i] = q[i + 1]
  BY SeqFront
<1> HIDE DEF r
<1>2. \A i \in 1 .. Len(r) : i + 1 \in 1 .. Len(q) /\ r[i] = q[i + 1]
  BY <1>1
<1>3. \A i \in 1 .. Len(r) : r[i].run = "write" => r[i].msg \in n .. last
  BY <1>2 DEF WritesFrom
<1>4. \A m \in n .. last : \E i \in 1 .. Len(r) : r[i] = PostedWrite(m)
  <2> SUFFICES ASSUME NEW m \in n .. last PROVE \E i \in 1 .. Len(r) : r[i] = PostedWrite(m)
    OBVIOUS
  <2>1. PICK i \in 1 .. Len(q) : q[i] = PostedWrite(m)
    BY DEF WritesFrom
  <2>2. i # 1
    BY <1>1, <2>1 DEF PostedWrite
  <2>3. i - 1 \in 1 .. Len(r) /\ r[i - 1] = q[i]
    BY <1>1, <2>2
  <2> QED BY <2>1, <2>3
<1>5. ASSUME NEW i \in 1 .. Len(r), NEW j \in 1 .. Len(r), i < j,
             r[i].run = "write", r[j].run = "write"
      PROVE  r[i].msg < r[j].msg
  <2>1. i + 1 \in 1 .. Len(q) /\ r[i] = q[i + 1] /\ j + 1 \in 1 .. Len(q) /\ r[j] = q[j + 1] /\ i + 1 < j + 1
    BY <1>1, <1>2, <1>5
  <2> QED BY <1>5, <2>1 DEF WritesFrom
<1>6. WritesFrom(r, n, last)
  BY <1>3, <1>4, <1>5 DEF WritesFrom
<1> QED BY <1>6 DEF r

LEMMA RunNext ==
  ASSUME NEW q \in Seq(Handler), q # <<>>, NEW n \in Nat, NEW last \in Nat, WritesFrom(q, n, last),
         NEW k \in Nat, Head(q) = PostedWrite(k)
  PROVE  k = n /\ n <= last /\ WritesFrom(Tail(q), n + 1, last)
<1> DEFINE r == Tail(q)
<1>1. /\ Len(q) \in Nat /\ Len(q) >= 1 /\ q[1] = Head(q)
      /\ Len(r) = Len(q) - 1 /\ \A i \in 1 .. Len(q) - 1 : r[i] = q[i + 1]
  BY SeqFront
<1> HIDE DEF r
<1>p. \A m : PostedWrite(m).run = "write" /\ PostedWrite(m).msg = m
  BY DEF PostedWrite
<1>2. 1 \in 1 .. Len(q) /\ q[1].run = "write" /\ q[1].msg = k
  BY <1>1, <1>p
<1>3. k \in n .. last
  BY <1>2 DEF WritesFrom
<1>4. k = n
  <2>1. n \in n .. last
    BY <1>3
  <2>2. PICK i \in 1 .. Len(q) : q[i] = PostedWrite(n)
    BY <2>1 DEF WritesFrom
  <2>3. CASE i = 1
    BY <1>2, <1>p, <2>2, <2>3
  <2>4. CASE i # 1
    <3>1. 1 < i /\ q[i].run = "write" /\ q[i].msg = n
      BY <1>1, <1>p, <2>2, <2>4
    <3>2. k < n
      BY <1>2, <3>1 DEF WritesFrom
    <3> QED BY <1>3, <3>2
  <2> QED BY <2>3, <2>4
<1>5. \A i \in 1 .. Len(r) : i + 1 \in 1 .. Len(q) /\ 1 < i + 1 /\ r[i] = q[i + 1]
  BY <1>1
<1>6. \A i \in 1 .. Len(r) : r[i].run = "write" => r[i].msg \in n + 1 .. last
  <2> SUFFICES ASSUME NEW i \in 1 .. Len(r), r[i].run = "write" PROVE r[i].msg \in n + 1 .. last
    OBVIOUS
  <2>1. i + 1 \in 1 .. Len(q) /\ 1 < i + 1 /\ r[i] = q[i + 1]
    BY <1>5
  <2>2. r[i].msg \in n .. last /\ q[1].msg < r[i].msg
    BY <1>2, <2>1 DEF WritesFrom
  <2> QED BY <1>2, <1>4, <2>2
<1>7. \A m \in n + 1 .. last : \E i \in 1 .. Len(r) : r[i] = PostedWrite(m)
  <2> SUFFICES ASSUME NEW m \in n + 1 .. last PROVE \E i \in 1 .. Len(r) : r[i] = PostedWrite(m)
    OBVIOUS
  <2>1. PICK i \in 1 .. Len(q) : q[i] = PostedWrite(m)
    BY DEF WritesFrom
  <2>2. i # 1
    BY <1>2, <1>4, <1>p, <2>1
  <2>3. i - 1 \in 1 .. Len(r) /\ r[i - 1] = q[i]
    BY <1>1, <2>2
  <2> QED BY <2>1, <2>3
<1>8. ASSUME NEW i \in 1 .. Len(r), NEW j \in 1 .. Len(r), i < j,
             r[i].run = "write", r[j].run = "write"
      PROVE  r[i].msg < r[j].msg
  <2>1. i + 1 \in 1 .. Len(q) /\ r[i] = q[i + 1] /\ j + 1 \in 1 .. Len(q) /\ r[j] = q[j + 1] /\ i + 1 < j + 1
    BY <1>1, <1>5, <1>8
  <2> QED BY <1>8, <2>1 DEF WritesFrom
<1>9. WritesFrom(r, n + 1, last)
  BY <1>6, <1>7, <1>8 DEF WritesFrom
<1> QED BY <1>3, <1>4, <1>9 DEF r

-----------------------------------------------------------------------------
(* Messages flow while the client is open and not closing.                 *)
Flow == stream /\ open /\ ~closing

LEMMA OthersFlow ==
  ASSUME WsType, ConnectInv, [Next]_vars,
         ~EnqueueWrite, ~WireTakes, ~WriteCompletes, ~ReportedWrite
  PROVE  /\ Flow' => Flow \/ (ConnectReturns /\ ~stream)
         /\ socket' = "up" => socket = "up" \/ (~stream /\ ~stream')
         /\ ~Post /\ ~Send => UNCHANGED <<done, accepted>>
<1>1. open' => open \/ (ConnectReturns /\ ~stream)
  BY Others
<1>2. CASE Owner
  <2>1. closing' = closing \/ closing' = TRUE
    BY <1>2, Zenon DEF Owner, Connect, ConnectGivesUp, ConnectReturns, Post, Send, SendReturns, Close, Destroy,
       DestroySocket, Stop, Join, Accept
  <2>2. stream' = stream \/ (ConnectReturns /\ ~stream)
    <3>1. ConnectReturns => ~stream
      BY Zenon DEF ConnectReturns, ConnectInv
    <3>2. stream' = stream \/ ConnectReturns
      BY <1>2, Zenon DEF Owner, Connect, ConnectGivesUp, Post, Send, SendReturns, Close, Destroy,
         DestroySocket, Stop, Join, Accept
    <3> QED BY <3>1, <3>2
  <2>3. Flow' => Flow \/ (ConnectReturns /\ ~stream)
    BY <1>1, <2>1, <2>2, Zenon DEF Flow
  <2>4. socket' = socket \/ socket' = "closed"
    BY <1>2, Zenon DEF Owner, Connect, ConnectGivesUp, ConnectReturns, Post, Send, SendReturns, Close, Destroy,
       DestroySocket, Stop, Join, Accept
  <2>5. ~Post /\ ~Send => UNCHANGED <<done, accepted>>
    BY <1>2, Zenon DEF Owner, Connect, ConnectGivesUp, ConnectReturns, SendReturns, Close, Destroy,
       DestroySocket, Stop, Join, writeVars, historyVars
  <2> QED BY <2>3, <2>4, <2>5
<1>3. CASE ~Owner
  <2>1. UNCHANGED <<stream, closing, done, accepted>>
    <3>1. CASE Attempts \/ Reads \/ Closes
      BY <3>1, Frames, Zenon DEF writeVars, historyVars
    <3>2. CASE SendDeadlinePasses \/ OnSendDeadline
      BY <3>2, Zenon DEF SendDeadlinePasses, OnSendDeadline, WriteUnchanged
    <3>3. CASE IoExits \/ Break \/ UNCHANGED vars
      BY <3>3, Zenon DEF IoExits, Break, vars, writeVars, historyVars
    <3> QED BY <1>3, <3>1, <3>2, <3>3, NextKinds DEF Writes
  <2>2. Flow' => Flow \/ (ConnectReturns /\ ~stream)
    BY <1>1, <2>1, Zenon DEF Flow
  <2>3. socket' = "up" => socket = "up" \/ ~stream
    <3>1. CASE Resolved
      BY <3>1, Zenon DEF Resolved, ConnectInv
    <3>2. CASE start \/ Connected \/ ConnectFails \/ DeadlinePasses \/ OnDeadline
      BY <3>2 DEF start, Connected, ConnectFails, DeadlinePasses, OnDeadline
    <3>3. CASE Reads \/ Closes
      BY <3>3, Frames
    <3>4. CASE SendDeadlinePasses \/ OnSendDeadline
      <4>1. socket' = socket \/ socket' = "closed"
        BY <3>4, Zenon DEF SendDeadlinePasses, OnSendDeadline
      <4> QED BY <4>1
    <3>5. CASE IoExits \/ Break \/ UNCHANGED vars
      BY <3>5 DEF IoExits, Break, vars
    <3> QED BY <1>3, <3>1, <3>2, <3>3, <3>4, <3>5, NextKinds DEF Writes, Attempts
  <2>4. ~stream => ~stream'
    BY <2>1, Zenon
  <2> QED BY <2>1, <2>2, <2>3, <2>4
<1> QED BY <1>2, <1>3

(* The steps of the io thread that run a handler.                          *)
LEMMA NextFromIoc ==
  ASSUME [Next]_vars, ioc' # ioc
  PROVE  start \/ StartRead \/ OnClose \/ EnqueueWrite \/ Connect \/ ConnectReturns \/ Close \/ Post \/ Send
<1>1. ~ConnectGivesUp /\ ~SendReturns /\ ~Destroy /\ ~DestroySocket /\ ~Stop /\ ~Join
  BY Zenon DEF ConnectGivesUp, SendReturns, Destroy, DestroySocket, Stop, Join
<1>2. ~Resolved /\ ~Connected /\ ~ConnectFails /\ ~DeadlinePasses /\ ~OnDeadline
  BY Zenon DEF Resolved, Connected, ConnectFails, DeadlinePasses, OnDeadline, finish, Advance
<1>3. ~ReadMessage /\ ~Delivered /\ ~ReadFails /\ ~Reported
  BY Zenon DEF ReadMessage, Delivered, ReadFails, Reported
<1>4. ~WireTakes /\ ~WriteCompletes /\ ~ReportedWrite /\ ~SendDeadlinePasses /\ ~OnSendDeadline
  BY Zenon DEF WireTakes, WriteCompletes, ReportedWrite, SendDeadlinePasses, OnSendDeadline
<1>5. ~DrainPoll /\ ~CloseCompletes /\ ~IoExits /\ ~Break /\ ~UNCHANGED vars
  BY Zenon DEF DrainPoll, CloseCompletes, IoExits, Break, vars
<1> QED BY <1>1, <1>2, <1>3, <1>4, <1>5, NextKinds DEF Owner, Attempts, Reads, Writes, Closes

(* What the arithmetic of the queue needs of the types.                    *)
LEMMA QueueTypes ==
  ASSUME WsType
  PROVE  /\ MaxMsgs \in Nat /\ accepted \in 0 .. MaxMsgs /\ Len(wire) \in Nat /\ Len(write_queue) \in Nat
         /\ write_queue \in Seq(Msgs) /\ wire \in Seq(Msgs) /\ writing \in Seq(WriteOp)
         /\ \A i \in 1 .. Len(write_queue) : write_queue[i] \in Msgs
         /\ write_queue # <<>> => 1 \in 1 .. Len(write_queue) /\ write_queue[1] \in Msgs
         /\ \A m \in Msgs : m \in Nat /\ m >= 1 /\ m <= MaxMsgs
         /\ ioc \in Seq(Handler)
         /\ DOMAIN done = Msgs /\ done \in [Msgs -> Results \cup {"none", "unset"}]
<1>1. WriteType /\ ioc \in Seq(Handler)
  BY TypeSplit DEF IoType
<1>2. /\ accepted \in 0 .. MaxMsgs /\ write_queue \in Seq(Msgs) /\ wire \in Seq(Msgs) /\ writing \in Seq(WriteOp)
      /\ done \in [Msgs -> Results \cup {"none", "unset"}]
  BY <1>1 DEF WriteType
<1>3. MaxMsgs \in Nat /\ \A m \in Msgs : m \in Nat /\ m >= 1 /\ m <= MaxMsgs
  BY WsAssumption DEF Msgs
<1>4. /\ Len(wire) \in Nat /\ Len(write_queue) \in Nat
      /\ \A i \in 1 .. Len(write_queue) : write_queue[i] \in Msgs
      /\ write_queue # <<>> => 1 \in 1 .. Len(write_queue)
  BY <1>2
<1> QED BY <1>1, <1>2, <1>3, <1>4

(* QueueInv, where at most promises of new messages are made.              *)
LEMMA QueueKept ==
  ASSUME WsType, QueueInv, UNCHANGED <<wire, write_queue, writing>>,
         \A m \in Msgs : done'[m] = done[m] \/ done'[m] \in {"none", "unset"},
         socket' = "up" => socket = "up" \/ writing = <<>>
  PROVE  QueueInv'
<1>1. \A i \in 1 .. Len(write_queue') :
        /\ write_queue'[i] = write_queue'[1] + i - 1 /\ done'[write_queue'[i]] \in {"none", "unset"}
  BY QueueTypes DEF QueueInv
<1>2. \A m \in Msgs : /\ done'[m] = "ok" => m <= Len(wire')
                      /\ done'[m] = "TransportFailure" => m > Len(wire')
  BY DEF QueueInv
<1>3. /\ \A i \in 1 .. Len(wire') : wire'[i] = i
      /\ write_queue' # <<>> =>
           IF writing' # <<>> /\ writing'[1].taken THEN write_queue'[1] = Len(wire')
           ELSE /\ write_queue'[1] > Len(wire')
                /\ writing' # <<>> /\ socket' = "up" => write_queue'[1] = Len(wire') + 1
  BY Zenon DEF QueueInv
<1> QED BY <1>1, <1>2, <1>3, Zenon DEF QueueInv

(* Steps that do not write keep both.                                      *)
LEMMA OthersQueue ==
  ASSUME WsType, ConnectInv, InFlightInv, QueueInv, [Next]_vars,
         NEW n \in 1 .. MaxMsgs + 1, NextQueued(n),
         ~EnqueueWrite, ~WireTakes, ~WriteCompletes, ~ReportedWrite
  PROVE  QueueInv' /\ NextQueued(n)'
<1>0. UNCHANGED <<wire, write_queue, writing>>
  BY Others
<1>t. n \in Nat /\ accepted \in Nat /\ ioc \in Seq(Handler) /\ accepted \in 0 .. MaxMsgs /\ MaxMsgs \in Nat
  BY QueueTypes
<1>n. /\ ~stream => writing = <<>> /\ write_queue = <<>> /\ wire = <<>> /\ accepted = 0
  BY Zenon DEF ConnectInv, InFlightInv
<1>1. socket' = "up" => socket = "up" \/ writing = <<>>
  BY <1>n, OthersFlow
<1>p. Len(wire) < n /\ n <= accepted + 1 /\ WritesFrom(ioc, n, accepted)
  BY DEF NextQueued
<1>d. ASSUME Post \/ Send
      PROVE  /\ accepted' = accepted + 1 /\ accepted' \in Msgs
             /\ \A m \in Msgs : done'[m] = done[m] \/ done'[m] \in {"none", "unset"}
             /\ ioc' = Append(ioc, PostedWrite(accepted + 1))
  <2>1. PICK m \in Msgs, x \in {"none", "unset"} :
          m = accepted + 1 /\ accepted' = m /\ ioc' = Append(ioc, PostedWrite(m))
          /\ done' = [done EXCEPT ![m] = x]
    BY <1>d DEF Post, Send, Accept
  <2> QED BY <2>1, QueueTypes
<1>2. /\ \A m \in Msgs : done'[m] = done[m] \/ done'[m] \in {"none", "unset"}
      /\ accepted' \in Nat /\ accepted <= accepted'
  <2>1. CASE Post \/ Send
    BY <1>d, <1>t, <2>1
  <2>2. CASE ~Post /\ ~Send
    BY <1>t, <2>2, OthersFlow
  <2> QED BY <2>1, <2>2
<1>3. QueueInv'
  BY <1>0, <1>1, <1>2, QueueKept
<1>4. WritesFrom(ioc', n, accepted')
  <2>1. CASE Post \/ Send
    <3>1. PostedWrite(accepted + 1) \in Handler
      BY <1>d, <2>1, PostedTyped
    <3> QED BY <1>d, <1>t, <1>p, <2>1, <3>1, PostNext
  <2>2. CASE ~Post /\ ~Send
    <3>0. accepted' = accepted
      BY <2>2, OthersFlow
    <3>1. CASE ioc' = ioc
      BY <1>p, <3>0, <3>1
    <3>2. CASE ioc # <<>> /\ ioc' = Tail(ioc)
      <4>1. Head(ioc).run # "write"
        <5> SUFFICES ASSUME Head(ioc).run = "write" PROVE FALSE
          OBVIOUS
        <5>1. Len(ioc) # Len(ioc')
          BY <1>t, <3>2, SeqFront
        <5>2. ioc' # ioc
          BY <5>1
        <5>3. ~Connect /\ ~ConnectReturns /\ ~Close
          <6>1. Connect \/ ConnectReturns \/ Close => ioc' = ioc \/ \E e : ioc' = Append(ioc, e)
            BY Zenon DEF Connect, ConnectReturns, Close
          <6>2. ASSUME NEW e, ioc' = Append(ioc, e) PROVE FALSE
            <7>1. Len(ioc') = Len(ioc) + 1 /\ Len(ioc') = Len(ioc) - 1 /\ Len(ioc) \in Nat
              BY <1>t, <3>2, <6>2, SeqFront
            <7> QED BY <7>1
          <6> QED BY <5>2, <6>1, <6>2
        <5>4. start \/ StartRead \/ OnClose
          BY <2>2, <5>2, <5>3, NextFromIoc
        <5> QED BY <5>4 DEF start, StartRead, OnClose, Run
      <4> QED BY <1>p, <1>t, <3>0, <3>2, <4>1, RunOther
    <3>3. ASSUME NEW what \in {"start", "read", "close"}, ioc' = Append(ioc, Posted(what))
          PROVE  WritesFrom(ioc', n, accepted')
      <4>1. Posted(what) \in Handler /\ Posted(what).run # "write"
        BY PostedTyped
      <4> QED BY <1>p, <1>t, <3>0, <3>3, <4>1, PostOther
    <3> QED BY <2>2, <3>1, <3>2, <3>3, Posts
  <2> QED BY <2>1, <2>2
<1>5. Flow' => IF write_queue' # <<>> THEN n = write_queue'[1] + Len(write_queue')
               ELSE socket' = "up" => n = Len(wire') + 1
  <2>1. CASE ~stream
    <3>1. n = Len(wire) + 1
      BY <1>n, <1>p, <1>t, <2>1
    <3> QED BY <1>0, <1>n, <2>1, <3>1
  <2>2. CASE stream
    <3>1. Flow' => Flow
      BY <2>2, OthersFlow
    <3>2. socket' = "up" => socket = "up"
      BY <2>2, OthersFlow
    <3> QED BY <1>0, <3>1, <3>2, Zenon DEF Flow, NextQueued
  <2> QED BY <2>1, <2>2
<1>6. Len(wire') < n /\ n <= accepted' + 1
  <2>1. /\ n \in Nat /\ accepted \in Nat /\ accepted' \in Nat /\ accepted <= accepted'
        /\ n <= accepted + 1
    BY <1>2, <1>p, <1>t, Zenon
  <2>2. ASSUME NEW a \in Nat, NEW b \in Nat, NEW k \in Nat, a <= b, k <= a + 1 PROVE k <= b + 1
    BY <2>2
  <2>3. n <= accepted' + 1
    BY <2>1, <2>2, Zenon
  <2> QED BY <1>0, <1>p, <2>3
<1>7. \A i \in 1 .. Len(write_queue') : write_queue'[i] < n
  BY <1>0 DEF NextQueued
<1>8. \A m \in Msgs : m >= n => done'[m] \in {"none", "unset"}
  BY <1>2 DEF NextQueued
<1> QED BY <1>3, <1>4, <1>5, <1>6, <1>7, <1>8, Zenon DEF NextQueued, Flow

(* A posted message comes to the queue, or is refused: it is the next one. *)
LEMMA EnqueueQueue ==
  ASSUME WsType, InFlightInv, QueueInv, NEW n \in 1 .. MaxMsgs + 1, NextQueued(n), EnqueueWrite
  PROVE  n + 1 \in 1 .. MaxMsgs + 1 /\ QueueInv' /\ NextQueued(n + 1)'
<1>1. PICK m \in Msgs :
        /\ ioc # <<>> /\ Head(ioc) = PostedWrite(m) /\ ioc' = Tail(ioc)
        /\ UNCHANGED <<socket, open, wire>>
        /\ \/ /\ closing \/ ~open \/ ~stream
              /\ done' = Fail(done, {m}) /\ UNCHANGED <<write_queue, writing>>
           \/ /\ Flow /\ done' = done
              /\ write_queue = <<>> /\ write_queue' = <<m>>
              /\ writing' = <<[msg |-> m, taken |-> FALSE]>>
           \/ /\ Flow /\ done' = done /\ write_in_flight
              /\ write_queue' = Append(write_queue, m) /\ UNCHANGED writing
  BY EnqueueOutcome, Zenon DEF Flow
<1>2. UNCHANGED <<stream, closing, accepted>>
  BY Frames, Zenon DEF Writes
<1>t. /\ n \in Nat /\ m \in Nat /\ accepted \in Nat /\ accepted <= MaxMsgs /\ MaxMsgs \in Nat /\ Len(wire) \in Nat
      /\ ioc \in Seq(Handler)
  BY QueueTypes
<1>p. Len(wire) < n /\ n <= accepted + 1 /\ WritesFrom(ioc, n, accepted)
      /\ \A k \in Msgs : k >= n => done[k] \in {"none", "unset"}
      /\ \A i \in 1 .. Len(write_queue) : write_queue[i] < n
  BY DEF NextQueued
<1>w. \A i \in 1 .. Len(write_queue) : write_queue[i] < n + 1
  <2>1. ASSUME NEW a \in Nat, NEW b \in Nat, a < b PROVE a < b + 1
    BY <2>1
  <2>2. \A i \in 1 .. Len(write_queue) : write_queue[i] \in Nat
    BY QueueTypes
  <2>3. ASSUME NEW i \in 1 .. Len(write_queue) PROVE write_queue[i] < n + 1
    <3>1. n \in Nat
      BY <1>t, Zenon
    <3>2. write_queue[i] \in Nat
      BY <2>2
    <3>3. write_queue[i] < n
      BY Zenon DEF NextQueued
    <3> QED BY <2>1, <3>1, <3>2, <3>3
  <2> QED BY <2>3
<1>3. m = n /\ n <= accepted /\ WritesFrom(ioc', n + 1, accepted')
  BY <1>1, <1>2, <1>p, <1>t, RunNext
<1>4. n + 1 \in 1 .. MaxMsgs + 1 /\ Len(wire') < n + 1 /\ n + 1 <= accepted' + 1
  BY <1>1, <1>2, <1>3, <1>p, <1>t
<1>q. /\ \A i \in 1 .. Len(wire') : wire'[i] = i
      /\ \A k \in Msgs : /\ done[k] = "ok" => k <= Len(wire')
                         /\ done[k] = "TransportFailure" => k > Len(wire')
  BY <1>1 DEF QueueInv
<1>5. CASE /\ closing \/ ~open \/ ~stream
           /\ done' = Fail(done, {m}) /\ UNCHANGED <<write_queue, writing>>
  <2>1. \A k \in Msgs : k # n => done'[k] = done[k]
    BY <1>3, <1>5 DEF Fail
  <2>2. done'[n] = "TransportFailure" \/ done'[n] = done[n]
    BY <1>3, <1>5 DEF Fail
  <2>3. \A k \in Msgs : /\ done'[k] = "ok" => k <= Len(wire')
                        /\ done'[k] = "TransportFailure" => k > Len(wire')
    BY <1>1, <1>3, <1>p, <1>q, <1>t, <2>1, <2>2
  <2>4. \A i \in 1 .. Len(write_queue) : write_queue[i] \in Msgs /\ write_queue[i] # n
    BY <1>p, <1>t, QueueTypes
  <2>5. \A i \in 1 .. Len(write_queue') :
          /\ write_queue'[i] = write_queue'[1] + i - 1 /\ done'[write_queue'[i]] \in {"none", "unset"}
    BY <1>5, <2>1, <2>4 DEF QueueInv
  <2>6. write_queue' # <<>> =>
           IF writing' # <<>> /\ writing'[1].taken THEN write_queue'[1] = Len(wire')
           ELSE /\ write_queue'[1] > Len(wire')
                /\ writing' # <<>> /\ socket' = "up" => write_queue'[1] = Len(wire') + 1
    BY <1>1, <1>5, Zenon DEF QueueInv
  <2>7. QueueInv'
    BY <1>q, <2>3, <2>5, <2>6, Zenon DEF QueueInv
  <2>8. ~Flow'
    BY <1>1, <1>2, <1>5, Zenon DEF Flow
  <2>9. \A i \in 1 .. Len(write_queue') : write_queue'[i] < n + 1
    <3>1. \A i \in 1 .. Len(write_queue) : write_queue[i] < n + 1
      BY <1>w
    <3> QED BY <1>5, <3>1
  <2>10. \A k \in Msgs : k >= n + 1 => done'[k] \in {"none", "unset"}
    <3>1. \A k \in Msgs : k >= n + 1 => k >= n /\ k # n
      BY <1>t, QueueTypes
    <3> QED BY <1>p, <2>1, <3>1
  <2>11. NextQueued(n + 1)'
    BY <1>3, <1>4, <2>8, <2>9, <2>10, Zenon DEF NextQueued, Flow
  <2> QED BY <1>4, <2>7, <2>11
<1>6. CASE /\ Flow /\ done' = done
           /\ write_queue = <<>> /\ write_queue' = <<m>>
           /\ writing' = <<[msg |-> m, taken |-> FALSE]>>
  <2>1. Len(write_queue') = 1 /\ write_queue'[1] = n /\ write_queue' # <<>>
    BY <1>3, <1>6
  <2>2. writing' # <<>> /\ writing'[1].taken = FALSE
    BY <1>6
  <2>3. socket = "up" => n = Len(wire) + 1
    BY <1>6, Zenon DEF NextQueued, Flow
  <2>4. \A i \in 1 .. Len(write_queue') :
          /\ write_queue'[i] = write_queue'[1] + i - 1 /\ done'[write_queue'[i]] \in {"none", "unset"}
    <3>1. done[n] \in {"none", "unset"}
      BY <1>3, <1>p, <1>t
    <3> QED BY <1>6, <1>t, <2>1, <3>1
  <2>5. /\ write_queue'[1] > Len(wire') /\ ~writing'[1].taken
        /\ writing' # <<>> /\ socket' = "up" => write_queue'[1] = Len(wire') + 1
    BY <1>1, <1>p, <1>t, <2>1, <2>2, <2>3
  <2>6. QueueInv'
    BY <1>6, <1>q, <2>4, <2>5, Zenon DEF QueueInv
  <2>7. \A i \in 1 .. Len(write_queue') : write_queue'[i] < n + 1
    BY <1>t, <2>1
  <2>8. n + 1 = write_queue'[1] + Len(write_queue')
    BY <1>t, <2>1
  <2>9. \A k \in Msgs : k >= n + 1 => done'[k] \in {"none", "unset"}
    <3>1. \A k \in Msgs : k >= n + 1 => k >= n
      BY <1>t, QueueTypes
    <3> QED BY <1>6, <1>p, <3>1
  <2>10. NextQueued(n + 1)'
    BY <1>3, <1>4, <2>1, <2>7, <2>8, <2>9, Zenon DEF NextQueued
  <2> QED BY <1>4, <2>6, <2>10
<1>7. CASE /\ Flow /\ done' = done /\ write_in_flight
           /\ write_queue' = Append(write_queue, m) /\ UNCHANGED writing
  <2>0. io # "reporting_write"
    BY Zenon DEF EnqueueWrite, Run, Idle
  <2>1. write_queue # <<>>
    BY <1>7, <2>0, Zenon DEF InFlightInv
  <2>2. /\ write_queue \in Seq(Msgs) /\ Len(write_queue) \in Nat /\ 1 \in 1 .. Len(write_queue)
        /\ write_queue[1] \in Nat
    BY <2>1, QueueTypes
  <2>3. /\ Len(write_queue') = Len(write_queue) + 1 /\ write_queue'[Len(write_queue) + 1] = n
        /\ \A i \in 1 .. Len(write_queue) : write_queue'[i] = write_queue[i]
        /\ write_queue' # <<>>
    BY <1>3, <1>7, <2>2
  <2>4. n = write_queue[1] + Len(write_queue) /\ write_queue'[1] = write_queue[1]
    <3>1. n = write_queue[1] + Len(write_queue)
      BY <1>7, <2>1, Zenon DEF NextQueued, Flow
    <3> QED BY <2>2, <2>3, <3>1
  <2>5. done'[n] \in {"none", "unset"}
    BY <1>3, <1>7, <1>p, <1>t
  <2>6. ASSUME NEW i \in 1 .. Len(write_queue')
        PROVE  /\ write_queue'[i] = write_queue'[1] + i - 1 /\ done'[write_queue'[i]] \in {"none", "unset"}
               /\ write_queue'[i] < n + 1
    <3>1. CASE i = Len(write_queue) + 1
      BY <1>t, <2>2, <2>3, <2>4, <2>5, <3>1
    <3>2. CASE i # Len(write_queue) + 1
      <4>1. i \in 1 .. Len(write_queue) /\ write_queue'[i] = write_queue[i] /\ write_queue[i] \in Nat
        BY <2>2, <2>3, <3>2, QueueTypes
      <4>2. write_queue[i] = write_queue[1] + i - 1 /\ done[write_queue[i]] \in {"none", "unset"}
        BY <4>1 DEF QueueInv
      <4>3. write_queue[i] < n + 1
        BY <1>w, <4>1
      <4> QED BY <1>7, <2>4, <4>1, <4>2, <4>3
    <3> QED BY <3>1, <3>2
  <2>7. IF writing' # <<>> /\ writing'[1].taken THEN write_queue'[1] = Len(wire')
        ELSE /\ write_queue'[1] > Len(wire')
             /\ writing' # <<>> /\ socket' = "up" => write_queue'[1] = Len(wire') + 1
    BY <1>1, <1>7, <2>1, <2>4, Zenon DEF QueueInv
  <2>8. QueueInv'
    BY <1>7, <1>q, <2>6, <2>7, Zenon DEF QueueInv
  <2>9. n + 1 = write_queue'[1] + Len(write_queue')
    BY <2>2, <2>3, <2>4
  <2>10. \A k \in Msgs : k >= n + 1 => done'[k] \in {"none", "unset"}
    <3>1. \A k \in Msgs : k >= n + 1 => k >= n
      BY <1>t, QueueTypes
    <3> QED BY <1>7, <1>p, <3>1
  <2>11. NextQueued(n + 1)'
    BY <1>3, <1>4, <2>3, <2>6, <2>9, <2>10, Zenon DEF NextQueued
  <2> QED BY <1>4, <2>8, <2>11
<1> QED BY <1>1, <1>5, <1>6, <1>7

(* The socket takes the message after the last one it took.                *)
LEMMA WireQueue ==
  ASSUME WsType, InFlightInv, QueueInv, NEW n \in 1 .. MaxMsgs + 1, NextQueued(n), WireTakes
  PROVE  QueueInv' /\ NextQueued(n)'
<1>1. /\ writing # <<>> /\ ~Head(writing).taken /\ socket = "up"
      /\ writing' = [writing EXCEPT ![1].taken = TRUE] /\ wire' = Append(wire, Head(writing).msg)
      /\ UNCHANGED <<ioc, socket, open, write_queue, done, stream, closing, accepted>>
  BY Zenon DEF WireTakes, WriteUnchanged
<1>2. /\ writing \in Seq(WriteOp) /\ Head(writing) = writing[1] /\ writing[1] \in WriteOp
      /\ wire \in Seq(Msgs) /\ n \in Nat /\ Len(wire) \in Nat
  BY <1>1, SeqFront, QueueTypes
<1>3. write_queue # <<>> /\ writing[1].msg = write_queue[1]
  BY <1>1, Zenon DEF InFlightInv
<1>4. write_queue[1] = Len(wire) + 1
  BY <1>1, <1>2, <1>3, Zenon DEF QueueInv
<1>5. /\ Len(wire') = Len(wire) + 1 /\ wire'[Len(wire) + 1] = Len(wire) + 1
      /\ \A i \in 1 .. Len(wire) : wire'[i] = wire[i]
  <2>1. wire' = Append(wire, Len(wire) + 1)
    BY <1>1, <1>2, <1>3, <1>4
  <2>2. Len(wire) + 1 \in Msgs
    BY <1>3, <1>4, QueueTypes
  <2> QED BY <1>2, <2>1, <2>2
<1>6. writing' # <<>> /\ writing'[1].taken
  <2>1. [writing[1] EXCEPT !.taken = TRUE] \in WriteOp /\ [writing[1] EXCEPT !.taken = TRUE].taken = TRUE
    BY <1>2 DEF WriteOp
  <2>2. writing' = [writing EXCEPT ![1] = [writing[1] EXCEPT !.taken = TRUE]]
    BY <1>1
  <2> DEFINE e == [writing[1] EXCEPT !.taken = TRUE]
  <2> HIDE DEF e, WriteOp
  <2>3. Len(writing') = Len(writing) /\ Len(writing) >= 1 /\ writing'[1] = e
    <3>1. e \in WriteOp /\ writing' = [writing EXCEPT ![1] = e]
      BY <2>1, <2>2 DEF e
    <3>2. Len(writing') = Len(writing) /\ Len(writing) >= 1 /\ Len(writing) \in Nat
      BY <1>1, <1>2, <3>1, SeqFront
    <3>3. 1 \in DOMAIN writing
      BY <1>2, <3>2
    <3> QED BY <1>2, <3>1, <3>2, <3>3
  <2>4. writing' # <<>>
    BY <1>1, <1>2, <2>3
  <2> QED BY <2>1, <2>3, <2>4 DEF e
<1>7. \A i \in 1 .. Len(wire') : wire'[i] = i
  <2>1. \A i \in 1 .. Len(wire) : wire[i] = i
    BY DEF QueueInv
  <2> QED BY <1>2, <1>5, <2>1
<1>8. \A m \in Msgs : /\ done'[m] = "ok" => m <= Len(wire')
                      /\ done'[m] = "TransportFailure" => m > Len(wire')
  <2>1. \A m \in Msgs : m \in Nat
    BY QueueTypes
  <2>2. done[Len(wire) + 1] \in {"none", "unset"}
    BY <1>3, <1>4, QueueTypes DEF QueueInv
  <2>3. \A m \in Msgs : /\ done[m] = "ok" => m <= Len(wire)
                        /\ done[m] = "TransportFailure" => m > Len(wire)
    BY DEF QueueInv
  <2> QED BY <1>1, <1>2, <1>5, <2>1, <2>2, <2>3
<1>9. \A i \in 1 .. Len(write_queue') :
        /\ write_queue'[i] = write_queue'[1] + i - 1 /\ done'[write_queue'[i]] \in {"none", "unset"}
  BY <1>1 DEF QueueInv
<1>10. write_queue'[1] = Len(wire')
  BY <1>1, <1>4, <1>5
<1>11. QueueInv'
  BY <1>6, <1>7, <1>8, <1>9, <1>10, Zenon DEF QueueInv
<1>12. Len(wire') < n
  <2>1. write_queue[1] < n
    BY <1>3, QueueTypes DEF NextQueued
  <2> QED BY <1>1, <1>10, <2>1
<1>13. write_queue' # <<>>
  BY <1>1, <1>3
<1>14. NextQueued(n)'
  BY <1>1, <1>3, <1>12, <1>13, Zenon DEF NextQueued
<1> QED BY <1>11, <1>14

(* No promise says what the wire does not.                                 *)
Truthful(dn) ==
  \A m \in Msgs : /\ dn[m] = "ok" => m <= Len(wire)
                  /\ dn[m] = "TransportFailure" => m > Len(wire)

(* Going on with a queue whose messages the socket has not taken.          *)
LEMMA GoesOnQueue ==
  ASSUME WsType, QueueInv, NEW n \in 1 .. MaxMsgs + 1, NextQueued(n),
         NEW q \in Seq(Msgs), NEW dn \in [Msgs -> Results \cup {"none", "unset"}], Truthful(dn),
         \A i \in 1 .. Len(q) : /\ q[i] = q[1] + i - 1 /\ dn[q[i]] \in {"none", "unset"}
                                /\ q[i] > Len(wire) /\ q[i] < n,
         \A m \in Msgs : m >= n => dn[m] \in {"none", "unset"},
         Flow => IF q # <<>> THEN n = q[1] + Len(q) ELSE socket = "up" => n = Len(wire) + 1,
         q # <<>> /\ open /\ socket = "up" => q[1] = Len(wire) + 1,
         GoesOn(q, dn), UNCHANGED <<wire, socket, open, stream, closing, ioc, accepted>>
  PROVE  QueueInv' /\ NextQueued(n)'
<1>0. n \in Nat /\ Len(wire) \in Nat
  BY QueueTypes
<1>1. \A i \in 1 .. Len(wire') : wire'[i] = i
  BY DEF QueueInv
<1>2. Len(wire') < n /\ n <= accepted' + 1 /\ WritesFrom(ioc', n, accepted')
  BY DEF NextQueued
<1>3. Flow' => Flow
  BY Zenon DEF Flow
<1>4. CASE write_queue' = <<>> /\ writing' = <<>> /\ q = <<>> /\ done' = dn
  <2>1. \A i \in 1 .. Len(write_queue') : FALSE
    BY <1>4
  <2>2. QueueInv'
    BY <1>1, <1>4, <2>1, Zenon DEF QueueInv, Truthful
  <2>3. NextQueued(n)'
    BY <1>2, <1>3, <1>4, <2>1, Zenon DEF NextQueued, Flow
  <2> QED BY <2>2, <2>3
<1>5. CASE /\ write_queue' = <<>> /\ writing' = <<>>
           /\ q # <<>> /\ ~(stream /\ open) /\ done' = Fail(dn, Elements(q))
  <2>1. \A i \in 1 .. Len(write_queue') : FALSE
    BY <1>5
  <2>2. ASSUME NEW m \in Msgs
        PROVE  \/ done'[m] = dn[m]
               \/ done'[m] = "TransportFailure" /\ m > Len(wire) /\ ~(m >= n)
    <3>1. CASE m \in Elements(q)
      <4>1. PICK i \in 1 .. Len(q) : m = q[i]
        BY <3>1 DEF Elements
      <4>2. q[i] \in Msgs /\ q[i] > Len(wire) /\ q[i] < n
        BY <4>1
      <4>3. ~(q[i] >= n)
        <5>1. ASSUME NEW a \in Nat, NEW b \in Nat, a < b PROVE ~(a >= b)
          BY <5>1
        <5>2. q[i] \in Nat
          BY <4>2, QueueTypes
        <5> QED BY <1>0, <4>2, <5>1, <5>2
      <4>4. done'[m] = dn[m] \/ done'[m] = "TransportFailure"
        BY <1>5 DEF Fail
      <4> QED BY <4>1, <4>2, <4>3, <4>4
    <3>2. CASE m \notin Elements(q)
      BY <1>5, <3>2 DEF Fail
    <3> QED BY <3>1, <3>2
  <2>3. \A m \in Msgs : /\ done'[m] = "ok" => m <= Len(wire')
                        /\ done'[m] = "TransportFailure" => m > Len(wire')
    BY <2>2 DEF Truthful
  <2>4. \A m \in Msgs : m >= n => done'[m] \in {"none", "unset"}
    BY <2>2
  <2>5. QueueInv'
    BY <1>1, <1>5, <2>1, <2>3, Zenon DEF QueueInv
  <2>6. ~Flow'
    BY <1>3, <1>5, Zenon DEF Flow
  <2>7. NextQueued(n)'
    BY <1>2, <2>1, <2>4, <2>6, Zenon DEF NextQueued, Flow
  <2> QED BY <2>5, <2>7
<1>6. CASE /\ q # <<>> /\ stream /\ open /\ done' = dn /\ write_queue' = q
           /\ writing' = <<[msg |-> q[1], taken |-> FALSE]>>
  <2>1. writing' # <<>> /\ ~writing'[1].taken
    BY <1>6
  <2>2. 1 \in 1 .. Len(q)
    BY <1>6
  <2>3. q[1] > Len(wire)
    BY <2>2
  <2>4. socket' = "up" => q[1] = Len(wire') + 1
    BY <1>6
  <2>5. QueueInv'
    BY <1>1, <1>6, <2>1, <2>3, <2>4, Zenon DEF QueueInv, Truthful
  <2>6. Flow' => n = write_queue'[1] + Len(write_queue')
    BY <1>3, <1>6, Zenon
  <2>7. NextQueued(n)'
    BY <1>2, <1>6, <2>6, Zenon DEF NextQueued, Flow
  <2> QED BY <2>5, <2>7
<1> QED BY <1>4, <1>5, <1>6, Zenon DEF GoesOn

(* The queue without its front.                                            *)
LEMMA QueueTail ==
  ASSUME WsType, QueueInv, write_queue # <<>>, NEW n \in 1 .. MaxMsgs + 1, NextQueued(n), NEW q,
         q = Tail(write_queue)
  PROVE  /\ q \in Seq(Msgs) /\ Len(q) = Len(write_queue) - 1 /\ write_queue[1] \in Msgs
         /\ q # <<>> => 1 \in 1 .. Len(q)
         /\ \A i \in 1 .. Len(q) :
              /\ q[i] \in Msgs /\ q[i] = q[1] + i - 1 /\ done[q[i]] \in {"none", "unset"} /\ q[i] < n
              /\ q[i] > write_queue[1] /\ q[i] # write_queue[1] /\ q[1] = write_queue[1] + 1
<1>1. /\ q \in Seq(Msgs) /\ Len(q) = Len(write_queue) - 1 /\ Len(write_queue) \in Nat
      /\ \A i \in 1 .. Len(write_queue) - 1 : q[i] = write_queue[i + 1]
  BY SeqFront, QueueTypes
<1>2. write_queue[1] \in Msgs /\ write_queue[1] \in Nat
  BY QueueTypes
<1>3. q # <<>> => 1 \in 1 .. Len(q)
  BY <1>1
<1>4. ASSUME NEW i \in 1 .. Len(q)
      PROVE  /\ q[i] \in Msgs /\ q[i] = write_queue[1] + i /\ done[q[i]] \in {"none", "unset"} /\ q[i] < n
  <2>1. i + 1 \in 1 .. Len(write_queue) /\ q[i] = write_queue[i + 1] /\ i \in Nat
    BY <1>1
  <2>2. write_queue[i + 1] = write_queue[1] + (i + 1) - 1 /\ done[write_queue[i + 1]] \in {"none", "unset"}
    BY <2>1, Zenon DEF QueueInv
  <2>3. write_queue[i + 1] < n
    BY <2>1, Zenon DEF NextQueued
  <2>4. write_queue[i + 1] \in Msgs
    BY <2>1, QueueTypes
  <2> QED BY <1>2, <2>1, <2>2, <2>3, <2>4
<1>5. ASSUME NEW i \in 1 .. Len(q)
      PROVE  /\ q[i] = q[1] + i - 1 /\ q[i] > write_queue[1] /\ q[i] # write_queue[1]
             /\ q[1] = write_queue[1] + 1
  <2>1. 1 \in 1 .. Len(q) /\ i \in Nat /\ i >= 1
    BY <1>1
  <2>2. q[1] = write_queue[1] + 1 /\ q[i] = write_queue[1] + i
    BY <1>4, <2>1
  <2> QED BY <1>2, <2>1, <2>2
<1> QED BY <1>1, <1>2, <1>3, <1>4, <1>5

(* After a failed write the rest of the queue is failed.                   *)
LEMMA ReportedQueue ==
  ASSUME WsType, InFlightInv, QueueInv, NEW n \in 1 .. MaxMsgs + 1, NextQueued(n), ReportedWrite
  PROVE  QueueInv' /\ NextQueued(n)'
<1>1. /\ writing = <<>> /\ ~open /\ GoesOn(write_queue, done) /\ UNCHANGED <<ioc, socket, wire, open>>
  BY ReportedOutcome
<1>2. UNCHANGED <<stream, closing, accepted>>
  BY Frames, Zenon DEF Writes
<1>3. ~Flow
  BY <1>1, Zenon DEF Flow
<1>4. Truthful(done)
  BY Zenon DEF QueueInv, Truthful
<1>5. \A i \in 1 .. Len(write_queue) :
        /\ write_queue[i] = write_queue[1] + i - 1 /\ done[write_queue[i]] \in {"none", "unset"}
        /\ write_queue[i] > Len(wire) /\ write_queue[i] < n
  <2> SUFFICES ASSUME NEW i \in 1 .. Len(write_queue)
               PROVE  /\ write_queue[i] = write_queue[1] + i - 1 /\ done[write_queue[i]] \in {"none", "unset"}
                      /\ write_queue[i] > Len(wire) /\ write_queue[i] < n
    OBVIOUS
  <2>1. write_queue[i] = write_queue[1] + i - 1 /\ done[write_queue[i]] \in {"none", "unset"}
    BY Zenon DEF QueueInv
  <2>2. write_queue[i] < n
    BY Zenon DEF NextQueued
  <2>3. /\ write_queue # <<>> /\ write_queue[1] \in Nat /\ Len(wire) \in Nat /\ i \in Nat /\ i >= 1
        /\ write_queue[i] \in Nat
    BY QueueTypes
  <2>4. write_queue[1] > Len(wire)
    BY <1>1, <2>3, Zenon DEF QueueInv
  <2>5. write_queue[i] > Len(wire)
    BY <2>1, <2>3, <2>4
  <2> QED BY <2>1, <2>2, <2>5
<1>6. \A m \in Msgs : m >= n => done[m] \in {"none", "unset"}
  BY Zenon DEF NextQueued
<1>7. write_queue \in Seq(Msgs) /\ done \in [Msgs -> Results \cup {"none", "unset"}]
  BY QueueTypes
<1> QED BY <1>1, <1>2, <1>3, <1>4, <1>5, <1>6, <1>7, GoesOnQueue

(* What a promise that is set says of the front of the queue.              *)
LEMMA AnswerTruthful ==
  ASSUME WsType, QueueInv, InFlightInv, write_queue # <<>>, Len(writing) = 1, NEW dn,
         Answered(dn, write_queue[1], writing[1].taken)
  PROVE  /\ dn \in [Msgs -> Results \cup {"none", "unset"}] /\ Truthful(dn)
         /\ \A k \in Msgs : k # write_queue[1] => dn[k] = done[k]
<1> DEFINE m == write_queue[1]
           taken == writing[1].taken
<1>1. m \in Msgs /\ m \in Nat /\ Len(wire) \in Nat /\ done \in [Msgs -> Results \cup {"none", "unset"}]
  BY QueueTypes
<1>2. writing # <<>>
  OBVIOUS
<1>3. IF taken THEN m = Len(wire) ELSE m > Len(wire)
  BY <1>2, Zenon DEF QueueInv
<1>4. Truthful(done)
  BY Zenon DEF QueueInv, Truthful
<1> HIDE DEF m, taken
<1>5. WriteResult(m, taken) \in Results /\ (taken => WriteResult(m, taken) # "TransportFailure")
      /\ (~taken => WriteResult(m, taken) # "ok")
  BY DEF WriteResult, Results
<1>6. CASE dn = done
  BY <1>1, <1>4, <1>6
<1>7. CASE dn = [done EXCEPT ![m] = WriteResult(m, taken)]
  <2>1. dn \in [Msgs -> Results \cup {"none", "unset"}] /\ dn[m] = WriteResult(m, taken)
        /\ \A k \in Msgs : k # m => dn[k] = done[k]
    BY <1>1, <1>5, <1>7
  <2>2. /\ dn[m] = "ok" => m <= Len(wire)
        /\ dn[m] = "TransportFailure" => m > Len(wire)
    BY <1>1, <1>3, <1>5, <2>1
  <2>3. Truthful(dn)
    BY <1>4, <2>1, <2>2 DEF Truthful
  <2> QED BY <2>1, <2>3 DEF m
<1> QED BY <1>6, <1>7 DEF Answered, m, taken

(* A write that is over takes its message off the queue.                   *)
LEMMA CompleteQueue ==
  ASSUME WsType, InFlightInv, QueueInv, NEW n \in 1 .. MaxMsgs + 1, NextQueued(n), WriteCompletes
  PROVE  QueueInv' /\ NextQueued(n)'
<1> DEFINE q == Tail(write_queue)
           m == write_queue[1]
           taken == writing[1].taken
<1>1. /\ write_queue # <<>> /\ Len(writing) = 1 /\ (taken \/ socket # "up")
      /\ UNCHANGED <<ioc, socket, wire>>
      /\ \/ /\ ~taken /\ open' = FALSE /\ writing' = <<>> /\ write_queue' = q /\ UNCHANGED done
         \/ UNCHANGED open /\ \E dn : Answered(dn, m, taken) /\ GoesOn(q, dn)
  BY CompleteOutcome, Zenon
<1>2. UNCHANGED <<stream, closing, accepted>>
  BY Frames, Zenon DEF Writes
<1>3. /\ q \in Seq(Msgs) /\ Len(q) = Len(write_queue) - 1 /\ m \in Msgs
      /\ q # <<>> => 1 \in 1 .. Len(q)
      /\ \A i \in 1 .. Len(q) :
              /\ q[i] \in Msgs /\ q[i] = q[1] + i - 1 /\ done[q[i]] \in {"none", "unset"} /\ q[i] < n
              /\ q[i] > m /\ q[i] # m /\ q[1] = m + 1
  BY <1>1, QueueTail
<1>4. IF taken THEN m = Len(wire) ELSE m > Len(wire)
  <2>1. writing # <<>>
    BY <1>1
  <2> QED BY <1>1, <2>1, Zenon DEF QueueInv
<1>t. n \in Nat /\ m \in Nat /\ Len(wire) \in Nat /\ Len(write_queue) \in Nat
  BY <1>3, QueueTypes
<1>5. \A i \in 1 .. Len(q) : q[i] > Len(wire)
  <2>1. \A i \in 1 .. Len(q) : q[i] > m /\ q[i] \in Nat
    BY <1>3, QueueTypes
  <2>2. m >= Len(wire)
    BY <1>4, <1>t
  <2> HIDE DEF q, m
  <2> QED BY <1>t, <2>1, <2>2
<1>6. m < n
  BY <1>1, QueueTypes DEF NextQueued
<1>7. CASE ~taken /\ open' = FALSE /\ writing' = <<>> /\ write_queue' = q /\ UNCHANGED done
  <2>1. \A i \in 1 .. Len(wire') : wire'[i] = i
    BY <1>1 DEF QueueInv
  <2>2. \A k \in Msgs : /\ done'[k] = "ok" => k <= Len(wire')
                        /\ done'[k] = "TransportFailure" => k > Len(wire')
    BY <1>1, <1>7 DEF QueueInv
  <2>3. \A i \in 1 .. Len(write_queue') :
          /\ write_queue'[i] = write_queue'[1] + i - 1 /\ done'[write_queue'[i]] \in {"none", "unset"}
          /\ write_queue'[i] < n
    BY <1>3, <1>7, Zenon
  <2>4. write_queue' # <<>> => write_queue'[1] > Len(wire')
    BY <1>1, <1>3, <1>5, <1>7, Zenon
  <2>5. QueueInv'
    BY <1>7, <2>1, <2>2, <2>3, <2>4, Zenon DEF QueueInv
  <2>6. Len(wire') < n /\ n <= accepted' + 1 /\ WritesFrom(ioc', n, accepted')
    BY <1>1, <1>2, Zenon DEF NextQueued
  <2>7. \A k \in Msgs : k >= n => done'[k] \in {"none", "unset"}
    BY <1>7, Zenon DEF NextQueued
  <2>8. NextQueued(n)'
    BY <1>7, <2>3, <2>6, <2>7, Zenon DEF NextQueued
  <2> QED BY <2>5, <2>8
<1>8. ASSUME UNCHANGED open, NEW dn, Answered(dn, m, taken), GoesOn(q, dn)
      PROVE  QueueInv' /\ NextQueued(n)'
  <2>1. /\ dn \in [Msgs -> Results \cup {"none", "unset"}] /\ Truthful(dn)
        /\ \A k \in Msgs : k # m => dn[k] = done[k]
    BY <1>1, <1>8, AnswerTruthful
  <2>2. \A i \in 1 .. Len(q) : /\ q[i] = q[1] + i - 1 /\ dn[q[i]] \in {"none", "unset"}
                               /\ q[i] > Len(wire) /\ q[i] < n
    BY <1>3, <1>5, <2>1, Zenon
  <2>3. \A k \in Msgs : k >= n => dn[k] \in {"none", "unset"}
    <3>1. \A k \in Msgs : k >= n => k # m
      BY <1>6, <1>t, QueueTypes
    <3>2. \A k \in Msgs : k >= n => done[k] \in {"none", "unset"}
      BY Zenon DEF NextQueued
    <3> QED BY <2>1, <3>1, <3>2
  <2>4. Flow => n = m + Len(write_queue)
    BY <1>1, Zenon DEF NextQueued, Flow
  <2>5. Flow => IF q # <<>> THEN n = q[1] + Len(q) ELSE socket = "up" => n = Len(wire) + 1
    <3> HIDE DEF q, m, taken
    <3>1. CASE q # <<>>
      <4>1. q[1] = m + 1 /\ Len(q) = Len(write_queue) - 1
        BY <1>3, <3>1, Zenon
      <4>2. m + Len(write_queue) = q[1] + Len(q)
        BY <1>t, <4>1
      <4> QED BY <2>4, <3>1, <4>2, Zenon
    <3>2. CASE q = <<>>
      <4>1. Len(q) = 0
        BY <3>2
      <4>2. Len(write_queue) = 1
        BY <1>3, <1>t, <4>1
      <4>3. socket = "up" => m = Len(wire)
        BY <1>1, <1>4, Zenon
      <4> QED BY <2>4, <3>2, <4>2, <4>3
    <3> QED BY <3>1, <3>2
  <2>6. q # <<>> /\ open /\ socket = "up" => q[1] = Len(wire) + 1
    BY <1>1, <1>3, <1>4, Zenon
  <2> HIDE DEF q, m, taken
  <2> QED BY <1>1, <1>2, <1>3, <1>8, <2>1, <2>2, <2>3, <2>5, <2>6, GoesOnQueue
<1> QED BY <1>1, <1>7, <1>8

-----------------------------------------------------------------------------
(* The inductive invariant holds at the start.                             *)
LEMMA InitWs == Init => WsInv
<1> SUFFICES ASSUME Init PROVE WsInv
  OBVIOUS
<1>1. /\ MaxMsgs \in Nat /\ 1 \in 1 .. MaxMsgs + 1 /\ 0 \in 0 .. MaxMsgs
      /\ \A S : <<>> \in Seq(S) /\ Len(<<>>) = 0
      /\ \A i \in 1 .. Len(<<>>) : FALSE
  BY WsAssumption
<1>2. WsType
  <2>1. OwnerType
    BY <1>1 DEF Init, OwnerType
  <2>2. AttemptType
    BY DEF Init, AttemptType
  <2>3. FlagType
    BY Zenon DEF Init, FlagType
  <2>4. IoType
    BY <1>1 DEF Init, IoType
  <2>5. WriteType
    BY <1>1 DEF Init, WriteType
  <2> QED BY <2>1, <2>2, <2>3, <2>4, <2>5, TypeSplit
<1>3. ConnectInv
  BY <1>1, Zenon DEF Init, ConnectInv
<1>4. ReadInv /\ CloseInv
  <2>1. ~Holds("read") /\ ~Holds("close")
    BY <1>1 DEF Init, Holds
  <2>2. reading <= 1 /\ close_ops <= 1 /\ ~(close_ops > 0)
    BY DEF Init
  <2> QED BY <1>1, <2>1, <2>2, Zenon DEF Init, ReadInv, CloseInv
<1>5. ReportInv
  BY DEF Init, ReportInv
<1>6. InFlightInv
  BY DEF Init, InFlightInv
<1>7. \A m \in Msgs : done[m] = "none"
  BY DEF Init
<1>8. QueueInv
  <2>1. \A i \in 1 .. Len(wire) : FALSE
    BY DEF Init
  <2>2. \A i \in 1 .. Len(write_queue) : FALSE
    BY DEF Init
  <2>3. \A m \in Msgs : done[m] # "ok" /\ done[m] # "TransportFailure"
    BY <1>7
  <2> QED BY <2>1, <2>2, <2>3, Zenon DEF Init, QueueInv
<1>9. NextQueued(1)
  <2>1. \A m : m \notin 1 .. 0
    OBVIOUS
  <2>2. WritesFrom(ioc, 1, accepted)
    BY <1>1, <2>1, Zenon DEF Init, WritesFrom
  <2>3. Len(wire) < 1 /\ 1 <= accepted + 1
    BY DEF Init
  <2>4. \A m \in Msgs : m >= 1 => done[m] \in {"none", "unset"}
    BY <1>7
  <2>5. \A i \in 1 .. Len(write_queue) : FALSE
    BY DEF Init
  <2> QED BY <2>2, <2>3, <2>4, <2>5, Zenon DEF Init, NextQueued
<1> QED BY <1>1, <1>2, <1>3, <1>4, <1>5, <1>6, <1>8, <1>9 DEF WsInv

(* Every step keeps it.                                                    *)
LEMMA WsInductive == WsInv /\ [Next]_vars => WsInv'
<1> SUFFICES ASSUME WsInv, [Next]_vars PROVE WsInv'
  OBVIOUS
<1>0. /\ WsType /\ ConnectInv /\ ReadInv /\ CloseInv /\ ReportInv /\ InFlightInv /\ QueueInv
      /\ \E n \in 1 .. MaxMsgs + 1 : NextQueued(n)
  BY DEF WsInv
<1>1. WsType' /\ ConnectInv' /\ ReadInv' /\ CloseInv' /\ ReportInv' /\ InFlightInv'
  BY <1>0, TypeInductive, ConnectInductive, ReadInductive, CloseInductive, ReportInductive, InFlightInductive
<1>2. PICK n \in 1 .. MaxMsgs + 1 : NextQueued(n)
  BY <1>0
<1>3. QueueInv' /\ \E k \in 1 .. MaxMsgs + 1 : NextQueued(k)'
  <2>1. CASE EnqueueWrite
    BY <1>0, <1>2, <2>1, EnqueueQueue
  <2>2. CASE WireTakes
    BY <1>0, <1>2, <2>2, WireQueue
  <2>3. CASE WriteCompletes
    BY <1>0, <1>2, <2>3, CompleteQueue
  <2>4. CASE ReportedWrite
    BY <1>0, <1>2, <2>4, ReportedQueue
  <2>5. CASE ~EnqueueWrite /\ ~WireTakes /\ ~WriteCompletes /\ ~ReportedWrite
    BY <1>0, <1>2, <2>5, OthersQueue
  <2> QED BY <2>1, <2>2, <2>3, <2>4, <2>5
<1> QED BY <1>1, <1>3, Zenon DEF WsInv

(* For every number of messages and reads: in every state of the client,   *)
(* between any two steps of its two threads, the attempt, the read loop,   *)
(* the write queue, Close and the reports stand as WsInv says.             *)
THEOREM WsCorrect == Spec => []WsInv
  BY InitWs, WsInductive, PTL DEF Spec

(* For every number of messages and reads: one write, one read and one     *)
(* close at a time, and no write after the close (ws_client.cpp).          *)
THEOREM OneOperationOfEach == Spec => []OneOfEach
<1>1. WsInv => OneOfEach
  <2> SUFFICES ASSUME WsInv PROVE OneOfEach
    OBVIOUS
  <2>1. ReadInv /\ CloseInv /\ InFlightInv
    BY DEF WsInv
  <2>2. Len(writing) <= 1
    <3>1. CASE writing = <<>>
      BY <3>1
    <3>2. CASE writing # <<>>
      <4>1. Len(writing) = 1
        BY <2>1, <3>2, Zenon DEF InFlightInv
      <4> QED BY <4>1
    <3> QED BY <3>1, <3>2
  <2>3. close_ops > 0 => writing = <<>> /\ write_queue = <<>>
    BY <2>1, Zenon DEF CloseInv, InFlightInv
  <2> QED BY <2>1, <2>2, <2>3, Zenon DEF OneOfEach, ReadInv, CloseInv
<1> QED BY <1>1, WsCorrect, PTL

(* For every number of messages: the socket takes the accepted messages in *)
(* order from the first on, none left out and none twice.                  *)
THEOREM OrderKept == Spec => []WrittenInOrder
<1>1. WsInv => WrittenInOrder
  <2> SUFFICES ASSUME WsInv PROVE WrittenInOrder
    OBVIOUS
  <2>1. WsType /\ QueueInv
    BY DEF WsInv
  <2>2. PICK n \in 1 .. MaxMsgs + 1 : NextQueued(n)
    BY DEF WsInv
  <2>3. n \in Nat /\ Len(wire) \in Nat /\ accepted \in Nat
    BY <2>1, QueueTypes
  <2>4. Len(wire) < n /\ n <= accepted + 1
    BY <2>2 DEF NextQueued
  <2>5. Len(wire) <= accepted
    BY <2>3, <2>4
  <2>6. \A i \in 1 .. Len(wire) : i <= accepted
    BY <2>3, <2>5
  <2> QED BY <2>1, <2>6 DEF QueueInv, WrittenInOrder
<1> QED BY <1>1, WsCorrect, PTL

(* For every number of messages and reads: on_close is called at most      *)
(* once, at most one message comes after it, and none after the destructor.*)
THEOREM EndReportedOnce == Spec => []EndsOnce
<1>1. WsInv => EndsOnce
  <2> SUFFICES ASSUME WsInv PROVE EndsOnce
    OBVIOUS
  <2>1. ReportInv /\ reading \in Nat /\ late \in Nat
    BY TypeSplit DEF WsInv, IoType
  <2> QED BY <2>1 DEF ReportInv, EndsOnce
<1> QED BY <1>1, WsCorrect, PTL

(* A client whose Connect has not returned a stream is not open and calls  *)
(* nothing back, however its attempt goes on.                              *)
THEOREM OnlyConnect == Spec => []OnlyConnectOpens
<1>1. WsInv => OnlyConnectOpens
  BY Zenon DEF WsInv, ConnectInv, OnlyConnectOpens
<1> QED BY <1>1, WsCorrect, PTL

(* For every number of messages: a Send that returns has written its       *)
(* message, one that fails with TransportFailure has not and never will.   *)
THEOREM SendTruthful == Spec => []SendTellsTruth
<1>1. WsInv => SendTellsTruth
  <2> SUFFICES ASSUME WsInv, NEW m \in Msgs
               PROVE  /\ done[m] = "ok" => m \in Elements(wire)
                      /\ done[m] = "TransportFailure" => m \notin Elements(wire)
    BY DEF SendTellsTruth
  <2>1. WsType /\ QueueInv
    BY DEF WsInv
  <2>2. m \in Nat /\ m >= 1 /\ Len(wire) \in Nat
    BY <2>1, QueueTypes
  <2>3. \A i \in 1 .. Len(wire) : wire[i] = i
    BY <2>1, Zenon DEF QueueInv
  <2>4. m \in Elements(wire) <=> m <= Len(wire)
    BY <2>2, <2>3 DEF Elements
  <2>5. /\ done[m] = "ok" => m <= Len(wire)
        /\ done[m] = "TransportFailure" => m > Len(wire)
    BY <2>1, Zenon DEF QueueInv
  <2> QED BY <2>2, <2>4, <2>5
<1> QED BY <1>1, WsCorrect, PTL
-----------------------------------------------------------------------------
(* WsClient implements Socket.                                             *)

(* What the refinement needs besides WsInv: a client being destroyed is    *)
(* not open, its socket is closed before the io thread is stopped, and     *)
(* messages not yet accepted have no promise.                              *)
OwnerInv ==
  /\ owner \in {"destroying", "stopping", "joining", "gone"} => ~open
  /\ owner \in {"stopping", "joining", "gone"} /\ stream => socket # "up"
  /\ \A m \in Msgs : m > accepted => done[m] = "none"

(* A promise is set once, with a result.                                   *)
PromisesSet == \A m \in Msgs : done'[m] = done[m] \/ (done[m] = "unset" /\ done'[m] \in Results)

LEMMA FailSets ==
  ASSUME NEW dn \in [Msgs -> Results \cup {"none", "unset"}], NEW ms,
         \A m \in Msgs : dn[m] = done[m] \/ (done[m] = "unset" /\ dn[m] \in Results)
  PROVE  \A m \in Msgs : \/ Fail(dn, ms)[m] = done[m]
                         \/ done[m] = "unset" /\ Fail(dn, ms)[m] \in Results
<1> SUFFICES ASSUME NEW m \in Msgs
             PROVE  \/ Fail(dn, ms)[m] = done[m]
                    \/ done[m] = "unset" /\ Fail(dn, ms)[m] \in Results
  OBVIOUS
<1>1. Fail(dn, ms)[m] = IF m \in ms /\ dn[m] = "unset" THEN "TransportFailure" ELSE dn[m]
  BY DEF Fail
<1>2. "TransportFailure" \in Results /\ "unset" \notin Results
  BY DEF Results
<1>3. CASE m \in ms /\ dn[m] = "unset"
  BY <1>1, <1>2, <1>3
<1>4. CASE ~ (m \in ms /\ dn[m] = "unset")
  BY <1>1, <1>4
<1> QED BY <1>3, <1>4

LEMMA GoesOnSets ==
  ASSUME NEW q, NEW dn \in [Msgs -> Results \cup {"none", "unset"}], GoesOn(q, dn),
         \A m \in Msgs : dn[m] = done[m] \/ (done[m] = "unset" /\ dn[m] \in Results)
  PROVE  PromisesSet
<1>1. CASE done' = dn
  BY <1>1 DEF PromisesSet
<1>2. CASE done' = Fail(dn, Elements(q))
  BY <1>2, FailSets DEF PromisesSet
<1> QED BY <1>1, <1>2, Zenon DEF GoesOn

(* The steps that set promises, and that they set no other.                *)
LEMMA StepSets ==
  ASSUME WsType, InFlightInv, EnqueueWrite \/ WriteCompletes \/ ReportedWrite
  PROVE  PromisesSet /\ UNCHANGED <<wire, accepted, reads, late, stream, owner>>
<1>1. UNCHANGED <<accepted, reads, late, stream, owner>>
  BY Frames, Zenon DEF Writes
<1>2. done \in [Msgs -> Results \cup {"none", "unset"}]
  BY QueueTypes
<1>3. CASE EnqueueWrite
  <2>1. PICK m \in Msgs : (done' = Fail(done, {m}) \/ done' = done) /\ wire' = wire
    BY <1>3, EnqueueOutcome, Zenon
  <2>2. PromisesSet
    BY <1>2, <2>1, FailSets DEF PromisesSet
  <2> QED BY <1>1, <2>1, <2>2
<1>4. CASE WriteCompletes
  <2>1. write_queue # <<>> /\ wire' = wire
        /\ (done' = done \/ \E dn : /\ Answered(dn, write_queue[1], writing[1].taken)
                                    /\ GoesOn(Tail(write_queue), dn))
    BY <1>4, CompleteOutcome, Zenon
  <2>2. CASE done' = done
    BY <1>1, <2>1, <2>2 DEF PromisesSet
  <2>3. CASE \E dn : /\ Answered(dn, write_queue[1], writing[1].taken)
                     /\ GoesOn(Tail(write_queue), dn)
    <3> DEFINE m == write_queue[1]
               taken == writing[1].taken
    <3>1. PICK dn : Answered(dn, m, taken) /\ GoesOn(Tail(write_queue), dn)
      BY <2>3
    <3>2. m \in Msgs /\ WriteResult(m, taken) \in Results
      <4>1. m \in Msgs
        BY <2>1, QueueTypes
      <4>2. WriteResult(m, taken) \in {"Timeout", "ok", "TransportFailure"}
        BY Zenon DEF WriteResult
      <4> QED BY <4>1, <4>2 DEF Results
    <3> HIDE DEF m, taken
    <3>3. /\ dn \in [Msgs -> Results \cup {"none", "unset"}]
          /\ \A k \in Msgs : dn[k] = done[k] \/ (done[k] = "unset" /\ dn[k] \in Results)
      <4>1. CASE dn = done
        BY <1>2, <4>1
      <4>2. CASE done[m] = "unset" /\ dn = [done EXCEPT ![m] = WriteResult(m, taken)]
        <5> DEFINE r == WriteResult(m, taken)
        <5> HIDE DEF r
        <5>1. r \in Results /\ dn = [done EXCEPT ![m] = r]
          BY <3>2, <4>2 DEF r
        <5> QED BY <1>2, <3>2, <4>2, <5>1
      <4> QED BY <3>1, <4>1, <4>2 DEF Answered
    <3>4. PromisesSet
      BY <3>1, <3>3, GoesOnSets
    <3> QED BY <1>1, <2>1, <3>4
  <2> QED BY <2>1, <2>2, <2>3
<1>5. CASE ReportedWrite
  <2>1. GoesOn(write_queue, done) /\ wire' = wire
    BY <1>5, ReportedOutcome
  <2> QED BY <1>1, <1>2, <2>1, GoesOnSets
<1> QED BY <1>3, <1>4, <1>5

(* OwnerInv is inductive given WsInv.                                      *)
LEMMA OwnerInductive ==
  ASSUME WsType, ConnectInv, InFlightInv, OwnerInv, [Next]_vars
  PROVE  OwnerInv'
<1>1. owner' \in {"destroying", "stopping", "joining", "gone"} => ~open'
  <2>1. CASE Owner
    <3>1. CASE Connect \/ ConnectGivesUp \/ ConnectReturns
      BY <3>1 DEF Connect, ConnectGivesUp, ConnectReturns
    <3>2. CASE Post \/ Send \/ SendReturns \/ Close
      BY <3>2 DEF Post, Send, Accept, SendReturns, Close
    <3>3. CASE Destroy
      BY <3>3, Zenon DEF Destroy
    <3>4. CASE DestroySocket \/ Stop \/ Join
      <4>1. owner \in {"destroying", "stopping", "joining", "gone"} /\ open' = open
        BY <3>4 DEF DestroySocket, Stop, Join
      <4> QED BY <4>1, Zenon DEF OwnerInv
    <3> QED BY <2>1, <3>1, <3>2, <3>3, <3>4 DEF Owner
  <2>2. CASE ~Owner
    <3>1. owner' = owner
      BY <2>2, NextKinds, Frames, Zenon DEF IoExits, Break, vars
    <3>2. open' => open
      <4>1. CASE EnqueueWrite \/ WireTakes \/ ReportedWrite
        BY <4>1, Zenon DEF EnqueueWrite, WireTakes, ReportedWrite
      <4>2. CASE WriteCompletes
        BY <4>2, CompleteOutcome, Zenon
      <4>3. CASE ~EnqueueWrite /\ ~WireTakes /\ ~WriteCompletes /\ ~ReportedWrite
        BY <2>2, <4>3, Others, Zenon DEF Owner
      <4> QED BY <4>1, <4>2, <4>3
    <3> QED BY <3>1, <3>2, Zenon DEF OwnerInv
  <2> QED BY <2>1, <2>2
<1>2. owner' \in {"stopping", "joining", "gone"} /\ stream' => socket' # "up"
  <2>1. CASE Connect \/ ConnectGivesUp \/ ConnectReturns \/ Destroy
    BY <2>1 DEF Connect, ConnectGivesUp, ConnectReturns, Destroy
  <2>2. CASE Post \/ Send \/ SendReturns \/ Close
    BY <2>2 DEF Post, Send, Accept, SendReturns, Close
  <2>3. CASE DestroySocket
    <3>1. stream' = stream /\ (stream => socket' = "closed")
      BY <2>3, Zenon DEF DestroySocket
    <3> QED BY <3>1
  <2>4. CASE Stop \/ Join
    <3>1. owner \in {"stopping", "joining", "gone"} /\ UNCHANGED <<stream, socket>>
      BY <2>4 DEF Stop, Join
    <3> QED BY <3>1, Zenon DEF OwnerInv
  <2>5. CASE ~Owner
    <3>1. UNCHANGED <<owner, stream>>
      BY <2>5, NextKinds, Frames, Zenon DEF IoExits, Break, vars
    <3>2. socket' = "up" => socket = "up" \/ ~stream'
      <4>1. CASE EnqueueWrite \/ WireTakes \/ WriteCompletes \/ ReportedWrite
        BY <4>1, Zenon DEF EnqueueWrite, WireTakes, WriteCompletes, ReportedWrite
      <4>2. CASE ~EnqueueWrite /\ ~WireTakes /\ ~WriteCompletes /\ ~ReportedWrite
        BY <4>2, OthersFlow, Zenon
      <4> QED BY <4>1, <4>2
    <3> QED BY <3>1, <3>2, Zenon DEF OwnerInv
  <2> QED BY <2>1, <2>2, <2>3, <2>4, <2>5 DEF Owner
<1>3. \A m \in Msgs : m > accepted' => done'[m] = "none"
  <2>1. CASE Post \/ Send
    <3>1. PICK m \in Msgs : /\ m = accepted + 1 /\ accepted' = m
                            /\ \E promise : done' = [done EXCEPT ![m] = promise]
      BY <2>1, Zenon DEF Post, Send, Accept
    <3>2. done \in [Msgs -> Results \cup {"none", "unset"}] /\ accepted \in Nat
          /\ \A k \in Msgs : k \in Nat
      BY QueueTypes
    <3> QED BY <3>1, <3>2 DEF OwnerInv
  <2>2. CASE EnqueueWrite \/ WriteCompletes \/ ReportedWrite
    BY <2>2, StepSets DEF OwnerInv, PromisesSet
  <2>3. CASE WireTakes
    BY <2>3, Zenon DEF WireTakes, WriteUnchanged, OwnerInv
  <2>4. CASE ~EnqueueWrite /\ ~WireTakes /\ ~WriteCompletes /\ ~ReportedWrite /\ ~Post /\ ~Send
    BY <2>4, OthersFlow, Zenon DEF OwnerInv
  <2> QED BY <2>1, <2>2, <2>3, <2>4
<1> QED BY <1>1, <1>2, <1>3, Zenon DEF OwnerInv
SocketStep == Outside!Next \/ UNCHANGED Outside!socketVars

(* What the owner sees of the phase, before and after a step.              *)
PhaseIs ==
  /\ owner = "gone" => Phase = "gone"
  /\ owner # "gone" /\ open => Phase = "open"
  /\ owner # "gone" /\ ~open /\ stream => Phase = "shut"
  /\ owner # "gone" /\ ~open /\ ~stream => Phase = "new"
LEMMA Phases == PhaseIs /\ PhaseIs'
<1>1. PhaseIs
  BY Zenon DEF PhaseIs, Phase
<1>2. PhaseIs'
  BY Zenon DEF PhaseIs, Phase
<1> QED BY <1>1, <1>2

LEMMA PhaseKept ==
  ASSUME UNCHANGED <<open, stream>>, owner' = owner \/ (owner # "gone" /\ owner' # "gone")
  PROVE  Phase' = Phase
<1>1. CASE owner' = owner
  BY <1>1, Zenon DEF Phase
<1>2. CASE owner # "gone" /\ owner' # "gone"
  <2>1. CASE open
    BY <1>2, <2>1, Phases, Zenon DEF PhaseIs
  <2>2. CASE ~open /\ stream
    BY <1>2, <2>2, Phases, Zenon DEF PhaseIs
  <2>3. CASE ~open /\ ~stream
    BY <1>2, <2>3, Phases, Zenon DEF PhaseIs
  <2> QED BY <2>1, <2>2, <2>3
<1> QED BY <1>1, <1>2

(* A step that changes nothing the owner sees.                             *)
LEMMA Unseen ==
  ASSUME Phase' = Phase, UNCHANGED <<accepted, wire, done, reads, late, reports>>
  PROVE  SocketStep
<1>1. Told' = Told /\ Len(wire)' = Len(wire)
  BY Zenon DEF Told
<1> QED BY <1>1, Zenon DEF SocketStep, Outside!socketVars

(* The connection ends, or had ended.                                      *)
LEMMA Ends ==
  ASSUME WsType, ConnectInv, owner # "gone", owner' # "gone", open' = FALSE,
         UNCHANGED <<stream, accepted, wire, done, reads, late, reports>>
  PROVE  SocketStep
<1>1. Told' = Told /\ Len(wire)' = Len(wire)
  BY Zenon DEF Told
<1>2. CASE open
  <2>1. stream
    BY <1>2, Zenon DEF ConnectInv
  <2>2. Phase = "open" /\ Phase' = "shut"
    BY <1>2, <2>1, Phases, Zenon DEF PhaseIs
  <2>3. Outside!End
    BY <1>1, <2>2, Zenon DEF Outside!End
  <2> QED BY <2>3, Zenon DEF SocketStep, Outside!Next
<1>3. CASE ~open
  <2>1. open' = open
    BY <1>3, TypeSplit DEF FlagType
  <2> QED BY <2>1, PhaseKept, Unseen
<1> QED BY <1>2, <1>3

(* Promises that are set are answers the owner may be given.               *)
LEMMA AnswersTrue ==
  ASSUME WsType, WsType', QueueInv', OwnerInv, PromisesSet, wire' = wire
  PROVE  Outside!Answers
<1>1. /\ done \in [Msgs -> Results \cup {"none", "unset"}]
      /\ done' \in [Msgs -> Results \cup {"none", "unset"}]
      /\ accepted \in Nat /\ Len(wire) \in Nat /\ \A m \in Msgs : m \in Nat
  <2>1. WriteType /\ WriteType'
    BY TypeSplit
  <2> QED BY <2>1, QueueTypes DEF WriteType
<1>2. Told' \in [Msgs -> {"none", "ok", "Timeout", "TransportFailure"}]
  BY <1>1 DEF Told, Results
<1>3. ASSUME NEW m \in Msgs, Told'[m] # Told[m]
      PROVE  /\ Told[m] = "none" /\ m <= accepted
             /\ Told'[m] = "ok" => m <= Len(wire)
             /\ Told'[m] = "TransportFailure" => m > Len(wire)
  <2>1. /\ Told[m] = IF done[m] = "unset" THEN "none" ELSE done[m]
        /\ Told'[m] = IF done'[m] = "unset" THEN "none" ELSE done'[m]
    BY DEF Told
  <2>2. done[m] = "unset" /\ done'[m] \in Results
    BY <1>3, <2>1 DEF PromisesSet
  <2>3. Told[m] = "none" /\ Told'[m] = done'[m]
    BY <2>1, <2>2 DEF Results
  <2>4. m <= accepted
    BY <1>1, <2>2 DEF OwnerInv
  <2>5. /\ done'[m] = "ok" => m <= Len(wire)
        /\ done'[m] = "TransportFailure" => m > Len(wire)
    BY DEF QueueInv
  <2> QED BY <2>3, <2>4, <2>5
<1> QED BY <1>2, <1>3 DEF Outside!Answers, Outside!Msgs, Msgs

(* The owner's own steps.                                                  *)
LEMMA OwnerRefines ==
  ASSUME WsInv, OwnerInv, Owner
  PROVE  SocketStep
<1>0. WsType /\ ConnectInv
  BY DEF WsInv
<1>1. CASE Connect \/ ConnectGivesUp \/ SendReturns \/ Close \/ DestroySocket \/ Stop
  <2>1. UNCHANGED <<open, stream, accepted, wire, done, reads, late, reports>>
    BY <1>1, Zenon DEF Connect, ConnectGivesUp, SendReturns, Close, DestroySocket, Stop,
       writeVars, historyVars
  <2>2. owner' = owner \/ (owner # "gone" /\ owner' # "gone")
    BY <1>1 DEF Connect, ConnectGivesUp, SendReturns, Close, DestroySocket, Stop
  <2> QED BY <2>1, <2>2, PhaseKept, Unseen
<1>2. CASE ConnectReturns
  <2>1. ~stream /\ ~open /\ UNCHANGED <<accepted, wire, done, reads, late, reports>>
    BY <1>0, <1>2, Zenon DEF ConnectReturns, ConnectInv, writeVars, historyVars
  <2>2. owner # "gone" /\ owner' # "gone"
    BY <1>2 DEF ConnectReturns
  <2>3. CASE open' /\ stream'
    <3>1. Phase = "new" /\ Phase' = "open"
      BY <2>1, <2>2, <2>3, Phases, Zenon DEF PhaseIs
    <3>2. Told' = Told /\ Len(wire)' = Len(wire)
      BY <2>1, Zenon DEF Told
    <3>3. Outside!Open
      BY <2>1, <3>1, <3>2, Zenon DEF Outside!Open
    <3> QED BY <3>3, Zenon DEF SocketStep, Outside!Next
  <2>4. CASE UNCHANGED <<open, stream>>
    BY <2>1, <2>2, <2>4, PhaseKept, Unseen
  <2>5. (open' /\ stream') \/ UNCHANGED <<open, stream>>
    BY <1>2, Zenon DEF ConnectReturns
  <2> QED BY <2>3, <2>4, <2>5
<1>3. CASE Post \/ Send
  <2>1. PICK m \in Msgs :
          /\ m = accepted + 1 /\ accepted' = m /\ open
          /\ \E promise \in {"none", "unset"} : done' = [done EXCEPT ![m] = promise]
    BY <1>3, Zenon DEF Post, Send, Accept
  <2>2. UNCHANGED <<open, stream, wire, reads, late, reports>>
    BY <1>3, Zenon DEF Post, Send, Accept
  <2>3. owner = "using" /\ owner' # "gone"
    BY <1>3 DEF Post, Send, Accept
  <2>4. done \in [Msgs -> Results \cup {"none", "unset"}] /\ accepted \in Nat /\ MaxMsgs \in Nat
        /\ m \in Nat /\ m <= MaxMsgs
    BY <1>0, QueueTypes
  <2>5. Phase' = Phase /\ Phase = "open"
    BY <2>1, <2>2, <2>3, Phases, PhaseKept, Zenon DEF PhaseIs
  <2>6. Told' = Told
    <3>1. done[m] = "none"
      BY <2>1, <2>4 DEF OwnerInv
    <3> QED BY <2>1, <2>4, <3>1 DEF Told
  <2>7. accepted < MaxMsgs /\ accepted' = accepted + 1
    BY <2>1, <2>4
  <2>8. Len(wire)' = Len(wire)
    BY <2>2
  <2>9. Outside!Accept
    BY <2>2, <2>5, <2>6, <2>7, <2>8 DEF Outside!Accept
  <2> QED BY <2>9, Zenon DEF SocketStep, Outside!Next
<1>4. CASE Destroy
  <2>1. owner # "gone" /\ owner' # "gone"
    BY <1>4 DEF Destroy
  <2>2. open' = FALSE /\ UNCHANGED <<stream, accepted, wire, done, reads, late, reports>>
    BY <1>4, Zenon DEF Destroy, writeVars, historyVars
  <2> QED BY <1>0, <2>1, <2>2, Ends
<1>5. CASE Join
  <2>1. owner = "joining" /\ owner' = "gone"
        /\ UNCHANGED <<open, stream, accepted, wire, done, reads, late, reports>>
    BY <1>5, Zenon DEF Join, writeVars, historyVars
  <2>2. ~open /\ owner # "gone"
    BY <2>1 DEF OwnerInv
  <2>3. Phase \in {"new", "shut"} /\ Phase' = "gone"
    BY <2>1, <2>2, Phases, Zenon DEF PhaseIs
  <2>4. Told' = Told /\ Len(wire)' = Len(wire)
    BY <2>1, Zenon DEF Told
  <2>5. Outside!Vanish
    BY <2>1, <2>3, <2>4, Zenon DEF Outside!Vanish
  <2> QED BY <2>5, Zenon DEF SocketStep, Outside!Next
<1> QED BY <1>1, <1>2, <1>3, <1>4, <1>5 DEF Owner

(* The io thread does not run handlers of a client that is gone.           *)
LEMMA StillThere ==
  ASSUME WsInv, io # "exited"
  PROVE  owner # "gone"
  BY Zenon DEF WsInv, ReportInv

(* The read loop.                                                          *)
LEMMA ReadsRefine ==
  ASSUME WsInv, Reads
  PROVE  SocketStep
<1>0. /\ WsType /\ ConnectInv /\ ReportInv
      /\ UNCHANGED <<owner, stream, done, accepted, wire>>
  BY Frames, Zenon DEF WsInv, writeVars
<1>1. Told' = Told /\ Len(wire)' = Len(wire)
  BY <1>0, Zenon DEF Told
<1>2. CASE StartRead \/ Delivered
  <2>1. UNCHANGED <<open, reads, late, reports>>
    BY <1>2, Zenon DEF StartRead, Delivered
  <2> QED BY <1>0, <2>1, PhaseKept, Unseen
<1>3. CASE ReadMessage
  <2>1. reading \in Nat /\ late \in Nat /\ reports \in Nat /\ reading > 0 /\ reading # 0
    BY <1>0, <1>3, TypeSplit DEF IoType, ReadMessage
  <2>2. UNCHANGED <<open, reports>> /\ io = "idle" /\ reads' = reads + 1
        /\ late' = IF reports > 0 THEN late + 1 ELSE late
    BY <1>3, Zenon DEF ReadMessage, Idle
  <2>3. stream
    BY <1>0, <2>1, Zenon DEF ConnectInv
  <2>4. owner # "gone"
    BY <2>2, StillThere
  <2>5. Phase' = Phase /\ Phase \in {"open", "shut"}
    BY <1>0, <2>2, <2>3, <2>4, PhaseKept, Phases, Zenon DEF PhaseIs
  <2>6. (reports = 0 /\ late' = late) \/ (reports = 1 /\ late = 0 /\ late' = 1)
    BY <1>0, <2>1, <2>2 DEF ReportInv
  <2>7. Outside!Deliver
    BY <1>0, <1>1, <2>2, <2>5, <2>6 DEF Outside!Deliver, Outside!InUse
  <2> QED BY <2>7, Zenon DEF SocketStep, Outside!Next
<1>4. CASE ReadFails
  <2>1. open' = FALSE /\ io = "idle" /\ UNCHANGED <<reads, late, reports>>
    BY <1>4, Zenon DEF ReadFails, OnDisconnect, Idle
  <2>2. owner # "gone" /\ owner' # "gone"
    BY <1>0, <2>1, StillThere
  <2> QED BY <1>0, <2>1, <2>2, Ends
<1>5. CASE Reported
  <2>1. io = "reporting" /\ reports' = reports + 1 /\ UNCHANGED <<open, reads, late>>
    BY <1>5, Zenon DEF Reported
  <2>2. reports = 0 /\ ~open /\ stream
    BY <1>0, <2>1, Zenon DEF ReportInv, ConnectInv
  <2>3. owner # "gone"
    BY <2>1, StillThere
  <2>4. Phase' = Phase /\ Phase = "shut"
    BY <1>0, <2>1, <2>2, <2>3, PhaseKept, Phases, Zenon DEF PhaseIs
  <2>5. Outside!Answers
    <3>1. Told \in [Msgs -> {"none", "ok", "Timeout", "TransportFailure"}]
      BY <1>0, QueueTypes DEF Told, Results
    <3> QED BY <1>1, <3>1 DEF Outside!Answers, Outside!Msgs, Msgs
  <2>6. Outside!Report
    BY <1>0, <1>1, <2>1, <2>2, <2>4, <2>5 DEF Outside!Report
  <2> QED BY <2>6, Zenon DEF SocketStep, Outside!Next
<1> QED BY <1>2, <1>3, <1>4, <1>5 DEF Reads

(* The write queue.                                                        *)
LEMMA WritesRefine ==
  ASSUME WsInv, WsInv', OwnerInv, Writes
  PROVE  SocketStep
<1>0. /\ WsType /\ ConnectInv /\ ReportInv /\ InFlightInv /\ WsType' /\ QueueInv'
      /\ UNCHANGED <<owner, stream, accepted, reads, late>>
  BY Frames, Zenon DEF WsInv
<1>1. CASE SendDeadlinePasses \/ OnSendDeadline
  <2>1. UNCHANGED <<open, done, wire, reports>>
    BY <1>1, Zenon DEF SendDeadlinePasses, OnSendDeadline
  <2> QED BY <1>0, <2>1, PhaseKept, Unseen
<1>2. CASE WireTakes
  <2>1. /\ writing # <<>> /\ socket = "up" /\ wire' = Append(wire, Head(writing).msg)
        /\ UNCHANGED <<open, done, reports>>
    BY <1>2, Zenon DEF WireTakes
  <2>2. stream
    BY <1>0, <2>1, Zenon DEF ConnectInv, InFlightInv
  <2>3. owner # "gone"
    BY <2>1, <2>2 DEF OwnerInv
  <2>4. Phase' = Phase /\ Phase \in {"open", "shut"}
    BY <1>0, <2>1, <2>2, <2>3, PhaseKept, Phases, Zenon DEF PhaseIs
  <2>5. /\ Len(wire) \in Nat /\ Len(wire') = Len(wire) + 1 /\ accepted \in Nat /\ MaxMsgs \in Nat
        /\ accepted <= MaxMsgs
    BY <1>0, <2>1, QueueTypes
  <2>6. Len(wire) < accepted
    <3>1. PICK n \in 1 .. MaxMsgs + 1 : Len(wire') < n /\ n <= accepted' + 1
      BY DEF WsInv, NextQueued
    <3>2. accepted' = accepted
      BY <1>0
    <3> QED BY <2>5, <3>1, <3>2
  <2> DEFINE m == Len(wire) + 1
  <2>7. m \in Msgs /\ Told[m] # "TransportFailure"
    <3>1. m \in Msgs /\ ~ (m > Len(wire'))
      BY <2>5, <2>6 DEF Msgs
    <3>2. done'[m] # "TransportFailure"
      BY <1>0, <3>1 DEF QueueInv
    <3>3. done[m] # "TransportFailure"
      BY <2>1, <3>2
    <3> QED BY <3>1, <3>3 DEF Told
  <2>8. Told' = Told
    BY <2>1, Zenon DEF Told
  <2>9. Outside!Take
    BY <1>0, <2>1, <2>4, <2>5, <2>6, <2>7, <2>8 DEF Outside!Take, Outside!InUse
  <2> QED BY <2>9, Zenon DEF SocketStep, Outside!Next
<1>3. CASE EnqueueWrite \/ WriteCompletes \/ ReportedWrite
  <2>1. PromisesSet /\ wire' = wire /\ Outside!Answers /\ Len(wire)' = Len(wire)
    <3>1. PromisesSet /\ wire' = wire
      BY <1>0, <1>3, StepSets
    <3> QED BY <1>0, <3>1, AnswersTrue
  <2>2. ASSUME owner # "gone", stream, UNCHANGED <<open, reports>>
        PROVE  SocketStep
    <3>1. Phase' = Phase /\ Phase \in {"open", "shut"}
      BY <1>0, <2>2, PhaseKept, Phases, Zenon DEF PhaseIs
    <3>2. Outside!Answer
      BY <1>0, <2>1, <2>2, <3>1, Zenon DEF Outside!Answer, Outside!InUse
    <3> QED BY <3>2, Zenon DEF SocketStep, Outside!Next
  <2>3. CASE EnqueueWrite
    <3>1. io = "idle" /\ ioc # <<>> /\ Head(ioc).run = "write" /\ UNCHANGED <<open, reports>>
      BY <2>3, Zenon DEF EnqueueWrite, Run, Idle
    <3>2. stream
      <4>1. 1 \in 1 .. Len(ioc) /\ ioc[1].run = "write"
        BY <1>0, <3>1, QueueTypes
      <4>2. ioc[1].run # "start"
        BY <4>1
      <4> QED BY <1>0, <4>1, <4>2, Zenon DEF ConnectInv
    <3>3. owner # "gone"
      BY <3>1, StillThere
    <3> QED BY <2>2, <3>1, <3>2, <3>3
  <2>4. CASE WriteCompletes
    <3>1. /\ write_in_flight /\ io = "idle" /\ reports' = reports
          /\ (open' = FALSE /\ done' = done) \/ open' = open
      BY <1>0, <2>4, CompleteOutcome, Zenon
    <3>2. stream
      BY <1>0, <3>1, Zenon DEF ConnectInv
    <3>3. owner # "gone" /\ owner' # "gone"
      BY <1>0, <3>1, StillThere
    <3>4. CASE open' = FALSE /\ done' = done
      BY <1>0, <2>1, <3>1, <3>3, <3>4, Ends
    <3> QED BY <2>2, <3>1, <3>2, <3>3, <3>4
  <2>5. CASE ReportedWrite
    <3>1. io = "reporting_write" /\ reports' = reports + 1 /\ open' = open
      BY <2>5, Zenon DEF ReportedWrite
    <3>2. reports = 0 /\ ~open /\ stream
      BY <1>0, <3>1, Zenon DEF ReportInv, ConnectInv
    <3>3. owner # "gone"
      BY <3>1, StillThere
    <3>4. Phase' = Phase /\ Phase = "shut"
      BY <1>0, <3>1, <3>2, <3>3, PhaseKept, Phases, Zenon DEF PhaseIs
    <3>5. Outside!Report
      BY <1>0, <2>1, <3>1, <3>2, <3>4 DEF Outside!Report
    <3> QED BY <3>5, Zenon DEF SocketStep, Outside!Next
  <2> QED BY <1>3, <2>3, <2>4, <2>5
<1> QED BY <1>1, <1>2, <1>3 DEF Writes

(* Every step of the client is one of the Socket's, or not seen.           *)
LEMMA SocketRefined ==
  ASSUME WsInv, WsInv', OwnerInv, [Next]_vars
  PROVE  SocketStep
<1>0. WsType /\ ConnectInv
  BY DEF WsInv
<1>1. CASE Attempts
  <2>1. UNCHANGED <<owner, stream, open, done, accepted, wire, reads, late, reports>>
    BY <1>1, Frames, Zenon DEF writeVars, historyVars
  <2> QED BY <2>1, PhaseKept, Unseen
<1>2. CASE Closes
  <2>1. UNCHANGED <<owner, stream, done, accepted, wire, reads, late, reports>>
    BY <1>2, Frames, Zenon DEF writeVars, historyVars
  <2>2. CASE OnClose \/ DrainPoll
    <3>1. open' = open
      BY <2>2, Zenon DEF OnClose, DrainPoll
    <3> QED BY <2>1, <3>1, PhaseKept, Unseen
  <2>3. CASE CloseCompletes
    <3>1. open' = FALSE /\ io = "idle"
      BY <2>3, Zenon DEF CloseCompletes, Idle
    <3>2. owner # "gone" /\ owner' # "gone"
      BY <2>1, <3>1, StillThere
    <3> QED BY <1>0, <2>1, <3>1, <3>2, Ends
  <2> QED BY <1>2, <2>2, <2>3 DEF Closes
<1>3. CASE IoExits \/ Break \/ UNCHANGED vars
  <2>1. UNCHANGED <<owner, stream, open, done, accepted, wire, reads, late, reports>>
    BY <1>3, Zenon DEF IoExits, Break, vars, writeVars, historyVars
  <2> QED BY <2>1, PhaseKept, Unseen
<1>4. CASE Owner
  BY <1>4, OwnerRefines
<1>5. CASE Reads
  BY <1>5, ReadsRefine
<1>6. CASE Writes
  BY <1>6, WritesRefine
<1> QED BY <1>1, <1>2, <1>3, <1>4, <1>5, <1>6, NextKinds

(* For every number of messages and reads: whatever the owner and the io   *)
(* thread do, and however the socket breaks, what the owner sees is a      *)
(* Socket.                                                                 *)
THEOREM SocketImplemented == Spec => ImplementsSocket
<1>1. Init => Outside!Init
  <2> SUFFICES ASSUME Init PROVE Outside!Init
    OBVIOUS
  <2>1. Phase = "new"
    BY Phases DEF Init, PhaseIs
  <2>2. Len(wire) = 0 /\ Told = [m \in Msgs |-> "none"]
    BY DEF Init, Told
  <2> QED BY <2>1, <2>2 DEF Init, Outside!Init, Outside!Msgs, Msgs
<1>2. Init => OwnerInv
  BY DEF Init, OwnerInv
<1>3. WsInv /\ OwnerInv /\ [Next]_vars => OwnerInv'
  BY OwnerInductive DEF WsInv
<1>4. WsInv /\ WsInv' /\ OwnerInv /\ [Next]_vars => [Outside!Next]_(Outside!socketVars)
  BY SocketRefined DEF SocketStep
<1> QED BY <1>1, <1>2, <1>3, <1>4, WsCorrect, PTL DEF Spec, ImplementsSocket, Outside!Spec
=============================================================================

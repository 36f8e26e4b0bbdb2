------------------------------ MODULE Heartbeat ------------------------------
(***************************************************************************)
(* The heartbeat of RobotImpl (src/src/robot_impl.cpp: StartHeartbeat,     *)
(* OnIdleTimerExpired, OnPingDeadlineExpired, ResetLivenessOnInbound): two *)
(* timers that have to find out that the robot is gone although the socket *)
(* stays open.  Time is counted in ticks; the control thread is prompt, so *)
(* an expired timer is handled before the next tick.                       *)
(***************************************************************************)
EXTENDS Integers

CONSTANTS
  HeartbeatInterval,  \* opts_.heartbeat_interval; 0 turns the heartbeat off
  PingTimeout,        \* opts_.ping_timeout
  MaxMissedPings,     \* opts_.max_missed_pings
  MaxRestore,         \* ticks that a reconnection may take after its handshake
  MaxSilence          \* bound: silence is not counted further

Misses == IF MaxMissedPings = 0 THEN 1 ELSE MaxMissedPings

ASSUME HeartbeatAssumption ==
  /\ HeartbeatInterval \in Nat /\ PingTimeout \in Nat \ {0} /\ MaxMissedPings \in Nat
  /\ MaxRestore \in Nat /\ MaxSilence \in Nat
  /\ MaxSilence >= HeartbeatInterval + Misses * PingTimeout

VARIABLES
  mode,                  \* state_: "Down", "Restoring" (Reconnecting, hands shaken), "Ready"
  open,                  \* ws_->IsOpen(); when it is not, the close handler is on its way
  alive,                 \* is the robot there?
  silent,                \* ticks since heartbeat_.last_inbound_at
  idle_timer_,           \* ticks left, or Off
  ping_deadline_timer_,  \* likewise
  ghost,                 \* an expired deadline whose handler was queued when re-armed or cancelled
  ping_deadline_active, miss_count,
  restoring,             \* ticks since the handshake
  cause                  \* why the connection was last given up

Off == -1
timerVars == <<idle_timer_, ping_deadline_timer_, ghost, ping_deadline_active, miss_count>>
vars == <<mode, open, alive, silent, timerVars, restoring, cause>>

Expired(timer) == timer = 0

-----------------------------------------------------------------------------
(* OnTransportClose, as far as the heartbeat is concerned.                 *)
OnTransportClose(why) ==
  /\ mode' = "Down" /\ open' = FALSE /\ cause' = why
  /\ idle_timer_' = Off /\ ping_deadline_timer_' = Off /\ ghost' = FALSE
  /\ ping_deadline_active' = FALSE /\ miss_count' = 0
  /\ UNCHANGED <<alive, silent, restoring>>

(* The handshake is answered: StartHeartbeat.  The first time the state    *)
(* becomes Ready at once, later when all is restored.                      *)
StartHeartbeat ==
  /\ mode = "Down" /\ mode' \in {"Restoring", "Ready"}
  /\ open' = TRUE /\ alive' = TRUE /\ silent' = 0 /\ restoring' = 0
  /\ miss_count' = 0 /\ ping_deadline_active' = FALSE
  /\ idle_timer_' = IF HeartbeatInterval = 0 THEN Off ELSE HeartbeatInterval
  /\ UNCHANGED <<ping_deadline_timer_, ghost, cause>>

(* Mutant: the misses are not forgotten.                                   *)
ResetKeepsMisses ==
  /\ mode # "Down" /\ open /\ alive
  /\ mode' = "Ready" \/ UNCHANGED mode
  /\ silent' = 0
  /\ IF ping_deadline_active
     THEN /\ ping_deadline_active' = FALSE /\ ping_deadline_timer_' = Off
          /\ ghost' \in {ghost, Expired(ping_deadline_timer_)}
     ELSE UNCHANGED <<ping_deadline_active, ping_deadline_timer_, ghost>>
  /\ UNCHANGED <<open, alive, idle_timer_, restoring, cause, miss_count>>

(* Any message of the robot: ResetLivenessOnInbound, before it is handled. *)
(* The one that completes the restoration makes the session Ready.         *)
ResetLivenessOnInbound ==
  /\ mode # "Down" /\ open /\ alive
  /\ mode' = "Ready" \/ UNCHANGED mode
  /\ silent' = 0 /\ miss_count' = 0
  /\ IF ping_deadline_active
     THEN /\ ping_deadline_active' = FALSE /\ ping_deadline_timer_' = Off
          /\ ghost' \in {ghost, Expired(ping_deadline_timer_)}
     ELSE UNCHANGED <<ping_deadline_active, ping_deadline_timer_, ghost>>
  /\ UNCHANGED <<open, alive, idle_timer_, restoring, cause>>

(* Mutant: the deadline is armed and not active.                           *)
SendPingInactive(queued) ==
  /\ ping_deadline_active' = FALSE /\ ping_deadline_timer_' = PingTimeout
  /\ ghost' \in {queued, queued \/ Expired(ping_deadline_timer_)}

(* A ping is sent and its deadline armed, which cancels the one before,    *)
(* unless the handler of that is queued.                                   *)
SendPing(queued) ==
  /\ ping_deadline_active' = TRUE /\ ping_deadline_timer_' = PingTimeout
  /\ ghost' \in {queued, queued \/ Expired(ping_deadline_timer_)}

OnIdleTimerExpired ==
  /\ Expired(idle_timer_)
  /\ \/ /\ mode = "Ready" /\ silent < HeartbeatInterval
        /\ idle_timer_' = HeartbeatInterval - silent
        /\ UNCHANGED <<mode, open, cause, alive, silent, restoring, ping_deadline_timer_, ghost,
                       ping_deadline_active, miss_count>>
     \/ /\ mode = "Ready" /\ silent >= HeartbeatInterval /\ open
        /\ SendPing(ghost) /\ idle_timer_' = HeartbeatInterval
        /\ UNCHANGED <<mode, open, cause, alive, silent, restoring, miss_count>>
     \/ mode = "Ready" /\ silent >= HeartbeatInterval /\ OnTransportClose("SendFailed")
     \/ /\ mode # "Ready" \/ (silent >= HeartbeatInterval /\ ~open)
        /\ idle_timer_' = Off
        /\ UNCHANGED <<mode, open, cause, alive, silent, restoring, ping_deadline_timer_, ghost,
                       ping_deadline_active, miss_count>>

(* The handler of the timer as armed, or one queued before it was.         *)
OnPingDeadlineExpired ==
  \E late \in BOOLEAN :
    /\ IF late THEN ghost ELSE Expired(ping_deadline_timer_)
    /\ \/ /\ mode = "Ready" /\ ping_deadline_active /\ miss_count + 1 >= MaxMissedPings
          /\ OnTransportClose("HeartbeatDead")
       \/ /\ mode = "Ready" /\ ping_deadline_active /\ miss_count + 1 < MaxMissedPings
          /\ OnTransportClose("SendFailed")
       \/ /\ mode = "Ready" /\ ping_deadline_active /\ miss_count + 1 < MaxMissedPings
          /\ miss_count' = miss_count + 1
          /\ IF ~open
             THEN /\ ping_deadline_active' = FALSE
                  /\ ghost' = (ghost /\ ~late)
                  /\ ping_deadline_timer_' = IF late THEN ping_deadline_timer_ ELSE Off
             ELSE /\ ping_deadline_active' = TRUE /\ ping_deadline_timer_' = PingTimeout
                  /\ ghost' \in IF late THEN {FALSE, Expired(ping_deadline_timer_)} ELSE {ghost}
          /\ UNCHANGED <<mode, open, cause, alive, silent, restoring, idle_timer_>>
       \/ /\ mode # "Ready" \/ ~ping_deadline_active
          /\ ghost' = (ghost /\ ~late)
          /\ ping_deadline_timer_' = IF late THEN ping_deadline_timer_ ELSE Off
          /\ UNCHANGED <<mode, open, cause, alive, silent, restoring, idle_timer_,
                         ping_deadline_active, miss_count>>

(* The socket ends, the close handler runs; a restoration takes too long.  *)
SocketEnds ==
  /\ open /\ open' = FALSE
  /\ UNCHANGED <<mode, alive, silent, timerVars, restoring, cause>>
CloseHandled == mode # "Down" /\ ~open /\ OnTransportClose("TransportClosed")
RestoreFails == mode = "Restoring" /\ OnTransportClose("RestoreFailed")

(* The robot vanishes; nothing tells the socket.                           *)
PeerDies ==
  /\ alive /\ mode # "Down" /\ alive' = FALSE
  /\ UNCHANGED <<mode, open, silent, timerVars, restoring, cause>>

Later(timer) == IF timer > 0 THEN timer - 1 ELSE timer
Tick ==
  /\ ~Expired(idle_timer_) /\ ~Expired(ping_deadline_timer_) /\ ~ghost
  /\ mode # "Down" => open
  /\ mode = "Restoring" => restoring < MaxRestore
  /\ idle_timer_' = Later(idle_timer_) /\ ping_deadline_timer_' = Later(ping_deadline_timer_)
  /\ silent' = IF silent < MaxSilence THEN silent + 1 ELSE silent
  /\ restoring' = IF mode = "Restoring" THEN restoring + 1 ELSE restoring
  /\ UNCHANGED <<mode, open, alive, ghost, ping_deadline_active, miss_count, cause>>

-----------------------------------------------------------------------------
Init ==
  /\ mode = "Down" /\ open = FALSE /\ alive = TRUE /\ silent = 0
  /\ idle_timer_ = Off /\ ping_deadline_timer_ = Off /\ ghost = FALSE
  /\ ping_deadline_active = FALSE /\ miss_count = 0
  /\ restoring = 0 /\ cause = "none"

Timers == OnIdleTimerExpired \/ OnPingDeadlineExpired
Next ==
  \/ StartHeartbeat \/ ResetLivenessOnInbound \/ Timers
  \/ SocketEnds \/ CloseHandled \/ RestoreFails \/ PeerDies \/ Tick

Spec == Init /\ [][Next]_vars
(* Time passes, and the control thread handles what expires.               *)
FairSpec == Spec /\ WF_vars(Tick) /\ WF_vars(Timers) /\ WF_vars(CloseHandled)

-----------------------------------------------------------------------------
(* Properties.                                                             *)

(* Every variable has its type.                                            *)
HeartbeatType ==
  /\ mode \in {"Down", "Restoring", "Ready"} /\ open \in BOOLEAN /\ alive \in BOOLEAN
  /\ silent \in Nat /\ restoring \in Nat /\ miss_count \in Nat
  /\ idle_timer_ \in Nat \cup {Off} /\ ping_deadline_timer_ \in Nat \cup {Off}
  /\ ghost \in BOOLEAN /\ ping_deadline_active \in BOOLEAN
  /\ cause \in {"none", "HeartbeatDead", "SendFailed", "TransportClosed", "RestoreFailed"}

(* Every idle timer that expires pings again and restarts the deadline: of *)
(* the pings of one interval this many are sure to be missed.              *)
MissesPerInterval == (HeartbeatInterval - 1) \div PingTimeout
DetectionTime ==
  LET k == Misses - 1 IN
  HeartbeatInterval + (k \div MissesPerInterval) * HeartbeatInterval
                    + ((k % MissesPerInterval) + 1) * PingTimeout

(* A robot that falls silent is given up in time, if a ping times out      *)
(* within the interval and Ready comes before the first idle timer.        *)
DetectedInTime == mode = "Ready" => silent <= DetectionTime

(* No robot is declared dead before it was silent for the interval and all *)
(* the pings it is allowed to miss, whatever handler was cancelled late.   *)
NoHastyVerdict ==
  [][mode # "Down" /\ mode' = "Down" /\ cause' = "HeartbeatDead" =>
       silent >= HeartbeatInterval + Misses * PingTimeout]_vars

(* The inductive invariant of it: the silence covers the interval, every   *)
(* missed ping, and the time the last one has waited.  A deadline whose    *)
(* handler was queued too late to be cancelled has waited in full, or else *)
(* a message has come since and no ping is active.                         *)
SilenceInv ==
  /\ mode = "Down" => ~ghost /\ ping_deadline_timer_ = Off /\ miss_count = 0
  /\ HeartbeatInterval = 0 => idle_timer_ = Off
  /\ ping_deadline_timer_ >= 0 => ping_deadline_active \/ ~open
  /\ ping_deadline_timer_ <= PingTimeout /\ miss_count < Misses
  /\ miss_count > 0 => silent >= HeartbeatInterval + miss_count * PingTimeout
  /\ ping_deadline_active =>
       /\ mode = "Ready" /\ ping_deadline_timer_ >= 0
       /\ silent >= HeartbeatInterval + miss_count * PingTimeout + PingTimeout - ping_deadline_timer_
  /\ ghost =>
       /\ ping_deadline_timer_ # 0
       /\ \/ silent = 0 /\ ~ping_deadline_active
          \/ silent >= HeartbeatInterval + miss_count * PingTimeout + PingTimeout

(* API.md 154: max_missed_pings unanswered pings in a row and the robot is *)
(* declared dead.                                                          *)
DeadPeerGivenUp == mode = "Ready" /\ ~alive ~> mode # "Ready"
=============================================================================

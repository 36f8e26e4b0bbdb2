--------------------------- MODULE Heartbeat_proofs ---------------------------
(***************************************************************************)
(* No robot is declared dead too early, and a silent one is given up in    *)
(* time, for every interval, timeout and number of pings that may be       *)
(* missed.                                                                 *)
(***************************************************************************)
EXTENDS Heartbeat, TLAPS

(* The time that m missed pings take.                                      *)
Waited(m) == m * PingTimeout

(* One ping more takes one timeout more, and the bound on silence leaves   *)
(* room for all that may be missed.                                        *)
LEMMA WaitedOps ==
  /\ Misses \in Nat /\ Misses >= 1 /\ Misses >= MaxMissedPings
  /\ MaxMissedPings \in Nat /\ PingTimeout \in Nat /\ PingTimeout > 0
  /\ HeartbeatInterval \in Nat /\ MaxSilence \in Nat /\ Waited(0) = 0
  /\ \A m \in Nat : Waited(m) \in Nat /\ Waited(m + 1) = Waited(m) + PingTimeout
  /\ \A m \in Nat : m < Misses => HeartbeatInterval + Waited(m) + PingTimeout <= MaxSilence
<1>1. /\ Misses \in Nat /\ Misses >= 1 /\ Misses >= MaxMissedPings /\ Waited(0) = 0
      /\ \A m \in Nat : Waited(m) \in Nat /\ Waited(m + 1) = Waited(m) + PingTimeout
  BY HeartbeatAssumption DEF Misses, Waited
<1>2. ASSUME NEW m \in Nat, m < Misses
      PROVE  HeartbeatInterval + Waited(m) + PingTimeout <= MaxSilence
  <2>1. PICK d \in Nat : Misses = (m + 1) + d
    <3>1. Misses - (m + 1) \in Nat /\ Misses = (m + 1) + (Misses - (m + 1))
      BY <1>1, <1>2
    <3> QED BY <3>1
  <2>2. Misses * PingTimeout = Waited(m + 1) + d * PingTimeout /\ d * PingTimeout \in Nat
    BY <2>1, HeartbeatAssumption DEF Waited
  <2> QED
    BY <1>1, <2>2, HeartbeatAssumption
<1> QED
  BY <1>1, <1>2, HeartbeatAssumption

(* A timer that is off has no ticks left, nor has it expired.              *)
LEMMA OffNegative == Off \in Int /\ Off < 0
  BY DEF Off

-----------------------------------------------------------------------------
(* The flags stay flags.                                                   *)
FlagsType ==
  open \in BOOLEAN /\ alive \in BOOLEAN /\ ghost \in BOOLEAN /\ ping_deadline_active \in BOOLEAN

LEMMA FlagsStep == FlagsType /\ [Next]_vars => FlagsType'
<1> SUFFICES ASSUME FlagsType, [Next]_vars PROVE FlagsType'
  OBVIOUS
<1> USE DEF FlagsType, timerVars
<1>b. /\ \A a, b : (a /\ b) \in BOOLEAN /\ (a \/ b) \in BOOLEAN
      /\ \A timer : Expired(timer) \in BOOLEAN
  BY Zenon DEF Expired
<1>c. ASSUME NEW why, OnTransportClose(why) PROVE FlagsType'
  BY <1>c, Zenon DEF OnTransportClose
<1>1. CASE StartHeartbeat
  BY <1>1, Zenon DEF StartHeartbeat
<1>2. CASE ResetLivenessOnInbound
  BY <1>2, <1>b, Zenon DEF ResetLivenessOnInbound
<1>3. CASE OnIdleTimerExpired
  <2>1. FlagsType' \/ (SendPing(ghost) /\ UNCHANGED <<open, alive>>)
    BY <1>3, <1>c, Zenon DEF OnIdleTimerExpired
  <2>2. ASSUME SendPing(ghost), UNCHANGED <<open, alive>> PROVE FlagsType'
    BY <2>2, <1>b, Zenon DEF SendPing
  <2> QED BY <2>1, <2>2
<1>4. CASE OnPingDeadlineExpired
  <2>1. \/ FlagsType'
        \/ /\ UNCHANGED <<open, alive>> /\ ping_deadline_active' \in BOOLEAN
           /\ \E late \in BOOLEAN : ghost' \in {ghost /\ ~late, FALSE, Expired(ping_deadline_timer_), ghost}
    BY <1>4, <1>c, Zenon DEF OnPingDeadlineExpired
  <2> QED BY <2>1, <1>b, Zenon
<1>5. CASE SocketEnds \/ PeerDies \/ Tick
  BY <1>5, Zenon DEF SocketEnds, PeerDies, Tick
<1>6. CASE CloseHandled \/ RestoreFails
  BY <1>6, <1>c, Zenon DEF CloseHandled, RestoreFails
<1>7. CASE UNCHANGED vars
  BY <1>7, Zenon DEF vars
<1> QED
  BY <1>1, <1>2, <1>3, <1>4, <1>5, <1>6, <1>7 DEF Next, Timers

(* The rest of the type invariant.                                         *)
NumbersType ==
  /\ mode \in {"Down", "Restoring", "Ready"}
  /\ silent \in Nat /\ restoring \in Nat /\ miss_count \in Nat
  /\ idle_timer_ \in Nat \cup {Off} /\ ping_deadline_timer_ \in Nat \cup {Off}
  /\ cause \in {"none", "HeartbeatDead", "SendFailed", "TransportClosed", "RestoreFailed"}

LEMMA TypeStep == HeartbeatType /\ [Next]_vars => HeartbeatType'
<1> SUFFICES ASSUME HeartbeatType, [Next]_vars PROVE HeartbeatType'
  OBVIOUS
<1>a. FlagsType' /\ NumbersType
  BY FlagsStep DEF HeartbeatType, FlagsType, NumbersType
<1> SUFFICES NumbersType'
  BY <1>a DEF HeartbeatType, FlagsType, NumbersType
<1> USE <1>a, WaitedOps, OffNegative DEF NumbersType, timerVars
<1>c. ASSUME NEW why \in {"HeartbeatDead", "SendFailed", "TransportClosed", "RestoreFailed"},
             OnTransportClose(why)
      PROVE  NumbersType'
  BY <1>c DEF OnTransportClose
<1>1. CASE StartHeartbeat
  BY <1>1 DEF StartHeartbeat
<1>2. CASE ResetLivenessOnInbound
  <2>1. /\ mode' = "Ready" \/ UNCHANGED mode
        /\ silent' = 0 /\ miss_count' = 0 /\ UNCHANGED <<idle_timer_, restoring, cause>>
        /\ ping_deadline_timer_' = Off \/ UNCHANGED ping_deadline_timer_
    BY <1>2, Zenon DEF ResetLivenessOnInbound
  <2> QED BY <2>1
<1>3. CASE OnIdleTimerExpired
  <2>1. CASE OnTransportClose("SendFailed")
    BY <1>c, <2>1
  <2>2. CASE ~OnTransportClose("SendFailed")
    <3>1. /\ UNCHANGED <<mode, silent, restoring, cause, miss_count>>
          /\ ping_deadline_timer_' = PingTimeout \/ UNCHANGED ping_deadline_timer_
          /\ \/ silent < HeartbeatInterval /\ idle_timer_' = HeartbeatInterval - silent
             \/ idle_timer_' = HeartbeatInterval
             \/ idle_timer_' = Off
      BY <1>3, <2>2, Zenon DEF OnIdleTimerExpired, SendPing
    <3> QED BY <3>1
  <2> QED BY <2>1, <2>2
<1>4. CASE OnPingDeadlineExpired
  <2>1. CASE \E why \in {"HeartbeatDead", "SendFailed"} : OnTransportClose(why)
    BY <1>c, <2>1
  <2>2. CASE ~ \E why \in {"HeartbeatDead", "SendFailed"} : OnTransportClose(why)
    <3>1. /\ UNCHANGED <<mode, silent, restoring, cause, idle_timer_>>
          /\ miss_count' = miss_count + 1 \/ UNCHANGED miss_count
          /\ ping_deadline_timer_' \in {PingTimeout, Off, ping_deadline_timer_}
      BY <1>4, <2>2, Zenon DEF OnPingDeadlineExpired
    <3> QED BY <3>1
  <2> QED BY <2>1, <2>2
<1>5. CASE SocketEnds \/ PeerDies \/ Tick
  BY <1>5 DEF SocketEnds, PeerDies, Tick, Later
<1>6. CASE CloseHandled \/ RestoreFails
  BY <1>6, <1>c DEF CloseHandled, RestoreFails
<1>7. CASE UNCHANGED vars
  BY <1>7 DEF vars
<1> QED
  BY <1>1, <1>2, <1>3, <1>4, <1>5, <1>6, <1>7 DEF Next, Timers

(* The type invariant, for every choice of the options.                    *)
THEOREM HeartbeatTypeCorrect == Spec => []HeartbeatType
<1>1. Init => FlagsType
  BY Zenon DEF Init, FlagsType
<1>2. Init => HeartbeatType
  BY <1>1 DEF Init, HeartbeatType, FlagsType
<1> QED
  BY <1>2, TypeStep, PTL DEF Spec

-----------------------------------------------------------------------------
(* A step that gives the connection up keeps the invariant.                *)
LEMMA CloseKeepsSilence ==
  ASSUME HeartbeatType, NEW why, OnTransportClose(why)
  PROVE  SilenceInv'
<1>1. mode' = "Down" /\ ping_deadline_timer_' = Off /\ miss_count' = 0 /\ idle_timer_' = Off
  BY DEF OnTransportClose
<1>2. ~ghost' /\ ~ping_deadline_active'
  BY DEF OnTransportClose
<1>3. ~(miss_count' > 0) /\ ~(ping_deadline_timer_' >= 0) /\ ping_deadline_timer_' <= PingTimeout /\ miss_count' < Misses
  BY <1>1, WaitedOps, OffNegative
<1> QED
  BY <1>1, <1>2, <1>3 DEF SilenceInv

LEMMA SilenceStep == HeartbeatType /\ SilenceInv /\ [Next]_vars => SilenceInv'
<1> SUFFICES ASSUME HeartbeatType, SilenceInv, [Next]_vars PROVE SilenceInv'
  OBVIOUS
<1>t. NumbersType
  BY DEF HeartbeatType, NumbersType
<1> DEFINE H == HeartbeatInterval
           Inv(md, opn, sil, idle, timer, gh, active, miss) ==
             /\ md = "Down" => ~gh /\ timer = Off /\ miss = 0
             /\ H = 0 => idle = Off
             /\ timer >= 0 => active \/ ~opn
             /\ timer <= PingTimeout /\ miss < Misses
             /\ miss > 0 => sil >= H + Waited(miss)
             /\ active => md = "Ready" /\ timer >= 0 /\ sil >= H + Waited(miss) + PingTimeout - timer
             /\ gh => timer # 0 /\ ((sil = 0 /\ ~active) \/ sil >= H + Waited(miss) + PingTimeout)
           Now == Inv(mode, open, silent, idle_timer_, ping_deadline_timer_, ghost,
                      ping_deadline_active, miss_count)
<1>i. Now /\ (Now' => SilenceInv')
  BY DEF SilenceInv, Waited
<1> USE WaitedOps, OffNegative, <1>t DEF NumbersType
<1>1. CASE StartHeartbeat
  <2>1. /\ mode = "Down" /\ miss_count' = 0 /\ silent' = 0 /\ mode' # "Down"
        /\ idle_timer_' = IF H = 0 THEN Off ELSE H
        /\ UNCHANGED ping_deadline_timer_
    BY <1>1 DEF StartHeartbeat
  <2>2. UNCHANGED ghost /\ ~ping_deadline_active'
    BY <1>1, Zenon DEF StartHeartbeat
  <2> QED BY <1>i, <2>1, <2>2
<1>2. CASE ResetLivenessOnInbound
  <2>1. /\ mode # "Down" /\ mode' \in {mode, "Ready"} /\ silent' = 0 /\ miss_count' = 0
        /\ UNCHANGED idle_timer_ /\ ~ping_deadline_active'
        /\ UNCHANGED open /\ open
        /\ \/ ping_deadline_timer_' = Off
           \/ UNCHANGED ping_deadline_timer_ /\ (ghost' => ghost) /\ ~ping_deadline_active
    BY <1>2, Zenon DEF ResetLivenessOnInbound
  <2> QED BY <1>i, <2>1
<1>3. CASE OnIdleTimerExpired
  <2>1. CASE UNCHANGED <<mode, open, silent, ping_deadline_timer_, ghost, ping_deadline_active, miss_count>>
    <3>1. idle_timer_ = 0
      BY <1>3, Zenon DEF OnIdleTimerExpired, Expired
    <3> QED BY <1>i, <2>1, <3>1
  <2>2. CASE /\ SendPing(ghost) /\ mode = "Ready" /\ silent >= H /\ open
             /\ idle_timer_' = H /\ UNCHANGED <<mode, open, silent, miss_count>>
    <3>1. idle_timer_ = 0
      BY <1>3, Zenon DEF OnIdleTimerExpired, Expired
    <3>2. H > 0
      BY <1>i, <3>1
    <3>3. /\ ping_deadline_timer_' = PingTimeout /\ ping_deadline_active'
          /\ ghost' => ghost \/ ping_deadline_timer_ = 0
      BY <2>2, Zenon DEF SendPing, Expired
    <3>4. silent >= H + Waited(miss_count)
      BY <1>i, <2>2
    <3>5. ghost \/ ping_deadline_timer_ = 0 => silent >= H + Waited(miss_count) + PingTimeout
      BY <1>i, <2>2, <3>2
    <3> QED BY <1>i, <2>2, <3>2, <3>3, <3>4, <3>5
  <2>3. CASE OnTransportClose("SendFailed")
    BY <2>3, CloseKeepsSilence
  <2> QED BY <1>3, <2>1, <2>2, <2>3, Zenon DEF OnIdleTimerExpired
<1>4. CASE OnPingDeadlineExpired
  <2>1. PICK late \in BOOLEAN :
    /\ IF late THEN ghost ELSE Expired(ping_deadline_timer_)
    /\ \/ \E why : OnTransportClose(why)
       \/ /\ mode = "Ready" /\ ping_deadline_active /\ miss_count + 1 < MaxMissedPings
          /\ miss_count' = miss_count + 1
          /\ IF ~open
             THEN /\ ping_deadline_active' = FALSE
                  /\ ghost' = (ghost /\ ~late)
                  /\ ping_deadline_timer_' = IF late THEN ping_deadline_timer_ ELSE Off
             ELSE /\ ping_deadline_active' = TRUE /\ ping_deadline_timer_' = PingTimeout
                  /\ ghost' \in IF late THEN {FALSE, Expired(ping_deadline_timer_)} ELSE {ghost}
          /\ UNCHANGED <<mode, open, silent, idle_timer_>>
       \/ /\ mode # "Ready" \/ ~ping_deadline_active
          /\ ghost' = (ghost /\ ~late)
          /\ ping_deadline_timer_' = IF late THEN ping_deadline_timer_ ELSE Off
          /\ UNCHANGED <<mode, open, silent, idle_timer_, ping_deadline_active, miss_count>>
    BY <1>4, Zenon DEF OnPingDeadlineExpired
  <2>2. CASE \E why : OnTransportClose(why)
    BY <2>2, CloseKeepsSilence
  <2>3. (late => ghost) /\ (~late => ping_deadline_timer_ = 0)
    BY <2>1, Zenon DEF Expired
  <2>4. ghost => ping_deadline_timer_ # 0
    BY <1>i
  <2>5. CASE /\ mode = "Ready" /\ ping_deadline_active /\ miss_count + 1 < MaxMissedPings
             /\ miss_count' = miss_count + 1
             /\ IF ~open
                THEN /\ ping_deadline_active' = FALSE
                     /\ ghost' = (ghost /\ ~late)
                     /\ ping_deadline_timer_' = IF late THEN ping_deadline_timer_ ELSE Off
                ELSE /\ ping_deadline_active' = TRUE /\ ping_deadline_timer_' = PingTimeout
                     /\ ghost' \in IF late THEN {FALSE, Expired(ping_deadline_timer_)} ELSE {ghost}
             /\ UNCHANGED <<mode, open, silent, idle_timer_>>
    <3>1. silent >= H + Waited(miss_count) + PingTimeout
      BY <1>i, <2>3, <2>5
    <3>2. ~ghost' /\ miss_count' = miss_count + 1 /\ mode' = "Ready" /\ UNCHANGED <<silent, idle_timer_>>
      BY <2>3, <2>4, <2>5, Zenon DEF Expired
    <3>3. Waited(miss_count') = Waited(miss_count) + PingTimeout /\ miss_count' < Misses
      BY <2>5
    <3>4. \/ ping_deadline_active' /\ ping_deadline_timer_' = PingTimeout
          \/ /\ ~ping_deadline_active' /\ ~open'
             /\ (ping_deadline_timer_' = ping_deadline_timer_ \/ ping_deadline_timer_' = Off)
      BY <2>5, Zenon
    <3>5. /\ H = 0 => idle_timer_' = Off
          /\ ping_deadline_timer_' <= PingTimeout /\ silent' >= H + Waited(miss_count')
      <4>1. H = 0 => idle_timer_' = Off
        BY <1>i, <3>2
      <4>2. ping_deadline_timer_' <= PingTimeout
        BY <1>i, <3>4
      <4>3. silent' >= H + Waited(miss_count')
        BY <3>1, <3>2, <3>3
      <4> QED BY <4>1, <4>2, <4>3
    <3>6. ping_deadline_timer_' >= 0 => ping_deadline_active' \/ ~open'
      BY <3>4
    <3>7. ping_deadline_active' =>
            /\ ping_deadline_timer_' >= 0
            /\ silent' >= H + Waited(miss_count') + PingTimeout - ping_deadline_timer_'
      BY <3>2, <3>3, <3>4, <3>5
    <3> QED BY <1>i, <3>2, <3>3, <3>5, <3>6, <3>7
  <2>6. CASE /\ mode # "Ready" \/ ~ping_deadline_active
             /\ ghost' = (ghost /\ ~late)
             /\ ping_deadline_timer_' = IF late THEN ping_deadline_timer_ ELSE Off
             /\ UNCHANGED <<mode, open, silent, idle_timer_, ping_deadline_active, miss_count>>
    <3>1. ~ghost' /\ ping_deadline_timer_' \in {ping_deadline_timer_, Off} /\ ~ping_deadline_active
      BY <1>i, <2>3, <2>4, <2>6
    <3> QED BY <1>i, <2>6, <3>1
  <2> QED BY <2>1, <2>2, <2>5, <2>6
<1>5. CASE SocketEnds \/ PeerDies
  <2>1. /\ UNCHANGED <<mode, silent, idle_timer_, ping_deadline_timer_, ghost, ping_deadline_active, miss_count>>
        /\ ~open' \/ UNCHANGED open
    BY <1>5, Zenon DEF SocketEnds, PeerDies, timerVars
  <2> QED BY <1>i, <2>1
<1>6. CASE Tick
  <2>1. /\ UNCHANGED <<mode, open, ghost, ping_deadline_active, miss_count>> /\ ~ghost
        /\ idle_timer_' = Later(idle_timer_) /\ ping_deadline_timer_' = Later(ping_deadline_timer_)
        /\ silent' = IF silent < MaxSilence THEN silent + 1 ELSE silent
        /\ ping_deadline_timer_ # 0
    BY <1>6, Zenon DEF Tick, Expired
  <2>2. H + Waited(miss_count) + PingTimeout <= MaxSilence /\ Waited(miss_count) \in Nat
    BY <1>i
  <2>3. /\ H = 0 => idle_timer_' = Off
        /\ ping_deadline_timer_' <= PingTimeout
        /\ ping_deadline_timer_' >= 0 => ping_deadline_active' \/ ~open'
    BY <1>i, <2>1 DEF Later
  <2>4. miss_count' > 0 => silent' >= H + Waited(miss_count')
    BY <1>i, <2>1, <2>2
  <2>5. ping_deadline_active' =>
          /\ mode' = "Ready" /\ ping_deadline_timer_' >= 0
          /\ silent' >= H + Waited(miss_count') + PingTimeout - ping_deadline_timer_'
    <3> SUFFICES ASSUME ping_deadline_active
                 PROVE  /\ mode' = "Ready" /\ ping_deadline_timer_' >= 0
                        /\ silent' >= H + Waited(miss_count') + PingTimeout - ping_deadline_timer_'
      BY <2>1
    <3>1. /\ mode = "Ready" /\ ping_deadline_timer_ \in Nat
          /\ silent >= H + Waited(miss_count) + PingTimeout - ping_deadline_timer_
      BY <1>i
    <3>2. ping_deadline_timer_' = ping_deadline_timer_ - 1
      BY <2>1, <3>1 DEF Later
    <3> QED BY <2>1, <2>2, <3>1, <3>2
  <2>6. mode' = "Down" => ~ghost' /\ ping_deadline_timer_' = Off /\ miss_count' = 0
    BY <1>i, <2>1 DEF Later
  <2> QED BY <1>i, <2>1, <2>3, <2>4, <2>5, <2>6
<1>7. CASE CloseHandled \/ RestoreFails
  BY <1>7, CloseKeepsSilence DEF CloseHandled, RestoreFails
<1>8. CASE UNCHANGED vars
  BY <1>i, <1>8 DEF vars, timerVars
<1> QED
  BY <1>1, <1>2, <1>3, <1>4, <1>5, <1>6, <1>7, <1>8 DEF Next, Timers

(* Silence is accounted for, for every choice of the options.              *)
THEOREM SilenceAccounted == Spec => []SilenceInv
<1>1. Init => SilenceInv
  <2> SUFFICES ASSUME Init PROVE SilenceInv
    OBVIOUS
  <2>1. ~ghost /\ ~ping_deadline_active
    BY Zenon DEF Init
  <2> QED BY <2>1, WaitedOps, OffNegative DEF Init, SilenceInv
<1> QED
  BY <1>1, HeartbeatTypeCorrect, SilenceStep, PTL DEF Spec

(* A robot is declared dead only after the interval and all the pings it   *)
(* may miss, for every choice of the options.                              *)
THEOREM NeverHasty == Spec => NoHastyVerdict
<1> DEFINE Verdict == mode # "Down" /\ mode' = "Down" /\ cause' = "HeartbeatDead"
           Enough == silent >= HeartbeatInterval + Misses * PingTimeout
<1>1. ASSUME HeartbeatType, SilenceInv, [Next]_vars, Verdict, vars' # vars PROVE Enough
  <2>1. OnPingDeadlineExpired
    BY <1>1 DEF Next, Timers, StartHeartbeat, ResetLivenessOnInbound, OnIdleTimerExpired,
                OnTransportClose, SocketEnds, CloseHandled, RestoreFails, PeerDies, Tick
  <2>2. /\ ghost \/ ping_deadline_timer_ = 0
        /\ ping_deadline_active /\ miss_count + 1 >= MaxMissedPings
    BY <1>1, <2>1 DEF OnPingDeadlineExpired, OnTransportClose, Expired
  <2>3. silent >= HeartbeatInterval + Waited(miss_count) + PingTimeout
    BY <1>1, <2>2, WaitedOps DEF SilenceInv, HeartbeatType, Waited
  <2>4. miss_count + 1 = Misses
    BY <1>1, <2>2, WaitedOps DEF SilenceInv, HeartbeatType, Misses
  <2>5. Waited(Misses) = Waited(miss_count) + PingTimeout
    BY <1>1, <2>4, WaitedOps DEF HeartbeatType
  <2> QED BY <1>1, <2>3, <2>5, WaitedOps DEF HeartbeatType, Waited
<1>2. HeartbeatType /\ SilenceInv /\ [Next]_vars => [Verdict => Enough]_vars
  BY <1>1
<1> QED
  BY <1>2, HeartbeatTypeCorrect, SilenceAccounted, PTL DEF Spec, NoHastyVerdict

-----------------------------------------------------------------------------
(* A silent robot is given up in time.  What the options must satisfy for  *)
(* that: a ping times out within the interval, a session is restored       *)
(* within it, and silence is counted beyond the time claimed.              *)
Timely ==
  PingTimeout < HeartbeatInterval /\ MaxRestore < HeartbeatInterval /\ DetectionTime < MaxSilence

(* The time of n intervals, and the pings that are missed in them.         *)
Intervals(n) == n * HeartbeatInterval
MissedIn(n) == n * MissesPerInterval

(* What division gives.                                                    *)
LEMMA Division ==
  ASSUME NEW a \in Nat, NEW b \in Nat, b > 0
  PROVE  /\ a \div b \in Nat /\ a % b \in Nat /\ a % b < b
         /\ a = (a \div b) * b + (a % b)
  OBVIOUS

LEMMA PingsFit ==
  ASSUME PingTimeout < HeartbeatInterval
  PROVE  /\ MissesPerInterval \in Nat /\ MissesPerInterval >= 1
         /\ Waited(MissesPerInterval) < HeartbeatInterval
<1>1. /\ HeartbeatInterval - 1 \in Nat /\ PingTimeout \in Nat /\ PingTimeout > 0
      /\ HeartbeatInterval \in Nat
  BY HeartbeatAssumption
<1> DEFINE q == MissesPerInterval
           b == (HeartbeatInterval - 1) % PingTimeout
<1>2. /\ q \in Nat /\ b \in Nat /\ b < PingTimeout
      /\ HeartbeatInterval - 1 = q * PingTimeout + b
  BY <1>1, Division DEF MissesPerInterval
<1> HIDE DEF q, b
<1>3. q # 0
  BY <1>1, <1>2
<1>4. Waited(q) \in Nat /\ HeartbeatInterval - 1 = Waited(q) + b
  BY <1>1, <1>2 DEF Waited
<1> QED BY <1>1, <1>2, <1>3, <1>4 DEF q

(* Products grow by one factor at a time.                                  *)
LEMMA Products ==
  ASSUME PingTimeout < HeartbeatInterval
  PROVE  /\ \A n \in Nat : /\ Intervals(n) \in Nat /\ Intervals(n + 1) = Intervals(n) + HeartbeatInterval
                           /\ MissedIn(n) \in Nat /\ MissedIn(n + 1) = MissedIn(n) + MissesPerInterval
         /\ \A m, n \in Nat : m <= n => /\ Intervals(m) <= Intervals(n) /\ MissedIn(m) <= MissedIn(n)
                                        /\ Waited(m) <= Waited(n)
         /\ Intervals(1) = HeartbeatInterval /\ MissedIn(0) = 0 /\ Waited(1) = PingTimeout
<1> DEFINE q == MissesPerInterval
           H == HeartbeatInterval
<1>1. H \in Nat /\ q \in Nat /\ PingTimeout \in Nat
  BY PingsFit, HeartbeatAssumption
<1>2. \A n \in Nat : /\ n * H \in Nat /\ (n + 1) * H = n * H + H
                     /\ n * q \in Nat /\ (n + 1) * q = n * q + q
  <2> HIDE DEF q, H
  <2> QED BY <1>1
<1>3. ASSUME NEW m \in Nat, NEW n \in Nat, m <= n
      PROVE  m * H <= n * H /\ m * q <= n * q /\ m * PingTimeout <= n * PingTimeout
  <2>1. PICK d \in Nat : n = m + d
    <3>1. n - m \in Nat /\ n = m + (n - m)
      BY <1>3
    <3> QED BY <3>1
  <2>2. ASSUME NEW x \in Nat PROVE m * x <= n * x
    <3>1. n * x = m * x + d * x /\ d * x \in Nat /\ m * x \in Nat
      BY <2>1
    <3> QED BY <3>1
  <2> QED BY <1>1, <2>2
<1>4. 1 * H = H /\ 0 * q = 0 /\ 1 * PingTimeout = PingTimeout
  BY <1>1
<1> QED BY <1>2, <1>3, <1>4 DEF Intervals, MissedIn, Waited

(* After j intervals and r missed pings since, with misses to spare, the   *)
(* silence is not longer than claimed.                                     *)
LEMMA WithinDetection ==
  ASSUME PingTimeout < HeartbeatInterval,
         NEW j \in Nat, NEW r \in Nat, NEW m \in Nat, NEW s \in Nat,
         j >= 1, m < Misses, m >= MissedIn(j - 1) + r,
         s <= Intervals(j + 1), s <= Intervals(j) + Waited(r + 1)
  PROVE  s <= DetectionTime
<1> DEFINE k == Misses - 1
           q == MissesPerInterval
           a == k \div q
           b == k % q
<1>1. q \in Nat /\ q > 0 /\ k \in Nat /\ m <= k /\ HeartbeatInterval \in Nat /\ j - 1 \in Nat
  BY PingsFit, WaitedOps
<1>2. a \in Nat /\ b \in Nat /\ b < q /\ k = MissedIn(a) + b
  BY <1>1, Division DEF MissedIn
<1>3. DetectionTime = HeartbeatInterval + Intervals(a) + Waited(b + 1)
  BY DEF DetectionTime, Intervals, Waited
<1> HIDE DEF k, q, a, b
<1>4. Waited(b + 1) \in Nat /\ Intervals(a) \in Nat /\ Intervals(a + 1) = Intervals(a) + HeartbeatInterval
  BY <1>2, WaitedOps, Products
<1>5. CASE j - 1 = a
  <2>1. r <= b
    BY <1>1, <1>2, <1>5, Products
  <2>2. Waited(r + 1) <= Waited(b + 1) /\ Waited(r + 1) \in Nat
    BY <1>2, <2>1, Products, WaitedOps
  <2>3. j = a + 1
    BY <1>2, <1>5
  <2> QED BY <1>1, <1>3, <1>4, <2>2, <2>3
<1>6. CASE j - 1 < a
  <2>1. Intervals(j + 1) <= Intervals(a + 1) /\ Intervals(j + 1) \in Nat
    BY <1>1, <1>2, <1>6, Products
  <2> QED BY <1>1, <1>3, <1>4, <2>1
<1>7. CASE j - 1 > a
  <2>1. MissedIn(a + 1) <= MissedIn(j - 1) /\ MissedIn(j - 1) \in Nat
    BY <1>1, <1>2, <1>7, Products
  <2>2. MissedIn(a + 1) = MissedIn(a) + q /\ MissedIn(a) \in Nat
    BY <1>2, Products DEF q
  <2> QED BY <1>1, <1>2, <2>1, <2>2
<1> QED BY <1>1, <1>2, <1>5, <1>6, <1>7

(* The time claimed is a number.                                           *)
LEMMA DetectionNumber ==
  ASSUME PingTimeout < HeartbeatInterval
  PROVE  DetectionTime \in Nat
<1> DEFINE k == Misses - 1
           q == MissesPerInterval
           a == k \div q
           b == k % q
<1>1. q \in Nat /\ q > 0 /\ k \in Nat /\ HeartbeatInterval \in Nat
  BY PingsFit, WaitedOps
<1>2. a \in Nat /\ b + 1 \in Nat
  BY <1>1, Division
<1>3. DetectionTime = HeartbeatInterval + Intervals(a) + Waited(b + 1)
  BY DEF DetectionTime, Intervals, Waited
<1> HIDE DEF k, q, a, b
<1>4. Intervals(a) \in Nat /\ Waited(b + 1) \in Nat
  BY <1>2, Products, WaitedOps
<1> QED BY <1>1, <1>3, <1>4

(* The pings since the robot fell silent: it has been silent for j whole   *)
(* intervals, at the end of each of which the idle timer sent a ping and   *)
(* armed the deadline anew, and r pings of the present one were missed.    *)
(* A deadline that was too late to be cancelled is as old as the new one.  *)
Pinging(j, r) ==
  /\ ping_deadline_active /\ (ghost => ping_deadline_timer_ = PingTimeout)
  /\ silent + idle_timer_ = Intervals(j + 1)
  /\ silent + ping_deadline_timer_ = Intervals(j) + Waited(r + 1)
  /\ miss_count >= MissedIn(j - 1) + r

(* The first idle timer since the robot fell silent has yet to expire, or  *)
(* pings are sent and missed.                                              *)
Watched ==
  /\ idle_timer_ >= 0 /\ idle_timer_ <= HeartbeatInterval
  /\ \/ silent + idle_timer_ <= HeartbeatInterval
     \/ \E j \in Nat \ {0}, r \in Nat : Pinging(j, r)

DetectionInv == Timely =>
  /\ mode = "Ready" => silent <= DetectionTime
  /\ mode = "Restoring" /\ open =>
       /\ idle_timer_ + restoring = HeartbeatInterval
       /\ silent <= restoring /\ restoring <= MaxRestore
  /\ mode = "Ready" /\ open => Watched

(* A watched robot is not silent for longer than claimed.                  *)
LEMMA WatchedInTime ==
  HeartbeatType /\ SilenceInv /\ Timely /\ mode = "Ready" /\ Watched => silent <= DetectionTime
<1> SUFFICES ASSUME HeartbeatType, SilenceInv, Timely, mode = "Ready", Watched
             PROVE  silent <= DetectionTime
  OBVIOUS
<1>1. silent \in Nat /\ miss_count \in Nat /\ miss_count < Misses /\ HeartbeatInterval \in Nat
  BY HeartbeatAssumption DEF HeartbeatType, SilenceInv
<1>2. PingTimeout < HeartbeatInterval
  BY DEF Timely
<1>p. /\ \A n \in Nat : /\ Intervals(n) \in Nat /\ Intervals(n + 1) = Intervals(n) + HeartbeatInterval
                        /\ MissedIn(n) \in Nat /\ MissedIn(n + 1) = MissedIn(n) + MissesPerInterval
      /\ \A m, n \in Nat : m <= n => Waited(m) <= Waited(n)
      /\ Intervals(1) = HeartbeatInterval /\ MissedIn(0) = 0 /\ Waited(1) = PingTimeout
  BY <1>2, Products
<1>3. idle_timer_ \in Nat /\ idle_timer_ <= HeartbeatInterval
  BY OffNegative DEF Watched, HeartbeatType
<1>4. CASE silent + idle_timer_ <= HeartbeatInterval
  <2>1. /\ Intervals(1) = HeartbeatInterval /\ Intervals(1 + 1) \in Nat
        /\ Intervals(1 + 1) = Intervals(1) + HeartbeatInterval
    BY <1>p
  <2>2. Waited(0 + 1) \in Nat /\ MissedIn(1 - 1) = 0
    BY <1>p, WaitedOps
  <2>3. silent <= Intervals(1 + 1) /\ silent <= Intervals(1) + Waited(0 + 1)
    BY <1>1, <1>3, <1>4, <2>1, <2>2
  <2>4. miss_count >= MissedIn(1 - 1) + 0
    BY <1>1, <2>2
  <2> QED BY <1>1, <1>2, <2>3, <2>4, WithinDetection
<1>5. CASE \E j \in Nat \ {0}, r \in Nat : Pinging(j, r)
  <2>1. PICK j \in Nat \ {0}, r \in Nat : Pinging(j, r)
    BY <1>5
  <2>n. /\ j - 1 \in Nat /\ (j - 1) + 1 = j /\ j \in Nat /\ j + 1 \in Nat
        /\ r + 1 \in Nat
    OBVIOUS
  <2>m. /\ Intervals(j) \in Nat /\ Intervals(j + 1) = Intervals(j) + HeartbeatInterval
        /\ MissedIn(j - 1) \in Nat /\ MissedIn(j) = MissedIn(j - 1) + MissesPerInterval
    <3>1. MissedIn((j - 1) + 1) = MissedIn(j - 1) + MissesPerInterval
      BY <2>n, <1>p
    <3> QED BY <2>n, <3>1, <1>p
  <2>w. Waited(r + 1) \in Nat /\ Waited((r + 1) + 1) = Waited(r + 1) + PingTimeout
    BY <2>n, WaitedOps
  <2>2. ping_deadline_timer_ \in Nat
    BY <2>1, OffNegative DEF Pinging, SilenceInv, HeartbeatType
  <2>3. silent <= Intervals(j + 1) /\ silent <= Intervals(j) + Waited(r + 1)
    BY <1>1, <1>3, <2>1, <2>2, <2>m, <2>w DEF Pinging
  <2>4. miss_count >= MissedIn(j - 1) + r
    BY <2>1 DEF Pinging
  <2> QED BY <1>1, <1>2, <2>3, <2>4, WithinDetection
<1> QED BY <1>4, <1>5 DEF Watched

(* The same of the next state.                                             *)
LEMMA WatchedInTimeNext ==
  (HeartbeatType /\ SilenceInv /\ Timely /\ mode = "Ready" /\ Watched => silent <= DetectionTime)'
  BY WatchedInTime, PTL

(* The idle timer of a silent robot expires: the pings of one interval     *)
(* more have been missed, as many as fit in it.                            *)
LEMMA IdleKeepsWatch ==
  ASSUME HeartbeatType, SilenceInv, Timely, Watched, mode = "Ready", silent >= HeartbeatInterval,
         idle_timer_ = 0, SendPing(ghost), idle_timer_' = HeartbeatInterval,
         UNCHANGED <<silent, miss_count>>
  PROVE  Watched'
<1>1. silent \in Nat /\ miss_count \in Nat /\ HeartbeatInterval \in Nat /\ PingTimeout \in Nat
  BY HeartbeatAssumption DEF HeartbeatType
<1>2. PingTimeout < HeartbeatInterval
  BY DEF Timely
<1>p. /\ \A n \in Nat : /\ Intervals(n) \in Nat /\ Intervals(n + 1) = Intervals(n) + HeartbeatInterval
                        /\ MissedIn(n) \in Nat /\ MissedIn(n + 1) = MissedIn(n) + MissesPerInterval
      /\ \A m, n \in Nat : m <= n => Waited(m) <= Waited(n)
      /\ Intervals(1) = HeartbeatInterval /\ MissedIn(0) = 0 /\ Waited(1) = PingTimeout
  BY <1>2, Products
<1>3. ping_deadline_active' /\ ping_deadline_timer_' = PingTimeout
  BY DEF SendPing
<1>4. CASE silent + idle_timer_ <= HeartbeatInterval
  <2>1. silent = HeartbeatInterval
    BY <1>1, <1>4
  <2>2. Pinging(1, 0)'
    <3>1. /\ silent' + idle_timer_' = Intervals(1 + 1) /\ MissedIn(1 - 1) + 0 = 0
          /\ silent' + ping_deadline_timer_' = Intervals(1) + Waited(0 + 1)
      <4>1. Intervals(1 + 1) = HeartbeatInterval + HeartbeatInterval
        BY <1>p
      <4>2. MissedIn(1 - 1) = 0 /\ Waited(0 + 1) = PingTimeout /\ Intervals(1) = HeartbeatInterval
        BY <1>p
      <4>3. silent' = HeartbeatInterval
        BY <2>1
      <4> QED BY <1>1, <1>3, <4>1, <4>2, <4>3
    <3>2. miss_count' >= MissedIn(1 - 1) + 0
      BY <1>1, <3>1
    <3> QED BY <1>1, <1>3, <3>1, <3>2 DEF Pinging
  <2> QED BY <1>1, <2>2 DEF Watched
<1>5. CASE \E j \in Nat \ {0}, r \in Nat : Pinging(j, r)
  <2>1. PICK j \in Nat \ {0}, r \in Nat : Pinging(j, r)
    BY <1>5
  <2>n. /\ j - 1 \in Nat /\ (j - 1) + 1 = j /\ j \in Nat /\ j + 1 \in Nat
        /\ r + 1 \in Nat
    OBVIOUS
  <2>m. /\ Intervals(j) \in Nat /\ Intervals(j + 1) = Intervals(j) + HeartbeatInterval
        /\ MissedIn(j - 1) \in Nat /\ MissedIn(j) = MissedIn(j - 1) + MissesPerInterval
    <3>1. MissedIn((j - 1) + 1) = MissedIn(j - 1) + MissesPerInterval
      BY <2>n, <1>p
    <3> QED BY <2>n, <3>1, <1>p
  <2>w. Waited(r + 1) \in Nat /\ Waited((r + 1) + 1) = Waited(r + 1) + PingTimeout
    BY <2>n, WaitedOps
  <2> DEFINE q == MissesPerInterval
  <2>2. q \in Nat /\ Waited(q) < HeartbeatInterval
    BY <1>2, PingsFit
  <2>3. ping_deadline_timer_ \in Nat
    BY <2>1, OffNegative DEF Pinging, SilenceInv, HeartbeatType
  <2>4. silent = Intervals(j + 1) /\ silent = Intervals(j) + HeartbeatInterval
    BY <1>1, <1>2, <2>1, <1>p DEF Pinging
  <2>5. Waited(r + 1) >= HeartbeatInterval
    BY <1>1, <2>1, <2>3, <2>4, <2>m, <2>w DEF Pinging
  <2>6. r >= q
    <3> SUFFICES ASSUME r + 1 <= q PROVE FALSE
      BY <2>2
    <3>1. Waited(r + 1) <= Waited(q) /\ Waited(r + 1) \in Nat /\ Waited(q) \in Nat
      BY <2>2, <2>n, <1>p, WaitedOps
    <3> QED BY <1>1, <2>2, <2>5, <3>1
  <2>7. MissedIn(j) = MissedIn(j - 1) + q /\ MissedIn(j - 1) \in Nat
    BY <2>m
  <2>8. miss_count >= MissedIn(j) + 0
    BY <1>1, <2>1, <2>2, <2>6, <2>7 DEF Pinging
  <2>9. (j + 1) - 1 = j /\ j + 1 \in Nat \ {0}
    OBVIOUS
  <2>10. silent + HeartbeatInterval = Intervals((j + 1) + 1)
    BY <1>2, <2>4, <2>9, <1>p
  <2>11. silent + PingTimeout = Intervals(j + 1) + Waited(0 + 1)
    BY <1>2, <2>4, <1>p
  <2>12. Pinging(j + 1, 0)'
    BY <1>3, <2>8, <2>9, <2>10, <2>11 DEF Pinging
  <2> QED BY <1>1, <2>9, <2>12 DEF Watched
<1> QED BY <1>4, <1>5 DEF Watched

(* A ping is missed: the deadline as armed, or one queued before it was.   *)
LEMMA MissKeepsWatch ==
  ASSUME HeartbeatType, SilenceInv, Timely, Watched,
         ghost \/ ping_deadline_timer_ = 0, miss_count' = miss_count + 1,
         ping_deadline_active', ping_deadline_timer_' = PingTimeout,
         UNCHANGED <<silent, idle_timer_>>
  PROVE  Watched'
<1>1. silent \in Nat /\ miss_count \in Nat /\ HeartbeatInterval \in Nat /\ PingTimeout \in Nat
  BY HeartbeatAssumption DEF HeartbeatType
<1>2. PingTimeout < HeartbeatInterval
  BY DEF Timely
<1>p. /\ \A n \in Nat : /\ Intervals(n) \in Nat /\ Intervals(n + 1) = Intervals(n) + HeartbeatInterval
                        /\ MissedIn(n) \in Nat /\ MissedIn(n + 1) = MissedIn(n) + MissesPerInterval
      /\ \A m, n \in Nat : m <= n => Waited(m) <= Waited(n)
      /\ Intervals(1) = HeartbeatInterval /\ MissedIn(0) = 0 /\ Waited(1) = PingTimeout
  BY <1>2, Products
<1>4. CASE silent + idle_timer_ <= HeartbeatInterval
  BY <1>4 DEF Watched
<1>5. CASE \E j \in Nat \ {0}, r \in Nat : Pinging(j, r)
  <2>1. PICK j \in Nat \ {0}, r \in Nat : Pinging(j, r)
    BY <1>5
  <2>n. /\ j - 1 \in Nat /\ (j - 1) + 1 = j /\ j \in Nat /\ j + 1 \in Nat
        /\ r + 1 \in Nat
    OBVIOUS
  <2>m. /\ Intervals(j) \in Nat /\ Intervals(j + 1) = Intervals(j) + HeartbeatInterval
        /\ MissedIn(j - 1) \in Nat /\ MissedIn(j) = MissedIn(j - 1) + MissesPerInterval
    <3>1. MissedIn((j - 1) + 1) = MissedIn(j - 1) + MissesPerInterval
      BY <2>n, <1>p
    <3> QED BY <2>n, <3>1, <1>p
  <2>w. Waited(r + 1) \in Nat /\ Waited((r + 1) + 1) = Waited(r + 1) + PingTimeout
    BY <2>n, WaitedOps
  <2>2. MissedIn(j - 1) \in Nat
    BY <2>m
  <2>3. CASE ghost
    <3>1. Pinging(j, r)'
      BY <1>1, <2>1, <2>2, <2>3 DEF Pinging
    <3> QED BY <3>1 DEF Watched
  <2>4. CASE ping_deadline_timer_ = 0
    <3>1. silent + PingTimeout = Intervals(j) + Waited((r + 1) + 1)
      <4>1. silent = Intervals(j) + Waited(r + 1)
        BY <1>1, <2>1, <2>4 DEF Pinging
      <4> QED BY <1>1, <2>m, <2>w, <4>1
    <3>2. miss_count' >= MissedIn(j - 1) + (r + 1)
      BY <1>1, <2>1, <2>2 DEF Pinging
    <3>3. Pinging(j, r + 1)'
      BY <2>1, <3>1, <3>2 DEF Pinging
    <3> QED BY <3>3 DEF Watched
  <2> QED BY <2>3, <2>4
<1> QED BY <1>4, <1>5 DEF Watched

(* A tick brings both timers nearer by as much as it adds to the silence.  *)
LEMMA TickKeepsWatch ==
  ASSUME HeartbeatType, SilenceInv, Timely, Watched, Tick, silent < MaxSilence
  PROVE  Watched'
<1>1. /\ silent \in Nat /\ HeartbeatInterval \in Nat /\ PingTimeout \in Nat
      /\ idle_timer_ \in Nat \ {0} /\ idle_timer_ <= HeartbeatInterval
  BY HeartbeatAssumption, OffNegative DEF HeartbeatType, Watched, Tick, Expired
<1>2. silent' = silent + 1 /\ idle_timer_' = idle_timer_ - 1 /\ miss_count' = miss_count
  BY <1>1 DEF Tick, Later
<1>3. ~ghost' /\ ping_deadline_active' = ping_deadline_active
  BY Zenon DEF Tick
<1>4. CASE silent + idle_timer_ <= HeartbeatInterval
  BY <1>1, <1>2, <1>4 DEF Watched
<1>5. CASE \E j \in Nat \ {0}, r \in Nat : Pinging(j, r)
  <2>1. PICK j \in Nat \ {0}, r \in Nat : Pinging(j, r)
    BY <1>5
  <2>2. ping_deadline_timer_ \in Nat \ {0}
    BY <2>1, OffNegative DEF Pinging, SilenceInv, HeartbeatType, Tick, Expired
  <2>3. ping_deadline_timer_' = ping_deadline_timer_ - 1
    BY <2>2 DEF Tick, Later
  <2>4. /\ silent' + idle_timer_' = silent + idle_timer_
        /\ silent' + ping_deadline_timer_' = silent + ping_deadline_timer_
    BY <1>1, <1>2, <2>2, <2>3
  <2>5. Pinging(j, r)'
    BY <1>2, <1>3, <2>1, <2>4 DEF Pinging
  <2> QED BY <1>1, <1>2, <2>5 DEF Watched
<1> QED BY <1>4, <1>5 DEF Watched

(* Messages, timers, the end of the socket and the passing of time keep    *)
(* the robot watched.                                                      *)
LEMMA DetectionStep ==
  HeartbeatType /\ HeartbeatType' /\ SilenceInv /\ SilenceInv' /\ DetectionInv /\ [Next]_vars
    => DetectionInv'
<1> SUFFICES ASSUME HeartbeatType, HeartbeatType', SilenceInv, SilenceInv', DetectionInv, [Next]_vars, Timely
             PROVE  DetectionInv'
  BY DEF DetectionInv, Timely, DetectionTime, MissesPerInterval, Misses
<1>1. /\ mode = "Ready" => silent <= DetectionTime
      /\ mode = "Restoring" /\ open =>
           /\ idle_timer_ + restoring = HeartbeatInterval
           /\ silent <= restoring /\ restoring <= MaxRestore
      /\ mode = "Ready" /\ open => Watched
  BY DEF DetectionInv
<1>2. /\ silent \in Nat /\ restoring \in Nat /\ idle_timer_ \in Nat \cup {Off} /\ Off \in Int /\ Off < 0
      /\ HeartbeatInterval \in Nat /\ HeartbeatInterval > 0 /\ MaxRestore \in Nat
      /\ MaxRestore < HeartbeatInterval
  BY HeartbeatAssumption, OffNegative DEF HeartbeatType, Timely
<1>t. Timely' /\ DetectionTime' = DetectionTime
  BY DEF Timely, DetectionTime, MissesPerInterval, Misses
<1>w. Watched' /\ mode' = "Ready" => silent' <= DetectionTime
  BY <1>t, WatchedInTimeNext
<1>d. ASSUME mode' = "Down" PROVE DetectionInv'
  BY <1>d DEF DetectionInv
<1>c. ASSUME NEW why, OnTransportClose(why) PROVE mode' = "Down"
  BY <1>c DEF OnTransportClose
<1>k. ASSUME UNCHANGED <<mode, silent>>, ~open' PROVE DetectionInv'
  BY <1>1, <1>k, <1>t DEF DetectionInv
<1>s. ASSUME Watched', mode' = "Ready" PROVE DetectionInv'
  BY <1>s, <1>t, <1>w DEF DetectionInv
<1>3. CASE StartHeartbeat
  <2>1. silent' = 0 /\ restoring' = 0 /\ idle_timer_' = HeartbeatInterval /\ mode' \in {"Restoring", "Ready"}
    BY <1>2, <1>3 DEF StartHeartbeat
  <2>2. CASE mode' = "Ready"
    <3>1. Watched'
      BY <1>2, <2>1 DEF Watched
    <3> QED BY <1>s, <2>2, <3>1
  <2>3. CASE mode' = "Restoring"
    BY <1>2, <2>1, <2>3 DEF DetectionInv
  <2> QED BY <2>1, <2>2, <2>3
<1>4. CASE ResetLivenessOnInbound
  <2>1. /\ mode # "Down" /\ open /\ silent' = 0 /\ UNCHANGED <<open, idle_timer_, restoring>>
        /\ mode' = "Ready" \/ UNCHANGED mode
    BY <1>4, Zenon DEF ResetLivenessOnInbound
  <2>2. mode \in {"Restoring", "Ready"}
    BY <2>1 DEF HeartbeatType
  <2>3. idle_timer_ >= 0 /\ idle_timer_ <= HeartbeatInterval
    BY <1>1, <1>2, <2>1, <2>2 DEF Watched
  <2>4. CASE mode' = "Ready"
    <3>1. Watched'
      BY <1>2, <2>1, <2>3 DEF Watched
    <3> QED BY <1>s, <2>4, <3>1
  <2>5. CASE mode' # "Ready"
    <3>1. mode = "Restoring" /\ mode' = "Restoring"
      BY <2>1, <2>2, <2>5
    <3> QED BY <1>1, <1>2, <2>1, <3>1 DEF DetectionInv
  <2> QED BY <2>4, <2>5
<1>5. CASE OnIdleTimerExpired
  <2>1. idle_timer_ = 0
    BY <1>5 DEF OnIdleTimerExpired, Expired
  <2>2. CASE OnTransportClose("SendFailed")
    BY <1>c, <1>d, <2>2
  <2>3. CASE /\ mode = "Ready" /\ silent < HeartbeatInterval /\ idle_timer_' = HeartbeatInterval - silent
             /\ UNCHANGED <<mode, silent>>
    <3>1. Watched'
      BY <1>2, <2>3 DEF Watched
    <3> QED BY <1>s, <2>3, <3>1
  <2>4. CASE /\ mode = "Ready" /\ silent >= HeartbeatInterval /\ open
             /\ SendPing(ghost) /\ idle_timer_' = HeartbeatInterval
             /\ UNCHANGED <<mode, silent, miss_count>>
    <3>1. Watched'
      BY <1>1, <2>1, <2>4, IdleKeepsWatch
    <3> QED BY <1>s, <2>4, <3>1
  <2>5. CASE /\ mode # "Ready" \/ (silent >= HeartbeatInterval /\ ~open)
             /\ UNCHANGED <<mode, open, silent>>
    <3>1. CASE ~open
      BY <1>k, <2>5, <3>1
    <3>2. CASE open
      <4>1. mode # "Ready" /\ mode # "Restoring"
        BY <1>1, <1>2, <2>1, <2>5, <3>2
      <4>2. mode' = "Down"
        BY <2>5, <4>1 DEF HeartbeatType
      <4> QED BY <1>d, <4>2
    <3> QED BY <3>1, <3>2
  <2> QED BY <1>5, <2>2, <2>3, <2>4, <2>5, Zenon DEF OnIdleTimerExpired
<1>6. CASE OnPingDeadlineExpired
  <2>1. CASE \E why : OnTransportClose(why)
    BY <1>c, <1>d, <2>1
  <2>2. CASE /\ mode = "Ready" /\ open /\ (ghost \/ ping_deadline_timer_ = 0) /\ miss_count' = miss_count + 1
             /\ ping_deadline_active' /\ ping_deadline_timer_' = PingTimeout
             /\ UNCHANGED <<mode, silent, idle_timer_>>
    <3>1. Watched'
      BY <1>1, <2>2, MissKeepsWatch
    <3> QED BY <1>s, <2>2, <3>1
  <2>3. CASE ~open /\ UNCHANGED <<mode, open, silent>>
    BY <1>k, <2>3
  <2>4. CASE /\ mode # "Ready" \/ ~ping_deadline_active
             /\ ghost' => ghost
             /\ UNCHANGED <<mode, open, silent, restoring, idle_timer_>>
    <3>1. CASE mode = "Ready" /\ open
      <4>1. silent + idle_timer_ <= HeartbeatInterval /\ idle_timer_ >= 0 /\ idle_timer_ <= HeartbeatInterval
        BY <1>1, <2>4, <3>1 DEF Watched, Pinging
      <4>2. Watched'
        BY <2>4, <4>1 DEF Watched
      <4> QED BY <1>s, <2>4, <3>1, <4>2
    <3>2. CASE ~(mode = "Ready" /\ open)
      BY <1>1, <1>t, <2>4, <3>2 DEF DetectionInv
    <3> QED BY <3>1, <3>2
  <2> QED BY <1>6, <2>1, <2>2, <2>3, <2>4, Zenon DEF OnPingDeadlineExpired, Expired
<1>7. CASE SocketEnds
  BY <1>7, <1>k DEF SocketEnds
<1>8. CASE CloseHandled \/ RestoreFails
  BY <1>8, <1>c, <1>d DEF CloseHandled, RestoreFails
<1>9. CASE PeerDies \/ UNCHANGED vars
  <2>1. UNCHANGED <<mode, open, silent, idle_timer_, ping_deadline_timer_, ghost, ping_deadline_active,
                    miss_count, restoring>>
    BY <1>9, Zenon DEF PeerDies, vars, timerVars
  <2> QED BY <2>1, <1>t DEF DetectionInv, Watched, Pinging
<1>10. CASE Tick
  <2>1. /\ UNCHANGED <<mode, open>> /\ (mode # "Down" => open)
        /\ ~Expired(idle_timer_)
    BY <1>10, Zenon DEF Tick
  <2>2. CASE mode = "Ready"
    <3>1. silent < MaxSilence
      BY <1>1, <1>2, <2>2, DetectionNumber, HeartbeatAssumption DEF Timely
    <3>2. Watched'
      BY <1>1, <1>10, <2>1, <2>2, <3>1, TickKeepsWatch
    <3> QED BY <1>s, <2>1, <2>2, <3>2
  <2>3. CASE mode = "Restoring"
    <3>1. /\ idle_timer_ + restoring = HeartbeatInterval
          /\ silent <= restoring /\ restoring < MaxRestore
      BY <1>1, <1>10, <2>1, <2>3 DEF Tick
    <3>2. idle_timer_' = idle_timer_ - 1 /\ restoring' = restoring + 1 /\ silent' \in {silent, silent + 1}
      BY <1>2, <1>10, <2>3, <3>1 DEF Tick, Later
    <3>3. mode' = "Restoring"
      BY <2>1, <2>3
    <3> QED BY <1>2, <3>1, <3>2, <3>3 DEF DetectionInv
  <2>4. CASE mode = "Down"
    BY <1>d, <2>1, <2>4
  <2> QED BY <2>2, <2>3, <2>4 DEF HeartbeatType
<1> QED
  BY <1>3, <1>4, <1>5, <1>6, <1>7, <1>8, <1>9, <1>10 DEF Next, Timers

(* For every interval, timeout and number of pings that may be missed, if  *)
(* a ping times out within the interval and a session is restored within   *)
(* it: a robot that falls silent is given up within DetectionTime.         *)
THEOREM SilentGivenUp == Spec => [](Timely => DetectedInTime)
<1>1. Init => DetectionInv
  BY DEF Init, DetectionInv
<1>2. Spec => []DetectionInv
  BY <1>1, HeartbeatTypeCorrect, SilenceAccounted, DetectionStep, PTL DEF Spec
<1>3. DetectionInv => (Timely => DetectedInTime)
  BY DEF DetectionInv, DetectedInTime
<1> QED
  BY <1>2, <1>3, PTL
=============================================================================

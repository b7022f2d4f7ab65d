------------------------------ MODULE CanProxy ------------------------------
(***************************************************************************)
(* src/tools/can_proxy.c: the Linux process that puts the current commands *)
(* of the RT-Thread core, received over UDP, on the CAN bus and sends the  *)
(* motors' state back.  The world is the RT-Thread side (any packet may    *)
(* arrive at any time), the motors, the CAN interface and SIGTERM.         *)
(*                                                                         *)
(* Time is kept as in ChassisControl: a stamp is an age in ticks and so is *)
(* the clock reading `now` of the iteration.  A stamp that is still 0 in   *)
(* the code is Never.  The four wheels are treated alike, so a command is  *)
(* one current value.                                                      *)
(*   pc: "off", "top" asleep or at while (g_running), "drain"              *)
(*   drain_feedback, "recv" receive_udp, "serve" the rest of the           *)
(*   iteration, "zero" send_zero_current at the end of main.               *)
(***************************************************************************)
EXTENDS Integers, Sequences

CONSTANTS
    Motor,
    Value,           \* current values that packets carry
    MaxCurrent,      \* --max-current
    Timeout,         \* timeout fields that packets carry
    MaxTimeout,      \* bound: the largest of them
    DefaultTimeout,  \* DEFAULT_COMMAND_TIMEOUT_MS
    OnlineTimeout,   \* the 200 ms of online_mask
    SendPeriod,      \* the 10 ms between two current frames
    StatePeriod,     \* STATE_PERIOD_MS
    Modulus,         \* 2^64, the modulus of uint64_t
    MaxLoop,         \* bound: ticks an iteration may take
    ZeroRepeat,      \* ZERO_REPEAT
    UdpCap,          \* bound: packets the socket buffer holds
    Burst            \* bound: packets that arrive within one tick

ASSUME ProxyAssumption ==
    /\ Value \subseteq Int
    /\ MaxCurrent \in Nat
    /\ MaxTimeout \in Nat
    /\ Timeout \subseteq 0 .. MaxTimeout
    /\ DefaultTimeout \in 0 .. MaxTimeout
    /\ OnlineTimeout \in Nat /\ SendPeriod \in Nat /\ StatePeriod \in Nat
    /\ MaxLoop \in Nat \ {0}
    /\ ZeroRepeat \in Nat \ {0}
    /\ Modulus \in Nat /\ Modulus > OnlineTimeout + 2 * MaxLoop + 1
    /\ UdpCap \in Nat /\ Burst \in Nat

Never == -1

\* Ages past these are not told apart.
CommandCap  == MaxTimeout + MaxLoop + 1
FeedbackCap == OnlineTimeout + MaxLoop + 1
SendCap     == SendPeriod + MaxLoop
StateCap    == StatePeriod + MaxLoop
ArrivalCap  == MaxTimeout + 3 * MaxLoop + 1

Older(a, cap) == IF a # Never /\ a < cap THEN a + 1 ELSE a

\* "other": a heartbeat, a type that is ignored, or a CURRENT_COMMAND whose payload
\* length is wrong; "bad": parse_header refuses the packet.
Packet == [type : {"current"}, value : Value, timeout : Timeout]
            \union [type : {"estop", "other", "bad"}]

VARIABLES
    pc,
    allow_current,   \* --allow-current
    now,
    current_command, \* state.current_command
    current_timeout, \* state.current_timeout_ms
    last_command,    \* state.last_current_command_ms
    last_feedback,   \* state.last_feedback_ms
    last_current,    \* last_current_ms of main
    last_state,      \* last_state_ms of main
    peer_known,
    stateOut,        \* the state packet sent by the last iteration, if any
    g_running,
    zeroLeft,
    udp,             \* packets in the socket's buffer
    canRx,           \* motors with a feedback frame in the CAN socket's buffer
    bus,             \* the last current frame on the bus, 0 before the first
    canUp,
    driveArrived,    \* age of the last non-zero current packet that arrived
    estopLast,       \* of current and estop packets, one of estop arrived last
    burst,
    lost             \* frames of send_zero_current that failed

proxy == <<pc, allow_current, now, current_command, current_timeout, last_command,
           last_feedback, last_current, last_state, peer_known, stateOut,
           g_running, zeroLeft>>
world == <<udp, canRx, bus, canUp, driveArrived, estopLast, burst, lost>>
vars  == <<proxy, world>>

Running == {"top", "drain", "recv", "serve"}

TypeOK ==
    /\ pc \in Running \union {"off", "zero"}
    /\ allow_current \in BOOLEAN
    /\ now \in 0 .. MaxLoop
    /\ current_command \in Int
    /\ current_timeout \in 0 .. MaxTimeout
    /\ last_command \in Never .. CommandCap
    /\ last_feedback \in [Motor -> Never .. FeedbackCap]
    /\ last_current \in 0 .. SendCap
    /\ last_state \in 0 .. StateCap
    /\ peer_known \in BOOLEAN
    /\ stateOut \in Seq([mask : SUBSET Motor, current : Int])
    /\ g_running \in BOOLEAN
    /\ zeroLeft \in 0 .. ZeroRepeat
    /\ udp \in Seq(Packet)
    /\ canRx \in SUBSET Motor
    /\ bus \in Int
    /\ canUp \in BOOLEAN
    /\ driveArrived \in 0 .. ArrivalCap
    /\ estopLast \in BOOLEAN
    /\ burst \in Nat
    /\ lost \in 0 .. ZeroRepeat

\* main up to the loop, with a socket of its own for CAN and for UDP.  When one of
\* them cannot be opened main returns 1 before it sends anything.
FreshProcess ==
    /\ pc \in {"top", "off"} /\ allow_current \in BOOLEAN
    /\ now = 0 /\ current_command = 0 /\ current_timeout = DefaultTimeout
    /\ last_command = Never /\ last_feedback = [m \in Motor |-> Never]
    /\ last_current = SendCap /\ last_state = StateCap
    /\ peer_known = FALSE /\ stateOut = << >>
    /\ g_running = TRUE /\ zeroLeft = 0
    /\ udp = << >> /\ canRx = {}
    /\ driveArrived = ArrivalCap /\ estopLast = FALSE /\ burst = 0 /\ lost = 0

Init == FreshProcess /\ bus = 0 /\ canUp \in BOOLEAN
-----------------------------------------------------------------------------
Bad_clamp(value) == IF value > MaxCurrent THEN MaxCurrent ELSE value
clamp_current(value) ==
    IF value > MaxCurrent THEN MaxCurrent
    ELSE IF value < -MaxCurrent THEN -MaxCurrent ELSE value

\* now_ms - last_feedback_ms[i] is unsigned: a stamp later than `now` wraps.
online_mask ==
    {m \in Motor : /\ last_feedback[m] # Never
                   /\ (last_feedback[m] - now) % Modulus <= OnlineTimeout}

\* The condition under which main sends current frames.
Bad_WindowOpen == allow_current /\ last_command # Never
WindowOpen ==
    /\ allow_current /\ last_command # Never
    /\ last_command - now <= current_timeout

\* The state packet of the last iteration is on its way and no longer of concern.
LoopTop ==
    /\ pc = "top" /\ g_running
    /\ pc' = "drain" /\ now' = 0 /\ stateOut' = << >>
    /\ UNCHANGED <<allow_current, current_command, current_timeout, last_command,
                   last_feedback, last_current, last_state, peer_known,
                   g_running, zeroLeft, world>>

\* drain_feedback: one frame, stamped with a clock reading of its own
DrainFrame(m) ==
    /\ pc = "drain" /\ m \in canRx
    /\ last_feedback' = [last_feedback EXCEPT ![m] = 0]
    /\ canRx' = canRx \ {m}
    /\ UNCHANGED <<pc, allow_current, now, current_command, current_timeout,
                   last_command, last_current, last_state, peer_known, stateOut,
                   g_running, zeroLeft, udp, bus, canUp, driveArrived, estopLast,
                   burst, lost>>

DrainDone ==
    /\ pc = "drain" /\ canRx = {}
    /\ pc' = "recv"
    /\ UNCHANGED <<allow_current, now, current_command, current_timeout, last_command,
                   last_feedback, last_current, last_state, peer_known, stateOut,
                   g_running, zeroLeft, world>>

\* the body of receive_udp for a CURRENT_COMMAND of the right length
Bad_ApplyCurrent(p) ==
    /\ current_command' = clamp_current(p.value)
    /\ current_timeout' = IF p.timeout = 0 THEN DefaultTimeout ELSE p.timeout
    /\ last_command' = now
ApplyCurrent(p) ==
    IF allow_current
    THEN /\ current_command' = clamp_current(p.value)
         /\ current_timeout' = IF p.timeout = 0 THEN DefaultTimeout ELSE p.timeout
         /\ last_command' = now
    ELSE /\ current_command' = 0
         /\ UNCHANGED <<current_timeout, last_command>>

\* the same for an ESTOP: the window stays as it is
Bad_ApplyEstop == UNCHANGED <<current_command, current_timeout, last_command>>
ApplyEstop == current_command' = 0 /\ UNCHANGED <<current_timeout, last_command>>

\* receive_udp: one packet.  Neither the sequence number nor the sender is checked.
RecvPacket ==
    /\ pc = "recv" /\ udp # << >>
    /\ LET p == Head(udp)
       IN  /\ peer_known' = (peer_known \/ p.type # "bad")
           /\ \/ p.type = "current" /\ ApplyCurrent(p)
              \/ p.type = "estop" /\ ApplyEstop
              \/ /\ p.type \notin {"current", "estop"}
                 /\ UNCHANGED <<current_command, current_timeout, last_command>>
    /\ udp' = Tail(udp)
    /\ UNCHANGED <<pc, allow_current, now, last_feedback, last_current, last_state,
                   stateOut, g_running, zeroLeft, canRx, bus, canUp, driveArrived,
                   estopLast, burst, lost>>

RecvDone ==
    /\ pc = "recv" /\ udp = << >>
    /\ pc' = "serve"
    /\ UNCHANGED <<allow_current, now, current_command, current_timeout, last_command,
                   last_feedback, last_current, last_state, peer_known, stateOut,
                   g_running, zeroLeft, world>>

\* Inside the window a frame every SendPeriod, outside it the command is cleared
\* and NO frame is sent.  A failed send is ignored.
ServeCurrent ==
    IF WindowOpen
    THEN /\ UNCHANGED current_command
         /\ IF last_current - now >= SendPeriod
            THEN /\ last_current' = now
                 /\ bus' = IF canUp THEN current_command ELSE bus
            ELSE UNCHANGED <<last_current, bus>>
    ELSE /\ current_command' = 0
         /\ UNCHANGED <<last_current, bus>>

\* send_chassis_state, with the currents as ServeCurrent left them
ServeState ==
    IF last_state - now >= StatePeriod
    THEN /\ last_state' = now
         /\ stateOut' = IF peer_known
                        THEN <<[mask |-> online_mask, current |-> current_command']>>
                        ELSE << >>
    ELSE UNCHANGED <<last_state, stateOut>>

Serve ==
    /\ pc = "serve"
    /\ ServeCurrent /\ ServeState
    /\ pc' = "top"
    /\ UNCHANGED <<allow_current, now, current_timeout, last_command, last_feedback,
                   peer_known, g_running, zeroLeft, udp, canRx, canUp, driveArrived,
                   estopLast, burst, lost>>

LoopEnd ==
    /\ pc = "top" /\ ~g_running
    /\ pc' = "zero" /\ zeroLeft' = ZeroRepeat /\ now' = 0 /\ stateOut' = << >>
    /\ UNCHANGED <<allow_current, current_command, current_timeout, last_command,
                   last_feedback, last_current, last_state, peer_known,
                   g_running, world>>

\* one frame of send_zero_current; a failed send is ignored
Bad_ZeroCount ==
    /\ pc = "zero" /\ zeroLeft >= 0
    /\ zeroLeft' = zeroLeft - 1
    /\ bus' = IF canUp THEN 0 ELSE bus
    /\ lost' = IF canUp THEN lost ELSE lost + 1
    /\ now' = 0
    /\ UNCHANGED <<pc, allow_current, current_command, current_timeout, last_command,
                   last_feedback, last_current, last_state, peer_known, stateOut,
                   g_running, udp, canRx, canUp, driveArrived, estopLast, burst>>
Bad_ZeroFrame ==
    /\ pc = "zero" /\ zeroLeft > 0
    /\ zeroLeft' = IF canUp THEN zeroLeft - 1 ELSE 0
    /\ bus' = IF canUp THEN 0 ELSE bus
    /\ lost' = IF canUp THEN lost ELSE lost + 1
    /\ now' = 0
    /\ UNCHANGED <<pc, allow_current, current_command, current_timeout, last_command,
                   last_feedback, last_current, last_state, peer_known, stateOut,
                   g_running, udp, canRx, canUp, driveArrived, estopLast, burst>>
ZeroFrame ==
    /\ pc = "zero" /\ zeroLeft > 0
    /\ zeroLeft' = zeroLeft - 1
    /\ bus' = IF canUp THEN 0 ELSE bus
    /\ lost' = IF canUp THEN lost ELSE lost + 1
    /\ now' = 0
    /\ UNCHANGED <<pc, allow_current, current_command, current_timeout, last_command,
                   last_feedback, last_current, last_state, peer_known, stateOut,
                   g_running, udp, canRx, canUp, driveArrived, estopLast, burst>>

ZeroDone ==
    /\ pc = "zero" /\ zeroLeft = 0
    /\ pc' = "off"
    /\ UNCHANGED <<allow_current, now, current_command, current_timeout, last_command,
                   last_feedback, last_current, last_state, peer_known, stateOut,
                   g_running, zeroLeft, world>>
-----------------------------------------------------------------------------
\* SIGINT or SIGTERM: handle_signal
Signal ==
    /\ pc # "off" /\ g_running
    /\ g_running' = FALSE
    /\ UNCHANGED <<pc, allow_current, now, current_command, current_timeout,
                   last_command, last_feedback, last_current, last_state, peer_known,
                   stateOut, zeroLeft, world>>

\* A packet reaches the socket's buffer, in whatever order the network chooses.
Arrive(p) ==
    /\ pc \in Running /\ Len(udp) < UdpCap /\ burst < Burst
    /\ udp' = Append(udp, p)
    /\ driveArrived' = IF p.type = "current" /\ p.value # 0 THEN 0 ELSE driveArrived
    /\ estopLast' = (p.type = "estop" \/ (estopLast /\ p.type # "current"))
    /\ burst' = burst + 1
    /\ UNCHANGED <<proxy, canRx, bus, canUp, lost>>

Emit(m) ==
    /\ pc \in Running /\ canUp /\ m \notin canRx
    /\ canRx' = canRx \union {m}
    /\ UNCHANGED <<proxy, udp, bus, canUp, driveArrived, estopLast, burst, lost>>

CanToggle ==
    /\ canUp' = ~canUp
    /\ UNCHANGED <<proxy, udp, canRx, bus, driveArrived, estopLast, burst, lost>>

\* A tick passes; a running process is never late by more than MaxLoop.
Tick ==
    /\ pc # "off" /\ now < MaxLoop
    /\ now' = now + 1
    /\ last_command' = Older(last_command, CommandCap)
    /\ last_feedback' = [m \in Motor |-> Older(last_feedback[m], FeedbackCap)]
    /\ last_current' = Older(last_current, SendCap)
    /\ last_state' = Older(last_state, StateCap)
    /\ driveArrived' = Older(driveArrived, ArrivalCap)
    /\ burst' = 0
    /\ UNCHANGED <<pc, allow_current, current_command, current_timeout, peer_known,
                   stateOut, g_running, zeroLeft, udp, canRx, bus, canUp, estopLast, lost>>
-----------------------------------------------------------------------------
Process ==
    \/ LoopTop \/ DrainDone \/ RecvPacket \/ RecvDone \/ Serve
    \/ LoopEnd \/ ZeroFrame \/ ZeroDone
    \/ \E m \in Motor : DrainFrame(m)

Next ==
    \/ Process
    \/ Signal \/ CanToggle \/ Tick
    \/ \E p \in Packet : Arrive(p)
    \/ \E m \in Motor : Emit(m)

Spec == Init /\ [][Next]_vars
-----------------------------------------------------------------------------
\* docs/rtt_can_proxy_stage1.md: non-zero current commands are ignored unless the
\* proxy is started with --allow-current.
DryRun == ~allow_current => bus = 0 /\ current_command = 0

\* A current frame carries at most --max-current in either direction, and the state
\* packet reports nothing else.
WithinLimit ==
    /\ bus \in -MaxCurrent .. MaxCurrent
    /\ stateOut # << >> => stateOut[1].current \in -MaxCurrent .. MaxCurrent

\* When main is about to send a non-zero frame, a non-zero current packet arrived
\* at most the timeout in force and two iterations ago, whatever arrived since.
DriveInWindow ==
    pc = "serve" /\ WindowOpen /\ current_command # 0
        => driveArrived <= current_timeout + 2 * MaxLoop

\* docs/rtt_bridge_protocol.md: "Emergency stop packets always override motion
\* commands."  An emergency stop that has been read holds until a current packet
\* arrives behind it: no packet that arrived before it, in its buffer or in an earlier
\* one, and no open window gives the chassis a command again.
EstopOverrides ==
    estopLast /\ (\A i \in 1 .. Len(udp) : udp[i].type # "estop") => current_command = 0

\* After the shutdown a non-zero frame is on the bus only if every zero frame failed.
ExitLeavesZero ==
    pc \in {"zero", "off"} /\ bus # 0 =>
        lost = IF pc = "zero" THEN ZeroRepeat - zeroLeft ELSE ZeroRepeat

\* docs/rtt_bridge_protocol.md: "Linux CAN proxy sends zero current if RT-Thread
\* state packets time out."  Once the command has expired and the iteration is over,
\* the last frame on the bus is a zero frame.
ExpiryZeroesBus == pc = "top" /\ g_running /\ ~WindowOpen => bus = 0

\* docs/rtt_can_proxy_stage1.md: "`online=0xF` means all four 3508 feedback frames
\* are being received."  The mask sent holds every motor whose frame was just read.
MaskHoldsFreshMotors ==
    stateOut # << >> =>
        \A m \in Motor : last_feedback[m] # Never /\ last_feedback[m] <= OnlineTimeout
                           => m \in stateOut[1].mask

\* What the peer of the proxy may rely on, with time and feedback left out.
Port == INSTANCE ProxyPort WITH
    phase <- IF pc = "drain" THEN "top" ELSE pc,
    accepted <- last_command # Never,
    window <- pc \in {"recv", "serve"} /\ WindowOpen

\* Each step of the proxy is one of ProxyPort or none: whatever the clock does, frames
\* follow the commands of the iteration, nothing else moves the bus, and a window that
\* a command has opened stays open up to the frame.
ImplementsPort == Port!PortSpec
=============================================================================

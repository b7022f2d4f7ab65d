----------------------------- MODULE ProxyPort ------------------------------
(***************************************************************************)
(* What src/tools/can_proxy.c promises to the sender of its packets, with   *)
(* time and feedback left out: an iteration reads the packets, serves the   *)
(* CAN bus and sends a state.  A command opens the window of its iteration; *)
(* whether an earlier one still holds it open is for the clock to say.      *)
(* CanProxy implements this module (CanProxy!ImplementsPort).               *)
(*   phase: "off", "top" before receive_udp, "recv" in it, "serve" after    *)
(*   it, "zero" in send_zero_current                                        *)
(***************************************************************************)
EXTENDS Integers, Sequences

CONSTANTS
    Packet,      \* what arrives: records with a type, and a value of currents
    MaxCurrent,  \* --max-current
    UdpCap       \* bound: packets the socket buffer holds

VARIABLES
    phase,
    allow_current,   \* --allow-current
    accepted,        \* a current command has been accepted
    window,          \* within an iteration: current frames are sent
    current_command,
    peer_known,
    udp,             \* packets in the socket's buffer
    bus              \* the last current frame on the bus

port == <<phase, allow_current, accepted, window, current_command, peer_known, udp, bus>>

\* Before the loop, or in a process that could not open a socket and has ended.
PortFresh ==
    /\ phase \in {"top", "off"} /\ allow_current \in BOOLEAN
    /\ accepted = FALSE /\ window = FALSE /\ current_command = 0
    /\ peer_known = FALSE /\ udp = << >>

PortInit == PortFresh /\ bus = 0

\* The iteration has read the clock and drained the feedback.
Begin ==
    /\ phase = "top" /\ phase' = "recv"
    /\ window' \in {FALSE, allow_current /\ accepted}
    /\ UNCHANGED <<allow_current, accepted, current_command, peer_known, udp, bus>>

\* receive_udp: a current command within the limit, or 0 in dry run; a value of 0
\* is never made another
Take(p) ==
    /\ IF allow_current
       THEN /\ current_command' \in -MaxCurrent .. MaxCurrent
            /\ p.value = 0 => current_command' = 0
            /\ accepted' = TRUE /\ window' = TRUE
       ELSE current_command' = 0 /\ UNCHANGED <<accepted, window>>

Receive ==
    /\ phase = "recv" /\ udp # << >>
    /\ LET p == Head(udp)
       IN  /\ peer_known' = (peer_known \/ p.type # "bad")
           /\ \/ p.type = "current" /\ Take(p)
              \/ /\ p.type = "estop" /\ current_command' = 0
                 /\ UNCHANGED <<accepted, window>>
              \/ /\ p.type \notin {"current", "estop"}
                 /\ UNCHANGED <<current_command, accepted, window>>
    /\ udp' = Tail(udp)
    /\ UNCHANGED <<phase, allow_current, bus>>

ReceiveDone ==
    /\ phase = "recv" /\ udp = << >> /\ phase' = "serve"
    /\ UNCHANGED <<allow_current, accepted, window, current_command, peer_known, udp, bus>>

\* In the window a frame, unless the last one was less than 10 ms ago or the
\* interface is down; outside it the command is cleared and the bus left alone.
Serve ==
    /\ phase = "serve" /\ phase' = "top" /\ window' = FALSE
    /\ bus' \in IF window THEN {bus, current_command} ELSE {bus}
    /\ current_command' = IF window THEN current_command ELSE 0
    /\ UNCHANGED <<allow_current, accepted, peer_known, udp>>

\* g_running is cleared: zero frames, each of which may fail, and the end
Stop ==
    /\ phase = "top" /\ phase' = "zero"
    /\ UNCHANGED <<allow_current, accepted, window, current_command, peer_known, udp, bus>>

Zero ==
    /\ phase = "zero" /\ bus' \in {bus, 0}
    /\ UNCHANGED <<phase, allow_current, accepted, window, current_command, peer_known, udp>>

Exit ==
    /\ phase = "zero" /\ phase' = "off"
    /\ UNCHANGED <<allow_current, accepted, window, current_command, peer_known, udp, bus>>

Arrives(p) ==
    /\ phase \in {"top", "recv", "serve"} /\ Len(udp) < UdpCap
    /\ udp' = Append(udp, p)
    /\ UNCHANGED <<phase, allow_current, accepted, window, current_command, peer_known, bus>>

PortStep == Begin \/ Receive \/ ReceiveDone \/ Serve \/ Stop \/ Zero \/ Exit

PortNext == PortStep \/ \E p \in Packet : Arrives(p)

PortSpec == PortInit /\ [][PortNext]_port
=============================================================================

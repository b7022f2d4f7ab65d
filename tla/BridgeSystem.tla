---------------------------- MODULE BridgeSystem ----------------------------
(***************************************************************************)
(* The CAN proxy on Linux (ProxyPort, which CanProxy implements) and the    *)
(* bridge on RT-Thread (RttBridge), joined by a network that loses, delays  *)
(* and reorders.                                                            *)
(*                                                                          *)
(* The proxy may be killed and started again, with or without               *)
(* --allow-current, and so may the guest system.  The last frame on the bus *)
(* before all this may be one that drives, left there by a process killed   *)
(* while it drove.  The packets of both sides repeat, so a packet delivered *)
(* late is as good as one delivered twice.                                  *)
(***************************************************************************)
EXTENDS ProxyPort, RttBridge

CONSTANTS
    LeftDrive,   \* current left on the bus before the proxy runs
    MaxRestart   \* bound: starts of the proxy and of the guest after the first ones

ASSUME BridgeAssumption ==
    /\ Packet = {HeartbeatPacket, ZeroPacket}
    /\ MaxCurrent \in Nat /\ UdpCap \in Nat /\ MaxRestart \in Nat
    /\ LeftDrive \in -MaxCurrent .. MaxCurrent

VARIABLES
    down,     \* states on their way to the bridge or in its socket
    run,      \* number of the proxy process
    reboots   \* starts of the guest system so far

net     == <<down, run, reboots>>
sysVars == <<port, bridge, net>>

Running == phase \in {"top", "recv", "serve"}
State == 0 .. MaxRestart + 1

TypeOK ==
    /\ phase \in {"off", "top", "recv", "serve", "zero"}
    /\ allow_current \in BOOLEAN /\ accepted \in BOOLEAN /\ window \in BOOLEAN
    /\ current_command \in -MaxCurrent .. MaxCurrent
    /\ peer_known \in BOOLEAN
    /\ udp \in Seq(Packet) /\ Len(udp) <= UdpCap
    /\ bus \in -MaxCurrent .. MaxCurrent
    /\ bpc \in {"none", "delay", "open", "beat", "zero", "recv", "sleep"}
    /\ blocking \in BOOLEAN
    /\ last_state \in State
    /\ down \subseteq State
    /\ run \in 1 .. MaxRestart + 1 /\ reboots \in 0 .. MaxRestart

Init ==
    /\ PortFresh /\ bus \in {0, LeftDrive}
    /\ BridgeInit
    /\ down = {} /\ run = 1 /\ reboots = 0
-----------------------------------------------------------------------------
\* An iteration sends a state when the last is 20 ms old and a peer is known; one that
\* the network loses is as good as not sent.
ServeState ==
    /\ Serve /\ peer_known
    /\ down' = down \union {run}
    /\ UNCHANGED <<bridge, run, reboots>>

\* Every other step of the process
ProxyStep == PortStep /\ UNCHANGED <<bridge, net>>

NoMemory ==
    /\ accepted' = FALSE /\ window' = FALSE /\ current_command' = 0
    /\ peer_known' = FALSE /\ udp' = << >>

\* SIGKILL: the frame on the bus stays, memory and socket go.
Kill ==
    /\ phase # "off"
    /\ phase' = "off" /\ allow_current' = FALSE /\ NoMemory
    /\ UNCHANGED <<bus, bridge, net>>

\* The operator starts the proxy again: PortFresh for the new process
Restart ==
    /\ phase = "off" /\ run + reboots <= MaxRestart
    /\ phase' \in {"top", "off"} /\ allow_current' \in BOOLEAN /\ NoMemory
    /\ run' = run + 1
    /\ UNCHANGED <<bus, bridge, down, reboots>>

\* The bridge sends a packet; it reaches the proxy's socket, or is lost.
Delivered ==
    /\ \/ SendHeartbeat /\ Arrives(HeartbeatPacket)
       \/ SendZero /\ Arrives(ZeroPacket)
    /\ UNCHANGED net
Lost == (SendHeartbeat \/ SendZero) /\ UNCHANGED <<port, net>>

\* The bridge reads one state, of those on their way any one.
Reads(s) ==
    /\ s \in down
    /\ RecvState(s)
    /\ down' = down \ {s}
    /\ UNCHANGED <<port, run, reboots>>

GuestReboot ==
    /\ run + reboots <= MaxRestart
    /\ Reboot
    /\ reboots' = reboots + 1 /\ down' \in SUBSET down
    /\ UNCHANGED <<port, run>>

Bridge == BridgeStep /\ UNCHANGED <<port, net>>
-----------------------------------------------------------------------------
Next ==
    \/ ServeState \/ ProxyStep \/ Kill \/ Restart
    \/ Bridge \/ Delivered \/ Lost \/ GuestReboot
    \/ \E s \in down : Reads(s)

Spec == Init /\ [][Next]_sysVars

\* Both loops go on, each packet that is sent again and again arrives at last, and so
\* does an attempt to open the bridge's socket.  The window of 100 ms is longer than
\* the 10 ms between two frames, so while it is open a frame is sent, unless the
\* interface stays down; a state is due every 20 ms.  Each side sends every 20 ms, so
\* receive_udp empties its buffer.
\* Nothing is assumed of kills, starts of the proxy, reboots, Stop and RecvFails.
ServeFrame ==
    /\ phase = "serve" /\ window /\ bus' = current_command
    /\ ServeState \/ ProxyStep

Fairness ==
    /\ WF_sysVars((Begin \/ Receive \/ Serve) /\ UNCHANGED <<bridge, net>>)
    /\ []<>(udp = << >>) /\ SF_sysVars(ReceiveDone /\ UNCHANGED <<bridge, net>>)
    /\ SF_sysVars(ServeFrame) /\ SF_sysVars(ServeState)
    /\ WF_sysVars((Start \/ Wake \/ LoopAgain) /\ UNCHANGED <<port, net>>)
    /\ WF_sysVars(Delivered \/ Lost)
    /\ SF_sysVars((OpenSocket \/ RecvTimeout) /\ UNCHANGED <<port, net>>)
    /\ SF_sysVars(Delivered /\ SendHeartbeat) /\ SF_sysVars(Delivered /\ SendZero)
    /\ \A s \in 1 .. MaxRestart + 1 : SF_sysVars(Reads(s))

FairSpec == Spec /\ Fairness
-----------------------------------------------------------------------------
\* docs/rtt_can_proxy_stage1.md: stage 1 sends zero current only.  Whatever is lost,
\* delayed or started again, the two programs put no frame but a zero frame on the bus.
OnlyZeroFrames == [][bus' # bus => bus' = 0]_sysVars

\* The mask that the bridge prints is never cleared; but as long as a proxy runs,
\* the bridge comes to hear of this very process, whatever it heard of earlier ones
\* and whichever side was started first.  recvfrom must have its timeout: a proxy
\* that does not know its peer sends nothing that could wake the bridge.
NewProxyHeard ==
    <>[]~blocking =>
        (Running ~> (last_state = run \/ ~Running))

\* last_state is overwritten by whatever state arrives, a late one of an earlier process
\* included, and never cleared; but once a proxy that knows its peer goes on running,
\* the mask that the bridge prints is in the end that of this process for good.  This
\* needs no timeout of recvfrom: a bridge that waits for ever can be left waiting only
\* by a proxy that has not heard of it.
StaleStateLeaves == <>[](Running /\ peer_known) => <>[](last_state = run)

\* A drive that a killed process left on the bus is ended by the zero commands of
\* the bridge as soon as a proxy with --allow-current has run for long enough.
AbandonedDriveCleared ==
    <>[]~blocking =>
        ((Running /\ allow_current /\ bus # 0) ~> (bus = 0 \/ ~Running))
=============================================================================

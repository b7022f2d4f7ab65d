----------------------------- MODULE RttBridge -----------------------------
(***************************************************************************)
(* src/rtthread_port/rtt_chassis_bridge.c: the RT-Thread side of the UDP    *)
(* bridge.  Its thread opens a socket, retrying for ever, and then repeats: *)
(* send a heartbeat, send a zero current command, read the states that have *)
(* come, sleep.                                                             *)
(*                                                                          *)
(* The result of setsockopt(SO_RCVTIMEO) is ignored: where it fails, or     *)
(* where the stack does not support it, recvfrom waits for ever.            *)
(*   bpc: "none" no thread, "delay" before socket calls, "open" at socket,  *)
(*   setsockopt and bind, "beat" send_heartbeat, "zero"                     *)
(*   send_zero_current_command, "recv" recvfrom, "sleep" the delay of       *)
(*   RTT_BRIDGE_PERIOD_MS                                                   *)
(* Sequence numbers and clock stamps are written and never compared.  What  *)
(* waits in the bridge's socket counts as being on its way (BridgeSystem).  *)
(***************************************************************************)
EXTENDS Integers

VARIABLES
    bpc,
    blocking,     \* recvfrom has no timeout
    last_state    \* the last state that parse_chassis_state accepted

bridge == <<bpc, blocking, last_state>>

\* A state is told by the proxy process that sent it: its number, or 0 for the
\* zeroed memory before the first.
ZeroState == 0

HeartbeatPacket == [type |-> "other"]
Bad_ZeroPacket == [type |-> "current", value |-> 1]
ZeroPacket == [type |-> "current", value |-> 0]

BridgeInit == bpc = "none" /\ blocking = FALSE /\ last_state = ZeroState

\* rtt_chassis_bridge_start, from main or from the shell: "already running", a
\* thread that cannot be created, or a thread that begins with its delay
Start ==
    /\ bpc = "none" /\ bpc' = "delay"
    /\ UNCHANGED <<blocking, last_state>>

\* the delay of 5 s, and the delay of 1 s before the next attempt
Wake ==
    /\ bpc = "delay" /\ bpc' = "open"
    /\ UNCHANGED <<blocking, last_state>>

\* socket or bind fails; the socket of the failed bind is closed
OpenFails ==
    /\ bpc = "open" /\ bpc' = "delay"
    /\ UNCHANGED <<blocking, last_state>>

OpenSocket ==
    /\ bpc = "open" /\ bpc' = "beat"
    /\ blocking' \in BOOLEAN
    /\ UNCHANGED last_state

\* the packet goes out with the step; a sendto that fails is a packet lost
SendHeartbeat ==
    /\ bpc = "beat" /\ bpc' = "zero"
    /\ UNCHANGED <<blocking, last_state>>

SendZero ==
    /\ bpc = "zero" /\ bpc' = "recv"
    /\ UNCHANGED <<blocking, last_state>>

\* recvfrom returns s: it is taken, without regard to its sequence number
Bad_RecvState(s) ==
    /\ bpc = "recv"
    /\ last_state' = IF last_state = ZeroState THEN s ELSE last_state
    /\ UNCHANGED <<bpc, blocking>>
RecvState(s) ==
    /\ bpc = "recv"
    /\ last_state' = s
    /\ UNCHANGED <<bpc, blocking>>

\* the timeout of 1 ms ends the loop, and the thread prints and sleeps
Bad_RecvTimeout ==
    /\ bpc = "recv" /\ ~blocking /\ last_state # ZeroState /\ bpc' = "sleep"
    /\ UNCHANGED <<blocking, last_state>>
RecvTimeout ==
    /\ bpc = "recv" /\ ~blocking /\ bpc' = "sleep"
    /\ UNCHANGED <<blocking, last_state>>

\* a datagram of length 0, or an error, ends the loop, too
RecvFails ==
    /\ bpc = "recv" /\ bpc' = "sleep"
    /\ UNCHANGED <<blocking, last_state>>

LoopAgain ==
    /\ bpc = "sleep" /\ bpc' = "beat"
    /\ UNCHANGED <<blocking, last_state>>

BridgeStep ==
    Start \/ Wake \/ OpenFails \/ OpenSocket \/ RecvTimeout \/ RecvFails \/ LoopAgain

\* The guest system is started again.
Reboot ==
    /\ bpc # "none"
    /\ bpc' = "none" /\ blocking' = FALSE /\ last_state' = ZeroState
=============================================================================

------------------------ MODULE BridgeSystem_proofs ------------------------
(***************************************************************************)
(* Proofs about BridgeSystem, for every number of restarts and every bound. *)
(*                                                                          *)
(* OnlyZeroFrames follows from an invariant: the packets in the buffer are  *)
(* the bridge's, and the command in force is zero.  A frame that drives can *)
(* then only be one that was on the bus before.                             *)
(***************************************************************************)
EXTENDS BridgeSystem, TLAPS

ZeroInv == TypeOK /\ current_command = 0

\* The packets of the bridge: nothing else is ever taken from the buffer.
LEMMA PacketHead ==
    ASSUME NEW q \in Seq(Packet), q # << >>
    PROVE  /\ Head(q) \in {HeartbeatPacket, ZeroPacket}
           /\ Tail(q) \in Seq(Packet) /\ Len(Tail(q)) <= Len(q)
  BY BridgeAssumption

\* Each step of the proxy keeps its types and a zero command, and can only put a zero
\* frame on the bus.
LEMMA PortStepZero ==
    ASSUME ZeroInv, PortStep
    PROVE  /\ phase' \in {"off", "top", "recv", "serve", "zero"}
           /\ allow_current' \in BOOLEAN /\ accepted' \in BOOLEAN /\ window' \in BOOLEAN
           /\ peer_known' \in BOOLEAN
           /\ udp' \in Seq(Packet) /\ Len(udp') <= UdpCap
           /\ bus' \in {bus, 0} /\ current_command' = 0
<1>1. /\ phase \in {"off", "top", "recv", "serve", "zero"}
      /\ allow_current \in BOOLEAN /\ accepted \in BOOLEAN /\ window \in BOOLEAN
      /\ peer_known \in BOOLEAN
      /\ udp \in Seq(Packet) /\ Len(udp) <= UdpCap /\ current_command = 0
  BY DEF ZeroInv, TypeOK
<1>2. CASE Begin
  <2>1. window' \in BOOLEAN BY <1>1, <1>2 DEF Begin
  <2> QED BY <1>1, <1>2, <2>1 DEF Begin
<1>3. CASE Receive
  <2>1. /\ Head(udp) \in {HeartbeatPacket, ZeroPacket}
        /\ udp' \in Seq(Packet) /\ Len(udp') <= Len(udp)
    BY <1>1, <1>3, PacketHead DEF Receive
  <2>2. Len(udp') <= UdpCap
    <3>1. Len(udp') \in Nat /\ Len(udp) \in Nat BY <1>1, <2>1
    <3> QED BY <1>1, <2>1, <3>1, BridgeAssumption
  <2>3. UNCHANGED <<phase, allow_current, bus>> BY <1>3 DEF Receive
  <2>4. peer_known' \in BOOLEAN BY <1>1, <1>3 DEF Receive
  <2>5. CASE Head(udp) = HeartbeatPacket
    <3>1. Head(udp).type = "other" BY <2>5 DEF HeartbeatPacket
    <3>2. UNCHANGED <<current_command, accepted, window>> BY <1>3, <3>1 DEF Receive
    <3> QED BY <1>1, <2>1, <2>2, <2>3, <2>4, <3>2
  <2>6. CASE Head(udp) = ZeroPacket
    <3>1. Head(udp).type = "current" /\ Head(udp).value = 0 BY <2>6 DEF ZeroPacket
    <3>2. Take(Head(udp)) BY <1>3, <3>1 DEF Receive
    <3>3. current_command' = 0 BY <3>1, <3>2 DEF Take
    <3>4. accepted' \in BOOLEAN /\ window' \in BOOLEAN BY <1>1, <3>2 DEF Take
    <3> QED BY <2>1, <2>2, <2>3, <2>4, <1>1, <3>3, <3>4
  <2> QED BY <2>1, <2>5, <2>6
<1>4. CASE ReceiveDone BY <1>1, <1>4 DEF ReceiveDone
<1>5. CASE Serve BY <1>1, <1>5 DEF Serve
<1>6. CASE Stop BY <1>1, <1>6 DEF Stop
<1>7. CASE Zero BY <1>1, <1>7 DEF Zero
<1>8. CASE Exit BY <1>1, <1>8 DEF Exit
<1> QED BY <1>2, <1>3, <1>4, <1>5, <1>6, <1>7, <1>8 DEF PortStep

\* A packet of the bridge that arrives finds room in the buffer.
LEMMA ArrivesTyped ==
    ASSUME ZeroInv, NEW p \in Packet, Arrives(p)
    PROVE  /\ udp' \in Seq(Packet) /\ Len(udp') <= UdpCap
           /\ UNCHANGED <<phase, allow_current, accepted, window, current_command,
                          peer_known, bus>>
<1>1. udp \in Seq(Packet) /\ Len(udp) < UdpCap /\ udp' = Append(udp, p)
  BY DEF ZeroInv, TypeOK, Arrives
<1>2. udp' \in Seq(Packet) /\ Len(udp') = Len(udp) + 1 /\ Len(udp) \in Nat BY <1>1
<1>3. Len(udp') <= UdpCap BY <1>1, <1>2, BridgeAssumption
<1> QED BY <1>2, <1>3 DEF Arrives

\* The bridge keeps its types, and never takes a state that was not on its way.
LEMMA BridgeTyped ==
    ASSUME ZeroInv,
           \/ BridgeStep \/ SendHeartbeat \/ SendZero \/ Reboot
           \/ \E s \in down : RecvState(s)
    PROVE  /\ bpc' \in {"none", "delay", "open", "beat", "zero", "recv", "sleep"}
           /\ blocking' \in BOOLEAN /\ last_state' \in State
<1>1. /\ bpc \in {"none", "delay", "open", "beat", "zero", "recv", "sleep"}
      /\ blocking \in BOOLEAN /\ last_state \in State /\ down \subseteq State
      /\ 0 \in State
  BY BridgeAssumption DEF ZeroInv, TypeOK, State
<1>2. CASE BridgeStep
  BY <1>1, <1>2 DEF BridgeStep, Start, Wake, OpenFails, OpenSocket, RecvTimeout,
                    RecvFails, LoopAgain
<1>3. CASE SendHeartbeat \/ SendZero BY <1>1, <1>3 DEF SendHeartbeat, SendZero
<1>4. CASE Reboot BY <1>1, <1>4 DEF Reboot, ZeroState
<1>5. CASE \E s \in down : RecvState(s) BY <1>1, <1>5 DEF RecvState
<1> QED BY <1>2, <1>3, <1>4, <1>5

\* The invariant, and what it says of a step of the bus.
LEMMA ZeroStep ==
    ASSUME ZeroInv, [Next]_sysVars
    PROVE  ZeroInv' /\ bus' \in {bus, 0}
<1> DEFINE PortTyped ==
             /\ phase \in {"off", "top", "recv", "serve", "zero"}
             /\ allow_current \in BOOLEAN /\ accepted \in BOOLEAN /\ window \in BOOLEAN
             /\ peer_known \in BOOLEAN
             /\ udp \in Seq(Packet) /\ Len(udp) <= UdpCap
             /\ bus \in -MaxCurrent .. MaxCurrent /\ current_command = 0
           BridgeTypes ==
             /\ bpc \in {"none", "delay", "open", "beat", "zero", "recv", "sleep"}
             /\ blocking \in BOOLEAN /\ last_state \in State
           NetTypes ==
             /\ down \subseteq State
             /\ run \in 1 .. MaxRestart + 1 /\ reboots \in 0 .. MaxRestart
<1>1. PortTyped /\ BridgeTypes /\ NetTypes BY DEF ZeroInv, TypeOK
<1>2. MaxCurrent \in Nat /\ MaxRestart \in Nat /\ 0 \in -MaxCurrent .. MaxCurrent
  BY BridgeAssumption
<1>3. ASSUME PortTyped', BridgeTypes', NetTypes' PROVE ZeroInv'
  <2>1. current_command' \in -MaxCurrent .. MaxCurrent BY <1>2, <1>3
  <2> QED BY <1>3, <2>1 DEF ZeroInv, TypeOK
<1>4. ASSUME PortStep PROVE PortTyped' /\ bus' \in {bus, 0}
  BY <1>1, <1>2, <1>4, PortStepZero
<1>5. ASSUME UNCHANGED port PROVE PortTyped' /\ bus' = bus BY <1>1, <1>5 DEF port
<1>6. ASSUME UNCHANGED bridge PROVE BridgeTypes' BY <1>1, <1>6 DEF bridge
<1>7. ASSUME UNCHANGED net PROVE NetTypes' BY <1>1, <1>7 DEF net
<1>8. CASE ServeState
  <2>1. PortStep /\ UNCHANGED bridge BY <1>8 DEF ServeState, PortStep
  <2>2. run \in State BY <1>1, <1>2 DEF State
  <2>3. NetTypes' BY <1>1, <1>8, <2>2 DEF ServeState
  <2> QED BY <1>3, <1>4, <1>6, <2>1, <2>3
<1>9. CASE ProxyStep BY <1>3, <1>4, <1>6, <1>7, <1>9 DEF ProxyStep
<1>10. CASE Kill
  <2>1. PortTyped' /\ bus' = bus
    <3>1. << >> \in Seq(Packet) /\ Len(<< >>) <= UdpCap BY BridgeAssumption
    <3> QED BY <1>1, <1>10, <3>1 DEF Kill, NoMemory
  <2> QED BY <1>3, <1>6, <1>7, <1>10, <2>1 DEF Kill
<1>11. CASE Restart
  <2>1. PortTyped' /\ bus' = bus
    <3>1. << >> \in Seq(Packet) /\ Len(<< >>) <= UdpCap BY BridgeAssumption
    <3> QED BY <1>1, <1>11, <3>1 DEF Restart, NoMemory
  <2>2. NetTypes' BY <1>1, <1>2, <1>11 DEF Restart
  <2> QED BY <1>3, <1>6, <1>11, <2>1, <2>2 DEF Restart
<1>12. CASE Bridge
  <2>1. BridgeTypes' BY <1>12, BridgeTyped DEF Bridge
  <2> QED BY <1>3, <1>5, <1>7, <1>12, <2>1 DEF Bridge
<1>13. CASE Delivered
  <2>1. BridgeTypes' BY <1>13, BridgeTyped DEF Delivered
  <2>2. \E p \in Packet : Arrives(p) BY <1>13, BridgeAssumption DEF Delivered
  <2>3. PortTyped' /\ bus' = bus BY <1>1, <2>2, ArrivesTyped
  <2> QED BY <1>3, <1>7, <1>13, <2>1, <2>3 DEF Delivered
<1>14. CASE Lost
  <2>1. BridgeTypes' BY <1>14, BridgeTyped DEF Lost
  <2> QED BY <1>3, <1>5, <1>7, <1>14, <2>1 DEF Lost
<1>15. CASE GuestReboot
  <2>1. BridgeTypes' BY <1>15, BridgeTyped DEF GuestReboot
  <2>2. NetTypes' BY <1>1, <1>2, <1>15 DEF GuestReboot
  <2> QED BY <1>3, <1>5, <1>15, <2>1, <2>2 DEF GuestReboot
<1>16. ASSUME NEW s \in down, Reads(s) PROVE ZeroInv' /\ bus' \in {bus, 0}
  <2>1. BridgeTypes' BY <1>16, BridgeTyped DEF Reads
  <2>2. NetTypes' BY <1>1, <1>16 DEF Reads
  <2> QED BY <1>3, <1>5, <1>16, <2>1, <2>2 DEF Reads
<1>17. CASE UNCHANGED sysVars BY <1>3, <1>5, <1>6, <1>7, <1>17 DEF sysVars
<1> QED
  BY <1>8, <1>9, <1>10, <1>11, <1>12, <1>13, <1>14, <1>15, <1>16, <1>17 DEF Next

\* The states the system starts in.
LEMMA ZeroInit == Init => ZeroInv
<1> SUFFICES ASSUME Init PROVE ZeroInv OBVIOUS
<1>1. << >> \in Seq(Packet) /\ Len(<< >>) <= UdpCap BY BridgeAssumption
<1>2. 0 \in -MaxCurrent .. MaxCurrent /\ 0 \in State /\ 1 \in 1 .. MaxRestart + 1
      /\ 0 \in 0 .. MaxRestart
  BY BridgeAssumption DEF State
<1>3. bus \in -MaxCurrent .. MaxCurrent BY <1>2, BridgeAssumption DEF Init
<1> QED BY <1>1, <1>2, <1>3 DEF Init, PortFresh, BridgeInit, ZeroInv, TypeOK, ZeroState

\* Types of the proxy, the bridge and the network between them.
THEOREM BridgeSystemTyped == Spec => []TypeOK
<1>1. ZeroInv /\ [Next]_sysVars => ZeroInv' BY ZeroStep
<1>2. ZeroInv => TypeOK BY DEF ZeroInv
<1> QED BY ZeroInit, <1>1, <1>2, PTL DEF Spec

\* The shipped bridge and the proxy never put a driving frame on the bus, for any
\* number of kills, restarts and reboots and whatever the network does.
THEOREM BridgeNeverDrives == Spec => OnlyZeroFrames
<1>1. ZeroInv /\ [Next]_sysVars => ZeroInv' BY ZeroStep
<1>2. ZeroInv /\ [Next]_sysVars => [bus' # bus => bus' = 0]_sysVars BY ZeroStep
<1> QED BY ZeroInit, <1>1, <1>2, PTL DEF Spec, OnlyZeroFrames
=============================================================================

-------------------------- MODULE ProxyPort_proofs --------------------------
(***************************************************************************)
(* CanProxy implements ProxyPort for every value of the constants: each     *)
(* step of the proxy is a step of the port or leaves the port's variables   *)
(* as they are.  The steps that need an argument are the tick, which moves  *)
(* the clock reading of the iteration and the stamp of the command alike,   *)
(* and the packet, whose command opens the window at that very reading.     *)
(***************************************************************************)
EXTENDS CanProxy_proofs

\* The variables of the port, as CanProxy gives them their values.
Phase == IF pc = "drain" THEN "top" ELSE pc
Accepted == last_command # Never
Window == pc \in {"recv", "serve"} /\ WindowOpen

PortVars == <<Phase, allow_current, Accepted, Window, current_command, peer_known,
              udp, bus>>

\* The variables of the port under the mapping, written out.
LEMMA PortVarsAre == Port!port = PortVars
  BY DEF Port!port, PortVars, Phase, Accepted, Window

\* The state before the loop of main is an initial state of the port.
LEMMA PortInitHolds == Init => Port!PortInit
  BY DEF Init, FreshProcess, Port!PortInit, Port!PortFresh, Never

\* Time passes alike for the reading and the stamp, so no tick opens or closes a window.
LEMMA WindowKept ==
    ASSUME TypeOK, Tick
    PROVE  /\ WindowOpen' = WindowOpen
           /\ Accepted' = Accepted
<1>1. /\ now \in 0 .. MaxLoop /\ now < MaxLoop /\ now' = now + 1
      /\ last_command \in Never .. CommandCap
      /\ last_command' = Older(last_command, CommandCap)
      /\ current_timeout \in 0 .. MaxTimeout
      /\ UNCHANGED <<allow_current, current_timeout>>
  BY DEF TypeOK, Tick
<1>2. CASE last_command = Never
  <2>1. last_command' = Never BY <1>1, <1>2 DEF Older
  <2> QED BY <1>2, <2>1 DEF WindowOpen, Accepted
<1>3. CASE last_command # Never /\ last_command < CommandCap
  <2>1. last_command' = last_command + 1 /\ last_command' # Never
        /\ last_command \in Nat
    BY <1>1, <1>3, CapsTyping DEF Older, Never
  <2>2. last_command' - now' = last_command - now
    BY <1>1, <2>1, ProxyAssumption
  <2> QED BY <1>1, <1>3, <2>1, <2>2 DEF WindowOpen, Accepted
<1>4. CASE last_command = CommandCap
  <2>1. last_command' = CommandCap /\ CommandCap # Never
    BY <1>1, <1>4, CapsTyping DEF Older, Never
  <2>2. CommandCap = MaxTimeout + MaxLoop + 1 BY DEF CommandCap
  <2>3. ~(CommandCap - now <= current_timeout) /\ ~(CommandCap - now' <= current_timeout)
    BY <1>1, <2>2, ProxyAssumption
  <2> QED BY <1>1, <1>4, <2>1, <2>3 DEF WindowOpen, Accepted
<1> QED BY <1>1, <1>2, <1>3, <1>4, CapsTyping DEF Never

\* Every step of the proxy, or of the world around it, is one of the port or none.
LEMMA PortStepHolds ==
    ASSUME TypeOK, [Next]_vars
    PROVE  [Port!PortNext]_(Port!port)
<1> DEFINE Stutters == UNCHANGED PortVars
<1>0. ASSUME Stutters \/ Port!PortNext PROVE [Port!PortNext]_(Port!port)
  BY <1>0, PortVarsAre DEF PortVars, Port!port, Phase, Accepted, Window
<1>1. CASE LoopTop
  BY <1>0, <1>1 DEF LoopTop, PortVars, Phase, Accepted, Window, world
<1>2. ASSUME NEW m \in Motor, DrainFrame(m) PROVE Stutters
  BY <1>2 DEF DrainFrame, PortVars, Phase, Accepted, Window
<1>3. CASE DrainDone
  <2>1. Port!Begin
    BY <1>3 DEF DrainDone, Port!Begin, WindowOpen, world
  <2> QED BY <1>0, <2>1 DEF Port!PortNext, Port!PortStep
<1>4. CASE RecvPacket
  <2> DEFINE p == Head(udp)
  <2>1. p \in Packet BY <1>4, PacketTaken DEF RecvPacket, TypeOK
  <2>2. ASSUME p.type = "current", ApplyCurrent(p)
        PROVE  Port!Take(p)
    <3>1. CASE allow_current
      <4>1. p.value \in Int /\ p.timeout \in 0 .. MaxTimeout BY <2>1, <2>2, PacketFields
      <4>2. /\ current_command' = clamp_current(p.value) /\ last_command' = now
            /\ current_timeout' = IF p.timeout = 0 THEN DefaultTimeout ELSE p.timeout
            /\ now' = now /\ pc' = pc /\ pc = "recv" /\ allow_current' = allow_current
        BY <1>4, <2>2, <3>1 DEF ApplyCurrent, RecvPacket
      <4>3. now \in Nat /\ current_timeout' \in Nat
        BY <4>1, <4>2, ProxyAssumption DEF TypeOK
      <4>4. last_command' # Never /\ last_command' - now' <= current_timeout'
        BY <4>2, <4>3 DEF Never
      <4>5. WindowOpen' BY <3>1, <4>2, <4>4 DEF WindowOpen
      <4>6. clamp_current(p.value) \in -MaxCurrent .. MaxCurrent
            /\ (p.value = 0 => clamp_current(p.value) = 0)
        BY <4>1, ClampFacts
      <4> QED BY <3>1, <4>2, <4>4, <4>5, <4>6 DEF Port!Take
    <3>2. CASE ~allow_current
      <4>1. /\ current_command' = 0
            /\ UNCHANGED <<current_timeout, last_command, now, pc, allow_current>>
        BY <1>4, <2>2, <3>2 DEF ApplyCurrent, RecvPacket
      <4> QED BY <3>2, <4>1 DEF Port!Take, WindowOpen
    <3> QED BY <3>1, <3>2
  <2>3. ASSUME UNCHANGED <<current_timeout, last_command>>
        PROVE  Window' = Window /\ Accepted' = Accepted
    BY <1>4, <2>3 DEF RecvPacket, Window, WindowOpen, Accepted
  <2>4. /\ pc = "recv" /\ udp # << >> /\ udp' = Tail(udp)
        /\ peer_known' = (peer_known \/ p.type # "bad")
        /\ UNCHANGED <<pc, allow_current, bus>>
    BY <1>4 DEF RecvPacket
  <2>5. \/ p.type = "current" /\ Port!Take(p)
        \/ /\ p.type = "estop" /\ current_command' = 0
           /\ Window' = Window /\ Accepted' = Accepted
        \/ /\ p.type \notin {"current", "estop"} /\ current_command' = current_command
           /\ Window' = Window /\ Accepted' = Accepted
    BY <1>4, <2>2, <2>3 DEF RecvPacket, ApplyEstop
  <2>6. Port!Receive
    BY <2>4, <2>5 DEF Port!Receive, Window, Accepted
  <2> QED BY <1>0, <2>6 DEF Port!PortNext, Port!PortStep
<1>5. CASE RecvDone
  <2>1. Port!ReceiveDone
    BY <1>5 DEF RecvDone, Port!ReceiveDone, WindowOpen, world
  <2> QED BY <1>0, <2>1 DEF Port!PortNext, Port!PortStep
<1>6. CASE Serve
  <2>1. /\ pc = "serve" /\ pc' = "top"
        /\ UNCHANGED <<allow_current, last_command, peer_known, udp>>
        /\ IF WindowOpen
           THEN current_command' = current_command /\ bus' \in {bus, current_command}
           ELSE current_command' = 0 /\ bus' = bus
    BY <1>6 DEF Serve, ServeCurrent
  <2>2. Port!Serve BY <2>1 DEF Port!Serve
  <2> QED BY <1>0, <2>2 DEF Port!PortNext, Port!PortStep
<1>7. CASE LoopEnd
  <2>1. Port!Stop BY <1>7 DEF LoopEnd, Port!Stop, world
  <2> QED BY <1>0, <2>1 DEF Port!PortNext, Port!PortStep
<1>8. CASE ZeroFrame
  <2>1. Port!Zero BY <1>8 DEF ZeroFrame, Port!Zero
  <2> QED BY <1>0, <2>1 DEF Port!PortNext, Port!PortStep
<1>9. CASE ZeroDone
  <2>1. Port!Exit BY <1>9 DEF ZeroDone, Port!Exit, world
  <2> QED BY <1>0, <2>1 DEF Port!PortNext, Port!PortStep
<1>10. CASE Signal
  BY <1>0, <1>10 DEF Signal, PortVars, Phase, Accepted, Window, WindowOpen, world
<1>11. ASSUME NEW q \in Packet, Arrive(q) PROVE Port!PortNext
  <2>1. Port!Arrives(q)
    BY <1>11 DEF Arrive, Port!Arrives, Running, proxy, WindowOpen
  <2> QED BY <2>1 DEF Port!PortNext
<1>12. ASSUME NEW m \in Motor, Emit(m) PROVE Stutters
  BY <1>12 DEF Emit, PortVars, Phase, Accepted, Window, WindowOpen, proxy
<1>13. CASE CanToggle
  BY <1>0, <1>13 DEF CanToggle, PortVars, Phase, Accepted, Window, WindowOpen, proxy
<1>14. CASE Tick
  <2>1. UNCHANGED <<pc, allow_current, current_command, peer_known, udp, bus>>
    BY <1>14 DEF Tick
  <2> QED BY <1>0, <1>14, <2>1, WindowKept DEF PortVars, Phase, Window
<1>15. CASE UNCHANGED vars
  BY <1>0, <1>15 DEF vars, proxy, world, PortVars, Phase, Accepted, Window, WindowOpen
<1> QED
  BY <1>0, <1>1, <1>2, <1>3, <1>4, <1>5, <1>6, <1>7, <1>8, <1>9, <1>10, <1>11, <1>12,
     <1>13, <1>14, <1>15 DEF Next, Process

\* Whatever BridgeSystem derives from ProxyPort holds of can_proxy.c as CanProxy has it.
THEOREM ProxyImplementsPort == Spec => ImplementsPort
<1>1. TypeOK /\ [Next]_vars => [Port!PortNext]_(Port!port) BY PortStepHolds
<1> QED BY PortInitHolds, <1>1, TypeCorrect, PTL DEF Spec, ImplementsPort, Port!PortSpec
=============================================================================

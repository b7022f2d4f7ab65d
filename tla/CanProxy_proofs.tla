--------------------------- MODULE CanProxy_proofs ---------------------------
(***************************************************************************)
(* Proofs about CanProxy, for every set of motors, every set of packets,   *)
(* every timeout, every --max-current and every bound.                     *)
(***************************************************************************)
EXTENDS CanProxy, TLAPS

\* A packet that asks for current is waiting in the socket's buffer.
HasDrive == \E i \in 1 .. Len(udp) : udp[i].type = "current" /\ udp[i].value # 0

\* Such a packet arrived after the buffer was last empty.
QueueInv ==
    /\ pc = "recv" /\ HasDrive => driveArrived <= now + MaxLoop
    /\ pc = "drain" /\ HasDrive => driveArrived <= now + MaxLoop
    /\ pc \in {"serve", "top"} /\ HasDrive => driveArrived <= now

\* The command in force arrived when its stamp says, unless it has expired.
CommandInv ==
    /\ pc \in Running /\ current_command # 0 =>
         /\ last_command # Never
         /\ last_command = CommandCap \/ driveArrived <= last_command + MaxLoop
    /\ current_command \in -MaxCurrent .. MaxCurrent

\* The emergency stop that arrived last is in the buffer with no current packet behind
\* it, or it has been read and nothing behind it sets a command again.
StopInv ==
    estopLast =>
      \/ \E i \in 1 .. Len(udp) :
            /\ udp[i].type = "estop"
            /\ \A j \in i + 1 .. Len(udp) : udp[j].type # "current"
      \/ current_command = 0 /\ \A j \in 1 .. Len(udp) : udp[j].type # "current"

\* The frames of send_zero_current are counted.
LostInv ==
    /\ pc \in Running => lost = 0
    /\ pc = "zero" => lost + zeroLeft <= ZeroRepeat

Inv == QueueInv /\ CommandInv /\ LostInv /\ DryRun /\ WithinLimit /\ ExitLeavesZero
-----------------------------------------------------------------------------
\* clamp_current returns a value within the limit, and keeps zero.
LEMMA ClampFacts ==
    ASSUME NEW v \in Int
    PROVE  /\ clamp_current(v) \in -MaxCurrent .. MaxCurrent
           /\ v = 0 => clamp_current(v) = 0
  BY ProxyAssumption DEF clamp_current

LEMMA OlderFacts ==
    ASSUME NEW cap \in Nat, NEW a \in Never .. cap
    PROVE  /\ Older(a, cap) \in Never .. cap
           /\ a \in 0 .. cap => Older(a, cap) \in 0 .. cap /\ Older(a, cap) <= a + 1
           /\ a # Never => Older(a, cap) # Never
           /\ a # Never /\ a # cap => Older(a, cap) = a + 1
           /\ a = cap => Older(a, cap) = cap
  BY DEF Older, Never

LEMMA CapsTyping ==
    /\ CommandCap \in Nat /\ FeedbackCap \in Nat /\ SendCap \in Nat
    /\ StateCap \in Nat /\ ArrivalCap \in Nat
    /\ MaxLoop < CommandCap /\ MaxLoop <= SendCap /\ MaxLoop <= StateCap
  BY ProxyAssumption DEF CommandCap, FeedbackCap, SendCap, StateCap, ArrivalCap

\* What a packet that asks for current does to the buffer.
LEMMA PacketTaken ==
    ASSUME NEW q \in Seq(Packet), q # << >>
    PROVE  /\ Head(q) \in Packet /\ Tail(q) \in Seq(Packet)
           /\ Head(q).type = "current" /\ Head(q).value # 0 =>
                \E i \in 1 .. Len(q) : q[i].type = "current" /\ q[i].value # 0
           /\ (\E i \in 1 .. Len(Tail(q)) : Tail(q)[i].type = "current" /\ Tail(q)[i].value # 0)
                => \E i \in 1 .. Len(q) : q[i].type = "current" /\ q[i].value # 0
  OBVIOUS

LEMMA PacketAppended ==
    ASSUME NEW q \in Seq(Packet), NEW p \in Packet
    PROVE  /\ Append(q, p) \in Seq(Packet)
           /\ (\E i \in 1 .. Len(Append(q, p)) :
                 Append(q, p)[i].type = "current" /\ Append(q, p)[i].value # 0)
                => \/ p.type = "current" /\ p.value # 0
                   \/ \E i \in 1 .. Len(q) : q[i].type = "current" /\ q[i].value # 0
  OBVIOUS

\* A step that takes the head of the buffer keeps StopInv, when a current packet alone
\* may set a command and an emergency stop clears it.
LEMMA StopTaken ==
    ASSUME udp \in Seq(Packet), udp # << >>, udp' = Tail(udp), estopLast' = estopLast, StopInv,
           Head(udp).type = "estop" => current_command' = 0,
           Head(udp).type # "current" => current_command' \in {0, current_command}
    PROVE  StopInv'
  <1>1. /\ Len(udp) \in Nat \ {0} /\ Len(udp') = Len(udp) - 1 /\ Head(udp) = udp[1]
        /\ \A j \in 1 .. Len(udp') : udp'[j] = udp[j + 1]
    OBVIOUS
  <1> SUFFICES ASSUME estopLast
               PROVE  \/ \E i \in 1 .. Len(udp') :
                            /\ udp'[i].type = "estop"
                            /\ \A j \in i + 1 .. Len(udp') : udp'[j].type # "current"
                      \/ /\ current_command' = 0
                         /\ \A j \in 1 .. Len(udp') : udp'[j].type # "current"
    BY DEF StopInv
  <1>2. CASE \E i \in 1 .. Len(udp) :
               /\ udp[i].type = "estop"
               /\ \A j \in i + 1 .. Len(udp) : udp[j].type # "current"
    <2>1. PICK i \in 1 .. Len(udp) :
            /\ udp[i].type = "estop"
            /\ \A j \in i + 1 .. Len(udp) : udp[j].type # "current"
      BY <1>2
    <2>2. CASE i = 1
      <3>1. current_command' = 0
        BY <1>1, <2>1, <2>2
      <3>2. \A j \in 1 .. Len(udp') : udp'[j].type # "current"
        BY <1>1, <2>1, <2>2
      <3> QED
        BY <3>1, <3>2
    <2>3. CASE i # 1
      <3>1. i - 1 \in 1 .. Len(udp') /\ udp'[i - 1].type = "estop"
        BY <1>1, <2>1, <2>3
      <3>2. \A j \in (i - 1) + 1 .. Len(udp') : udp'[j].type # "current"
        BY <1>1, <2>1, <2>3
      <3> QED
        BY <3>1, <3>2
    <2> QED
      BY <2>2, <2>3
  <1>3. CASE current_command = 0 /\ \A j \in 1 .. Len(udp) : udp[j].type # "current"
    BY <1>1, <1>3
  <1> QED
    BY <1>2, <1>3 DEF StopInv

\* So does the arrival of a packet.
LEMMA StopAppended ==
    ASSUME udp \in Seq(Packet), NEW p \in Packet, udp' = Append(udp, p), StopInv,
           estopLast' = (p.type = "estop" \/ (estopLast /\ p.type # "current")),
           current_command' = current_command
    PROVE  StopInv'
  <1>1. /\ Len(udp) \in Nat /\ Len(udp') = Len(udp) + 1 /\ udp'[Len(udp')] = p
        /\ \A j \in 1 .. Len(udp) : udp'[j] = udp[j]
    OBVIOUS
  <1> SUFFICES ASSUME estopLast'
               PROVE  \/ \E i \in 1 .. Len(udp') :
                            /\ udp'[i].type = "estop"
                            /\ \A j \in i + 1 .. Len(udp') : udp'[j].type # "current"
                      \/ /\ current_command' = 0
                         /\ \A j \in 1 .. Len(udp') : udp'[j].type # "current"
    BY DEF StopInv
  <1>2. CASE p.type = "estop"
    <2>1. Len(udp') \in 1 .. Len(udp') /\ udp'[Len(udp')].type = "estop"
      BY <1>1, <1>2
    <2>2. \A j \in Len(udp') + 1 .. Len(udp') : udp'[j].type # "current"
      BY <1>1
    <2> QED
      BY <2>1, <2>2
  <1>3. CASE estopLast /\ p.type # "current"
    <2>1. \A j \in 1 .. Len(udp') : j \in 1 .. Len(udp) \/ udp'[j] = p
      BY <1>1
    <2>2. CASE \E i \in 1 .. Len(udp) :
                 /\ udp[i].type = "estop"
                 /\ \A j \in i + 1 .. Len(udp) : udp[j].type # "current"
      <3>1. PICK i \in 1 .. Len(udp) :
              /\ udp[i].type = "estop"
              /\ \A j \in i + 1 .. Len(udp) : udp[j].type # "current"
        BY <2>2
      <3>2. i \in 1 .. Len(udp') /\ udp'[i].type = "estop"
        BY <1>1, <3>1
      <3>3. \A j \in i + 1 .. Len(udp') : udp'[j].type # "current"
        BY <1>1, <1>3, <2>1, <3>1
      <3> QED
        BY <3>2, <3>3
    <2>3. CASE current_command = 0 /\ \A j \in 1 .. Len(udp) : udp[j].type # "current"
      BY <1>1, <1>3, <2>1, <2>3
    <2> QED
      BY <1>3, <2>2, <2>3 DEF StopInv
  <1> QED
    BY <1>2, <1>3

LEMMA PacketFields ==
    ASSUME NEW p \in Packet, p.type = "current"
    PROVE  p.value \in Int /\ p.timeout \in 0 .. MaxTimeout
  BY ProxyAssumption DEF Packet

-----------------------------------------------------------------------------
LEMMA InitInv == Init => TypeOK /\ Inv
  <1> SUFFICES ASSUME Init PROVE TypeOK /\ Inv
    OBVIOUS
  <1>1. /\ pc \in Running \union {"off", "zero"} /\ now \in 0 .. MaxLoop
        /\ current_command \in Int /\ current_timeout \in 0 .. MaxTimeout
        /\ last_command \in Never .. CommandCap
        /\ last_feedback \in [Motor -> Never .. FeedbackCap]
    BY ProxyAssumption, CapsTyping DEF Init, FreshProcess, Running, Never
  <1>2. /\ last_current \in 0 .. SendCap /\ last_state \in 0 .. StateCap
        /\ zeroLeft \in 0 .. ZeroRepeat /\ driveArrived \in 0 .. ArrivalCap
        /\ burst \in Nat /\ lost \in 0 .. ZeroRepeat /\ bus \in Int
        /\ canRx \in SUBSET Motor
    BY ProxyAssumption, CapsTyping DEF Init, FreshProcess
  <1>3. /\ stateOut \in Seq([mask : SUBSET Motor, current : Int])
        /\ udp \in Seq(Packet)
    BY DEF Init, FreshProcess
  <1>4. /\ allow_current \in BOOLEAN /\ peer_known \in BOOLEAN
        /\ g_running \in BOOLEAN /\ canUp \in BOOLEAN /\ estopLast \in BOOLEAN
    BY Zenon DEF Init, FreshProcess
  <1>5. TypeOK
    BY <1>1, <1>2, <1>3, <1>4 DEF TypeOK
  <1>6. QueueInv /\ CommandInv /\ LostInv
    BY ProxyAssumption DEF Init, FreshProcess, QueueInv, CommandInv, LostInv, HasDrive, Running
  <1>7. DryRun /\ WithinLimit /\ ExitLeavesZero
    BY ProxyAssumption DEF Init, FreshProcess, DryRun, WithinLimit, ExitLeavesZero
  <1> QED
    BY <1>5, <1>6, <1>7 DEF Inv

\* A tick passes: the ages keep their types and the bounds of Inv keep holding,
\* because both sides of each of them grow together.
LEMMA TickInv == ASSUME TypeOK, Inv, Tick PROVE TypeOK' /\ Inv'
  <1>1. /\ now' = now + 1 /\ now < MaxLoop
        /\ last_command' = Older(last_command, CommandCap)
        /\ last_feedback' = [m \in Motor |-> Older(last_feedback[m], FeedbackCap)]
        /\ last_current' = Older(last_current, SendCap)
        /\ last_state' = Older(last_state, StateCap)
        /\ driveArrived' = Older(driveArrived, ArrivalCap)
        /\ burst' = 0
        /\ UNCHANGED <<pc, allow_current, current_command, current_timeout, peer_known,
                       stateOut, g_running, zeroLeft, udp, canRx, bus, canUp, estopLast, lost>>
    BY DEF Tick
  <1>2. /\ last_command \in Never .. CommandCap
        /\ last_feedback \in [Motor -> Never .. FeedbackCap]
        /\ last_current \in 0 .. SendCap /\ last_state \in 0 .. StateCap
        /\ driveArrived \in 0 .. ArrivalCap /\ now \in 0 .. MaxLoop
    BY DEF TypeOK
  <1>3. /\ last_command' \in Never .. CommandCap
        /\ last_command # Never => last_command' # Never
        /\ last_command # Never /\ last_command # CommandCap =>
              last_command' = last_command + 1
        /\ last_command = CommandCap => last_command' = CommandCap
    BY <1>1, <1>2, OlderFacts, CapsTyping
  <1>4. driveArrived' \in 0 .. ArrivalCap /\ driveArrived' <= driveArrived + 1
    <2>1. driveArrived \in Never .. ArrivalCap
      BY <1>2, CapsTyping DEF Never
    <2> QED
      BY <1>1, <1>2, <2>1, OlderFacts, CapsTyping
  <1>5. last_current' \in 0 .. SendCap
    <2>1. last_current \in Never .. SendCap
      BY <1>2, CapsTyping DEF Never
    <2> QED
      BY <1>1, <1>2, <2>1, OlderFacts, CapsTyping
  <1>6. last_state' \in 0 .. StateCap
    <2>1. last_state \in Never .. StateCap
      BY <1>2, CapsTyping DEF Never
    <2> QED
      BY <1>1, <1>2, <2>1, OlderFacts, CapsTyping
  <1>7. last_feedback' \in [Motor -> Never .. FeedbackCap]
    <2>1. \A m \in Motor : Older(last_feedback[m], FeedbackCap) \in Never .. FeedbackCap
      BY <1>2, OlderFacts, CapsTyping
    <2> QED
      BY <1>1, <2>1
  <1>8. now' \in 0 .. MaxLoop
    BY <1>1, <1>2, ProxyAssumption
  <1>9. TypeOK'
    BY <1>1, <1>3, <1>4, <1>5, <1>6, <1>7, <1>8 DEF TypeOK
  <1>10. HasDrive' = HasDrive
    BY <1>1 DEF HasDrive
  <1>11. QueueInv'
    BY <1>1, <1>2, <1>4, <1>10, ProxyAssumption DEF Inv, QueueInv
  <1>12. CommandInv'
    <2>1. CommandInv
      BY DEF Inv
    <2>2. CommandCap \in Nat /\ MaxLoop \in Nat
      BY CapsTyping, ProxyAssumption
    <2> QED
      BY <1>1, <1>2, <1>3, <1>4, <2>1, <2>2 DEF CommandInv, Never
  <1>13. LostInv' /\ DryRun' /\ WithinLimit' /\ ExitLeavesZero'
    BY <1>1 DEF Inv, LostInv, DryRun, WithinLimit, ExitLeavesZero
  <1> QED
    BY <1>9, <1>11, <1>12, <1>13 DEF Inv

\* Every action keeps the types and the invariant.
LEMMA StepInv == TypeOK /\ Inv /\ [Next]_vars => TypeOK' /\ Inv'
  <1> SUFFICES ASSUME TypeOK, Inv, [Next]_vars
               PROVE  TypeOK' /\ Inv'
    OBVIOUS
  <1> USE ProxyAssumption, CapsTyping
      DEF TypeOK, Inv, QueueInv, CommandInv, LostInv, DryRun, WithinLimit,
          ExitLeavesZero, HasDrive, Running
  <1>1. CASE LoopTop
    BY <1>1 DEF LoopTop, world
  <1>2. CASE DrainDone
    BY <1>2 DEF DrainDone, world
  <1>4. CASE RecvDone
    BY <1>4 DEF RecvDone, world
  <1>6. CASE LoopEnd
    BY <1>6 DEF LoopEnd, world
  <1>7. CASE ZeroFrame
    BY <1>7 DEF ZeroFrame
  <1>8. CASE ZeroDone
    BY <1>8 DEF ZeroDone, world
  <1>9. CASE Signal
    <2>1. g_running' \in BOOLEAN
      BY <1>9, Zenon DEF Signal
    <2>2. UNCHANGED <<pc, allow_current, now, current_command, current_timeout,
                      last_command, last_feedback, last_current, last_state,
                      peer_known, stateOut, zeroLeft, world>>
      BY <1>9 DEF Signal
    <2> QED
      BY <2>1, <2>2 DEF world
  <1>10. CASE CanToggle
    <2>1. canUp' \in BOOLEAN
      BY <1>10, Zenon DEF CanToggle
    <2> QED
      BY <1>10, <2>1 DEF CanToggle, proxy
  <1>3. CASE RecvPacket
    <2> DEFINE p == Head(udp)
    <2>1. /\ p \in Packet /\ udp' \in Seq(Packet)
          /\ p.type = "current" /\ p.value # 0 => HasDrive
          /\ HasDrive' => HasDrive
      BY <1>3, PacketTaken DEF RecvPacket
    <2>2. p.type = "current" =>
            /\ p.value \in Int /\ p.timeout \in 0 .. MaxTimeout
            /\ clamp_current(p.value) \in -MaxCurrent .. MaxCurrent
            /\ clamp_current(p.value) # 0 => HasDrive
      BY <2>1, PacketFields, ClampFacts
    <2>3. /\ current_command' \in -MaxCurrent .. MaxCurrent
          /\ ~allow_current => current_command' = 0
          /\ current_timeout' \in 0 .. MaxTimeout
          /\ \/ current_command' = 0 /\ last_command' \in {last_command, now}
             \/ current_command' = current_command /\ last_command' = last_command
             \/ HasDrive /\ last_command' = now
      BY <1>3, <2>2 DEF RecvPacket, ApplyCurrent, ApplyEstop
    <2>4. peer_known' \in BOOLEAN
      BY <1>3 DEF RecvPacket
    <2>5. /\ pc = "recv" /\ pc' = "recv"
          /\ UNCHANGED <<allow_current, now, last_feedback, last_current, last_state,
                         stateOut, g_running, zeroLeft, canRx, bus, canUp,
                         driveArrived, estopLast, burst, lost>>
      BY <1>3 DEF RecvPacket
    <2> HIDE DEF p
    <2>6. TypeOK'
      BY <2>1, <2>3, <2>4, <2>5 DEF Never
    <2>7. CommandInv'
      BY <2>3, <2>5 DEF Never
    <2>8. QueueInv'
      BY <2>1, <2>5
    <2> QED
      BY <2>3, <2>5, <2>6, <2>7, <2>8
  <1>5. CASE Serve
    <2>1. /\ current_command' \in {0, current_command}
          /\ bus' \in {bus, current_command}
          /\ last_current' \in {now, last_current}
          /\ last_state' \in {now, last_state}
      BY <1>5 DEF Serve, ServeCurrent, ServeState
    <2>2. online_mask \in SUBSET Motor
      BY DEF online_mask
    <2>3. \/ stateOut' \in {<< >>, stateOut}
          \/ stateOut' = <<[mask |-> online_mask, current |-> current_command']>>
      BY <1>5 DEF Serve, ServeState
    <2>4. /\ pc = "serve" /\ pc' = "top"
          /\ UNCHANGED <<allow_current, now, current_timeout, last_command,
                         last_feedback, peer_known, g_running, zeroLeft, udp, canRx,
                         canUp, driveArrived, estopLast, burst, lost>>
      BY <1>5 DEF Serve
    <2>5. /\ stateOut' \in Seq([mask : SUBSET Motor, current : Int])
          /\ \/ stateOut' \in {<< >>, stateOut}
             \/ stateOut'[1].current = current_command'
      <3>1. current_command' \in Int
        BY <2>1
      <3>2. [mask |-> online_mask, current |-> current_command']
              \in [mask : SUBSET Motor, current : Int]
        BY <2>2, <3>1
      <3> HIDE DEF Inv, QueueInv, CommandInv, LostInv, DryRun, WithinLimit,
                   ExitLeavesZero, HasDrive
      <3>3. stateOut \in Seq([mask : SUBSET Motor, current : Int])
        OBVIOUS
      <3> HIDE DEF TypeOK
      <3> DEFINE Rec == [mask : SUBSET Motor, current : Int]
                 r   == [mask |-> online_mask, current |-> current_command']
      <3>4. r.current = current_command' /\ r \in Rec
        BY <3>2
      <3> HIDE DEF Rec, r
      <3>5. <<r>> \in Seq(Rec) /\ <<r>>[1] = r /\ << >> \in Seq(Rec)
        BY <3>4
      <3>6. \/ stateOut' \in {<< >>, stateOut}
            \/ stateOut' = <<r>>
        BY <2>3 DEF r
      <3>7. stateOut' \in Seq(Rec)
        BY <3>3, <3>5, <3>6 DEF Rec
      <3> QED
        BY <3>4, <3>5, <3>6, <3>7 DEF Rec
    <2>6. /\ current_command' \in -MaxCurrent .. MaxCurrent
          /\ bus' \in -MaxCurrent .. MaxCurrent
      BY <2>1
    <2>7. WithinLimit'
      BY <2>5, <2>6
    <2>8. TypeOK'
      <3>1. /\ last_current' \in 0 .. SendCap /\ last_state' \in 0 .. StateCap
        <4>1. /\ last_current \in 0 .. SendCap /\ last_state \in 0 .. StateCap
              /\ now \in 0 .. MaxLoop
          OBVIOUS
        <4> HIDE DEF TypeOK, Inv, QueueInv, CommandInv, LostInv, DryRun, WithinLimit,
                     ExitLeavesZero, HasDrive
        <4>2. now \in 0 .. SendCap /\ now \in 0 .. StateCap
          BY <4>1
        <4> QED
          BY <2>1, <4>1, <4>2
      <3>2. current_command' \in Int /\ bus' \in Int
        BY <2>6
      <3>3. stateOut' \in Seq([mask : SUBSET Motor, current : Int])
        BY <2>5
      <3> QED
        BY <2>4, <3>1, <3>2, <3>3
    <2>9. QueueInv'
      BY <2>4
    <2>10. CommandInv'
      BY <2>1, <2>4, <2>6
    <2>11. LostInv' /\ DryRun' /\ ExitLeavesZero'
      BY <2>1, <2>4
    <2> QED
      BY <2>7, <2>8, <2>9, <2>10, <2>11
  <1>11. CASE Tick
    BY <1>11, TickInv
  <1>12. ASSUME NEW m \in Motor, DrainFrame(m)
         PROVE  TypeOK' /\ Inv'
    BY <1>12 DEF DrainFrame, Never
  <1>13. ASSUME NEW q \in Packet, Arrive(q)
         PROVE  TypeOK' /\ Inv'
    <2>1. /\ udp' = Append(udp, q) /\ burst' = burst + 1
          /\ driveArrived' = IF q.type = "current" /\ q.value # 0 THEN 0 ELSE driveArrived
          /\ UNCHANGED <<pc, allow_current, now, current_command, current_timeout,
                         last_command, last_feedback, last_current, last_state, peer_known,
                         stateOut, g_running, zeroLeft, canRx, bus, canUp, lost>>
      BY <1>13 DEF Arrive, proxy
    <2>2. udp' \in Seq(Packet) /\ driveArrived' \in 0 .. ArrivalCap /\ burst' \in Nat
      BY <2>1, PacketAppended
    <2>3. HasDrive' => driveArrived' = 0 \/ (HasDrive /\ driveArrived' = driveArrived)
      BY <2>1, PacketAppended
    <2>4. driveArrived' <= driveArrived
      BY <2>1
    <2> HIDE DEF HasDrive, Packet
    <2>5. QueueInv'
      BY <2>1, <2>3
    <2>6. CommandInv'
      <3>1. last_command \in Int /\ driveArrived \in Int /\ driveArrived' \in Int
        BY <2>2
      <3> QED
        BY <2>1, <2>4, <3>1
    <2>7. estopLast' \in BOOLEAN
      BY <1>13, Zenon DEF Arrive
    <2>8. TypeOK'
      BY <2>1, <2>2, <2>7
    <2>9. LostInv' /\ DryRun' /\ WithinLimit' /\ ExitLeavesZero'
      BY <2>1
    <2> QED
      BY <2>5, <2>6, <2>8, <2>9, Zenon DEF Inv
  <1>14. ASSUME NEW m \in Motor, Emit(m)
         PROVE  TypeOK' /\ Inv'
    <2>1. canRx' = canRx \union {m} /\ UNCHANGED <<proxy, udp, bus, canUp,
             driveArrived, estopLast, burst, lost>>
      BY <1>14 DEF Emit
    <2>2. TypeOK'
      BY <2>1 DEF proxy
    <2>3. Inv'
      BY <2>1 DEF proxy
    <2> HIDE DEF TypeOK, Inv
    <2> QED
      BY <2>2, <2>3
  <1>15. CASE UNCHANGED vars
    BY <1>15 DEF vars, proxy, world
  <1> QED
    BY <1>1, <1>2, <1>3, <1>4, <1>5, <1>6, <1>7, <1>8, <1>9, <1>10, <1>11, <1>12,
       <1>13, <1>14, <1>15 DEF Next, Process
-----------------------------------------------------------------------------
\* Every reachable state satisfies the types and the inductive invariant.
THEOREM Invariance == Spec => [](TypeOK /\ Inv)
  BY InitInv, StepInv, PTL DEF Spec

\* Every variable of the proxy and of its world keeps its type.
THEOREM TypeCorrect == Spec => []TypeOK
  BY Invariance, PTL

\* can_proxy.c without --allow-current never puts a non-zero current on the bus,
\* whatever packets arrive.
THEOREM DryRunHolds == Spec => []DryRun
  BY Invariance, PTL DEF Inv

\* Every frame on the bus and every reported current is within --max-current.
THEOREM LimitHolds == Spec => []WithinLimit
  BY Invariance, PTL DEF Inv

\* send_zero_current at the end of main leaves a drive frame only if every one of
\* its frames failed.
THEOREM ShutdownZeroes == Spec => []ExitLeavesZero
  BY Invariance, PTL DEF Inv

\* The stamp of the command in force bounds the age of the packet that carried it.
LEMMA WindowBoundsAge == TypeOK /\ Inv => DriveInWindow
  <1> SUFFICES ASSUME TypeOK, Inv, pc = "serve", WindowOpen, current_command # 0
               PROVE  driveArrived <= current_timeout + 2 * MaxLoop
    BY DEF DriveInWindow
  <1>1. /\ last_command \in Never .. CommandCap /\ last_command # Never
        /\ now \in 0 .. MaxLoop /\ current_timeout \in 0 .. MaxTimeout
        /\ driveArrived \in 0 .. ArrivalCap
        /\ last_command - now <= current_timeout
    BY DEF TypeOK, WindowOpen
  <1>2. last_command = CommandCap \/ driveArrived <= last_command + MaxLoop
    BY DEF Inv, CommandInv, Running
  <1>3. last_command # CommandCap
    BY <1>1, ProxyAssumption DEF CommandCap
  <1> QED
    BY <1>1, <1>2, <1>3, ProxyAssumption, CapsTyping DEF Never

\* The proxy drives the bus only inside the window of the last current packet: an
\* expired command is never revived by heartbeats, bad or estop packets.
THEOREM DriveOnlyInWindow == Spec => []DriveInWindow
  BY Invariance, WindowBoundsAge, PTL
-----------------------------------------------------------------------------
\* Only a packet and its arrival change what an emergency stop left behind; the loop
\* keeps the command or clears it.
LEMMA StopStep == TypeOK /\ StopInv /\ [Next]_vars => StopInv'
  <1> SUFFICES ASSUME TypeOK, StopInv, [Next]_vars
               PROVE  StopInv'
    OBVIOUS
  <1>0. ASSUME UNCHANGED <<udp, estopLast>>, current_command' \in {0, current_command}
        PROVE  StopInv'
    BY <1>0 DEF StopInv
  <1>1. CASE LoopTop \/ DrainDone \/ RecvDone \/ LoopEnd \/ ZeroDone
    BY <1>0, <1>1 DEF LoopTop, DrainDone, RecvDone, LoopEnd, ZeroDone, world
  <1>2. CASE RecvPacket
    <2>1. /\ udp \in Seq(Packet) /\ udp # << >> /\ udp' = Tail(udp)
          /\ estopLast' = estopLast
      BY <1>2 DEF RecvPacket, TypeOK
    <2>2. /\ Head(udp).type = "estop" => current_command' = 0
          /\ Head(udp).type # "current" => current_command' \in {0, current_command}
      BY <1>2 DEF RecvPacket, ApplyEstop
    <2> QED
      BY <2>1, <2>2, StopTaken
  <1>3. CASE Serve
    BY <1>0, <1>3 DEF Serve, ServeCurrent
  <1>4. CASE ZeroFrame
    BY <1>0, <1>4 DEF ZeroFrame
  <1>5. CASE Signal \/ CanToggle \/ Tick
    BY <1>0, <1>5 DEF Signal, CanToggle, Tick, proxy, world
  <1>6. ASSUME NEW m \in Motor, DrainFrame(m) \/ Emit(m)
        PROVE  StopInv'
    BY <1>0, <1>6 DEF DrainFrame, Emit, proxy
  <1>7. ASSUME NEW p \in Packet, Arrive(p)
        PROVE  StopInv'
    <2>1. /\ udp \in Seq(Packet) /\ udp' = Append(udp, p)
          /\ estopLast' = (p.type = "estop" \/ (estopLast /\ p.type # "current"))
          /\ current_command' = current_command
      BY <1>7 DEF Arrive, TypeOK, proxy
    <2> QED
      BY <2>1, StopAppended
  <1>8. CASE UNCHANGED vars
    BY <1>0, <1>8 DEF vars, proxy, world
  <1> QED
    BY <1>1, <1>2, <1>3, <1>4, <1>5, <1>6, <1>7, <1>8 DEF Next, Process

\* The ESTOP branch of receive_udp, for every order of packets and every buffer: a stop
\* that has been read is not undone before a current packet arrives behind it.
THEOREM EstopHolds == Spec => []EstopOverrides
  <1>1. Init => StopInv
    BY DEF Init, FreshProcess, StopInv
  <1>2. TypeOK /\ StopInv => EstopOverrides
    BY DEF StopInv, EstopOverrides
  <1> QED
    BY <1>1, <1>2, StopStep, TypeCorrect, PTL DEF Spec
=============================================================================

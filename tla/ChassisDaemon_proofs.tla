------------------------ MODULE ChassisDaemon_proofs ------------------------
(***************************************************************************)
(* Proofs about ChassisDaemon, for every set of motors, every timeout and  *)
(* every bound.                                                            *)
(***************************************************************************)
EXTENDS ChassisDaemon, ChassisControl_proofs

\* What the counter of failed frames needs to stay within its type.
LostInv ==
    /\ pc \in Looping \union Waiting => lost = 0
    /\ pc = "zero" => lost + zeroLeft <= ZeroRepeat

(***************************************************************************)
(* The inductive invariant.  Every clause bounds how long ago something    *)
(* happened by the age of a stamp or of the reading `now` plus a constant: *)
(* both sides grow by one on a tick, so the clause survives it, and `now`  *)
(* itself never passes MaxLoop.                                            *)
(***************************************************************************)

HasMove == \E i \in 1 .. Len(udp) : udp[i] = "move"

\* The last move arrived since the start, and at most one iteration before a
\* clock reading of age `a`, unless that reading was made soon after the start.
Arrived(a) ==
    /\ moveArrived <= start
    /\ moveArrived <= a + MaxLoop \/ start <= a + WaitTimeout + MaxLoop

\* Moves waiting in the socket buffer arrived after the buffer was last empty.
QueueInv ==
    /\ pc = "off" => udp = << >>
    /\ pc \in Waiting => start <= now + WaitTimeout
    /\ pc \in Waiting /\ HasMove => moveArrived <= start
    /\ pc = "top" /\ HasMove =>
         moveArrived <= start /\ (moveArrived <= now \/ start <= now + WaitTimeout)
    /\ pc = "recv" /\ HasMove => Arrived(now)
    /\ pc \in {"drain", "send"} /\ HasMove => moveArrived <= start /\ moveArrived <= now

\* A command to move that can still be acted on arrived when its stamp says.
CommandInv ==
    /\ ctl.command = "move" => ctl.last_command = CommandCap \/ Arrived(ctl.last_command)
    /\ pc \in Looping \union Waiting => now <= ctl.last_command

\* A frame is in the buffer for two iterations at most before it is stamped.
FeedbackInv ==
    /\ pc = "off" => canRx = {}
    /\ \A m \in ctl.online :
         \/ ctl.last_update[m] = FeedbackCap
         \/ emitted[m] <= ctl.last_update[m] + 2 * MaxLoop
    /\ pc \in {"wdrain", "recv", "drain"} => \A m \in canRx : emitted[m] <= now + MaxLoop
    /\ pc \in {"wait", "top", "send"} => \A m \in canRx : emitted[m] <= now

\* What justified a drive frame, `k` iterations after its command was read.
Justified(k) ==
    /\ moveArrived <= start
    /\ \/ moveArrived <= now + CommandTimeout + k * MaxLoop
       \/ start <= now + CommandTimeout + WaitTimeout + k * MaxLoop
    /\ \A m \in Motor : emitted[m] <= now + FeedbackTimeout + (k + 1) * MaxLoop

DriveInv ==
    /\ pc \in Waiting \union {"off"} => bus # "drive"
    /\ pc = "send" /\ currents = "drive" => Justified(1)
    /\ pc = "top" /\ bus = "drive" => Justified(1)
    /\ pc \in {"recv", "drain", "send"} /\ bus = "drive" => Justified(2)
    /\ pc = "zero" /\ zeroLeft = ZeroRepeat /\ bus = "drive" => Justified(3)

\* A drive frame that outlives the loop has seen every zero frame fail.
ExitInv ==
    /\ pc \in Looping \union Waiting => exit = "none"
    /\ pc = "zero" /\ bus \in {"drive", "orphan"} => lost = ZeroRepeat - zeroLeft
    /\ pc = "off" /\ exit = "ok" /\ bus \in {"drive", "orphan"} => lost = ZeroRepeat

\* The PID holds state between two steps only while it drives.
PidInv ==
    /\ PidCleanAtRest
    /\ pc \in Waiting => ctl.pid = "clean"

IInv == QueueInv /\ CommandInv /\ FeedbackInv /\ DriveInv /\ ExitInv /\ PidInv
-----------------------------------------------------------------------------
LEMMA CapsTyping ==
    /\ AgeCap \in Nat /\ EmitCap \in Nat
    /\ AgeCap = CommandTimeout + WaitTimeout + 4 * MaxLoop + 1
    /\ EmitCap = FeedbackTimeout + 5 * MaxLoop + 1
  BY ControlAssumption, DaemonAssumption
     DEF AgeCap, EmitCap, StartupBound, SilenceBound, FeedbackBound

\* Every action keeps the types.
LEMMA TypeStep ==
    TypeOK /\ LostInv /\ [Next]_vars => TypeOK' /\ LostInv'
  <1> SUFFICES ASSUME TypeOK, LostInv, [Next]_vars
               PROVE  TypeOK' /\ LostInv'
    OBVIOUS
  <1> USE ControlAssumption, DaemonAssumption, CapsTyping
      DEF TypeOK, LostInv, PC, Looping, Waiting
  <1>1. CASE StartNoCan
    BY <1>1 DEF StartNoCan, MayStart, world
  <1>2. CASE StartNoUdp
    BY <1>2 DEF StartNoUdp, MayStart
  <1>3. CASE StartOk
    <2>1. ctl' \in Controller
      BY <1>3, InitialController DEF StartOk
    <2> QED
      BY <1>3, <2>1 DEF StartOk, MayStart, Current
  <1>4. CASE WaitFailed
    BY <1>4 DEF WaitFailed, world
  <1>5. CASE WaitPoll
    BY <1>5 DEF WaitPoll, world
  <1>6. CASE WaitDrained
    BY <1>6 DEF WaitDrained, world
  <1>7. CASE LoopTop
    BY <1>7 DEF LoopTop, world
  <1>8. CASE RecvDatagram
    <2>1. Head(udp) \in Datagram /\ Tail(udp) \in Seq(Datagram)
      BY <1>8 DEF RecvDatagram
    <2>2. ctl' \in Controller
      BY <1>8, <2>1, ControllerTyping DEF RecvDatagram, Datagram
    <2> QED
      BY <1>8, <2>1, <2>2 DEF RecvDatagram
  <1>9. CASE RecvDone
    BY <1>9 DEF RecvDone, world
  <1>10. CASE Step
    <2>1. PICK o \in chassis_step(ctl, now) :
            /\ ctl' = o.ctl
            /\ last_online' = IF o.ret THEN 1 ELSE 0
            /\ currents' = IF o.ret THEN o.currents ELSE "zero"
      BY <1>10 DEF Step
    <2>2. o.ctl \in Controller /\ o.currents \in Current /\ o.ret \in BOOLEAN
      BY StepTyping
    <2>3. ctl' \in Controller /\ last_online' \in {-1, 0, 1} /\ currents' \in Current
      BY <2>1, <2>2 DEF Current
    <2> QED
      BY <1>10, <2>3 DEF Step, world
  <1>11. CASE SendOk
    BY <1>11 DEF SendOk, Current, Bus
  <1>12. CASE SendFailed
    BY <1>12, ControllerTyping DEF SendFailed, LeaveLoop, world
  <1>13. CASE LoopEnd
    BY <1>13, ControllerTyping DEF LoopEnd, LeaveLoop, world
  <1>14. CASE ZeroFrame
    BY <1>14 DEF ZeroFrame, Bus
  <1>15. CASE ZeroDone
    <2>1. ctl' \in Controller /\ emitted' \in [Motor -> 0 .. EmitCap] /\ udp' \in Seq(Datagram)
      BY <1>15, InitialController DEF ZeroDone, Gone
    <2> QED
      BY <1>15, <2>1 DEF ZeroDone, Gone, Current, Bus
  <1>16. CASE Signal
    BY <1>16 DEF Signal, world
  <1>17. CASE Crash
    <2>1. ctl' \in Controller /\ emitted' \in [Motor -> 0 .. EmitCap] /\ udp' \in Seq(Datagram)
      BY <1>17, InitialController DEF Crash, Gone
    <2> QED
      BY <1>17, <2>1 DEF Crash, Gone, Current, Bus
  <1>18. CASE CanToggle
    BY <1>18 DEF CanToggle, daemon
  <1>19. CASE Tick
    BY <1>19, ControllerTyping DEF Tick, Older
  <1>20. ASSUME NEW m \in Motor, DrainFrame(m)
         PROVE  TypeOK' /\ LostInv'
    BY <1>20, ControllerTyping DEF DrainFrame
  <1>21. ASSUME NEW d \in Datagram, Arrive(d)
         PROVE  TypeOK' /\ LostInv'
    BY <1>21 DEF Arrive, daemon
  <1>22. ASSUME NEW m \in Motor, Emit(m)
         PROVE  TypeOK' /\ LostInv'
    BY <1>22 DEF Emit, daemon
  <1>23. CASE UNCHANGED vars
    BY <1>23 DEF vars, daemon, world
  <1> QED
    BY <1>1, <1>2, <1>3, <1>4, <1>5, <1>6, <1>7, <1>8, <1>9, <1>10, <1>11, <1>12,
       <1>13, <1>14, <1>15, <1>16, <1>17, <1>18, <1>19, <1>20, <1>21, <1>22, <1>23
    DEF Next, Process

LEMMA TypeInit == Init => TypeOK /\ LostInv
  BY ControlAssumption, DaemonAssumption, CapsTyping, InitialController
     DEF Init, TypeOK, LostInv, PC, Looping, Waiting, Current, Bus

\* Every reachable state is well typed; in particular `now`, the clock reading the
\* main loop works with, is never older than one iteration (tools/chassis_daemon.c,
\* main and wait_for_all_feedback).
THEOREM TypeCorrect == Spec => []TypeOK
  <1>1. Spec => [](TypeOK /\ LostInv)
    BY TypeInit, TypeStep, PTL DEF Spec
  <1> QED
    BY <1>1, PTL
-----------------------------------------------------------------------------
\* Appending and removing datagrams, as far as commands to move are concerned.
LEMMA MoveAppended ==
    ASSUME NEW q \in Seq(Datagram), NEW d \in Datagram,
           NEW i \in 1 .. Len(Append(q, d)), Append(q, d)[i] = "move"
    PROVE  d = "move" \/ \E j \in 1 .. Len(q) : q[j] = "move"
  OBVIOUS

LEMMA MoveTaken ==
    ASSUME NEW q \in Seq(Datagram), q # << >>
    PROVE  /\ Head(q) = "move" => \E j \in 1 .. Len(q) : q[j] = "move"
           /\ (\E i \in 1 .. Len(Tail(q)) : Tail(q)[i] = "move")
                => \E j \in 1 .. Len(q) : q[j] = "move"
  OBVIOUS

\* The moves waiting in the socket buffer: RecvDone empties it, LoopTop and the
\* end of the wait are where `now` is read again.
LEMMA QueueStep ==
    TypeOK /\ TypeOK' /\ QueueInv /\ [Next]_vars => QueueInv'
  <1> SUFFICES ASSUME TypeOK, TypeOK', QueueInv, [Next]_vars
               PROVE  QueueInv'
    OBVIOUS
  <1> USE ControlAssumption, DaemonAssumption, CapsTyping
      DEF TypeOK, QueueInv, PC, Looping, Waiting, HasMove, Arrived
  <1>1. CASE StartNoCan
    BY <1>1 DEF StartNoCan, MayStart, world
  <1>2. CASE StartNoUdp
    BY <1>2 DEF StartNoUdp, MayStart
  <1>3. CASE StartOk
    BY <1>3 DEF StartOk, MayStart
  <1>4. CASE WaitFailed
    BY <1>4 DEF WaitFailed, world
  <1>5. CASE WaitPoll
    BY <1>5 DEF WaitPoll, world
  <1>6. CASE WaitDrained
    BY <1>6 DEF WaitDrained, world
  <1>7. CASE LoopTop
    BY <1>7 DEF LoopTop, world
  <1>8. CASE RecvDatagram
    BY <1>8, MoveTaken DEF RecvDatagram
  <1>9. CASE RecvDone
    BY <1>9 DEF RecvDone, world
  <1>10. CASE Step
    BY <1>10 DEF Step, world
  <1>11. CASE SendOk
    BY <1>11 DEF SendOk
  <1>12. CASE SendFailed
    BY <1>12 DEF SendFailed, LeaveLoop, world
  <1>13. CASE LoopEnd
    BY <1>13 DEF LoopEnd, LeaveLoop, world
  <1>14. CASE ZeroFrame
    BY <1>14 DEF ZeroFrame
  <1>15. CASE ZeroDone
    BY <1>15 DEF ZeroDone, Gone
  <1>16. CASE Signal
    BY <1>16 DEF Signal, world
  <1>17. CASE Crash
    BY <1>17 DEF Crash, Gone
  <1>18. CASE CanToggle
    BY <1>18 DEF CanToggle, daemon
  <1>19. CASE Tick
    BY <1>19 DEF Tick, Older
  <1>20. ASSUME NEW m \in Motor, DrainFrame(m)
         PROVE  QueueInv'
    BY <1>20 DEF DrainFrame
  <1>21. ASSUME NEW d \in Datagram, Arrive(d)
         PROVE  QueueInv'
    BY <1>21, MoveAppended DEF Arrive, daemon
  <1>22. ASSUME NEW m \in Motor, Emit(m)
         PROVE  QueueInv'
    BY <1>22 DEF Emit, daemon
  <1>23. CASE UNCHANGED vars
    BY <1>23 DEF vars, daemon, world
  <1> QED
    BY <1>1, <1>2, <1>3, <1>4, <1>5, <1>6, <1>7, <1>8, <1>9, <1>10, <1>11, <1>12,
       <1>13, <1>14, <1>15, <1>16, <1>17, <1>18, <1>19, <1>20, <1>21, <1>22, <1>23 DEF Next, Process

\* The command in force arrived when its stamp says: RecvDatagram takes it from the
\* buffer, with a stamp that is not later than `now`.
LEMMA CommandStep ==
    TypeOK /\ TypeOK' /\ QueueInv /\ CommandInv /\ [Next]_vars => CommandInv'
  <1> SUFFICES ASSUME TypeOK, TypeOK', QueueInv, CommandInv, [Next]_vars
               PROVE  CommandInv'
    OBVIOUS
  <1> USE ControlAssumption, DaemonAssumption, CapsTyping
      DEF TypeOK, CommandInv, PC, Looping, Waiting, Arrived, Controller, CommandCap
  <1>1. CASE StartNoCan
    BY <1>1 DEF StartNoCan, MayStart, world
  <1>2. CASE StartNoUdp
    BY <1>2 DEF StartNoUdp, MayStart
  <1>3. CASE StartOk
    BY <1>3 DEF StartOk, MayStart, chassis_init
  <1>4. CASE WaitFailed
    BY <1>4 DEF WaitFailed, world
  <1>5. CASE WaitPoll
    BY <1>5 DEF WaitPoll, world
  <1>6. CASE WaitDrained
    BY <1>6 DEF WaitDrained, world
  <1>7. CASE LoopTop
    BY <1>7 DEF LoopTop, world
  <1>8. CASE RecvDatagram
    <2>1. CASE Head(udp) = "bad"
      BY <1>8, <2>1 DEF RecvDatagram
    <2>2. CASE Head(udp) # "bad"
      <3>1. ctl'.command = Head(udp) /\ ctl'.last_command = now
        BY <1>8, <2>2 DEF RecvDatagram, chassis_set_command
      <3>2. ctl'.command = "move" => Arrived(now)
        BY <1>8, <3>1, MoveTaken DEF RecvDatagram, QueueInv, HasMove
      <3> QED
        BY <1>8, <3>1, <3>2 DEF RecvDatagram
    <2> QED
      BY <2>1, <2>2
  <1>9. CASE RecvDone
    BY <1>9 DEF RecvDone, world
  <1>10. CASE Step
    <2>1. PICK o \in chassis_step(ctl, now) :
            /\ ctl' = o.ctl
            /\ last_online' = IF o.ret THEN 1 ELSE 0
            /\ currents' = IF o.ret THEN o.currents ELSE "zero"
      BY <1>10 DEF Step
    <2>2. now <= ctl.last_command
      BY <1>10 DEF Step
    <2>3. ctl'.last_command = ctl.last_command /\ (ctl'.command = "move" => ctl.command = "move")
      <3>1. ctl \in Controller /\ now \in 0 .. MaxLoop
        OBVIOUS
      <3> HIDE DEF TypeOK, CommandInv, Controller, CommandCap, PC, Looping, Waiting, Arrived
      <3> QED
        BY <2>1, <2>2, <3>1, StepFacts
    <2> QED
      BY <1>10, <2>3 DEF Step, world
  <1>11. CASE SendOk
    BY <1>11 DEF SendOk
  <1>12. CASE SendFailed
    BY <1>12 DEF SendFailed, LeaveLoop, world, chassis_stop, reset_motion_state
  <1>13. CASE LoopEnd
    BY <1>13 DEF LoopEnd, LeaveLoop, world, chassis_stop, reset_motion_state
  <1>14. CASE ZeroFrame
    BY <1>14 DEF ZeroFrame
  <1>15. CASE ZeroDone
    BY <1>15 DEF ZeroDone, Gone, NoController
  <1>16. CASE Signal
    BY <1>16 DEF Signal, world
  <1>17. CASE Crash
    BY <1>17 DEF Crash, Gone, NoController
  <1>18. CASE CanToggle
    BY <1>18 DEF CanToggle, daemon
  <1>19. CASE Tick
    <2>1. /\ ctl'.command = ctl.command
          /\ ctl'.last_command = Older(ctl.last_command, CommandCap)
          /\ moveArrived' = Older(moveArrived, AgeCap) /\ start' = Older(start, AgeCap)
          /\ pc' = pc
      BY <1>19 DEF Tick, Aged
    <2>2. /\ CommandCap \in Nat /\ MaxLoop \in Nat /\ MaxLoop < CommandCap
          /\ ctl.last_command \in 0 .. CommandCap
          /\ moveArrived \in 0 .. AgeCap /\ start \in 0 .. AgeCap /\ now \in 0 .. MaxLoop
      OBVIOUS
    <2>0. pc # "off" => now' = now + 1 /\ now' <= MaxLoop
      BY <1>19 DEF Tick, Older
    <2> HIDE DEF TypeOK, Controller, CommandCap
    <2>3. moveArrived <= start => moveArrived' <= start'
      BY <2>1, <2>2, CapsTyping, OlderFacts
    <2>4. /\ moveArrived' \in Nat /\ start' \in Nat
          /\ moveArrived' <= moveArrived + 1 /\ start' <= start + 1
      BY <2>1, <2>2, CapsTyping, OlderFacts
    <2>5. CASE ctl.last_command = CommandCap
      <3>1. ctl'.last_command = CommandCap
        BY <2>1, <2>2, <2>5, OlderFacts
      <3> QED
        BY <2>0, <2>1, <2>2, <3>1
    <2>6. CASE ctl.last_command # CommandCap
      <3>1. ctl'.last_command = ctl.last_command + 1
        BY <2>1, <2>2, <2>6, OlderFacts
      <3> QED
        BY <2>0, <2>1, <2>2, <2>3, <2>4, <2>6, <3>1
    <2> QED
      BY <2>5, <2>6
  <1>20. ASSUME NEW m \in Motor, DrainFrame(m)
         PROVE  CommandInv'
    BY <1>20 DEF DrainFrame, chassis_update_feedback
  <1>21. ASSUME NEW d \in Datagram, Arrive(d)
         PROVE  CommandInv'
    BY <1>21 DEF Arrive, daemon
  <1>22. ASSUME NEW m \in Motor, Emit(m)
         PROVE  CommandInv'
    BY <1>22 DEF Emit, daemon
  <1>23. CASE UNCHANGED vars
    BY <1>23 DEF vars, daemon, world
  <1> QED
    BY <1>1, <1>2, <1>3, <1>4, <1>5, <1>6, <1>7, <1>8, <1>9, <1>10, <1>11, <1>12,
       <1>13, <1>14, <1>15, <1>16, <1>17, <1>18, <1>19, <1>20, <1>21, <1>22, <1>23 DEF Next, Process

\* Feedback was on the bus at most two iterations before its stamp: a frame that
\* misses one drain_feedback is taken by the next.
LEMMA FeedbackStep ==
    TypeOK /\ TypeOK' /\ CommandInv /\ FeedbackInv /\ [Next]_vars => FeedbackInv'
  <1> SUFFICES ASSUME TypeOK, TypeOK', CommandInv, FeedbackInv, [Next]_vars
               PROVE  FeedbackInv'
    OBVIOUS
  <1> USE ControlAssumption, DaemonAssumption, CapsTyping
      DEF TypeOK, FeedbackInv, PC, Looping, Waiting, Controller, FeedbackCap
  <1>1. CASE StartNoCan
    BY <1>1 DEF StartNoCan, MayStart, world
  <1>2. CASE StartNoUdp
    BY <1>2 DEF StartNoUdp, MayStart
  <1>3. CASE StartOk
    BY <1>3 DEF StartOk, MayStart, chassis_init
  <1>4. CASE WaitFailed
    BY <1>4 DEF WaitFailed, world
  <1>5. CASE WaitPoll
    BY <1>5 DEF WaitPoll, world
  <1>6. CASE WaitDrained
    BY <1>6 DEF WaitDrained, world
  <1>7. CASE LoopTop
    BY <1>7 DEF LoopTop, world
  <1>8. CASE RecvDatagram
    BY <1>8 DEF RecvDatagram, chassis_set_command
  <1>9. CASE RecvDone
    BY <1>9 DEF RecvDone, world
  <1>10. CASE Step
    <2>1. PICK o \in chassis_step(ctl, now) :
            /\ ctl' = o.ctl
            /\ last_online' = IF o.ret THEN 1 ELSE 0
            /\ currents' = IF o.ret THEN o.currents ELSE "zero"
      BY <1>10 DEF Step
    <2>2. now <= ctl.last_command
      BY <1>10 DEF Step, CommandInv
    <2>3. ctl'.online = ctl.online /\ ctl'.last_update = ctl.last_update
      BY <2>1, <2>2, StepFacts
    <2> QED
      BY <1>10, <2>3 DEF Step, world
  <1>11. CASE SendOk
    BY <1>11 DEF SendOk
  <1>12. CASE SendFailed
    BY <1>12 DEF SendFailed, LeaveLoop, world, chassis_stop, reset_motion_state
  <1>13. CASE LoopEnd
    BY <1>13 DEF LoopEnd, LeaveLoop, world, chassis_stop, reset_motion_state
  <1>14. CASE ZeroFrame
    BY <1>14 DEF ZeroFrame
  <1>15. CASE ZeroDone
    BY <1>15 DEF ZeroDone, Gone, NoController
  <1>16. CASE Signal
    BY <1>16 DEF Signal, world
  <1>17. CASE Crash
    BY <1>17 DEF Crash, Gone, NoController
  <1>18. CASE CanToggle
    BY <1>18 DEF CanToggle, daemon
  <1>19. CASE Tick
    <2>1. /\ ctl'.online = ctl.online
          /\ ctl'.last_update = [m \in Motor |-> Older(ctl.last_update[m], FeedbackCap)]
          /\ emitted' = [m \in Motor |-> Older(emitted[m], EmitCap)]
          /\ pc' = pc /\ canRx' = canRx /\ (pc # "off" => now' = now + 1)
      BY <1>19 DEF Tick, Aged, Older
    <2>2. /\ FeedbackCap \in Nat /\ MaxLoop \in Nat /\ now \in 0 .. MaxLoop
          /\ ctl.online \subseteq Motor /\ canRx \subseteq Motor
          /\ \A m \in Motor : ctl.last_update[m] \in 0 .. FeedbackCap /\ emitted[m] \in 0 .. EmitCap
      OBVIOUS
    <2> HIDE DEF TypeOK, Controller, FeedbackCap
    <2>3. ASSUME NEW m \in Motor
          PROVE  emitted'[m] \in Nat /\ emitted'[m] <= emitted[m] + 1
      <3>1. emitted'[m] = Older(emitted[m], EmitCap)
        BY <2>1
      <3> QED
        BY <2>2, <3>1, CapsTyping, OlderFacts
    <2>4. ASSUME NEW m \in ctl.online
          PROVE  /\ ctl.last_update[m] = FeedbackCap => ctl'.last_update[m] = FeedbackCap
                 /\ ctl.last_update[m] # FeedbackCap => ctl'.last_update[m] = ctl.last_update[m] + 1
      <3>1. ctl'.last_update[m] = Older(ctl.last_update[m], FeedbackCap)
        BY <2>1, <2>2
      <3> QED
        BY <2>2, <3>1, OlderFacts
    <2>6. ASSUME NEW m \in ctl.online
          PROVE  \/ ctl'.last_update[m] = FeedbackCap
                 \/ emitted'[m] <= ctl'.last_update[m] + 2 * MaxLoop
      BY <2>2, <2>3, <2>4, <2>6
    <2>7. ASSUME NEW m \in canRx, NEW k \in Nat, pc # "off", emitted[m] <= now + k
          PROVE  emitted'[m] <= now' + k
      <3>1. now' = now + 1
        BY <2>1, <2>7
      <3>2. emitted[m] \in Nat
        BY <2>2, CapsTyping
      <3> QED
        BY <2>2, <2>3, <2>7, <3>1, <3>2
    <2>8. ASSUME NEW m \in canRx', pc' \in {"wdrain", "recv", "drain"}
          PROVE  emitted'[m] <= now' + MaxLoop
      <3>1. m \in canRx /\ pc # "off" /\ emitted[m] <= now + MaxLoop
        BY <2>1, <2>8
      <3> QED
        BY <2>2, <2>7, <3>1
    <2>9. ASSUME NEW m \in canRx', pc' \in {"wait", "top", "send"}
          PROVE  emitted'[m] <= now'
      <3>1. m \in canRx /\ pc # "off" /\ emitted[m] <= now
        BY <2>1, <2>9
      <3>2. emitted[m] <= now + 0
        BY <2>2, <3>1
      <3>3. emitted'[m] <= now' + 0
        BY <2>7, <3>1, <3>2
      <3>4. now' = now + 1
        BY <2>1, <3>1
      <3> QED
        BY <2>2, <3>3, <3>4
    <2>10. pc' = "off" => canRx' = {}
      BY <2>1
    <2>11. ASSUME NEW m \in ctl'.online
           PROVE  \/ ctl'.last_update[m] = FeedbackCap
                  \/ emitted'[m] <= ctl'.last_update[m] + 2 * MaxLoop
      BY <2>1, <2>6
    <2> HIDE DEF PC, Looping, Waiting
    <2> QED
      BY <2>8, <2>9, <2>10, <2>11
  <1>20. ASSUME NEW m \in Motor, DrainFrame(m)
         PROVE  FeedbackInv'
    <2>1. ctl'.online = ctl.online \union {m} /\ ctl'.last_update = [ctl.last_update EXCEPT ![m] = 0]
      BY <1>20 DEF DrainFrame, chassis_update_feedback
    <2>2. emitted[m] <= 2 * MaxLoop
      BY <1>20 DEF DrainFrame
    <2>3. ASSUME NEW n \in ctl'.online
          PROVE  \/ ctl'.last_update[n] = FeedbackCap
                 \/ emitted'[n] <= ctl'.last_update[n] + 2 * MaxLoop
      <3>1. emitted' = emitted
        BY <1>20 DEF DrainFrame
      <3>2. CASE n = m
        <4>1. ctl'.last_update[n] = 0
          BY <2>1, <3>2
        <4> QED
          BY <2>2, <3>1, <3>2, <4>1
      <3>3. CASE n # m
        <4>1. n \in ctl.online /\ ctl'.last_update[n] = ctl.last_update[n]
          BY <2>1, <2>3, <3>3
        <4> QED
          BY <3>1, <4>1
      <3> QED
        BY <3>2, <3>3
    <2> QED
      BY <1>20, <2>3 DEF DrainFrame
  <1>21. ASSUME NEW d \in Datagram, Arrive(d)
         PROVE  FeedbackInv'
    BY <1>21 DEF Arrive, daemon
  <1>22. ASSUME NEW m \in Motor, Emit(m)
         PROVE  FeedbackInv'
    <2>1. emitted' = [emitted EXCEPT ![m] = 0]
      BY <1>22 DEF Emit
    <2>2. \A n \in Motor : emitted'[n] = 0 \/ emitted'[n] = emitted[n]
      BY <2>1
    <2>3. ASSUME NEW n \in canRx'
          PROVE  emitted'[n] = 0 \/ (n \in canRx /\ emitted'[n] = emitted[n])
      BY <1>22, <2>1, <2>3 DEF Emit
    <2>4. ctl' = ctl /\ pc' = pc /\ pc # "off" /\ now' = now
      BY <1>22 DEF Emit, daemon
    <2>5. /\ MaxLoop \in Nat /\ now \in Nat /\ ctl.online \subseteq Motor
          /\ \A n \in Motor : ctl.last_update[n] \in Nat
      BY SMTT(30)
    <2> HIDE DEF TypeOK, Controller, FeedbackCap
    <2>6. ASSUME NEW n \in ctl.online
          PROVE  \/ ctl.last_update[n] = FeedbackCap
                 \/ emitted'[n] <= ctl.last_update[n] + 2 * MaxLoop
      BY <2>2, <2>5, <2>6
    <2> QED
      BY <2>3, <2>4, <2>5, <2>6
  <1>23. CASE UNCHANGED vars
    BY <1>23 DEF vars, daemon, world
  <1> QED
    BY <1>1, <1>2, <1>3, <1>4, <1>5, <1>6, <1>7, <1>8, <1>9, <1>10, <1>11, <1>12,
       <1>13, <1>14, <1>15, <1>16, <1>17, <1>18, <1>19, <1>20, <1>21, <1>22, <1>23 DEF Next, Process

\* Restarting the clock reading at the loop's top, or at the shutdown, costs one
\* more iteration.
LEMMA JustifiedLonger ==
    ASSUME TypeOK, NEW k \in {1, 2}, Justified(k),
           now' = 0, start' = start, moveArrived' = moveArrived, emitted' = emitted
    PROVE  Justified(k + 1)'
  <1>1. /\ now \in 0 .. MaxLoop /\ start \in Nat /\ moveArrived \in Nat
        /\ \A m \in Motor : emitted[m] \in Nat
    BY CapsTyping DEF TypeOK
  <1>2. CASE k = 1
    BY <1>1, <1>2, ControlAssumption, DaemonAssumption DEF Justified
  <1>3. CASE k = 2
    BY <1>1, <1>3, ControlAssumption, DaemonAssumption DEF Justified
  <1> QED
    BY <1>2, <1>3

LEMMA JustifiedTick ==
    ASSUME TypeOK, NEW k \in {1, 2, 3}, Justified(k), Tick, pc # "off"
    PROVE  Justified(k)'
  <1>1. /\ now \in 0 .. MaxLoop /\ start \in 0 .. AgeCap /\ moveArrived \in 0 .. AgeCap
        /\ \A m \in Motor : emitted[m] \in 0 .. EmitCap
    BY DEF TypeOK
  <1>2. /\ moveArrived' = Older(moveArrived, AgeCap) /\ start' = Older(start, AgeCap)
        /\ emitted' = [m \in Motor |-> Older(emitted[m], EmitCap)]
    BY DEF Tick
  <1>3. now' = now + 1
    BY <1>1, ControlAssumption DEF Tick, Older
  <1>4. moveArrived' <= start'
    BY <1>1, <1>2, CapsTyping, OlderFacts DEF Justified
  <1>5. /\ moveArrived' \in Nat /\ moveArrived' <= moveArrived + 1
        /\ start' \in Nat /\ start' <= start + 1
    BY <1>1, <1>2, CapsTyping, OlderFacts
  <1>6. ASSUME NEW m \in Motor
        PROVE  emitted'[m] \in Nat /\ emitted'[m] <= emitted[m] + 1
    <2>1. emitted'[m] = Older(emitted[m], EmitCap)
      BY <1>2
    <2> QED
      BY <1>1, <2>1, CapsTyping, OlderFacts
  <1>7. k * MaxLoop \in Nat /\ (k + 1) * MaxLoop \in Nat
    BY ControlAssumption
  <1> QED
    BY <1>1, <1>3, <1>4, <1>5, <1>6, <1>7, ControlAssumption, DaemonAssumption DEF Justified

\* Arrivals and reports only make the justification stronger.
LEMMA JustifiedNewer ==
    ASSUME TypeOK, NEW k \in {1, 2, 3}, Justified(k), now' = now, start' = start,
           moveArrived' \in {0, moveArrived},
           \A m \in Motor : emitted'[m] \in {0, emitted[m]}
    PROVE  Justified(k)'
  <1>1. /\ now \in Nat /\ start \in Nat /\ moveArrived \in Nat
        /\ \A m \in Motor : emitted[m] \in Nat
    BY CapsTyping, ControlAssumption DEF TypeOK
  <1>2. k * MaxLoop \in Nat /\ (k + 1) * MaxLoop \in Nat
    BY ControlAssumption
  <1> QED
    BY <1>1, <1>2, ControlAssumption, DaemonAssumption DEF Justified

\* A step that drives is justified: the command's stamp and the feedback's stamps
\* are fresh at `now`, and arrival and report are not much older than the stamps.
LEMMA StepJustified ==
    ASSUME TypeOK, CommandInv, FeedbackInv, pc \in Looping,
           NEW o \in chassis_step(ctl, now), o.currents = "drive"
    PROVE  Justified(1)
  <1>1. now <= ctl.last_command
    BY DEF CommandInv
  <1>2. ctl \in Controller /\ now \in 0 .. MaxLoop
    BY DEF TypeOK
  <1>3. /\ ctl.command = "move" /\ ctl.last_command <= now + CommandTimeout
        /\ chassis_feedback_all_online(ctl, now)
    BY <1>1, <1>2, StepFacts
  <1>4. Arrived(ctl.last_command)
    BY <1>2, <1>3, ControlAssumption DEF CommandInv, CommandCap
  <1>5. /\ moveArrived <= start
        /\ \/ moveArrived <= now + CommandTimeout + 1 * MaxLoop
           \/ start <= now + CommandTimeout + WaitTimeout + 1 * MaxLoop
    BY <1>2, <1>3, <1>4, CapsTyping, ControlAssumption, DaemonAssumption
       DEF Arrived, TypeOK, Controller, CommandCap
  <1>6. ASSUME NEW m \in Motor
        PROVE  emitted[m] <= now + FeedbackTimeout + (1 + 1) * MaxLoop
    <2>1. m \in ctl.online /\ elapsed_ms(now, ctl.last_update[m]) <= FeedbackTimeout
      BY <1>3 DEF chassis_feedback_all_online
    <2>2. ctl.last_update[m] \in Nat /\ emitted[m] \in Nat
      BY <1>2, CapsTyping, ControlAssumption DEF Controller, TypeOK, FeedbackCap
    <2>3. ctl.last_update[m] <= now + FeedbackTimeout
      BY <1>2, <2>1, <2>2, ControlAssumption DEF elapsed_ms
    <2>4. emitted[m] <= ctl.last_update[m] + 2 * MaxLoop
      BY <1>2, <2>1, <2>3, ControlAssumption DEF FeedbackInv, FeedbackCap
    <2> QED
      BY <1>2, <2>2, <2>3, <2>4, ControlAssumption
  <1> QED
    BY <1>5, <1>6 DEF Justified

\* A drive frame, in the hands of send_currents or on the bus, stays justified.
LEMMA DriveStep ==
    TypeOK /\ TypeOK' /\ CommandInv /\ FeedbackInv /\ DriveInv /\ [Next]_vars => DriveInv'
  <1> SUFFICES ASSUME TypeOK, TypeOK', CommandInv, FeedbackInv, DriveInv, [Next]_vars
               PROVE  DriveInv'
    OBVIOUS
  <1> USE DEF DriveInv, Looping, Waiting
  <1>1. CASE StartNoCan
    BY <1>1 DEF StartNoCan, MayStart, world, TypeOK
  <1>2. CASE StartNoUdp
    BY <1>2 DEF StartNoUdp, MayStart
  <1>3. CASE StartOk
    BY <1>3 DEF StartOk, MayStart
  <1>4. CASE WaitFailed
    BY <1>4 DEF WaitFailed, world
  <1>5. CASE WaitPoll
    BY <1>5 DEF WaitPoll, world
  <1>6. CASE WaitDrained
    BY <1>6 DEF WaitDrained, world
  <1>7. CASE LoopTop
    <2>1. Justified(1) => Justified(2)'
      BY <1>7, JustifiedLonger DEF LoopTop, world
    <2> QED
      BY <1>7, <2>1 DEF LoopTop, world
  <1>8. CASE RecvDatagram
    <2>1. \A k \in {1, 2, 3} : Justified(k) => Justified(k)'
      BY <1>8, JustifiedNewer DEF RecvDatagram
    <2> QED
      BY <1>8, <2>1 DEF RecvDatagram
  <1>9. CASE RecvDone
    <2>1. \A k \in {1, 2, 3} : Justified(k) => Justified(k)'
      BY <1>9, JustifiedNewer DEF RecvDone, world
    <2> QED
      BY <1>9, <2>1 DEF RecvDone, world
  <1>10. CASE Step
    <2>1. currents' = "drive" => Justified(1)
      BY <1>10, StepJustified DEF Step
    <2>2. \A k \in {1, 2, 3} : Justified(k) => Justified(k)'
      BY <1>10, JustifiedNewer DEF Step, world
    <2> QED
      BY <1>10, <2>1, <2>2 DEF Step, world
  <1>11. CASE SendOk
    <2>1. \A k \in {1, 2, 3} : Justified(k) => Justified(k)'
      BY <1>11, JustifiedNewer DEF SendOk
    <2> QED
      BY <1>11, <2>1 DEF SendOk
  <1>12. CASE SendFailed
    <2>1. Justified(2) => Justified(3)'
      BY <1>12, JustifiedLonger DEF SendFailed, LeaveLoop, world
    <2> QED
      BY <1>12, <2>1 DEF SendFailed, LeaveLoop, world
  <1>13. CASE LoopEnd
    <2>1. Justified(1) => Justified(2)
      BY CapsTyping, ControlAssumption, DaemonAssumption DEF Justified, TypeOK
    <2>2. Justified(2) => Justified(3)'
      BY <1>13, JustifiedLonger DEF LoopEnd, LeaveLoop, world
    <2> QED
      BY <1>13, <2>1, <2>2 DEF LoopEnd, LeaveLoop, world
  <1>14. CASE ZeroFrame
    BY <1>14, DaemonAssumption DEF ZeroFrame, TypeOK
  <1>15. CASE ZeroDone
    BY <1>15 DEF ZeroDone, Gone
  <1>16. CASE Signal
    <2>1. \A k \in {1, 2, 3} : Justified(k) => Justified(k)'
      BY <1>16, JustifiedNewer DEF Signal, world
    <2> QED
      BY <1>16, <2>1 DEF Signal, world
  <1>17. CASE Crash
    BY <1>17 DEF Crash, Gone
  <1>18. CASE CanToggle
    <2>1. \A k \in {1, 2, 3} : Justified(k) => Justified(k)'
      BY <1>18, JustifiedNewer DEF CanToggle, daemon
    <2> QED
      BY <1>18, <2>1 DEF CanToggle, daemon
  <1>19. CASE Tick
    <2>1. pc # "off" => \A k \in {1, 2, 3} : Justified(k) => Justified(k)'
      BY <1>19, JustifiedTick
    <2> QED
      BY <1>19, <2>1 DEF Tick
  <1>20. ASSUME NEW m \in Motor, DrainFrame(m)
         PROVE  DriveInv'
    <2>1. \A k \in {1, 2, 3} : Justified(k) => Justified(k)'
      BY <1>20, JustifiedNewer DEF DrainFrame
    <2> QED
      BY <1>20, <2>1 DEF DrainFrame
  <1>21. ASSUME NEW d \in Datagram, Arrive(d)
         PROVE  DriveInv'
    <2>1. \A k \in {1, 2, 3} : Justified(k) => Justified(k)'
      BY <1>21, JustifiedNewer DEF Arrive, daemon
    <2> QED
      BY <1>21, <2>1 DEF Arrive, daemon
  <1>22. ASSUME NEW m \in Motor, Emit(m)
         PROVE  DriveInv'
    <2>1. \A n \in Motor : emitted'[n] \in {0, emitted[n]}
      BY <1>22 DEF Emit, TypeOK
    <2>2. \A k \in {1, 2, 3} : Justified(k) => Justified(k)'
      BY <1>22, <2>1, JustifiedNewer DEF Emit, daemon
    <2> QED
      BY <1>22, <2>2 DEF Emit, daemon
  <1>23. CASE UNCHANGED vars
    BY <1>23 DEF vars, daemon, world, Justified
  <1> QED
    BY <1>1, <1>2, <1>3, <1>4, <1>5, <1>6, <1>7, <1>8, <1>9, <1>10, <1>11, <1>12,
       <1>13, <1>14, <1>15, <1>16, <1>17, <1>18, <1>19, <1>20, <1>21, <1>22, <1>23 DEF Next, Process

\* The frames of send_zero_current are counted: while a drive frame outlives them,
\* all of them failed.
LEMMA ExitStep ==
    TypeOK /\ LostInv /\ DriveInv /\ ExitInv /\ [Next]_vars => ExitInv'
  <1> SUFFICES ASSUME TypeOK, LostInv, DriveInv, ExitInv, [Next]_vars
               PROVE  ExitInv'
    OBVIOUS
  <1> USE DaemonAssumption
      DEF ExitInv, Looping, Waiting
  <1>1. CASE StartNoCan
    BY <1>1 DEF StartNoCan, MayStart, world, TypeOK
  <1>2. CASE StartNoUdp
    BY <1>2 DEF StartNoUdp, MayStart, TypeOK
  <1>3. CASE StartOk
    BY <1>3 DEF StartOk, MayStart
  <1>4. CASE WaitFailed
    BY <1>4 DEF WaitFailed, world, LostInv
  <1>5. CASE WaitPoll
    BY <1>5 DEF WaitPoll, world
  <1>6. CASE WaitDrained
    BY <1>6 DEF WaitDrained, world
  <1>7. CASE LoopTop
    BY <1>7 DEF LoopTop, world
  <1>8. CASE RecvDatagram
    BY <1>8 DEF RecvDatagram
  <1>9. CASE RecvDone
    BY <1>9 DEF RecvDone, world
  <1>10. CASE Step
    BY <1>10 DEF Step, world
  <1>11. CASE SendOk
    BY <1>11 DEF SendOk, TypeOK
  <1>12. CASE SendFailed
    BY <1>12 DEF SendFailed, LeaveLoop, world, LostInv
  <1>13. CASE LoopEnd
    BY <1>13 DEF LoopEnd, LeaveLoop, world, LostInv
  <1>14. CASE ZeroFrame
    BY <1>14 DEF ZeroFrame, TypeOK
  <1>15. CASE ZeroDone
    BY <1>15 DEF ZeroDone, Gone, TypeOK
  <1>16. CASE Signal
    BY <1>16 DEF Signal, world
  <1>17. CASE Crash
    BY <1>17 DEF Crash, Gone
  <1>18. CASE CanToggle
    BY <1>18 DEF CanToggle, daemon
  <1>19. CASE Tick
    BY <1>19 DEF Tick, Older
  <1>20. ASSUME NEW m \in Motor, DrainFrame(m)
         PROVE  ExitInv'
    BY <1>20 DEF DrainFrame
  <1>21. ASSUME NEW d \in Datagram, Arrive(d)
         PROVE  ExitInv'
    BY <1>21 DEF Arrive, daemon
  <1>22. ASSUME NEW m \in Motor, Emit(m)
         PROVE  ExitInv'
    BY <1>22 DEF Emit, daemon
  <1>23. CASE UNCHANGED vars
    BY <1>23 DEF vars, daemon, world
  <1> QED
    BY <1>1, <1>2, <1>3, <1>4, <1>5, <1>6, <1>7, <1>8, <1>9, <1>10, <1>11, <1>12,
       <1>13, <1>14, <1>15, <1>16, <1>17, <1>18, <1>19, <1>20, <1>21, <1>22, <1>23 DEF Next, Process

\* Only chassis_step leaves state in the PID, and only when it drives.
LEMMA PidStep ==
    TypeOK /\ CommandInv /\ PidInv /\ [Next]_vars => PidInv'
  <1> SUFFICES ASSUME TypeOK, CommandInv, PidInv, [Next]_vars
               PROVE  PidInv'
    OBVIOUS
  <1> USE ControlAssumption
      DEF PidInv, PidCleanAtRest, Looping, Waiting
  <1>1. CASE StartNoCan
    BY <1>1 DEF StartNoCan, MayStart, world
  <1>2. CASE StartNoUdp
    BY <1>2 DEF StartNoUdp, MayStart
  <1>3. CASE StartOk
    BY <1>3 DEF StartOk, MayStart, chassis_init
  <1>4. CASE WaitFailed
    BY <1>4 DEF WaitFailed, world
  <1>5. CASE WaitPoll
    BY <1>5 DEF WaitPoll, world
  <1>6. CASE WaitDrained
    BY <1>6 DEF WaitDrained, world
  <1>7. CASE LoopTop
    BY <1>7 DEF LoopTop, world
  <1>8. CASE RecvDatagram
    BY <1>8 DEF RecvDatagram
  <1>9. CASE RecvDone
    BY <1>9 DEF RecvDone, world
  <1>10. CASE Step
    <2>1. PICK o \in chassis_step(ctl, now) :
            /\ ctl' = o.ctl
            /\ last_online' = IF o.ret THEN 1 ELSE 0
            /\ currents' = IF o.ret THEN o.currents ELSE "zero"
      BY <1>10 DEF Step
    <2>2. now <= ctl.last_command /\ ctl \in Controller /\ now \in 0 .. MaxLoop
      BY <1>10 DEF Step, CommandInv, TypeOK
    <2>3. /\ ctl'.last_command = ctl.last_command
          /\ ctl'.pid = "used" =>
               /\ ctl'.command = "move" /\ ctl'.target = "move" /\ last_online' = 1
               /\ ctl.last_command <= now + CommandTimeout
      BY <2>1, <2>2, StepFacts
    <2>4. ctl.last_command <= now + CommandTimeout
            => elapsed_ms(now, ctl.last_command) <= CommandTimeout
      BY <2>2 DEF elapsed_ms, Controller, CommandCap
    <2> QED
      BY <1>10, <2>3, <2>4 DEF Step
  <1>11. CASE SendOk
    BY <1>11 DEF SendOk
  <1>12. CASE SendFailed
    BY <1>12 DEF SendFailed, LeaveLoop, world, TypeOK
  <1>13. CASE LoopEnd
    BY <1>13 DEF LoopEnd, LeaveLoop, world, TypeOK
  <1>14. CASE ZeroFrame
    BY <1>14 DEF ZeroFrame
  <1>15. CASE ZeroDone
    BY <1>15 DEF ZeroDone, Gone, NoController
  <1>16. CASE Signal
    BY <1>16 DEF Signal, world
  <1>17. CASE Crash
    BY <1>17 DEF Crash, Gone, NoController
  <1>18. CASE CanToggle
    BY <1>18 DEF CanToggle, daemon
  <1>19. CASE Tick
    <2>1. /\ ctl'.command = ctl.command /\ ctl'.target = ctl.target /\ ctl'.pid = ctl.pid
          /\ ctl'.last_command = Older(ctl.last_command, CommandCap)
          /\ pc' = pc /\ last_online' = last_online
      BY <1>19 DEF Tick, Aged, TypeOK, Controller
    <2>2. pc # "off" => now' = now + 1
      BY <1>19 DEF Tick, Older, TypeOK
    <2>3. /\ ctl.last_command \in 0 .. CommandCap /\ CommandCap \in Nat
          /\ now \in Nat
      BY DEF TypeOK, Controller, CommandCap
    <2>4. ctl'.last_command \in Nat /\ ctl'.last_command <= ctl.last_command + 1
      BY <2>1, <2>3, OlderFacts, SMTT(30)
    <2>5. ASSUME pc # "off", elapsed_ms(now, ctl.last_command) <= CommandTimeout
          PROVE  elapsed_ms(now', ctl'.last_command) <= CommandTimeout
      BY <2>2, <2>3, <2>4, <2>5 DEF elapsed_ms
    <2> QED
      BY <2>1, <2>5
  <1>20. ASSUME NEW m \in Motor, DrainFrame(m)
         PROVE  PidInv'
    BY <1>20 DEF DrainFrame, chassis_update_feedback, TypeOK
  <1>21. ASSUME NEW d \in Datagram, Arrive(d)
         PROVE  PidInv'
    BY <1>21 DEF Arrive, daemon
  <1>22. ASSUME NEW m \in Motor, Emit(m)
         PROVE  PidInv'
    BY <1>22 DEF Emit, daemon
  <1>23. CASE UNCHANGED vars
    BY <1>23 DEF vars, daemon, world
  <1> QED
    BY <1>1, <1>2, <1>3, <1>4, <1>5, <1>6, <1>7, <1>8, <1>9, <1>10, <1>11, <1>12,
       <1>13, <1>14, <1>15, <1>16, <1>17, <1>18, <1>19, <1>20, <1>21, <1>22, <1>23 DEF Next, Process

\* The step's verdict stands until the next one: stamps only grow older before the
\* frame is sent.
LEMMA DropStep ==
    TypeOK /\ CommandInv /\ NoFalseDrop /\ [Next]_vars => NoFalseDrop'
  <1> SUFFICES ASSUME TypeOK, CommandInv, NoFalseDrop, [Next]_vars
               PROVE  NoFalseDrop'
    OBVIOUS
  <1> USE ControlAssumption
      DEF NoFalseDrop
  <1>1. CASE StartNoCan
    BY <1>1 DEF StartNoCan, MayStart, world, TypeOK
  <1>2. CASE StartNoUdp
    BY <1>2 DEF StartNoUdp, MayStart
  <1>3. CASE StartOk
    BY <1>3 DEF StartOk, MayStart
  <1>4. CASE WaitFailed
    BY <1>4 DEF WaitFailed, world
  <1>5. CASE WaitPoll
    BY <1>5 DEF WaitPoll, world
  <1>6. CASE WaitDrained
    BY <1>6 DEF WaitDrained, world
  <1>7. CASE LoopTop
    BY <1>7 DEF LoopTop, world
  <1>8. CASE RecvDatagram
    BY <1>8 DEF RecvDatagram
  <1>9. CASE RecvDone
    BY <1>9 DEF RecvDone, world
  <1>10. CASE Step
    <2>1. PICK o \in chassis_step(ctl, now) :
            /\ ctl' = o.ctl
            /\ last_online' = IF o.ret THEN 1 ELSE 0
            /\ currents' = IF o.ret THEN o.currents ELSE "zero"
      BY <1>10 DEF Step
    <2>2. now <= ctl.last_command /\ ctl \in Controller /\ now \in 0 .. MaxLoop
      BY <1>10 DEF Step, CommandInv, TypeOK, Looping
    <2>3. /\ ctl'.online = ctl.online /\ ctl'.last_update = ctl.last_update
          /\ o.ret = chassis_feedback_all_online(ctl, now)
      BY <2>1, <2>2, StepFacts
    <2>4. ASSUME ctl.online = Motor, \A m \in Motor : ctl.last_update[m] <= FeedbackTimeout
          PROVE  chassis_feedback_all_online(ctl, now)
      BY <2>2, <2>4 DEF chassis_feedback_all_online, elapsed_ms, Controller, FeedbackCap
    <2> QED
      BY <1>10, <2>1, <2>3, <2>4 DEF Step
  <1>11. CASE SendOk
    BY <1>11 DEF SendOk
  <1>12. CASE SendFailed
    BY <1>12 DEF SendFailed, LeaveLoop, world
  <1>13. CASE LoopEnd
    BY <1>13 DEF LoopEnd, LeaveLoop, world
  <1>14. CASE ZeroFrame
    BY <1>14 DEF ZeroFrame
  <1>15. CASE ZeroDone
    BY <1>15 DEF ZeroDone, Gone
  <1>16. CASE Signal
    BY <1>16 DEF Signal, world
  <1>17. CASE Crash
    BY <1>17 DEF Crash, Gone
  <1>18. CASE CanToggle
    BY <1>18 DEF CanToggle, daemon
  <1>19. CASE Tick
    <2>1. /\ ctl'.online = ctl.online /\ pc' = pc /\ last_online' = last_online
          /\ ctl'.last_update = [m \in Motor |-> Older(ctl.last_update[m], FeedbackCap)]
      BY <1>19 DEF Tick, Aged, TypeOK, Controller
    <2>2. ASSUME NEW m \in Motor
          PROVE  ctl'.last_update[m] <= FeedbackTimeout => ctl.last_update[m] <= FeedbackTimeout
      <3>1. ctl'.last_update[m] = Older(ctl.last_update[m], FeedbackCap)
        BY <2>1
      <3>2. ctl.last_update[m] \in 0 .. FeedbackCap /\ FeedbackCap \in Nat
        BY DEF TypeOK, Controller, FeedbackCap
      <3> QED
        BY <3>1, <3>2 DEF Older
    <2> QED
      BY <2>1, <2>2
  <1>20. ASSUME NEW m \in Motor, DrainFrame(m)
         PROVE  NoFalseDrop'
    BY <1>20 DEF DrainFrame
  <1>21. ASSUME NEW d \in Datagram, Arrive(d)
         PROVE  NoFalseDrop'
    BY <1>21 DEF Arrive, daemon
  <1>22. ASSUME NEW m \in Motor, Emit(m)
         PROVE  NoFalseDrop'
    BY <1>22 DEF Emit, daemon
  <1>23. CASE UNCHANGED vars
    BY <1>23 DEF vars, daemon, world
  <1> QED
    BY <1>1, <1>2, <1>3, <1>4, <1>5, <1>6, <1>7, <1>8, <1>9, <1>10, <1>11, <1>12,
       <1>13, <1>14, <1>15, <1>16, <1>17, <1>18, <1>19, <1>20, <1>21, <1>22, <1>23 DEF Next, Process
-----------------------------------------------------------------------------
LEMMA InvInit == Init => IInv /\ NoFalseDrop
  BY DEF Init, IInv, QueueInv, CommandInv, FeedbackInv, DriveInv, ExitInv, PidInv,
         PidCleanAtRest, NoFalseDrop, NoController, Looping, Waiting, HasMove

LEMMA InvStep ==
    TypeOK /\ LostInv /\ IInv /\ NoFalseDrop /\ [Next]_vars
      => TypeOK' /\ LostInv' /\ IInv' /\ NoFalseDrop'
  <1> SUFFICES ASSUME TypeOK, LostInv, IInv, NoFalseDrop, [Next]_vars
               PROVE  TypeOK' /\ LostInv' /\ IInv' /\ NoFalseDrop'
    OBVIOUS
  <1>1. TypeOK' /\ LostInv'
    BY TypeStep
  <1>2. QueueInv' /\ CommandInv'
    BY <1>1, QueueStep, CommandStep DEF IInv
  <1>3. FeedbackInv' /\ DriveInv'
    BY <1>1, FeedbackStep, DriveStep DEF IInv
  <1>4. ExitInv' /\ PidInv' /\ NoFalseDrop'
    BY ExitStep, PidStep, DropStep DEF IInv
  <1> QED
    BY <1>1, <1>2, <1>3, <1>4 DEF IInv

\* The inductive invariant holds in every reachable state.
THEOREM Invariance == Spec => [](TypeOK /\ LostInv /\ IInv /\ NoFalseDrop)
  BY TypeInit, InvInit, InvStep, PTL DEF Spec

\* While the daemon is in charge, a drive frame on the bus is justified.
LEMMA DriveBounds ==
    ASSUME TypeOK, IInv, InCharge, bus = "drive"
    PROVE  /\ moveArrived <= start
           /\ moveArrived <= SilenceBound \/ start <= StartupBound
           /\ \A m \in Motor : emitted[m] <= FeedbackBound
  <1>1. Justified(1) \/ Justified(2) \/ Justified(3)
    BY DEF InCharge, Looping, IInv, DriveInv
  <1>2. /\ now \in 0 .. MaxLoop /\ start \in Nat /\ moveArrived \in Nat
        /\ \A m \in Motor : emitted[m] \in Nat
    BY CapsTyping DEF TypeOK
  <1> QED
    BY <1>1, <1>2, ControlAssumption, DaemonAssumption
       DEF Justified, SilenceBound, StartupBound, FeedbackBound

\* Commands that stop arriving stop the chassis: the timeout of chassis_step, the
\* stamp of receive_commands and the unconditional send of the main loop together
\* bound the age of the last arrival while a drive frame is on the bus.
THEOREM SilenceStops == Spec => []StopsOnSilence
  <1>1. TypeOK /\ IInv => StopsOnSilence
    <2> SUFFICES ASSUME TypeOK, IInv, InCharge, bus = "drive", Warm
                 PROVE  moveArrived <= SilenceBound
      BY DEF StopsOnSilence
    <2>1. StartupBound \in Nat /\ start \in Nat
      BY CapsTyping, ControlAssumption, DaemonAssumption DEF TypeOK, StartupBound, SilenceBound
    <2> QED
      BY <2>1, DriveBounds DEF Warm
  <1> QED
    BY <1>1, Invariance, PTL

\* A motor that stops reporting stops all four (chassis_feedback_all_online).
THEOREM MotorLossStops == Spec => []StopsOnMotorLoss
  <1>1. TypeOK /\ IInv => StopsOnMotorLoss
    BY DriveBounds DEF StopsOnMotorLoss
  <1> QED
    BY <1>1, Invariance, PTL

\* No command outlives the process it was sent to (chassis_init, socket opening).
THEOREM StartsAtRest == Spec => []NoMotionFromBeforeStart
  <1>1. TypeOK /\ IInv => NoMotionFromBeforeStart
    BY DriveBounds DEF NoMotionFromBeforeStart
  <1> QED
    BY <1>1, Invariance, PTL

\* The PID carries no state across a stop (reset_motion_state, chassis_step).
THEOREM PidReset == Spec => []PidCleanAtRest
  <1>1. IInv => PidCleanAtRest
    BY DEF IInv, PidInv
  <1> QED
    BY <1>1, Invariance, PTL

\* A clock reading older than the stamps never takes fresh motors offline
\* (elapsed_ms saturates).
THEOREM FreshMotorsStayOnline == Spec => []NoFalseDrop
  BY Invariance, PTL

\* A drive frame survives the shutdown only if every zero frame failed
\* (send_zero_current ignores failures and goes on).
THEOREM ShutdownZeroes == Spec => []ExitLeavesZero
  <1>1. TypeOK /\ IInv => ExitLeavesZero
    BY DEF IInv, ExitInv, ExitLeavesZero, TypeOK, PC
  <1> QED
    BY <1>1, Invariance, PTL
-----------------------------------------------------------------------------
\* What a frame that send_currents is about to put on the bus has going for it.
LEMMA SendPermitted ==
    ASSUME TypeOK, IInv, pc = "send", currents = "drive"
    PROVE  Drive!Permitted
  <1>1. Justified(1)
    BY DEF IInv, DriveInv
  <1>2. /\ now \in 0 .. MaxLoop /\ start \in Nat /\ moveArrived \in Nat
        /\ \A m \in Motor : emitted[m] \in Nat
    BY CapsTyping DEF TypeOK
  <1> QED
    BY <1>1, <1>2, ControlAssumption, DaemonAssumption
       DEF Justified, Drive!Permitted, SilenceBound, StartupBound, FeedbackBound

LEMMA DrivePermitted ==
    TypeOK /\ IInv /\ InCharge /\ bus = "drive" => Drive!Permitted
  <1> SUFFICES ASSUME TypeOK, IInv, InCharge, bus = "drive"
               PROVE  Drive!Permitted
    OBVIOUS
  <1>1. start \in Nat /\ moveArrived \in Nat /\ SilenceBound \in Nat /\ SilenceBound <= StartupBound
    BY CapsTyping, ControlAssumption, DaemonAssumption DEF TypeOK, StartupBound, SilenceBound
  <1> QED
    BY <1>1, DriveBounds, DaemonAssumption DEF Drive!Permitted, StartupBound

LEMMA RefineInit == Init => Drive!Init
  BY DEF Init, Drive!Init, InCharge, Looping, AgeCap, EmitCap

\* Every step of the daemon and of its world is a step of SafeDrive or invisible.
LEMMA RefineStep ==
    TypeOK /\ IInv /\ TypeOK' /\ IInv' /\ [Next]_vars => [Drive!Next]_(Drive!vars)
  <1> SUFFICES ASSUME TypeOK, IInv, TypeOK', IInv', [Next]_vars
               PROVE  [Drive!Next]_(Drive!vars)
    OBVIOUS
  <1> DEFINE D == InCharge /\ bus = "drive"
  <1>1. pc \in Waiting \union {"off"} => bus # "drive"
    BY DEF IInv, DriveInv
  <1>a. ASSUME D' = D, UNCHANGED <<moveArrived, emitted>>
        PROVE  UNCHANGED Drive!vars
    BY <1>a DEF Drive!vars
  <1>b. ASSUME ~D', UNCHANGED <<moveArrived, emitted>>
        PROVE  Drive!Next
    BY <1>b DEF Drive!Next, Drive!Release
  <1>c. ASSUME Gone
        PROVE  Drive!Next
    <2>1. Drive!Replace
      BY <1>c DEF Gone, Drive!Replace, InCharge, Looping, AgeCap, EmitCap
    <2> QED
      BY <2>1 DEF Drive!Next
  <1>2. CASE StartNoCan \/ StartNoUdp \/ StartOk \/ WaitFailed \/ WaitPoll \/ WaitDrained
    <2>1. ~D' /\ UNCHANGED <<moveArrived, emitted>>
      BY <1>1, <1>2 DEF StartNoCan, StartNoUdp, StartOk, WaitFailed, WaitPoll, WaitDrained,
         MayStart, InCharge, Looping, Waiting, world
    <2> QED
      BY <2>1, <1>b
  <1>3. CASE LoopTop \/ RecvDatagram \/ RecvDone \/ Step \/ SendFailed \/ LoopEnd
    <2>1. D' = D /\ UNCHANGED <<moveArrived, emitted>>
      BY <1>3 DEF LoopTop, RecvDatagram, RecvDone, Step, SendFailed, LoopEnd, LeaveLoop,
         InCharge, Looping, world
    <2> QED
      BY <2>1, <1>a
  <1>4. CASE SendOk
    <2>1. CASE currents = "drive"
      <3>1. Drive!Permitted
        BY <1>4, <2>1, SendPermitted DEF SendOk
      <3>2. D' /\ UNCHANGED <<moveArrived, emitted>>
        BY <1>4, <2>1 DEF SendOk, InCharge, Looping
      <3>3. Drive!Engage
        BY <3>1, <3>2 DEF Drive!Engage
      <3> QED
        BY <3>3 DEF Drive!Next
    <2>2. CASE currents # "drive"
      <3>1. ~D' /\ UNCHANGED <<moveArrived, emitted>>
        BY <1>4, <2>2 DEF SendOk
      <3> QED
        BY <3>1, <1>b
    <2> QED
      BY <2>1, <2>2
  <1>5. CASE ZeroFrame
    <2>1. ~D' /\ UNCHANGED <<moveArrived, emitted>>
      BY <1>5, DaemonAssumption DEF ZeroFrame, InCharge, Looping, TypeOK
    <2> QED
      BY <2>1, <1>b
  <1>6. CASE ZeroDone \/ Crash
    BY <1>6, <1>c DEF ZeroDone, Crash
  <1>7. CASE Signal \/ CanToggle
    <2>1. D' = D /\ UNCHANGED <<moveArrived, emitted>>
      BY <1>7 DEF Signal, CanToggle, InCharge, daemon, world
    <2> QED
      BY <2>1, <1>a
  <1>8. CASE Tick
    <2>1. /\ pc' = pc /\ zeroLeft' = zeroLeft /\ bus' = bus
          /\ moveArrived' = Older(moveArrived, AgeCap)
          /\ emitted' = [m \in Motor |-> Older(emitted[m], EmitCap)]
      BY <1>8 DEF Tick
    <2>2. D' = D
      BY <2>1 DEF InCharge
    <2>3. D => Drive!Permitted'
      <3>1. (TypeOK /\ IInv /\ InCharge /\ bus = "drive" => Drive!Permitted)'
        BY DrivePermitted, PTL
      <3> QED
        BY <2>2, <3>1
    <2>4. moveArrived' = IF moveArrived <= StartupBound THEN moveArrived + 1 ELSE moveArrived
      BY <2>1, ControlAssumption, DaemonAssumption
         DEF TypeOK, Older, AgeCap, StartupBound, SilenceBound
    <2>5. ASSUME NEW m \in Motor
          PROVE  Older(emitted[m], EmitCap)
                   = IF emitted[m] <= FeedbackBound THEN emitted[m] + 1 ELSE emitted[m]
      BY ControlAssumption, SMTT(30) DEF TypeOK, Older, EmitCap, FeedbackBound
    <2>6. emitted' = [m \in Motor |-> IF emitted[m] <= FeedbackBound
                                      THEN emitted[m] + 1 ELSE emitted[m]]
      BY <2>1, <2>5
    <2>7. Drive!Tick
      BY <2>2, <2>3, <2>4, <2>6 DEF Drive!Tick
    <2> QED
      BY <2>7 DEF Drive!Next
  <1>9. ASSUME NEW m \in Motor, DrainFrame(m)
        PROVE  [Drive!Next]_(Drive!vars)
    <2>1. D' = D /\ UNCHANGED <<moveArrived, emitted>>
      BY <1>9 DEF DrainFrame, InCharge
    <2> QED
      BY <2>1, <1>a
  <1>10. ASSUME NEW d \in Datagram, Arrive(d)
         PROVE  [Drive!Next]_(Drive!vars)
    <2>1. D' = D /\ emitted' = emitted
      BY <1>10 DEF Arrive, InCharge, daemon
    <2>2. CASE d = "move"
      <3>1. Drive!CommandArrives
        BY <1>10, <2>1, <2>2 DEF Arrive, Drive!CommandArrives
      <3> QED
        BY <3>1 DEF Drive!Next
    <2>3. CASE d # "move"
      BY <1>10, <2>1, <2>3, <1>a DEF Arrive
    <2> QED
      BY <2>2, <2>3
  <1>11. ASSUME NEW m \in Motor, Emit(m)
         PROVE  [Drive!Next]_(Drive!vars)
    <2>1. D' = D /\ moveArrived' = moveArrived /\ emitted' = [emitted EXCEPT ![m] = 0]
      BY <1>11 DEF Emit, InCharge, daemon
    <2>2. Drive!Report(m)
      BY <2>1 DEF Drive!Report
    <2> QED
      BY <2>2 DEF Drive!Next
  <1>12. CASE UNCHANGED vars
    <2>1. D' = D /\ UNCHANGED <<moveArrived, emitted>>
      BY <1>12 DEF vars, daemon, world, InCharge
    <2> QED
      BY <2>1, <1>a
  <1> QED
    BY <1>2, <1>3, <1>4, <1>5, <1>6, <1>7, <1>8, <1>9, <1>10, <1>11, <1>12
       DEF Next, Process

\* The daemon implements SafeDrive: main's loop, its shutdown and its restarts
\* drive the motors only as that specification permits.
THEOREM Refinement == Spec => ImplementsSafeDrive
  <1>1. Init => Drive!Init
    BY RefineInit
  <1>2. /\ TypeOK /\ LostInv /\ IInv /\ NoFalseDrop
        /\ (TypeOK /\ LostInv /\ IInv /\ NoFalseDrop)'
        /\ [Next]_vars
        => [Drive!Next]_(Drive!vars)
    BY RefineStep
  <1> QED
    BY <1>1, <1>2, Invariance, PTL DEF Spec, ImplementsSafeDrive, Drive!Spec
=============================================================================

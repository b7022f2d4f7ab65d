--------------------------- MODULE BenchTool_proofs ---------------------------
(***************************************************************************)
(* Proofs about BenchTool, for every set of motors, every duration, every  *)
(* timeout and every bound: the types, that a tool that ends by itself     *)
(* leaves no drive frame behind and ends in time, and that nothing keeps a *)
(* drive frame on the bus past the deadline, the keys or the feedback.     *)
(***************************************************************************)
EXTENDS BenchTool, ChassisControl_proofs

Waiting == {"wait", "wdrain"}
Running == Looping \union Waiting \union {"setup"}

\* What the counter of failed frames needs to stay within its type.
LostInv ==
    /\ pc \in Running => lost = 0
    /\ pc = "zero" => lost + zeroLeft <= ZeroRepeat

\* A drive frame that outlives the loop has seen every zero frame fail.
ExitInv ==
    /\ pc \in Running => exit = "none"
    /\ pc = "zero" /\ bus \in {"drive", "orphan"} => lost = ZeroRepeat - zeroLeft
    /\ pc = "off" /\ exit \in {"ok", "fail"} /\ bus \in {"drive", "orphan"} =>
         lost = ZeroRepeat

\* How old the process can be, `now` being the age of its last clock reading: both
\* sides grow by one on a tick.  A start that has not reached its cap tells the age
\* exactly in the wait, and up to the length of the wait in the loop.
Spent(n) == (ZeroRepeat - n) * MaxLoop
TimeInv ==
    /\ pc \in {"setup", "keys"} => tool = "keyboard"
    /\ tool # "keyboard" =>
         /\ pc \in Waiting =>
              /\ launched <= now + WaitTimeout
              /\ launched <= start \/ start = StartCap
         /\ pc \in Looping =>
              /\ launched <= now + Duration + WaitTimeout + MaxLoop
              /\ launched <= start + WaitTimeout + MaxLoop \/ start = StartCap
         /\ pc = "zero" =>
              launched <= now + Duration + WaitTimeout + 2 * MaxLoop + Spent(zeroLeft)
-----------------------------------------------------------------------------
LEMMA BenchCaps ==
    /\ StartCap \in Nat /\ KeyAgeCap \in Nat /\ EmitCap \in Nat
    /\ StartCap > WaitTimeout /\ StartCap > Duration
  BY ControlAssumption, BenchAssumption
     DEF StartCap, Larger, DurationBound, KeyBound, KeyAgeCap, EmitCap, LossBound

LEMMA RunCaps ==
    /\ ZeroRepeat * MaxLoop \in Nat
    /\ RunBound = WaitTimeout + Duration + ZeroRepeat * MaxLoop + 3 * MaxLoop
    /\ RunBound \in Nat /\ RunCap \in Nat
  <1>1. ZeroRepeat * MaxLoop \in Nat
    BY ControlAssumption, BenchAssumption
  <1>2. RunBound = WaitTimeout + Duration + ZeroRepeat * MaxLoop + 3 * MaxLoop
    BY ControlAssumption, BenchAssumption DEF RunBound
  <1> QED
    BY <1>1, <1>2, ControlAssumption, BenchAssumption DEF RunCap

\* The time of the zero frames sent so far.
LEMMA SpentFacts ==
    /\ Spent(ZeroRepeat) = 0
    /\ \A n \in 0 .. ZeroRepeat : Spent(n) \in Nat /\ Spent(n) <= ZeroRepeat * MaxLoop
    /\ \A n \in 1 .. ZeroRepeat : Spent(n - 1) = Spent(n) + MaxLoop
  BY ControlAssumption, BenchAssumption DEF Spent

LEMMA CommandLineTyped ==
    \A c \in CommandLine : /\ c[1] \in Tool /\ c[2] \in SUBSET Motor /\ c[3] \in Command
  BY DEF CommandLine, Tool, Command

\* Every action keeps the types.
LEMMA TypeStep ==
    TypeOK /\ LostInv /\ [Next]_vars => TypeOK' /\ LostInv'
  <1> SUFFICES ASSUME TypeOK, LostInv, [Next]_vars
               PROVE  TypeOK' /\ LostInv'
    OBVIOUS
  <1> USE ControlAssumption, BenchAssumption, BenchCaps, RunCaps
      DEF TypeOK, LostInv, Running, Looping, Waiting
  <1>1. CASE WaitFailed
    BY <1>1 DEF WaitFailed, SendZero, surroundings, command_line
  <1>2. CASE WaitPoll
    BY <1>2 DEF WaitPoll, surroundings, command_line
  <1>3. CASE WaitDrained
    BY <1>3 DEF WaitDrained, surroundings, command_line
  <1>4. CASE SetupDone
    BY <1>4 DEF SetupDone, surroundings, command_line
  <1>5. CASE SetupFailed
    BY <1>5 DEF SetupFailed, SendZero, surroundings, command_line
  <1>6. CASE LoopTop
    <2>1. ctl' \in Controller
      <3>1. 0 \in 0 .. MaxLoop
        BY ControlAssumption
      <3> QED
        BY <1>6, <3>1, ControllerTyping DEF LoopTop
    <2> QED
      BY <1>6, <2>1 DEF LoopTop, surroundings, command_line
  <1>7. CASE ReadKey
    <2>1. keys' \in Seq(Key) /\ Head(keys) \in Key
      <3>1. keys \in Seq(Key) /\ keys # << >> /\ keys' = Tail(keys)
        BY <1>7 DEF ReadKey
      <3> HIDE DEF TypeOK
      <3> QED
        BY <3>1
    <2>2. [chassis_stop(ctl) EXCEPT !.last_command = now] \in Controller
      <3>1. now \in 0 .. CommandCap /\ chassis_stop(ctl) \in Controller
        BY ControllerTyping DEF CommandCap
      <3> QED
        BY <3>1 DEF Controller
    <2>3. ctl' \in Controller
      BY <1>7, <2>2, ControllerTyping DEF ReadKey, Command
    <2>4. g_running' \in BOOLEAN
      BY <1>7 DEF ReadKey
    <2> QED
      BY <1>7, <2>1, <2>3, <2>4 DEF ReadKey, command_line
  <1>8. CASE NoMoreKeys
    BY <1>8 DEF NoMoreKeys, surroundings, command_line
  <1>9. CASE StepChassis
    <2>1. PICK o \in chassis_step(ctl, now) :
            ctl' = o.ctl /\ currents' = IF o.ret THEN o.currents ELSE "zero"
      BY <1>9 DEF StepChassis
    <2>2. ctl' \in Controller /\ currents' \in Current
      BY <2>1, StepTyping DEF Current
    <2> QED
      BY <1>9, <2>2 DEF StepChassis, surroundings, command_line
  <1>10. CASE StepSpeed
    BY <1>10 DEF StepSpeed, surroundings, command_line
  <1>11. CASE StepSingle
    BY <1>11 DEF StepSingle, surroundings, command_line
  <1>12. CASE SendOk
    BY <1>12 DEF SendOk, command_line, Current
  <1>13. CASE LeaveLoop
    BY <1>13, ControllerTyping DEF LeaveLoop, SendZero, surroundings, command_line
  <1>14. CASE ZeroFrame
    BY <1>14 DEF ZeroFrame, command_line
  <1>15. CASE ZeroDone
    <2>1. ctl' \in Controller /\ emitted' \in [Motor -> 0 .. EmitCap] /\ keys' \in Seq(Key)
      BY <1>15, InitialController DEF ZeroDone, Gone
    <2> QED
      BY <1>15, <2>1 DEF ZeroDone, Gone, Current, command_line
  <1>16. CASE Signal
    BY <1>16 DEF Signal, surroundings, command_line
  <1>17. CASE Kill
    <2>1. ctl' \in Controller /\ emitted' \in [Motor -> 0 .. EmitCap] /\ keys' \in Seq(Key)
      BY <1>17, InitialController DEF Kill, Gone
    <2> QED
      BY <1>17, <2>1 DEF Kill, Gone, Current, command_line
  <1>18. CASE CanToggle
    BY <1>18 DEF CanToggle, process, command_line
  <1>19. CASE Tick
    <2>1. ctl' \in Controller
      BY <1>19, ControllerTyping DEF Tick
    <2>2. emitted' \in [Motor -> 0 .. EmitCap]
      BY <1>19, OlderFacts DEF Tick
    <2>3. /\ start' \in 0 .. StartCap /\ launched' \in 0 .. RunCap
          /\ keyAge' \in 0 .. KeyAgeCap
      BY <1>19, OlderFacts DEF Tick
    <2>4. now' \in 0 .. MaxLoop
      BY <1>19 DEF Tick
    <2> QED
      BY <1>19, <2>1, <2>2, <2>3, <2>4 DEF Tick, command_line
  <1>20. ASSUME NEW c \in CommandLine, Launch(c[1], c[2], c[3])
         PROVE  TypeOK' /\ LostInv'
    <2>1. ctl' \in Controller
      BY <1>20, InitialController DEF Launch, Command
    <2> QED
      BY <1>20, <2>1, CommandLineTyped DEF Launch, Current
  <1>21. ASSUME NEW c \in CommandLine, LaunchNoCan(c[1], c[2], c[3])
         PROVE  TypeOK' /\ LostInv'
    BY <1>21, CommandLineTyped DEF LaunchNoCan
  <1>22. ASSUME NEW m \in Motor, DrainFrame(m)
         PROVE  TypeOK' /\ LostInv'
    <2>1. chassis_update_feedback(ctl, m) \in Controller
      BY ControllerTyping
    <2>2. now \in 0 .. FeedbackCap
      BY DEF FeedbackCap
    <2>3. [chassis_update_feedback(ctl, m).last_update EXCEPT ![m] = now]
            \in [Motor -> 0 .. FeedbackCap]
      BY <2>1, <2>2 DEF Controller
    <2>4. [chassis_update_feedback(ctl, m) EXCEPT !.last_update[m] = now] \in Controller
      BY <2>1, <2>3 DEF Controller
    <2> QED
      BY <1>22, <2>1, <2>4 DEF DrainFrame, command_line
  <1>23. ASSUME NEW m \in Motor, Emit(m)
         PROVE  TypeOK' /\ LostInv'
    BY <1>23 DEF Emit, process, command_line
  <1>24. ASSUME NEW k \in Key, Press(k)
         PROVE  TypeOK' /\ LostInv'
    BY <1>24 DEF Press, process, command_line
  <1>25. CASE UNCHANGED vars
    BY <1>25 DEF vars, process, surroundings, command_line
  <1> QED
    BY <1>1, <1>2, <1>3, <1>4, <1>5, <1>6, <1>7, <1>8, <1>9, <1>10, <1>11, <1>12,
       <1>13, <1>14, <1>15, <1>16, <1>17, <1>18, <1>19, <1>20, <1>21, <1>22, <1>23,
       <1>24, <1>25 DEF Next

LEMMA TypeInit == Init => TypeOK /\ LostInv
  BY ControlAssumption, BenchAssumption, BenchCaps, RunCaps, InitialController
     DEF Init, TypeOK, LostInv, Running, Looping, Waiting, Current, Command, Tool

\* Every reachable state of a bench tool is well typed; in particular no loop works
\* with a clock reading older than one iteration (the mains of the tools).
THEOREM BenchTyped == Spec => []TypeOK
  <1>1. Spec => [](TypeOK /\ LostInv)
    BY TypeInit, TypeStep, PTL DEF Spec
  <1> QED
    BY <1>1, PTL
-----------------------------------------------------------------------------
\* The frames of send_zero_current are counted.
LEMMA ExitStep ==
    TypeOK /\ LostInv /\ ExitInv /\ [Next]_vars => ExitInv'
  <1> SUFFICES ASSUME TypeOK, LostInv, ExitInv, [Next]_vars
               PROVE  ExitInv'
    OBVIOUS
  <1> USE BenchAssumption DEF ExitInv, LostInv, Running, Looping, Waiting
  <1>1. CASE WaitFailed
    BY <1>1 DEF WaitFailed, SendZero, surroundings, command_line
  <1>2. CASE WaitPoll
    BY <1>2 DEF WaitPoll, surroundings, command_line
  <1>3. CASE WaitDrained
    BY <1>3 DEF WaitDrained, surroundings, command_line
  <1>4. CASE SetupDone
    BY <1>4 DEF SetupDone, surroundings, command_line
  <1>5. CASE SetupFailed
    BY <1>5 DEF SetupFailed, SendZero, surroundings, command_line
  <1>6. CASE LoopTop
    BY <1>6 DEF LoopTop, surroundings, command_line
  <1>7. CASE ReadKey
    BY <1>7 DEF ReadKey, command_line
  <1>8. CASE NoMoreKeys
    BY <1>8 DEF NoMoreKeys, surroundings, command_line
  <1>9. CASE StepChassis
    BY <1>9 DEF StepChassis, surroundings, command_line
  <1>10. CASE StepSpeed
    BY <1>10 DEF StepSpeed, surroundings, command_line
  <1>11. CASE StepSingle
    BY <1>11 DEF StepSingle, surroundings, command_line
  <1>12. CASE SendOk
    BY <1>12 DEF SendOk, command_line, TypeOK
  <1>13. CASE LeaveLoop
    BY <1>13 DEF LeaveLoop, SendZero, surroundings, command_line
  <1>14. CASE ZeroFrame
    BY <1>14 DEF ZeroFrame, command_line, TypeOK
  <1>15. CASE ZeroDone
    BY <1>15 DEF ZeroDone, Gone, command_line, TypeOK
  <1>16. CASE Signal
    BY <1>16 DEF Signal, surroundings, command_line
  <1>17. CASE Kill
    BY <1>17 DEF Kill, Gone, command_line
  <1>18. CASE CanToggle
    BY <1>18 DEF CanToggle, process, command_line
  <1>19. CASE Tick
    BY <1>19 DEF Tick, Older, command_line
  <1>20. ASSUME NEW c \in CommandLine, Launch(c[1], c[2], c[3])
         PROVE  ExitInv'
    BY <1>20 DEF Launch
  <1>21. ASSUME NEW c \in CommandLine, LaunchNoCan(c[1], c[2], c[3])
         PROVE  ExitInv'
    BY <1>21 DEF LaunchNoCan
  <1>22. ASSUME NEW m \in Motor, DrainFrame(m)
         PROVE  ExitInv'
    BY <1>22 DEF DrainFrame, command_line
  <1>23. ASSUME NEW m \in Motor, Emit(m)
         PROVE  ExitInv'
    BY <1>23 DEF Emit, process, command_line
  <1>24. ASSUME NEW k \in Key, Press(k)
         PROVE  ExitInv'
    BY <1>24 DEF Press, process, command_line
  <1>25. CASE UNCHANGED vars
    BY <1>25 DEF vars, process, surroundings, command_line
  <1> QED
    BY <1>1, <1>2, <1>3, <1>4, <1>5, <1>6, <1>7, <1>8, <1>9, <1>10, <1>11, <1>12,
       <1>13, <1>14, <1>15, <1>16, <1>17, <1>18, <1>19, <1>20, <1>21, <1>22, <1>23,
       <1>24, <1>25 DEF Next

\* Whatever ended the tool - the deadline, a key, a signal, lost feedback, a frame
\* that could not be sent, a failed wait or terminal - no drive frame is left on
\* the bus unless all the frames of its send_zero_current failed.
THEOREM BenchZeroes == Spec => []BenchLeavesZero
  <1>1. Init => ExitInv
    BY DEF Init, ExitInv, Running, Looping, Waiting
  <1>2. TypeOK /\ ExitInv => BenchLeavesZero
    BY DEF TypeOK, ExitInv, BenchLeavesZero, Running, Looping, Waiting
  <1>3. Spec => [](TypeOK /\ LostInv /\ ExitInv)
    BY TypeInit, TypeStep, <1>1, ExitStep, PTL DEF Spec
  <1> QED
    BY <1>2, <1>3, PTL
-----------------------------------------------------------------------------
\* The age of the process, phase by phase.
LEMMA TimeStep ==
    TypeOK /\ TimeInv /\ [Next]_vars => TimeInv'
  <1> SUFFICES ASSUME TypeOK, TimeInv, [Next]_vars
               PROVE  TimeInv'
    OBVIOUS
  <1> USE ControlAssumption, BenchAssumption, BenchCaps, RunCaps
      DEF TypeOK, TimeInv, Looping, Waiting
  <1>1. CASE WaitFailed
    BY <1>1, SpentFacts DEF WaitFailed, SendZero, command_line, surroundings
  <1>2. CASE WaitPoll
    BY <1>2 DEF WaitPoll, surroundings, command_line
  <1>3. CASE WaitDrained
    BY <1>3 DEF WaitDrained, command_line, surroundings
  <1>4. CASE SetupDone
    BY <1>4 DEF SetupDone, surroundings, command_line
  <1>5. CASE SetupFailed
    BY <1>5 DEF SetupFailed, SendZero, command_line, surroundings
  <1>6. CASE LoopTop
    BY <1>6 DEF LoopTop, command_line, surroundings
  <1>7. CASE ReadKey
    BY <1>7 DEF ReadKey, command_line
  <1>8. CASE NoMoreKeys
    BY <1>8 DEF NoMoreKeys, surroundings, command_line
  <1>9. CASE StepChassis
    BY <1>9 DEF StepChassis, surroundings, command_line
  <1>10. CASE StepSpeed
    BY <1>10 DEF StepSpeed, surroundings, command_line
  <1>11. CASE StepSingle
    BY <1>11 DEF StepSingle, surroundings, command_line
  <1>12. CASE SendOk
    BY <1>12 DEF SendOk, command_line
  <1>13. CASE LeaveLoop
    BY <1>13, SpentFacts DEF LeaveLoop, SendZero, command_line, surroundings
  <1>14. CASE ZeroFrame
    <2>1. zeroLeft \in 1 .. ZeroRepeat /\ zeroLeft' = zeroLeft - 1 /\ pc = "zero"
      BY <1>14 DEF ZeroFrame
    <2>2. Spent(zeroLeft') = Spent(zeroLeft) + MaxLoop /\ Spent(zeroLeft) \in Nat
      BY <2>1, SpentFacts
    <2>3. tool' = tool /\ launched' = launched /\ now' = 0 /\ pc' = "zero"
      BY <1>14, <2>1 DEF ZeroFrame, command_line
    <2> QED
      BY <2>1, <2>2, <2>3
  <1>15. CASE ZeroDone
    BY <1>15 DEF ZeroDone, Gone, command_line
  <1>16. CASE Signal
    BY <1>16 DEF Signal, surroundings, command_line
  <1>17. CASE Kill
    BY <1>17 DEF Kill, Gone, command_line
  <1>18. CASE CanToggle
    BY <1>18 DEF CanToggle, process, command_line
  <1>19. CASE Tick
    <2>1. /\ launched' <= launched + 1 /\ now' = now + 1
          /\ start = StartCap => start' = StartCap
          /\ start # StartCap => start' = start + 1
      BY <1>19, BenchCaps, RunCaps, OlderFacts DEF Tick
    <2>2. UNCHANGED <<tool, pc, zeroLeft>>
      BY <1>19 DEF Tick, command_line
    <2>3. launched' \in Nat /\ start' \in Nat /\ now' \in Nat
      BY <1>19, BenchCaps, RunCaps, OlderFacts DEF Tick
    <2>4. Spent(zeroLeft') = Spent(zeroLeft) /\ Spent(zeroLeft) \in Nat
      BY <2>2, SpentFacts
    <2>5. launched \in Nat /\ start \in Nat /\ now \in Nat
      BY BenchCaps, RunCaps
    <2>6. ASSUME tool # "keyboard", pc \in Waiting
          PROVE  /\ launched' <= now' + WaitTimeout
                 /\ launched' <= start' \/ start' = StartCap
      BY <2>1, <2>3, <2>5, <2>6
    <2>7. ASSUME tool # "keyboard", pc \in Looping
          PROVE  /\ launched' <= now' + Duration + WaitTimeout + MaxLoop
                 /\ launched' <= start' + WaitTimeout + MaxLoop \/ start' = StartCap
      <3>1. /\ launched <= now + Duration + WaitTimeout + MaxLoop
            /\ launched <= start + WaitTimeout + MaxLoop \/ start = StartCap
        BY <2>7
      <3> HIDE DEF TypeOK, TimeInv, Looping
      <3>2. launched' <= now' + Duration + WaitTimeout + MaxLoop
        BY <2>1, <2>3, <2>5, <3>1
      <3>3. CASE start = StartCap
        BY <2>1, <3>2, <3>3
      <3>4. CASE start # StartCap
        BY <2>1, <2>3, <2>5, <3>1, <3>2, <3>4
      <3> QED
        BY <3>3, <3>4
    <2>8. ASSUME tool # "keyboard", pc = "zero"
          PROVE  launched' <= now' + Duration + WaitTimeout + 2 * MaxLoop + Spent(zeroLeft')
      BY <2>1, <2>3, <2>4, <2>5, <2>8
    <2> QED
      BY <2>2, <2>6, <2>7, <2>8
  <1>20. ASSUME NEW c \in CommandLine, Launch(c[1], c[2], c[3])
         PROVE  TimeInv'
    BY <1>20, CommandLineTyped DEF Launch
  <1>21. ASSUME NEW c \in CommandLine, LaunchNoCan(c[1], c[2], c[3])
         PROVE  TimeInv'
    BY <1>21 DEF LaunchNoCan
  <1>22. ASSUME NEW m \in Motor, DrainFrame(m)
         PROVE  TimeInv'
    BY <1>22 DEF DrainFrame, command_line
  <1>23. ASSUME NEW m \in Motor, Emit(m)
         PROVE  TimeInv'
    BY <1>23 DEF Emit, process, command_line
  <1>24. ASSUME NEW k \in Key, Press(k)
         PROVE  TimeInv'
    BY <1>24 DEF Press, process, command_line
  <1>25. CASE UNCHANGED vars
    BY <1>25 DEF vars, process, surroundings, command_line
  <1> QED
    BY <1>1, <1>2, <1>3, <1>4, <1>5, <1>6, <1>7, <1>8, <1>9, <1>10, <1>11, <1>12,
       <1>13, <1>14, <1>15, <1>16, <1>17, <1>18, <1>19, <1>20, <1>21, <1>22, <1>23,
       <1>24, <1>25 DEF Next

\* Every tool with a deadline is gone within the wait, its duration, the zero frames
\* and three more iterations, so autotune_speed_pid.py does not have to kill a
\* trial whose margin covers them.
THEOREM BenchEndsInTime == Spec => []RunEndsInTime
  <1>1. Init => TimeInv
    BY DEF Init, TimeInv, Looping, Waiting
  <1>2. TypeOK /\ TimeInv => RunEndsInTime
    <2> SUFFICES ASSUME TypeOK, TimeInv, pc # "off", tool # "keyboard"
                 PROVE  launched <= RunBound
      BY DEF RunEndsInTime
    <2>1. now \in 0 .. MaxLoop /\ launched \in Nat /\ zeroLeft \in 0 .. ZeroRepeat
      BY RunCaps DEF TypeOK
    <2>2. Spent(zeroLeft) \in Nat /\ Spent(zeroLeft) <= ZeroRepeat * MaxLoop
      BY <2>1, SpentFacts
    <2>3. CASE pc \in Waiting
      BY <2>1, <2>3, RunCaps, ControlAssumption, BenchAssumption DEF TimeInv
    <2>4. CASE pc \in Looping
      BY <2>1, <2>4, RunCaps, ControlAssumption, BenchAssumption DEF TimeInv
    <2>5. CASE pc = "zero"
      BY <2>1, <2>2, <2>5, RunCaps, ControlAssumption, BenchAssumption DEF TimeInv
    <2>6. pc # "setup"
      BY DEF TimeInv
    <2> QED
      BY <2>3, <2>4, <2>5, <2>6 DEF TypeOK, Waiting, Looping
  <1>3. Spec => [](TypeOK /\ LostInv /\ TimeInv)
    BY TypeInit, TypeStep, <1>1, TimeStep, PTL DEF Spec
  <1> QED
    BY <1>2, <1>3, PTL
-----------------------------------------------------------------------------
(***************************************************************************)
(* A drive frame on the bus.  As for the daemon, each clause bounds how    *)
(* long ago something happened by the age of a stamp or of the reading     *)
(* `now` plus a constant, and both sides grow by one in a tick.            *)
(***************************************************************************)

HasMove == \E i \in 1 .. Len(keys) : keys[i] = "move"

\* The last moving key was typed at most an iteration before a clock reading of age
\* `a`, unless that reading was made soon after the loop began.
Typed(a) == keyAge <= a + MaxLoop \/ start <= a + MaxLoop

\* Moving keys in the terminal were typed after it was last empty; once a key has
\* ended the loop, what is left there is not read.
KeyInv ==
    tool = "keyboard" =>
      /\ pc = "top" /\ g_running /\ HasMove => keyAge <= now \/ start <= now
      /\ pc = "keys" /\ HasMove => Typed(now)
      /\ pc \in {"drain", "send"} /\ g_running /\ HasMove => keyAge <= now

\* A command to move that can still be acted on was typed when its stamp says.
CommandInv ==
    /\ pc \in Waiting \union {"setup", "off"} => ctl.command = "zero"
    /\ tool = "keyboard" /\ ctl.command = "move" =>
         ctl.last_command = CommandCap \/ Typed(ctl.last_command)
    /\ pc \in Running => now <= ctl.last_command

\* A frame is in the buffer for two iterations at most before it is stamped.
FeedbackInv ==
    /\ pc = "off" => canRx = {}
    /\ \A m \in ctl.online :
         \/ ctl.last_update[m] = FeedbackCap
         \/ emitted[m] <= ctl.last_update[m] + 2 * MaxLoop
    /\ pc \in {"wdrain", "keys", "drain"} => \A m \in canRx : emitted[m] <= now + MaxLoop
    /\ pc \in {"wait", "setup", "top", "send"} => \A m \in canRx : emitted[m] <= now

\* What justified a drive frame, `k` iterations after the keys were read.
Justified(k) ==
    /\ tool = "keyboard" =>
         \/ keyAge <= now + CommandTimeout + k * MaxLoop
         \/ start  <= now + CommandTimeout + k * MaxLoop
    /\ \A m \in watched : emitted[m] <= now + FeedbackTimeout + (k + 1) * MaxLoop

\* About to make the first attempt at a zero frame after the loop.
Leaving == pc = "zero" /\ exit = "ok" /\ zeroLeft = ZeroRepeat

\* While a drive frame is on the bus, or about to be sent, what justified it is at
\* most so many iterations old as the loop has read the clock since.
DriveInv ==
    /\ tool = "single" => watched = {}
    /\ pc \in Waiting \union {"setup", "off"} => bus # "drive"
    /\ pc = "send" /\ currents = "drive" => Justified(1)
    /\ pc = "top" /\ bus = "drive" => Justified(1)
    /\ pc \in {"keys", "drain", "send"} /\ bus = "drive" => Justified(2)
    /\ Leaving /\ bus = "drive" => Justified(3)

\* The deadline was tested at the reading `now`.
DeadlineInv ==
    tool # "keyboard" =>
      /\ pc \in Looping => start <= now + Duration - 1
      /\ Leaving => start <= now + Duration - 1 + MaxLoop

\* A tick as the invariants see it.
LEMMA TickFacts ==
    ASSUME TypeOK, Tick
    PROVE  /\ UNCHANGED <<tool, watched, pc, g_running, currents, exit, zeroLeft, keys,
                          canRx, bus>>
           /\ pc # "off" /\ now' = now + 1 /\ now \in Nat /\ now' <= MaxLoop
           /\ start \in Nat /\ start' \in Nat /\ start' <= start + 1
           /\ keyAge \in Nat /\ keyAge' \in Nat /\ keyAge' <= keyAge + 1
           /\ \A m \in Motor : /\ emitted[m] \in Nat /\ emitted'[m] \in Nat
                               /\ emitted'[m] <= emitted[m] + 1
           /\ ctl'.command = ctl.command /\ ctl'.online = ctl.online
           /\ ctl.last_command \in 0 .. CommandCap /\ CommandCap \in Nat
           /\ ctl.last_command = CommandCap => ctl'.last_command = CommandCap
           /\ ctl.last_command # CommandCap => ctl'.last_command = ctl.last_command + 1
           /\ FeedbackCap \in Nat
           /\ \A m \in Motor :
                /\ ctl.last_update[m] \in 0 .. FeedbackCap
                /\ ctl.last_update[m] = FeedbackCap => ctl'.last_update[m] = FeedbackCap
                /\ ctl.last_update[m] # FeedbackCap =>
                     ctl'.last_update[m] = ctl.last_update[m] + 1
  <1>1. UNCHANGED <<tool, watched, pc, g_running, currents, exit, zeroLeft, keys, canRx, bus>>
    BY DEF Tick, command_line
  <1>2. pc # "off" /\ now' = now + 1 /\ now \in Nat /\ now' <= MaxLoop
    BY ControlAssumption DEF Tick, TypeOK
  <1>3. /\ start \in Nat /\ start' \in Nat /\ start' <= start + 1
        /\ keyAge \in Nat /\ keyAge' \in Nat /\ keyAge' <= keyAge + 1
    BY BenchCaps, OlderFacts DEF Tick, TypeOK
  <1>4. ASSUME NEW m \in Motor
        PROVE  emitted[m] \in Nat /\ emitted'[m] \in Nat /\ emitted'[m] <= emitted[m] + 1
    <2>1. emitted'[m] = Older(emitted[m], EmitCap) /\ emitted[m] \in 0 .. EmitCap
      BY DEF Tick, TypeOK
    <2>2. EmitCap \in Nat
      BY BenchCaps
    <2> QED
      BY <2>1, <2>2 DEF Older
  <1>5. /\ ctl \in Controller /\ CommandCap \in Nat /\ FeedbackCap \in Nat
    BY ControlAssumption DEF TypeOK, CommandCap, FeedbackCap
  <1>6. /\ ctl'.command = ctl.command /\ ctl'.online = ctl.online
        /\ ctl'.last_command = Older(ctl.last_command, CommandCap)
        /\ ctl'.last_update = [m \in Motor |-> Older(ctl.last_update[m], FeedbackCap)]
    BY <1>5 DEF Tick, Aged, Controller
  <1>7. ctl.last_command \in 0 .. CommandCap
    BY <1>5 DEF Controller
  <1>9. /\ ctl.last_command = CommandCap => ctl'.last_command = CommandCap
        /\ ctl.last_command # CommandCap => ctl'.last_command = ctl.last_command + 1
    BY <1>5, <1>6, <1>7, OlderFacts
  <1>8. ASSUME NEW m \in Motor
        PROVE  /\ ctl.last_update[m] \in 0 .. FeedbackCap
               /\ ctl.last_update[m] = FeedbackCap => ctl'.last_update[m] = FeedbackCap
               /\ ctl.last_update[m] # FeedbackCap =>
                    ctl'.last_update[m] = ctl.last_update[m] + 1
    <2>1. ctl.last_update[m] \in 0 .. FeedbackCap
      BY <1>5 DEF Controller
    <2>2. ctl'.last_update[m] = Older(ctl.last_update[m], FeedbackCap)
      BY <1>6
    <2> QED
      BY <1>5, <2>1, <2>2, OlderFacts
  <1> QED
    BY <1>1, <1>2, <1>3, <1>4, <1>5, <1>6, <1>7, <1>8, <1>9

\* Keys typed and keys read, as far as moving keys are concerned.
LEMMA KeyAppended ==
    ASSUME NEW q \in Seq(Key), NEW k \in Key,
           NEW i \in 1 .. Len(Append(q, k)), Append(q, k)[i] = "move"
    PROVE  k = "move" \/ \E j \in 1 .. Len(q) : q[j] = "move"
  OBVIOUS

LEMMA KeyTaken ==
    ASSUME NEW q \in Seq(Key), q # << >>
    PROVE  /\ Head(q) = "move" => \E j \in 1 .. Len(q) : q[j] = "move"
           /\ (\E i \in 1 .. Len(Tail(q)) : Tail(q)[i] = "move")
                => \E j \in 1 .. Len(q) : q[j] = "move"
  OBVIOUS

\* The moving keys in the terminal: NoMoreKeys has emptied it, LoopTop reads the clock
\* again, WaitDrained and SetupDone begin a new count of `start`.
LEMMA KeyStep ==
    TypeOK /\ TimeInv /\ KeyInv /\ [Next]_vars => KeyInv'
  <1> SUFFICES ASSUME TypeOK, TimeInv, KeyInv, [Next]_vars
               PROVE  KeyInv'
    OBVIOUS
  <1>0. /\ now \in 0 .. MaxLoop /\ start \in Nat /\ keyAge \in Nat /\ MaxLoop \in Nat
        /\ keys \in Seq(Key) /\ g_running \in BOOLEAN
    BY BenchCaps, ControlAssumption DEF TypeOK
  <1> USE DEF KeyInv, HasMove, Typed
  <1>1. CASE WaitFailed
    BY <1>1 DEF WaitFailed, SendZero, surroundings, command_line
  <1>2. CASE WaitPoll
    BY <1>2 DEF WaitPoll, surroundings, command_line
  <1>3. CASE WaitDrained
    BY <1>0, <1>3 DEF WaitDrained, surroundings, command_line
  <1>4. CASE SetupDone
    BY <1>0, <1>4 DEF SetupDone, surroundings, command_line
  <1>5. CASE SetupFailed
    BY <1>5 DEF SetupFailed, SendZero, surroundings, command_line
  <1>6. CASE LoopTop
    BY <1>0, <1>6 DEF LoopTop, surroundings, command_line
  <1>7. CASE ReadKey
    <2>1. HasMove' => HasMove
      BY <1>0, <1>7, KeyTaken DEF ReadKey
    <2>2. /\ pc = "keys" /\ UNCHANGED <<tool, now, start, keyAge>>
          /\ pc' = "keys" \/ (pc' = "drain" /\ ~g_running')
      BY <1>7 DEF ReadKey, command_line
    <2> QED
      BY <2>1, <2>2
  <1>8. CASE NoMoreKeys
    BY <1>0, <1>8 DEF NoMoreKeys, surroundings, command_line
  <1>9. CASE StepChassis
    BY <1>9 DEF StepChassis, surroundings, command_line
  <1>10. CASE StepSpeed
    BY <1>10 DEF StepSpeed, surroundings, command_line
  <1>11. CASE StepSingle
    BY <1>11 DEF StepSingle, surroundings, command_line
  <1>12. CASE SendOk
    BY <1>12 DEF SendOk, command_line
  <1>13. CASE LeaveLoop
    BY <1>13 DEF LeaveLoop, SendZero, surroundings, command_line
  <1>14. CASE ZeroFrame
    BY <1>14 DEF ZeroFrame, command_line
  <1>15. CASE ZeroDone
    BY <1>15 DEF ZeroDone, Gone, command_line
  <1>16. CASE Signal
    BY <1>16 DEF Signal, surroundings, command_line
  <1>17. CASE Kill
    BY <1>17 DEF Kill, Gone, command_line
  <1>18. CASE CanToggle
    BY <1>18 DEF CanToggle, process, command_line
  <1>19. CASE Tick
    BY <1>0, <1>19, TickFacts
  <1>20. ASSUME NEW c \in CommandLine, Launch(c[1], c[2], c[3])
         PROVE  KeyInv'
    BY <1>20 DEF Launch
  <1>21. ASSUME NEW c \in CommandLine, LaunchNoCan(c[1], c[2], c[3])
         PROVE  KeyInv'
    BY <1>21 DEF LaunchNoCan
  <1>22. ASSUME NEW m \in Motor, DrainFrame(m)
         PROVE  KeyInv'
    BY <1>22 DEF DrainFrame, command_line
  <1>23. ASSUME NEW m \in Motor, Emit(m)
         PROVE  KeyInv'
    BY <1>23 DEF Emit, process, command_line
  <1>24. ASSUME NEW k \in Key, Press(k)
         PROVE  KeyInv'
    <2>1. CASE k = "move"
      BY <1>0, <1>24, <2>1 DEF Press, process, command_line
    <2>2. CASE k # "move"
      <3>1. HasMove' => HasMove
        BY <1>0, <1>24, <2>2, KeyAppended DEF Press
      <3>2. UNCHANGED <<tool, pc, now, start, g_running, keyAge>>
        BY <1>24, <2>2 DEF Press, process, command_line
      <3> QED
        BY <3>1, <3>2
    <2> QED
      BY <2>1, <2>2
  <1>25. CASE UNCHANGED vars
    BY <1>25 DEF vars, process, surroundings, command_line
  <1> QED
    BY <1>1, <1>2, <1>3, <1>4, <1>5, <1>6, <1>7, <1>8, <1>9, <1>10, <1>11, <1>12,
       <1>13, <1>14, <1>15, <1>16, <1>17, <1>18, <1>19, <1>20, <1>21, <1>22, <1>23,
       <1>24, <1>25 DEF Next

\* The command in force was typed when its stamp says: ReadKey takes it from the
\* terminal, with a stamp that is not later than `now`.
LEMMA CommandStep ==
    TypeOK /\ TimeInv /\ KeyInv /\ CommandInv /\ [Next]_vars => CommandInv'
  <1> SUFFICES ASSUME TypeOK, TimeInv, KeyInv, CommandInv, [Next]_vars
               PROVE  CommandInv'
    OBVIOUS
  <1>0. /\ now \in 0 .. MaxLoop /\ MaxLoop \in Nat /\ start \in Nat /\ keyAge \in Nat
        /\ keys \in Seq(Key)
        /\ ctl \in Controller /\ ctl.last_command \in 0 .. CommandCap
        /\ CommandCap \in Nat /\ CommandCap > MaxLoop
    BY BenchCaps, ControlAssumption DEF TypeOK, Controller, CommandCap
  <1> USE DEF CommandInv, Typed, Running, Looping, Waiting
  <1>1. CASE WaitFailed
    BY <1>1, <1>0 DEF WaitFailed, SendZero, surroundings, command_line
  <1>2. CASE WaitPoll
    BY <1>2, <1>0 DEF WaitPoll, surroundings, command_line
  <1>3. CASE WaitDrained
    BY <1>3 DEF WaitDrained, surroundings, command_line
  <1>4. CASE SetupDone
    BY <1>4 DEF SetupDone, surroundings, command_line
  <1>5. CASE SetupFailed
    BY <1>5, <1>0 DEF SetupFailed, SendZero, surroundings, command_line
  <1>6. CASE LoopTop
    <2>1. /\ pc = "top" /\ pc' \in {"keys", "drain"} /\ now' = 0
          /\ UNCHANGED <<tool, start, keyAge>>
          /\ ctl' = IF tool = "timed" THEN chassis_set_command(ctl, request, 0) ELSE ctl
      BY <1>6 DEF LoopTop, surroundings, command_line
    <2>2. tool = "timed" => ctl'.last_command = 0
      BY <1>0, <2>1 DEF chassis_set_command, Controller
    <2> QED
      BY <1>0, <2>1, <2>2
  <1>7. CASE ReadKey
    <2>1. /\ pc = "keys" /\ pc' \in {"keys", "drain"}
          /\ UNCHANGED <<tool, now, start, keyAge>>
      BY <1>7 DEF ReadKey, command_line
    <2>2. Head(keys) \in Key /\ (Head(keys) = "move" => HasMove)
      BY <1>0, <1>7, KeyTaken DEF ReadKey, HasMove
    <2>3. CASE Head(keys) = "move"
      <3>1. ctl'.last_command = now
        BY <1>0, <1>7, <2>3 DEF ReadKey, chassis_set_command, Controller
      <3>2. tool = "keyboard" => Typed(now)
        BY <2>1, <2>2, <2>3 DEF KeyInv
      <3> QED
        BY <1>0, <2>1, <3>1, <3>2
    <2>4. CASE Head(keys) = "stop"
      <3>1. ctl'.last_command = now /\ ctl'.command = "zero"
        BY <1>0, <1>7, <2>4
           DEF ReadKey, chassis_stop, reset_motion_state, Controller
      <3> QED
        BY <1>0, <2>1, <3>1
    <2>5. CASE Head(keys) \notin {"move", "stop"}
      <3>1. ctl' = ctl
        BY <1>7, <2>5 DEF ReadKey
      <3> QED
        BY <1>0, <2>1, <3>1
    <2> QED
      BY <2>3, <2>4, <2>5
  <1>8. CASE NoMoreKeys
    BY <1>8 DEF NoMoreKeys, surroundings, command_line
  <1>9. CASE StepChassis
    <2>1. PICK o \in chassis_step(ctl, now) : ctl' = o.ctl
      BY <1>9 DEF StepChassis
    <2>2. now <= ctl.last_command /\ ctl \in Controller /\ now \in 0 .. MaxLoop
      BY <1>9 DEF StepChassis, CommandInv, Running, Looping, TypeOK
    <2>3. /\ ctl'.last_command = ctl.last_command
          /\ ctl'.command = "move" => ctl.command = "move"
      BY <2>1, <2>2, StepFacts
    <2>4. /\ pc = "drain" /\ pc' = "send" /\ UNCHANGED <<tool, now, start, keyAge>>
      BY <1>9 DEF StepChassis, surroundings, command_line
    <2> QED
      BY <1>0, <2>2, <2>3, <2>4
  <1>10. CASE StepSpeed
    BY <1>10 DEF StepSpeed, surroundings, command_line
  <1>11. CASE StepSingle
    BY <1>11 DEF StepSingle, surroundings, command_line
  <1>12. CASE SendOk
    BY <1>12 DEF SendOk, command_line
  <1>13. CASE LeaveLoop
    <2>1. pc' = "zero" /\ UNCHANGED <<tool, start, keyAge>>
      BY <1>13 DEF LeaveLoop, SendZero, surroundings, command_line
    <2>2. ctl' = ctl \/ ctl'.command = "zero"
      BY <1>0, <1>13 DEF LeaveLoop, chassis_stop, reset_motion_state, Controller
    <2> QED
      BY <2>1, <2>2
  <1>14. CASE ZeroFrame
    BY <1>14 DEF ZeroFrame, command_line
  <1>15. CASE ZeroDone
    BY <1>15 DEF ZeroDone, Gone, command_line, NoController
  <1>16. CASE Signal
    BY <1>16 DEF Signal, surroundings, command_line
  <1>17. CASE Kill
    BY <1>17 DEF Kill, Gone, command_line, NoController
  <1>18. CASE CanToggle
    BY <1>18 DEF CanToggle, process, command_line
  <1>19. CASE Tick
    <2>1. /\ UNCHANGED <<tool, pc>> /\ ctl'.command = ctl.command
          /\ now' = now + 1 /\ now' <= MaxLoop
          /\ start' \in Nat /\ start' <= start + 1 /\ keyAge' \in Nat /\ keyAge' <= keyAge + 1
      BY <1>19, TickFacts
    <2>2. CASE ctl.last_command = CommandCap
      <3>1. ctl'.last_command = CommandCap
        BY <1>19, <2>2, TickFacts
      <3> QED
        BY <1>0, <2>1, <3>1
    <2>3. CASE ctl.last_command # CommandCap
      <3>1. ctl'.last_command = ctl.last_command + 1
        BY <1>19, <2>3, TickFacts
      <3> QED
        BY <1>0, <2>1, <2>3, <3>1
    <2> QED
      BY <2>2, <2>3
  <1>20. ASSUME NEW c \in CommandLine, Launch(c[1], c[2], c[3])
         PROVE  CommandInv'
    <2>1. ctl'.command = "zero" /\ ctl'.last_command = 0 /\ now' = 0
      BY <1>20 DEF Launch, chassis_init
    <2> QED
      BY <1>0, <2>1
  <1>21. ASSUME NEW c \in CommandLine, LaunchNoCan(c[1], c[2], c[3])
         PROVE  CommandInv'
    BY <1>21 DEF LaunchNoCan
  <1>22. ASSUME NEW m \in Motor, DrainFrame(m)
         PROVE  CommandInv'
    <2>1. ctl'.command = ctl.command /\ ctl'.last_command = ctl.last_command
      BY <1>0, <1>22 DEF DrainFrame, chassis_update_feedback, Controller
    <2> QED
      BY <1>0, <1>22, <2>1 DEF DrainFrame, command_line
  <1>23. ASSUME NEW m \in Motor, Emit(m)
         PROVE  CommandInv'
    BY <1>23 DEF Emit, process, command_line
  <1>24. ASSUME NEW k \in Key, Press(k)
         PROVE  CommandInv'
    BY <1>24, <1>0 DEF Press, process, command_line
  <1>25. CASE UNCHANGED vars
    BY <1>25 DEF vars, process, surroundings, command_line
  <1> QED
    BY <1>1, <1>2, <1>3, <1>4, <1>5, <1>6, <1>7, <1>8, <1>9, <1>10, <1>11, <1>12,
       <1>13, <1>14, <1>15, <1>16, <1>17, <1>18, <1>19, <1>20, <1>21, <1>22, <1>23,
       <1>24, <1>25 DEF Next

\* Feedback was on the bus at most two iterations before its stamp: a frame that
\* misses one drain_feedback is taken by the next.
LEMMA FeedbackStep ==
    TypeOK /\ CommandInv /\ FeedbackInv /\ [Next]_vars => FeedbackInv'
  <1> SUFFICES ASSUME TypeOK, CommandInv, FeedbackInv, [Next]_vars
               PROVE  FeedbackInv'
    OBVIOUS
  <1>0. /\ now \in 0 .. MaxLoop /\ MaxLoop \in Nat /\ canRx \subseteq Motor
        /\ ctl \in Controller /\ FeedbackCap \in Nat /\ ctl.online \subseteq Motor
        /\ \A m \in Motor : emitted[m] \in Nat /\ ctl.last_update[m] \in 0 .. FeedbackCap
    BY BenchCaps, ControlAssumption DEF TypeOK, Controller, FeedbackCap
  <1> USE DEF FeedbackInv
  <1>1. CASE WaitFailed
    BY <1>1, <1>0 DEF WaitFailed, SendZero, surroundings, command_line
  <1>2. CASE WaitPoll
    BY <1>2, <1>0 DEF WaitPoll, surroundings, command_line
  <1>3. CASE WaitDrained
    BY <1>3, <1>0 DEF WaitDrained, surroundings, command_line
  <1>4. CASE SetupDone
    BY <1>4 DEF SetupDone, surroundings, command_line
  <1>5. CASE SetupFailed
    BY <1>5 DEF SetupFailed, SendZero, surroundings, command_line
  <1>6. CASE LoopTop
    <2>1. /\ pc = "top" /\ pc' \in {"keys", "drain"} /\ now' = 0
          /\ UNCHANGED <<canRx, emitted>>
      BY <1>6 DEF LoopTop, surroundings
    <2>2. ctl'.online = ctl.online /\ ctl'.last_update = ctl.last_update
      BY <1>0, <1>6 DEF LoopTop, chassis_set_command, Controller
    <2> QED
      BY <1>0, <2>1, <2>2
  <1>7. CASE ReadKey
    <2>1. ctl'.online = ctl.online /\ ctl'.last_update = ctl.last_update
      BY <1>0, <1>7 DEF ReadKey, chassis_set_command, chassis_stop, reset_motion_state, Controller
    <2>2. pc = "keys" /\ pc' \in {"keys", "drain"} /\ UNCHANGED <<now, canRx, emitted>>
      BY <1>7 DEF ReadKey
    <2> QED
      BY <2>1, <2>2
  <1>8. CASE NoMoreKeys
    BY <1>8 DEF NoMoreKeys, surroundings, command_line
  <1>9. CASE StepChassis
    <2>1. PICK o \in chassis_step(ctl, now) : ctl' = o.ctl
      BY <1>9 DEF StepChassis
    <2>2. now <= ctl.last_command /\ ctl \in Controller /\ now \in 0 .. MaxLoop
      BY <1>9 DEF StepChassis, CommandInv, Running, Looping, TypeOK
    <2>3. ctl'.online = ctl.online /\ ctl'.last_update = ctl.last_update
      BY <2>1, <2>2, StepFacts
    <2>4. pc' = "send" /\ canRx = {} /\ UNCHANGED <<now, canRx, emitted>>
      BY <1>9 DEF StepChassis, surroundings
    <2> QED
      BY <2>3, <2>4
  <1>10. CASE StepSpeed
    BY <1>10 DEF StepSpeed, surroundings, command_line
  <1>11. CASE StepSingle
    BY <1>11 DEF StepSingle, surroundings, command_line
  <1>12. CASE SendOk
    BY <1>12 DEF SendOk, command_line
  <1>13. CASE LeaveLoop
    <2>1. ctl'.online = ctl.online /\ ctl'.last_update = ctl.last_update
      BY <1>0, <1>13 DEF LeaveLoop, chassis_stop, reset_motion_state, Controller
    <2> QED
      BY <1>13, <2>1 DEF LeaveLoop, SendZero, surroundings
  <1>14. CASE ZeroFrame
    BY <1>14 DEF ZeroFrame, command_line
  <1>15. CASE ZeroDone
    BY <1>15 DEF ZeroDone, Gone, command_line, NoController
  <1>16. CASE Signal
    BY <1>16 DEF Signal, surroundings, command_line
  <1>17. CASE Kill
    BY <1>17 DEF Kill, Gone, command_line, NoController
  <1>18. CASE CanToggle
    BY <1>18 DEF CanToggle, process, command_line
  <1>19. CASE Tick
    <2>1. UNCHANGED <<pc, canRx>> /\ ctl'.online = ctl.online /\ now' = now + 1
      BY <1>19, TickFacts
    <2>2. \A m \in Motor : emitted'[m] \in Nat /\ emitted'[m] <= emitted[m] + 1
      BY <1>19, TickFacts
    <2>3. ASSUME NEW m \in ctl.online
          PROVE  \/ ctl'.last_update[m] = FeedbackCap
                 \/ emitted'[m] <= ctl'.last_update[m] + 2 * MaxLoop
      <3>1. m \in Motor
        BY <1>0
      <3>2. CASE ctl.last_update[m] = FeedbackCap
        BY <1>19, <3>1, <3>2, TickFacts
      <3>3. CASE ctl.last_update[m] # FeedbackCap
        <4>1. ctl'.last_update[m] = ctl.last_update[m] + 1
          BY <1>19, <3>1, <3>3, TickFacts
        <4> QED
          BY <1>0, <2>2, <3>1, <3>3, <4>1
      <3> QED
        BY <3>2, <3>3
    <2> QED
      BY <1>0, <2>1, <2>2, <2>3
  <1>20. ASSUME NEW c \in CommandLine, Launch(c[1], c[2], c[3])
         PROVE  FeedbackInv'
    BY <1>20 DEF Launch, chassis_init
  <1>21. ASSUME NEW c \in CommandLine, LaunchNoCan(c[1], c[2], c[3])
         PROVE  FeedbackInv'
    BY <1>21 DEF LaunchNoCan
  <1>22. ASSUME NEW m \in Motor, DrainFrame(m)
         PROVE  FeedbackInv'
    <2>1. /\ pc \in {"wdrain", "drain"} /\ m \in canRx /\ canRx' \subseteq canRx
          /\ UNCHANGED <<pc, now, emitted>>
      BY <1>22 DEF DrainFrame
    <2>2. /\ ctl'.online = ctl.online \union {m}
          /\ ctl'.last_update[m] \in {0, now}
          /\ \A n \in Motor \ {m} : ctl'.last_update[n] = ctl.last_update[n]
      BY <1>0, <1>22 DEF DrainFrame, chassis_update_feedback, Controller
    <2>3. emitted[m] <= now + MaxLoop
      BY <2>1
    <2>4. \A n \in ctl'.online : \/ ctl'.last_update[n] = FeedbackCap
                                 \/ emitted[n] <= ctl'.last_update[n] + 2 * MaxLoop
      BY <1>0, <2>2, <2>3
    <2> QED
      BY <1>0, <2>1, <2>4
  <1>23. ASSUME NEW m \in Motor, Emit(m)
         PROVE  FeedbackInv'
    <2>1. /\ pc \notin {"off", "zero"} /\ canRx' = canRx \union {m}
          /\ UNCHANGED <<pc, now, ctl>>
      BY <1>23 DEF Emit, process
    <2>2. \A n \in Motor : emitted'[n] = IF n = m THEN 0 ELSE emitted[n]
      BY <1>23 DEF Emit, TypeOK
    <2> QED
      BY <1>0, <2>1, <2>2
  <1>24. ASSUME NEW k \in Key, Press(k)
         PROVE  FeedbackInv'
    BY <1>24 DEF Press, process, command_line
  <1>25. CASE UNCHANGED vars
    BY <1>25 DEF vars, process, surroundings, command_line
  <1> QED
    BY <1>1, <1>2, <1>3, <1>4, <1>5, <1>6, <1>7, <1>8, <1>9, <1>10, <1>11, <1>12,
       <1>13, <1>14, <1>15, <1>16, <1>17, <1>18, <1>19, <1>20, <1>21, <1>22, <1>23,
       <1>24, <1>25 DEF Next

\* Reading the clock again, at the top of the loop or in send_zero_current, costs one
\* more iteration.
LEMMA JustifiedLonger ==
    ASSUME TypeOK, NEW k \in {1, 2}, Justified(k), now' = 0,
           UNCHANGED <<tool, watched, start, keyAge, emitted>>
    PROVE  Justified(k + 1)'
  <1>1. /\ now \in 0 .. MaxLoop /\ start \in Nat /\ keyAge \in Nat /\ watched \subseteq Motor
        /\ \A m \in Motor : emitted[m] \in Nat
    BY BenchCaps DEF TypeOK
  <1>2. CASE k = 1
    BY <1>1, <1>2, ControlAssumption DEF Justified
  <1>3. CASE k = 2
    BY <1>1, <1>3, ControlAssumption DEF Justified
  <1> QED
    BY <1>2, <1>3

\* Both sides of each bound grow by one in a tick.
LEMMA JustifiedTick ==
    ASSUME TypeOK, NEW k \in {1, 2, 3}, Justified(k), Tick
    PROVE  Justified(k)'
  <1>1. /\ UNCHANGED <<tool, watched>> /\ now' = now + 1 /\ now \in Nat
        /\ start \in Nat /\ start' \in Nat /\ start' <= start + 1
        /\ keyAge \in Nat /\ keyAge' \in Nat /\ keyAge' <= keyAge + 1
        /\ \A m \in Motor : /\ emitted[m] \in Nat /\ emitted'[m] \in Nat
                            /\ emitted'[m] <= emitted[m] + 1
    BY TickFacts
  <1>2. k * MaxLoop \in Nat /\ (k + 1) * MaxLoop \in Nat /\ watched \subseteq Motor
    BY ControlAssumption DEF TypeOK
  <1> DEFINE a == k * MaxLoop
             b == (k + 1) * MaxLoop
  <1> HIDE DEF a, b
  <1>3. /\ tool = "keyboard" => \/ keyAge <= now + CommandTimeout + a
                               \/ start <= now + CommandTimeout + a
        /\ \A m \in watched : emitted[m] <= now + FeedbackTimeout + b
    BY DEF Justified, a, b
  <1>4. /\ tool' = "keyboard" => \/ keyAge' <= now' + CommandTimeout + a
                                \/ start' <= now' + CommandTimeout + a
        /\ \A m \in watched' : emitted'[m] <= now' + FeedbackTimeout + b
    BY <1>1, <1>2, <1>3, ControlAssumption DEF a, b
  <1> QED
    BY <1>4 DEF Justified, a, b

\* Keys and reports only make the justification stronger.
LEMMA JustifiedNewer ==
    ASSUME TypeOK, NEW k \in {1, 2, 3}, Justified(k), UNCHANGED <<tool, watched, now, start>>,
           keyAge' \in {0, keyAge}, \A m \in Motor : emitted'[m] \in {0, emitted[m]}
    PROVE  Justified(k)'
  <1>1. /\ now \in Nat /\ start \in Nat /\ keyAge \in Nat /\ watched \subseteq Motor
        /\ \A m \in Motor : emitted[m] \in Nat
    BY BenchCaps, ControlAssumption DEF TypeOK
  <1>2. k * MaxLoop \in Nat /\ (k + 1) * MaxLoop \in Nat
    BY ControlAssumption
  <1>3. now + CommandTimeout + k * MaxLoop >= 0 /\ now + FeedbackTimeout + (k + 1) * MaxLoop >= 0
    BY <1>1, <1>2, ControlAssumption
  <1> QED
    BY <1>1, <1>3 DEF Justified

\* A stamp that is fresh at the reading `now`: the motor reported not much earlier.
LEMMA FreshReport ==
    ASSUME TypeOK, FeedbackInv, NEW m \in ctl.online,
           NEW limit \in 0 .. FeedbackTimeout, elapsed_ms(now, ctl.last_update[m]) <= limit
    PROVE  emitted[m] <= now + FeedbackTimeout + (1 + 1) * MaxLoop
  <1>1. /\ now \in 0 .. MaxLoop /\ m \in Motor /\ ctl.last_update[m] \in Nat
        /\ emitted[m] \in Nat /\ FeedbackCap = FeedbackTimeout + MaxLoop + 1
    BY BenchCaps, ControlAssumption DEF TypeOK, Controller, FeedbackCap
  <1>2. ctl.last_update[m] <= now + FeedbackTimeout
    BY <1>1, ControlAssumption DEF elapsed_ms
  <1>3. emitted[m] <= ctl.last_update[m] + 2 * MaxLoop
    BY <1>1, <1>2, ControlAssumption DEF FeedbackInv
  <1> QED
    BY <1>1, <1>2, <1>3, ControlAssumption

\* A chassis step that drives is justified: the command's stamp and the feedback's
\* stamps are fresh at `now`.
LEMMA ChassisJustified ==
    ASSUME TypeOK, CommandInv, FeedbackInv, pc \in Looping,
           NEW o \in chassis_step(ctl, now), o.currents = "drive"
    PROVE  Justified(1)
  <1>1. now <= ctl.last_command /\ ctl \in Controller /\ now \in 0 .. MaxLoop
    BY DEF CommandInv, Running, TypeOK
  <1>2. /\ ctl.command = "move" /\ ctl.last_command <= now + CommandTimeout
        /\ chassis_feedback_all_online(ctl, now)
    <2>1. o.ctl.command = "move" => ctl.command = "move"
      BY <1>1, StepFacts
    <2> QED
      BY <1>1, <2>1, StepFacts
  <1>3. tool = "keyboard" => \/ keyAge <= now + CommandTimeout + 1 * MaxLoop
                             \/ start  <= now + CommandTimeout + 1 * MaxLoop
    <2>1. /\ start \in Nat /\ keyAge \in Nat /\ ctl.last_command \in Nat
          /\ ctl.last_command # CommandCap
      BY <1>1, <1>2, BenchCaps, ControlAssumption DEF TypeOK, Controller, CommandCap
    <2>2. tool = "keyboard" => Typed(ctl.last_command)
      BY <1>2, <2>1 DEF CommandInv
    <2> QED
      BY <1>1, <1>2, <2>1, <2>2, ControlAssumption DEF Typed
  <1>4. ASSUME NEW m \in Motor
        PROVE  emitted[m] <= now + FeedbackTimeout + (1 + 1) * MaxLoop
    <2>1. m \in ctl.online /\ elapsed_ms(now, ctl.last_update[m]) <= FeedbackTimeout
      BY <1>2 DEF chassis_feedback_all_online
    <2> QED
      BY <2>1, FreshReport, ControlAssumption
  <1> QED
    BY <1>3, <1>4 DEF Justified, TypeOK

\* test_speed_pid.c goes on only while its motor's stamp is fresh.
LEMMA SpeedJustified ==
    ASSUME TypeOK, FeedbackInv, tool = "speed", ~SpeedLost
    PROVE  Justified(1)
  <1>1. ASSUME NEW m \in watched
        PROVE  emitted[m] <= now + FeedbackTimeout + (1 + 1) * MaxLoop
    <2>1. m \in ctl.online /\ ~(elapsed_ms(now, ctl.last_update[m]) > SpeedTimeout)
      BY DEF SpeedLost
    <2>2. elapsed_ms(now, ctl.last_update[m]) <= SpeedTimeout
      <3>1. now \in Nat /\ ctl.last_update[m] \in Nat
        BY <2>1, ControlAssumption DEF TypeOK, Controller, FeedbackCap
      <3> QED
        BY <2>1, <3>1, BenchAssumption DEF elapsed_ms
    <2> QED
      BY <2>1, <2>2, FreshReport, BenchAssumption
  <1> QED
    BY <1>1 DEF Justified

\* A drive frame, in the hands of the loop or on the bus, stays justified.
LEMMA DriveStep ==
    TypeOK /\ CommandInv /\ FeedbackInv /\ DriveInv /\ [Next]_vars => DriveInv'
  <1> SUFFICES ASSUME TypeOK, CommandInv, FeedbackInv, DriveInv, [Next]_vars
               PROVE  DriveInv'
    OBVIOUS
  <1> USE DEF DriveInv, Leaving, Looping, Waiting
  <1>1. CASE WaitFailed
    BY <1>1 DEF WaitFailed, SendZero, surroundings, command_line
  <1>2. CASE WaitPoll
    BY <1>2 DEF WaitPoll, surroundings, command_line
  <1>3. CASE WaitDrained
    BY <1>3 DEF WaitDrained, surroundings, command_line
  <1>4. CASE SetupDone
    BY <1>4 DEF SetupDone, surroundings, command_line
  <1>5. CASE SetupFailed
    BY <1>5 DEF SetupFailed, SendZero, surroundings, command_line
  <1>6. CASE LoopTop
    <2>1. Justified(1) => Justified(2)'
      BY <1>6, JustifiedLonger DEF LoopTop, surroundings, command_line
    <2> QED
      BY <1>6, <2>1 DEF LoopTop, surroundings, command_line
  <1>7. CASE ReadKey
    <2>1. \A k \in {1, 2, 3} : Justified(k) => Justified(k)'
      BY <1>7, JustifiedNewer DEF ReadKey, command_line
    <2> QED
      BY <1>7, <2>1 DEF ReadKey, command_line
  <1>8. CASE NoMoreKeys
    <2>1. \A k \in {1, 2, 3} : Justified(k) => Justified(k)'
      BY <1>8, JustifiedNewer DEF NoMoreKeys, surroundings, command_line
    <2> QED
      BY <1>8, <2>1 DEF NoMoreKeys, surroundings, command_line
  <1>9. CASE StepChassis
    <2>1. currents' = "drive" => Justified(1)
      BY <1>9, ChassisJustified DEF StepChassis
    <2>2. \A k \in {1, 2, 3} : Justified(k) => Justified(k)'
      BY <1>9, JustifiedNewer DEF StepChassis, surroundings, command_line
    <2> QED
      BY <1>9, <2>1, <2>2 DEF StepChassis, surroundings, command_line
  <1>10. CASE StepSpeed
    <2>1. Justified(1)
      BY <1>10, SpeedJustified DEF StepSpeed
    <2>2. \A k \in {1, 2, 3} : Justified(k) => Justified(k)'
      BY <1>10, JustifiedNewer DEF StepSpeed, surroundings, command_line
    <2> QED
      BY <1>10, <2>1, <2>2 DEF StepSpeed, surroundings, command_line
  <1>11. CASE StepSingle
    <2>1. Justified(1)
      BY <1>11 DEF StepSingle, Justified
    <2>2. \A k \in {1, 2, 3} : Justified(k) => Justified(k)'
      BY <1>11, JustifiedNewer DEF StepSingle, surroundings, command_line
    <2> QED
      BY <1>11, <2>1, <2>2 DEF StepSingle, surroundings, command_line
  <1>12. CASE SendOk
    <2>1. \A k \in {1, 2, 3} : Justified(k) => Justified(k)'
      BY <1>12, JustifiedNewer DEF SendOk, command_line
    <2> QED
      BY <1>12, <2>1 DEF SendOk, command_line
  <1>13. CASE LeaveLoop
    <2>1. bus = "drive" => Justified(1) \/ Justified(2)
      BY <1>13 DEF LeaveLoop
    <2>2. Justified(1) => Justified(2)
      <3>1. /\ now \in 0 .. MaxLoop /\ start \in Nat /\ keyAge \in Nat /\ watched \subseteq Motor
            /\ \A m \in Motor : emitted[m] \in Nat
        BY BenchCaps DEF TypeOK
      <3> QED
        BY <3>1, ControlAssumption DEF Justified
    <2>3. Justified(2) => Justified(3)'
      BY <1>13, JustifiedLonger DEF LeaveLoop, SendZero, surroundings, command_line
    <2> QED
      BY <1>13, <2>1, <2>2, <2>3 DEF LeaveLoop, SendZero, surroundings, command_line
  <1>14. CASE ZeroFrame
    BY <1>14, BenchAssumption DEF ZeroFrame, command_line, TypeOK
  <1>15. CASE ZeroDone
    BY <1>15 DEF ZeroDone, Gone, command_line
  <1>16. CASE Signal
    <2>1. \A k \in {1, 2, 3} : Justified(k) => Justified(k)'
      BY <1>16, JustifiedNewer DEF Signal, surroundings, command_line
    <2> QED
      BY <1>16, <2>1 DEF Signal, surroundings, command_line
  <1>17. CASE Kill
    BY <1>17 DEF Kill, Gone, command_line
  <1>18. CASE CanToggle
    <2>1. \A k \in {1, 2, 3} : Justified(k) => Justified(k)'
      BY <1>18, JustifiedNewer DEF CanToggle, process, command_line
    <2> QED
      BY <1>18, <2>1 DEF CanToggle, process, command_line
  <1>19. CASE Tick
    <2>1. \A k \in {1, 2, 3} : Justified(k) => Justified(k)'
      BY <1>19, JustifiedTick
    <2>2. UNCHANGED <<tool, watched, pc, currents, exit, zeroLeft, bus>>
      BY <1>19, TickFacts
    <2> QED
      BY <2>1, <2>2
  <1>20. ASSUME NEW c \in CommandLine, Launch(c[1], c[2], c[3])
         PROVE  DriveInv'
    <2>1. c[1] = "single" => c[2] = {}
      BY DEF CommandLine
    <2>2. bus # "drive" /\ bus' = bus /\ tool' = c[1] /\ watched' = c[2] /\ exit' = "none"
      BY <1>20 DEF Launch
    <2>3. currents' = "drive" => pc' = "top"
      BY <1>20 DEF Launch
    <2>4. pc' \in {"top", "wait"}
      BY <1>20 DEF Launch
    <2> QED
      BY <2>1, <2>2, <2>3, <2>4
  <1>21. ASSUME NEW c \in CommandLine, LaunchNoCan(c[1], c[2], c[3])
         PROVE  DriveInv'
    <2>1. c[1] = "single" => c[2] = {}
      BY DEF CommandLine
    <2> QED
      BY <1>21, <2>1 DEF LaunchNoCan
  <1>22. ASSUME NEW m \in Motor, DrainFrame(m)
         PROVE  DriveInv'
    <2>1. \A k \in {1, 2, 3} : Justified(k) => Justified(k)'
      BY <1>22, JustifiedNewer DEF DrainFrame, command_line
    <2> QED
      BY <1>22, <2>1 DEF DrainFrame, command_line
  <1>23. ASSUME NEW m \in Motor, Emit(m)
         PROVE  DriveInv'
    <2>1. \A n \in Motor : emitted'[n] \in {0, emitted[n]}
      BY <1>23 DEF Emit, TypeOK
    <2>2. \A k \in {1, 2, 3} : Justified(k) => Justified(k)'
      BY <1>23, <2>1, JustifiedNewer DEF Emit, process, command_line
    <2> QED
      BY <1>23, <2>2 DEF Emit, process, command_line
  <1>24. ASSUME NEW k \in Key, Press(k)
         PROVE  DriveInv'
    <2>1. \A j \in {1, 2, 3} : Justified(j) => Justified(j)'
      BY <1>24, JustifiedNewer DEF Press, process, command_line
    <2> QED
      BY <1>24, <2>1 DEF Press, process, command_line
  <1>25. CASE UNCHANGED vars
    BY <1>25 DEF vars, process, surroundings, command_line, Justified
  <1> QED
    BY <1>1, <1>2, <1>3, <1>4, <1>5, <1>6, <1>7, <1>8, <1>9, <1>10, <1>11, <1>12,
       <1>13, <1>14, <1>15, <1>16, <1>17, <1>18, <1>19, <1>20, <1>21, <1>22, <1>23,
       <1>24, <1>25 DEF Next

\* The deadline is tested at the top of the loop only; the frame computed after the
\* last test is on the bus until the first zero frame.
LEMMA DeadlineStep ==
    TypeOK /\ TimeInv /\ DeadlineInv /\ [Next]_vars => DeadlineInv'
  <1> SUFFICES ASSUME TypeOK, TimeInv, DeadlineInv, [Next]_vars
               PROVE  DeadlineInv'
    OBVIOUS
  <1>0. /\ now \in 0 .. MaxLoop /\ MaxLoop \in Nat /\ start \in Nat /\ Duration \in Nat \ {0}
        /\ zeroLeft \in 0 .. ZeroRepeat
    BY BenchCaps, ControlAssumption, BenchAssumption DEF TypeOK
  <1> USE DEF DeadlineInv, Leaving, Looping
  <1>1. CASE WaitFailed
    BY <1>1 DEF WaitFailed, SendZero, surroundings, command_line
  <1>2. CASE WaitPoll
    BY <1>2 DEF WaitPoll, surroundings, command_line
  <1>3. CASE WaitDrained
    BY <1>3, <1>0 DEF WaitDrained, surroundings, command_line
  <1>4. CASE SetupDone
    <2>1. tool = "keyboard" /\ tool' = tool
      BY <1>4 DEF SetupDone, TimeInv, command_line
    <2> QED
      BY <2>1
  <1>5. CASE SetupFailed
    BY <1>5 DEF SetupFailed, SendZero, surroundings, command_line
  <1>6. CASE LoopTop
    BY <1>6, <1>0 DEF LoopTop, surroundings, command_line
  <1>7. CASE ReadKey
    <2>1. tool = "keyboard" /\ tool' = tool
      BY <1>7 DEF ReadKey, TimeInv, command_line
    <2> QED
      BY <2>1
  <1>8. CASE NoMoreKeys
    <2>1. tool = "keyboard" /\ tool' = tool
      BY <1>8 DEF NoMoreKeys, TimeInv, command_line
    <2> QED
      BY <2>1
  <1>9. CASE StepChassis
    BY <1>9 DEF StepChassis, surroundings, command_line
  <1>10. CASE StepSpeed
    BY <1>10 DEF StepSpeed, surroundings, command_line
  <1>11. CASE StepSingle
    BY <1>11 DEF StepSingle, surroundings, command_line
  <1>12. CASE SendOk
    BY <1>12 DEF SendOk, command_line
  <1>13. CASE LeaveLoop
    BY <1>13, <1>0 DEF LeaveLoop, SendZero, surroundings, command_line
  <1>14. CASE ZeroFrame
    BY <1>14, <1>0 DEF ZeroFrame, command_line
  <1>15. CASE ZeroDone
    BY <1>15 DEF ZeroDone, Gone, command_line
  <1>16. CASE Signal
    BY <1>16 DEF Signal, surroundings, command_line
  <1>17. CASE Kill
    BY <1>17 DEF Kill, Gone, command_line
  <1>18. CASE CanToggle
    BY <1>18 DEF CanToggle, process, command_line
  <1>19. CASE Tick
    BY <1>0, <1>19, TickFacts
  <1>20. ASSUME NEW c \in CommandLine, Launch(c[1], c[2], c[3])
         PROVE  DeadlineInv'
    BY <1>20, <1>0 DEF Launch
  <1>21. ASSUME NEW c \in CommandLine, LaunchNoCan(c[1], c[2], c[3])
         PROVE  DeadlineInv'
    BY <1>21 DEF LaunchNoCan
  <1>22. ASSUME NEW m \in Motor, DrainFrame(m)
         PROVE  DeadlineInv'
    BY <1>22 DEF DrainFrame, command_line
  <1>23. ASSUME NEW m \in Motor, Emit(m)
         PROVE  DeadlineInv'
    BY <1>23 DEF Emit, process, command_line
  <1>24. ASSUME NEW k \in Key, Press(k)
         PROVE  DeadlineInv'
    BY <1>24 DEF Press, process, command_line
  <1>25. CASE UNCHANGED vars
    BY <1>25 DEF vars, process, surroundings, command_line
  <1> QED
    BY <1>1, <1>2, <1>3, <1>4, <1>5, <1>6, <1>7, <1>8, <1>9, <1>10, <1>11, <1>12,
       <1>13, <1>14, <1>15, <1>16, <1>17, <1>18, <1>19, <1>20, <1>21, <1>22, <1>23,
       <1>24, <1>25 DEF Next

LEMMA DriveInit == Init => TimeInv /\ KeyInv /\ CommandInv /\ FeedbackInv /\ DriveInv /\ DeadlineInv
  BY DEF Init, TimeInv, KeyInv, CommandInv, FeedbackInv, DriveInv, DeadlineInv, Leaving,
         NoController, Running, Looping, Waiting

\* The inductive invariant of a drive frame holds in every reachable state.
LEMMA DriveInvariance ==
    Spec => [](TypeOK /\ TimeInv /\ CommandInv /\ FeedbackInv /\ DriveInv /\ DeadlineInv)
  <1>1. Spec => [](TypeOK /\ LostInv /\ TimeInv)
    BY TypeInit, TypeStep, DriveInit, TimeStep, PTL DEF Spec
  <1>2. Spec => [](KeyInv /\ CommandInv)
    BY <1>1, DriveInit, KeyStep, CommandStep, PTL DEF Spec
  <1>3. Spec => []FeedbackInv
    BY <1>1, <1>2, DriveInit, FeedbackStep, PTL DEF Spec
  <1>4. Spec => []DriveInv
    BY <1>1, <1>2, <1>3, DriveInit, DriveStep, PTL DEF Spec
  <1>5. Spec => []DeadlineInv
    BY <1>1, DriveInit, DeadlineStep, PTL DEF Spec
  <1> QED
    BY <1>1, <1>2, <1>3, <1>4, <1>5, PTL

\* What is left of the justification when a drive frame is on the bus.
LEMMA DriveBounds ==
    ASSUME TypeOK, DriveInv, InCharge, bus = "drive"
    PROVE  /\ tool = "keyboard" => keyAge <= KeyBound \/ start <= KeyBound
           /\ \A m \in watched : emitted[m] <= LossBound
  <1>1. Justified(1) \/ Justified(2) \/ Justified(3)
    BY DEF InCharge, Looping, DriveInv, Leaving
  <1>2. /\ now \in 0 .. MaxLoop /\ start \in Nat /\ keyAge \in Nat /\ watched \subseteq Motor
        /\ \A m \in Motor : emitted[m] \in Nat
    BY BenchCaps DEF TypeOK
  <1> QED
    BY <1>1, <1>2, ControlAssumption DEF Justified, KeyBound, LossBound

\* A motor that stops reporting stops the tools that depend on it, whichever of the
\* two ways they stamp and test feedback (chassis_feedback_all_online, test_speed_pid.c).
THEOREM BenchStopsOnLoss == Spec => []BenchMotorLoss
  <1>1. TypeOK /\ DriveInv => BenchMotorLoss
    BY DriveBounds DEF BenchMotorLoss
  <1> QED
    BY <1>1, DriveInvariance, PTL

\* The duration ends a drive, and so does the silence of the keyboard: the deadline and
\* the command timeout are tested once an iteration, at a reading taken at its start.
THEOREM BenchDrivesInTime == Spec => []BenchDriveEnds
  <1>1. TypeOK /\ DriveInv /\ DeadlineInv => BenchDriveEnds
    <2> SUFFICES ASSUME TypeOK, DriveInv, DeadlineInv, InCharge, bus = "drive"
                 PROVE  IF tool = "keyboard" THEN start > KeyBound => keyAge <= KeyBound
                        ELSE start <= DurationBound
      BY DEF BenchDriveEnds
    <2>1. /\ start \in Nat /\ keyAge \in Nat /\ now \in 0 .. MaxLoop
          /\ KeyBound \in Nat
      BY BenchCaps, ControlAssumption DEF TypeOK, KeyBound
    <2>2. CASE tool = "keyboard"
      BY <2>1, <2>2, DriveBounds
    <2>3. CASE tool # "keyboard"
      BY <2>1, <2>3, ControlAssumption, BenchAssumption
         DEF DeadlineInv, InCharge, Leaving, DurationBound
    <2> QED
      BY <2>2, <2>3
  <1> QED
    BY <1>1, DriveInvariance, PTL
=============================================================================

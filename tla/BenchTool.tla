------------------------------ MODULE BenchTool ------------------------------
(***************************************************************************)
(* The programs an operator, or a tuning script, runs by hand on a lifted  *)
(* chassis.  They share one shape: open the CAN interface, wait for        *)
(* feedback, loop until a deadline or a key, send zero current, return.    *)
(* The module is one process at a time of one of them:                     *)
(*   "timed"     src/tools/chassis_velocity.c, and test_chassis_command.c, *)
(*               which differs from it in how the command line is read     *)
(*   "keyboard"  src/tools/test_chassis_keyboard.c                         *)
(*   "speed"     src/tools/test_speed_pid.c, one motor                     *)
(*   "single"    src/tools/test_single_motor.c, one motor, no feedback     *)
(*                                                                         *)
(* pc is "off", "wait" and "wdrain" (waiting for feedback), "setup"        *)
(* (setup_terminal), "top", "keys", "drain", "send" (the loop) or "zero"   *)
(* (send_zero_current).  Time is as in ChassisControl; an iteration of any *)
(* loop takes at most MaxLoop ticks, which for the two single-motor tools  *)
(* includes the period of their command line.                              *)
(* The feedbacks[] of the single-motor tools are the online and            *)
(* last_update fields of the controller record.  The key '+', '-' scales   *)
(* between 0.1 and 1, so a moving key is never a zero command.  A frame    *)
(* with less than 8 bytes or a foreign identifier has no effect.           *)
(***************************************************************************)
EXTENDS ChassisControl, Sequences

CONSTANTS
    Duration,      \* duration_ms of the command line, in ticks
    WaitTimeout,   \* the 1500 ms (1000 ms in test_speed_pid.c) of the wait
    SpeedTimeout,  \* the 200 ms of test_speed_pid.c
    ZeroRepeat,    \* ZERO_SEND_REPEAT
    KeyCap         \* bound: keys waiting in the terminal

ASSUME BenchAssumption ==
    /\ Duration \in Nat \ {0}
    /\ WaitTimeout \in Nat
    /\ SpeedTimeout \in 0 .. FeedbackTimeout
    /\ ZeroRepeat \in Nat \ {0}
    /\ KeyCap \in Nat

Larger(a, b) == IF a >= b THEN a ELSE b

\* Bounds of the properties below; ages past them are not told apart.
DurationBound == Duration + 2 * MaxLoop
KeyBound      == CommandTimeout + 4 * MaxLoop
LossBound     == FeedbackTimeout + 5 * MaxLoop
RunBound      == WaitTimeout + Duration + (ZeroRepeat + 3) * MaxLoop

StartCap  == 1 + Larger(WaitTimeout, Larger(DurationBound, KeyBound))
KeyAgeCap == KeyBound + 1
EmitCap   == LossBound + 1
RunCap    == RunBound + 1

VARIABLES
    tool,      \* the program that runs, or ran last
    watched,   \* the motors whose feedback the program depends on
    request,   \* the class of the command, current or speed asked for
    pc,
    ctl,       \* controller, or feedbacks[]
    now,       \* age of the clock reading of the current iteration
    start,     \* age of `start` in the wait, then of start_ms
    launched,  \* age of the process; of no interest with the keyboard tool, which
               \* has no deadline
    currents,
    g_running,
    exit,      \* "none", or how the process ended: "ok" 0, "fail" 1, "nocan" 1
               \* without having opened the interface, "killed"
    zeroLeft,  \* frames send_zero_current has still to send
    keys,      \* keys in the terminal's buffer
    keyAge,    \* age of the last moving key that was typed
    canRx,     \* motors with a feedback frame in the CAN socket's buffer
    bus,       \* the last current frame on the bus
    canUp,     \* the CAN interface sends and receives
    emitted,   \* age of each motor's last feedback frame on the bus
    lost       \* frames of send_zero_current that failed

command_line == <<tool, watched, request>>
process      == <<pc, ctl, now, start, launched, currents, g_running, exit, zeroLeft>>
surroundings == <<keys, keyAge, canRx, bus, canUp, emitted, lost>>
vars         == <<command_line, process, surroundings>>

Tool    == {"timed", "keyboard", "speed", "single"}
Chassis == {"timed", "keyboard"}     \* the tools that run the chassis controller
Key     == {"move", "stop", "quit", "other"}

Looping == {"top", "keys", "drain", "send"}

TypeOK ==
    /\ tool \in Tool /\ watched \in SUBSET Motor /\ request \in Command
    /\ pc \in Looping \union {"off", "wait", "wdrain", "setup", "zero"}
    /\ ctl \in Controller
    /\ now \in 0 .. MaxLoop
    /\ start \in 0 .. StartCap /\ launched \in 0 .. RunCap
    /\ currents \in Current
    /\ g_running \in BOOLEAN
    /\ exit \in {"none", "ok", "fail", "nocan", "killed"}
    /\ zeroLeft \in 0 .. ZeroRepeat
    /\ keys \in Seq(Key) /\ keyAge \in 0 .. KeyAgeCap
    /\ canRx \in SUBSET Motor
    /\ bus \in {"none", "zero", "drive", "orphan"}
    /\ canUp \in BOOLEAN
    /\ emitted \in [Motor -> 0 .. EmitCap]
    /\ lost \in 0 .. ZeroRepeat
-----------------------------------------------------------------------------
Init ==
    /\ tool = "single" /\ watched = {} /\ request = "zero"
    /\ pc = "off" /\ exit = "none" /\ g_running = TRUE
    /\ ctl = NoController
    /\ now = 0 /\ start = StartCap /\ launched = RunCap
    /\ currents = "zero" /\ zeroLeft = 0
    /\ keys = << >> /\ keyAge = KeyAgeCap
    /\ canRx = {} /\ bus = "none" /\ canUp = TRUE
    /\ emitted = [m \in Motor |-> EmitCap] /\ lost = 0

\* A legal command line of a tool: the motors it depends on (motor_id, or all
\* four) and the class of the command or current.  The keys, and the PID of
\* test_speed_pid.c, decide for themselves.
CommandLine == {"timed"} \X {Motor} \X Command
          \union {"keyboard"} \X {Motor} \X {"move"}
          \union {"speed"} \X {{m} : m \in Motor} \X {"move"}
          \union {"single"} \X {{}} \X Command

\* A program is started.  test_single_motor.c does not wait for feedback: its
\* frame is fixed by the command line and its loop starts at once.
Launch(t, w, r) ==
    /\ pc = "off"
    /\ tool' = t /\ watched' = w /\ request' = r
    /\ pc' = IF t = "single" THEN "top" ELSE "wait"
    /\ \E junk \in Command : ctl' = chassis_init(IF t \in Chassis THEN junk ELSE "zero")
    /\ now' = 0 /\ start' = 0 /\ launched' = IF t = "keyboard" THEN RunCap ELSE 0
    /\ currents' = IF t = "single" /\ r = "move" THEN "drive" ELSE "zero"
    /\ g_running' = TRUE /\ exit' = "none" /\ zeroLeft' = 0 /\ lost' = 0
    /\ UNCHANGED <<keys, keyAge, canRx, bus, canUp, emitted>>

\* socketcan_open fails: main returns 1, and nothing is sent
LaunchNoCan(t, w, r) ==
    /\ pc = "off" /\ ~canUp
    /\ tool' = t /\ watched' = w /\ request' = r /\ exit' = "nocan" /\ lost' = 0
    /\ UNCHANGED <<pc, ctl, now, start, launched, currents, g_running, zeroLeft,
                   keys, keyAge, canRx, bus, canUp, emitted>>

(* ----------------------- waiting for the motors ------------------------ *)

\* send_zero_current begins
SendZero(how) ==
    /\ pc' = "zero" /\ exit' = how /\ zeroLeft' = ZeroRepeat /\ now' = 0

WaitFailed ==
    /\ pc = "wait" /\ start >= WaitTimeout
    /\ SendZero("fail")
    /\ UNCHANGED <<command_line, ctl, start, launched, currents, g_running, surroundings>>

\* The wait does not look at g_running.
Bad_WaitPoll ==
    /\ pc = "wait"
    /\ pc' = "wdrain" /\ now' = 0
    /\ UNCHANGED <<command_line, ctl, start, launched, currents, g_running, exit,
                   zeroLeft, surroundings>>
WaitPoll ==
    /\ pc = "wait" /\ start < WaitTimeout
    /\ pc' = "wdrain" /\ now' = 0
    /\ UNCHANGED <<command_line, ctl, start, launched, currents, g_running, exit,
                   zeroLeft, surroundings>>

Ready == IF tool \in Chassis THEN chassis_feedback_all_online(ctl, 0)
         ELSE watched \subseteq ctl.online

\* The buffer is empty.  start_ms is read when the wait has succeeded.
WaitDrained ==
    /\ pc = "wdrain" /\ canRx = {}
    /\ IF Ready
       THEN pc' = (IF tool = "keyboard" THEN "setup" ELSE "top") /\ start' = 0
       ELSE pc' = "wait" /\ UNCHANGED start
    /\ UNCHANGED <<command_line, ctl, now, launched, currents, g_running, exit,
                   zeroLeft, surroundings>>

\* setup_terminal succeeds, or one of its calls fails
SetupDone ==
    /\ pc = "setup"
    /\ pc' = "top" /\ start' = 0
    /\ UNCHANGED <<command_line, ctl, now, launched, currents, g_running, exit,
                   zeroLeft, surroundings>>
SetupFailed ==
    /\ pc = "setup"
    /\ SendZero("fail")
    /\ UNCHANGED <<command_line, ctl, start, launched, currents, g_running, surroundings>>

(* ------------------------------- the loop ------------------------------ *)

\* The deadline is tested before g_running is asked for again.
Bad_LoopTop ==
    /\ pc = "top" /\ g_running
    /\ pc' = (IF tool = "keyboard" THEN "keys" ELSE "drain") /\ now' = 0
    /\ ctl' = IF tool = "timed" THEN chassis_set_command(ctl, request, 0) ELSE ctl
    /\ UNCHANGED <<command_line, start, launched, currents, g_running, exit, zeroLeft,
                   surroundings>>
LoopTop ==
    /\ pc = "top" /\ g_running
    /\ tool # "keyboard" => start < Duration
    /\ pc' = (IF tool = "keyboard" THEN "keys" ELSE "drain") /\ now' = 0
    /\ ctl' = IF tool = "timed" THEN chassis_set_command(ctl, request, 0) ELSE ctl
    /\ UNCHANGED <<command_line, start, launched, currents, g_running, exit, zeroLeft,
                   surroundings>>

\* read_key and handle_key; 'x' leaves the inner loop with keys unread
ReadKey ==
    /\ pc = "keys" /\ keys # << >>
    /\ ctl' = CASE Head(keys) = "move" -> chassis_set_command(ctl, "move", now)
                [] Head(keys) = "stop" -> [chassis_stop(ctl) EXCEPT !.last_command = now]
                [] OTHER -> ctl
    /\ g_running' = (g_running /\ Head(keys) # "quit")
    /\ pc' = IF Head(keys) = "quit" THEN "drain" ELSE "keys"
    /\ keys' = Tail(keys)
    /\ UNCHANGED <<command_line, now, start, launched, currents, exit, zeroLeft,
                   keyAge, canRx, bus, canUp, emitted, lost>>

NoMoreKeys ==
    /\ pc = "keys" /\ keys = << >>
    /\ pc' = "drain"
    /\ UNCHANGED <<command_line, ctl, now, start, launched, currents, g_running, exit,
                   zeroLeft, surroundings>>

\* drain_feedback, one frame.  The chassis tools stamp it with a reading of its
\* own, the single-motor tools with that of the iteration.
DrainFrame(m) ==
    /\ pc \in {"wdrain", "drain"} /\ m \in canRx
    /\ ctl' = IF tool \in Chassis THEN chassis_update_feedback(ctl, m)
              ELSE [chassis_update_feedback(ctl, m) EXCEPT !.last_update[m] = now]
    /\ canRx' = canRx \ {m}
    /\ UNCHANGED <<command_line, pc, now, start, launched, currents, g_running, exit,
                   zeroLeft, keys, keyAge, bus, canUp, emitted, lost>>

\* chassis_step and the zeroing of the currents when it reports offline
StepChassis ==
    /\ pc = "drain" /\ canRx = {} /\ tool \in Chassis
    /\ \E o \in chassis_step(ctl, now) :
         /\ ctl' = o.ctl
         /\ currents' = IF o.ret THEN o.currents ELSE "zero"
    /\ pc' = "send"
    /\ UNCHANGED <<command_line, now, start, launched, g_running, exit, zeroLeft,
                   surroundings>>

SpeedLost ==
    \E m \in watched : \/ m \notin ctl.online
                        \/ elapsed_ms(now, ctl.last_update[m]) > SpeedTimeout

\* pid_calculate: any current, zero included, whatever speed is asked for
Bad_StepSpeed ==
    /\ pc = "drain" /\ canRx = {} /\ tool = "speed"
    /\ currents' \in Current
    /\ pc' = "send"
    /\ UNCHANGED <<command_line, ctl, now, start, launched, g_running, exit, zeroLeft,
                   surroundings>>
StepSpeed ==
    /\ pc = "drain" /\ canRx = {} /\ tool = "speed" /\ ~SpeedLost
    /\ currents' \in Current
    /\ pc' = "send"
    /\ UNCHANGED <<command_line, ctl, now, start, launched, g_running, exit, zeroLeft,
                   surroundings>>

\* the frame of test_single_motor.c does not depend on the feedback
StepSingle ==
    /\ pc = "drain" /\ canRx = {} /\ tool = "single"
    /\ pc' = "send"
    /\ UNCHANGED <<command_line, ctl, now, start, launched, currents, g_running, exit,
                   zeroLeft, surroundings>>

SendOk ==
    /\ pc = "send" /\ canUp
    /\ bus' = currents /\ pc' = "top"
    /\ UNCHANGED <<command_line, ctl, now, start, launched, currents, g_running, exit,
                   zeroLeft, keys, keyAge, canRx, canUp, emitted, lost>>

(* --------------------- leaving, and zero current ----------------------- *)

Deadline == tool # "keyboard" /\ start >= Duration

\* The loop ends because of a signal or the 'x' key, at the deadline, when the
\* feedback of the one motor is lost, or when a frame cannot be sent.
LeaveLoop ==
    /\ \/ pc = "top" /\ (~g_running \/ Deadline)
       \/ pc = "drain" /\ canRx = {} /\ tool = "speed" /\ SpeedLost
       \/ pc = "send" /\ ~canUp
    /\ ctl' = IF tool = "timed" THEN chassis_stop(ctl) ELSE ctl
    /\ SendZero("ok")
    /\ UNCHANGED <<command_line, start, launched, currents, g_running, surroundings>>

\* one frame of send_zero_current; a failed send is ignored
Bad_ZeroFrame ==
    /\ pc = "zero" /\ zeroLeft > 0
    /\ zeroLeft' = (IF canUp THEN zeroLeft - 1 ELSE 0) /\ now' = 0
    /\ bus' = IF canUp THEN "zero" ELSE bus
    /\ lost' = IF canUp THEN lost ELSE lost + 1
    /\ UNCHANGED <<command_line, pc, ctl, start, launched, currents, g_running, exit,
                   keys, keyAge, canRx, canUp, emitted>>
ZeroFrame ==
    /\ pc = "zero" /\ zeroLeft > 0
    /\ zeroLeft' = zeroLeft - 1 /\ now' = 0
    /\ bus' = IF canUp THEN "zero" ELSE bus
    /\ lost' = IF canUp THEN lost ELSE lost + 1
    /\ UNCHANGED <<command_line, pc, ctl, start, launched, currents, g_running, exit,
                   keys, keyAge, canRx, canUp, emitted>>

\* The process is gone; a drive frame it leaves behind is orphaned.
Gone ==
    /\ pc' = "off"
    /\ ctl' = NoController /\ now' = 0 /\ start' = StartCap /\ launched' = RunCap
    /\ currents' = "zero" /\ zeroLeft' = 0 /\ g_running' = TRUE
    /\ keys' = << >> /\ keyAge' = KeyAgeCap /\ canRx' = {}
    /\ emitted' = [m \in Motor |-> EmitCap]
    /\ bus' = IF bus = "drive" THEN "orphan" ELSE bus
    /\ UNCHANGED <<command_line, canUp, lost>>

ZeroDone ==
    /\ pc = "zero" /\ zeroLeft = 0
    /\ Gone
    /\ UNCHANGED exit

(* --------------------------- surroundings ------------------------------ *)

\* SIGINT or SIGTERM: handle_signal
Signal ==
    /\ pc # "off" /\ g_running
    /\ g_running' = FALSE
    /\ UNCHANGED <<command_line, pc, ctl, now, start, launched, currents, exit, zeroLeft,
                   surroundings>>

\* SIGKILL: subprocess.run of autotune_speed_pid.py after its timeout, or anybody
Kill ==
    /\ pc # "off"
    /\ exit' = "killed"
    /\ Gone

\* The operator presses a key, also while the program is still waiting: what is
\* typed then is in the terminal's buffer when the loop begins.
Press(k) ==
    /\ tool = "keyboard" /\ pc \notin {"off", "zero"} /\ Len(keys) < KeyCap
    /\ keys' = Append(keys, k)
    /\ keyAge' = IF k = "move" THEN 0 ELSE keyAge
    /\ UNCHANGED <<command_line, process, canRx, bus, canUp, emitted, lost>>

\* A motor puts a feedback frame on the bus: at most one per tick is told apart,
\* and none once the shutdown has begun.
Emit(m) ==
    /\ pc \notin {"off", "zero"} /\ canUp /\ emitted[m] > 0
    /\ emitted' = [emitted EXCEPT ![m] = 0]
    /\ canRx' = canRx \union {m}
    /\ UNCHANGED <<command_line, process, keys, keyAge, bus, canUp, lost>>

CanToggle ==
    /\ canUp' = ~canUp
    /\ UNCHANGED <<command_line, process, keys, keyAge, canRx, bus, emitted, lost>>

\* A tick passes; a running process is never late by more than MaxLoop.
Tick ==
    /\ pc # "off" /\ now < MaxLoop
    /\ now' = now + 1
    /\ start' = Older(start, StartCap) /\ launched' = Older(launched, RunCap)
    /\ keyAge' = Older(keyAge, KeyAgeCap)
    /\ emitted' = [m \in Motor |-> Older(emitted[m], EmitCap)]
    /\ ctl' = Aged(ctl)
    /\ UNCHANGED <<command_line, pc, currents, g_running, exit, zeroLeft,
                   keys, canRx, bus, canUp, lost>>
-----------------------------------------------------------------------------
Next ==
    \/ \E c \in CommandLine : Launch(c[1], c[2], c[3]) \/ LaunchNoCan(c[1], c[2], c[3])
    \/ WaitFailed \/ WaitPoll \/ WaitDrained \/ SetupDone \/ SetupFailed
    \/ LoopTop \/ ReadKey \/ NoMoreKeys
    \/ StepChassis \/ StepSpeed \/ StepSingle \/ SendOk \/ LeaveLoop
    \/ ZeroFrame \/ ZeroDone
    \/ \E m \in Motor : DrainFrame(m) \/ Emit(m)
    \/ \E k \in Key : Press(k)
    \/ Signal \/ Kill \/ CanToggle \/ Tick

Spec == Init /\ [][Next]_vars
-----------------------------------------------------------------------------
\* The process is in charge of the bus: in its loop, or about to make its first
\* attempt at a zero frame after it.
InCharge == pc \in Looping \/ (pc = "zero" /\ exit = "ok" /\ zeroLeft = ZeroRepeat)

\* docs/chassis_velocity.md: "It sends zero current when the duration ends", and
\* docs/chassis_keyboard_test.md: "If no command key arrives for about 300 ms, the
\* command automatically returns to zero."  A drive frame stays on the bus at most
\* two iterations past the duration; with the keyboard tool, past its first
\* moments (a key typed during the wait), four iterations past the timeout.
BenchDriveEnds ==
    InCharge /\ bus = "drive" =>
        IF tool = "keyboard" THEN start > KeyBound => keyAge <= KeyBound
        ELSE start <= DurationBound

\* docs/chassis_velocity.md: "If any motor feedback times out, the current command
\* is forced to zero"; test_speed_pid.c stops.  A drive frame stays on the bus only
\* if the motors that matter reported at most the timeout and five iterations ago.
BenchMotorLoss ==
    InCharge /\ bus = "drive" => \A m \in watched : emitted[m] <= LossBound

\* docs/chassis_command_test.md: "The program sends zero current when it exits."
\* A drive frame, of this process or orphaned by a killed one, is on the bus after
\* an exit only if every frame of send_zero_current failed.
BenchLeavesZero ==
    exit \in {"ok", "fail"} /\ bus \in {"drive", "orphan"} =>
        lost = IF pc = "zero" THEN ZeroRepeat - zeroLeft ELSE ZeroRepeat

\* autotune_speed_pid.py kills test_speed_pid after duration_ms and a margin, and
\* says "Each trial will stop by sending zero current through test_speed_pid".
\* Every tool but the keyboard is gone within the wait, the duration and the zero
\* frames, whatever happens on the bus, with and without signals.
RunEndsInTime == pc # "off" /\ tool # "keyboard" => launched <= RunBound
=============================================================================

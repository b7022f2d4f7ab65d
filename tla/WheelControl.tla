---------------------------- MODULE WheelControl ----------------------------
(***************************************************************************)
(* The arithmetic of a control step: the wheel targets of a command        *)
(* (src/src/chassis_control.c) and the speed PID of one wheel              *)
(* (src/src/pid.c).  The four PIDs do not interact, so one of them, of any *)
(* wheel, stands for all.                                                  *)
(*                                                                         *)
(* Numbers.  A float is an integer in a fixed unit, or NaN: sscanf reads   *)
(* "nan" as a velocity.  Every operation on NaN gives NaN and every        *)
(* comparison with it is false.  Speeds are in rpm, times in ms, and the   *)
(* gains are per rpm and per rpm ms.  A quotient is rounded down here; the *)
(* checked instance is one where the targets are exact.                    *)
(*                                                                         *)
(* Fields of PIDController that are written and never read (target,        *)
(* actual, prev_error, derivative) are left out.                           *)
(***************************************************************************)
EXTENDS Motor3508

CONSTANTS
    NaN,
    Value,      \* the components that commands carry
    Speed,      \* the wheel speeds that the motor reports
    Dt,         \* the times between two steps
    Unit,       \* 1.0f in the unit of the components
    Translate,  \* config.max_translate_rpm, per unit
    Rotate,     \* config.max_rotate_rpm, per unit
    Kp, Ki, Kd,
    OutMax,     \* CHASSIS_PID_OUTPUT_LIMIT
    IntMax,     \* CHASSIS_PID_INTEGRAL_LIMIT
    Extreme     \* 16 bit values for the frames: the other motors' currents, and
                \* what a motor reports

ASSUME WheelAssumption ==
    /\ NaN \notin Int
    /\ Value \subseteq Int \union {NaN}
    /\ Speed \subseteq Int
    /\ Dt \subseteq Nat
    /\ Unit \in Nat \ {0} /\ Translate \in Nat \ {0} /\ Rotate \in Nat
    /\ Kp \in Int /\ Ki \in Int /\ Kd \in Int
    /\ OutMax \in Nat \ {0} /\ IntMax \in Nat
    /\ OutMax <= 32767 /\ Extreme \subseteq I16

Number == Int \union {NaN}

Plus(a, b)  == IF a = NaN \/ b = NaN THEN NaN ELSE a + b
Minus(a, b) == IF a = NaN \/ b = NaN THEN NaN ELSE a - b
Times(a, b) == IF a = NaN \/ b = NaN THEN NaN ELSE a * b
Over(a, n)  == IF a = NaN THEN NaN ELSE a \div n
Greater(a, b) == a # NaN /\ b # NaN /\ a > b

abs_float(v) == IF v = NaN \/ v >= 0 THEN v ELSE -v

Bad_clamp(v, limit) == IF Greater(v, limit) THEN limit ELSE v
clamp_float(v, limit) ==
    IF Greater(v, limit) THEN limit ELSE IF Greater(-limit, v) THEN -limit ELSE v

Wheel == 1 .. 4
Component == (-Unit .. Unit) \union {NaN}
Command == [forward : Component, strafe : Component, rotate : Component]
Zero == [forward |-> 0, strafe |-> 0, rotate |-> 0]

command_is_zero(c) == c = Zero

VARIABLES
    command,     \* controller.command
    wheel,       \* the wheel whose PID this is
    error, last_error, integral, output

pid  == <<error, last_error, integral, output>>
vars == <<command, wheel, pid>>

Init ==
    /\ command = Zero /\ wheel \in Wheel
    /\ error = 0 /\ last_error = 0 /\ integral = 0 /\ output = 0
-----------------------------------------------------------------------------
(* ---------------------- update_targets_from_command -------------------- *)

\* the three components in rpm; forward is negated
Parts(c) ==
    [forward |-> Times(-1, Times(clamp_float(c.forward, Unit), Translate)),
     strafe  |-> Times(clamp_float(c.strafe, Unit), Translate),
     rotate  |-> Times(clamp_float(c.rotate, Unit), Rotate)]

Mixed(p) ==
    [i \in Wheel |->
        CASE i = 1 -> Minus(Times(-1, Plus(p.forward, p.strafe)), p.rotate)
          [] i = 2 -> Minus(Times(-1, Minus(p.forward, p.strafe)), p.rotate)
          [] i = 3 -> Minus(Minus(p.forward, p.strafe), p.rotate)
          [] i = 4 -> Minus(Plus(p.forward, p.strafe), p.rotate)]

\* Components are in units, so the limit is Unit * Translate.
Limit == Unit * Translate

\* The largest magnitude, searched from wheel 1 on.
Larger(peak, v) == IF Greater(v, peak) THEN v ELSE peak
Peak(t) ==
    Larger(Larger(Larger(abs_float(t[1]), abs_float(t[2])), abs_float(t[3])),
           abs_float(t[4]))

Bad_normalize(t) == [i \in Wheel |-> clamp_float(t[i], Limit)]
Bad_unscaled(t) == t
normalize_wheel_targets(t) ==
    IF Greater(Peak(t), Limit)
    THEN [i \in Wheel |-> Over(Times(t[i], Limit), Peak(t))] ELSE t

targets(c) == normalize_wheel_targets(Mixed(Parts(c)))

(* ----------------------------- pid_calculate --------------------------- *)

\* When the new integral is kept.
Bad_always(out, e) == TRUE
Bad_inside(out, e) == Greater(OutMax, out) /\ Greater(out, -OutMax)
Keeps(out, e) ==
    \/ Greater(OutMax, out) /\ Greater(out, -OutMax)
    \/ out = OutMax /\ Greater(0, e)
    \/ out = -OutMax /\ Greater(e, 0)

pid_calculate(target, actual, dt_s) ==
    LET dt      == IF dt_s <= 0 THEN 1 ELSE dt_s
        e       == Minus(target, actual)
        derived == Over(Minus(e, error), dt)
        summed  == clamp_float(Plus(integral, Times(e, dt)), IntMax)
        out     == clamp_float(Plus(Plus(Times(Kp, e), Times(Ki, summed)),
                                    Times(Kd, derived)), OutMax)
    IN  /\ error' = e /\ last_error' = error /\ output' = out
        /\ integral' = IF Keeps(out, e) THEN summed ELSE integral

pid_reset == error' = 0 /\ last_error' = 0 /\ integral' = 0 /\ output' = 0
-----------------------------------------------------------------------------
SetCommand(f, s, r) ==
    /\ command' = [forward |-> clamp_float(f, Unit), strafe |-> clamp_float(s, Unit),
                   rotate |-> clamp_float(r, Unit)]
    /\ UNCHANGED <<wheel, pid>>

\* reset_motion_state: the command expired, is zero, or chassis_stop was called
Stop ==
    /\ command' = Zero
    /\ pid_reset
    /\ UNCHANGED wheel

\* chassis_step when a motor's feedback is missing
Hold ==
    /\ ~command_is_zero(command)
    /\ pid_reset
    /\ UNCHANGED <<command, wheel>>

\* chassis_step with all motors online
Drive(actual, dt_s) ==
    /\ ~command_is_zero(command)
    /\ pid_calculate(targets(command)[wheel], actual, dt_s)
    /\ UNCHANGED <<command, wheel>>

Next ==
    \/ \E f, s, r \in Value : SetCommand(f, s, r)
    \/ Stop \/ Hold
    \/ \E actual \in Speed, dt_s \in Dt : Drive(actual, dt_s)

Spec == Init /\ [][Next]_vars
-----------------------------------------------------------------------------
TypeOK ==
    /\ command \in Command /\ wheel \in Wheel
    /\ error \in Number /\ last_error \in Number
    /\ integral \in Number /\ output \in Number

\* normalize_wheel_targets: whatever motions a command mixes, no wheel is asked for
\* more than max_translate_rpm.
WheelLimit ==
    LET t == targets(command)
    IN  \A i \in Wheel : t[i] # NaN => t[i] \in -Limit .. Limit

\* The scaling slows the chassis down and does not bend its path: the motion that
\* the four targets add up to has the direction of the command in all three axes.
PathKept ==
    NaN \notin {command.forward, command.strafe, command.rotate} =>
      LET t     == targets(command)
          p     == Parts(command)
          surge == t[3] + t[4] - t[1] - t[2]
          sway  == t[2] + t[4] - t[1] - t[3]
          yaw   == -(t[1] + t[2] + t[3] + t[4])
      IN  /\ surge * p.strafe = sway * p.forward
          /\ sway * p.rotate = yaw * p.strafe
          /\ surge * p.rotate = yaw * p.forward
          /\ surge * p.forward + sway * p.strafe + yaw * p.rotate >= 0
          /\ <<surge, sway, yaw>> = <<0, 0, 0>> => command_is_zero(command)

\* The integral stays within its limits, and a NaN command never gets into it: it is
\* the only state of the PID that lasts.
IntegralSound == integral \in -IntMax .. IntMax

\* The output fits the int16_t it is converted to, and is NaN for at most one step
\* after the command is a number again (the derivative carries it over).
OutputSound ==
    IF output = NaN THEN NaN \in {error, last_error}
    ELSE output \in -OutMax .. OutMax

\* While the output is at a limit the integral is not driven further that way.
NoWindup ==
    [][/\ output' = OutMax => integral' <= integral
       /\ output' = -OutMax => integral' >= integral]_pid

\* The integral is not frozen by the limit either: while the derivative holds the
\* output at the limit, an error the other way still moves the integral.
Unwinds ==
    [][/\ output' = OutMax /\ Greater(0, error') /\ integral > -IntMax
            => integral' < integral
       /\ output' = -OutMax /\ Greater(error', 0) /\ integral < IntMax
            => integral' > integral]_pid

\* motor3508_pack_current_array: the motor of this wheel reads the PID's output, sign
\* and all, out of the 0x200 frame, and every other motor its own current.  (The
\* int16_t that lrintf gives for NaN is left open.)
OutputReachesMotor ==
    output # NaN =>
        \A other \in Extreme :
            LET currents == [i \in MotorId |-> IF i = wheel THEN output ELSE other]
                data     == motor3508_pack_current_array(currents)
            IN  \A m \in MotorId : MotorReads(data[2 * m - 1], data[2 * m]) = currents[m]

\* motor3508_parse_feedback behind socketcan_receive: a report of this wheel's motor
\* is what the PID gets as its speed, and no other feedback changes; the frames of
\* the bus's other senders, and short ones, change nothing.
FeedbackIsTheMotors ==
    /\ \A speed, current \in Extreme :
         LET after == Drained(NoFeedbacks, MotorFrame(wheel, speed, current))
         IN  /\ after = [NoFeedbacks EXCEPT ![wheel] = after[wheel]]
             /\ after[wheel].id = wheel
             /\ after[wheel].speed_rpm = speed /\ after[wheel].current = current
    /\ Drained(NoFeedbacks, [MotorFrame(wheel, 0, 0) EXCEPT !.dlc = 7]) = NoFeedbacks
    /\ \A id \in {0, 512, 517, 2047} :
         Drained(NoFeedbacks, [MotorFrame(wheel, 0, 0) EXCEPT !.can_id = id]) = NoFeedbacks

\* docs/chassis_daemon.md: "Each value is clamped to the range `-1.0` to `1.0`."
Clamped ==
    {command.forward, command.strafe, command.rotate} \subseteq -Unit .. Unit
=============================================================================

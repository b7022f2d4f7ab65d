--------------------------- MODULE ChassisControl ---------------------------
(***************************************************************************)
(* The chassis controller of src/src/chassis_control.c as operators on a   *)
(* controller record: one operator per function of chassis_control.h.      *)
(*                                                                         *)
(* Time.  The code keeps time stamps and compares them with a clock        *)
(* reading `now`.  Only distances from the present matter, so a stamp is   *)
(* kept as its AGE in ticks, and so is the reading `now` itself (the code  *)
(* goes on using a reading after the clock has moved).  An age grows by    *)
(* one when a tick passes and saturates once it is past every comparison   *)
(* that the code makes with it.                                            *)
(*                                                                         *)
(* Data.  A command is "zero" (all three components below 0.0001) or       *)
(* "move" (any other triple; a NaN component is in this class, because     *)
(* command_is_zero is false for it).  The four PID states and targets are  *)
(* always written together, so each is one value: pid is "clean" after     *)
(* pid_reset and "used" after pid_calculate, target is the class of the    *)
(* command it was computed from.  A set of currents is "zero" or "drive"   *)
(* (some motor gets a non-zero current).                                   *)
(*                                                                         *)
(* A definition named Bad_... is a plausible slip in the definition that   *)
(* follows it; the specification does not use it, it only shows that the   *)
(* checked properties notice the slip.                                     *)
(***************************************************************************)
EXTENDS Integers

CONSTANTS
    Motor,            \* the motors (CHASSIS_MOTOR_COUNT = 4 of them)
    CommandTimeout,   \* config.command_timeout_ms, in ticks
    FeedbackTimeout,  \* config.feedback_timeout_ms, in ticks
    MaxLoop           \* bound: how old the reading `now` may be when it is used

ASSUME ControlAssumption ==
    /\ CommandTimeout \in Nat
    /\ FeedbackTimeout \in Nat
    /\ MaxLoop \in Nat \ {0}

\* Ages from which on a command, or a feedback, has expired for every `now`.
CommandCap  == CommandTimeout + MaxLoop + 1
FeedbackCap == FeedbackTimeout + MaxLoop + 1

\* A tick passes for an age that is told apart up to `cap`.
Older(a, cap) == IF a < cap THEN a + 1 ELSE a

Command == {"zero", "move"}
Current == {"zero", "drive"}

\* struct ChassisController
Controller == [command      : Command,
               last_command : 0 .. CommandCap,
               online       : SUBSET Motor,
               last_update  : [Motor -> 0 .. FeedbackCap],
               target       : Command,
               pid          : {"clean", "used"}]

\* The difference of two stamps, 0 when `previous` was stamped after `now` was
\* read: both arguments are ages, so a larger age is an earlier time.
Bad_elapsed(now, previous) ==
    IF previous >= now THEN previous - now ELSE FeedbackTimeout + 1
elapsed_ms(now, previous) == IF previous >= now THEN previous - now ELSE 0

command_is_zero(command) == command = "zero"

Bad_reset(c) == [c EXCEPT !.command = "zero", !.target = "zero"]
reset_motion_state(c) ==
    [c EXCEPT !.command = "zero", !.target = "zero", !.pid = "clean"]

\* `junk` is the command found in the uninitialised controller.  The stamp
\* last_update_ms is not initialised either, but it is not read before the motor
\* is online; it is given the oldest age here.
Bad_init(junk) ==
    [command |-> junk, last_command |-> 0, online |-> {},
     last_update |-> [m \in Motor |-> FeedbackCap], target |-> "zero", pid |-> "clean"]
chassis_init(junk) ==
    [command |-> "zero", last_command |-> 0, online |-> {},
     last_update |-> [m \in Motor |-> FeedbackCap], target |-> "zero", pid |-> "clean"]

\* The controller of a program that does not run: everything long ago.
NoController == [command |-> "zero", last_command |-> CommandCap, online |-> {},
                 last_update |-> [m \in Motor |-> FeedbackCap],
                 target |-> "zero", pid |-> "clean"]

chassis_set_command(c, command, now) ==
    [c EXCEPT !.command = command, !.last_command = now]

chassis_stop(c) == [reset_motion_state(c) EXCEPT !.last_command = 0]

\* feedback is parsed and stamped by the caller with a fresh clock reading
chassis_update_feedback(c, m) ==
    [c EXCEPT !.online = @ \union {m}, !.last_update[m] = 0]

Bad_all_online(c, now) == c.online = Motor
chassis_feedback_all_online(c, now) ==
    \A m \in Motor : /\ m \in c.online
                     /\ elapsed_ms(now, c.last_update[m]) <= FeedbackTimeout

\* A tick passes for the controller's stamps.
Aged(c) ==
    [c EXCEPT !.last_command = Older(@, CommandCap),
              !.last_update = [m \in Motor |-> Older(@[m], FeedbackCap)]]

\* The command timeout at the head of chassis_step.
Bad_expire(c, now) == c
ExpireCommand(c, now) ==
    IF elapsed_ms(now, c.last_command) > CommandTimeout
    THEN reset_motion_state(c) ELSE c

\* The branch for missing feedback keeps the command: the chassis resumes by
\* itself if feedback returns before the command expires.
HoldForFeedback(c) == [c EXCEPT !.target = "zero", !.pid = "clean"]

\* The possible outcomes of chassis_step: the controller after it, the currents
\* and the returned online flag.  The PID may compute zero currents too.
chassis_step(c, now) ==
    LET d      == ExpireCommand(c, now)
        online == chassis_feedback_all_online(d, now)
    IN  IF command_is_zero(d.command)
        THEN {[ctl |-> reset_motion_state(d), currents |-> "zero", ret |-> online]}
        ELSE IF ~online
        THEN {[ctl |-> HoldForFeedback(d), currents |-> "zero", ret |-> FALSE]}
        ELSE {[ctl      |-> [d EXCEPT !.target = d.command, !.pid = "used"],
               currents |-> i,
               ret      |-> TRUE] : i \in Current}
=============================================================================

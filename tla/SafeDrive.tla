------------------------------ MODULE SafeDrive ------------------------------
(***************************************************************************)
(* What the chassis controller promises to the chassis, with none of its   *)
(* machinery: the motors are driven only on a recent command and only      *)
(* while every motor has recently reported, and time does not run past     *)
(* either limit while they are driven.                                     *)
(***************************************************************************)
EXTENDS Integers

CONSTANTS
    Motor,
    CommandLimit,   \* the longest a command may be acted on after its arrival
    FeedbackLimit   \* the longest a motor may be driven after its last report

VARIABLES
    drive,      \* the controller drives the motors
    command,    \* age of the last command to move
    feedback    \* age of each motor's last report

vars == <<drive, command, feedback>>

CommandAge  == 0 .. CommandLimit + 1
FeedbackAge == 0 .. FeedbackLimit + 1

Permitted == command <= CommandLimit /\ \A m \in Motor : feedback[m] <= FeedbackLimit

Init ==
    /\ drive = FALSE
    /\ command = CommandLimit + 1
    /\ feedback = [m \in Motor |-> FeedbackLimit + 1]

CommandArrives == command' = 0 /\ UNCHANGED <<drive, feedback>>

Report(m) ==
    /\ feedback' = [feedback EXCEPT ![m] = 0]
    /\ UNCHANGED <<drive, command>>

Engage == Permitted /\ drive' = TRUE /\ UNCHANGED <<command, feedback>>

Release == drive' = FALSE /\ UNCHANGED <<command, feedback>>

\* A new controller has heard nothing yet.
Replace ==
    /\ drive' = FALSE
    /\ command' = CommandLimit + 1
    /\ feedback' = [m \in Motor |-> FeedbackLimit + 1]

Tick ==
    /\ command' = IF command <= CommandLimit THEN command + 1 ELSE command
    /\ feedback' = [m \in Motor |-> IF feedback[m] <= FeedbackLimit
                                    THEN feedback[m] + 1 ELSE feedback[m]]
    /\ drive => Permitted'
    /\ drive' = drive

Next ==
    \/ CommandArrives \/ Engage \/ Release \/ Replace \/ Tick
    \/ \E m \in Motor : Report(m)

Spec == Init /\ [][Next]_vars
=============================================================================

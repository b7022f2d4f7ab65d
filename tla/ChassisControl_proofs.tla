------------------------ MODULE ChassisControl_proofs ------------------------
(***************************************************************************)
(* What the operators of ChassisControl return: the facts that the proofs  *)
(* about the daemon and about the bench tools rest on.                     *)
(***************************************************************************)
EXTENDS ChassisControl, TLAPS

\* A tick: an age grows by one until it reaches its cap, and keeps its order.
LEMMA OlderFacts ==
    ASSUME NEW cap \in Nat, NEW a \in 0 .. cap
    PROVE  /\ Older(a, cap) \in 0 .. cap /\ Older(a, cap) <= a + 1
           /\ a # cap => Older(a, cap) = a + 1
           /\ a = cap => Older(a, cap) = cap
           /\ \A b \in 0 .. cap : a <= b => Older(a, cap) <= Older(b, cap)
  BY DEF Older

\* The operators of ChassisControl map controllers to controllers.
LEMMA ControllerTyping ==
    ASSUME NEW c \in Controller, NEW k \in 0 .. MaxLoop
    PROVE  /\ reset_motion_state(c) \in Controller
           /\ chassis_stop(c) \in Controller
           /\ HoldForFeedback(c) \in Controller
           /\ ExpireCommand(c, k) \in Controller
           /\ Aged(c) \in Controller
           /\ \A d \in Command : chassis_set_command(c, d, k) \in Controller
           /\ \A m \in Motor : chassis_update_feedback(c, m) \in Controller
  <1>1. reset_motion_state(c) \in Controller
    BY DEF reset_motion_state, Controller, Command
  <1>2. chassis_stop(c) \in Controller
    <2>1. 0 \in 0 .. CommandCap
      BY ControlAssumption DEF CommandCap
    <2> QED
      BY <1>1, <2>1 DEF chassis_stop, Controller
  <1>3. HoldForFeedback(c) \in Controller
    BY DEF HoldForFeedback, Controller, Command
  <1>4. ExpireCommand(c, k) \in Controller
    BY <1>1 DEF ExpireCommand
  <1>5. Aged(c) \in Controller
    <2>1. Older(c.last_command, CommandCap) \in 0 .. CommandCap
      BY ControlAssumption DEF CommandCap, Older, Controller
    <2>2. [m \in Motor |-> Older(c.last_update[m], FeedbackCap)]
            \in [Motor -> 0 .. FeedbackCap]
      BY ControlAssumption DEF FeedbackCap, Older, Controller
    <2> QED
      BY <2>1, <2>2 DEF Aged, Controller
  <1>6. ASSUME NEW d \in Command
        PROVE  chassis_set_command(c, d, k) \in Controller
    <2>1. k \in 0 .. CommandCap
      BY ControlAssumption DEF CommandCap
    <2> QED
      BY <2>1 DEF chassis_set_command, Controller
  <1>7. ASSUME NEW m \in Motor
        PROVE  chassis_update_feedback(c, m) \in Controller
    <2>1. 0 \in 0 .. FeedbackCap
      BY ControlAssumption DEF FeedbackCap
    <2>2. [c.last_update EXCEPT ![m] = 0] \in [Motor -> 0 .. FeedbackCap]
      BY <2>1 DEF Controller
    <2>3. c.online \union {m} \in SUBSET Motor
      BY DEF Controller
    <2> QED
      BY <2>2, <2>3 DEF chassis_update_feedback, Controller
  <1> QED
    BY <1>1, <1>2, <1>3, <1>4, <1>5, <1>6, <1>7

LEMMA InitialController ==
    /\ NoController \in Controller
    /\ \A junk \in Command : chassis_init(junk) \in Controller
  BY ControlAssumption
     DEF NoController, chassis_init, Controller, Command, CommandCap, FeedbackCap

\* Every outcome of chassis_step is a controller, currents and a flag.
LEMMA StepTyping ==
    ASSUME NEW c \in Controller, NEW k \in 0 .. MaxLoop, NEW o \in chassis_step(c, k)
    PROVE  o.ctl \in Controller /\ o.currents \in Current /\ o.ret \in BOOLEAN
  <1> DEFINE d == ExpireCommand(c, k)
             online == chassis_feedback_all_online(d, k)
  <1>1. d \in Controller /\ reset_motion_state(d) \in Controller /\ HoldForFeedback(d) \in Controller
    BY ControllerTyping
  <1>2. [d EXCEPT !.target = d.command, !.pid = "used"] \in Controller
    BY <1>1 DEF Controller
  <1>3. online \in BOOLEAN
    BY DEF chassis_feedback_all_online
  <1>4. \/ o = [ctl |-> reset_motion_state(d), currents |-> "zero", ret |-> online]
        \/ o = [ctl |-> HoldForFeedback(d), currents |-> "zero", ret |-> FALSE]
        \/ \E i \in Current :
             o = [ctl |-> [d EXCEPT !.target = d.command, !.pid = "used"],
                  currents |-> i, ret |-> TRUE]
    BY DEF chassis_step
  <1> HIDE DEF d, online
  <1>5. CASE o = [ctl |-> reset_motion_state(d), currents |-> "zero", ret |-> online]
    BY <1>1, <1>3, <1>5 DEF Current
  <1>6. CASE o = [ctl |-> HoldForFeedback(d), currents |-> "zero", ret |-> FALSE]
    BY <1>1, <1>6 DEF Current
  <1>7. ASSUME NEW i \in Current,
               o = [ctl |-> [d EXCEPT !.target = d.command, !.pid = "used"],
                    currents |-> i, ret |-> TRUE]
        PROVE  o.ctl \in Controller /\ o.currents \in Current /\ o.ret \in BOOLEAN
    BY <1>2, <1>7
  <1> QED
    BY <1>4, <1>5, <1>6, <1>7

\* What chassis_step may do: it never touches the stamps, it drives only on a
\* command and on feedback that are fresh at the reading `k`, and it leaves state
\* in the PID only when it drives.
LEMMA StepFacts ==
    ASSUME NEW c \in Controller, NEW k \in 0 .. MaxLoop, k <= c.last_command,
           NEW o \in chassis_step(c, k)
    PROVE  /\ o.ctl.last_command = c.last_command
           /\ o.ctl.online = c.online /\ o.ctl.last_update = c.last_update
           /\ o.ctl.command = "move" => c.command = "move"
           /\ o.ret = chassis_feedback_all_online(c, k)
           /\ o.currents = "drive" \/ o.ctl.pid = "used" =>
                /\ o.ctl.command = "move" /\ o.ctl.target = "move" /\ o.ret
                /\ c.last_command <= k + CommandTimeout
  <1> DEFINE d == ExpireCommand(c, k)
             online == chassis_feedback_all_online(d, k)
  <1>1. d \in Controller
    BY ControllerTyping
  <1>2. /\ d.last_command = c.last_command
        /\ d.online = c.online /\ d.last_update = c.last_update
        /\ d.command = "move" => c.command = "move" /\ c.last_command <= k + CommandTimeout
    BY ControlAssumption DEF ExpireCommand, reset_motion_state, elapsed_ms, Controller, Command, CommandCap
  <1>3. online = chassis_feedback_all_online(c, k)
    BY <1>2 DEF chassis_feedback_all_online
  <1>4. CASE d.command = "zero"
    <2>1. o = [ctl |-> reset_motion_state(d), currents |-> "zero", ret |-> online]
      BY <1>4 DEF chassis_step, command_is_zero
    <2> HIDE DEF d, online
    <2> QED
      BY <1>1, <1>2, <1>3, <2>1 DEF reset_motion_state, Controller
  <1>5. CASE d.command # "zero" /\ ~online
    <2>1. o = [ctl |-> HoldForFeedback(d), currents |-> "zero", ret |-> FALSE]
      BY <1>5 DEF chassis_step, command_is_zero
    <2> HIDE DEF d
    <2>2. o.ctl = HoldForFeedback(d) /\ o.currents = "zero" /\ o.ret = FALSE
      BY <2>1
    <2>3. o.ret = online
      BY <1>5, <2>2 DEF chassis_feedback_all_online
    <2> HIDE DEF online
    <2> QED
      BY <1>1, <1>2, <1>3, <2>2, <2>3 DEF HoldForFeedback, Controller
  <1>6. CASE d.command # "zero" /\ online
    <2>1. PICK i \in Current :
            o = [ctl |-> [d EXCEPT !.target = d.command, !.pid = "used"],
                 currents |-> i, ret |-> TRUE]
      BY <1>6 DEF chassis_step, command_is_zero
    <2>2. d.command = "move"
      BY <1>1, <1>6 DEF Controller, Command
    <2> HIDE DEF d
    <2>3. o.ctl = [d EXCEPT !.target = d.command, !.pid = "used"] /\ o.ret = TRUE
      BY <2>1
    <2>4. o.ret = online
      BY <1>6, <2>3 DEF chassis_feedback_all_online
    <2> HIDE DEF online
    <2> QED
      BY <1>1, <1>2, <1>3, <2>2, <2>3, <2>4 DEF Controller
  <1> QED
    BY <1>4, <1>5, <1>6
=============================================================================

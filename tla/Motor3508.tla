------------------------------ MODULE Motor3508 ------------------------------
(***************************************************************************)
(* The frames of the four 3508 motor controllers: src/src/motor_3508.c,    *)
(* and what src/src/socketcan.c makes of a frame.  Bytes are 0 .. 255, an  *)
(* int16_t keeps its width, and a frame has the 32 bit identifier of       *)
(* struct can_frame, flags included.                                       *)
(*                                                                         *)
(* MotorReads, MotorWrites and MotorFrame are the other end of the wire:   *)
(* big endian two's complement, as the motor controllers have it.          *)
(***************************************************************************)
EXTENDS Integers, Sequences

I16     == -(2^15) .. 2^15 - 1
MotorId == 1 .. 4
FirstFeedbackId == 513    \* 0x201
LastFeedbackId  == 516    \* 0x204

bytes_to_i16(high, low) ==
    LET u == high * 256 + low IN IF u >= 32768 THEN u - 65536 ELSE u

bytes_to_i8(b) == IF b >= 128 THEN b - 256 ELSE b

\* the two bytes of (uint16_t)value
Bad_i16_to_bytes(value) ==
    LET u == value % 65536 IN <<u % 256, u \div 256>>
i16_to_bytes(value) ==
    LET u == value % 65536 IN <<u \div 256, u % 256>>

motor3508_pack_current_array(currents) ==
    LET b == [m \in MotorId |-> i16_to_bytes(currents[m])]
    IN  <<b[1][1], b[1][2], b[2][1], b[2][2], b[3][1], b[3][2], b[4][1], b[4][2]>>

\* The identifier that socketcan_receive reports: 11 bits.  The flags of extended,
\* remote and error frames are dropped with the rest.
socketcan_id(can_id) == can_id % 2048

\* socketcan_receive copies can_dlc bytes into the caller's zeroed buffer.
socketcan_data(frame) ==
    [i \in 1 .. 8 |-> IF i <= frame.dlc THEN frame.data[i] ELSE 0]

Bad_is_feedback(can_id) == can_id >= FirstFeedbackId - 1 /\ can_id <= LastFeedbackId
is_feedback(can_id) == can_id >= FirstFeedbackId /\ can_id <= LastFeedbackId

motor3508_parse_feedback(can_id, data) ==
    [id          |-> can_id - (FirstFeedbackId - 1),
     angle       |-> bytes_to_i16(data[1], data[2]),
     speed_rpm   |-> bytes_to_i16(data[3], data[4]),
     current     |-> bytes_to_i16(data[5], data[6]),
     temperature |-> bytes_to_i8(data[7])]

\* One frame of drain_feedback, or of the loop of monitor_3508.c: a frame that is
\* short, or is not a feedback, leaves feedbacks[] alone.
Drained(feedbacks, frame) ==
    LET id == socketcan_id(frame.can_id)
        fb == motor3508_parse_feedback(id, socketcan_data(frame))
    IN  IF frame.dlc >= 8 /\ is_feedback(id)
        THEN [i \in DOMAIN feedbacks |-> IF i = fb.id THEN fb ELSE feedbacks[i]]
        ELSE feedbacks
-----------------------------------------------------------------------------
MotorReads(high, low) == IF high < 128 THEN high * 256 + low
                         ELSE (high - 256) * 256 + low
MotorWrites(v) == <<(IF v < 0 THEN v + 65536 ELSE v) \div 256, v % 256>>

\* the frame of motor m, which turns with a speed and draws a current
MotorFrame(m, speed, current) ==
    [can_id |-> 512 + m, dlc |-> 8,
     data |-> MotorWrites(0) \o MotorWrites(speed) \o MotorWrites(current) \o <<40, 0>>]

\* a zeroed Motor3508Feedback; feedbacks[] has CHASSIS_MOTOR_COUNT + 1 of them
NoFeedback  == [id |-> 0, angle |-> 0, speed_rpm |-> 0, current |-> 0, temperature |-> 0]
NoFeedbacks == [i \in 0 .. 4 |-> NoFeedback]
=============================================================================

------------------------------- MODULE MCWheel -------------------------------
(* TLC instance of WheelControl. *)
EXTENDS WheelControl

\* beyond both limits, zero, and not a number
MCValue == {-2, 0, 1, NaN}

\* With Translate = 6 and Rotate = 12 every scaled target is a whole number.
MCSpeed == {4}

\* both ends of the range, and values that need both bytes or either
MCExtreme == {-32768, -257, -1, 128, 32767}
=============================================================================

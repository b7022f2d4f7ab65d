------------------------- MODULE WheelControl_proofs -------------------------
(***************************************************************************)
(* Proofs about the wheel targets, the speed PID and the motors' frames of *)
(* WheelControl, for all gains, limits, speeds and commands, NaN included. *)
(***************************************************************************)
EXTENDS WheelControl, TLAPS

Inv == TypeOK /\ IntegralSound /\ OutputSound
-----------------------------------------------------------------------------
\* What clamp_float returns; NaN passes through.
LEMMA ClampFacts ==
    ASSUME NEW v \in Number, NEW limit \in Nat
    PROVE  /\ v = NaN => clamp_float(v, limit) = NaN
           /\ v # NaN => clamp_float(v, limit) \in -limit .. limit
           /\ v # NaN /\ v \in -limit .. limit => clamp_float(v, limit) = v
           /\ v # NaN /\ v > limit => clamp_float(v, limit) = limit
           /\ v # NaN /\ v < -limit => clamp_float(v, limit) = -limit
           /\ clamp_float(v, limit) \in Number
  BY WheelAssumption DEF clamp_float, Greater, Number

LEMMA NumberFacts ==
    ASSUME NEW a \in Number, NEW b \in Number
    PROVE  /\ Plus(a, b) \in Number /\ Minus(a, b) \in Number /\ Times(a, b) \in Number
           /\ a # NaN /\ b # NaN =>
                /\ Plus(a, b) \in Int /\ Plus(a, b) = a + b
                /\ Minus(a, b) \in Int
                /\ Times(a, b) \in Int /\ Times(a, b) = a * b
           /\ a = NaN => Plus(a, b) = NaN /\ Times(a, b) = NaN
  BY WheelAssumption DEF Plus, Minus, Times, Number

LEMMA OverFacts ==
    ASSUME NEW a \in Number, NEW n \in Nat \ {0}
    PROVE  Over(a, n) \in Number /\ (a # NaN => Over(a, n) \in Int)
  BY WheelAssumption DEF Over, Number

\* An error of either sign moves the sum to its side.
LEMMA SignFacts ==
    ASSUME NEW e \in Int, NEW dt \in Nat \ {0}
    PROVE  (e < 0 => e * dt < 0) /\ (e > 0 => e * dt > 0)
  OBVIOUS

\* Division by a positive number, rounded down.
LEMMA ScaledFacts ==
    ASSUME NEW a \in Int, NEW l \in Nat, NEW n \in Nat \ {0}, -n <= a, a <= n
    PROVE  (a * l) \div n \in -l .. l
  <1> DEFINE q == (a * l) \div n
  <1>1. q \in Int /\ n * q <= a * l /\ a * l < n * q + n
    OBVIOUS
  <1>2. a * l <= n * l /\ -(n * l) <= a * l
    OBVIOUS
  <1> HIDE DEF q
  <1>3. n * q <= n * l /\ n * (-l) < n * (q + 1)
    BY <1>1, <1>2
  <1>4. q <= l /\ -l < q + 1
    BY <1>1, <1>3
  <1> QED
    BY <1>1, <1>4 DEF q

\* The parts of a command, the mix and its peak are numbers or NaN; the peak is at
\* least every wheel's magnitude unless NaN is involved.
LEMMA MixedFacts ==
    ASSUME NEW c \in Command
    PROVE  \A i \in Wheel : /\ Mixed(Parts(c))[i] \in Number
                            /\ Mixed(Parts(c))[1] = NaN => Mixed(Parts(c))[i] = NaN
  <1>1. c.forward \in Number /\ c.strafe \in Number /\ c.rotate \in Number
    BY WheelAssumption DEF Command, Component, Number
  <1>2. Unit \in Nat /\ Translate \in Number /\ Rotate \in Number /\ -1 \in Number
    BY WheelAssumption DEF Number
  <1> DEFINE p == Parts(c)
  <1>3. p.forward \in Number /\ p.strafe \in Number /\ p.rotate \in Number
    <2>1. /\ clamp_float(c.forward, Unit) \in Number
          /\ clamp_float(c.strafe, Unit) \in Number
          /\ clamp_float(c.rotate, Unit) \in Number
      BY <1>1, <1>2, ClampFacts
    <2> QED
      BY <1>2, <2>1, NumberFacts DEF Parts
  <1> HIDE DEF p
  <1>4. /\ Minus(Times(-1, Plus(p.forward, p.strafe)), p.rotate) \in Number
        /\ Minus(Times(-1, Minus(p.forward, p.strafe)), p.rotate) \in Number
        /\ Minus(Minus(p.forward, p.strafe), p.rotate) \in Number
        /\ Minus(Plus(p.forward, p.strafe), p.rotate) \in Number
    BY <1>2, <1>3, NumberFacts
  <1>5. Minus(Times(-1, Plus(p.forward, p.strafe)), p.rotate) = NaN =>
          NaN \in {p.forward, p.strafe, p.rotate}
    BY <1>3, WheelAssumption DEF Plus, Minus, Times, Number
  <1>6. NaN \in {p.forward, p.strafe, p.rotate} =>
          /\ Minus(Times(-1, Minus(p.forward, p.strafe)), p.rotate) = NaN
          /\ Minus(Minus(p.forward, p.strafe), p.rotate) = NaN
          /\ Minus(Plus(p.forward, p.strafe), p.rotate) = NaN
    BY DEF Plus, Minus, Times
  <1> QED
    BY <1>4, <1>5, <1>6 DEF Mixed, Wheel, p

LEMMA PeakFacts ==
    ASSUME NEW t, \A i \in Wheel : t[i] \in Number
    PROVE  /\ Peak(t) \in Number
           /\ Peak(t) = NaN => t[1] = NaN
           /\ Peak(t) # NaN => \A i \in Wheel : t[i] # NaN => -Peak(t) <= t[i] /\ t[i] <= Peak(t)
  <1>1. t[1] \in Number /\ t[2] \in Number /\ t[3] \in Number /\ t[4] \in Number
    BY DEF Wheel
  <1>2. ASSUME NEW v \in Number
        PROVE  /\ abs_float(v) \in Number /\ (abs_float(v) = NaN <=> v = NaN)
               /\ v # NaN => -abs_float(v) <= v /\ v <= abs_float(v)
    BY WheelAssumption DEF abs_float, Number
  <1>3. ASSUME NEW a \in Number, NEW b \in Number
        PROVE  /\ Larger(a, b) \in Number /\ (Larger(a, b) = NaN <=> a = NaN)
               /\ a # NaN => a <= Larger(a, b) /\ (b # NaN => b <= Larger(a, b))
    BY WheelAssumption DEF Larger, Greater, Number
  <1> DEFINE a1 == abs_float(t[1])
             a2 == abs_float(t[2])
             a3 == abs_float(t[3])
             a4 == abs_float(t[4])
             l2 == Larger(a1, a2)
             l3 == Larger(l2, a3)
             l4 == Larger(l3, a4)
  <1>4. a1 \in Number /\ a2 \in Number /\ a3 \in Number /\ a4 \in Number
    BY <1>1, <1>2
  <1>5. l2 \in Number /\ l3 \in Number /\ l4 \in Number
    BY <1>3, <1>4
  <1>6. l4 # NaN => /\ a1 # NaN /\ a1 <= l4
                    /\ a2 # NaN => a2 <= l4
                    /\ a3 # NaN => a3 <= l4
                    /\ a4 # NaN => a4 <= l4
    <2>1. /\ l4 = NaN <=> l3 = NaN
          /\ l3 = NaN <=> l2 = NaN
          /\ l2 = NaN <=> a1 = NaN
      BY <1>3, <1>4, <1>5
    <2>2. l4 # NaN => /\ a1 <= l2 /\ l2 <= l3 /\ l3 <= l4
                      /\ a2 # NaN => a2 <= l2
                      /\ a3 # NaN => a3 <= l3
                      /\ a4 # NaN => a4 <= l4
      BY <1>3, <1>4, <1>5, <2>1
    <2> HIDE DEF a1, a2, a3, a4, l2, l3, l4
    <2> QED
      BY <1>4, <1>5, <2>1, <2>2, WheelAssumption DEF Number
  <1>9. l4 = NaN => t[1] = NaN
    <2>1. /\ l4 = NaN <=> l3 = NaN
          /\ l3 = NaN <=> l2 = NaN
          /\ l2 = NaN <=> a1 = NaN
      BY <1>3, <1>4, <1>5
    <2> QED
      BY <1>1, <1>2, <2>1
  <1>7. l4 = Peak(t)
    BY DEF Peak
  <1>8. ASSUME l4 # NaN, NEW i \in Wheel, t[i] # NaN
        PROVE  -l4 <= t[i] /\ t[i] <= l4
    <2>1. /\ abs_float(t[i]) \in Number /\ abs_float(t[i]) # NaN
          /\ abs_float(t[i]) <= l4
      BY <1>2, <1>4, <1>6, <1>8 DEF Wheel
    <2>2. -abs_float(t[i]) <= t[i] /\ t[i] <= abs_float(t[i])
      BY <1>2, <1>8
    <2> HIDE DEF l4
    <2> QED
      BY <1>5, <1>8, <2>1, <2>2, WheelAssumption DEF Number
  <1> HIDE DEF l4
  <1> QED
    BY <1>5, <1>7, <1>8, <1>9

\* A wheel's target is NaN or within the limit.
LEMMA TargetFacts ==
    ASSUME NEW c \in Command, NEW i \in Wheel
    PROVE  /\ targets(c)[i] \in Number
           /\ targets(c)[i] # NaN => targets(c)[i] \in -Limit .. Limit
  <1> DEFINE t == Mixed(Parts(c))
  <1>1. \A j \in Wheel : t[j] \in Number
    BY MixedFacts
  <1>2. /\ Peak(t) \in Number
        /\ Peak(t) # NaN => (t[i] # NaN => -Peak(t) <= t[i] /\ t[i] <= Peak(t))
    BY <1>1, PeakFacts
  <1>3. Limit \in Nat \ {0}
    BY WheelAssumption DEF Limit
  <1>4. targets(c) = normalize_wheel_targets(t)
    BY DEF targets
  <1>5. t[i] \in Number
    BY <1>1
  <1> HIDE DEF t
  <1>6. CASE Greater(Peak(t), Limit)
    <2>1. Peak(t) \in Nat \ {0} /\ Peak(t) # NaN
      BY <1>2, <1>3, <1>6, WheelAssumption DEF Greater, Number
    <2>2. targets(c)[i] = Over(Times(t[i], Limit), Peak(t))
      BY <1>4, <1>6 DEF normalize_wheel_targets
    <2>3. CASE t[i] = NaN
      BY <2>2, <2>3 DEF Over, Times, Number
    <2>4. CASE t[i] # NaN
      <3>1. t[i] \in Int /\ -Peak(t) <= t[i] /\ t[i] <= Peak(t)
        BY <1>2, <1>5, <2>1, <2>4 DEF Number
      <3>2. (t[i] * Limit) \div Peak(t) \in -Limit .. Limit
        BY <1>3, <2>1, <3>1, ScaledFacts
      <3>3. Limit # NaN /\ t[i] * Limit # NaN
        BY <1>3, <3>1, WheelAssumption
      <3>4. targets(c)[i] = (t[i] * Limit) \div Peak(t)
        BY <2>2, <2>4, <3>3 DEF Over, Times
      <3> QED
        BY <1>3, <3>2, <3>4 DEF Number
    <2> QED
      BY <2>3, <2>4
  <1>7. CASE ~Greater(Peak(t), Limit)
    <2>1. targets(c)[i] = t[i]
      BY <1>4, <1>7 DEF normalize_wheel_targets
    <2>2. Peak(t) = NaN => t[i] = NaN
      BY <1>1, PeakFacts, MixedFacts DEF t
    <2> QED
      BY <1>2, <1>3, <1>5, <1>7, <2>1, <2>2, WheelAssumption DEF Greater, Number
  <1> QED
    BY <1>6, <1>7
-----------------------------------------------------------------------------
\* pid_calculate: all that the invariants need to know of its result.
LEMMA CalculateFacts ==
    ASSUME TypeOK, IntegralSound, NEW target \in Number, NEW actual \in Int,
           NEW dt_s \in Nat, pid_calculate(target, actual, dt_s)
    PROVE  /\ error' \in Number /\ last_error' = error
           /\ output' \in Number
           /\ output' = NaN => NaN \in {error', error}
           /\ output' # NaN => output' \in -OutMax .. OutMax
           /\ integral' \in -IntMax .. IntMax
           /\ output' = OutMax => integral' <= integral
           /\ output' = -OutMax => integral' >= integral
           /\ output' = OutMax /\ Greater(0, error') /\ integral > -IntMax
                => integral' < integral
           /\ output' = -OutMax /\ Greater(error', 0) /\ integral < IntMax
                => integral' > integral
  <1> DEFINE dt      == IF dt_s <= 0 THEN 1 ELSE dt_s
             e       == Minus(target, actual)
             derived == Over(Minus(e, error), dt)
             summed  == clamp_float(Plus(integral, Times(e, dt)), IntMax)
             raw     == Plus(Plus(Times(Kp, e), Times(Ki, summed)), Times(Kd, derived))
             out     == clamp_float(raw, OutMax)
  <1>1. /\ error' = e /\ last_error' = error /\ output' = out
        /\ integral' = IF Keeps(out, e) THEN summed ELSE integral
    BY DEF pid_calculate
  <1>2. /\ error \in Number /\ integral \in -IntMax .. IntMax /\ integral \in Int
        /\ OutMax \in Nat \ {0} /\ IntMax \in Nat
        /\ Kp \in Int /\ Ki \in Int /\ Kd \in Int
        /\ \A x \in Int : x \in Number /\ x # NaN
    BY WheelAssumption DEF TypeOK, IntegralSound, Number
  <1>3. dt \in Nat \ {0} /\ dt \in Int
    OBVIOUS
  <1> HIDE DEF dt
  <1>4. e \in Number
    BY <1>2, NumberFacts
  <1> HIDE DEF e
  <1>5. Minus(e, error) \in Number /\ (e # NaN /\ error # NaN => Minus(e, error) # NaN)
    BY <1>2, <1>4, NumberFacts
  <1>6. derived \in Number /\ (e # NaN /\ error # NaN => derived # NaN)
    BY <1>2, <1>3, <1>5, OverFacts
  <1> HIDE DEF derived
  <1>7. /\ Times(e, dt) \in Number
        /\ e = NaN => Plus(integral, Times(e, dt)) = NaN
        /\ e # NaN => /\ e \in Int
                      /\ Times(e, dt) = e * dt
                      /\ Plus(integral, Times(e, dt)) = integral + e * dt
        /\ Plus(integral, Times(e, dt)) \in Number
    BY <1>2, <1>3, <1>4, NumberFacts DEF Plus, Number
  <1>8. /\ summed \in Number
        /\ summed = NaN <=> e = NaN
        /\ e # NaN => summed \in -IntMax .. IntMax
        /\ e # NaN /\ Greater(0, e) /\ integral > -IntMax => summed < integral
        /\ e # NaN /\ Greater(e, 0) /\ integral < IntMax => summed > integral
        /\ e # NaN /\ Greater(0, e) => summed <= integral
        /\ e # NaN /\ Greater(e, 0) => summed >= integral
    <2>1. CASE e = NaN
      BY <1>2, <1>7, <2>1, ClampFacts
    <2>2. CASE e # NaN
      <3>1. e \in Int /\ e * dt \in Int /\ integral + e * dt \in Int
        BY <1>2, <1>3, <1>7, <2>2
      <3>2. (e < 0 => e * dt < 0) /\ (e > 0 => e * dt > 0)
        BY <1>3, <3>1, SignFacts
      <3> DEFINE v == integral + e * dt
      <3>3. v \in Number /\ v # NaN /\ v \in Int /\ summed = clamp_float(v, IntMax)
        BY <1>2, <1>7, <2>2, <3>1
      <3>4. (e < 0 => v < integral) /\ (e > 0 => v > integral)
        BY <1>2, <3>1, <3>2
      <3> HIDE DEF v, summed
      <3>5. /\ summed \in -IntMax .. IntMax
            /\ v \in -IntMax .. IntMax => summed = v
            /\ v > IntMax => summed = IntMax
            /\ v < -IntMax => summed = -IntMax
        BY <1>2, <3>3, ClampFacts
      <3>6. /\ e < 0 => summed <= integral /\ (integral > -IntMax => summed < integral)
            /\ e > 0 => summed >= integral /\ (integral < IntMax => summed > integral)
        BY <1>2, <3>1, <3>3, <3>4, <3>5
      <3> QED
        BY <1>2, <2>2, <3>1, <3>5, <3>6 DEF Greater
    <2> QED
      BY <2>1, <2>2
  <1> HIDE DEF summed
  <1>9. /\ raw \in Number
        /\ e # NaN /\ error # NaN => raw # NaN
        /\ e = NaN => raw = NaN
    <2>1. Kp \in Number /\ Ki \in Number /\ Kd \in Number
      BY <1>2
    <2>2. Times(Kp, e) \in Number /\ Times(Ki, summed) \in Number /\ Times(Kd, derived) \in Number
      BY <1>4, <1>6, <1>8, <2>1, NumberFacts
    <2>3. raw \in Number
      BY <2>2, NumberFacts
    <2>4. e = NaN => raw = NaN
      BY DEF Plus, Times
    <2>5. ASSUME e # NaN, error # NaN PROVE raw # NaN
      <3>1. /\ e \in Int /\ summed \in Int /\ derived \in Int
        BY <1>4, <1>6, <1>8, <2>5 DEF Number
      <3>2. Times(Kp, e) \in Int /\ Times(Ki, summed) \in Int /\ Times(Kd, derived) \in Int
        BY <1>2, <1>4, <1>6, <1>8, <2>1, <2>5, NumberFacts
      <3>3. Plus(Times(Kp, e), Times(Ki, summed)) \in Int
        BY <1>2, <2>2, <3>2, NumberFacts
      <3>4. raw \in Int
        BY <1>2, <2>2, <3>2, <3>3, NumberFacts
      <3> QED
        BY <1>2, <3>4
    <2> QED
      BY <2>3, <2>4, <2>5
  <1> HIDE DEF raw
  <1>10. /\ out \in Number
         /\ out = NaN <=> raw = NaN
         /\ out # NaN => out \in -OutMax .. OutMax
    BY <1>2, <1>9, ClampFacts, WheelAssumption
  <1> HIDE DEF out
  <1>11. integral' \in -IntMax .. IntMax
    <2>1. Keeps(out, e) => out # NaN
      BY <1>2 DEF Keeps, Greater
    <2> QED
      BY <1>1, <1>2, <1>8, <1>9, <1>10, <2>1
  <1>12. /\ out = OutMax /\ Keeps(out, e) => Greater(0, e)
         /\ out = -OutMax /\ Keeps(out, e) => Greater(e, 0)
         /\ out = OutMax /\ Greater(0, e) => Keeps(out, e)
         /\ out = -OutMax /\ Greater(e, 0) => Keeps(out, e)
    BY <1>2 DEF Keeps, Greater
  <1>13. Greater(0, e) \/ Greater(e, 0) => e # NaN
    BY DEF Greater
  <1>14. /\ out = OutMax => integral' <= integral
         /\ out = -OutMax => integral' >= integral
    BY <1>1, <1>2, <1>8, <1>12, <1>13
  <1>15. /\ out = OutMax /\ Greater(0, e) /\ integral > -IntMax => integral' < integral
         /\ out = -OutMax /\ Greater(e, 0) /\ integral < IntMax => integral' > integral
    BY <1>1, <1>2, <1>8, <1>12, <1>13
  <1> QED
    BY <1>1, <1>4, <1>9, <1>10, <1>11, <1>14, <1>15
-----------------------------------------------------------------------------
LEMMA InitInv == Init => Inv
  <1> SUFFICES ASSUME Init PROVE Inv
    OBVIOUS
  <1>1. 0 \in Number /\ 0 # NaN /\ 0 \in Component /\ 0 \in -IntMax .. IntMax
        /\ 0 \in -OutMax .. OutMax
    BY WheelAssumption DEF Number, Component
  <1>2. Zero \in Command
    BY <1>1 DEF Zero, Command
  <1> QED
    BY <1>1, <1>2 DEF Init, Inv, TypeOK, IntegralSound, OutputSound

\* pid_reset leaves the PID as pid_init does.
LEMMA ResetFacts ==
    ASSUME pid_reset
    PROVE  /\ error' \in Number /\ last_error' \in Number /\ output' \in Number
           /\ integral' \in Number
           /\ IntegralSound' /\ OutputSound'
           /\ output' # OutMax /\ output' # -OutMax
  BY WheelAssumption DEF pid_reset, Number, IntegralSound, OutputSound

\* The steps of the PID that the action properties speak of.
PidStep ==
    /\ output' = OutMax => integral' <= integral
    /\ output' = -OutMax => integral' >= integral
    /\ output' = OutMax /\ Greater(0, error') /\ integral > -IntMax => integral' < integral
    /\ output' = -OutMax /\ Greater(error', 0) /\ integral < IntMax => integral' > integral

LEMMA DriveFacts ==
    ASSUME Inv, NEW actual \in Speed, NEW dt_s \in Dt, Drive(actual, dt_s)
    PROVE  Inv' /\ PidStep
  <1>1. TypeOK /\ IntegralSound /\ command \in Command /\ wheel \in Wheel /\ error \in Number
    BY DEF Inv, TypeOK
  <1>2. targets(command)[wheel] \in Number
    BY <1>1, TargetFacts
  <1>3. actual \in Int /\ dt_s \in Nat
    BY WheelAssumption
  <1>4. pid_calculate(targets(command)[wheel], actual, dt_s) /\ UNCHANGED <<command, wheel>>
    BY DEF Drive
  <1>5. /\ error' \in Number /\ last_error' = error
        /\ output' \in Number
        /\ output' = NaN => NaN \in {error', error}
        /\ output' # NaN => output' \in -OutMax .. OutMax
        /\ integral' \in -IntMax .. IntMax
        /\ PidStep
    BY <1>1, <1>2, <1>3, <1>4, CalculateFacts DEF PidStep
  <1>6. integral' \in Number
    BY <1>5, WheelAssumption DEF Number
  <1>7. TypeOK'
    BY <1>1, <1>4, <1>5, <1>6 DEF TypeOK
  <1>8. IntegralSound' /\ OutputSound'
    BY <1>5 DEF IntegralSound, OutputSound
  <1> QED
    BY <1>5, <1>7, <1>8 DEF Inv

LEMMA SetCommandFacts ==
    ASSUME Inv, NEW f \in Value, NEW s \in Value, NEW r \in Value, SetCommand(f, s, r)
    PROVE  Inv'
  <1>1. f \in Number /\ s \in Number /\ r \in Number /\ Unit \in Nat
    BY WheelAssumption DEF Number
  <1>2. /\ clamp_float(f, Unit) \in Component /\ clamp_float(s, Unit) \in Component
        /\ clamp_float(r, Unit) \in Component
    BY <1>1, ClampFacts DEF Component
  <1>3. command' \in Command
    BY <1>2 DEF SetCommand, Command
  <1>4. UNCHANGED <<wheel, error, last_error, integral, output>>
    BY DEF SetCommand, pid
  <1> QED
    BY <1>3, <1>4 DEF Inv, TypeOK, IntegralSound, OutputSound

\* Every step keeps the invariant, and a step that changes the PID is a PidStep.
LEMMA StepInv == Inv /\ [Next]_vars => Inv' /\ (PidStep \/ UNCHANGED pid)
  <1> SUFFICES ASSUME Inv, [Next]_vars PROVE Inv' /\ (PidStep \/ UNCHANGED pid)
    OBVIOUS
  <1>1. ASSUME NEW f \in Value, NEW s \in Value, NEW r \in Value, SetCommand(f, s, r)
        PROVE  Inv' /\ UNCHANGED pid
    BY <1>1, SetCommandFacts DEF SetCommand
  <1>2. CASE Stop
    <2>1. Zero \in Command
      BY WheelAssumption DEF Zero, Command, Component
    <2>2. command' \in Command /\ wheel' = wheel /\ pid_reset
      BY <1>2, <2>1 DEF Stop
    <2> QED
      BY <2>2, ResetFacts DEF Inv, TypeOK, PidStep
  <1>3. CASE Hold
    BY <1>3, ResetFacts DEF Hold, Inv, TypeOK, PidStep
  <1>4. ASSUME NEW actual \in Speed, NEW dt_s \in Dt, Drive(actual, dt_s)
        PROVE  Inv' /\ PidStep
    BY <1>4, DriveFacts
  <1>5. CASE UNCHANGED vars
    BY <1>5 DEF vars, pid, Inv, TypeOK, IntegralSound, OutputSound
  <1> QED
    BY <1>1, <1>2, <1>3, <1>4, <1>5 DEF Next

\* Every reachable state satisfies the invariant.
THEOREM Invariance == Spec => []Inv
  BY InitInv, StepInv, PTL DEF Spec

\* The command, the PID and its output are numbers or NaN, the command within the
\* clamp of chassis_set_command.
THEOREM TypeCorrect == Spec => []TypeOK
  BY Invariance, PTL DEF Inv

\* normalize_wheel_targets: no wheel is asked for more than max_translate_rpm,
\* whatever motions the command mixes and whatever the two limits are.
THEOREM WheelsWithinLimit == Spec => []WheelLimit
  <1>1. TypeOK => WheelLimit
    BY TargetFacts DEF TypeOK, WheelLimit
  <1> QED
    BY <1>1, TypeCorrect, PTL

\* pid_calculate: the integral keeps within its limits and free of NaN.
THEOREM IntegralStaysSound == Spec => []IntegralSound
  BY Invariance, PTL DEF Inv

\* pid_calculate: the output keeps within its limits, and NaN leaves it one step
\* after the command is a number again.
THEOREM OutputStaysSound == Spec => []OutputSound
  BY Invariance, PTL DEF Inv

\* pid_calculate: no wind-up at the output's limit, for all gains.
THEOREM PidDoesNotWindUp == Spec => NoWindup
  <1>1. Inv /\ [Next]_vars =>
          [/\ output' = OutMax => integral' <= integral
           /\ output' = -OutMax => integral' >= integral]_pid
    BY StepInv DEF PidStep
  <1> QED
    BY <1>1, Invariance, PTL DEF Spec, NoWindup

\* pid_calculate: at the output's limit an error the other way moves the integral,
\* for all gains.
THEOREM PidUnwinds == Spec => Unwinds
  <1>1. Inv /\ [Next]_vars =>
          [/\ output' = OutMax /\ Greater(0, error') /\ integral > -IntMax
                => integral' < integral
           /\ output' = -OutMax /\ Greater(error', 0) /\ integral < IntMax
                => integral' > integral]_pid
    BY StepInv DEF PidStep
  <1> QED
    BY <1>1, Invariance, PTL DEF Spec, Unwinds
-----------------------------------------------------------------------------
\* The two bytes of a current are bytes, and mean the current to the motor.
LEMMA BytesOfCurrent ==
    ASSUME NEW v \in I16
    PROVE  MotorReads(i16_to_bytes(v)[1], i16_to_bytes(v)[2]) = v
  <1>1. v \in Int /\ v >= -32768 /\ v <= 32767
    BY SMT DEF I16
  <1> DEFINE u == v % 65536
             high == u \div 256
             low == u % 256
  <1>2. CASE v >= 0
    <2>1. u = v
      BY <1>1, <1>2
    <2>2. high \in Int /\ low \in Int /\ v = high * 256 + low /\ low >= 0 /\ low < 256
      BY <1>1, <2>1
    <2>3. i16_to_bytes(v)[1] = high /\ i16_to_bytes(v)[2] = low
      BY DEF i16_to_bytes
    <2> HIDE DEF high, low, u
    <2>4. high < 128
      BY <1>1, <2>2
    <2> QED
      BY <2>2, <2>3, <2>4 DEF MotorReads
  <1>3. CASE v < 0
    <2>1. u = v + 65536
      BY <1>1, <1>3
    <2>2. high \in Int /\ low \in Int /\ u = high * 256 + low /\ low >= 0 /\ low < 256
      BY <1>1, <2>1
    <2>3. i16_to_bytes(v)[1] = high /\ i16_to_bytes(v)[2] = low
      BY DEF i16_to_bytes
    <2> HIDE DEF high, low, u
    <2>4. high >= 128 /\ v = (high - 256) * 256 + low
      BY <1>1, <2>1, <2>2
    <2> QED
      BY <2>2, <2>3, <2>4 DEF MotorReads
  <1> QED
    BY <1>1, <1>2, <1>3

\* motor3508_pack_current_array puts each motor's current, and only that, where the
\* motor reads it, for every output of the PID and all 16 bit currents of the others.
THEOREM OutputArrives == Spec => []OutputReachesMotor
  <1>1. TypeOK /\ OutputSound => OutputReachesMotor
    <2> SUFFICES ASSUME TypeOK, OutputSound, output # NaN,
                        NEW other \in Extreme, NEW m \in MotorId
                 PROVE  LET currents == [i \in MotorId |-> IF i = wheel THEN output ELSE other]
                            data     == motor3508_pack_current_array(currents)
                        IN  MotorReads(data[2 * m - 1], data[2 * m]) = currents[m]
      BY DEF OutputReachesMotor
    <2> DEFINE currents == [i \in MotorId |-> IF i = wheel THEN output ELSE other]
               data     == motor3508_pack_current_array(currents)
               b        == [i \in MotorId |-> i16_to_bytes(currents[i])]
    <2>1. currents[m] \in I16
      <3> HIDE DEF currents, data, b
      <3>1. output \in -OutMax .. OutMax
        BY DEF OutputSound
      <3>2. OutMax \in Nat /\ OutMax <= 32767
        BY WheelAssumption
      <3>4. output \in I16
        BY <3>1, <3>2, SMT DEF I16
      <3>3. other \in I16
        BY WheelAssumption
      <3> QED
        BY <3>3, <3>4 DEF currents
    <2>2. b[m] = i16_to_bytes(currents[m])
      OBVIOUS
    <2>3. data = <<b[1][1], b[1][2], b[2][1], b[2][2], b[3][1], b[3][2], b[4][1], b[4][2]>>
      BY DEF motor3508_pack_current_array
    <2> HIDE DEF b, data, currents
    <2>4. data[2 * m - 1] = b[m][1] /\ data[2 * m] = b[m][2]
      <3>1. m = 1 \/ m = 2 \/ m = 3 \/ m = 4
        BY DEF MotorId
      <3>2. CASE m = 1
        BY <2>3, <3>2
      <3>3. CASE m = 2
        BY <2>3, <3>3
      <3>4. CASE m = 3
        BY <2>3, <3>4
      <3>5. CASE m = 4
        BY <2>3, <3>5
      <3> QED
        BY <3>1, <3>2, <3>3, <3>4, <3>5
    <2>5. MotorReads(data[2 * m - 1], data[2 * m]) = currents[m]
      BY <2>1, <2>2, <2>4, BytesOfCurrent
    <2> QED
      BY <2>5 DEF data, currents
  <1> QED
    BY <1>1, TypeCorrect, OutputStaysSound, PTL

\* What a motor writes as two big endian bytes is what the program reads from them.
LEMMA ValueOfBytes ==
    ASSUME NEW v \in I16
    PROVE  bytes_to_i16(MotorWrites(v)[1], MotorWrites(v)[2]) = v
  <1>1. v \in Int /\ v >= -32768 /\ v <= 32767
    BY SMT DEF I16
  <1> DEFINE u == IF v < 0 THEN v + 65536 ELSE v
             high == u \div 256
             low == v % 256
  <1>2. u \in Int /\ u >= 0 /\ u < 65536
    BY <1>1
  <1>3. low = (u % 256)
    BY <1>1
  <1>4. high * 256 + low = u
    BY <1>2, <1>3
  <1>5. MotorWrites(v)[1] = high /\ MotorWrites(v)[2] = low
    BY DEF MotorWrites
  <1>6. u >= 32768 <=> v < 0
    BY <1>1
  <1> HIDE DEF high, low
  <1>7. bytes_to_i16(high, low) = IF u >= 32768 THEN u - 65536 ELSE u
    BY <1>4 DEF bytes_to_i16
  <1> QED
    BY <1>1, <1>5, <1>6, <1>7

\* Where a motor's feedback frame carries its speed and its current.
LEMMA FrameBytes ==
    ASSUME NEW m, NEW speed, NEW current
    PROVE  LET f == MotorFrame(m, speed, current) IN
           /\ f.can_id = 512 + m /\ f.dlc = 8
           /\ f.data[3] = MotorWrites(speed)[1] /\ f.data[4] = MotorWrites(speed)[2]
           /\ f.data[5] = MotorWrites(current)[1] /\ f.data[6] = MotorWrites(current)[2]
  BY SMT DEF MotorFrame, MotorWrites

\* A full frame with motor w's id changes the feedback kept for w, and no other's.
LEMMA FrameTaken ==
    ASSUME NEW w \in MotorId, NEW frame, frame.can_id = 512 + w, frame.dlc = 8
    PROVE  LET fb == motor3508_parse_feedback(512 + w, socketcan_data(frame)) IN
           /\ fb.id = w
           /\ fb.speed_rpm = bytes_to_i16(frame.data[3], frame.data[4])
           /\ fb.current = bytes_to_i16(frame.data[5], frame.data[6])
           /\ Drained(NoFeedbacks, frame) = [NoFeedbacks EXCEPT ![w] = fb]
  <1> DEFINE fb == motor3508_parse_feedback(512 + w, socketcan_data(frame))
  <1>1. w \in Int /\ w >= 1 /\ w <= 4
    BY DEF MotorId
  <1>2. socketcan_id(frame.can_id) = 512 + w
    BY <1>1 DEF socketcan_id
  <1>3. is_feedback(512 + w)
    BY <1>1 DEF is_feedback, FirstFeedbackId, LastFeedbackId
  <1>4. \A i \in 1 .. 8 : socketcan_data(frame)[i] = frame.data[i]
    BY DEF socketcan_data
  <1>5. /\ fb.id = w
        /\ fb.speed_rpm = bytes_to_i16(frame.data[3], frame.data[4])
        /\ fb.current = bytes_to_i16(frame.data[5], frame.data[6])
    <2>1. fb.id = w
      BY <1>1 DEF motor3508_parse_feedback, FirstFeedbackId
    <2>2. fb.speed_rpm = bytes_to_i16(socketcan_data(frame)[3], socketcan_data(frame)[4])
      BY DEF motor3508_parse_feedback
    <2>3. fb.current = bytes_to_i16(socketcan_data(frame)[5], socketcan_data(frame)[6])
      BY DEF motor3508_parse_feedback
    <2> HIDE DEF fb
    <2> QED
      BY <1>4, <2>1, <2>2, <2>3
  <1> HIDE DEF fb
  <1>6. Drained(NoFeedbacks, frame)
          = [i \in DOMAIN NoFeedbacks |-> IF i = fb.id THEN fb ELSE NoFeedbacks[i]]
    BY <1>2, <1>3 DEF Drained, fb
  <1>7. Drained(NoFeedbacks, frame) = [NoFeedbacks EXCEPT ![w] = fb]
    <2>1. NoFeedbacks = [i \in 0 .. 4 |-> NoFeedback]
      BY DEF NoFeedbacks
    <2> QED
      BY <1>1, <1>5, <1>6, <2>1
  <1> QED
    BY <1>5, <1>7 DEF fb

\* A frame that is short, or has the id of no motor, changes no feedback.
LEMMA FrameIgnored ==
    ASSUME NEW frame, frame.dlc < 8 \/ ~is_feedback(socketcan_id(frame.can_id)),
           frame.dlc \in Int
    PROVE  Drained(NoFeedbacks, frame) = NoFeedbacks
  BY DEF Drained

\* The ids next to the motors', and those far from them, are no feedback.
LEMMA ForeignFrames ==
    ASSUME NEW id \in {0, 512, 517, 2047}
    PROVE  ~is_feedback(socketcan_id(id))
  BY DEF is_feedback, socketcan_id, FirstFeedbackId, LastFeedbackId

\* FeedbackIsTheMotors for the wheel under control, whichever it is.
LEMMA FeedbackFacts ==
    ASSUME wheel \in MotorId
    PROVE  FeedbackIsTheMotors
  <1>1. ASSUME NEW speed \in Extreme, NEW current \in Extreme
        PROVE  LET after == Drained(NoFeedbacks, MotorFrame(wheel, speed, current))
               IN  /\ after = [NoFeedbacks EXCEPT ![wheel] = after[wheel]]
                   /\ after[wheel].id = wheel
                   /\ after[wheel].speed_rpm = speed /\ after[wheel].current = current
    <2> DEFINE frame == MotorFrame(wheel, speed, current)
               fb    == motor3508_parse_feedback(512 + wheel, socketcan_data(frame))
               after == Drained(NoFeedbacks, frame)
    <2>1. speed \in I16 /\ current \in I16
      BY WheelAssumption
    <2>2. /\ frame.can_id = 512 + wheel /\ frame.dlc = 8
          /\ bytes_to_i16(frame.data[3], frame.data[4]) = speed
          /\ bytes_to_i16(frame.data[5], frame.data[6]) = current
      BY <2>1, FrameBytes, ValueOfBytes
    <2> HIDE DEF frame
    <2>3. /\ fb.id = wheel /\ fb.speed_rpm = speed /\ fb.current = current
          /\ after = [NoFeedbacks EXCEPT ![wheel] = fb]
      BY <2>2, FrameTaken
    <2> HIDE DEF fb, after
    <2>4. wheel \in DOMAIN NoFeedbacks
      BY DEF NoFeedbacks, MotorId
    <2>5. after[wheel] = fb
      BY <2>3, <2>4
    <2>6. /\ after = [NoFeedbacks EXCEPT ![wheel] = after[wheel]]
          /\ after[wheel].id = wheel
          /\ after[wheel].speed_rpm = speed /\ after[wheel].current = current
      BY <2>3, <2>5
    <2> QED
      BY <2>6 DEF after, frame
  <1>2. Drained(NoFeedbacks, [MotorFrame(wheel, 0, 0) EXCEPT !.dlc = 7]) = NoFeedbacks
    <2> DEFINE frame == [MotorFrame(wheel, 0, 0) EXCEPT !.dlc = 7]
    <2>1. frame.dlc = 7
      BY DEF MotorFrame
    <2> HIDE DEF frame
    <2>2. Drained(NoFeedbacks, frame) = NoFeedbacks
      BY <2>1, FrameIgnored
    <2> QED
      BY <2>2 DEF frame
  <1>3. ASSUME NEW id \in {0, 512, 517, 2047}
        PROVE  Drained(NoFeedbacks, [MotorFrame(wheel, 0, 0) EXCEPT !.can_id = id]) = NoFeedbacks
    <2> DEFINE frame == [MotorFrame(wheel, 0, 0) EXCEPT !.can_id = id]
    <2>1. frame.dlc = 8 /\ frame.can_id = id
      BY DEF MotorFrame
    <2> HIDE DEF frame
    <2>2. ~is_feedback(socketcan_id(frame.can_id))
      BY <2>1, ForeignFrames
    <2>3. Drained(NoFeedbacks, frame) = NoFeedbacks
      BY <2>1, <2>2, FrameIgnored
    <2> QED
      BY <2>3 DEF frame
  <1> QED
    BY <1>1, <1>2, <1>3 DEF FeedbackIsTheMotors

\* What the program keeps as a motor's feedback is what that motor sent: the speed and
\* the current of its own frames, for every 16 bit value, and nothing of a short frame
\* or of one with another id (motor3508_parse_feedback and its callers).
THEOREM FeedbackArrives == Spec => []FeedbackIsTheMotors
  <1>1. TypeOK => FeedbackIsTheMotors
    BY FeedbackFacts DEF TypeOK, Wheel, MotorId
  <1> QED
    BY <1>1, TypeCorrect, PTL
-----------------------------------------------------------------------------
\* Where the model's rounding does not show: every scaled target is a whole number.
ExactScaling ==
    LET t == Mixed(Parts(command))
    IN  Greater(Peak(t), Limit) => \A i \in Wheel : (t[i] * Limit) % Peak(t) = 0

LEMMA Cancelled ==
    ASSUME NEW a \in Int, NEW b \in Int, NEW n \in Nat \ {0}, a * n = b * n
    PROVE  a = b
  OBVIOUS

\* The ratio of u to a is that of k to n.
InRatio(u, a, n, k) == u * n = a * k

\* The motion x, y, z has the direction of f, s, r, and is none only when that is none.
Aligned(x, y, z, f, s, r) ==
    /\ x * s = y * f /\ y * r = z * s /\ x * r = z * f
    /\ x * f + y * s + z * r >= 0
    /\ x = 0 /\ y = 0 /\ z = 0 => f = 0 /\ s = 0 /\ r = 0

\* Three sums that are one multiple of three parts have their direction.
LEMMA SameDirection ==
    ASSUME NEW f \in Int, NEW s \in Int, NEW r \in Int,
           NEW x \in Int, NEW y \in Int, NEW z \in Int,
           NEW n \in Nat \ {0}, NEW k \in Nat \ {0},
           InRatio(x, f, n, k), InRatio(y, s, n, k), InRatio(z, r, n, k)
    PROVE  Aligned(x, y, z, f, s, r)
  <1>1. ASSUME NEW a \in Int, NEW b \in Int, NEW u \in Int, NEW v \in Int,
               InRatio(u, a, n, k), InRatio(v, b, n, k)
        PROVE  u * b = v * a
    <2>1. (u * b) * n = (u * n) * b /\ (v * a) * n = (v * n) * a
      OBVIOUS
    <2>2. (u * n) * b = (a * k) * b /\ (v * n) * a = (b * k) * a
      BY <1>1 DEF InRatio
    <2>3. (a * k) * b = (b * k) * a
      OBVIOUS
    <2>4. (u * b) * n = (v * a) * n
      BY <2>1, <2>2, <2>3
    <2> QED
      BY <2>4, Cancelled
  <1>2. ASSUME NEW a \in Int, NEW u \in Int, InRatio(u, a, n, k)
        PROVE  u * a >= 0 /\ (u = 0 => a = 0)
    <2>1. a > 0 => a * k > 0
      OBVIOUS
    <2>2. a < 0 => a * k < 0
      OBVIOUS
    <2>3. u > 0 => u * n > 0
      OBVIOUS
    <2>4. u < 0 => u * n < 0
      OBVIOUS
    <2>5. u = 0 => u * n = 0
      OBVIOUS
    <2>6. (a > 0 /\ u > 0) \/ (a < 0 /\ u < 0) \/ (a = 0 /\ u = 0)
      BY <1>2, <2>1, <2>2, <2>3, <2>4, <2>5 DEF InRatio
    <2> QED
      BY <2>6
  <1>3. x * f >= 0 /\ y * s >= 0 /\ z * r >= 0
    BY <1>2
  <1>4. x * s = y * f /\ y * r = z * s /\ x * r = z * f
    BY <1>1
  <1>5. x = 0 /\ y = 0 /\ z = 0 => f = 0 /\ s = 0 /\ r = 0
    BY <1>2
  <1>6. x * f \in Int /\ y * s \in Int /\ z * r \in Int
    OBVIOUS
  <1> QED
    BY <1>3, <1>4, <1>5, <1>6 DEF Aligned

\* The parts of a command without NaN: integers that are zero only with the command.
LEMMA PartsFacts ==
    ASSUME NEW c \in Command, NaN \notin {c.forward, c.strafe, c.rotate}, Rotate # 0
    PROVE  LET p == Parts(c)
           IN  /\ p.forward \in Int /\ p.strafe \in Int /\ p.rotate \in Int
               /\ p.forward = 0 /\ p.strafe = 0 /\ p.rotate = 0 => command_is_zero(c)
  <1>1. /\ c.forward \in -Unit .. Unit /\ c.strafe \in -Unit .. Unit /\ c.rotate \in -Unit .. Unit
        /\ c = [forward |-> c.forward, strafe |-> c.strafe, rotate |-> c.rotate]
    BY DEF Command, Component
  <1>2. Unit \in Nat /\ Translate \in Nat \ {0} /\ Rotate \in Nat \ {0} /\ NaN \notin Int
    BY WheelAssumption
  <1>3. /\ clamp_float(c.forward, Unit) = c.forward /\ clamp_float(c.strafe, Unit) = c.strafe
        /\ clamp_float(c.rotate, Unit) = c.rotate
    BY <1>1, <1>2, ClampFacts DEF Number
  <1>4. /\ c.forward \in Int /\ c.strafe \in Int /\ c.rotate \in Int
    BY <1>1, <1>2
  <1>5. ASSUME NEW a \in Int, NEW b \in Int PROVE Times(a, b) = a * b
    BY <1>2 DEF Times
  <1>6. /\ Parts(c).forward = (-1) * (c.forward * Translate)
        /\ Parts(c).strafe = c.strafe * Translate
        /\ Parts(c).rotate = c.rotate * Rotate
    <2>1. -1 \in Int /\ Translate \in Int /\ Rotate \in Int /\ c.forward * Translate \in Int
      BY <1>2, <1>4
    <2>2. Parts(c) = [forward |-> Times(-1, Times(c.forward, Translate)),
                      strafe |-> Times(c.strafe, Translate), rotate |-> Times(c.rotate, Rotate)]
      BY <1>3 DEF Parts
    <2>3. /\ Times(c.forward, Translate) = c.forward * Translate
          /\ Times(c.strafe, Translate) = c.strafe * Translate
          /\ Times(c.rotate, Rotate) = c.rotate * Rotate
      BY <1>4, <1>5, <2>1
    <2>4. Times(-1, c.forward * Translate) = (-1) * (c.forward * Translate)
      BY <1>5, <2>1
    <2> QED
      BY <2>2, <2>3, <2>4
  <1>7. ASSUME NEW a \in Int, NEW n \in Nat \ {0} PROVE a * n = 0 => a = 0
    OBVIOUS
  <1>8. /\ c.forward * Translate \in Int /\ c.strafe * Translate \in Int /\ c.rotate * Rotate \in Int
        /\ c.forward * Translate = 0 => c.forward = 0
        /\ c.strafe * Translate = 0 => c.strafe = 0
        /\ c.rotate * Rotate = 0 => c.rotate = 0
    BY <1>2, <1>4, <1>7
  <1>9. ASSUME Parts(c).forward = 0, Parts(c).strafe = 0, Parts(c).rotate = 0
        PROVE  command_is_zero(c)
    <2>1. c.forward = 0 /\ c.strafe = 0 /\ c.rotate = 0
      BY <1>6, <1>8, <1>9
    <2> QED
      BY <1>1, <2>1 DEF command_is_zero, Zero
  <1>10. Parts(c).forward \in Int /\ Parts(c).strafe \in Int /\ Parts(c).rotate \in Int
    BY <1>6, <1>8
  <1> QED
    BY <1>9, <1>10

\* The mix of three integers, and what the mixed targets add up to.
LEMMA MixFacts ==
    ASSUME NEW p, p.forward \in Int, p.strafe \in Int, p.rotate \in Int
    PROVE  LET t == Mixed(p)
           IN  /\ \A i \in Wheel : t[i] \in Int
               /\ t[3] + t[4] - t[1] - t[2] = 4 * p.forward
               /\ t[2] + t[4] - t[1] - t[3] = 4 * p.strafe
               /\ -(t[1] + t[2] + t[3] + t[4]) = 4 * p.rotate
  <1> DEFINE f == p.forward
             s == p.strafe
             r == p.rotate
             t == Mixed(p)
  <1>1. f \in Int /\ s \in Int /\ r \in Int /\ NaN \notin Int
    BY WheelAssumption
  <1>2. /\ t[1] = Minus(Times(-1, Plus(f, s)), r)
        /\ t[2] = Minus(Times(-1, Minus(f, s)), r)
        /\ t[3] = Minus(Minus(f, s), r)
        /\ t[4] = Minus(Plus(f, s), r)
    BY DEF Mixed, Wheel
  <1> HIDE DEF f, s, r, t
  <1>3. ASSUME NEW a \in Int, NEW b \in Int
        PROVE  /\ Plus(a, b) = a + b /\ Minus(a, b) = a - b /\ Times(-1, b) = -b
               /\ a + b \in Int /\ a - b \in Int /\ -b \in Int
    <2>1. -1 \in Int /\ (-1) * b = -b
      OBVIOUS
    <2> QED
      BY <1>1, <2>1 DEF Plus, Minus, Times
  <1>4. /\ t[1] = -(f + s) - r /\ t[2] = -(f - s) - r /\ t[3] = (f - s) - r /\ t[4] = (f + s) - r
    <2>1. /\ Plus(f, s) = f + s /\ Minus(f, s) = f - s
          /\ f + s \in Int /\ f - s \in Int /\ -(f + s) \in Int /\ -(f - s) \in Int
      BY <1>1, <1>3
    <2>2. Times(-1, f + s) = -(f + s) /\ Times(-1, f - s) = -(f - s)
      BY <1>3, <2>1
    <2>3. /\ Minus(-(f + s), r) = -(f + s) - r /\ Minus(-(f - s), r) = -(f - s) - r
          /\ Minus(f - s, r) = (f - s) - r /\ Minus(f + s, r) = (f + s) - r
      BY <1>1, <1>3, <2>1
    <2> QED
      BY <1>2, <2>1, <2>2, <2>3
  <1>5. \A i \in Wheel : t[i] \in Int
    BY <1>1, <1>4 DEF Wheel
  <1> QED
    BY <1>1, <1>4, <1>5 DEF t, f, s, r

\* Scaling multiplies all four targets by one ratio of positive numbers.
LEMMA ScalingFacts ==
    ASSUME NEW t, \A i \in Wheel : t[i] \in Int,
           Greater(Peak(t), Limit) => \A i \in Wheel : (t[i] * Limit) % Peak(t) = 0
    PROVE  \E n \in Nat \ {0}, k \in Nat \ {0} :
              \A i \in Wheel : /\ normalize_wheel_targets(t)[i] \in Int
                               /\ normalize_wheel_targets(t)[i] * n = t[i] * k
  <1>1. Limit \in Nat \ {0} /\ NaN \notin Int
    BY WheelAssumption DEF Limit
  <1>2. Peak(t) \in Number
    BY PeakFacts DEF Number
  <1>3. CASE Greater(Peak(t), Limit)
    <2>1. Peak(t) \in Nat \ {0}
      BY <1>1, <1>2, <1>3 DEF Greater, Number
    <2>2. ASSUME NEW i \in Wheel
          PROVE  /\ normalize_wheel_targets(t)[i] \in Int
                 /\ normalize_wheel_targets(t)[i] * Peak(t) = t[i] * Limit
      <3>1. t[i] \in Int /\ t[i] * Limit \in Int /\ (t[i] * Limit) % Peak(t) = 0
        BY <1>1, <1>3
      <3>2. Times(t[i], Limit) = t[i] * Limit
        BY <1>1, <3>1 DEF Times
      <3>3. Over(Times(t[i], Limit), Peak(t)) = (t[i] * Limit) \div Peak(t)
        BY <1>1, <3>1, <3>2 DEF Over
      <3>4. normalize_wheel_targets(t)[i] = (t[i] * Limit) \div Peak(t)
        BY <1>3, <3>3 DEF normalize_wheel_targets
      <3>5. ASSUME NEW a \in Int, NEW n \in Nat \ {0}, a % n = 0
            PROVE  a \div n \in Int /\ (a \div n) * n = a
        BY <3>5
      <3> QED
        BY <2>1, <3>1, <3>4, <3>5
    <2> QED
      BY <1>1, <2>1, <2>2
  <1>4. CASE ~Greater(Peak(t), Limit)
    <2>1. \A i \in Wheel : normalize_wheel_targets(t)[i] = t[i]
      BY <1>4 DEF normalize_wheel_targets
    <2>2. \A i \in Wheel : /\ normalize_wheel_targets(t)[i] \in Int
                           /\ normalize_wheel_targets(t)[i] * 1 = t[i] * 1
      BY <2>1
    <2> QED
      BY <2>2
  <1> QED
    BY <1>3, <1>4

\* The mix and its scaling keep the direction of a command.
LEMMA PathFacts ==
    ASSUME command \in Command, ExactScaling, Rotate # 0
    PROVE  PathKept
  <1> SUFFICES ASSUME NaN \notin {command.forward, command.strafe, command.rotate}
               PROVE  LET t     == targets(command)
                          p     == Parts(command)
                          surge == t[3] + t[4] - t[1] - t[2]
                          sway  == t[2] + t[4] - t[1] - t[3]
                          yaw   == -(t[1] + t[2] + t[3] + t[4])
                      IN  /\ surge * p.strafe = sway * p.forward
                          /\ sway * p.rotate = yaw * p.strafe
                          /\ surge * p.rotate = yaw * p.forward
                          /\ surge * p.forward + sway * p.strafe + yaw * p.rotate >= 0
                          /\ <<surge, sway, yaw>> = <<0, 0, 0>> => command_is_zero(command)
    BY DEF PathKept
  <1> DEFINE p == Parts(command)
             m == Mixed(p)
             t == targets(command)
             surge == t[3] + t[4] - t[1] - t[2]
             sway  == t[2] + t[4] - t[1] - t[3]
             yaw   == -(t[1] + t[2] + t[3] + t[4])
  <1>1. /\ p.forward \in Int /\ p.strafe \in Int /\ p.rotate \in Int
        /\ p.forward = 0 /\ p.strafe = 0 /\ p.rotate = 0 => command_is_zero(command)
    BY PartsFacts
  <1>2. /\ t = normalize_wheel_targets(m)
        /\ Greater(Peak(m), Limit) => \A i \in Wheel : (m[i] * Limit) % Peak(m) = 0
    BY DEF targets, ExactScaling
  <1> HIDE DEF p, t
  <1>3. /\ \A i \in Wheel : m[i] \in Int
        /\ m[3] + m[4] - m[1] - m[2] = 4 * p.forward
        /\ m[2] + m[4] - m[1] - m[3] = 4 * p.strafe
        /\ -(m[1] + m[2] + m[3] + m[4]) = 4 * p.rotate
    BY <1>1, MixFacts
  <1> HIDE DEF m
  <1>4. PICK n \in Nat \ {0}, k \in Nat \ {0} :
          \A i \in Wheel : t[i] \in Int /\ t[i] * n = m[i] * k
    BY <1>2, <1>3, ScalingFacts
  <1>5. /\ t[1] \in Int /\ t[2] \in Int /\ t[3] \in Int /\ t[4] \in Int
        /\ m[1] \in Int /\ m[2] \in Int /\ m[3] \in Int /\ m[4] \in Int
        /\ t[1] * n = m[1] * k /\ t[2] * n = m[2] * k
        /\ t[3] * n = m[3] * k /\ t[4] * n = m[4] * k
    BY <1>3, <1>4 DEF Wheel
  <1>6. surge \in Int /\ sway \in Int /\ yaw \in Int
    BY <1>5
  <1>7. /\ surge * n = p.forward * (4 * k)
        /\ sway * n = p.strafe * (4 * k)
        /\ yaw * n = p.rotate * (4 * k)
    <2>1. /\ surge * n = t[3] * n + t[4] * n - t[1] * n - t[2] * n
          /\ sway * n = t[2] * n + t[4] * n - t[1] * n - t[3] * n
          /\ yaw * n = -(t[1] * n + t[2] * n + t[3] * n + t[4] * n)
      BY <1>5
    <2>2. /\ surge * n = (m[3] + m[4] - m[1] - m[2]) * k
          /\ sway * n = (m[2] + m[4] - m[1] - m[3]) * k
          /\ yaw * n = (-(m[1] + m[2] + m[3] + m[4])) * k
      <3> HIDE DEF surge, sway, yaw
      <3> QED
        BY <1>5, <2>1
    <2>3. /\ (4 * p.forward) * k = p.forward * (4 * k)
          /\ (4 * p.strafe) * k = p.strafe * (4 * k)
          /\ (4 * p.rotate) * k = p.rotate * (4 * k)
      BY <1>1
    <2> HIDE DEF surge, sway, yaw
    <2> QED
      BY <1>3, <2>2, <2>3
  <1>8. 4 * k \in Nat \ {0}
    OBVIOUS
  <1> HIDE DEF surge, sway, yaw
  <1> DEFINE c == 4 * k
             f == p.forward
             s == p.strafe
             r == p.rotate
  <1>11. /\ f \in Int /\ s \in Int /\ r \in Int /\ c \in Nat \ {0}
         /\ InRatio(surge, f, n, c) /\ InRatio(sway, s, n, c) /\ InRatio(yaw, r, n, c)
    BY <1>1, <1>7, <1>8 DEF InRatio
  <1> HIDE DEF c, f, s, r
  <1>9. /\ surge * p.strafe = sway * p.forward
        /\ sway * p.rotate = yaw * p.strafe
        /\ surge * p.rotate = yaw * p.forward
        /\ surge * p.forward + sway * p.strafe + yaw * p.rotate >= 0
        /\ surge = 0 /\ sway = 0 /\ yaw = 0 =>
             p.forward = 0 /\ p.strafe = 0 /\ p.rotate = 0
    <2>1. Aligned(surge, sway, yaw, f, s, r)
      BY <1>6, <1>11, SameDirection
    <2> QED
      BY <2>1 DEF Aligned, f, s, r
  <1>10. <<surge, sway, yaw>> = <<0, 0, 0>> => command_is_zero(command)
    BY <1>1, <1>9
  <1> QED
    BY <1>9, <1>10 DEF surge, sway, yaw, t, p

\* update_targets_from_command and normalize_wheel_targets never bend the path: for
\* every limit, and every mix of motions whose scaled targets are whole numbers, the
\* wheels add up to a motion in the command's direction.
THEOREM PathStaysStraight == Spec => [](Rotate # 0 /\ ExactScaling => PathKept)
  <1>1. TypeOK => (Rotate # 0 /\ ExactScaling => PathKept)
    BY PathFacts DEF TypeOK
  <1> QED
    BY <1>1, TypeCorrect, PTL
=============================================================================

# Verification of the RK3588 chassis control software

TLA+ models of the programs that drive the four 3508 motors of the chassis, TLC runs
that check them on small instances, and TLAPS proofs for all values of the constants.
Paths below are relative to the repository (`src/` in `PROJECT.json`).

## 1. Inventory

| part | state it keeps | operations | interacts with |
|---|---|---|---|
| chassis controller `src/chassis_control.c` | command and its stamp, feedback and stamp of each motor, wheel targets, PIDs | init, set_command, stop, update_feedback, feedback_all_online, step | called by the daemon and the bench tools |
| speed PID `src/pid.c` | error, last error, integral, output | init, reset, calculate | called by the controller, one per wheel |
| chassis daemon `tools/chassis_daemon.c` | a controller, `g_running`, currents, statistics, UDP and CAN sockets | start-up, wait for feedback, 100 Hz loop, shutdown, signal handler | velocity clients (UDP), motors (CAN), systemd (exit status) |
| CAN proxy `tools/can_proxy.c` | `ProxyState`: current command, its timeout and stamp, feedback stamps, peer | loop: drain CAN, receive UDP, send currents, send state; shutdown | RT-Thread core (UDP both ways), motors (CAN) |
| RT-Thread bridge `rtthread_port/rtt_chassis_bridge.c` | last state packet, sequence number, thread handle | start, loop: heartbeat, zero current command, receive states | CAN proxy (UDP) |
| RT-Thread echo `rtthread_port/rtt_udp_echo.c` | thread handles `echo_thread`, `beacon_thread` | start commands, autostart retry, echo loop, beacon loop | shell, other threads, UDP |
| 3508 frames `src/motor_3508.c` | none | pack currents, parse feedback | daemon, proxy, tools |
| SocketCAN wrapper `src/socketcan.c` | none | open, send, receive, close | daemon, proxy, tools |
| bench tools `tools/test_*.c`, `chassis_velocity.c`, `monitor_3508.c` | as the daemon, without UDP | one motor, PID, timed command, keyboard | motors |
| tuning scripts `tools/*autotune*.py`, `characterize_startup.py` | results | run `test_speed_pid` and score its log | child process |
| units and scripts `systemd/`, `scripts/` | none | start on boot, `Restart=on-failure` | daemon |

What is hard here is not the size of the code but its timing and its failures. Each
loop reads the clock once, then drains two sockets whose contents are stamped with
that reading (commands) or with later ones (feedback), and compares unsigned stamps.
Datagrams wait in a buffer while the loop is late or has not begun. The CAN
interface can fail between any two frames, a signal can come at any point, and the
process can be killed while the motors are driven. UDP packets of the bridge can
be lost, repeated or reordered. On RT-Thread, threads share handles without a lock.
`PROJECT.json` lists each hazard at its line with the properties that cover it.

What makes each part correct: the *controller* drives only on a fresh command and
fresh feedback of all motors, and keeps no PID state across a stop; the *daemon*
does so in real time, whatever the order of events, ends when told to and leaves
zero current behind; the *proxy* sends nothing in dry run, never more than the
limit, only within a command's window, and leaves zero current behind; an emergency stop holds
against every packet before it; the *arithmetic* keeps its limits, keeps the direction of travel and recovers, and its
frames say to the motors what the program means; the *echo module* keeps one thread and
knows it, its retries end, and starters that overlap do not starve it; the *bridge* never
drives, hears of each new proxy, drops the state of an old one and ends a drive that was
left behind; the *bench programs* drive no longer than asked for,
stop with the motors, leave zero current behind and end in time for the scripts that
run them.

## 2. Modules

| module | what it is |
|---|---|
| `ChassisControl` | the controller as operators on a record, one per function of `chassis_control.h` |
| `ChassisDaemon` | EXTENDS `ChassisControl`: the daemon's process and its world |
| `SafeDrive` | abstract specification: drive only on a recent command and recent reports |
| `BenchTool` | EXTENDS `ChassisControl`: one bench program at a time and its world |
| `CanProxy` | the proxy's process and its world |
| `ProxyPort` | abstract specification: what the proxy promises to the sender of its packets |
| `RttBridge` | the bridge's thread on RT-Thread |
| `BridgeSystem` | EXTENDS `ProxyPort`, `RttBridge`: both over a network, with kills and restarts |
| `UdpEcho` | the echo, autostart and beacon threads and the shell around one handle |
| `Motor3508` | frames: bytes, 16 bit values, identifiers (operators) |
| `WheelControl` | EXTENDS `Motor3508`: the arithmetic of a step and its frames |
| `..._proofs` | theorems about the module of that name (`ChassisControl_proofs`: shared lemmas) |
| `MCDaemon`, `MCBench`, `MCProxy`, `MCBridge`, `MCWheel` | TLC instances (symmetry, value sets) |

A definition named `Bad_...` is a plausible slip in the definition after it. No
specification uses it; it shows that a checked property notices the slip.

**Time.** Only distances from the present matter, so a stamp is kept as its age in
ticks and so is a clock reading that the code goes on using. Ages saturate past the
largest value the code compares them with, which keeps the state space finite
without a time horizon. `MaxLoop` bounds how old the reading of an iteration can
get, that is how long one iteration takes with its sleep. That bound is the one
real-time assumption: nothing in the loops blocks (`O_NONBLOCK` on the UDP sockets,
`poll` with timeout 0 on CAN), they sleep 2 to 10 ms, and the scheduler is assumed
to run them. `elapsed_ms` is modelled with its guard against a stamp later than
`now`; `online_mask` of the proxy, which has none, with unsigned wrap (`% Modulus`).

**Atomicity.** A process is cut wherever another actor can be seen: each datagram
and each frame read, each frame sent, each clock reading, each test of `g_running`.
Code between such points is one action (`Step` is `chassis_step`, the statistics and
the zeroing after it; `Serve` is the rest of the proxy's iteration).

**Data.** In `ChassisControl` a command is `zero` or `move`, a set of currents `zero`
or `drive`; the PIDs are `clean` or `used`. The proxy's four wheels are treated alike
by its code, so a command is one current. In `WheelControl` floats are integers in a
fixed unit, or NaN, which `sscanf` accepts; the rounding of floats is not modelled.

### ChassisDaemon

`pc` names the place in `main`. Start-up: `StartNoCan` (exit 1, no frame),
`StartNoUdp` (also the CSV file; zero frames, exit 1), `StartOk`. Wait: `WaitPoll`,
`DrainFrame`, `WaitDrained`, `WaitFailed`. Loop: `LoopTop`, `RecvDatagram`,
`RecvDone`, `DrainFrame`, `Step`, `SendOk`. Shutdown: `LoopEnd` (signal) and
`SendFailed` (CAN), both through `LeaveLoop`, then `ZeroFrame` and `ZeroDone`.
The world: `Signal`, `Crash`, `Arrive` (any datagram, valid or not), `Emit` (a motor
reports), `CanToggle`, `Tick`. `MayStart` is systemd: first start, and restart after
a failure or a kill. The variables `moveArrived`, `emitted`, `lost` and the value
`"orphan"` of `bus` record what the properties are about; the process does not read
them.

### CanProxy

The same shape: `LoopTop`, `DrainFrame`, `DrainDone`, `RecvPacket` (all packet
kinds), `RecvDone`, `Serve`, `LoopEnd`, `ZeroFrame`, `ZeroDone`. Packets arrive in any
order with any content of the constants' sets, which covers loss, duplication and
reordering by the network and any sender. `estopLast` records, for `EstopOverrides`,
that of current and emergency stop packets one of the latter arrived last.

### WheelControl

`SetCommand`, `Stop` (`reset_motion_state`), `Hold` (feedback missing) and `Drive`
(targets of the command, then `pid_calculate` of one wheel). `wheel` is any of four.
`Motor3508` turns the output into the 0x200 frame and a frame from the bus into
feedback; the motors' end of the wire (`MotorReads`, `MotorFrame`) is written
independently, as big endian two's complement.

### BenchTool

The five programs differ in four places, and `tool` selects them: whether they wait
for feedback and of which motors (`Launch`, `Ready`), whether they have a deadline or
keys (`LoopTop`, `ReadKey`), what decides about current (`StepChassis`, `StepSpeed`,
`StepSingle`), and what ends the loop (`LeaveLoop`). `chassis_velocity` and
`test_chassis_command` are one tool here: they differ in their command line only. All
programs end in `ZeroFrame` and `ZeroDone`, the failed wait and the failed terminal
set-up included. The scripts' part is `Kill`: `run_trial` kills its child when it
outlasts the duration and a margin. A killed program's frame stays on the bus
(`"orphan"`), and the next program must replace it.

### ProxyPort, RttBridge and BridgeSystem

`CanProxy` with a bridge and a network in place of its arbitrary packets is beyond TLC.
So `CanProxy` is shown to implement `ProxyPort`, which keeps what the bridge can
notice: the phases of an iteration, whether a command's window is open, the command, the
known peer, the packets and the bus. Where `CanProxy` asks the clock, `ProxyPort` leaves
the answer open. `RttBridge` is the thread: `Start`, `Wake`, `OpenSocket` or
`OpenFails`, then `SendHeartbeat`, `SendZero`, `RecvState` repeated, `RecvTimeout` or
`RecvFails`, `LoopAgain`. `BridgeSystem` joins them: `Delivered` or `Lost` for each
packet of the bridge, a set of states on their way from which `Reads` takes any one,
`Kill` and `Restart` of the proxy, `GuestReboot`.

### UdpEcho

`rtt_udp_echo_start` is cut at each access to `echo_thread` (`Test`, `Create` or
`CreateFails`, `Startup`), for both starters, the autostart thread and the shell.
RT-Thread's priorities are in `MayRun`: the shell preempts the autostart, not the other
way round. The echo thread is `OpenSocket`, `Bind`, `Receive`, `Send`, `CloseSocket`,
`Clear`; every failure path gives the socket back before it clears the handle.
`overlap` records that two starters were between test and start at once.

## 3. Runs

| run | expectation | shows |
|---|---|---|
| `daemon` | pass | 4.9 million states: `StopsOnSilence`, `StopsOnMotorLoss`, `PidCleanAtRest`, `NoFalseDrop`, `ExitLeavesZero`, and that the daemon implements `SafeDrive` |
| `daemon_live` | pass | with a crash at any point: `NoMotionFromBeforeStart`; under fairness: a signal ends the process, start-up ends, an orphaned drive frame is replaced |
| `daemon_stale` | violation | a command that waited during start-up is acted on as if fresh |
| `daemon_restart` | violation | a failed CAN send ends the service with status 0 and it is not restarted |
| `proxy` | pass | 8.2 million states: dry run, current limit, command window, emergency stop, shutdown, and that the proxy implements `ProxyPort` |
| `proxy_expiry` | violation | no zero frame is sent when the command expires |
| `proxy_mask` | violation | a motor that has just reported is left out of `online_mask` |
| `wheels` | pass | limits, direction of travel, anti-windup, recovery from NaN, frames both ways |
| `wheels_nan` | violation | NaN passes the clamp |
| `bench` | pass | 10.4 million states: a drive ends with duration, keys, motors and program; the program ends in time |
| `bridge` | pass | 47 thousand states, under fairness: only zero frames, each new proxy is heard of, the state of an old one does not stay, an abandoned drive ends |
| `echo` | pass | 44 thousand states, under fairness: the handle names the only thread, the retries end in a listening thread, overlapping starters do not starve them |

**Bounds.** `daemon`: two motors (one can be lost while the other reports; the code
treats all alike, hence the symmetry), a command timeout of 1 and a feedback timeout
of 0 ticks, `MaxLoop` 1 and a start-up wait of 1 tick, so that every comparison has
both outcomes and every stamp can be before, at and after `now`; two zero frames, so
that one can fail and one succeed; a buffer of one datagram, one datagram a tick.
The bounds of the properties (command timeout + 4 iterations, feedback timeout + 5)
are tight: with one iteration less TLC finds a violation. Crashes are left to
`daemon_live`, where the process can be killed once; what it left behind (the frame, the
datagrams on their way) meets the process that systemd starts next. The theorems cover all values.
`proxy`: a buffer of two packets, one new a tick, so that an emergency stop can be read
before or behind a current packet in one iteration; one motor, currents on both sides of the limit and zero, timeout fields 0
and 2 against a default of 1, `Modulus` 16 in place of 2^64 (only the wrap matters;
`ProxyAssumption` keeps it larger than every true difference). `proxy_expiry` and
`proxy_mask` keep a buffer of one packet, filled up to twice a tick; `proxy_mask` uses
two motors. `wheels`: components beyond both limits, zero and NaN, rates such that all
scaled targets are whole numbers, gains with which the output saturates on either
side, with a derivative part, as `test_speed_pid` allows; the other motors' currents
are the ends of the 16 bit range and values that need either byte or both.
`bench`: two motors, so that one can be lost while the other reports; a wait of 1 tick
and a duration of 5, long enough that a lost motor or an expired key shows before the
deadline does; two zero frames; one key in the buffer, any number one after the other.
The bounds of `BenchDriveEnds` and `BenchMotorLoss` (timeout + 4 and + 5 iterations) are
tight. `RunBound` is the wait, the duration and an iteration for each zero frame and
three more; in milliseconds (1000, the duration, 10 times 2, three periods) it lies
within the margin of the tuning script.
`bridge`: a buffer of two packets, one of each kind; one restart of the proxy or one
reboot of the guest, and kills at any time, on a bus with or without an abandoned drive
frame. `echo`: three threads, so that a new one can be created while
one listens and one fails, and two sockets for up to four users of them.

**Fairness.** `FairSpec` has weak fairness of the process (the operating system
schedules it, systemd starts it) and of time in `daemon_live`. Nothing is assumed of senders, motors,
signals or the CAN interface. `OrphanReplaced` states its own condition, a CAN
interface that works and a unit that is not stopped. Safety is checked without it.

`echo`: RT-Thread runs every ready thread; the autostart thread is below the shell, but
the shell waits for an operator between commands, hence strong fairness for it, and
memory is not refused for ever. Nothing is assumed of `recvfrom`, of the operator or
of the network; each property names its own conditions. `AutostartEnds` is about starters
that do not overlap; `RetriesServe` lets them overlap as they like and leaves out `fault`
only, an `rt_thread_startup` of a handle that is already started, on which RT-Thread stops
with an assertion.

`bridge`: both loops go on; a packet that is sent again and again arrives at last, and
so does an attempt to open the socket (strong fairness). `receive_udp` reads faster than
the bridge sends, which is once in 20 ms, so it finds its buffer empty again and again. A
command keeps its window open for 100 ms, ten times the gap between two frames, so a
frame is sent while it is open unless the interface stays down. Nothing is assumed of
kills, restarts, reboots, signals and failing receives. `NewProxyHeard` and
`AbandonedDriveCleared` need `recvfrom` to have its timeout: with a blocking socket, which the ignored
result of `setsockopt` allows, bridge and restarted proxy wait for each other.
`StaleStateLeaves` needs no timeout: a proxy that knows its peer keeps sending states,
and each wakes the bridge.

**Deadlock** is checked in every run.

### Findings

1. `chassis_daemon.c` stamps a datagram when it reads it, and binds the socket before
   the wait of up to 1.5 s, so a command up to that old starts the chassis.
   `StopsOnSilence` is therefore stated for a daemon past its start-up (`Warm`), and
   the refinement uses the longer `StartupBound`.
2. After a failed CAN send `main` returns 0; with `Restart=on-failure` the service
   stays down.
3. `can_proxy.c` clears an expired command and sends nothing.
4. `online_mask` wraps when a frame is stamped after `now` was read.
5. `clamp_float` lets NaN through.

## 4. Proofs

All theorems are proved for arbitrary sets of motors, packets and values and for
arbitrary timeouts, repetitions, queue lengths and loop bounds, from the named
assumptions on constants (`ControlAssumption`, `DaemonAssumption`, `BenchAssumption`,
`ProxyAssumption`, `BridgeAssumption`, `EchoAssumption`, `WheelAssumption`), which say
that these are natural numbers, that an iteration may take at least one tick, that at
least one zero frame is sent, that the output limit fits 16 bits and that NaN is no
integer. TLC evaluates them in every run.

**ChassisDaemon_proofs.** The inductive invariant is `TypeOK` with `IInv`, whose parts
bridge the gap between what the code stamps and what really happened:
`QueueInv` (a move datagram still in the buffer arrived at most so long ago as the
process has not emptied the buffer), `CommandInv` (the command in force arrived no
earlier than its stamp minus an iteration, or minus the start-up wait),
`FeedbackInv` (the same for each motor's stamp and its frame on the bus),
`DriveInv` (what was true of command and feedback at the last step while its currents
are on the bus), `PidInv`, `ExitInv` and `LostInv`. None of the checked properties is
inductive alone: `StopsOnSilence` speaks of arrival, the code only knows stamps.
`SilenceStops`, `MotorLossStops`, `StartsAtRest`, `PidReset`, `FreshMotorsStayOnline`,
`ShutdownZeroes` follow from it, and `Refinement` shows that every step of the
daemon is a step of `SafeDrive` or leaves its variables unchanged: the one hard case
is `Tick`, which `SafeDrive` allows only while driving is still permitted.

**CanProxy_proofs.** `Inv` has `QueueInv` and `CommandInv` in the same role, and
`LostInv`. `DryRunHolds`, `LimitHolds`, `DriveOnlyInWindow` and `ShutdownZeroes` follow.
`EstopHolds` has an invariant of its own: `StopInv` says that while the last of current and
stop packets to arrive was a stop, a stop with no current packet behind it is in the buffer,
or no current packet is left there and the command is zero. `StopTaken` and `StopAppended` carry it through the two ends
of the queue.

**WheelControl_proofs.** `CalculateFacts` is what one `pid_calculate` does to the
integral and the output; its sign argument is the only nonlinear one.
`TargetFacts` bounds the scaled targets. `WheelsWithinLimit`, `IntegralStaysSound`,
`OutputStaysSound`, `PidDoesNotWindUp` and `PidUnwinds` follow. `OutputArrives` rests on
`BytesOfCurrent`: for every 16 bit value a motor reads from its two bytes what was
packed; `FeedbackArrives` on `ValueOfBytes`, its converse, and on which frames
`socketcan_receive` and the id range let through.

`PathStaysStraight` is `PathKept` under two hypotheses that the theorem states.
`ExactScaling`: the scaled targets are whole numbers. The code divides floats, the model
rounds down, and where that bends a target by less than one unit it is the model's doing
and not the code's; every state of `wheels` satisfies the hypothesis. `Rotate # 0`: the
command line accepts a rotation limit of 0, and then a command that only turns moves
nothing, though it is not zero. The argument: `MixFacts` (the three sums of the mixed
targets are four times the parts), `ScalingFacts` (scaling multiplies all four by one
positive ratio) and `SameDirection` (three sums in one positive ratio to three parts are
parallel to them and never opposed).

**BenchTool_proofs.** Every invariant is inductive with the types: `LostInv` and
`ExitInv` (a frame that outlives the loop has seen every zero frame fail) for
`BenchZeroes`, and `TimeInv` for `BenchEndsInTime`: in each place of the program the age
of the process is bounded by the age of its clock reading plus what it has done so
far, and both sides grow by one in a tick.

`BenchStopsOnLoss` and `BenchDrivesInTime` carry what was true when the last frame was
sent through the rest of the loop. `KeyInv` says in which places a buffered moving key
can still be read and how old it is there; `CommandInv` that a moving command was typed
at most an iteration before its stamp; `FeedbackInv` that a motor's frame was on the bus
at most two iterations before its stamp. `Justified(k)` has the content of both
properties, `k` iterations after the keys were read: `ChassisJustified` and
`SpeedJustified` show that a step that computes a drive establishes it, a tick keeps it
(`JustifiedTick`), and a new clock reading costs one iteration (`JustifiedLonger`).
`DriveInv` says which `k` holds in each place while a drive frame is on the bus,
`DeadlineInv` how old a program with a duration is by the reading its deadline was
tested at.

**ChassisControl_proofs.** The typing of the controller, and `StepFacts`: currents other
than zero come out of a `chassis_step` only if the command and every motor's
feedback are within their timeouts by the stamps. Daemon and bench programs rest on it.

**ProxyPort_proofs.** `ProxyImplementsPort`: each action of `CanProxy` maps to one of
`ProxyPort` or changes none of its variables. The lemma that carries it is `WindowKept`:
within an iteration a window that the bridge's command has opened cannot close, because
the command and the test use the same clock reading.

**BridgeSystem_proofs.** `BridgeNeverDrives` from `ZeroInv`: as long as the bridge is the
only sender, the command in the proxy is zero. It holds for every number of restarts and
every network; together with `ProxyImplementsPort` it speaks of `CanProxy`.

**UdpEcho_proofs.** `HandleInv` says for each place of a starter what handle and
threads look like while no two starters have overlapped; `SocketsInUse` counts the
threads that hold a socket against the pool, which is what keeps `pool` in its range.
`EchoTypeCorrect` and `HandleNamesTheThread` follow.

Only model-checked: the liveness properties, because fairness and ENABLED are out of the
prover's reach (`SignalEndsProcess`, `StartupSettles`, `OrphanReplaced`, `EchoListens`,
`AutostartEnds`, `RetriesServe`, `NewProxyHeard`, `StaleStateLeaves`,
`AbandonedDriveCleared`). Every invariant and every
action property of a passing run is a theorem.

## 5. Not modelled

Statistics, CSV and status output; the parsing of command lines; errors of `recvfrom`
other than an empty socket (both loops treat them alike); `RestartSec` and systemd's
start limit; which of several peers the proxy answers; the rounding of floats.

The byte layout and the sequence numbers of the bridge's packets: both sides use the
same accessors, and neither compares a sequence number. The terminal modes of the
keyboard tool. The shell command of the beacon. The search and the scoring of the tuning
scripts, which are arithmetic on recorded samples. `send_velocity.py` and the two UDP
test scripts appear as the environment (any datagram at any time). Installation and
probing scripts and the SocketCAN system calls are I/O; `chassis_car_app` belongs to
another vehicle and calls code that is not in the repository.

A proxy that is made to drive by a sender other than the bridge, and an emergency stop
among such packets, are covered by `CanProxy` only: no program of the repository sends
them. Whether a stop should latch against current packets that arrive after it is not
settled by the documentation; the code does not latch, and `EstopOverrides` is about the
packets before it.

## 6. Plan

Done: controller, daemon and `SafeDrive`; proxy and `ProxyPort`; bridge and its
composition; echo module; frames and arithmetic; bench programs; their proofs. What is
left is, when RT-Thread begins to send motion commands, to replace `ZeroPacket` by
them and to settle whether an emergency stop latches.

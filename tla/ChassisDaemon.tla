---------------------------- MODULE ChassisDaemon ----------------------------
(***************************************************************************)
(* src/tools/chassis_daemon.c with the world it runs in: the process that  *)
(* sends velocity datagrams, the four motors on the CAN bus, the CAN       *)
(* interface going down and up, SIGTERM, a crash, and systemd's restart.   *)
(*                                                                         *)
(* The process is cut at the points where another actor can be seen: every *)
(* datagram and every CAN frame it reads, every frame it sends, every test *)
(* of g_running and every clock reading.  `pc` says where it is:           *)
(*   "off"   not running: never started, exited or killed                  *)
(*   "wait"  wait_for_all_feedback, at the while condition                 *)
(*   "wdrain" wait_for_all_feedback, in drain_feedback                     *)
(*   "top"   main loop, asleep or at while (g_running)                     *)
(*   "recv"  receive_commands                                              *)
(*   "drain" drain_feedback, and chassis_step once it is done              *)
(*   "send"  send_currents                                                 *)
(*   "zero"  send_zero_current before returning from main                  *)
(* Time passes in ticks; an iteration of a loop takes at most MaxLoop of   *)
(* them (the loops sleep 10, 5 and 2 ms, and nothing in them blocks).      *)
(***************************************************************************)
EXTENDS ChassisControl, Sequences

CONSTANTS
    WaitTimeout,  \* the 1500 ms of wait_for_all_feedback, in ticks
    ZeroRepeat,   \* ZERO_SEND_REPEAT
    UdpCap,       \* bound: datagrams the socket buffer holds
    Burst,        \* bound: datagrams that arrive within one tick
    MaxCrash      \* bound: crashes in a behaviour

ASSUME DaemonAssumption ==
    /\ WaitTimeout \in Nat
    /\ ZeroRepeat \in Nat \ {0}
    /\ UdpCap \in Nat
    /\ Burst \in Nat
    /\ MaxCrash \in Nat

\* Bounds of the properties below; ages past them are not told apart.
SilenceBound  == CommandTimeout + 4 * MaxLoop
StartupBound  == SilenceBound + WaitTimeout
FeedbackBound == FeedbackTimeout + 5 * MaxLoop
AgeCap        == StartupBound + 1
EmitCap       == FeedbackBound + 1

VARIABLES
    pc,
    ctl,         \* controller
    now,         \* age of the clock reading of the current iteration
    start,       \* age of stats.start_ms, and of `start` in wait_for_all_feedback
    currents,    \* currents[] computed by the last step
    last_online, \* stats.last_online: result of the last step, -1 before it
    g_running,
    exit,        \* "none", or how the process ended: "ok" 0, "fail" 1, "killed"
    zeroLeft,    \* frames send_zero_current has still to send
    udp,         \* datagrams in the UDP socket's buffer
    canRx,       \* motors with a feedback frame in the CAN socket's buffer
    bus,         \* the last current frame on the bus, see Bus
    canUp,       \* the CAN interface sends and receives
    moveArrived, \* age of the last "move" datagram put into the buffer
    emitted,     \* age of each motor's last feedback frame on the bus
    burst,       \* datagrams that arrived since the last tick
    crashes,     \* crashes so far
    lost         \* frames of send_zero_current that failed

daemon == <<pc, ctl, now, start, currents, last_online, g_running, exit, zeroLeft>>
world  == <<udp, canRx, bus, canUp, moveArrived, emitted, burst, crashes, lost>>
vars   == <<daemon, world>>

Looping == {"top", "recv", "drain", "send"}
Waiting == {"wait", "wdrain"}
PC      == Looping \union Waiting \union {"off", "zero"}

\* "orphan" is a drive frame whose sender no longer runs: the motor controllers
\* may still be applying it and nobody is left to replace it.
Bus == {"none", "zero", "drive", "orphan"}

Datagram == Command \union {"bad"}   \* "bad": sscanf does not return 3

TypeOK ==
    /\ pc \in PC
    /\ ctl \in Controller
    /\ now \in 0 .. MaxLoop /\ start \in 0 .. AgeCap
    /\ currents \in Current
    /\ last_online \in {-1, 0, 1}
    /\ g_running \in BOOLEAN
    /\ exit \in {"none", "ok", "fail", "killed"}
    /\ zeroLeft \in 0 .. ZeroRepeat
    /\ udp \in Seq(Datagram)
    /\ canRx \in SUBSET Motor
    /\ bus \in Bus
    /\ canUp \in BOOLEAN
    /\ moveArrived \in 0 .. AgeCap
    /\ emitted \in [Motor -> 0 .. EmitCap]
    /\ burst \in Nat
    /\ crashes \in Nat
    /\ lost \in 0 .. ZeroRepeat
-----------------------------------------------------------------------------
Init ==
    /\ pc = "off" /\ exit = "none" /\ g_running = TRUE
    /\ ctl = NoController
    /\ now = 0 /\ start = AgeCap
    /\ currents = "zero" /\ last_online = -1 /\ zeroLeft = 0
    /\ udp = << >> /\ canRx = {} /\ bus = "none" /\ canUp = TRUE
    /\ moveArrived = AgeCap /\ emitted = [m \in Motor |-> EmitCap]
    /\ burst = 0 /\ crashes = 0 /\ lost = 0

(* ------------------------------- start up ------------------------------ *)

\* systemd starts the unit once, and again when the process failed or was
\* killed (Restart=on-failure), unless the unit was stopped.
MayStart == pc = "off" /\ exit # "ok" /\ g_running

\* socketcan_open fails: main returns 1.  Opening an interface that is down
\* may also succeed.
StartNoCan ==
    /\ MayStart /\ ~canUp
    /\ exit' = "fail"
    /\ UNCHANGED <<pc, ctl, now, start, currents, last_online, g_running, zeroLeft, world>>

\* open_udp_socket or the CSV fopen fails: zero current, main returns 1
StartNoUdp ==
    /\ MayStart
    /\ pc' = "zero" /\ exit' = "fail" /\ zeroLeft' = ZeroRepeat /\ lost' = 0
    /\ now' = 0
    /\ UNCHANGED <<ctl, start, currents, last_online, g_running,
                   udp, canRx, bus, canUp, moveArrived, emitted, burst, crashes>>

\* both sockets are open and empty, the controller is initialised
StartOk ==
    /\ MayStart
    /\ pc' = "wait" /\ exit' = "none"
    /\ \E junk \in Command : ctl' = chassis_init(junk)
    /\ now' = 0 /\ start' = 0
    /\ currents' = "zero" /\ last_online' = -1 /\ lost' = 0
    /\ UNCHANGED <<g_running, zeroLeft, udp, canRx, bus, canUp, moveArrived,
                   emitted, burst, crashes>>

(* ------------------------ wait_for_all_feedback ------------------------ *)

\* main gives up: "Not all motors are online. Stop."
Bad_wait_failed ==
    /\ pc = "wait" /\ start >= WaitTimeout
    /\ pc' = "zero" /\ exit' = "fail" /\ zeroLeft' = 0 /\ now' = 0
    /\ UNCHANGED <<ctl, start, currents, last_online, g_running, world>>
WaitFailed ==
    /\ pc = "wait" /\ start >= WaitTimeout
    /\ pc' = "zero" /\ exit' = "fail" /\ zeroLeft' = ZeroRepeat /\ now' = 0
    /\ UNCHANGED <<ctl, start, currents, last_online, g_running, world>>

Bad_wait_poll ==
    /\ pc = "wait"
    /\ pc' = "wdrain" /\ now' = 0
    /\ UNCHANGED <<ctl, start, currents, last_online, g_running, exit, zeroLeft, world>>
WaitPoll ==
    /\ pc = "wait" /\ start < WaitTimeout
    /\ pc' = "wdrain" /\ now' = 0
    /\ UNCHANGED <<ctl, start, currents, last_online, g_running, exit, zeroLeft, world>>

\* drain_feedback is empty; all_online is asked with a reading of its own
WaitDrained ==
    /\ pc = "wdrain" /\ canRx = {}
    /\ pc' = IF chassis_feedback_all_online(ctl, 0) THEN "top" ELSE "wait"
    /\ UNCHANGED <<ctl, now, start, currents, last_online, g_running, exit, zeroLeft, world>>

(* ------------------------------ main loop ------------------------------ *)

Bad_loop_top ==
    /\ pc = "top"
    /\ pc' = "recv" /\ now' = 0
    /\ UNCHANGED <<ctl, start, currents, last_online, g_running, exit, zeroLeft, world>>
LoopTop ==
    /\ pc = "top" /\ g_running
    /\ pc' = "recv" /\ now' = 0
    /\ UNCHANGED <<ctl, start, currents, last_online, g_running, exit, zeroLeft, world>>

\* receive_commands: one datagram.  An invalid one is only counted.
RecvDatagram ==
    /\ pc = "recv" /\ udp # << >>
    /\ ctl' = IF Head(udp) = "bad" THEN ctl
              ELSE chassis_set_command(ctl, Head(udp), now)
    /\ udp' = Tail(udp)
    /\ UNCHANGED <<pc, now, start, currents, last_online, g_running, exit, zeroLeft,
                   canRx, bus, canUp, moveArrived, emitted, burst, crashes, lost>>

RecvDone ==
    /\ pc = "recv" /\ udp = << >>
    /\ pc' = "drain"
    /\ UNCHANGED <<ctl, now, start, currents, last_online, g_running, exit, zeroLeft, world>>

\* drain_feedback: one frame, parsed and stamped with a reading of its own, so
\* the stamp can be later than `now`.  Several frames of a motor in the buffer
\* are one here: only the last stamp stays.  Other frames have no effect.
DrainFrame(m) ==
    /\ pc \in {"wdrain", "drain"} /\ m \in canRx
    /\ ctl' = chassis_update_feedback(ctl, m)
    /\ canRx' = canRx \ {m}
    /\ UNCHANGED <<pc, now, start, currents, last_online, g_running, exit, zeroLeft,
                   udp, bus, canUp, moveArrived, emitted, burst, crashes, lost>>

\* The buffer is empty: chassis_step with the reading of the loop's top, then
\* update_online_stats and the zeroing of currents when offline.
Step ==
    /\ pc = "drain" /\ canRx = {}
    /\ \E o \in chassis_step(ctl, now) :
         /\ ctl' = o.ctl
         /\ last_online' = IF o.ret THEN 1 ELSE 0
         /\ currents' = IF o.ret THEN o.currents ELSE "zero"
    /\ pc' = "send"
    /\ UNCHANGED <<now, start, g_running, exit, zeroLeft, world>>

SendOk ==
    /\ pc = "send" /\ canUp
    /\ bus' = currents /\ pc' = "top"
    /\ UNCHANGED <<ctl, now, start, currents, last_online, g_running, exit, zeroLeft,
                   udp, canRx, canUp, moveArrived, emitted, burst, crashes, lost>>

(* ------------------------------- shut down ----------------------------- *)

\* after the loop: chassis_stop, then send_zero_current, and main returns 0
LeaveLoop ==
    /\ ctl' = chassis_stop(ctl)
    /\ pc' = "zero" /\ exit' = "ok" /\ zeroLeft' = ZeroRepeat /\ now' = 0
    /\ UNCHANGED <<start, currents, last_online, g_running, world>>

SendFailed == pc = "send" /\ ~canUp /\ LeaveLoop

LoopEnd == pc = "top" /\ ~g_running /\ LeaveLoop

\* one frame of send_zero_current; a failed send is ignored
Bad_zero_frame ==
    /\ pc = "zero" /\ zeroLeft > 0
    /\ zeroLeft' = IF canUp THEN zeroLeft - 1 ELSE 0
    /\ bus' = IF canUp THEN "zero" ELSE bus
    /\ lost' = IF canUp THEN lost ELSE lost + 1
    /\ now' = 0
    /\ UNCHANGED <<pc, ctl, start, currents, last_online, g_running, exit,
                   udp, canRx, canUp, moveArrived, emitted, burst, crashes>>
Bad_zero_count ==
    /\ pc = "zero" /\ zeroLeft >= 0
    /\ zeroLeft' = zeroLeft - 1
    /\ bus' = IF canUp THEN "zero" ELSE bus
    /\ lost' = IF canUp THEN lost ELSE lost + 1
    /\ now' = 0
    /\ UNCHANGED <<pc, ctl, start, currents, last_online, g_running, exit,
                   udp, canRx, canUp, moveArrived, emitted, burst, crashes>>
ZeroFrame ==
    /\ pc = "zero" /\ zeroLeft > 0
    /\ zeroLeft' = zeroLeft - 1
    /\ bus' = IF canUp THEN "zero" ELSE bus
    /\ lost' = IF canUp THEN lost ELSE lost + 1
    /\ now' = 0
    /\ UNCHANGED <<pc, ctl, start, currents, last_online, g_running, exit,
                   udp, canRx, canUp, moveArrived, emitted, burst, crashes>>

\* The process is gone with its memory and its sockets, and its last drive frame
\* is orphaned.  What arrived so far is long ago for the next process.
Gone ==
    /\ pc' = "off" /\ udp' = << >> /\ canRx' = {}
    /\ ctl' = NoController /\ now' = 0 /\ start' = AgeCap /\ zeroLeft' = 0
    /\ currents' = "zero" /\ last_online' = -1
    /\ moveArrived' = AgeCap /\ emitted' = [m \in Motor |-> EmitCap] /\ burst' = 0
    /\ bus' = IF bus = "drive" THEN "orphan" ELSE bus
    /\ UNCHANGED <<g_running, canUp, lost>>

ZeroDone ==
    /\ pc = "zero" /\ zeroLeft = 0
    /\ Gone
    /\ UNCHANGED <<exit, crashes>>

(* ------------------------------ the world ------------------------------ *)

\* SIGINT or SIGTERM: handle_signal
Signal ==
    /\ pc # "off" /\ g_running
    /\ g_running' = FALSE
    /\ UNCHANGED <<pc, ctl, now, start, currents, last_online, exit, zeroLeft, world>>

\* SIGKILL, or a crash of the process
Crash ==
    /\ pc # "off" /\ crashes < MaxCrash
    /\ crashes' = crashes + 1
    /\ exit' = "killed"
    /\ Gone

\* A datagram reaches the socket buffer.  One that the network loses or that
\* finds the buffer full is not seen by the daemon, and one that comes during the
\* shutdown is never read.
Arrive(d) ==
    /\ pc \notin {"off", "zero"} /\ Len(udp) < UdpCap /\ burst < Burst
    /\ udp' = Append(udp, d)
    /\ moveArrived' = IF d = "move" THEN 0 ELSE moveArrived
    /\ burst' = burst + 1
    /\ UNCHANGED <<daemon, canRx, bus, canUp, emitted, crashes, lost>>

\* A motor puts a feedback frame on the bus: at most one per tick is told apart,
\* and none once the shutdown has begun.
Emit(m) ==
    /\ pc \notin {"off", "zero"} /\ canUp /\ emitted[m] > 0
    /\ emitted' = [emitted EXCEPT ![m] = 0]
    /\ canRx' = canRx \union {m}
    /\ UNCHANGED <<daemon, udp, bus, canUp, moveArrived, burst, crashes, lost>>

CanToggle ==
    /\ canUp' = ~canUp
    /\ UNCHANGED <<daemon, udp, canRx, bus, moveArrived, emitted, burst, crashes, lost>>

\* A tick passes; a running process is never late by more than MaxLoop.
Tick ==
    /\ pc # "off" => now < MaxLoop
    /\ now' = Older(now, MaxLoop) /\ start' = Older(start, AgeCap)
    /\ moveArrived' = Older(moveArrived, AgeCap)
    /\ emitted' = [m \in Motor |-> Older(emitted[m], EmitCap)]
    /\ ctl' = Aged(ctl)
    /\ burst' = 0
    /\ UNCHANGED <<pc, currents, last_online, g_running, exit, zeroLeft,
                   udp, canRx, bus, canUp, crashes, lost>>
-----------------------------------------------------------------------------
Process ==
    \/ StartNoCan \/ StartNoUdp \/ StartOk
    \/ WaitFailed \/ WaitPoll \/ WaitDrained
    \/ LoopTop \/ RecvDatagram \/ RecvDone \/ Step \/ SendOk
    \/ SendFailed \/ LoopEnd \/ ZeroFrame \/ ZeroDone
    \/ \E m \in Motor : DrainFrame(m)

Next ==
    \/ Process
    \/ Signal \/ Crash \/ CanToggle \/ Tick
    \/ \E d \in Datagram : Arrive(d)
    \/ \E m \in Motor : Emit(m)

Spec == Init /\ [][Next]_vars

\* The scheduler runs the process, systemd starts it, and time passes.  Nothing
\* is assumed of senders, motors, signals, crashes or the CAN interface.
FairSpec == Spec /\ WF_vars(Process) /\ WF_vars(Tick)
-----------------------------------------------------------------------------
\* The process is in charge of the bus: in its loop, or about to make its first
\* attempt at a zero frame after it.
InCharge == pc \in Looping \/ (pc = "zero" /\ zeroLeft = ZeroRepeat)

\* A command read by the first pass of receive_commands may have waited in the
\* socket during wait_for_all_feedback; after this age none of those is left.
Warm == start > StartupBound

\* docs/chassis_daemon.md: "If no new velocity command arrives for 300 ms, the
\* chassis stops."  While the daemon is in charge and past its start-up, a drive
\* frame stays on the bus only if a non-zero command arrived at most the command
\* timeout and four loop iterations ago.
StopsOnSilence == InCharge /\ bus = "drive" /\ Warm => moveArrived <= SilenceBound

\* The same without the exception for the start-up.
StopsOnSilenceFromStart == InCharge /\ bus = "drive" => moveArrived <= SilenceBound

\* docs/chassis_daemon.md: "If any motor feedback times out, all current commands
\* are set to zero."  A drive frame stays on the bus only if every motor put a
\* feedback frame on the bus at most the feedback timeout and five iterations ago.
StopsOnMotorLoss ==
    InCharge /\ bus = "drive" => \A m \in Motor : emitted[m] <= FeedbackBound

\* docs/systemd_service.md: "The daemon starts with zero velocity and sends zero
\* current until it receives a command."  A drive frame of this process answers a
\* command that arrived after this process started, whatever an earlier one did.
NoMotionFromBeforeStart == InCharge /\ bus = "drive" => moveArrived <= start

\* docs/chassis_daemon.md and issue_log ISS-008: stopping resets the PID.  Between
\* two steps, a PID that holds state is one that drives on a command that was
\* fresh and with motors that were online at the last step.
PidCleanAtRest ==
    pc \in {"top", "send"} /\ ctl.pid = "used" =>
        /\ ctl.command = "move" /\ ctl.target = "move" /\ last_online = 1
        /\ elapsed_ms(now, ctl.last_command) <= CommandTimeout

\* The step does not drop motors whose stamps are fresh, although it compares a
\* clock reading that is older than the stamps.
NoFalseDrop ==
    pc = "send" /\ ctl.online = Motor /\ (\A m \in Motor : ctl.last_update[m] <= FeedbackTimeout)
        => last_online = 1

\* docs/chassis_daemon.md: "When the daemon exits, it sends zero current
\* repeatedly."  A drive frame survives the shutdown only if every one of the
\* ZERO_SEND_REPEAT frames sent so far failed.
ExitLeavesZero ==
    exit = "ok" /\ bus \in {"drive", "orphan"} =>
        lost = IF pc = "zero" THEN ZeroRepeat - zeroLeft ELSE ZeroRepeat

\* The daemon implements SafeDrive, where "drives" means that a drive frame is the
\* last one on the bus and the daemon is in charge of it.
Drive == INSTANCE SafeDrive
    WITH CommandLimit <- StartupBound, FeedbackLimit <- FeedbackBound,
         drive <- InCharge /\ bus = "drive", command <- moveArrived,
         feedback <- emitted
ImplementsSafeDrive == Drive!Spec

\* SIGTERM and SIGINT end the process, also during wait_for_all_feedback, which
\* does not look at g_running, and whatever arrives on the sockets meanwhile.
SignalEndsProcess == ~g_running ~> pc = "off"

\* wait_for_all_feedback returns although motors may report forever one by one.
StartupSettles == pc \in Waiting ~> pc \notin Waiting

\* A drive frame orphaned by a crash is replaced by the restarted process, as long
\* as the CAN interface works and the unit is not stopped.
OrphanReplaced ==
    []canUp /\ []g_running => (bus = "orphan" ~> bus # "orphan")

\* docs/chassis_daemon.md: the daemon "keeps the 100 Hz motor control loop alive";
\* the unit has Restart=on-failure.  A process that ended unasked is replaced.
RestartedUnlessStopped == [](pc = "off" /\ g_running => <>(pc # "off"))
=============================================================================

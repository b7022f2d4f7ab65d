------------------------------- MODULE UdpEcho -------------------------------
(***************************************************************************)
(* src/rtthread_port/rtt_udp_echo.c: the echo thread, the autostart thread *)
(* and the shell command rtt_udp_echo_start around the shared handle       *)
(* echo_thread, and the beacon thread, which competes with the echo thread *)
(* for the sockets of the network stack.                                   *)
(*                                                                         *)
(* Threads interleave at every access to the handle and at every socket    *)
(* call.  RT-Thread runs by priority: the shell (FINSH_THREAD_PRIORITY 20) *)
(* and the echo threads (20) preempt the autostart thread (21), so that    *)
(* thread does not run while the shell is inside its command, while the    *)
(* shell may run its command between any two steps of the autostart.       *)
(* rt_thread_create is one step with the assignment of its result;         *)
(* rt_thread_startup reads the handle again in a step of its own.          *)
(***************************************************************************)
EXTENDS Integers, FiniteSets

CONSTANTS
    Thread,   \* echo threads that fit into the heap at one time
    Null,     \* RT_NULL
    Sockets   \* bound: sockets the network stack has for echo and beacon

ASSUME EchoAssumption ==
    /\ Null \notin Thread
    /\ IsFiniteSet(Thread) /\ Thread # {}
    /\ Sockets \in Nat \ {0}

Starter == {"auto", "shell"}

VARIABLES
    echo_thread,  \* the handle: Null or a thread
    st,           \* what each echo thread is doing
    start,        \* where each starter is: "no", or in rtt_udp_echo_start
    auto,         \* where the autostart thread is
    beacon,       \* "none", "idle" between two messages, "open" with a socket
    pool,         \* sockets the network stack has left
    netUp,        \* the network stack serves socket calls
    overlap,      \* two starters have been between the test and the startup
    fault         \* rt_thread_startup got a handle it cannot start

vars == <<echo_thread, st, start, auto, beacon, pool, netUp, overlap, fault>>

\* "new" created and not started, "socket", "bind", "recv", "send": at that call,
\* "close" at closesocket after the loop, "clear" about to clear the handle
Alive   == {"new", "socket", "bind", "recv", "send", "close", "clear"}
Serving == {"recv", "send"}

TypeOK ==
    /\ echo_thread \in Thread \union {Null}
    /\ st \in [Thread -> Alive \union {"free"}]
    /\ start \in [Starter -> {"no", "test", "create", "startup"}]
    /\ auto \in {"delay", "test", "starting", "sleep", "done"}
    /\ beacon \in {"none", "idle", "open"}
    /\ pool \in 0 .. Sockets
    /\ netUp \in BOOLEAN /\ overlap \in BOOLEAN /\ fault \in BOOLEAN

Init ==
    /\ echo_thread = Null /\ st = [t \in Thread |-> "free"]
    /\ start = [s \in Starter |-> "no"] /\ auto = "delay" /\ beacon = "none"
    /\ pool = Sockets /\ netUp = FALSE /\ overlap = FALSE /\ fault = FALSE

\* Echo thread t goes on with `next`.
Goes(t, next) == st' = [st EXCEPT ![t] = next]

\* The call of rtt_udp_echo_start by s returns.
Returns(s) ==
    /\ start' = [start EXCEPT ![s] = "no"]
    /\ auto' = IF s = "auto" THEN "sleep" ELSE auto

\* The autostart thread, of lower priority, waits for the shell.
MayRun(s) == s = "auto" => start["shell"] = "no"
-----------------------------------------------------------------------------
\* The shell command: one at a time.
ShellCommand ==
    /\ start["shell"] = "no"
    /\ start' = [start EXCEPT !["shell"] = "test"]
    /\ UNCHANGED <<echo_thread, st, auto, beacon, pool, netUp, overlap, fault>>

\* the body of rtt_udp_echo_start: "already running", or on to rt_thread_create
Bad_Test(s) ==
    /\ start[s] = "test" /\ MayRun(s)
    /\ start' = [start EXCEPT ![s] = "create"]
    /\ overlap' = (overlap \/ \E r \in Starter \ {s} : start[r] \in {"create", "startup"})
    /\ UNCHANGED <<echo_thread, st, auto, beacon, pool, netUp, fault>>
Test(s) ==
    /\ start[s] = "test" /\ MayRun(s)
    /\ IF echo_thread # Null
       THEN Returns(s) /\ UNCHANGED overlap
       ELSE /\ start' = [start EXCEPT ![s] = "create"]
            /\ overlap' = (overlap \/ \E r \in Starter \ {s} : start[r] \in {"create", "startup"})
            /\ UNCHANGED auto
    /\ UNCHANGED <<echo_thread, st, beacon, pool, netUp, fault>>

Create(s, t) ==
    /\ start[s] = "create" /\ MayRun(s)
    /\ st[t] = "free"
    /\ Goes(t, "new")
    /\ echo_thread' = t
    /\ start' = [start EXCEPT ![s] = "startup"]
    /\ UNCHANGED <<auto, beacon, pool, netUp, overlap, fault>>

\* rt_thread_create finds no memory: the handle gets its RT_NULL
CreateFails(s) ==
    /\ start[s] = "create" /\ MayRun(s)
    /\ echo_thread' = Null
    /\ Returns(s)
    /\ UNCHANGED <<st, beacon, pool, netUp, overlap, fault>>

\* rt_thread_startup asserts that its argument is a thread not started yet.
Startup(s) ==
    /\ start[s] = "startup" /\ MayRun(s)
    /\ IF echo_thread # Null /\ st[echo_thread] = "new"
       THEN Goes(echo_thread, "socket") /\ UNCHANGED fault
       ELSE fault' = TRUE /\ UNCHANGED st
    /\ Returns(s)
    /\ UNCHANGED <<echo_thread, beacon, pool, netUp, overlap>>
-----------------------------------------------------------------------------
(* rtt_udp_echo_autostart_entry *)

\* after the delay of 5 s; rtt_udp_beacon_start creates its thread, or fails and
\* is not called again
AutoBegin ==
    /\ auto = "delay" /\ MayRun("auto")
    /\ auto' = "test"
    /\ beacon' \in IF beacon = "none" THEN {"none", "idle"} ELSE {beacon}
    /\ UNCHANGED <<echo_thread, st, start, pool, netUp, overlap, fault>>

\* while (echo_thread == RT_NULL)
AutoTest ==
    /\ auto = "test" /\ MayRun("auto")
    /\ IF echo_thread = Null
       THEN auto' = "starting" /\ start' = [start EXCEPT !["auto"] = "test"]
       ELSE auto' = "done" /\ UNCHANGED start
    /\ UNCHANGED <<echo_thread, st, beacon, pool, netUp, overlap, fault>>

\* the delay of 2 s before the next test; a start made in the meantime has got as
\* far as recvfrom, or has failed
AutoWake ==
    /\ auto = "sleep" /\ MayRun("auto")
    /\ \A t \in Thread : st[t] \notin {"socket", "bind", "clear"}
    /\ auto' = "test"
    /\ UNCHANGED <<echo_thread, st, start, beacon, pool, netUp, overlap, fault>>
-----------------------------------------------------------------------------
(* rtt_udp_echo_entry *)

Bad_OpenSocket(t) ==
    /\ st[t] = "socket"
    /\ IF netUp /\ pool > 0
       THEN Goes(t, "bind") /\ pool' = pool - 1
       ELSE Goes(t, "close") /\ UNCHANGED pool
    /\ UNCHANGED <<echo_thread, start, auto, beacon, netUp, overlap, fault>>
OpenSocket(t) ==
    /\ st[t] = "socket"
    /\ IF netUp /\ pool > 0
       THEN Goes(t, "bind") /\ pool' = pool - 1
       ELSE Goes(t, "clear") /\ UNCHANGED pool
    /\ UNCHANGED <<echo_thread, start, auto, beacon, netUp, overlap, fault>>

\* bind: the port belongs to one socket; after a failure the socket is closed
Bad_Bind(t) ==
    /\ st[t] = "bind"
    /\ IF netUp /\ \A u \in Thread : st[u] \notin Serving \union {"close"}
       THEN Goes(t, "recv") ELSE Goes(t, "clear")
    /\ UNCHANGED <<pool, echo_thread, start, auto, beacon, netUp, overlap, fault>>
Bind(t) ==
    /\ st[t] = "bind"
    /\ IF netUp /\ \A u \in Thread : st[u] \notin Serving \union {"close"}
       THEN Goes(t, "recv") /\ UNCHANGED pool
       ELSE Goes(t, "clear") /\ pool' = pool + 1
    /\ UNCHANGED <<echo_thread, start, auto, beacon, netUp, overlap, fault>>

\* recvfrom returns a datagram, of any length, or fails when the stack is down
Receive(t) ==
    /\ st[t] = "recv"
    /\ Goes(t, IF netUp THEN "send" ELSE "close")
    /\ UNCHANGED <<echo_thread, start, auto, beacon, pool, netUp, overlap, fault>>

\* sendto sends it back, or fails
Send(t) ==
    /\ st[t] = "send"
    /\ Goes(t, IF netUp THEN "recv" ELSE "close")
    /\ UNCHANGED <<echo_thread, start, auto, beacon, pool, netUp, overlap, fault>>

CloseSocket(t) ==
    /\ st[t] = "close"
    /\ Goes(t, "clear") /\ pool' = pool + 1
    /\ UNCHANGED <<echo_thread, start, auto, beacon, netUp, overlap, fault>>

\* echo_thread = RT_NULL and return: whichever thread the handle names
Bad_Clear(t) ==
    /\ st[t] = "clear"
    /\ Goes(t, "free")
    /\ UNCHANGED <<echo_thread, start, auto, beacon, pool, netUp, overlap, fault>>
Clear(t) ==
    /\ st[t] = "clear"
    /\ echo_thread' = Null
    /\ Goes(t, "free")
    /\ UNCHANGED <<start, auto, beacon, pool, netUp, overlap, fault>>
-----------------------------------------------------------------------------
(* rtt_udp_beacon_entry: a socket of its own for each message *)

BeaconOpen ==
    /\ beacon = "idle" /\ netUp /\ pool > 0
    /\ beacon' = "open" /\ pool' = pool - 1
    /\ UNCHANGED <<echo_thread, st, start, auto, netUp, overlap, fault>>

BeaconClose ==
    /\ beacon = "open"
    /\ beacon' = "idle" /\ pool' = pool + 1
    /\ UNCHANGED <<echo_thread, st, start, auto, netUp, overlap, fault>>

\* The network stack comes up, or goes down for a while.
NetToggle ==
    /\ netUp' = ~netUp
    /\ UNCHANGED <<echo_thread, st, start, auto, beacon, pool, overlap, fault>>
-----------------------------------------------------------------------------
StarterStep(s) ==
    \/ Test(s) \/ CreateFails(s) \/ Startup(s)
    \/ \E t \in Thread : Create(s, t)
AutoStep == AutoBegin \/ AutoTest \/ AutoWake \/ StarterStep("auto")
EchoStep(t) ==
    OpenSocket(t) \/ Bind(t) \/ Receive(t) \/ Send(t) \/ CloseSocket(t) \/ Clear(t)

Next ==
    \/ ShellCommand \/ StarterStep("shell")
    \/ AutoStep
    \/ \E t \in Thread : EchoStep(t)
    \/ BeaconOpen \/ BeaconClose
    \/ NetToggle

Spec == Init /\ [][Next]_vars

\* The scheduler runs every thread that is not blocked.  The shell waits for an
\* operator between two commands, so the autostart thread always gets its turn
\* (SF), and memory is not refused for ever (SF on Create).  Nothing is assumed of
\* Receive, which waits for a datagram, of the operator and of the network.
Fairness ==
    /\ SF_vars(AutoStep) /\ SF_vars(\E t \in Thread : Create("auto", t))
    /\ WF_vars(StarterStep("shell"))
    /\ WF_vars(BeaconClose)
    /\ \A t \in Thread :
         WF_vars(OpenSocket(t) \/ Bind(t) \/ Send(t) \/ CloseSocket(t) \/ Clear(t))

FairSpec == Spec /\ Fairness
-----------------------------------------------------------------------------
Listening == \E t \in Thread : st[t] \in Serving

\* As long as no two starters were between the test and the startup at once,
\* echo_thread names the only echo thread there is, whatever fails and whatever is
\* started again, and no starter hands rt_thread_startup a thread that is not new.
HandleNamesThread ==
    ~overlap =>
        /\ ~fault
        /\ \A t \in Thread : st[t] \in Alive => echo_thread = t

\* rtt_udp_echo_autostart_entry: with nobody at the shell, and unless the network
\* goes down under a listening thread, the retries end with a thread that listens
\* for good, however often memory, socket or bind failed before.
EchoListens ==
    /\ [](start["shell"] = "no")
    /\ [](Listening => netUp)
    /\ <>[]netUp
    => <>[]Listening

\* The autostart thread finishes, whatever the operator does at the shell, once the
\* network stays up and no two starters overlap.
AutostartEnds == <>[]netUp /\ []~overlap => <>(auto = "done")

\* rtt_udp_echo_start and the last line of rtt_udp_echo_entry, without a lock: two
\* starters that overlap may leave a thread that the handle does not name, and a
\* second one that fails at bind and clears the handle.  Even so the retries do not
\* starve the service: once the network stays up, either the autostart comes to its
\* end, or a thread listens for good while it goes on.  Only a handle that
\* rt_thread_startup cannot start, on which RT-Thread stops, is left out.
RetriesServe == <>[]netUp /\ []~fault => <>(auto = "done") \/ <>[]Listening
=============================================================================

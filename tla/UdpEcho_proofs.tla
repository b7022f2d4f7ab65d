--------------------------- MODULE UdpEcho_proofs ---------------------------
(***************************************************************************)
(* Theorems about UdpEcho for any number of threads and sockets.           *)
(*                                                                         *)
(* HandleNamesThread is not inductive: a starter that has passed the test  *)
(* acts on what it saw.  HandleInv adds what holds while one is between    *)
(* the test and the startup.  TypeOK bounds the pool of sockets, which     *)
(* takes the count of those in use (SocketsInUse).                         *)
(***************************************************************************)
EXTENDS UdpEcho, FiniteSetTheorems, TLAPS

\* Echo threads that hold a socket.
Holding == {"bind", "recv", "send", "close"}
Holders == {t \in Thread : st[t] \in Holding}
BeaconSocket == IF beacon = "open" THEN 1 ELSE 0
SocketsInUse == pool + Cardinality(Holders) + BeaconSocket = Sockets

\* TypeOK without the bounds of pool
Typing ==
    /\ echo_thread \in Thread \union {Null}
    /\ st \in [Thread -> Alive \union {"free"}]
    /\ start \in [Starter -> {"no", "test", "create", "startup"}]
    /\ auto \in {"delay", "test", "starting", "sleep", "done"}
    /\ beacon \in {"none", "idle", "open"}
    /\ pool \in Nat
    /\ netUp \in BOOLEAN /\ overlap \in BOOLEAN /\ fault \in BOOLEAN

\* One starter at most between test and startup; what it saw still holds.
HandleInv ==
    ~overlap =>
        /\ ~fault
        /\ \A t \in Thread : st[t] \in Alive => echo_thread = t
        /\ echo_thread # Null => st[echo_thread] \in Alive
        /\ \A s \in Starter : start[s] = "create" => echo_thread = Null
        /\ \A s \in Starter : start[s] = "startup" =>
              echo_thread # Null /\ st[echo_thread] = "new"
        /\ \A s, r \in Starter :
              start[s] \in {"create", "startup"} /\ start[r] \in {"create", "startup"}
                  => s = r

\* Every variable keeps its type in every step.
LEMMA TypingStep ==
    ASSUME Typing, [Next]_vars
    PROVE  Typing'
<1> USE EchoAssumption DEF Typing, Alive, Starter
<1>1. CASE ShellCommand BY <1>1 DEF ShellCommand
<1>2. ASSUME NEW s \in Starter, Test(s) PROVE Typing'
  <2>1. UNCHANGED <<echo_thread, st, beacon, pool, netUp, fault>>
    BY <1>2 DEF Test
  <2>2. start' \in [Starter -> {"no", "test", "create", "startup"}]
    BY <1>2 DEF Test, Returns
  <2>3. auto' \in {"delay", "test", "starting", "sleep", "done"}
    BY <1>2 DEF Test, Returns
  <2>4. overlap' \in BOOLEAN
    BY <1>2, Zenon DEF Test
  <2> QED
    BY <2>1, <2>2, <2>3, <2>4
<1>3. ASSUME NEW s \in Starter, NEW t \in Thread, Create(s, t) PROVE Typing'
  BY <1>3 DEF Create, Goes
<1>4. ASSUME NEW s \in Starter, CreateFails(s) PROVE Typing'
  BY <1>4 DEF CreateFails, Returns
<1>5. ASSUME NEW s \in Starter, Startup(s) PROVE Typing'
  BY <1>5 DEF Startup, Returns, Goes
<1>6. CASE AutoBegin BY <1>6 DEF AutoBegin
<1>7. CASE AutoTest BY <1>7 DEF AutoTest
<1>8. CASE AutoWake BY <1>8 DEF AutoWake
<1>9. ASSUME NEW t \in Thread, EchoStep(t) PROVE Typing'
  <2>1. CASE OpenSocket(t) BY <2>1 DEF OpenSocket, Goes
  <2>2. CASE Bind(t) BY <2>2 DEF Bind, Goes
  <2>3. CASE Receive(t) BY <2>3 DEF Receive, Goes
  <2>4. CASE Send(t) BY <2>4 DEF Send, Goes
  <2>5. CASE CloseSocket(t) BY <2>5 DEF CloseSocket, Goes
  <2>6. CASE Clear(t) BY <2>6 DEF Clear, Goes
  <2> QED BY <1>9, <2>1, <2>2, <2>3, <2>4, <2>5, <2>6 DEF EchoStep
<1>10. CASE BeaconOpen BY <1>10 DEF BeaconOpen
<1>11. CASE BeaconClose BY <1>11 DEF BeaconClose
<1>12. CASE NetToggle BY <1>12 DEF NetToggle
<1>13. CASE UNCHANGED vars BY <1>13 DEF vars
<1> QED
  BY <1>1, <1>2, <1>3, <1>4, <1>5, <1>6, <1>7, <1>8, <1>9, <1>10, <1>11, <1>12, <1>13
  DEF Next, StarterStep, AutoStep, Starter

\* What a starter saw at the test holds until it has started its thread.
LEMMA HandleStep ==
    ASSUME Typing, HandleInv, [Next]_vars
    PROVE  HandleInv'
<1> USE EchoAssumption DEF Typing, Starter, HandleInv
<1>1. CASE ShellCommand BY <1>1 DEF ShellCommand
<1>2. ASSUME NEW s \in Starter, Test(s) PROVE HandleInv'
  <2>1. UNCHANGED <<echo_thread, st, fault>> BY <1>2 DEF Test
  <2>2. CASE echo_thread # Null
    <3>1. overlap' = overlap /\ start' = [start EXCEPT ![s] = "no"]
      BY <1>2, <2>2 DEF Test, Returns
    <3> QED BY <2>1, <3>1
  <2>3. CASE echo_thread = Null
    <3>1. /\ start' = [start EXCEPT ![s] = "create"]
          /\ overlap' = (overlap
                \/ \E r \in Starter \ {s} : start[r] \in {"create", "startup"})
      BY <1>2, <2>3 DEF Test
    <3>2. ASSUME ~overlap'
          PROVE  ~overlap /\ \A r \in Starter \ {s} : start[r] \notin {"create", "startup"}
      BY <3>1, <3>2, Zenon
    <3> QED BY <2>1, <2>3, <3>1, <3>2
  <2> QED BY <2>2, <2>3
<1>3. ASSUME NEW s \in Starter, NEW t \in Thread, Create(s, t) PROVE HandleInv'
  BY <1>3 DEF Create, Goes, Alive
<1>4. ASSUME NEW s \in Starter, CreateFails(s) PROVE HandleInv'
  BY <1>4 DEF CreateFails, Returns
<1>5. ASSUME NEW s \in Starter, Startup(s) PROVE HandleInv'
  BY <1>5 DEF Startup, Returns, Goes, Alive
<1>6. CASE AutoBegin BY <1>6 DEF AutoBegin
<1>7. CASE AutoTest BY <1>7 DEF AutoTest
<1>8. CASE AutoWake BY <1>8 DEF AutoWake
<1>9. ASSUME NEW t \in Thread, EchoStep(t) PROVE HandleInv'
  <2>1. CASE OpenSocket(t) BY <2>1 DEF OpenSocket, Goes, Alive
  <2>2. CASE Bind(t) BY <2>2 DEF Bind, Goes, Alive
  <2>3. CASE Receive(t) BY <2>3 DEF Receive, Goes, Alive
  <2>4. CASE Send(t) BY <2>4 DEF Send, Goes, Alive
  <2>5. CASE CloseSocket(t) BY <2>5 DEF CloseSocket, Goes, Alive
  <2>6. CASE Clear(t) BY <2>6 DEF Clear, Goes, Alive
  <2> QED BY <1>9, <2>1, <2>2, <2>3, <2>4, <2>5, <2>6 DEF EchoStep
<1>10. CASE BeaconOpen BY <1>10 DEF BeaconOpen
<1>11. CASE BeaconClose BY <1>11 DEF BeaconClose
<1>12. CASE NetToggle BY <1>12 DEF NetToggle
<1>13. CASE UNCHANGED vars BY <1>13 DEF vars
<1> QED
  BY <1>1, <1>2, <1>3, <1>4, <1>5, <1>6, <1>7, <1>8, <1>9, <1>10, <1>11, <1>12, <1>13
  DEF Next, StarterStep, AutoStep, Starter

\* A thread that takes a socket adds one holder, one that closes it removes one.
LEMMA HoldersChange ==
    ASSUME Typing, NEW t \in Thread, NEW next \in Alive \union {"free"}, Goes(t, next)
    PROVE  /\ IsFiniteSet(Holders) /\ Cardinality(Holders) \in Nat
           /\ st[t] \notin Holding /\ next \in Holding
                => Cardinality(Holders') = Cardinality(Holders) + 1
           /\ st[t] \in Holding /\ next \notin Holding
                => Cardinality(Holders') = Cardinality(Holders) - 1
           /\ (st[t] \in Holding <=> next \in Holding) => Holders' = Holders
<1>1. IsFiniteSet(Holders) /\ Cardinality(Holders) \in Nat
  BY FS_Subset, FS_CardinalityType, EchoAssumption DEF Holders
<1>2. st' = [st EXCEPT ![t] = next] /\ st \in [Thread -> Alive \union {"free"}]
  BY DEF Goes, Typing
<1>3. ASSUME st[t] \notin Holding, next \in Holding
      PROVE  Cardinality(Holders') = Cardinality(Holders) + 1
  <2>1. Holders' = Holders \union {t} /\ t \notin Holders BY <1>2, <1>3 DEF Holders
  <2> QED BY <1>1, <2>1, FS_AddElement
<1>4. ASSUME st[t] \in Holding, next \notin Holding
      PROVE  Cardinality(Holders') = Cardinality(Holders) - 1
  <2>1. Holders' = Holders \ {t} /\ t \in Holders BY <1>2, <1>4 DEF Holders
  <2> QED BY <1>1, <2>1, FS_RemoveElement
<1>5. ASSUME st[t] \in Holding <=> next \in Holding
      PROVE  Holders' = Holders
  BY <1>2, <1>5 DEF Holders
<1> QED BY <1>1, <1>3, <1>4, <1>5

\* Every socket that a thread takes goes back to the pool.
LEMMA SocketStep ==
    ASSUME Typing, SocketsInUse, [Next]_vars
    PROVE  SocketsInUse'
<1> DEFINE Same == UNCHANGED <<st, pool, beacon>>
<1> USE DEF Alive
<1>0. ASSUME Same PROVE SocketsInUse'
  BY <1>0 DEF SocketsInUse, Holders, BeaconSocket
<1>1. CASE ShellCommand BY <1>0, <1>1 DEF ShellCommand
<1>2. ASSUME NEW s \in Starter, Test(s) PROVE SocketsInUse'
  BY <1>0, <1>2 DEF Test
<1>3. ASSUME NEW s \in Starter, NEW t \in Thread, Create(s, t) PROVE SocketsInUse'
  <2>1. Goes(t, "new") /\ st[t] = "free" /\ UNCHANGED <<pool, beacon>>
    BY <1>3 DEF Create
  <2>2. Holders' = Holders BY <2>1, HoldersChange DEF Holding
  <2> QED BY <2>1, <2>2 DEF SocketsInUse, BeaconSocket
<1>4. ASSUME NEW s \in Starter, CreateFails(s) PROVE SocketsInUse'
  BY <1>0, <1>4 DEF CreateFails
<1>5. ASSUME NEW s \in Starter, Startup(s) PROVE SocketsInUse'
  <2>1. CASE echo_thread # Null /\ st[echo_thread] = "new"
    <3>1. echo_thread \in Thread BY <2>1 DEF Typing
    <3>2. Goes(echo_thread, "socket") /\ UNCHANGED <<pool, beacon>>
      BY <1>5, <2>1 DEF Startup
    <3>3. Holders' = Holders BY <2>1, <3>1, <3>2, HoldersChange DEF Holding
    <3> QED BY <3>2, <3>3 DEF SocketsInUse, BeaconSocket
  <2>2. CASE ~(echo_thread # Null /\ st[echo_thread] = "new")
    BY <1>0, <1>5, <2>2 DEF Startup
  <2> QED BY <2>1, <2>2
<1>6. CASE AutoBegin
  <2>1. UNCHANGED <<st, pool>> /\ BeaconSocket' = BeaconSocket
    BY <1>6 DEF AutoBegin, BeaconSocket
  <2> QED BY <2>1 DEF SocketsInUse, Holders
<1>7. CASE AutoTest BY <1>0, <1>7 DEF AutoTest
<1>8. CASE AutoWake BY <1>0, <1>8 DEF AutoWake
<1>9. ASSUME NEW t \in Thread, EchoStep(t) PROVE SocketsInUse'
  <2>0. BeaconSocket' = BeaconSocket /\ BeaconSocket \in Nat /\ pool \in Nat
        /\ Sockets \in Nat
    BY <1>9, EchoAssumption DEF EchoStep, OpenSocket, Bind, Receive, Send, CloseSocket,
                                Clear, BeaconSocket, Typing
  <2>1. ASSUME NEW next \in Alive, Goes(t, next), st[t] \notin Holding, next \in Holding,
               pool' = pool - 1
        PROVE  SocketsInUse'
    BY <2>0, <2>1, HoldersChange DEF SocketsInUse
  <2>2. ASSUME NEW next \in Alive, Goes(t, next), st[t] \in Holding, next \notin Holding,
               pool' = pool + 1
        PROVE  SocketsInUse'
    BY <2>0, <2>2, HoldersChange DEF SocketsInUse
  <2>3. ASSUME NEW next \in Alive \union {"free"}, Goes(t, next),
               st[t] \in Holding <=> next \in Holding, pool' = pool
        PROVE  SocketsInUse'
    <3>1. Holders' = Holders BY <2>3, HoldersChange
    <3> QED BY <2>0, <2>3, <3>1 DEF SocketsInUse
  <2>4. CASE OpenSocket(t) BY <2>1, <2>3, <2>4 DEF OpenSocket, Holding
  <2>5. CASE Bind(t) BY <2>2, <2>3, <2>5 DEF Bind, Holding
  <2>6. CASE Receive(t) BY <2>3, <2>6 DEF Receive, Holding
  <2>7. CASE Send(t) BY <2>3, <2>7 DEF Send, Holding
  <2>8. CASE CloseSocket(t) BY <2>2, <2>8 DEF CloseSocket, Holding
  <2>9. CASE Clear(t) BY <2>3, <2>9 DEF Clear, Holding
  <2> QED BY <1>9, <2>4, <2>5, <2>6, <2>7, <2>8, <2>9 DEF EchoStep
<1>10. CASE BeaconOpen \/ BeaconClose
  <2>1. st' = st /\ pool \in Nat /\ Sockets \in Nat
    BY <1>10, EchoAssumption DEF BeaconOpen, BeaconClose, Typing
  <2>2. Cardinality(Holders) \in Nat
    BY FS_Subset, FS_CardinalityType, EchoAssumption DEF Holders
  <2>3. Holders' = Holders BY <2>1 DEF Holders
  <2>4. CASE BeaconOpen
    <3>1. BeaconSocket = 0 /\ BeaconSocket' = 1 /\ pool' = pool - 1
      BY <2>4 DEF BeaconOpen, BeaconSocket
    <3> QED BY <2>1, <2>2, <2>3, <3>1 DEF SocketsInUse
  <2>5. CASE BeaconClose
    <3>1. BeaconSocket = 1 /\ BeaconSocket' = 0 /\ pool' = pool + 1
      BY <2>5 DEF BeaconClose, BeaconSocket
    <3> QED BY <2>1, <2>2, <2>3, <3>1 DEF SocketsInUse
  <2> QED BY <1>10, <2>4, <2>5
<1>11. CASE NetToggle BY <1>0, <1>11 DEF NetToggle
<1>12. CASE UNCHANGED vars BY <1>0, <1>12 DEF vars
<1> QED
  BY <1>1, <1>2, <1>3, <1>4, <1>5, <1>6, <1>7, <1>8, <1>9, <1>10, <1>11, <1>12
  DEF Next, StarterStep, AutoStep, Starter

EchoInv == Typing /\ HandleInv /\ SocketsInUse

\* The state before INIT_APP_EXPORT has run the autostart thread.
LEMMA EchoInit == ASSUME Init PROVE EchoInv
<1>1. Typing BY EchoAssumption DEF Init, Typing, Starter
<1>2. HandleInv BY DEF Init, HandleInv, Alive
<1>3. SocketsInUse
  <2>1. Holders = {} BY DEF Init, Holders, Holding
  <2>2. Cardinality(Holders) = 0 BY <2>1, FS_EmptySet
  <2> QED BY <2>2, EchoAssumption DEF Init, SocketsInUse, BeaconSocket
<1> QED BY <1>1, <1>2, <1>3 DEF EchoInv

\* EchoInv holds in every reachable state.
LEMMA EchoInvariant == Spec => []EchoInv
<1>1. EchoInv /\ [Next]_vars => EchoInv'
  BY TypingStep, HandleStep, SocketStep DEF EchoInv
<1> QED BY EchoInit, <1>1, PTL DEF Spec

\* Every variable keeps its type, and the pool of sockets never runs over or under:
\* each thread and the beacon give back what they take, on every path.
THEOREM EchoTypeCorrect == Spec => []TypeOK
<1>1. ASSUME EchoInv PROVE TypeOK
  <2>1. Cardinality(Holders) \in Nat
    BY FS_Subset, FS_CardinalityType, EchoAssumption DEF Holders
  <2>2. pool \in 0 .. Sockets
    BY <1>1, <2>1, EchoAssumption DEF EchoInv, Typing, SocketsInUse, BeaconSocket
  <2> QED BY <1>1, <2>2 DEF EchoInv, Typing, TypeOK
<1> QED BY <1>1, EchoInvariant, PTL

\* For any number of threads: while no two starters overlap, echo_thread names the
\* only echo thread, and rt_thread_startup gets a thread that is new.
THEOREM HandleNamesTheThread == Spec => []HandleNamesThread
<1>1. EchoInv => HandleNamesThread BY DEF EchoInv, HandleInv, HandleNamesThread
<1> QED BY <1>1, EchoInvariant, PTL
=============================================================================

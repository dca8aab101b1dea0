-------------------------- MODULE MameBridgeProofs --------------------------
(***************************************************************************)
(* Theorems about the bridge's threads for any set of handlers.            *)
(***************************************************************************)
EXTENDS MameBridge, TLAPS

\* The bridge starts with no socket and the lock free (mame_bridge.py:503-509).
LEMMA InitInv == Init => BridgeInv
BY BridgeAssumption
   DEF Init, BridgeInv, TypeOK, LockInv, SockInv, PubInv, StatusInv, PftdNeedsConnection, At,
       DetectLabels, HandlerLabels, AnswerKinds

\* A step of the world only ever turns an open socket into a dead one.
LEMMA WorldInv == BridgeInv /\ World => BridgeInv'
<1> SUFFICES ASSUME BridgeInv, World PROVE BridgeInv'
  OBVIOUS
<1>1. /\ mame' \in BOOLEAN /\ rom' \in BOOLEAN /\ resident' \in BOOLEAN
      /\ sock' \in {sock, "dead"} /\ (sock = "none" => sock' = "none")
      /\ UNCHANGED <<lock, pubVars, dpc, localVars, handVars>>
  BY DEF World, MameExits, MameStarts, PortfolioChanges, BridgeInv, TypeOK
<1> USE <1>1 DEF pubVars, statVars, localVars, handVars
<1>2. TypeOK'
  BY DEF BridgeInv, TypeOK
<1>3. LockInv'
  BY DEF BridgeInv, LockInv, At
<1>4. SockInv'
  BY DEF BridgeInv, SockInv, TypeOK
<1>5. PubInv'
  BY DEF BridgeInv, PubInv, PftdNeedsConnection
<1>6. StatusInv'
  BY DEF BridgeInv, StatusInv
<1> QED
  BY <1>2, <1>3, <1>4, <1>5, <1>6 DEF BridgeInv

\* A write to an attribute leaves the reader where it is.
LEMMA PublishedTyped ==
  Published => steady' \in BOOLEAN /\ reader' = reader /\ saw' = saw
BY Zenon DEF Published

\* The loop, and only the loop, opens and closes the socket, and it finds the
\* one it has looked at still there once it has the lock.
LEMMA DetectInv == BridgeInv /\ DetectLoop => BridgeInv'
<1> SUFFICES ASSUME BridgeInv, DetectLoop PROVE BridgeInv'
  OBVIOUS
<1> USE BridgeAssumption
    DEF worldVars, pubVars, statVars, localVars, handVars, Acquire, Release, Published, BridgeInv
<1>1. TypeOK'
  <2> HIDE DEF Published
  <2> USE DEF TypeOK, DetectLabels
  <2>1. CASE Top \/ TakeLock \/ RetakeLock \/ Connect
    BY <2>1 DEF Top, TakeLock, RetakeLock, Connect
  <2>2. CASE Publish \/ PublishPftd \/ Clear \/ ClearPftd
    <3>1. steady' \in BOOLEAN /\ reader' = reader /\ saw' = saw
      BY <2>2, PublishedTyped, Zenon DEF Publish, PublishPftd, Clear, ClearPftd
    <3>2. /\ connected' \in BOOLEAN /\ pftd' \in BOOLEAN
          /\ dConn' \in BOOLEAN /\ dPftd' \in BOOLEAN /\ dpc' \in DetectLabels
          /\ UNCHANGED <<mame, rom, resident, sock, lock, hpc, answer>>
      BY <2>2 DEF Publish, PublishPftd, Clear, ClearPftd
    <3> QED
      BY <3>1, <3>2
  <2>3. CASE Probe
    BY <2>3 DEF Probe, LinkLost, LoopDies, PftdAfterProbe
  <2>4. CASE Hello
    BY <2>4 DEF Hello, LinkLost, LoopDies
  <2> QED
    BY <2>1, <2>2, <2>3, <2>4 DEF DetectLoop
<1>2. LockInv'
  <2> USE DEF LockInv, At
  <2>1. CASE TakeLock \/ RetakeLock
    BY <2>1 DEF TakeLock, RetakeLock
  <2>2. CASE Top \/ Clear \/ ClearPftd \/ Publish \/ PublishPftd
    BY <2>2 DEF Top, Clear, ClearPftd, Publish, PublishPftd
  <2>3. CASE Probe \/ Hello \/ Connect
    BY <2>3 DEF Probe, Hello, Connect, LinkLost, LoopDies
  <2> QED
    BY <2>1, <2>2, <2>3 DEF DetectLoop
<1>3. SockInv'
  BY DEF DetectLoop, SockInv, Top, TakeLock, RetakeLock, Clear, ClearPftd, Publish,
         PublishPftd, Connect, Probe, Hello, LinkLost, LoopDies
<1>4. PubInv'
  <2> USE DEF PubInv, PftdNeedsConnection, TypeOK
  <2>1. CASE Top \/ TakeLock \/ RetakeLock \/ Clear \/ ClearPftd
    BY <2>1 DEF Top, TakeLock, RetakeLock, Clear, ClearPftd
  <2>2. CASE Publish \/ PublishPftd \/ Connect
    BY <2>2 DEF Publish, PublishPftd, Connect
  <2>3. CASE Probe
    BY <2>3 DEF Probe, LinkLost, LoopDies, PftdAfterProbe, SockInv
  <2>4. CASE Hello
    BY <2>4 DEF Hello, LinkLost, LoopDies, SockInv
  <2> QED
    BY <2>1, <2>2, <2>3, <2>4 DEF DetectLoop
<1>5. StatusInv'
  BY DEF StatusInv, TypeOK, DetectLoop, Top, TakeLock, RetakeLock, Clear, ClearPftd, Publish,
         PublishPftd, Connect, Probe, Hello
<1> QED
  BY <1>1, <1>2, <1>3, <1>4, <1>5 DEF BridgeInv

\* A GET /status reads the two attributes and writes nothing of anyone's.
LEMMA ReaderInv == BridgeInv /\ Status => BridgeInv'
<1> SUFFICES ASSUME BridgeInv, Status PROVE BridgeInv'
  OBVIOUS
<1>1. /\ UNCHANGED <<worldVars, sock, lock, connected, pftd, dpc, localVars, handVars>>
      /\ reader' \in {"idle", "second"} /\ saw' \in BOOLEAN /\ steady' \in BOOLEAN
  BY DEF Status, ReadConnected, ReadPftd, BridgeInv, TypeOK
<1> USE <1>1 DEF worldVars, localVars, handVars
<1>2. TypeOK'
  BY DEF BridgeInv, TypeOK
<1>3. LockInv'
  BY DEF BridgeInv, LockInv, At
<1>4. SockInv' /\ PubInv'
  BY DEF BridgeInv, SockInv, PubInv, PftdNeedsConnection
<1>5. StatusInv'
  BY DEF Status, ReadConnected, ReadPftd, StatusInv
<1> QED
  BY <1>2, <1>3, <1>4, <1>5 DEF BridgeInv

\* A handler takes and releases the lock and touches nothing of the loop's.
LEMMA HandlerInv == BridgeInv /\ (\E h \in Handlers : Post(h) \/ Handler(h)) => BridgeInv'
<1> SUFFICES ASSUME BridgeInv, NEW h \in Handlers, Post(h) \/ Handler(h) PROVE BridgeInv'
  OBVIOUS
<1> USE BridgeAssumption
    DEF worldVars, pubVars, statVars, localVars, handVars, Acquire, Release, BridgeInv,
        At, Moves, Answers
<1>1. UNCHANGED <<worldVars, sock, pubVars, dpc, localVars>>
  BY DEF Post, Handler, Check, WaitLock, Transfer
<1>2. TypeOK'
  BY <1>1 DEF TypeOK, HandlerLabels, AnswerKinds, Post, Handler, Check, WaitLock, Transfer
<1>3. LockInv'
  BY <1>1 DEF TypeOK, LockInv, Post, Handler, Check, WaitLock, Transfer
<1>4. SockInv' /\ PubInv' /\ StatusInv'
  BY <1>1 DEF SockInv, PubInv, StatusInv, PftdNeedsConnection
<1> QED
  BY <1>2, <1>3, <1>4 DEF BridgeInv

\* Every step, the world's included, keeps the invariant.
LEMMA StepInv == BridgeInv /\ [Next]_vars => BridgeInv'
<1> SUFFICES ASSUME BridgeInv, [Next]_vars PROVE BridgeInv'
  OBVIOUS
<1>1. CASE UNCHANGED vars
  BY <1>1 DEF vars, worldVars, pubVars, statVars, localVars, handVars, BridgeInv, TypeOK,
              LockInv, SockInv, PubInv, StatusInv, PftdNeedsConnection, At
<1> QED
  BY <1>1, WorldInv, DetectInv, ReaderInv, HandlerInv DEF Next

\* The lock is held by whoever uses the link, the socket the detect loop looked
\* at is there when it gets the lock, and what it publishes hangs together.
THEOREM BridgeInvariant == Spec => []BridgeInv
BY InitInv, StepInv, PTL DEF Spec

\* The detect loop is never killed by a socket that vanished between its
\* unlocked look at link.connected and its use of the link.
THEOREM DetectSurvivesHolds == Spec => []DetectSurvives
<1>1. BridgeInv => DetectSurvives
  BY DEF BridgeInv, SockInv, DetectSurvives
<1> QED
  BY <1>1, BridgeInvariant, PTL

\* /status, which reads the two attributes without the lock, answers a driver
\* without a connection only if one of them was written between its reads, or a
\* publication is half-way.
THEOREM StatusIsConsistentHolds == Spec => StatusIsConsistent
<1> DEFINE Consistent == ReadPftd /\ pftd /\ ~saw =>
                           ~steady \/ dpc \in {"publish_pftd", "clear_pftd"}
<1>1. BridgeInv => [Consistent]_vars
  BY DEF BridgeInv, TypeOK, PubInv, PftdNeedsConnection, StatusInv, ReadPftd
<1>2. [][Consistent]_vars <=> StatusIsConsistent
  BY PTL DEF StatusIsConsistent
<1> QED
  BY <1>1, <1>2, BridgeInvariant, PTL

\* No step closes or replaces the socket a handler is using.
THEOREM SocketStableInUseHolds == Spec => SocketStableInUse
<1> DEFINE Stable == (\E h \in Handlers : At(h, "transfer")) => sock' \in {sock, "dead"}
<1>1. ASSUME BridgeInv, [Next]_vars PROVE [Stable]_vars
  <2> SUFFICES ASSUME Next, NEW h \in Handlers, At(h, "transfer") PROVE sock' \in {sock, "dead"}
    BY <1>1
  <2>1. lock = h /\ h # Detect
    BY <1>1, BridgeAssumption DEF BridgeInv, LockInv
  <2>2. CASE World
    BY <2>2 DEF World, MameExits, MameStarts, PortfolioChanges
  <2>3. CASE DetectLoop
    <3>1. dpc \notin {"probe", "hello", "connect"}
      BY <1>1, <2>1 DEF BridgeInv, LockInv
    <3> QED
      BY <2>3, <3>1 DEF DetectLoop, Top, TakeLock, RetakeLock, Clear, ClearPftd, Publish,
                        PublishPftd, Probe, Hello, Connect
  <2>4. CASE Status \/ \E k \in Handlers : Post(k) \/ Handler(k)
    BY <2>4 DEF Status, ReadConnected, ReadPftd, Post, Handler, Check, WaitLock, Transfer
  <2> QED
    BY <2>2, <2>3, <2>4 DEF Next
<1>2. [][Stable]_vars <=> SocketStableInUse
  BY PTL DEF SocketStableInUse
<1> QED
  BY <1>1, <1>2, BridgeInvariant, PTL DEF Spec

=============================================================================

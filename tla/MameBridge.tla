----------------------------- MODULE MameBridge -----------------------------
(***************************************************************************)
(* The threads of tools/mame_bridge.py around one TCP connection to MAME:  *)
(* the background loop that keeps the connection and publishes `connected` *)
(* and `pftd` (BridgeState), and the request handlers of the HTTP server,  *)
(* one thread each, which look at `connected` and then use the connection. *)
(* What a handler sends over the connection is BridgeSession's subject.    *)
(* GET /status takes no lock: it reads the two attributes one after the    *)
(* other.  Readers write nothing, so one of them stands for any number.    *)
(*                                                                         *)
(* MameLink's own lock is only taken under BridgeState's, so one lock is   *)
(* modelled.  A step is what runs between two points another thread or     *)
(* MAME can slip in at: an acquire, an exchange over the socket, a write   *)
(* to a published attribute.                                               *)
(***************************************************************************)
EXTENDS Integers, FiniteSets

CONSTANTS
  Handlers,     \* the threads of the HTTP server
  Detect,       \* the detect loop's thread, as the lock's holder
  Nobody        \* the lock is free

ASSUME BridgeAssumption == Detect \notin Handlers /\ Nobody \notin Handlers \cup {Detect}

VARIABLES
  mame,         \* MAME's smartcable port accepts connections
  rom,          \* the Portfolio's File Transfer Server answers
  resident,     \* PFTD is installed on the Portfolio
  sock,         \* link._sock: "none", "open", or "dead": open, the peer gone
  lock,         \* who holds state.lock
  connected,    \* state.connected
  pftd,         \* state.pftd is not None
  reader,       \* where a GET /status is: "idle", or before its "second" read
  saw,          \* the `connected` it has read
  steady,       \* history: neither attribute has changed since that read
  dpc,          \* where the detect loop is
  dConn, dPftd, \* its locals connected and pftd, FALSE when they are not in use
  hpc,          \* where each handler is
  answer        \* what each handler's last request got, "none" while one runs

worldVars == <<mame, rom, resident>>
statVars  == <<reader, saw, steady>>
pubVars   == <<connected, pftd, statVars>>
localVars == <<dConn, dPftd>>
handVars  == <<hpc, answer>>
vars == <<worldVars, sock, lock, pubVars, dpc, localVars, handVars>>

DetectLabels == {"top", "lock", "probe", "hello", "publish", "publish_pftd",
                 "clear", "clear_pftd", "relock", "connect", "crashed"}
HandlerLabels == {"idle", "check", "lock", "transfer"}

\* reported: how an exchange went (200, 404 not found, 500, 502).  refused: none
\* took place or the link broke (404 no such path, 400, 503 not connected).
\* dropped: the handler raised, and the client saw its connection close.
AnswerKinds == {"none", "reported", "refused", "dropped"}

Init ==
  /\ mame \in BOOLEAN /\ rom \in BOOLEAN /\ resident \in BOOLEAN
  /\ sock = "none" /\ lock = Nobody
  /\ connected = FALSE /\ pftd = FALSE
  /\ reader = "idle" /\ saw = FALSE /\ steady = FALSE
  /\ dpc = "top" /\ dConn = FALSE /\ dPftd = FALSE
  /\ hpc = [h \in Handlers |-> "idle"] /\ answer = [h \in Handlers |-> "none"]

Acquire(who) == lock = Nobody /\ lock' = who
Release == lock' = Nobody

\* What a write to a published attribute means to a reader half-way.
Published ==
  /\ steady' = (steady /\ connected' = connected /\ pftd' = pftd)
  /\ UNCHANGED <<reader, saw>>

-----------------------------------------------------------------------------
(* The world: MAME, the Portfolio in it, and the driver on the Portfolio *)

MameExits ==
  /\ mame /\ mame' = FALSE
  /\ sock' = IF sock = "open" THEN "dead" ELSE sock
  /\ UNCHANGED <<rom, resident, lock, pubVars, dpc, localVars, handVars>>

MameStarts ==
  /\ ~mame /\ mame' = TRUE
  /\ UNCHANGED <<rom, resident, sock, lock, pubVars, dpc, localVars, handVars>>

\* The server is switched on or off, the driver installed or gone.
PortfolioChanges ==
  /\ rom' \in BOOLEAN /\ resident' \in BOOLEAN
  /\ UNCHANGED <<mame, sock, lock, pubVars, dpc, localVars, handVars>>

World == MameExits \/ MameStarts \/ PortfolioChanges

-----------------------------------------------------------------------------
(* The detect loop *)

\* `if not self.link.connected`, read without the lock.
Top ==
  /\ dpc = "top"
  /\ dpc' = IF sock = "none" THEN "clear" ELSE "lock"
  /\ UNCHANGED <<worldVars, sock, lock, pubVars, localVars, handVars>>

TakeLock ==
  /\ dpc = "lock" /\ Acquire(Detect)
  /\ dpc' = "probe"
  /\ UNCHANGED <<worldVars, sock, pubVars, localVars, handVars>>

\* Mutant: MameLinkDown is not caught.
LinkLostUncaught ==
  /\ sock = "dead" /\ dpc' = "crashed"
  /\ Release
  /\ UNCHANGED <<sock, localVars>>

\* MameLinkDown inside the loop: the socket is closed, nothing is connected.
LinkLost ==
  /\ sock = "dead" /\ sock' = "none"
  /\ dConn' = FALSE /\ dPftd' = FALSE
  /\ Release /\ dpc' = "publish"

\* Using a socket that is None raises AttributeError, which nothing catches.
LoopDies ==
  /\ sock = "none" /\ dpc' = "crashed"
  /\ Release
  /\ UNCHANGED <<sock, localVars>>

\* Mutant: without the branch that forgets pftd on a lost Portfolio.
PftdKept(seen) == pftd
PftdAfterProbe(seen) == seen /\ pftd

\* detect_once: does the ROM broadcast its 'Z'?
Probe ==
  /\ dpc = "probe"
  /\ \/ LinkLost
     \/ LoopDies
     \/ /\ sock = "open"
        /\ dConn' = rom /\ dPftd' = PftdAfterProbe(rom)
        /\ IF rom /\ ~connected THEN dpc' = "hello" /\ UNCHANGED lock
           ELSE dpc' = "publish" /\ Release
        /\ UNCHANGED sock
  /\ UNCHANGED <<worldVars, pubVars, handVars>>

\* hello(), on the edge to connected only, and a single attempt that may miss.
Hello ==
  /\ dpc = "hello"
  /\ \/ LinkLost
     \/ LoopDies
     \/ /\ sock = "open"
        /\ dPftd' \in {FALSE, rom /\ resident}
        /\ Release /\ dpc' = "publish"
        /\ UNCHANGED <<sock, dConn>>
  /\ UNCHANGED <<worldVars, pubVars, handVars>>

\* The result is published after the lock is gone, one attribute at a time.
Publish ==
  /\ dpc = "publish" /\ dpc' = "publish_pftd"
  /\ connected' = dConn /\ UNCHANGED pftd /\ Published
  /\ UNCHANGED <<worldVars, sock, lock, localVars, handVars>>

PublishPftd ==
  /\ dpc = "publish_pftd" /\ dpc' = "top"
  /\ pftd' = dPftd /\ UNCHANGED connected /\ Published
  /\ dConn' = FALSE /\ dPftd' = FALSE
  /\ UNCHANGED <<worldVars, sock, lock, handVars>>

\* _reconnect_to_mame.
Clear ==
  /\ dpc = "clear" /\ dpc' = "clear_pftd"
  /\ connected' = FALSE /\ UNCHANGED pftd /\ Published
  /\ UNCHANGED <<worldVars, sock, lock, localVars, handVars>>

ClearPftd ==
  /\ dpc = "clear_pftd" /\ dpc' = "relock"
  /\ pftd' = FALSE /\ UNCHANGED connected /\ Published
  /\ UNCHANGED <<worldVars, sock, lock, localVars, handVars>>

\* Mutant: connect() without the lock.
TakeNoLock ==
  /\ dpc = "relock" /\ dpc' = "connect"
  /\ UNCHANGED <<worldVars, sock, lock, pubVars, localVars, handVars>>

RetakeLock ==
  /\ dpc = "relock" /\ Acquire(Detect)
  /\ dpc' = "connect"
  /\ UNCHANGED <<worldVars, sock, pubVars, localVars, handVars>>

\* Mutant: a refused connection ends the loop.
ConnectOnce ==
  /\ dpc = "connect" /\ dpc' = IF mame THEN "top" ELSE "crashed"
  /\ sock' = IF mame THEN "open" ELSE sock
  /\ Release
  /\ UNCHANGED <<worldVars, pubVars, localVars, handVars>>

\* A refused connection leaves the socket as it was; the loop comes back.
Connect ==
  /\ dpc = "connect" /\ dpc' = "top"
  /\ sock' = IF mame THEN "open" ELSE sock
  /\ Release
  /\ UNCHANGED <<worldVars, pubVars, localVars, handVars>>

DetectLoop == \/ Top \/ TakeLock \/ Probe \/ Hello \/ Publish \/ PublishPftd
              \/ Clear \/ ClearPftd \/ RetakeLock \/ Connect

-----------------------------------------------------------------------------
(* The handlers of POST /sendRaw, /uploadFile and /downloadFile *)

At(h, label) == hpc[h] = label
Moves(h, label) == hpc' = [hpc EXCEPT ![h] = label]
Answers(h, kind) == answer' = [answer EXCEPT ![h] = kind] /\ Moves(h, "idle")

Post(h) ==
  /\ At(h, "idle") /\ Moves(h, "check")
  /\ answer' = [answer EXCEPT ![h] = "none"]
  /\ UNCHANGED <<worldVars, sock, lock, pubVars, dpc, localVars>>

\* The path, then `if not state.connected`, read without the lock, then the
\* body: each may turn the request away.
Check(h) ==
  /\ At(h, "check")
  /\ \/ connected /\ Moves(h, "lock") /\ UNCHANGED answer
     \/ Answers(h, "refused")
  /\ UNCHANGED <<worldVars, sock, lock, pubVars, dpc, localVars>>

WaitLock(h) ==
  /\ At(h, "lock") /\ Acquire(h)
  /\ Moves(h, "transfer")
  /\ UNCHANGED <<worldVars, sock, pubVars, dpc, localVars, answer>>

\* Mutant: the handler closes the link it found dead.
TransferCloses(h) ==
  /\ At(h, "transfer")
  /\ Answers(h, CASE sock = "none" -> "dropped" [] sock = "dead" -> "refused"
                  [] sock = "open" -> "reported")
  /\ sock' = IF sock = "dead" THEN "none" ELSE sock
  /\ Release
  /\ UNCHANGED <<worldVars, pubVars, dpc, localVars>>

\* Mutant: an exception leaves the lock taken.
TransferKeepsLock(h) ==
  /\ At(h, "transfer")
  /\ \/ sock # "open" /\ Answers(h, "refused") /\ UNCHANGED lock
     \/ sock = "open" /\ Answers(h, "reported") /\ Release
  /\ UNCHANGED <<worldVars, sock, pubVars, dpc, localVars>>

\* The whole exchange, under the lock, and its answer.  MameLinkDown becomes a
\* 503 and leaves the dead socket to the detect loop.
Transfer(h) ==
  /\ At(h, "transfer")
  /\ \/ sock = "none" /\ Answers(h, "dropped")
     \/ sock = "dead" /\ Answers(h, "refused")
     \/ sock = "open" /\ Answers(h, "reported")
  /\ Release
  /\ UNCHANGED <<worldVars, sock, pubVars, dpc, localVars>>

Handler(h) == Check(h) \/ WaitLock(h) \/ Transfer(h)

-----------------------------------------------------------------------------
(* GET /status: {"connected": state.connected, "pftd": state.pftd} *)

ReadConnected ==
  /\ reader = "idle" /\ reader' = "second"
  /\ saw' = connected /\ steady' = TRUE
  /\ UNCHANGED <<worldVars, sock, lock, connected, pftd, dpc, localVars, handVars>>

\* The answer is what it saw and what pftd is now.
ReadPftd ==
  /\ reader = "second" /\ reader' = "idle"
  /\ saw' = FALSE /\ steady' = FALSE
  /\ UNCHANGED <<worldVars, sock, lock, connected, pftd, dpc, localVars, handVars>>

Status == ReadConnected \/ ReadPftd

Next == World \/ DetectLoop \/ Status \/ \E h \in Handlers : Post(h) \/ Handler(h)

Spec == Init /\ [][Next]_vars

\* Threads that can run do run.  The lock is released for 100 ms or more in
\* each turn of the loop and by each handler, so a thread waiting for it gets
\* it in the end: strong fairness for the acquires.
FairSpec ==
  /\ Spec
  /\ WF_vars(DetectLoop) /\ SF_vars(TakeLock) /\ SF_vars(RetakeLock)
  /\ \A h \in Handlers : WF_vars(Check(h) \/ Transfer(h)) /\ SF_vars(WaitLock(h))

-----------------------------------------------------------------------------
(* Properties *)

TypeOK ==
  /\ mame \in BOOLEAN /\ rom \in BOOLEAN /\ resident \in BOOLEAN
  /\ sock \in {"none", "open", "dead"}
  /\ lock \in Handlers \cup {Detect, Nobody}
  /\ connected \in BOOLEAN /\ pftd \in BOOLEAN
  /\ reader \in {"idle", "second"} /\ saw \in BOOLEAN /\ steady \in BOOLEAN
  /\ dpc \in DetectLabels /\ dConn \in BOOLEAN /\ dPftd \in BOOLEAN
  /\ hpc \in [Handlers -> HandlerLabels] /\ answer \in [Handlers -> AnswerKinds]

\* The background loop never dies of an exception ("an uncaught exception here
\* would silently kill it", mame_bridge.py:559): it reads link.connected before
\* it has the lock and relies on nobody else closing the socket meanwhile.
DetectSurvives == dpc # "crashed"

\* While a handler exchanges bytes its socket is neither closed nor replaced.
SocketStableInUse ==
  [][(\E h \in Handlers : At(h, "transfer")) => sock' \in {sock, "dead"}]_vars

\* The attributes, whoever reads them: no driver is published without a
\* connection, except between the two writes of one publication.
PftdNeedsConnection ==
  pftd => connected \/ dpc \in {"publish_pftd", "clear_pftd"}

\* /status answers {connected: false, pftd: a driver} only if an attribute was
\* written between its two reads, or a publication is half-way as it answers.
StatusIsConsistent ==
  [][ReadPftd /\ pftd /\ ~saw =>
       ~steady \/ dpc \in {"publish_pftd", "clear_pftd"}]_vars

\* With MAME up and the server on for good, the bridge connects, from whatever
\* state it was in, and stays connected.
Connects == <>[](mame /\ rom) => <>[]connected

\* With MAME gone or the server off for good, `connected` and `pftd` are
\* withdrawn, and stay so.
Disconnects == <>[](~mame \/ ~rom) => <>[](~connected /\ ~pftd)

\* Every request ends, whatever becomes of MAME while it waits.
RequestsEnd == \A h \in Handlers : (At(h, "check") ~> At(h, "idle"))

\* mame_bridge.py:621-624: a request during which MAME's port dies is reported
\* "the same as not connected rather than a 500": it gets an answer.
RequestsAreAnswered == \A h \in Handlers : answer[h] # "dropped"

-----------------------------------------------------------------------------
(* The inductive invariant behind the safety properties *)

\* Who is in a critical section holds the lock.
LockInv ==
  /\ lock = Detect <=> dpc \in {"probe", "hello", "connect"}
  /\ \A h \in Handlers : lock = h <=> At(h, "transfer")

\* What the loop knows of the socket, with the lock or without.
SockInv ==
  /\ dpc \in {"lock", "probe", "hello"} => sock # "none"
  /\ dpc # "crashed"

\* What is published, and what is about to be.
PubInv ==
  /\ PftdNeedsConnection
  /\ dpc = "hello" => dConn
  /\ dpc \in {"publish", "publish_pftd"} => (dPftd => dConn)
  /\ dpc = "publish_pftd" => connected = dConn
  /\ dpc = "clear_pftd" => ~connected

\* What a reader half-way has, unless it is out of date.
StatusInv == reader = "second" /\ steady => saw = connected

BridgeInv == TypeOK /\ LockInv /\ SockInv /\ PubInv /\ StatusInv

=============================================================================

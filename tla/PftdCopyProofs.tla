--------------------------- MODULE PftdCopyProofs ---------------------------
(***************************************************************************)
(* Theorems about the stepwise COPY for every set of paths, handles, file  *)
(* sizes and faulty calls, and every number of requests.                   *)
(***************************************************************************)
EXTENDS PftdCopy, TLAPS

\* The driver is installed with no command in hand.
LEMMA InitType == Init => TypeOK
<1> SUFFICES ASSUME Init PROVE TypeOK
  OBVIOUS
<1>1. AnyPath \in Paths /\ AnyHandle \in Handles
  BY CopyAssumption DEF AnyPath, AnyHandle
<1>2. fs \in [Paths -> Files]
  <2>1. fs \in [Paths -> [data : Paths, len : Sizes \cup {0}, attr : Attrs]]
    BY DEF Init
  <2>2. [data : Paths, len : Sizes \cup {0}, attr : Attrs] \subseteq Files
    <3> SUFFICES ASSUME NEW f \in [data : Paths, len : Sizes \cup {0}, attr : Attrs]
                 PROVE  f \in Files
      OBVIOUS
    <3>1. f.len \in Sizes \cup {0}
      OBVIOUS
    <3>2. Sizes \subseteq Nat
      BY CopyAssumption
    <3>3. f.len \in Nat
      <4>1. CASE f.len \in Sizes
        BY <4>1, <3>2, Zenon
      <4>2. CASE f.len = 0
        BY <4>2
      <4> QED
        BY <3>1, <4>1, <4>2
    <3> QED
      BY <3>3 DEF Files
  <2> QED
    BY <2>1, <2>2
<1>3. pc = "idle" /\ orig = fs /\ openH = {} /\ lost = {} /\ critical = FALSE /\ hit = {}
      /\ src = AnyPath /\ dst = AnyPath /\ srcH = AnyHandle /\ dstH = AnyHandle
      /\ attr = "absent" /\ pos = 0 /\ rd = 0 /\ total = 0 /\ done = 0 /\ shown = 0
      /\ status = Ok /\ errcode = 0 /\ copies = 0
  BY DEF Init
<1>4. 0 \in 0..MaxCopies /\ 0 \in 0..BufSize /\ 0 \in 0..WordMod - 1 /\ 0 \in 0..100
  BY CopyAssumption DEF BufSize, WordMod
<1> QED
  BY <1>1, <1>2, <1>3, <1>4 DEF TypeOK, Labels, Attrs, Errcodes

\* What a DOS call leaves in critical_error_flag and in the history.
LEMMA Int21Type ==
  ASSUME TypeOK, NEW call \in Calls, NEW before \in BOOLEAN,
         \E fault \in BOOLEAN : Int21(call, before, fault)
  PROVE  critical' \in BOOLEAN /\ hit' \subseteq Calls
BY DEF TypeOK, Int21

\* A word counts up to a natural number.
LEMMA WordModType == WordMod \in Nat /\ WordMod > 0
BY DEF WordMod

\* A size kept in a 16-bit word.
LEMMA SizeWordType == ASSUME NEW n \in Nat PROVE SizeWord(n) \in 0..WordMod - 1
<1>1. ASSUME NEW m \in Nat, m > 0 PROVE n % m \in 0..m - 1
  BY <1>1
<1> QED
  BY <1>1, WordModType DEF SizeWord

\* gui_progress clamps what it is given to 100 (gui.inc:355-357).
LEMMA BarPercentType == ASSUME NEW q \in Int PROVE BarPercent(q) \in 0..100
BY DEF BarPercent

\* A file on a well-typed disk.
LEMMA FileType == ASSUME TypeOK, NEW p \in Paths
                  PROVE  fs[p] \in Files /\ fs[p].len \in Nat /\ fs[p].attr \in Attrs
                         /\ fs[p].data \in Paths
BY DEF TypeOK, Files

\* A step that rewrites only the length of the destination keeps the disk typed.
LEMMA LengthType == ASSUME TypeOK, NEW n \in Nat
                    PROVE  [fs EXCEPT ![dst].len = n] \in [Paths -> Files]
<1>1. dst \in Paths /\ fs \in [Paths -> Files]
  BY DEF TypeOK
<1>2. [fs[dst] EXCEPT !.len = n] \in Files
  BY FileType, <1>1 DEF Files
<1> QED
  BY <1>1, <1>2

\* Every label of dispatch_copy keeps the variables well typed.
LEMMA StepType == TypeOK /\ [Next]_vars => TypeOK'
<1> SUFFICES ASSUME TypeOK, [Next]_vars PROVE TypeOK'
  OBVIOUS
<1> USE DEF Goto, jobVars, heldVars, progVars, respVars
<1>1. ASSUME NEW s \in Paths, NEW d \in Paths, Request(s, d) PROVE TypeOK'
  BY <1>1, CopyAssumption DEF Request, Labels, TypeOK
<1>2. CASE FindFirst
  <2>1. critical' \in BOOLEAN /\ hit' \subseteq Calls
    <3>1. \E fault \in BOOLEAN : Int21("find", critical, fault)
      BY <1>2 DEF FindFirst
    <3> QED
      BY <3>1, Int21Type DEF Calls, TypeOK
  <2>2. attr' \in Attrs /\ total' \in 0..WordMod - 1 /\ done' \in 0..WordMod - 1
    <3>1. \/ UNCHANGED <<attr, total, done>>
          \/ \E p \in Paths : attr' = fs[p].attr /\ total' = SizeWord(fs[p].len) /\ done' = 0
      BY <1>2 DEF FindFirst, TypeOK
    <3>2. 0 \in 0..WordMod - 1
      BY DEF WordMod
    <3> QED
      BY <3>1, <3>2, FileType, SizeWordType DEF TypeOK
  <2>3. pc' \in Labels /\ status' \in {Ok, Err} /\ errcode' \in Errcodes
    BY <1>2 DEF FindFirst, Labels, ErrorResponse, Errcodes, TypeOK
  <2>4. UNCHANGED <<fs, openH, jobVars, heldVars, pos, shown, rd, lost>>
    BY <1>2 DEF FindFirst
  <2> QED
    BY <2>1, <2>2, <2>3, <2>4 DEF TypeOK
<1>3. CASE OpenSource
  <2>1. critical' \in BOOLEAN /\ hit' \subseteq Calls
    <3>1. \E fault \in BOOLEAN : Int21("open", ClearedFlag, fault)
      BY <1>3 DEF OpenSource
    <3> QED
      BY <3>1, Int21Type DEF Calls, ClearedFlag
  <2>2. pc' \in Labels /\ status' \in {Ok, Err} /\ errcode' \in Errcodes /\ pos' \in Nat
    BY <1>3 DEF OpenSource, Labels, ErrorResponse, Errcodes, TypeOK, OpenErrcode
  <2>3. openH' \subseteq Handles /\ lost' \subseteq Handles /\ srcH' \in Handles
    BY <1>3 DEF OpenSource, TypeOK
  <2>4. UNCHANGED <<fs, jobVars, dstH, attr, progVars, rd>>
    BY <1>3 DEF OpenSource
  <2> QED
    BY <2>1, <2>2, <2>3, <2>4 DEF TypeOK
<1>4. CASE CreateDest
  <2>1. critical' \in BOOLEAN /\ hit' \subseteq Calls
    <3>1. \E fault \in BOOLEAN : Int21("create", ClearedFlag, fault)
      BY <1>4 DEF CreateDest
    <3> QED
      BY <3>1, Int21Type DEF Calls, ClearedFlag
  <2>2. pc' \in Labels /\ status' \in {Ok, Err} /\ errcode' \in Errcodes
    BY <1>4 DEF CreateDest, Labels, ErrorResponse, Errcodes, TypeOK, CreateErrcode
  <2>3. openH' \subseteq Handles /\ lost' \subseteq Handles /\ dstH' \in Handles
    BY <1>4 DEF CreateDest, TypeOK
  <2>4. fs' \in [Paths -> Files]
    <3>1. Created \in [Paths -> Files]
      <4>1. [data |-> fs[src].data, len |-> 0, attr |-> attr] \in Files
        BY FileType DEF Files, TypeOK
      <4> QED
        BY <4>1 DEF Created, TypeOK
    <3>2. fs' \in {fs, Created}
      BY <1>4 DEF CreateDest, DiskAfterFault
    <3> QED
      BY <3>1, <3>2 DEF TypeOK
  <2>5. UNCHANGED <<jobVars, srcH, pos, attr, progVars, rd>>
    BY <1>4 DEF CreateDest
  <2> QED
    BY <2>1, <2>2, <2>3, <2>4, <2>5 DEF TypeOK
<1>5. CASE CreateCleanup \/ CloseSource \/ CleanupSource \/ CleanupDest
  <2>1. critical' \in BOOLEAN /\ hit' \subseteq Calls
    <3>1. \E fault \in BOOLEAN : Int21("close", critical, fault)
      BY <1>5 DEF CreateCleanup, CloseSource, CleanupSource, CleanupDest
    <3> QED
      BY <3>1, Int21Type DEF Calls, TypeOK
  <2>2. openH' \subseteq Handles /\ pc' \in Labels /\ status' \in {Ok, Err}
    BY <1>5 DEF CreateCleanup, CloseSource, CleanupSource, CleanupDest, Labels, TypeOK
  <2>3. UNCHANGED <<fs, jobVars, heldVars, pos, attr, progVars, rd, errcode, lost>>
    BY <1>5 DEF CreateCleanup, CloseSource, CleanupSource, CleanupDest
  <2> QED
    BY <2>1, <2>2, <2>3 DEF TypeOK
<1>6. CASE ReadBlock
  <2>1. critical' \in BOOLEAN /\ hit' \subseteq Calls
    <3>1. \E fault \in BOOLEAN : Int21("read", ClearedFlag, fault)
      BY <1>6 DEF ReadBlock
    <3> QED
      BY <3>1, Int21Type DEF Calls, ClearedFlag
  <2>2. pc' \in Labels /\ errcode' \in Errcodes
    BY <1>6 DEF ReadBlock, Labels, Errcodes, TypeOK
  <2>3. pos' \in Nat /\ rd' \in 0..BufSize
    <3>1. fs[src].len \in Nat
      BY FileType DEF TypeOK
    <3>2. ReadCount \in Nat /\ ReadCount <= BufSize
      BY <3>1 DEF ReadCount, BytesLeft, BufSize, TypeOK
    <3>3. \/ UNCHANGED <<pos, rd>>
          \/ ReadCount # 0 /\ rd' = ReadCount /\ pos' = pos + ReadCount
      BY <1>6 DEF ReadBlock, AtEof
    <3> QED
      BY <3>2, <3>3 DEF TypeOK
  <2>4. UNCHANGED <<fs, openH, jobVars, heldVars, attr, progVars, status, lost>>
    BY <1>6 DEF ReadBlock
  <2> QED
    BY <2>1, <2>2, <2>3, <2>4 DEF TypeOK
<1>7. CASE WriteBlock
  <2>1. critical' \in BOOLEAN /\ hit' \subseteq Calls
    <3>1. \E fault \in BOOLEAN : Int21("write", ClearedFlag, fault)
      BY <1>7 DEF WriteBlock
    <3> QED
      BY <3>1, Int21Type DEF Calls, ClearedFlag
  <2>2. pc' \in Labels /\ errcode' \in Errcodes
    BY <1>7 DEF WriteBlock, Labels, Errcodes, TypeOK
  <2>3. fs' \in [Paths -> Files]
    <3>1. PICK written \in CutShort(rd) \cup {rd} : fs' = Extended(written)
      BY <1>7 DEF WriteBlock
    <3>2. written \in Nat
      BY <3>1 DEF CutShort, TypeOK
    <3>3. Extended(written) = [fs EXCEPT ![dst].len = fs[dst].len + written]
      BY DEF Extended
    <3>4. fs[dst].len + written \in Nat
      BY <3>2, FileType DEF TypeOK
    <3> QED
      BY <3>1, <3>3, <3>4, LengthType
  <2>4. UNCHANGED <<openH, jobVars, heldVars, pos, attr, progVars, rd, status, lost>>
    BY <1>7 DEF WriteBlock
  <2> QED
    BY <2>1, <2>2, <2>3, <2>4 DEF TypeOK
<1>8. CASE Progress
  <2>1. done' \in 0..WordMod - 1
    <3>1. done + rd \in Nat
      <4>1. done \in Nat /\ rd \in Nat
        BY DEF TypeOK
      <4> QED
        BY <4>1
    <3> QED
      BY <1>8, <3>1, SizeWordType DEF Progress
  <2>2. shown' \in 0..100
    <3>1. CASE UNCHANGED shown
      BY <3>1 DEF TypeOK
    <3>2. CASE total # 0 /\ shown' = BarPercent(Percent(done', total))
      <4>1. Percent(done', total) \in Int
        <5>1. done' \in Nat /\ total \in Nat /\ total > 0
          BY <2>1, <3>2 DEF TypeOK
        <5>2. done' * 100 \in Int
          BY <5>1
        <5> QED
          BY <5>1, <5>2 DEF Percent
      <4> QED
        BY <3>2, <4>1, BarPercentType
    <3> QED
      BY <1>8, <3>1, <3>2 DEF Progress
  <2>3. pc' \in Labels
    BY <1>8 DEF Progress, Labels
  <2>4. UNCHANGED <<fs, openH, critical, jobVars, heldVars, pos, attr, total, rd, respVars,
                    hit, lost>>
    BY <1>8 DEF Progress
  <2> QED
    BY <2>1, <2>2, <2>3, <2>4 DEF TypeOK
<1>9. CASE CloseDest
  <2>1. critical' \in BOOLEAN /\ hit' \subseteq Calls
    <3>1. \E fault \in BOOLEAN : Int21("close", critical, fault)
      BY <1>9 DEF CloseDest
    <3> QED
      BY <3>1, Int21Type DEF Calls, TypeOK
  <2>2. pc' \in Labels /\ openH' \subseteq Handles /\ status' \in {Ok, Err} /\ errcode' \in Errcodes
    BY <1>9 DEF CloseDest, Labels, TypeOK, Errcodes
  <2>3. fs' \in [Paths -> Files]
    <3>1. PICK kept \in CutShort(fs[dst].len) \cup {fs[dst].len} :
            fs' = [fs EXCEPT ![dst].len = kept]
      BY <1>9 DEF CloseDest
    <3>2. kept \in Nat
      BY <3>1, FileType DEF CutShort, TypeOK
    <3> QED
      BY <3>1, <3>2, LengthType
  <2>4. UNCHANGED <<jobVars, heldVars, pos, attr, progVars, rd, lost>>
    BY <1>9 DEF CloseDest
  <2> QED
    BY <2>1, <2>2, <2>3, <2>4 DEF TypeOK
<1>10. CASE CleanupUnlink
  <2>1. critical' \in BOOLEAN /\ hit' \subseteq Calls
    <3>1. \E fault \in BOOLEAN : Int21("unlink", critical, fault)
      BY <1>10 DEF CleanupUnlink
    <3> QED
      BY <3>1, Int21Type DEF Calls, TypeOK
  <2>2. fs' \in [Paths -> Files]
    <3>1. Unlinked \in [Paths -> Files]
      <4>1. [fs[dst] EXCEPT !.len = 0, !.attr = "absent"] \in Files
        <5>1. fs[dst] \in [data : Paths, len : Nat, attr : Attrs]
          BY FileType DEF Files, TypeOK
        <5>2. "absent" \in Attrs
          BY DEF Attrs
        <5> QED
          BY <5>1, <5>2 DEF Files
      <4>2. Unlinked = [fs EXCEPT ![dst] = [fs[dst] EXCEPT !.len = 0, !.attr = "absent"]]
        BY FileType DEF Unlinked, TypeOK, Files
      <4> QED
        BY <4>1, <4>2 DEF TypeOK
    <3>2. fs' \in {fs, Unlinked}
      BY <1>10 DEF CleanupUnlink
    <3> QED
      BY <3>1, <3>2 DEF TypeOK
  <2>3. pc' \in Labels
    BY <1>10 DEF CleanupUnlink, Labels
  <2>4. UNCHANGED <<openH, jobVars, heldVars, pos, attr, progVars, rd, respVars, lost>>
    BY <1>10 DEF CleanupUnlink
  <2> QED
    BY <2>1, <2>2, <2>3, <2>4 DEF TypeOK
<1>11. CASE Respond
  BY <1>11 DEF Respond, Labels, TypeOK
<1>12. CASE UNCHANGED vars
  BY <1>12 DEF vars, TypeOK
<1> QED
  BY <1>1, <1>2, <1>3, <1>4, <1>5, <1>6, <1>7, <1>8, <1>9, <1>10, <1>11, <1>12
  DEF Next, Driver

\* Every state of the driver is well typed: in particular each error code is
\* one the protocol lists and the progress words never leave 16 bits.
THEOREM TypeCorrect == Spec => []TypeOK
BY InitType, StepType, PTL DEF Spec

-----------------------------------------------------------------------------
(* The inductive invariant *)

\* No command in hand, no handle open.
LEMMA InitInv == Init => CopyInv
<1> SUFFICES ASSUME Init PROVE CopyInv
  OBVIOUS
<1>1. HandleInv /\ StatusInv /\ FlagInv
  BY DEF Init, HandleInv, StatusInv, FlagInv, HoldsSource, HoldsDest
<1>2. src = dst /\ pc = "idle"
  BY DEF Init
<1> QED
  BY <1>1, <1>2, InitType DEF CopyInv, CountInv, SelfInv, ProgressInv, UndoInv, BarInv

\* Open and Create take handles, Close gives them back (copy.inc:138-306).
LEMMA StepHandles == TypeOK /\ HandleInv /\ [Next]_vars => HandleInv'
<1> SUFFICES ASSUME TypeOK, HandleInv, [Next]_vars PROVE HandleInv'
  OBVIOUS
<1> USE DEF Goto, jobVars, heldVars, HandleInv, HoldsSource, HoldsDest
<1>1. ASSUME NEW s \in Paths, NEW d \in Paths, Request(s, d) PROVE HandleInv'
  BY <1>1 DEF Request
<1>2. CASE FindFirst
  BY <1>2 DEF FindFirst
<1>3. CASE OpenSource
  BY <1>3 DEF OpenSource
<1>4. CASE CreateDest
  BY <1>4 DEF CreateDest
<1>5. CASE CreateCleanup
  BY <1>5 DEF CreateCleanup
<1>6. CASE ReadBlock
  BY <1>6 DEF ReadBlock
<1>7. CASE WriteBlock
  BY <1>7 DEF WriteBlock
<1>8. CASE Progress
  BY <1>8 DEF Progress
<1>9. CASE CloseSource \/ CleanupSource
  BY <1>9 DEF CloseSource, CleanupSource
<1>10. CASE CloseDest \/ CleanupDest
  BY <1>10 DEF CloseDest, CleanupDest
<1>11. CASE CleanupUnlink \/ Respond
  BY <1>11 DEF CleanupUnlink, Respond
<1>12. CASE UNCHANGED vars
  BY <1>12 DEF vars
<1> QED
  BY <1>1, <1>2, <1>3, <1>4, <1>5, <1>6, <1>7, <1>8, <1>9, <1>10, <1>11, <1>12
  DEF Next, Driver

\* The error status is set before a cleanup needs it (copy.inc:244-297).
LEMMA StepStatus == TypeOK /\ StatusInv /\ [Next]_vars => StatusInv'
<1> SUFFICES ASSUME TypeOK, StatusInv, [Next]_vars PROVE StatusInv'
  OBVIOUS
<1> USE DEF Goto, jobVars, respVars, StatusInv, ErrorResponse
<1>1. ASSUME NEW s \in Paths, NEW d \in Paths, Request(s, d) PROVE StatusInv'
  BY <1>1 DEF Request, TypeOK
<1>2. CASE FindFirst \/ OpenSource \/ CreateDest \/ CreateCleanup
  BY <1>2 DEF FindFirst, OpenSource, CreateDest, CreateCleanup
<1>3. CASE ReadBlock \/ WriteBlock \/ Progress \/ CloseSource \/ CloseDest
  BY <1>3 DEF ReadBlock, WriteBlock, Progress, CloseSource, CloseDest
<1>4. CASE CleanupSource \/ CleanupDest \/ CleanupUnlink \/ Respond
  BY <1>4 DEF CleanupSource, CleanupDest, CleanupUnlink, Respond
<1>5. CASE UNCHANGED vars
  BY <1>5 DEF vars
<1> QED
  BY <1>1, <1>2, <1>3, <1>4, <1>5 DEF Next, Driver

\* Within a command the set of calls a fault hit only grows.
LEMMA HitGrows ==
  ASSUME Driver, NEW calls, Unhit(calls)' PROVE Unhit(calls)
<1>1. hit \subseteq hit'
  <2>1. ASSUME NEW call, NEW before, NEW fault, Int21(call, before, fault)
        PROVE  hit \subseteq hit'
    BY <2>1 DEF Int21
  <2>2. CASE FindFirst \/ OpenSource \/ CreateDest \/ CreateCleanup
    BY <2>1, <2>2 DEF FindFirst, OpenSource, CreateDest, CreateCleanup
  <2>3. CASE ReadBlock \/ WriteBlock \/ CloseSource \/ CloseDest
    BY <2>1, <2>3 DEF ReadBlock, WriteBlock, CloseSource, CloseDest
  <2>4. CASE CleanupSource \/ CleanupDest \/ CleanupUnlink
    BY <2>1, <2>4 DEF CleanupSource, CleanupDest, CleanupUnlink
  <2>5. CASE Progress \/ Respond
    BY <2>5 DEF Progress, Respond
  <2> QED
    BY <2>2, <2>3, <2>4, <2>5 DEF Driver
<1> QED
  BY <1>1 DEF Unhit

\* Reads and writes of the copy loop keep in step (copy.inc:164-189).
LEMMA StepCount == TypeOK /\ StatusInv /\ CountInv /\ [Next]_vars => CountInv'
<1> SUFFICES ASSUME TypeOK, StatusInv, CountInv, [Next]_vars PROVE CountInv'
  OBVIOUS
<1> USE DEF Goto, jobVars, CountInv, AfterCreate, HoldsDest
<1>0. /\ src \in Paths /\ dst \in Paths /\ pos \in Nat /\ rd \in Nat
      /\ fs \in [Paths -> Files] /\ fs[src].len \in Nat /\ fs[dst].len \in Nat
  BY FileType DEF TypeOK, BufSize
<1>1. ASSUME NEW s \in Paths, NEW d \in Paths, Request(s, d) PROVE CountInv'
  BY <1>1 DEF Request
<1>2. CASE FindFirst
  <2>1. UNCHANGED <<fs, orig, src, dst, copies, pos>> /\ pc = "find"
    BY <1>2 DEF FindFirst
  <2>2. (pc' = "respond" /\ status' = Err) \/ pc' = "open"
    BY <1>2 DEF FindFirst, ErrorResponse
  <2>3. pc' = "open" /\ Unhit({"find"})' => attr' = fs[src].attr
    BY <1>2 DEF FindFirst, Int21, Unhit
  <2> QED
    BY <2>1, <2>2, <2>3 DEF Ok, Err
<1>3. CASE OpenSource
  <2>1. UNCHANGED <<fs, orig, src, dst, copies, attr>> /\ pc = "open"
    BY <1>3 DEF OpenSource
  <2>2. \/ pc' = "respond" /\ status' = Err
        \/ pc' = "create" /\ pos' = 0
    <3>1. PICK fault \in BOOLEAN :
            \/ /\ \E code \in IF fault THEN DosCodes ELSE OpenRefusals :
                    ErrorResponse(OpenErrcode(code))
               /\ pc' = "respond"
            \/ pos' = 0 /\ pc' = "create"
            \/ ErrorResponse(255) /\ pc' = "respond"
      BY <1>3, Zenon DEF OpenSource
    <3> QED
      BY <3>1 DEF ErrorResponse
  <2>3. Unhit({"find"})' => Unhit({"find"})
    BY <1>3, HitGrows DEF Driver
  <2> QED
    BY <2>1, <2>2, <2>3 DEF Ok, Err
<1>4. CASE CreateDest
  <2>1. UNCHANGED <<orig, src, dst, copies, attr, pos>> /\ pc = "create"
    BY <1>4 DEF CreateDest
  <2>2. \/ pc' = "create_cleanup"
        \/ pc' = "read" /\ fs' = Created
    BY <1>4, Zenon DEF CreateDest
  <2>3. Unhit({"find"})' => Unhit({"find"})
    BY <1>4, HitGrows DEF Driver
  <2>4. ASSUME src # dst, fs' = Created
        PROVE  /\ fs'[src] = fs[src] /\ fs'[dst].data = fs[src].data
               /\ fs'[dst].len = 0 /\ fs'[dst].attr = attr
    BY <2>4, <1>0 DEF Created
  <2> QED
    BY <1>0, <2>1, <2>2, <2>3, <2>4
<1>5. CASE CreateCleanup
  <2>1. pc' = "respond" /\ status' = Err /\ UNCHANGED <<src, dst>>
    BY <1>5 DEF CreateCleanup, StatusInv, respVars
  <2> QED
    BY <2>1 DEF Ok, Err
<1>6. CASE ReadBlock
  <2>1. UNCHANGED <<fs, orig, src, dst, copies, attr>> /\ pc = "read"
    BY <1>6 DEF ReadBlock
  <2>2. \/ pc' = "cleanup_src"
        \/ pc' = "close_src" /\ ReadCount = 0
        \/ pc' = "write" /\ ReadCount # 0 /\ rd' = ReadCount /\ pos' = pos + ReadCount
    BY <1>6 DEF ReadBlock, AtEof
  <2>3. Unhit({"find"})' => Unhit({"find"})
    BY <1>6, HitGrows DEF Driver
  <2>4. src # dst => pos = fs[dst].len /\ pos <= fs[src].len
    BY <2>1
  <2>5. src # dst => /\ ReadCount \in Int /\ ReadCount <= fs[src].len - pos
                     /\ ReadCount >= 0
                     /\ ReadCount = 0 => fs[src].len = pos
    BY <1>0, <2>4 DEF ReadCount, BytesLeft, BufSize
  <2> QED
    BY <1>0, <2>1, <2>2, <2>3, <2>4, <2>5
<1>7. CASE WriteBlock
  <2>1. UNCHANGED <<orig, src, dst, copies, attr, pos, rd>> /\ pc = "write"
    BY <1>7 DEF WriteBlock
  <2>2. PICK written \in CutShort(rd) \cup {rd} :
          /\ fs' = Extended(written)
          /\ \/ pc' = "cleanup_src"
             \/ pc' = "progress" /\ written = rd
    <3>1. PICK fault \in BOOLEAN, written \in CutShort(rd) \cup {rd} :
            /\ fs' = Extended(written)
            /\ \/ pc' = "cleanup_src"
               \/ WriteVerdict(written) = "full" /\ pc' = "progress"
      BY <1>7, Zenon DEF WriteBlock
    <3> QED
      BY <3>1 DEF WriteVerdict
  <2>3. Unhit({"find"})' => Unhit({"find"})
    BY <1>7, HitGrows DEF Driver
  <2>4. src # dst => /\ fs'[src] = fs[src] /\ fs'[dst].data = fs[dst].data
                     /\ fs'[dst].attr = fs[dst].attr /\ fs'[dst].len = fs[dst].len + written
    BY <1>0, <2>2 DEF Extended, Files
  <2> QED
    BY <1>0, <2>1, <2>2, <2>3, <2>4
<1>8. CASE Progress
  <2>1. UNCHANGED <<fs, orig, src, dst, copies, attr, pos, rd, hit>> /\ pc = "progress"
    BY <1>8 DEF Progress
  <2>2. pc' \in {"read", "div_error"}
    BY <1>8 DEF Progress
  <2> QED
    BY <1>0, <2>1, <2>2 DEF Unhit
<1>9. CASE CloseSource
  <2>1. UNCHANGED <<fs, orig, src, dst, copies, attr, pos, rd>> /\ pc = "close_src"
        /\ pc' = "close_dst"
    BY <1>9 DEF CloseSource
  <2>2. Unhit({"find"})' => Unhit({"find"})
    BY <1>9, HitGrows DEF Driver
  <2> QED
    BY <2>1, <2>2
<1>10. CASE CloseDest
  <2>1. UNCHANGED <<orig, src, dst, copies, attr, pos, rd>> /\ pc = "close_dst"
        /\ pc' = "respond"
    BY <1>10 DEF CloseDest
  <2>2. Unhit({"find", "close"})' => Unhit({"find"}) /\ fs' = [fs EXCEPT ![dst].len = fs[dst].len]
    <3>1. ASSUME Unhit({"find", "close"})' PROVE Unhit({"find", "close"})
      BY <1>10, <3>1, HitGrows DEF Driver
    <3>2. Unhit({"find", "close"})' => fs' = [fs EXCEPT ![dst].len = fs[dst].len]
      BY <1>10 DEF CloseDest, Int21, Unhit
    <3> QED
      BY <3>1, <3>2 DEF Unhit
  <2>3. ASSUME src # dst, Unhit({"find", "close"})'
        PROVE  fs'[src] = orig[src] /\ fs'[dst] = orig[src]
    <3>1. fs'[src] = fs[src]
      BY <1>0, <2>2, <2>3
    <3>2. fs'[dst] = [fs[dst] EXCEPT !.len = fs[dst].len] /\ fs[dst] \in Files
      BY <1>0, <2>2, <2>3
    <3>3. fs[dst].len = orig[src].len /\ fs[dst].data = orig[src].data
          /\ fs[dst].attr = orig[src].attr /\ fs[src] = orig[src]
      BY <2>1, <2>2, <2>3
    <3>4. orig[src] \in Files
      BY <1>0 DEF TypeOK
    <3> QED
      BY <3>1, <3>2, <3>3, <3>4 DEF Files
  <2> QED
    BY <2>1, <2>3
<1>11. CASE CleanupSource \/ CleanupDest
  <2>1. UNCHANGED <<fs, orig, src, dst, copies, attr, pos, rd>>
        /\ pc \in {"cleanup_src", "cleanup_dst"} /\ pc' \in {"cleanup_dst", "cleanup_unlink"}
    BY <1>11 DEF CleanupSource, CleanupDest
  <2>2. Unhit({"find"})' => Unhit({"find"})
    BY <1>11, HitGrows DEF Driver
  <2> QED
    BY <2>1, <2>2
<1>12. CASE CleanupUnlink
  <2>1. pc' = "respond" /\ status' = Err /\ UNCHANGED <<src, dst>>
    BY <1>12 DEF CleanupUnlink, StatusInv, respVars
  <2> QED
    BY <2>1 DEF Ok, Err
<1>13. CASE Respond
  BY <1>13 DEF Respond, respVars, Unhit
<1>14. CASE UNCHANGED vars
  BY <1>14 DEF vars, Unhit
<1> QED
  BY <1>1, <1>2, <1>3, <1>4, <1>5, <1>6, <1>7, <1>8, <1>9, <1>10, <1>11, <1>12, <1>13, <1>14
  DEF Next, Driver

\* A file copied onto itself is empty by the time it is read.
LEMMA StepSelf == TypeOK /\ SelfInv /\ [Next]_vars => SelfInv'
<1> SUFFICES ASSUME TypeOK, SelfInv, [Next]_vars PROVE SelfInv'
  OBVIOUS
<1> USE DEF Goto, jobVars, SelfInv
<1>0. /\ src \in Paths /\ pos \in Nat /\ fs \in [Paths -> Files] /\ fs[src].len \in Nat
  BY FileType DEF TypeOK
<1>1. ASSUME NEW s \in Paths, NEW d \in Paths, Request(s, d) PROVE SelfInv'
  BY <1>1 DEF Request
<1>2. CASE FindFirst
  BY <1>2 DEF FindFirst
<1>3. CASE OpenSource
  BY <1>3 DEF OpenSource
<1>4. CASE CreateDest
  <2>1. UNCHANGED <<src, dst, pos>> /\ pc = "create"
    BY <1>4 DEF CreateDest
  <2>2. \/ pc' = "create_cleanup"
        \/ pc' = "read" /\ fs' = Created
    BY <1>4, Zenon DEF CreateDest
  <2>3. ASSUME src = dst, fs' = Created PROVE fs'[src].len = 0
    BY <2>3, <1>0 DEF Created
  <2> QED
    BY <2>1, <2>2, <2>3
<1>5. CASE ReadBlock
  <2>1. UNCHANGED <<fs, src, dst>> /\ pc = "read"
    BY <1>5 DEF ReadBlock
  <2>2. \/ pc' \in {"cleanup_src", "close_src"}
        \/ pc' = "write" /\ ReadCount # 0
    BY <1>5 DEF ReadBlock, AtEof
  <2>3. src = dst => ReadCount = 0
    BY <1>0, <2>1 DEF ReadCount, BytesLeft, BufSize
  <2> QED
    BY <2>1, <2>2, <2>3
<1>6. CASE WriteBlock \/ Progress
  BY <1>6 DEF WriteBlock, Progress
<1>7. CASE CreateCleanup \/ CloseSource \/ CloseDest
  BY <1>7 DEF CreateCleanup, CloseSource, CloseDest
<1>8. CASE CleanupSource \/ CleanupDest \/ CleanupUnlink \/ Respond
  BY <1>8 DEF CleanupSource, CleanupDest, CleanupUnlink, Respond
<1>9. CASE UNCHANGED vars
  BY <1>9 DEF vars
<1> QED
  BY <1>1, <1>2, <1>3, <1>4, <1>5, <1>6, <1>7, <1>8, <1>9 DEF Next, Driver

\* A size below 64K survives being kept in a word.
LEMMA SizeWordSmall == ASSUME NEW n \in Nat, n < WordMod PROVE SizeWord(n) = n
BY DEF SizeWord, WordMod

\* 100 * d / t fits a word whenever d <= t: the division cannot fault.
LEMMA NoOverflow ==
  ASSUME NEW d \in Nat, NEW t \in Nat, d <= t, t # 0 PROVE ~DivOverflows(d, t)
<1>1. d * 100 <= t * 100
  OBVIOUS
<1>2. t * 100 < t * 65000
  OBVIOUS
<1> QED
  BY <1>1, <1>2 DEF DivOverflows, WordMod

\* copy_bytes_done and copy_total_size follow the file (copy.inc:120-203).
LEMMA StepProgress ==
  TypeOK /\ CountInv /\ SelfInv /\ ProgressInv /\ [Next]_vars => ProgressInv'
<1> SUFFICES ASSUME TypeOK, CountInv, SelfInv, ProgressInv, [Next]_vars PROVE ProgressInv'
  OBVIOUS
<1> USE DEF Goto, jobVars, progVars, ProgressInv
<1>0. /\ src \in Paths /\ dst \in Paths /\ pos \in Nat /\ rd \in Nat /\ done \in Nat
      /\ orig[src].len \in Nat /\ fs[src].len \in Nat /\ fs[dst].len \in Nat
  BY FileType DEF TypeOK, Files, BufSize
<1>1. ASSUME NEW s \in Paths, NEW d \in Paths, Request(s, d) PROVE ProgressInv'
  BY <1>1 DEF Request
<1>2. CASE FindFirst
  <2>1. UNCHANGED <<orig, src, dst>> /\ pc = "find" /\ pc' \in {"respond", "open"}
    BY <1>2 DEF FindFirst
  <2>2. pc' = "open" /\ Unhit({"find"})' => total' = SizeWord(fs[src].len) /\ done' = 0
    BY <1>2 DEF FindFirst, Int21, Unhit
  <2>3. src # dst => fs = orig
    BY <2>1 DEF CountInv
  <2> QED
    BY <1>0, <2>1, <2>2, <2>3, SizeWordSmall
<1>3. CASE OpenSource
  <2>1. UNCHANGED <<orig, src, dst, total, done>> /\ pc = "open"
    BY <1>3 DEF OpenSource
  <2>2. pc' \in {"respond", "create"}
    BY <1>3 DEF OpenSource
  <2>3. Unhit({"find"})' => Unhit({"find"})
    BY <1>3, HitGrows DEF Driver
  <2> QED
    BY <2>1, <2>2, <2>3
<1>4. CASE CreateDest
  <2>1. UNCHANGED <<orig, src, dst, total, done, pos>> /\ pc = "create"
    BY <1>4 DEF CreateDest
  <2>2. pc' \in {"create_cleanup", "read"}
    BY <1>4 DEF CreateDest
  <2>3. Unhit({"find"})' => Unhit({"find"})
    BY <1>4, HitGrows DEF Driver
  <2>4. src # dst => pos = 0
    BY <2>1 DEF CountInv
  <2> QED
    BY <2>1, <2>2, <2>3, <2>4
<1>5. CASE ReadBlock
  <2>1. UNCHANGED <<orig, src, dst, total, done>> /\ pc = "read"
    BY <1>5 DEF ReadBlock
  <2>2. \/ pc' \in {"cleanup_src", "close_src"}
        \/ pc' = "write" /\ rd' = ReadCount /\ pos' = pos + ReadCount
    BY <1>5 DEF ReadBlock
  <2>3. Unhit({"find"})' => Unhit({"find"})
    BY <1>5, HitGrows DEF Driver
  <2> QED
    BY <1>0, <2>1, <2>2, <2>3
<1>6. CASE WriteBlock
  <2>1. UNCHANGED <<orig, src, dst, total, done, rd, pos>> /\ pc = "write"
    BY <1>6 DEF WriteBlock
  <2>2. pc' \in {"cleanup_src", "progress"}
    BY <1>6 DEF WriteBlock
  <2>3. Unhit({"find"})' => Unhit({"find"})
    BY <1>6, HitGrows DEF Driver
  <2> QED
    BY <2>1, <2>2, <2>3
<1>7. CASE Progress
  <2>1. UNCHANGED <<orig, src, dst, total, rd, pos, hit>> /\ pc = "progress"
        /\ done' = SizeWord(done + rd)
    BY <1>7 DEF Progress
  <2>2. \/ pc' = "read"
        \/ pc' = "div_error" /\ total # 0 /\ DivOverflows(done', total)
    BY <1>7 DEF Progress
  <2>3. ASSUME Unhit({"find"}), orig[src].len < WordMod, src # dst
        PROVE  done' = pos /\ ~(total # 0 /\ DivOverflows(done', total))
    <3>1. total = orig[src].len /\ done + rd = pos
      BY <2>1, <2>3
    <3>2. pos <= orig[src].len
      BY <2>1, <2>3 DEF CountInv, AfterCreate, HoldsDest
    <3>3. pos < WordMod
      BY <1>0, <2>3, <3>2 DEF WordMod
    <3>4. done' = pos
      BY <1>0, <2>1, <3>1, <3>3, SizeWordSmall
    <3> QED
      BY <1>0, <3>1, <3>2, <3>4, NoOverflow
  <2> QED
    BY <2>1, <2>2, <2>3 DEF Unhit
<1>8. CASE CreateCleanup \/ CloseSource \/ CloseDest
  BY <1>8 DEF CreateCleanup, CloseSource, CloseDest
<1>9. CASE CleanupSource \/ CleanupDest \/ CleanupUnlink \/ Respond
  BY <1>9 DEF CleanupSource, CleanupDest, CleanupUnlink, Respond
<1>10. CASE UNCHANGED vars
  BY <1>10 DEF vars, Unhit
<1> QED
  BY <1>1, <1>2, <1>3, <1>4, <1>5, <1>6, <1>7, <1>8, <1>9, <1>10 DEF Next, Driver

\* An errcode 0xFF follows a flag that was cleared before the call
\* (copy.inc:138-189), so that only a fault of the call itself explains it.
LEMMA StepFlag == TypeOK /\ FlagInv /\ [Next]_vars => FlagInv'
<1> SUFFICES ASSUME TypeOK, FlagInv, [Next]_vars PROVE FlagInv'
  OBVIOUS
<1> USE DEF Goto, respVars, FlagInv, Unhit, Tested
<1>0. ASSUME NEW call \in Tested, NEW fault \in BOOLEAN, Int21(call, ClearedFlag, fault), critical'
      PROVE  ~Unhit(Tested)'
  BY <1>0 DEF Int21, ClearedFlag
<1>1. ASSUME NEW s \in Paths, NEW d \in Paths, Request(s, d) PROVE FlagInv'
  BY <1>1 DEF Request
<1>2. CASE FindFirst
  BY <1>2 DEF FindFirst, ErrorResponse
<1>3. CASE OpenSource
  <2>1. (pc' = "respond" /\ errcode' # 255) \/ pc' = "create" \/ (pc' = "respond" /\ critical')
    BY <1>3 DEF OpenSource, ErrorResponse, OpenErrcode
  <2>2. PICK fault \in BOOLEAN : Int21("open", ClearedFlag, fault)
    BY <1>3 DEF OpenSource
  <2> QED
    BY <2>1, <2>2, <1>0
<1>4. CASE CreateDest
  <2>1. (pc' = "create_cleanup" /\ errcode' # 255) \/ pc' = "read"
        \/ (pc' = "create_cleanup" /\ critical')
    BY <1>4 DEF CreateDest, ErrorResponse, CreateErrcode
  <2>2. PICK fault \in BOOLEAN : Int21("create", ClearedFlag, fault)
    BY <1>4 DEF CreateDest
  <2> QED
    BY <2>1, <2>2, <1>0
<1>5. CASE ReadBlock
  <2>1. (pc' = "cleanup_src" /\ errcode' # 255) \/ pc' \in {"close_src", "write"}
        \/ (pc' = "cleanup_src" /\ critical')
    BY <1>5 DEF ReadBlock
  <2>2. PICK fault \in BOOLEAN : Int21("read", ClearedFlag, fault)
    BY <1>5 DEF ReadBlock
  <2> QED
    BY <2>1, <2>2, <1>0
<1>6. CASE WriteBlock
  <2>1. (pc' = "cleanup_src" /\ errcode' # 255) \/ pc' = "progress"
        \/ (pc' = "cleanup_src" /\ critical')
    BY <1>6 DEF WriteBlock
  <2>2. PICK fault \in BOOLEAN : Int21("write", ClearedFlag, fault)
    BY <1>6 DEF WriteBlock
  <2> QED
    BY <2>1, <2>2, <1>0
<1>7. CASE CreateCleanup \/ CleanupSource \/ CleanupDest \/ CleanupUnlink \/ Respond
  <2>1. pc \in {"create_cleanup", "cleanup_src", "cleanup_dst", "cleanup_unlink", "respond"}
        /\ errcode' = errcode
    BY <1>7 DEF CreateCleanup, CleanupSource, CleanupDest, CleanupUnlink, Respond
  <2>2. ~Unhit(Tested) => ~Unhit(Tested)'
    BY <1>7, HitGrows DEF Driver
  <2> QED
    BY <2>1, <2>2
<1>8. CASE Progress \/ CloseSource \/ CloseDest
  BY <1>8 DEF Progress, CloseSource, CloseDest
<1>9. CASE UNCHANGED vars
  BY <1>9 DEF vars
<1> QED
  BY <1>1, <1>2, <1>3, <1>4, <1>5, <1>6, <1>7, <1>8, <1>9 DEF Next, Driver

\* A failed copy deletes what it made unless it is read-only or a fault
\* interfered (copy.inc:244-306).
LEMMA StepUndo == TypeOK /\ StatusInv /\ CountInv /\ UndoInv /\ [Next]_vars => UndoInv'
<1> SUFFICES ASSUME TypeOK, StatusInv, CountInv, UndoInv, [Next]_vars, (src # dst)' PROVE UndoInv'
  BY DEF UndoInv
<1> USE DEF Goto, jobVars, UndoInv
<1>0. dst \in Paths /\ fs \in [Paths -> Files] /\ fs[dst] \in Files
  BY FileType DEF TypeOK
<1>1. ASSUME NEW s \in Paths, NEW d \in Paths, Request(s, d) PROVE UndoInv'
  BY <1>1 DEF Request
<1>2. CASE FindFirst
  <2>1. UNCHANGED <<fs, orig, src, dst>> /\ pc = "find" /\ pc' \in {"respond", "open"}
    BY <1>2 DEF FindFirst
  <2> QED
    BY <2>1 DEF CountInv
<1>3. CASE OpenSource
  <2>1. UNCHANGED <<fs, orig, src, dst>> /\ pc = "open" /\ pc' \in {"respond", "create"}
    BY <1>3 DEF OpenSource
  <2> QED
    BY <2>1 DEF CountInv
<1>4. CASE CreateDest
  <2>1. UNCHANGED <<orig, src, dst>> /\ pc = "create" /\ pc' \in {"read", "create_cleanup"}
    BY <1>4 DEF CreateDest
  <2>2. pc' = "create_cleanup" /\ Unhit({"create"})' => fs' = fs
    BY <1>4 DEF CreateDest, Int21, Unhit, ClearedFlag
  <2> QED
    BY <2>1, <2>2 DEF CountInv
<1>5. CASE CreateCleanup
  <2>1. UNCHANGED <<fs, orig, src, dst>> /\ pc = "create_cleanup" /\ pc' = "respond"
    BY <1>5 DEF CreateCleanup
  <2>2. Unhit({"find", "create", "unlink"})' => Unhit({"create"})
    BY <1>5 DEF CreateCleanup, Int21, Unhit
  <2> QED
    BY <2>1, <2>2
<1>6. CASE ReadBlock \/ WriteBlock \/ Progress \/ CloseSource \/ CleanupSource \/ CleanupDest
  BY <1>6 DEF ReadBlock, WriteBlock, Progress, CloseSource, CleanupSource, CleanupDest
<1>7. CASE CloseDest
  BY <1>7 DEF CloseDest, Ok, Err
<1>8. CASE CleanupUnlink
  <2>1. UNCHANGED <<orig, src, dst>> /\ pc = "cleanup_unlink" /\ pc' = "respond"
    BY <1>8 DEF CleanupUnlink
  <2>2. ASSUME Unhit({"find", "create", "unlink"})', orig[src].attr # "readonly"
        PROVE  fs'[dst].attr = "absent"
    <3>1. Unhit({"find"})
      BY <1>8, <2>2 DEF CleanupUnlink, Int21, Unhit
    <3>2. fs[dst].attr = orig[src].attr
      BY <2>1, <3>1 DEF CountInv, AfterCreate
    <3>3. fs' = Unlinked
      BY <1>8, <2>2, <3>2 DEF CleanupUnlink, Int21, Unhit
    <3> QED
      BY <3>3, <1>0 DEF Unlinked, Files
  <2> QED
    BY <2>1, <2>2 DEF Exists
<1>9. CASE Respond
  BY <1>9 DEF Respond, respVars, Unhit, Exists
<1>10. CASE UNCHANGED vars
  BY <1>10 DEF vars, Unhit, Exists
<1> QED
  BY <1>1, <1>2, <1>3, <1>4, <1>5, <1>6, <1>7, <1>8, <1>9, <1>10 DEF Next, Driver

\* All of the bytes are 100 percent of them.
LEMMA WholeIsHundred == ASSUME NEW t \in Nat \ {0} PROVE BarPercent(Percent(t, t)) = 100
<1>1. (t * 100) \div t = 100
  OBVIOUS
<1> QED
  BY <1>1 DEF BarPercent, Percent

\* The last block counted fills the bar, and no other step of the loop draws
\* it (copy.inc:191-203).
LEMMA StepBar ==
  TypeOK /\ CountInv /\ SelfInv /\ ProgressInv /\ BarInv /\ [Next]_vars => BarInv'
<1> SUFFICES ASSUME TypeOK, CountInv, SelfInv, ProgressInv, BarInv, [Next]_vars,
                    (Unhit({"find"}) /\ orig[src].len \in 1..WordMod - 1 /\ src # dst)'
             PROVE  BarInv'
  BY DEF BarInv
<1> USE DEF Goto, jobVars, progVars, BarInv
<1>0. pos \in Nat /\ rd \in Nat /\ done \in Nat /\ fs[src].len \in Nat
  BY FileType DEF TypeOK, BufSize
<1>a. Driver => Unhit({"find"})
  BY HitGrows
<1>1. ASSUME NEW s \in Paths, NEW d \in Paths, Request(s, d) PROVE BarInv'
  BY <1>1 DEF Request
<1>2. CASE FindFirst \/ OpenSource
  BY <1>2 DEF FindFirst, OpenSource
<1>3. CASE CreateDest
  <2>1. UNCHANGED <<orig, src, dst, pos>> /\ pc = "create" /\ pc' \in {"read", "create_cleanup"}
    BY <1>3 DEF CreateDest
  <2>2. pos = 0
    BY <2>1 DEF CountInv
  <2> QED
    BY <2>1, <2>2
<1>4. CASE ReadBlock
  <2>1. UNCHANGED <<orig, src, dst, fs, shown>> /\ pc = "read" /\ Unhit({"find"})
    BY <1>4, <1>a DEF ReadBlock, Driver
  <2>2. pc' \in {"cleanup_src", "write"} \/ (pc' = "close_src" /\ ReadCount = 0)
    BY <1>4 DEF ReadBlock, AtEof
  <2>3. pos <= fs[src].len /\ fs[src] = orig[src]
    BY <2>1 DEF CountInv, AfterCreate, HoldsDest
  <2>4. ReadCount = 0 => pos = orig[src].len
    BY <1>0, <2>3 DEF ReadCount, BytesLeft, BufSize
  <2> QED
    BY <2>1, <2>2, <2>4
<1>5. CASE WriteBlock \/ CloseSource \/ CloseDest
  BY <1>5 DEF WriteBlock, CloseSource, CloseDest
<1>6. CASE Progress
  <2>1. UNCHANGED <<orig, src, dst, fs, pos, total>> /\ pc = "progress" /\ Unhit({"find"})
        /\ done' = SizeWord(done + rd)
    BY <1>6, <1>a DEF Progress, Driver
  <2>2. total = orig[src].len /\ done + rd = pos /\ total \in 1..WordMod - 1
    <3>1. src # dst /\ orig[src].len \in 1..WordMod - 1
      BY <2>1
    <3>2. orig[src].len < WordMod
      BY <3>1, WordModType
    <3> QED
      BY <2>1, <3>1, <3>2 DEF ProgressInv
  <2>3. \/ pc' = "read" /\ shown' = BarPercent(Percent(done', total))
        \/ pc' = "div_error"
    BY <1>6, <2>2 DEF Progress
  <2>4. pos = orig[src].len => done' = total
    <3>1. total \in Nat /\ total < WordMod
      BY <2>2, WordModType
    <3> QED
      BY <2>1, <2>2, <3>1, SizeWordSmall
  <2>5. pos = orig[src].len /\ pc' = "read" => shown' = 100
    BY <2>2, <2>3, <2>4, WholeIsHundred
  <2> QED
    BY <2>1, <2>3, <2>5
<1>7. CASE CreateCleanup \/ CleanupSource \/ CleanupDest \/ CleanupUnlink \/ Respond
  BY <1>7 DEF CreateCleanup, CleanupSource, CleanupDest, CleanupUnlink, Respond
<1>8. CASE UNCHANGED vars
  BY <1>8 DEF vars, Unhit
<1> QED
  BY <1>1, <1>2, <1>3, <1>4, <1>5, <1>6, <1>7, <1>8 DEF Next, Driver

\* The conjunction of the nine parts is inductive.
THEOREM CopyInvariant == Spec => []CopyInv
<1>1. CopyInv /\ [Next]_vars => CopyInv'
  BY StepType, StepHandles, StepStatus, StepCount, StepSelf, StepProgress, StepFlag, StepUndo,
     StepBar DEF CopyInv
<1> QED
  BY InitInv, <1>1, PTL DEF Spec

\* A response 0x20 to a COPY between two names means the destination is the
\* source, whatever the sizes, faults and earlier commands.
THEOREM OkMeansCopiedHolds == Spec => []OkMeansCopied
<1>1. CopyInv => OkMeansCopied
  BY DEF CopyInv, CountInv, OkMeansCopied, Served
<1> QED
  BY CopyInvariant, <1>1, PTL

\* No way out of the command keeps a handle it was given.
THEOREM HandlesReturnedHolds == Spec => []HandlesReturned
<1>1. CopyInv => HandlesReturned
  BY DEF CopyInv, HandleInv, HandlesReturned, HoldsSource, HoldsDest
<1> QED
  BY CopyInvariant, <1>1, PTL

\* The progress division never faults for a source below 64K.
THEOREM NoDivideErrorHolds == Spec => []NoDivideError
<1>1. CopyInv => NoDivideError
  BY DEF CopyInv, SelfInv, ProgressInv, NoDivideError
<1> QED
  BY CopyInvariant, <1>1, PTL

\* A COPY answered with an error leaves its destination as it was or gone,
\* read-only sources and faults in Create, Unlink and Find First apart.
THEOREM FailedCopyCleansUpHolds == Spec => []FailedCopyCleansUp
<1>1. CopyInv => FailedCopyCleansUp
  BY DEF CopyInv, UndoInv, FailedCopyCleansUp, Served
<1> QED
  BY CopyInvariant, <1>1, PTL

\* A 0xFF is the doing of a fault of this very command, whatever the flag was
\* left at before it.
THEOREM CriticalIsTruthfulHolds == Spec => []CriticalIsTruthful
<1>1. CopyInv => CriticalIsTruthful
  BY DEF CopyInv, FlagInv, CriticalIsTruthful, Served
<1> QED
  BY CopyInvariant, <1>1, PTL

\* The progress bar of a whole copy ends at 100 percent for every size a word
\* holds.
THEOREM BarFullAtEndHolds == Spec => []BarFullAtEnd
<1>1. CopyInv => BarFullAtEnd
  BY DEF CopyInv, BarInv, BarFullAtEnd
<1> QED
  BY CopyInvariant, <1>1, PTL

=============================================================================

------------------------------ MODULE PftdCopy ------------------------------
(***************************************************************************)
(* COPY (0x8C) as the resident driver runs it: src/src/pftd/copy.inc,      *)
(* dispatch_copy, one action per int 0x21 call together with the tests the *)
(* code makes on its result.  pc names the label the driver is at.         *)
(*                                                                         *)
(* DOS itself is not part of the repository.  A call succeeds (CF=0), is   *)
(* refused (CF=1, an error code in AX) or meets a media fault: int 0x24    *)
(* fires, pftd_int24_handler sets critical_error_flag and answers Ignore,  *)
(* and DOS then returns with either CF and an AX that means nothing.       *)
(***************************************************************************)
EXTENDS Integers, FiniteSets

CONSTANTS
  Paths,        \* the file names COPY can be asked about
  Handles,      \* DOS file handles the driver may be given
  FaultyCalls,  \* the calls a media fault (int 0x24) may hit
  Sizes,        \* sizes of the files on the disk at the start
  Partial(_),   \* bytes that reach the disk when a write of n is cut short
  MaxCopies     \* bound: COPY requests taken in one behaviour

Calls == {"find", "open", "create", "read", "write", "close", "unlink"}

ASSUME CopyAssumption ==
  /\ Paths # {} /\ Handles # {}
  /\ FaultyCalls \subseteq Calls
  /\ Sizes \subseteq Nat
  /\ MaxCopies \in Nat

BufSize == 512          \* COPY_BUFSIZE
WordMod == 256 * 256    \* copy_total_size and copy_bytes_done are 16-bit words

Ok  == 32               \* status byte 0x20
Err == 16               \* status byte 0x10
Errcodes == {0, 1, 3, 4, 255}
DosCodes == {2, 3, 4, 5}

\* "absent" stands for a name with no directory entry.
Attrs == {"absent", "normal", "readonly", "dir"}

\* A file holds the first len bytes of what path `data` held at the start.
Files == [data : Paths, len : Nat, attr : Attrs]

Labels == {"idle", "find", "open", "create", "create_cleanup", "read", "write",
           "progress", "close_src", "close_dst", "cleanup_src", "cleanup_dst",
           "cleanup_unlink", "respond", "div_error"}

VARIABLES
  pc,             \* label dispatch_copy is at; "idle" between two commands
  fs,             \* the disk: Paths -> Files
  openH,          \* handles DOS holds open
  critical,       \* critical_error_flag
  src, dst,       \* copy_src_path, copy_dst_path
  srcH, dstH,     \* copy_src_handle, copy_dst_handle
  pos,            \* DOS's read position on the source handle
  attr,           \* copy_src_attr
  total, done,    \* copy_total_size, copy_bytes_done
  rd,             \* CX after a read: the bytes the write must put down
  status, errcode,\* copy_response
  shown,          \* percentage on the progress bar
  copies,         \* requests taken so far
  orig,           \* history: the disk when the request arrived
  hit,            \* history: the calls of this copy a media fault hit
  lost            \* history: handles DOS opened that no variable holds

respVars == <<status, errcode>>
progVars == <<total, done, shown>>
jobVars  == <<src, dst, copies, orig>>
heldVars == <<srcH, dstH>>
vars == <<pc, fs, openH, critical, src, dst, srcH, dstH, pos, attr, total, done,
          rd, status, errcode, shown, copies, orig, hit, lost>>

-----------------------------------------------------------------------------
(* Helpers *)

Goto(label) == pc' = label
Exists(p) == fs[p].attr # "absent"
ErrorResponse(code) == status' = Err /\ errcode' = code
SizeWord(n) == n % WordMod

\* Mutant: the flag is only ever set.
FlagNotCleared == critical

\* The driver clears critical_error_flag before Open, Create, Read and Write.
ClearedFlag == FALSE

\* One int 0x21 call during which a fault fires or not; `before` is the flag
\* on entry, and nothing but pftd_int24_handler sets it.
Int21(call, before, fault) ==
  /\ fault => call \in FaultyCalls
  /\ critical' = (before \/ fault)
  /\ hit' = IF fault THEN hit \cup {call} ELSE hit

BytesLeft == IF pos < fs[src].len THEN fs[src].len - pos ELSE 0
\* Mutant: the request size is not a limit.
ReadCountUncapped == BytesLeft
ReadCount == IF BytesLeft < BufSize THEN BytesLeft ELSE BufSize

\* Mutant: the end of the file is not tested for.
AtEofNever(n) == FALSE
AtEof(n) == n = 0

\* Mutant: a byte divisor, whose quotient must fit 8 bits.
DivOverflowsByte(d, t) == d * 100 >= (t % 256) * 256
\* DIV r16 faults when the quotient of dx:ax does not fit 16 bits.
DivOverflows(d, t) == d * 100 >= t * WordMod
Percent(d, t) == (d * 100) \div t
\* gui_progress takes AL, the low byte of the quotient, and clamps it.
BarPercent(q) == IF q % 256 <= 100 THEN q % 256 ELSE 100

\* What the uninitialised variables hold does not matter: each is written
\* before it is read.
AnyPath == CHOOSE p \in Paths : TRUE
AnyHandle == CHOOSE h \in Handles : TRUE

Init ==
  /\ pc = "idle"
  /\ fs \in [Paths -> [data : Paths, len : Sizes \cup {0}, attr : Attrs]]
  /\ \A p \in Paths : /\ fs[p].data = p
                      /\ fs[p].attr \in {"absent", "dir"} => fs[p].len = 0
  /\ openH = {} /\ critical = FALSE
  /\ src = AnyPath /\ dst = AnyPath /\ srcH = AnyHandle /\ dstH = AnyHandle
  /\ pos = 0 /\ attr = "absent"
  /\ total = 0 /\ done = 0 /\ rd = 0 /\ shown = 0
  /\ status = Ok /\ errcode = 0
  /\ copies = 0 /\ orig = fs /\ hit = {} /\ lost = {}

-----------------------------------------------------------------------------
(* Up to the first read *)

\* A COPY block reached the dispatcher: both ASCIIZ paths are copied out of
\* the receive buffer and the DTA is set.
Request(s, d) ==
  /\ pc = "idle" /\ copies < MaxCopies
  /\ src' = s /\ dst' = d /\ copies' = copies + 1
  /\ orig' = fs /\ hit' = {}
  /\ Goto("find")
  /\ UNCHANGED <<fs, openH, critical, heldVars, pos, attr, progVars, rd, respVars, lost>>

\* Find First on the source.  The flag is neither cleared before nor tested
\* after: a fault that comes back with CF=0 leaves the DTA of an earlier
\* search to be taken for the source's attribute and size.
FindFirst ==
  /\ pc = "find"
  /\ \E fault \in BOOLEAN :
       /\ Int21("find", critical, fault)
       /\ \/ /\ fault \/ ~Exists(src)                   \* .err_src_notfound
             /\ ErrorResponse(1) /\ Goto("respond")
             /\ UNCHANGED <<attr, total, done>>
          \/ \E p \in IF fault THEN Paths ELSE {src} :
               /\ Exists(p)
               /\ attr' = fs[p].attr /\ total' = SizeWord(fs[p].len) /\ done' = 0
               /\ Goto("open")
               /\ UNCHANGED respVars
  /\ UNCHANGED <<fs, openH, jobVars, heldVars, pos, shown, rd, lost>>

NotFoundCodes == {2, 3}
OpenErrcode(code) == IF code \in NotFoundCodes THEN 1 ELSE 4
CreateErrcode(code) == IF code = 3 THEN 1 ELSE 4

\* Why DOS must refuse an Open: no entry, a directory, or no handle left.
OpenRefusals ==
  {c \in DosCodes : \/ c \in NotFoundCodes /\ ~Exists(src)
                    \/ c = 5 /\ fs[src].attr = "dir"
                    \/ c = 4 /\ openH = Handles}

\* CF is tested first: a refused call maps AX whatever the flag says.  When
\* CF=0 with the flag set the handle, if DOS gave one, is not kept.
OpenSource ==
  /\ pc = "open"
  /\ \E fault \in BOOLEAN :
       /\ Int21("open", ClearedFlag, fault)
       /\ \/ /\ \E code \in IF fault THEN DosCodes ELSE OpenRefusals :
                  ErrorResponse(OpenErrcode(code))      \* .open_src_failed
             /\ Goto("respond")
             /\ UNCHANGED <<openH, srcH, pos, lost>>
          \/ /\ ~critical' /\ OpenRefusals = {}
             /\ \E h \in Handles \ openH : srcH' = h /\ openH' = openH \cup {h}
             /\ pos' = 0
             /\ Goto("create")
             /\ UNCHANGED <<respVars, lost>>
          \/ /\ critical'                               \* .open_src_critical
             /\ \E opened \in {{}} \cup {{h} : h \in Handles \ openH} :
                  openH' = openH \cup opened /\ lost' = lost \cup opened
             /\ ErrorResponse(255) /\ Goto("respond")
             /\ UNCHANGED <<srcH, pos>>
  /\ UNCHANGED <<fs, jobVars, dstH, attr, progVars, rd>>

\* Mutant: CX is zero when the destination is created.
CreatedPlain == [fs EXCEPT ![dst] = [data |-> fs[src].data, len |-> 0, attr |-> "normal"]]

\* Creating truncates an existing file and gives it the source's attribute.
Created == [fs EXCEPT ![dst] = [data |-> fs[src].data, len |-> 0, attr |-> attr]]

MustRefuseCreate ==
  fs[dst].attr \in {"readonly", "dir"} \/ attr = "dir" \/ openH = Handles

\* A faulted create may or may not have reached the disk.
DiskAfterFault == IF MustRefuseCreate THEN {fs} ELSE {fs, Created}

CreateDest ==
  /\ pc = "create"
  /\ \E fault \in BOOLEAN :
       /\ Int21("create", ClearedFlag, fault)
       /\ \/ /\ \E code \in DosCodes \ {2} :            \* .create_dst_failed
                  ErrorResponse(CreateErrcode(code))
             /\ fs' \in IF fault THEN DiskAfterFault ELSE {fs}
             /\ Goto("create_cleanup")
             /\ UNCHANGED <<openH, dstH, lost>>
          \/ /\ ~critical' /\ ~MustRefuseCreate
             /\ \E h \in Handles \ openH : dstH' = h /\ openH' = openH \cup {h}
             /\ fs' = Created
             /\ Goto("read")
             /\ UNCHANGED <<respVars, lost>>
          \/ /\ critical'                               \* .create_dst_critical
             /\ \E opened \in {{}} \cup {{h} : h \in Handles \ openH} :
                  openH' = openH \cup opened /\ lost' = lost \cup opened
             /\ fs' \in DiskAfterFault
             /\ ErrorResponse(255) /\ Goto("create_cleanup")
             /\ UNCHANGED dstH
  /\ UNCHANGED <<jobVars, srcH, pos, attr, progVars, rd>>

\* Mutant: respond without closing the source.
CreateCleanupKeepsSource ==
  /\ pc = "create_cleanup"
  /\ Goto("respond")
  /\ UNCHANGED <<fs, openH, critical, jobVars, heldVars, pos, attr, progVars, rd, respVars,
                 hit, lost>>

\* Both ways a create fails close the source, and only the source.
CreateCleanup ==
  /\ pc = "create_cleanup"
  /\ \E fault \in BOOLEAN : Int21("close", critical, fault)
  /\ openH' = openH \ {srcH}
  /\ Goto("respond")
  /\ UNCHANGED <<fs, jobVars, heldVars, pos, attr, progVars, rd, respVars, lost>>

-----------------------------------------------------------------------------
(* The copy loop *)

ReadBlock ==
  /\ pc = "read"
  /\ \E fault \in BOOLEAN :
       /\ Int21("read", ClearedFlag, fault)
       /\ \/ /\ fault                                   \* .read_failed (CF=1)
             /\ errcode' = 4 /\ Goto("cleanup_src")
             /\ UNCHANGED <<pos, rd>>
          \/ /\ critical'                               \* .read_critical
             /\ errcode' = 255 /\ Goto("cleanup_src")
             /\ UNCHANGED <<pos, rd>>
          \/ /\ ~critical' /\ AtEof(ReadCount)             \* .copy_done
             /\ Goto("close_src")
             /\ UNCHANGED <<errcode, pos, rd>>
          \/ /\ ~critical' /\ ~AtEof(ReadCount)
             /\ rd' = ReadCount /\ pos' = pos + ReadCount
             /\ Goto("write")
             /\ UNCHANGED errcode
  /\ UNCHANGED <<fs, openH, jobVars, heldVars, attr, progVars, status, lost>>

\* Bytes of n that may reach the disk when something goes wrong.
CutShort(n) == Partial(n) \cap 0..n

\* Mutant: CF=0 is taken for a complete write.
WriteVerdictByCF(written) == "full"
\* A short write is told by AX # CX, not by CF.
WriteVerdict(written) == IF written # rd THEN "short" ELSE "full"

Extended(n) == [fs EXCEPT ![dst].len = @ + n]

WriteBlock ==
  /\ pc = "write"
  /\ \E fault \in BOOLEAN, written \in CutShort(rd) \cup {rd} :
       /\ Int21("write", ClearedFlag, fault)
       /\ fs' = Extended(written)
       /\ \/ /\ fault                                   \* .write_failed (CF=1)
             /\ errcode' = 4 /\ Goto("cleanup_src")
          \/ /\ critical'                               \* .write_critical
             /\ errcode' = 255 /\ Goto("cleanup_src")
          \/ /\ ~critical' /\ WriteVerdict(written) = "short"
             /\ errcode' = 3 /\ Goto("cleanup_src")     \* .disk_full
          \/ /\ ~critical' /\ WriteVerdict(written) = "full"
             /\ Goto("progress")
             /\ UNCHANGED errcode
  /\ UNCHANGED <<openH, jobVars, heldVars, pos, attr, progVars, rd, status, lost>>

\* Mutant: the percentage is taken before the block is added.
ProgressBeforeAdd ==
  /\ pc = "progress"
  /\ done' = SizeWord(done + rd)
  /\ shown' = IF total = 0 THEN shown ELSE BarPercent(Percent(done, total))
  /\ Goto("read")
  /\ UNCHANGED <<fs, openH, critical, jobVars, heldVars, pos, attr, total, rd, respVars,
                 hit, lost>>

\* bytes_done += CX, then the bar, unless the captured size is zero.
Progress ==
  /\ pc = "progress"
  /\ done' = SizeWord(done + rd)
  /\ \/ total = 0 /\ Goto("read") /\ UNCHANGED shown
     \/ /\ total # 0 /\ ~DivOverflows(done', total)
        /\ shown' = BarPercent(Percent(done', total))
        /\ Goto("read")
     \/ /\ total # 0 /\ DivOverflows(done', total)
        /\ Goto("div_error")
        /\ UNCHANGED shown
  /\ UNCHANGED <<fs, openH, critical, jobVars, heldVars, pos, attr, total, rd, respVars,
                 hit, lost>>

-----------------------------------------------------------------------------
(* The ways out *)

CloseSource ==
  /\ pc = "close_src"
  /\ \E fault \in BOOLEAN : Int21("close", critical, fault)
  /\ openH' = openH \ {srcH}
  /\ Goto("close_dst")
  /\ UNCHANGED <<fs, jobVars, heldVars, pos, attr, progVars, rd, respVars, lost>>

\* Closing writes the buffers and the directory entry back; after a fault the
\* entry may record fewer bytes.  No test follows: the response is ok.
CloseDest ==
  /\ pc = "close_dst"
  /\ \E fault \in BOOLEAN :
       /\ Int21("close", critical, fault)
       /\ \E kept \in IF fault THEN CutShort(fs[dst].len) ELSE {fs[dst].len} :
            fs' = [fs EXCEPT ![dst].len = kept]
  /\ openH' = openH \ {dstH}
  /\ status' = Ok /\ errcode' = 0
  /\ Goto("respond")
  /\ UNCHANGED <<jobVars, heldVars, pos, attr, progVars, rd, lost>>

CleanupSource ==
  /\ pc = "cleanup_src"
  /\ status' = Err
  /\ \E fault \in BOOLEAN : Int21("close", critical, fault)
  /\ openH' = openH \ {srcH}
  /\ Goto("cleanup_dst")
  /\ UNCHANGED <<fs, jobVars, heldVars, pos, attr, progVars, rd, errcode, lost>>

CleanupDest ==
  /\ pc = "cleanup_dst"
  /\ \E fault \in BOOLEAN : Int21("close", critical, fault)
  /\ openH' = openH \ {dstH}
  /\ Goto("cleanup_unlink")
  /\ UNCHANGED <<fs, jobVars, heldVars, pos, attr, progVars, rd, respVars, lost>>

\* Mutant: DX still points at the source path.
UnlinkedSource == [fs EXCEPT ![src].len = 0, ![src].attr = "absent"]
Unlinked == [fs EXCEPT ![dst].len = 0, ![dst].attr = "absent"]

\* Best effort.  DOS refuses to delete a read-only file, and the destination
\* was created with the source's attribute.
CleanupUnlink ==
  /\ pc = "cleanup_unlink"
  /\ \E fault \in BOOLEAN :
       /\ Int21("unlink", critical, fault)
       /\ \/ fs[dst].attr # "readonly" /\ fs' = Unlinked
          \/ (fault \/ fs[dst].attr = "readonly") /\ UNCHANGED fs
  /\ Goto("respond")
  /\ UNCHANGED <<openH, jobVars, heldVars, pos, attr, progVars, rd, respVars, lost>>

\* Transmit the two response bytes and return to the int 0x61 hook.
Respond ==
  /\ pc = "respond"
  /\ Goto("idle")
  /\ UNCHANGED <<fs, openH, critical, jobVars, heldVars, pos, attr, progVars, rd,
                 respVars, hit, lost>>

Driver ==
  \/ FindFirst \/ OpenSource \/ CreateDest \/ CreateCleanup
  \/ ReadBlock \/ WriteBlock \/ Progress
  \/ CloseSource \/ CloseDest
  \/ CleanupSource \/ CleanupDest \/ CleanupUnlink \/ Respond

Next == (\E s, d \in Paths : Request(s, d)) \/ Driver

Spec == Init /\ [][Next]_vars

\* Once the hook has called dispatch_copy nothing else runs until it returns.
FairSpec == Spec /\ WF_vars(Driver)

-----------------------------------------------------------------------------
(* Properties *)

Served == pc = "idle" /\ copies > 0
Unhit(calls) == hit \cap calls = {}
Tested == {"open", "create", "read", "write"}   \* calls whose flag the code tests

TypeOK ==
  /\ pc \in Labels
  /\ fs \in [Paths -> Files] /\ orig \in [Paths -> Files]
  /\ openH \subseteq Handles /\ lost \subseteq Handles
  /\ critical \in BOOLEAN /\ hit \subseteq Calls
  /\ src \in Paths /\ dst \in Paths /\ srcH \in Handles /\ dstH \in Handles
  /\ attr \in Attrs
  /\ pos \in Nat /\ rd \in 0..BufSize
  /\ total \in 0..WordMod - 1 /\ done \in 0..WordMod - 1
  /\ shown \in 0..100
  /\ status \in {Ok, Err} /\ errcode \in Errcodes
  /\ copies \in 0..MaxCopies

\* A response 0x20 means what protocol.md says of COPY: the destination holds
\* the whole of the source, with its attribute, and the source is as it was.
\* It rests on the byte counts of a loop of reads and writes agreeing; a fault
\* in Find First or in a Close is never looked at, so it is excepted, and so is
\* a file copied onto itself, which Create truncates before it is read.
OkMeansCopied ==
  Served /\ status = Ok /\ src # dst /\ Unhit({"find", "close"})
    => /\ fs[src] = orig[src]
       /\ fs[dst] = orig[src]

\* A failed COPY leaves the destination as it was or removed.  Excepted: a
\* create or unlink hit by a fault, and a read-only source, whose attribute
\* the partial destination already carries when the unlink is tried.
FailedCopyCleansUp ==
  (Served /\ status = Err /\ src # dst
   /\ Unhit({"find", "create", "unlink"}) /\ orig[src].attr # "readonly")
    => fs[dst] = orig[dst] \/ ~Exists(dst)

\* protocol.md, COPY: "a failed COPY never leaves a corrupt file behind".
NoCorruptFileLeft ==
  Served /\ status = Err /\ src # dst => fs[dst] = orig[dst] \/ ~Exists(dst)

\* Every handle is given back by the time the command is over, on each of the
\* ten ways out, except those DOS opened on a call the driver took for failed.
HandlesReturned == pc = "idle" => openH = lost

\* 0xFF is sent only when int 0x24 fired during one of the calls of this very
\* command the code tests: a flag left set by an earlier call, or an earlier
\* command, must not fail a sound copy.
CriticalIsTruthful == Served /\ errcode = 255 => ~Unhit(Tested)

\* The progress division cannot fault for a source below 64K.
NoDivideError == Unhit({"find"}) /\ orig[src].len < WordMod => pc # "div_error"

\* copy.inc:120-123: losing the size's high word "never affects the actual
\* copy loop".
SizeOnlyBlursProgress == pc # "div_error"

\* The bar of a copy that reached its end shows 100 percent.
BarFullAtEnd ==
  pc = "close_src" /\ Unhit({"find"}) /\ orig[src].len \in 1..WordMod - 1 /\ src # dst
    => shown = 100

\* Every COPY is answered: each of the loop's exits leads to the response.
Answered == (pc = "find") ~> (pc \in {"idle", "div_error"})

-----------------------------------------------------------------------------
(* The inductive invariant behind the safety properties *)

HoldsSource == {"create", "create_cleanup", "read", "write", "progress", "close_src",
                "cleanup_src", "div_error"}
HoldsDest == {"read", "write", "progress", "close_src", "close_dst", "cleanup_src",
              "cleanup_dst", "div_error"}
AfterCreate == HoldsDest \cup {"cleanup_unlink"}

\* What is open is what the driver holds plus what it lost; the handles it
\* holds are distinct and not among the lost.
HandleInv ==
  /\ openH = lost \cup (IF pc \in HoldsSource THEN {srcH} ELSE {})
                  \cup (IF pc \in HoldsDest THEN {dstH} ELSE {})
  /\ pc \in HoldsSource => srcH \notin lost
  /\ pc \in HoldsDest => dstH \notin lost
  /\ pc \in HoldsSource \cap HoldsDest => srcH # dstH

\* Each cleanup that needs it finds the error status set.
StatusInv ==
  /\ pc # "idle" => copies > 0
  /\ pc \in {"create_cleanup", "cleanup_dst", "cleanup_unlink"} => status = Err

\* The errcode 0xFF is set only by a test of the flag, which a fault of this
\* command has set.
FlagInv ==
  errcode = 255 /\ pc \in {"create_cleanup", "cleanup_src", "cleanup_dst", "cleanup_unlink",
                           "respond", "idle"} => ~Unhit(Tested)

\* The byte counts of a copy to another name: what was read and what was
\* written differ by the block in hand.
CountInv ==
  src # dst =>
    /\ pc \in {"find", "open", "create"} => fs = orig
    /\ pc = "create" => pos = 0
    /\ pc \in AfterCreate => /\ fs[src] = orig[src]
                             /\ fs[dst].data = orig[src].data /\ fs[dst].attr = attr
    /\ pc \in {"read", "progress"} => pos = fs[dst].len /\ pos <= fs[src].len
    /\ pc \in {"write", "progress"} => rd > 0
    /\ pc = "write" => pos = fs[dst].len + rd /\ pos <= fs[src].len
    /\ pc \in {"close_src", "close_dst"} => fs[dst].len = fs[src].len
    /\ pc \in {"open", "create"} \cup AfterCreate /\ Unhit({"find"}) => attr = orig[src].attr
    /\ pc \in {"respond", "idle"} /\ copies > 0 /\ status = Ok /\ Unhit({"find", "close"})
         => fs[src] = orig[src] /\ fs[dst] = orig[src]

\* A file copied onto itself is empty once it has been created.
SelfInv ==
  src = dst =>
    /\ pc = "create" => pos = 0
    /\ pc = "read" => pos = 0 /\ fs[src].len = 0
    /\ pc \notin {"write", "progress", "div_error"}

\* The progress words tell the truth while the size fits one of them.
ProgressInv ==
  Unhit({"find"}) /\ orig[src].len < WordMod /\ src # dst =>
    /\ pc \in {"open", "create", "read", "write", "progress"} => total = orig[src].len
    /\ pc \in {"open", "create"} => done = 0
    /\ pc = "read" => done = pos
    /\ pc \in {"write", "progress"} => done + rd = pos
    /\ pc # "div_error"

\* What a failed copy has done to the destination, label by label.
UndoInv ==
  src # dst =>
    /\ pc = "create_cleanup" /\ Unhit({"create"}) => fs[dst] = orig[dst]
    /\ (pc \in {"respond", "idle"} /\ copies > 0 /\ status = Err
        /\ Unhit({"find", "create", "unlink"}) /\ orig[src].attr # "readonly")
         => fs[dst] = orig[dst] \/ ~Exists(dst)

\* The bar is full as soon as the last byte has been counted.
BarInv ==
  Unhit({"find"}) /\ orig[src].len \in 1..WordMod - 1 /\ src # dst =>
    /\ pc = "read" /\ pos = orig[src].len => shown = 100
    /\ pc = "close_src" => shown = 100

CopyInv ==
  /\ TypeOK /\ HandleInv /\ StatusInv /\ CountInv /\ SelfInv /\ ProgressInv
  /\ FlagInv /\ UndoInv /\ BarInv

=============================================================================

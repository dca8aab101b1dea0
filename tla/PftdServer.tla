----------------------------- MODULE PftdServer -----------------------------
(***************************************************************************)
(* The Portfolio's side of the cable: the ROM's File Transfer Server, the  *)
(* int 0x61 hook the resident driver wraps around its receive              *)
(* (PFTD.asm, pftd_int61_handler) and the handlers of the file commands.   *)
(*                                                                         *)
(* The ROM is not part of the repository.  It receives a block, and the    *)
(* hook, which ran that receive as a subroutine, offers the block to its   *)
(* handlers before the ROM itself looks at it: a block outside the ROM's   *)
(* own range is dropped there, unless an upload is under way, when every   *)
(* block is the next piece of the file, or a download, whose end any block *)
(* acknowledges.  While the hook or the ROM is transmitting, nothing is    *)
(* received.                                                               *)
(***************************************************************************)
EXTENDS Integers, FiniteSets

CONSTANTS
  Names,        \* the paths clients name
  Missing,      \* those whose parent directory does not exist
  Far,          \* those on another drive
  FaultyOps,    \* commands during which a media fault may fire int 0x24
  StartKinds,   \* what the names may stand for at the start
  MaxPieces     \* the number of data blocks of an upload or a download

ASSUME ServerAssumption ==
  /\ Names # {} /\ Missing \subseteq Names /\ Far \subseteq Names
  /\ MaxPieces \in Nat \ {0}

Kinds == {"absent", "file", "readonly", "partial", "dir", "fulldir"}
FileKinds == {"file", "readonly", "partial"}
DirKinds == {"dir", "fulldir"}

ASSUME StartAssumption == StartKinds # {} /\ StartKinds \subseteq Kinds

\* What payload[0] of a block can select.  "other" is a code no handler and no
\* case of the ROM answers to, the content of a data block included.
Queries == {"hello", "drives", "list"}
FileOps == {"mkdir", "delete", "rmdir", "rename", "copy"}
RomOps  == {"init", "confirm", "fetch"}
Ops == Queries \cup FileOps \cup RomOps \cup {"other"}

ASSUME FaultAssumption == FaultyOps \subseteq FileOps \cup {"list"}

\* p and q are the first and the second path that follow the header.
Blocks == [op : Ops, p : Names, q : Names]

Ok  == 32               \* status 0x20
Err == 16               \* status 0x10
Fresh == 0              \* ROM, upload init: no such file yet, send the data
Data == 1               \* the answer to a query: data, no status byte
DosCodes == {2, 3, 5, 8, 16, 17}

Answers == [status : {Ok, Err, Fresh, Data}, errcode : {0, 1, 3, 4, 255}]

VARIABLES
  phase,        \* where the server is, see Phases
  blk,          \* the receive buffer: the block taken last
  rom,          \* what the ROM is at, see RomStates
  upl, left,    \* the transfer under way: its path, the data blocks to come
  disk,         \* Names -> Kinds
  critical,     \* critical_error_flag
  answer,       \* the block being transmitted
  faulted,      \* history: int 0x24 fired during the last command
  refusal       \* history: the code DOS refused the last command with, or 0

romVars == <<rom, upl, left>>
histVars == <<faulted, refusal>>
serverVars == <<phase, blk, romVars, disk, critical, answer, histVars>>

\* The ROM's receive; the hook with a block in hand; the hook's transmit; the
\* ROM with the block; the ROM's transmit.
Phases == {"receive", "hook", "reply", "rom", "rom_reply"}

\* Waiting for a command; in an upload for the overwrite confirm or for data; in
\* a download sending pieces or waiting for the finish acknowledgement.
RomStates == {"command", "confirm", "data", "serve", "finish"}

AnyName == CHOOSE n \in Names : TRUE

ServerInit ==
  /\ phase = "receive"
  /\ blk = [op |-> "other", p |-> AnyName, q |-> AnyName]
  /\ rom = "command" /\ upl = AnyName /\ left = 0
  /\ disk \in [Names -> StartKinds]
  /\ \A n \in Missing : disk[n] = "absent"
  /\ critical = FALSE
  /\ answer = [status |-> Data, errcode |-> 0]
  /\ faulted = FALSE /\ refusal = 0

-----------------------------------------------------------------------------
(* DOS: when it must refuse a call, with which codes, and the effect if not *)

Holds(n, kinds) == disk[n] \in kinds
Becomes(n, kind) == [disk EXCEPT ![n] = kind]

MkdirRefusals(p) ==
  {c \in DosCodes : \/ c = 3 /\ p \in Missing
                    \/ c = 5 /\ ~Holds(p, {"absent"})}

DeleteRefusals(p) ==
  {c \in DosCodes : \/ c = 2 /\ p \notin Missing /\ Holds(p, {"absent"})
                    \/ c = 3 /\ p \in Missing
                    \/ c = 5 /\ Holds(p, {"readonly"} \cup DirKinds)}

RmdirRefusals(p) ==
  {c \in DosCodes : \/ c = 3 /\ ~Holds(p, DirKinds)
                    \/ c = 5 /\ Holds(p, {"fulldir"})}

RenameRefusals(p, q) ==
  {c \in DosCodes : \/ c = 2 /\ p \notin Missing /\ Holds(p, {"absent"})
                    \/ c = 3 /\ {p, q} \cap Missing # {}
                    \/ c = 5 /\ ~Holds(q, {"absent"})
                    \/ c \in {5, 17} /\ (p \in Far) # (q \in Far)}

Renamed(p, q) == [disk EXCEPT ![p] = "absent", ![q] = disk[p]]

\* One DOS call without a fault: refused for a reason, or for want of space or
\* because the directory is in use (`whim`), or done.
PlainOutcomes(refusals, whim, effect) ==
  {[cf |-> TRUE, code |-> c, disk |-> disk] : c \in refusals \cup whim}
    \cup (IF refusals = {} THEN {[cf |-> FALSE, code |-> 0, disk |-> effect]} ELSE {})

\* After int 0x24 neither CF nor AX means anything, and what could be done may
\* have been.
FaultOutcomes(refusals, effect) ==
  [cf : BOOLEAN, code : DosCodes, disk : IF refusals = {} THEN {disk, effect} ELSE {disk}]

-----------------------------------------------------------------------------
(* The answers of the handlers *)

Reply(status, errcode) == [status |-> status, errcode |-> errcode]

\* The handlers' tables from DOS error codes to those of the protocol.
MkdirErrcode == [code \in DosCodes \cup {0} |->
  CASE code = 3 -> 1 [] code = 5 -> 4 [] code = 8 -> 3 [] OTHER -> 255]
DeleteErrcode == [code \in DosCodes \cup {0} |->
  CASE code = 2 -> 1 [] code = 5 -> 4 [] OTHER -> 255]
RmdirErrcode == [code \in DosCodes \cup {0} |->
  CASE code = 3 -> 1 [] code = 5 -> 4 [] OTHER -> 255]
RenameErrcode == [code \in DosCodes \cup {0} |->
  CASE code \in {2, 3} -> 1 [] code \in {5, 17} -> 4 [] OTHER -> 255]

\* Mutant: the flag is compared first, which loses CF (the bug mkdir.inc:94 tells of).
VerdictLosesCF(cf, flag, errcode) == IF flag THEN Reply(Err, 255) ELSE Reply(Ok, 0)

\* CF first, then the flag on either branch.
Verdict(cf, flag, errcode) ==
  IF flag THEN Reply(Err, 255) ELSE IF cf THEN Reply(Err, errcode) ELSE Reply(Ok, 0)

\* Mutant: the flag is not cleared before the DOS call.
FlagKept == critical
FlagBefore == FALSE

\* A handler that makes one DOS call and transmits status and error code.
OneCall(op, refusals, whim, effect, errcodes) ==
  /\ phase = "hook" /\ blk.op = op
  /\ \E fault \in BOOLEAN :
       /\ fault => op \in FaultyOps
       /\ critical' = (FlagBefore \/ fault)
       /\ faulted' = fault
       /\ \E o \in IF fault THEN FaultOutcomes(refusals, effect)
                            ELSE PlainOutcomes(refusals, whim, effect) :
            /\ disk' = o.disk
            /\ refusal' = IF o.cf THEN o.code ELSE 0
            /\ answer' = Verdict(o.cf, critical', errcodes[o.code])
  /\ phase' = "reply"
  /\ UNCHANGED <<blk, romVars>>

Mkdir  == OneCall("mkdir", MkdirRefusals(blk.p), {8}, Becomes(blk.p, "dir"), MkdirErrcode)
Delete == OneCall("delete", DeleteRefusals(blk.p), {}, Becomes(blk.p, "absent"), DeleteErrcode)
Rmdir  == OneCall("rmdir", RmdirRefusals(blk.p), {16}, Becomes(blk.p, "absent"), RmdirErrcode)
Rename == OneCall("rename", RenameRefusals(blk.p, blk.q), {}, Renamed(blk.p, blk.q),
                  RenameErrcode)

CanCopy == Holds(blk.p, FileKinds) /\ ~Holds(blk.q, {"readonly"} \cup DirKinds)
           /\ blk.q \notin Missing

\* What a COPY that answers ok leaves at the destination: the source's kind, or,
\* copied onto itself, a file truncated.  A fault in Find First, which nobody
\* looks at, may give it another attribute, one in Close another content.
CopyResults(fault) ==
  {IF blk.p = blk.q THEN "partial" ELSE disk[blk.p]}
    \cup (IF fault THEN {"partial", "readonly"} ELSE {})
    \cup (IF fault /\ blk.p # blk.q /\ Holds(blk.p, {"readonly"}) THEN {"file"} ELSE {})

\* What a failed COPY may leave: the destination as it was or gone, or, after a
\* fault or with a source whose attribute keeps the unlink out, half-written.
CopyFailures(fault) ==
  {disk} \cup (IF ~CanCopy THEN {} ELSE
               {Becomes(blk.q, "absent")}
                 \cup (IF fault THEN {Becomes(blk.q, "partial")} ELSE {})
                 \cup (IF fault \/ Holds(blk.p, {"readonly"})
                       THEN {Becomes(blk.q, "readonly")} ELSE {}))

\* COPY in one step, within what PftdCopy allows it.
Copy ==
  /\ phase = "hook" /\ blk.op = "copy"
  /\ \E fault \in BOOLEAN :
       /\ fault => "copy" \in FaultyOps
       /\ critical' \in (IF fault THEN BOOLEAN ELSE {critical, FALSE})
       /\ faulted' = fault
       /\ \/ /\ CanCopy /\ answer' = Reply(Ok, 0)
             /\ \E kind_ \in CopyResults(fault) : disk' = Becomes(blk.q, kind_)
          \/ /\ disk' \in CopyFailures(fault)
             /\ \E e \in {1, 3, 4} \cup (IF fault THEN {255} ELSE {}) : answer' = Reply(Err, e)
  /\ refusal' = 0
  /\ phase' = "reply"
  /\ UNCHANGED <<blk, romVars>>

\* HELLO, DRIVES and LIST answer with data and change nothing but the flag,
\* which LIST's searches may set and nobody clears afterwards.
Query ==
  /\ phase = "hook" /\ blk.op \in Queries
  /\ \E fault \in BOOLEAN :
       /\ fault => blk.op \in FaultyOps
       /\ critical' = (critical \/ fault)
       /\ faulted' = fault
  /\ answer' = Reply(Data, 0)
  /\ refusal' = 0
  /\ phase' = "reply"
  /\ UNCHANGED <<blk, romVars, disk>>

\* None of the eleven handlers knows the code: the ROM gets the block.
NoHandler ==
  /\ phase = "hook" /\ blk.op \notin Queries \cup FileOps
  /\ phase' = "rom" /\ faulted' = FALSE /\ refusal' = 0
  /\ UNCHANGED <<blk, romVars, disk, critical, answer>>

-----------------------------------------------------------------------------
(* The cable: one receive, one transmit at a time *)

\* DL=0: a block is in the buffer, and the hook looks at it once.
Accept(b) ==
  /\ phase = "receive"
  /\ blk' = b
  /\ phase' = "hook"
  /\ UNCHANGED <<romVars, disk, critical, answer, histVars>>

AfterTransmit == IF phase = "reply" \/ rom = "serve" THEN "rom" ELSE "receive"

\* The transmit is over, taken by the client or given up with an error code in
\* DL that hook and ROM ignore alike.
EndTransmit ==
  /\ phase \in {"reply", "rom_reply"}
  /\ phase' = AfterTransmit
  /\ UNCHANGED <<blk, romVars, disk, critical, answer, histVars>>

-----------------------------------------------------------------------------
(* The ROM with the block in hand *)

RomSays(status) == answer' = Reply(status, 0) /\ phase' = "rom_reply"
KeepsListening == phase' = "receive" /\ UNCHANGED answer

BeginsData(p) == rom' = "data" /\ left' = MaxPieces /\ upl' = p /\ disk' = Becomes(p, "partial")

\* Upload init: an answer for each case, and data follows at once or after a
\* confirm.
RomInit ==
  /\ phase = "rom" /\ rom = "command" /\ blk.op = "init"
  /\ \/ /\ blk.p \in Missing \/ Holds(blk.p, {"readonly"} \cup DirKinds)
        /\ RomSays(Err)
        /\ UNCHANGED <<romVars, disk>>
     \/ /\ blk.p \notin Missing /\ Holds(blk.p, {"absent"})
        /\ RomSays(Fresh) /\ BeginsData(blk.p)
     \/ /\ Holds(blk.p, {"file", "partial"})
        /\ RomSays(Ok) /\ rom' = "confirm" /\ upl' = blk.p
        /\ UNCHANGED <<left, disk>>
  /\ UNCHANGED <<blk, critical, histVars>>

RomConfirm ==
  /\ phase = "rom" /\ rom = "confirm"
  /\ \/ blk.op = "confirm" /\ BeginsData(upl)
     \/ blk.op # "confirm" /\ rom' = "command" /\ UNCHANGED <<upl, left, disk>>
  /\ KeepsListening
  /\ UNCHANGED <<blk, critical, histVars>>

\* Whatever the block holds, it is the next piece of the file.
RomData ==
  /\ phase = "rom" /\ rom = "data"
  /\ left' = left - 1
  /\ \/ left > 1 /\ KeepsListening /\ UNCHANGED <<rom, disk>>
     \/ /\ left = 1 /\ rom' = "command"
        /\ \/ RomSays(Ok) /\ disk' = Becomes(upl, "file")
           \/ RomSays(Err) /\ UNCHANGED disk
  /\ UNCHANGED <<blk, upl, critical, histVars>>

\* Download init: a header, and the pieces follow.
RomFetch ==
  /\ phase = "rom" /\ rom = "command" /\ blk.op = "fetch"
  /\ \/ ~Holds(blk.p, FileKinds) /\ RomSays(Err) /\ UNCHANGED romVars
     \/ /\ Holds(blk.p, FileKinds)
        /\ RomSays(Ok) /\ rom' = "serve" /\ upl' = blk.p /\ left' = MaxPieces
  /\ UNCHANGED <<blk, disk, critical, histVars>>

\* The next piece, or none left, or the ROM has had enough of a client that
\* does not take them.
RomServe ==
  /\ phase = "rom" /\ rom = "serve"
  /\ \/ left > 0 /\ left' = left - 1 /\ RomSays(Data) /\ UNCHANGED rom
     \/ left = 0 /\ rom' = "finish" /\ KeepsListening /\ UNCHANGED left
     \/ rom' = "command" /\ KeepsListening /\ UNCHANGED left
  /\ UNCHANGED <<blk, upl, disk, critical, histVars>>

\* Any block ends the download.
RomFinish ==
  /\ phase = "rom" /\ rom = "finish"
  /\ rom' = "command" /\ KeepsListening
  /\ UNCHANGED <<blk, upl, left, disk, critical, histVars>>

RomIgnores ==
  /\ phase = "rom" /\ rom = "command" /\ blk.op \notin {"init", "fetch"}
  /\ KeepsListening
  /\ UNCHANGED <<blk, romVars, disk, critical, histVars>>

Handlers == Mkdir \/ Delete \/ Rmdir \/ Rename \/ Copy \/ Query \/ NoHandler
RomSteps == \/ RomInit \/ RomConfirm \/ RomData
            \/ RomFetch \/ RomServe \/ RomFinish \/ RomIgnores

\* The server with any client at all.
ServerNext == (\E b \in Blocks : Accept(b)) \/ Handlers \/ EndTransmit \/ RomSteps
ServerSpec == ServerInit /\ [][ServerNext]_serverVars

=============================================================================

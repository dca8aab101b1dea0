------------------------- MODULE BridgeSessionProofs -------------------------
(***************************************************************************)
(* Theorems about the session of the bridge, the driver and the ROM: for   *)
(* any names, disk, requests, pieces, faults and tries, and any number of  *)
(* calls, each met by what the ones before it left behind.                 *)
(***************************************************************************)
EXTENDS BridgeSession, TLAPS

-----------------------------------------------------------------------------
(* The handlers *)

Codes == {0, 1, 3, 4, 255}

\* CF and the flag decide the answer (mkdir.inc:88-107).
LEMMA VerdictMeans ==
  ASSUME NEW cf \in BOOLEAN, NEW flag \in BOOLEAN, NEW e \in Codes
  PROVE  LET v == Verdict(cf, flag, e) IN
         /\ v \in Answers
         /\ v.status = Ok => ~cf /\ ~flag
         /\ v.errcode = 255 => flag \/ (cf /\ e = 255)
<1>1. CASE flag
  BY <1>1 DEF Verdict, Reply, Answers, Codes, Ok, Err
<1>2. CASE ~flag /\ cf
  BY <1>2 DEF Verdict, Reply, Answers, Codes, Ok, Err
<1>3. CASE ~flag /\ ~cf
  BY <1>3 DEF Verdict, Reply, Answers, Codes, Ok, Err
<1> QED
  BY <1>1, <1>2, <1>3

Tables == [DosCodes \cup {0} -> Codes]

\* What the four handlers of one DOS call have in common.
CallMeans(op, refusals, whim, effect, errcodes) ==
  /\ phase = "hook" /\ blk.op = op /\ phase' = "reply" /\ UNCHANGED <<blk, romVars>>
  /\ disk' \in [Names -> Kinds] /\ critical' \in BOOLEAN /\ faulted' \in BOOLEAN
  /\ refusal' \in DosCodes \cup {0} /\ answer' \in Answers
  /\ answer'.status = Ok => refusals = {} /\ disk' = effect
  /\ answer'.errcode = 255 /\ ~faulted' =>
       refusal' \in refusals \cup whim /\ errcodes[refusal'] = 255

\* An answer of such a handler tells what its DOS call came to.
LEMMA OneCallMeans ==
  ASSUME TypeOK, NEW op, NEW refusals \in SUBSET DosCodes, NEW whim \in SUBSET DosCodes,
         NEW effect \in [Names -> Kinds], NEW errcodes \in Tables,
         OneCall(op, refusals, whim, effect, errcodes)
  PROVE  CallMeans(op, refusals, whim, effect, errcodes)
<1>1. /\ phase = "hook" /\ blk.op = op /\ phase' = "reply" /\ UNCHANGED <<blk, romVars>>
  BY DEF OneCall
<1>2. PICK fault \in BOOLEAN :
        /\ critical' = fault /\ faulted' = fault
        /\ \E o \in IF fault THEN FaultOutcomes(refusals, effect)
                             ELSE PlainOutcomes(refusals, whim, effect) :
             /\ disk' = o.disk
             /\ refusal' = IF o.cf THEN o.code ELSE 0
             /\ answer' = Verdict(o.cf, critical', errcodes[o.code])
  BY DEF OneCall, FlagBefore
<1>3. PICK o \in IF fault THEN FaultOutcomes(refusals, effect)
                         ELSE PlainOutcomes(refusals, whim, effect) :
             /\ disk' = o.disk
             /\ refusal' = IF o.cf THEN o.code ELSE 0
             /\ answer' = Verdict(o.cf, critical', errcodes[o.code])
  BY <1>2
<1>4. disk \in [Names -> Kinds]
  BY DEF TypeOK
<1>5. /\ o.cf \in BOOLEAN /\ o.code \in DosCodes \cup {0} /\ o.disk \in [Names -> Kinds]
      /\ ~fault /\ o.cf => o.code \in refusals \cup whim
      /\ ~fault /\ ~o.cf => refusals = {} /\ o.disk = effect
  <2>1. CASE fault
    BY <1>3, <1>4, <2>1 DEF FaultOutcomes
  <2>2. CASE ~fault
    <3>1. \/ \E c \in refusals \cup whim : o = [cf |-> TRUE, code |-> c, disk |-> disk]
          \/ refusals = {} /\ o = [cf |-> FALSE, code |-> 0, disk |-> effect]
      BY <1>3, <2>2, Zenon DEF PlainOutcomes
    <3>2. CASE \E c \in refusals \cup whim : o = [cf |-> TRUE, code |-> c, disk |-> disk]
      BY <1>4, <2>2, <3>2
    <3>3. CASE refusals = {} /\ o = [cf |-> FALSE, code |-> 0, disk |-> effect]
      BY <2>2, <3>3
    <3> QED
      BY <3>1, <3>2, <3>3
  <2> QED
    BY <2>1, <2>2
<1>6. errcodes[o.code] \in Codes
  BY <1>5 DEF Tables
<1>7. /\ answer' \in Answers
      /\ answer'.status = Ok => ~o.cf /\ ~fault
      /\ answer'.errcode = 255 => fault \/ (o.cf /\ errcodes[o.code] = 255)
  BY <1>2, <1>3, <1>5, <1>6, VerdictMeans
<1> QED
  BY <1>1, <1>2, <1>3, <1>5, <1>7 DEF CallMeans

\* The tables give the protocol's codes, and 255 where they have no entry.
LEMMA TableTypes ==
  MkdirErrcode \in Tables /\ DeleteErrcode \in Tables /\ RmdirErrcode \in Tables
  /\ RenameErrcode \in Tables
<1>1. MkdirErrcode \in Tables
  BY DEF MkdirErrcode, Tables, Codes
<1>2. DeleteErrcode \in Tables
  BY DEF DeleteErrcode, Tables, Codes
<1>3. RmdirErrcode \in Tables
  BY DEF RmdirErrcode, Tables, Codes
<1>4. RenameErrcode \in Tables
  BY DEF RenameErrcode, Tables, Codes
<1> QED
  BY <1>1, <1>2, <1>3, <1>4

\* A disk on which a name stands for something else.
LEMMA BecomesType ==
  ASSUME TypeOK, NEW n \in Names, NEW kind_ \in Kinds
  PROVE  Becomes(n, kind_) \in [Names -> Kinds] /\ Becomes(n, kind_)[n] = kind_
BY DEF TypeOK, Becomes

BlkOk == blk \in Blocks /\ blk.p \in Names /\ blk.q \in Names /\ blk.op \in Ops

\* The block in hand is a block.
LEMMA BlockType == ASSUME TypeOK PROVE BlkOk
BY DEF TypeOK, Blocks, BlkOk

\* What a step of a handler does, and what its answer says.
HandlerStep ==
  /\ phase = "hook" /\ phase' \in {"reply", "rom"} /\ UNCHANGED <<blk, romVars>>
  /\ disk' \in [Names -> Kinds] /\ critical' \in BOOLEAN /\ faulted' \in BOOLEAN
  /\ refusal' \in DosCodes \cup {0} /\ answer' \in Answers
  /\ phase' = "reply" => /\ blk.op \in Handled
                         /\ (answer.status = Ok => Done(blk))'
                         /\ FaultStaysInItsCommand'
  /\ phase' = "rom" => blk.op \notin Handled

\* MKDIR's ok means the directory is there (mkdir.inc).
LEMMA MkdirMeans == ASSUME TypeOK, Mkdir PROVE HandlerStep
<1> DEFINE r == MkdirRefusals(blk.p)
           e == Becomes(blk.p, "dir")
<1>0. BlkOk
  BY BlockType
<1>1. r \in SUBSET DosCodes /\ r \subseteq {3, 5} /\ {8} \in SUBSET DosCodes
  BY DEF MkdirRefusals, DosCodes
<1>2. e \in [Names -> Kinds] /\ e[blk.p] = "dir"
  BY <1>0, BecomesType DEF BlkOk, Kinds
<1>3. OneCall("mkdir", r, {8}, e, MkdirErrcode)
  BY DEF Mkdir
<1>t. MkdirErrcode \in Tables
  BY TableTypes
<1> HIDE DEF r, e
<1>5. /\ phase = "hook" /\ blk.op = "mkdir" /\ phase' = "reply" /\ UNCHANGED <<blk, romVars>>
      /\ disk' \in [Names -> Kinds] /\ critical' \in BOOLEAN /\ faulted' \in BOOLEAN
      /\ refusal' \in DosCodes \cup {0} /\ answer' \in Answers
      /\ answer'.status = Ok => r = {} /\ disk' = e
      /\ answer'.errcode = 255 /\ ~faulted' =>
           refusal' \in r \cup {8} /\ MkdirErrcode[refusal'] = 255
  <2>1. CallMeans("mkdir", r, {8}, e, MkdirErrcode)
    BY <1>1, <1>2, <1>3, <1>t, OneCallMeans
  <2> QED
    BY <2>1 DEF CallMeans
<1>6. (answer.status = Ok => Done(blk))'
  BY <1>2, <1>5 DEF Done, Holds
<1>7. FaultStaysInItsCommand'
  BY <1>1, <1>5 DEF FaultStaysInItsCommand, Unlisted
<1> QED
  BY <1>5, <1>6, <1>7 DEF HandlerStep, Handled, FileOps

\* DELETE's ok means the file is gone (delete.inc); code 3 is not in its table.
LEMMA DeleteMeans == ASSUME TypeOK, Delete PROVE HandlerStep
<1> DEFINE r == DeleteRefusals(blk.p)
           e == Becomes(blk.p, "absent")
<1>0. BlkOk
  BY BlockType
<1>1. r \in SUBSET DosCodes /\ r \subseteq {2, 3, 5} /\ {} \in SUBSET DosCodes
  BY DEF DeleteRefusals, DosCodes
<1>2. e \in [Names -> Kinds] /\ e[blk.p] = "absent"
  BY <1>0, BecomesType DEF BlkOk, Kinds
<1>3. OneCall("delete", r, {}, e, DeleteErrcode)
  BY DEF Delete
<1>t. DeleteErrcode \in Tables
  BY TableTypes
<1> HIDE DEF r, e
<1>5. /\ phase = "hook" /\ blk.op = "delete" /\ phase' = "reply" /\ UNCHANGED <<blk, romVars>>
      /\ disk' \in [Names -> Kinds] /\ critical' \in BOOLEAN /\ faulted' \in BOOLEAN
      /\ refusal' \in DosCodes \cup {0} /\ answer' \in Answers
      /\ answer'.status = Ok => r = {} /\ disk' = e
      /\ answer'.errcode = 255 /\ ~faulted' =>
           refusal' \in r \cup {} /\ DeleteErrcode[refusal'] = 255
  <2>1. CallMeans("delete", r, {}, e, DeleteErrcode)
    BY <1>1, <1>2, <1>3, <1>t, OneCallMeans
  <2> QED
    BY <2>1 DEF CallMeans
<1>6. (answer.status = Ok => Done(blk))'
  BY <1>2, <1>5 DEF Done, Holds
<1>7. FaultStaysInItsCommand'
  BY <1>1, <1>5 DEF FaultStaysInItsCommand, Unlisted
<1> QED
  BY <1>5, <1>6, <1>7 DEF HandlerStep, Handled, FileOps

\* RMDIR's ok means the directory is gone (rmdir.inc); code 16 is not in its table.
LEMMA RmdirMeans == ASSUME TypeOK, Rmdir PROVE HandlerStep
<1> DEFINE r == RmdirRefusals(blk.p)
           e == Becomes(blk.p, "absent")
<1>0. BlkOk
  BY BlockType
<1>1. r \in SUBSET DosCodes /\ r \subseteq {3, 5} /\ {16} \in SUBSET DosCodes
  BY DEF RmdirRefusals, DosCodes
<1>2. e \in [Names -> Kinds] /\ e[blk.p] = "absent"
  BY <1>0, BecomesType DEF BlkOk, Kinds
<1>3. OneCall("rmdir", r, {16}, e, RmdirErrcode)
  BY DEF Rmdir
<1>t. RmdirErrcode \in Tables
  BY TableTypes
<1> HIDE DEF r, e
<1>5. /\ phase = "hook" /\ blk.op = "rmdir" /\ phase' = "reply" /\ UNCHANGED <<blk, romVars>>
      /\ disk' \in [Names -> Kinds] /\ critical' \in BOOLEAN /\ faulted' \in BOOLEAN
      /\ refusal' \in DosCodes \cup {0} /\ answer' \in Answers
      /\ answer'.status = Ok => r = {} /\ disk' = e
      /\ answer'.errcode = 255 /\ ~faulted' =>
           refusal' \in r \cup {16} /\ RmdirErrcode[refusal'] = 255
  <2>1. CallMeans("rmdir", r, {16}, e, RmdirErrcode)
    BY <1>1, <1>2, <1>3, <1>t, OneCallMeans
  <2> QED
    BY <2>1 DEF CallMeans
<1>6. (answer.status = Ok => Done(blk))'
  BY <1>2, <1>5 DEF Done, Holds
<1>7. FaultStaysInItsCommand'
  BY <1>1, <1>5 DEF FaultStaysInItsCommand, Unlisted
<1> QED
  BY <1>5, <1>6, <1>7 DEF HandlerStep, Handled, FileOps

\* RENAME's ok means the old name is free and the new one is not (rename.inc).
LEMMA RenameMeans == ASSUME TypeOK, Rename PROVE HandlerStep
<1> DEFINE r == RenameRefusals(blk.p, blk.q)
           e == Renamed(blk.p, blk.q)
<1>0. BlkOk /\ disk \in [Names -> Kinds]
  BY BlockType DEF TypeOK
<1>1. r \in SUBSET DosCodes /\ r \subseteq {2, 3, 5, 17} /\ {} \in SUBSET DosCodes
  BY DEF RenameRefusals, DosCodes
<1>2. e \in [Names -> Kinds]
  BY <1>0 DEF Renamed, BlkOk, Kinds
<1>3. r = {} => e[blk.p] = "absent" /\ e[blk.q] # "absent"
  <2>1. SUFFICES ASSUME r = {} PROVE e[blk.p] = "absent" /\ e[blk.q] # "absent"
    OBVIOUS
  <2>2. disk[blk.q] = "absent"
    BY <2>1 DEF RenameRefusals, DosCodes, Holds
  <2>3. blk.p \notin Missing
    BY <2>1 DEF RenameRefusals, DosCodes
  <2>4. disk[blk.p] # "absent"
    BY <2>1, <2>3 DEF RenameRefusals, DosCodes, Holds
  <2> QED
    BY <1>0, <2>2, <2>4 DEF Renamed, BlkOk
<1>4. OneCall("rename", r, {}, e, RenameErrcode)
  BY DEF Rename
<1>t. RenameErrcode \in Tables
  BY TableTypes
<1> HIDE DEF r, e
<1>6. /\ phase = "hook" /\ blk.op = "rename" /\ phase' = "reply" /\ UNCHANGED <<blk, romVars>>
      /\ disk' \in [Names -> Kinds] /\ critical' \in BOOLEAN /\ faulted' \in BOOLEAN
      /\ refusal' \in DosCodes \cup {0} /\ answer' \in Answers
      /\ answer'.status = Ok => r = {} /\ disk' = e
      /\ answer'.errcode = 255 /\ ~faulted' =>
           refusal' \in r \cup {} /\ RenameErrcode[refusal'] = 255
  <2>1. CallMeans("rename", r, {}, e, RenameErrcode)
    BY <1>1, <1>2, <1>4, <1>t, OneCallMeans
  <2> QED
    BY <2>1 DEF CallMeans
<1>7. (answer.status = Ok => Done(blk))'
  BY <1>3, <1>6 DEF Done, Holds
<1>8. FaultStaysInItsCommand'
  BY <1>1, <1>6 DEF FaultStaysInItsCommand, Unlisted
<1> QED
  BY <1>6, <1>7, <1>8 DEF HandlerStep, Handled, FileOps

\* COPY's ok means the two names stand for the same, or, after a fault, for files
\* (copy.inc, and PftdCopy step by step).
LEMMA CopyMeans == ASSUME TypeOK, Copy PROVE HandlerStep
<1>0. BlkOk /\ disk \in [Names -> Kinds]
  BY BlockType DEF TypeOK
<1>1. /\ phase = "hook" /\ blk.op = "copy" /\ phase' = "reply" /\ UNCHANGED <<blk, romVars>>
      /\ refusal' = 0
  BY DEF Copy
<1>2. PICK fault \in BOOLEAN :
        /\ critical' \in (IF fault THEN BOOLEAN ELSE {critical, FALSE})
        /\ faulted' = fault
        /\ \/ /\ CanCopy /\ answer' = Reply(Ok, 0)
              /\ \E kind_ \in CopyResults(fault) : disk' = Becomes(blk.q, kind_)
           \/ /\ disk' \in CopyFailures(fault)
              /\ \E e \in {1, 3, 4} \cup (IF fault THEN {255} ELSE {}) : answer' = Reply(Err, e)
  BY DEF Copy
<1>3. critical' \in BOOLEAN
  BY <1>2 DEF TypeOK
<1>4. CASE /\ CanCopy /\ answer' = Reply(Ok, 0)
           /\ \E kind_ \in CopyResults(fault) : disk' = Becomes(blk.q, kind_)
  <2>1. answer' \in Answers /\ answer'.errcode # 255
    BY <1>4 DEF Reply, Answers, Ok
  <2>2. PICK kind_ \in CopyResults(fault) : disk' = Becomes(blk.q, kind_)
    BY <1>4
  <2>3. disk[blk.p] \in FileKinds
    BY <1>4 DEF CanCopy, Holds
  <2>4. kind_ \in FileKinds /\ (~fault /\ blk.p # blk.q => kind_ = disk[blk.p])
    BY <2>2, <2>3 DEF CopyResults, FileKinds
  <2>5. disk' \in [Names -> Kinds] /\ disk'[blk.q] = kind_
    BY <1>0, <2>2, <2>4, BecomesType DEF BlkOk, FileKinds, Kinds
  <2>6. blk.p # blk.q => disk'[blk.p] = disk[blk.p]
    BY <1>0, <2>2 DEF Becomes, BlkOk
  <2>7. Done(blk)'
    BY <1>1, <1>2, <2>3, <2>4, <2>5, <2>6 DEF Done, Holds
  <2> QED
    BY <1>1, <1>2, <1>3, <2>1, <2>5, <2>7
    DEF HandlerStep, Handled, FileOps, FaultStaysInItsCommand
<1>5. CASE /\ disk' \in CopyFailures(fault)
           /\ \E e \in {1, 3, 4} \cup (IF fault THEN {255} ELSE {}) : answer' = Reply(Err, e)
  <2>1. PICK e \in {1, 3, 4} \cup (IF fault THEN {255} ELSE {}) : answer' = Reply(Err, e)
    BY <1>5
  <2>2. answer' \in Answers /\ answer'.status # Ok /\ (answer'.errcode = 255 => fault)
    BY <2>1 DEF Reply, Answers, Err, Ok
  <2>3. \A k \in {"absent", "partial", "readonly"} : Becomes(blk.q, k) \in [Names -> Kinds]
    BY <1>0, BecomesType DEF BlkOk, Kinds
  <2>4. disk' \in [Names -> Kinds]
    BY <1>0, <1>5, <2>3 DEF CopyFailures
  <2> QED
    BY <1>1, <1>2, <1>3, <2>2, <2>4
    DEF HandlerStep, Handled, FileOps, FaultStaysInItsCommand
<1> QED
  BY <1>2, <1>4, <1>5

\* No handler answers for a command it has not carried out.
LEMMA HandlersMean == ASSUME TypeOK, Handlers PROVE HandlerStep
<1>1. CASE Query
  <2>1. answer' \in Answers /\ answer'.status # Ok /\ answer'.errcode # 255
    BY <1>1 DEF Query, Reply, Answers, Data, Ok
  <2> QED
    BY <1>1, <2>1 DEF Query, HandlerStep, Handled, TypeOK, FaultStaysInItsCommand
<1>2. CASE NoHandler
  BY <1>2 DEF NoHandler, HandlerStep, Handled, TypeOK
<1> QED
  BY <1>1, <1>2, MkdirMeans, DeleteMeans, RmdirMeans, RenameMeans, CopyMeans DEF Handlers

-----------------------------------------------------------------------------
(* The ROM and the cable *)

\* What a step of the ROM leaves alone and what it may change.
RomStep ==
  /\ phase = "rom" /\ phase' \in {"receive", "rom_reply"} /\ UNCHANGED <<blk, critical, histVars>>
  /\ rom' \in RomStates /\ upl' \in Names /\ left' \in 0..MaxPieces
  /\ disk' \in [Names -> Kinds] /\ answer' \in Answers
  /\ rom' = "data" => left' > 0
  /\ rom' = "serve" => phase' = "rom_reply"

\* The ROM's counts stay in range whatever blocks it is given.
LEMMA RomMeans == ASSUME TypeOK, HandlerInv, RomSteps PROVE RomStep
<1>0. /\ BlkOk /\ MaxPieces \in Nat /\ MaxPieces > 0 /\ left \in 0..MaxPieces
      /\ upl \in Names /\ rom \in RomStates /\ disk \in [Names -> Kinds] /\ answer \in Answers
  BY BlockType, ServerAssumption DEF TypeOK
<1>1. \A n \in Names : Becomes(n, "partial") \in [Names -> Kinds]
                       /\ Becomes(n, "file") \in [Names -> Kinds]
  BY BecomesType DEF Kinds
<1>2. \A st \in {Ok, Err, Fresh, Data} : Reply(st, 0) \in Answers
  BY DEF Reply, Answers
<1>3. CASE RomInit
  BY <1>0, <1>1, <1>2, <1>3 DEF RomInit, RomSays, BeginsData, RomStep, BlkOk,
      RomStates, romVars
<1>4. CASE RomConfirm
  BY <1>0, <1>1, <1>4 DEF RomConfirm, KeepsListening, BeginsData, RomStep, RomStates
<1>5. CASE RomData
  <2>1. left > 0
    BY <1>5 DEF RomData, HandlerInv
  <2>2. left' = left - 1 /\ left' \in 0..MaxPieces /\ (left > 1 => left' > 0)
    BY <1>0, <1>5, <2>1 DEF RomData
  <2> QED
    BY <1>0, <1>1, <1>2, <1>5, <2>2 DEF RomData, RomSays, KeepsListening, RomStep, RomStates
<1>6. CASE RomFetch
  BY <1>0, <1>2, <1>6 DEF RomFetch, RomSays, RomStep, BlkOk, RomStates, romVars
<1>7. CASE RomServe
  BY <1>0, <1>2, <1>7 DEF RomServe, RomSays, KeepsListening, RomStep, RomStates
<1>8. CASE RomFinish \/ RomIgnores
  BY <1>0, <1>8 DEF RomFinish, RomIgnores, KeepsListening, RomStep, RomStates, romVars
<1> QED
  BY <1>3, <1>4, <1>5, <1>6, <1>7, <1>8 DEF RomSteps

\* A block sent is in the server's hands, or nothing has happened and the
\* client does not think otherwise.
SendStep(b, ok) ==
  \/ /\ b # Empty /\ phase = "receive" /\ phase' = "hook" /\ blk' = b /\ owner' = calls
     /\ accepted' = (IF at = "sync" THEN accepted + 1 ELSE accepted)
     /\ mixed' = (IF rom = "data" THEN (left < MaxPieces /\ mixed) \/ ~Expected ELSE mixed)
     /\ UNCHANGED <<romVars, disk, critical, answer, histVars>>
  \/ ok = (b = Empty) /\ UNCHANGED <<serverVars, owner, accepted, mixed>>

\* A send is a block taken, or a failure the sender knows of, or of no block.
LEMMA SendMeans == ASSUME NEW b, NEW ok, Send(b, ok) PROVE SendStep(b, ok)
BY DEF Send, Accept, SendStep

\* What a handler transmits stays true while blocks come and go.
LEMMA SendKeepsHandler ==
  ASSUME HandlerInv, NEW b, NEW ok, SendStep(b, ok) PROVE HandlerInv'
<1>1. CASE phase' = "hook" /\ phase = "receive" /\ UNCHANGED <<romVars, disk, answer, histVars>>
  BY <1>1 DEF HandlerInv, romVars, FaultStaysInItsCommand
<1>2. CASE UNCHANGED serverVars
  BY <1>2 DEF HandlerInv, serverVars, romVars, histVars, FaultStaysInItsCommand, Unlisted, Done, Holds
<1> QED
  BY <1>1, <1>2 DEF SendStep

\* What the end of a transmit does.
TransmitStep ==
  /\ phase \in {"reply", "rom_reply"}
  /\ phase' = (IF phase = "reply" \/ rom = "serve" THEN "rom" ELSE "receive")
  /\ UNCHANGED <<blk, romVars, disk, critical, answer, histVars>>

\* What a handler transmits stays true while the transmit ends.
LEMMA TransmitKeepsHandler ==
  ASSUME HandlerInv, TransmitStep \/ UNCHANGED serverVars PROVE HandlerInv'
<1>1. CASE TransmitStep
  BY <1>1 DEF HandlerInv, TransmitStep, romVars, FaultStaysInItsCommand
<1>2. CASE UNCHANGED serverVars
  BY <1>2 DEF HandlerInv, serverVars, romVars, histVars, FaultStaysInItsCommand, Unlisted, Done, Holds
<1> QED
  BY <1>1, <1>2

\* Taken or given up, a transmit ends the same way for the server.
LEMMA TransmitMeans == ASSUME EndTransmit PROVE TransmitStep
BY DEF EndTransmit, TransmitStep, AfterTransmit

\* The part of the types that is the server's, over one block or transmit.
ServerTyped ==
  /\ phase \in Phases /\ blk \in Blocks /\ answer \in Answers
  /\ rom \in RomStates /\ upl \in Names /\ left \in 0..MaxPieces
  /\ disk \in [Names -> Kinds] /\ critical \in BOOLEAN
  /\ faulted \in BOOLEAN /\ refusal \in DosCodes \cup {0}

\* The part of the types that is the client's.
ClientTyped ==
  /\ at \in Stations /\ kind \in {"raw", "upload", "download"} /\ req \in Blocks \cup {Empty}
  /\ tries \in 0..MaxTries /\ sent \in 0..MaxPieces
  /\ outcome \in Outcomes /\ result \in Answers
  /\ calls \in 0..MaxCalls /\ owner \in 0..MaxCalls /\ resultOf \in 0..MaxCalls
  /\ accepted \in 0..MaxTries /\ mixed \in BOOLEAN

\* The types are the server's and the client's.
LEMMA TypeSplit == TypeOK <=> ServerTyped /\ ClientTyped
BY DEF TypeOK, ServerTyped, ClientTyped

\* And so they are after a step.
LEMMA TypeSplitNext == TypeOK' <=> ServerTyped' /\ ClientTyped'
BY DEF TypeOK, ServerTyped, ClientTyped

\* A block sent keeps the server's types.
LEMMA SendTyped ==
  ASSUME ServerTyped, NEW b \in Blocks \cup {Empty}, NEW ok, SendStep(b, ok) PROVE ServerTyped'
<1>1. CASE b \in Blocks /\ phase' = "hook" /\ blk' = b /\ UNCHANGED <<romVars, disk, critical, answer, histVars>>
  BY <1>1 DEF ServerTyped, romVars, histVars, Phases
<1>2. CASE UNCHANGED serverVars
  BY <1>2 DEF ServerTyped, serverVars, romVars, histVars
<1> QED
  BY <1>1, <1>2 DEF SendStep

\* So does a transmit.
LEMMA TransmitTyped ==
  ASSUME ServerTyped, TransmitStep \/ UNCHANGED serverVars PROVE ServerTyped'
<1>1. CASE TransmitStep
  BY <1>1 DEF TransmitStep, ServerTyped, romVars, histVars, Phases
<1>2. CASE UNCHANGED serverVars
  BY <1>2 DEF ServerTyped, serverVars, romVars, histVars
<1> QED
  BY <1>1, <1>2

-----------------------------------------------------------------------------
(* The client's actions *)

\* The bounds and the blocks a call sends.
LEMMA Bounds ==
  /\ MaxPieces \in Nat /\ MaxPieces > 0 /\ MaxTries \in Nat /\ MaxTries > 0 /\ MaxCalls \in Nat
  /\ Requests \subseteq Blocks \cup {Empty} /\ Pieces \subseteq Blocks
BY ServerAssumption, SessionAssumption

\* The blocks the client makes up itself are blocks.
LEMMA BlockTypes ==
  /\ \A n \in Names : /\ InitBlock(n) \in Blocks /\ InitBlock(n).op = "init"
                       /\ FetchBlock(n) \in Blocks /\ FetchBlock(n).op = "fetch"
  /\ req \in Blocks \cup {Empty} =>
       /\ ConfirmBlock \in Blocks /\ ConfirmBlock.op = "confirm"
       /\ FinishBlock \in Blocks /\ FinishBlock.op = "other"
<1>1. AnyName \in Names
  BY ServerAssumption DEF AnyName
<1>2. req \in Blocks \cup {Empty} => req.p \in Names
  BY <1>1 DEF Blocks, Empty
<1> QED
  BY <1>2 DEF InitBlock, FetchBlock, ConfirmBlock, FinishBlock, Blocks, Ops, RomOps

\* No block is no block.
LEMMA EmptyIsNoBlock == Empty \notin Blocks /\ Empty.op = "empty"
BY DEF Empty, Blocks, Ops, Queries, FileOps, RomOps

SomeCall == \/ \E b \in Requests : SendRaw(b)
            \/ \E n \in Names : UploadFile(n) \/ DownloadFile(n)

\* A call finds the server wherever the last one left it.
LEMMA CallKeeps == ASSUME Agreement, SomeCall PROVE Agreement'
<1>0. TypeOK /\ ClientInv /\ HandlerInv
  BY DEF Agreement
<1>1. PICK k \in {"raw", "upload", "download"}, b \in Blocks \cup {Empty} :
        /\ Call(k, b)
        /\ k = "upload" => b.op = "init"
        /\ k = "download" => b.op = "fetch"
  BY Bounds, BlockTypes DEF SomeCall, SendRaw, UploadFile, DownloadFile
<1>2. /\ at' = "sync" /\ kind' = k /\ req' = b /\ calls' = calls + 1 /\ calls < MaxCalls
      /\ tries' = 0 /\ sent' = 0 /\ outcome' = "none" /\ accepted' = 0
      /\ UNCHANGED <<serverVars, result, owner, resultOf, mixed>>
  BY <1>1 DEF Call, Goto
<1>3. ServerTyped /\ ClientTyped
  BY <1>0, TypeSplit
<1>4. ServerTyped'
  BY <1>2, <1>3, TransmitTyped
<1>5. ClientTyped'
  BY <1>2, <1>3, Bounds DEF ClientTyped, Stations, Outcomes
<1>6. ClientInv'
  BY <1>1, <1>2 DEF ClientInv, AnswerMatchesRequest
<1>7. HandlerInv'
  BY <1>0, <1>2, TransmitKeepsHandler
<1>8. WaitInv' /\ UploadInv' /\ DownloadInv'
  BY <1>2 DEF WaitInv, UploadInv, DownloadInv
<1> QED
  BY <1>4, <1>5, <1>6, <1>7, <1>8, TypeSplitNext DEF Agreement

\* A turn's first half: with the request taken the wait begins.
LEMMA TryRequestKeeps == ASSUME Agreement, TryRequest PROVE Agreement'
<1>0. TypeOK /\ ClientInv /\ HandlerInv
  BY DEF Agreement
<1>1. PICK ok \in BOOLEAN :
        /\ Send(req, ok)
        /\ IF ok THEN at' = "reply" /\ UNCHANGED outcome
           ELSE \/ at' = "sync" /\ UNCHANGED outcome
                \/ at' = "idle" /\ outcome' = "error"
  BY DEF TryRequest, Goto, Leaves
<1>2. /\ at = "sync" /\ tries < MaxTries /\ tries' = tries + 1
      /\ UNCHANGED <<kind, req, sent, result, calls, resultOf>>
  BY DEF TryRequest
<1>3. SendStep(req, ok)
  BY <1>1, SendMeans
<1>4. ServerTyped /\ ClientTyped /\ req \in Blocks \cup {Empty}
  BY <1>0, TypeSplit DEF ClientTyped
<1>5. ServerTyped'
  BY <1>3, <1>4, SendTyped
<1>6. /\ accepted' \in {accepted, accepted + 1} /\ owner' \in {owner, calls}
      /\ mixed' \in BOOLEAN
  BY <1>3, <1>4 DEF SendStep, ClientTyped
<1>7. accepted \in Nat /\ tries \in Nat /\ accepted <= tries
  BY <1>0, <1>4, Bounds DEF ClientTyped, ClientInv
<1>8. accepted' <= tries' /\ accepted' \in 0..MaxTries /\ tries' \in 0..MaxTries
  BY <1>2, <1>6, <1>7, Bounds
<1>9. ClientTyped'
  BY <1>1, <1>2, <1>4, <1>6, <1>8 DEF ClientTyped, Stations, Outcomes
<1>10. ClientInv'
  BY <1>0, <1>1, <1>2, <1>8 DEF ClientInv, AnswerMatchesRequest
<1>11. HandlerInv'
  BY <1>0, <1>3, SendKeepsHandler
<1>12. WaitInv'
  <2>1. SUFFICES ASSUME at' = "reply", req' # Empty PROVE WaitInv'
    BY DEF WaitInv
  <2>2. ok /\ req # Empty
    BY <1>1, <1>2, <2>1
  <2>3. phase = "receive" /\ phase' = "hook" /\ blk' = req /\ owner' = calls /\ rom' = rom
    BY <1>3, <2>2 DEF SendStep, romVars
  <2>4. rom # "serve"
    BY <1>0, <2>3 DEF HandlerInv
  <2> QED
    BY <1>2, <2>3, <2>4 DEF WaitInv
<1>13. UploadInv' /\ DownloadInv'
  <2>1. at' \notin {"confirm", "data", "final", "fetch", "finish"}
        /\ outcome' \notin {"stored", "fetched"}
    BY <1>0, <1>1, <1>2 DEF ClientInv
  <2> QED
    BY <2>1 DEF UploadInv, DownloadInv
<1> QED
  BY <1>5, <1>9, <1>10, <1>11, <1>12, <1>13, TypeSplitNext DEF Agreement

\* A turn's second half: what is received answers the request, and tells the
\* client of an upload or a download what the ROM is at.
LEMMA AwaitReplyKeeps == ASSUME Agreement, OwnerInv, AwaitReply PROVE Agreement'
<1>0. TypeOK /\ ClientInv /\ HandlerInv /\ WaitInv
  BY DEF Agreement
<1>1. at = "reply" /\ UNCHANGED <<kind, req, tries, sent, calls, owner, accepted, mixed>>
  BY DEF AwaitReply
<1>2. TransmitStep \/ UNCHANGED serverVars
  BY TransmitMeans DEF AwaitReply, Receive, ReceiveFails
<1>3. ServerTyped /\ ClientTyped
  BY <1>0, TypeSplit
<1>4. ServerTyped'
  BY <1>2, <1>3, TransmitTyped
<1>5. HandlerInv'
  BY <1>0, <1>2, TransmitKeepsHandler
<1>6. \/ /\ TransmitStep /\ result' = answer /\ resultOf' = owner
         /\ \/ kind = "raw" /\ at' = "idle" /\ outcome' = "returned"
            \/ kind = "upload" /\ AfterInit
            \/ kind = "download" /\ AfterFetch
      \/ at' = "sync" /\ UNCHANGED <<outcome, result, resultOf>>
      \/ at' = "idle" /\ outcome' = "error" /\ UNCHANGED <<result, resultOf>>
  <2>1. kind \in {"raw", "upload", "download"}
    BY <1>3 DEF ClientTyped
  <2>2. CASE /\ Receive /\ result' = answer /\ resultOf' = owner
             /\ CASE kind = "raw"      -> Leaves("returned")
                  [] kind = "upload"   -> AfterInit
                  [] kind = "download" -> AfterFetch
    BY <2>1, <2>2, TransmitMeans DEF Receive, Leaves
  <2>3. CASE ReceiveFails /\ RetryOrRaise /\ UNCHANGED <<result, resultOf>>
    BY <2>3 DEF RetryOrRaise, Goto, Leaves
  <2> QED
    BY <2>2, <2>3 DEF AwaitReply
<1>7. /\ outcome = "none" /\ sent = 0 /\ MaxPieces > 0
      /\ req # Empty => owner = calls /\ blk = req
  BY <1>0, <1>1, Bounds DEF ClientInv, WaitInv
<1>e. kind \in {"upload", "download"} => req # Empty
  BY <1>0, EmptyIsNoBlock DEF ClientInv
<1>8. CASE /\ TransmitStep /\ result' = answer /\ resultOf' = owner
           /\ kind = "raw" /\ at' = "idle" /\ outcome' = "returned"
  <2>1. ClientTyped'
    BY <1>1, <1>3, <1>8 DEF ClientTyped, ServerTyped, Stations, Outcomes
  <2>2. AnswerMatchesRequest'
    <3>1. CASE req # Empty
      BY <1>1, <1>7, <1>8, <3>1 DEF AnswerMatchesRequest
    <3>2. CASE req = Empty
      <4>1. phase # "receive" /\ owner \in 0..MaxCalls /\ calls \in 0..MaxCalls
        BY <1>3, <1>8 DEF TransmitStep, ClientTyped
      <4>2. owner \in 1..calls - 1
        BY <1>1, <3>2, <4>1, Bounds DEF OwnerInv
      <4> QED
        BY <1>1, <1>8, <3>2, <4>2 DEF AnswerMatchesRequest
    <3> QED
      BY <3>1, <3>2
  <2>4. ClientInv'
    BY <1>0, <1>1, <1>7, <1>8, <2>2 DEF ClientInv
  <2>3. WaitInv' /\ UploadInv' /\ DownloadInv'
    BY <1>8 DEF WaitInv, UploadInv, DownloadInv
  <2> QED
    BY <1>4, <1>5, <2>1, <2>3, <2>4, TypeSplitNext DEF Agreement
<1>9. CASE /\ TransmitStep /\ result' = answer /\ resultOf' = owner /\ kind = "upload" /\ AfterInit
  <2>1. phase = "rom_reply"
    <3>1. blk.op = "init"
      BY <1>0, <1>7, <1>e, <1>9 DEF ClientInv
    <3>2. "init" \notin Handled
      BY DEF Handled, Queries, FileOps
    <3> QED
      BY <1>0, <1>9, <3>1, <3>2 DEF HandlerInv, TransmitStep
  <2>2. \/ answer.status = Err
        \/ answer.status = Fresh /\ rom = "data" /\ upl = req.p /\ left = MaxPieces
        \/ answer.status = Ok /\ ((rom = "confirm" /\ upl = req.p) \/ rom = "command")
    BY <1>0, <1>1, <1>e, <1>9, <2>1 DEF WaitInv
  <2>3. Ok # Err /\ Fresh # Err /\ Fresh # Ok
    BY DEF Ok, Err, Fresh
  <2>4. \/ at' = "idle" /\ outcome' = "failed"
        \/ /\ at' = "confirm" /\ outcome' = outcome
           /\ (rom = "confirm" /\ upl = req.p) \/ rom = "command"
        \/ /\ at' = "data" /\ outcome' = outcome
           /\ rom = "data" /\ upl = req.p /\ left = MaxPieces
    BY <1>9, <2>2, <2>3 DEF AfterInit, Goto, Leaves
  <2>5. ClientTyped'
    BY <1>1, <1>3, <1>9, <2>4 DEF ClientTyped, ServerTyped, Stations, Outcomes
  <2>6. ClientInv'
    BY <1>0, <1>1, <1>7, <1>9, <2>4 DEF ClientInv, AnswerMatchesRequest
  <2>7. WaitInv' /\ DownloadInv'
    BY <1>7, <2>4 DEF WaitInv, DownloadInv
  <2>8. UNCHANGED <<rom, upl, left>> /\ (rom # "serve" => phase' = "receive")
    BY <1>9, <2>1 DEF TransmitStep, romVars
  <2>9. UploadInv'
    BY <1>1, <1>7, <2>4, <2>8, Bounds DEF UploadInv, AtUpload
  <2> QED
    BY <1>4, <1>5, <2>5, <2>6, <2>7, <2>9, TypeSplitNext DEF Agreement
<1>10. CASE /\ TransmitStep /\ result' = answer /\ resultOf' = owner /\ kind = "download" /\ AfterFetch
  <2>1. phase = "rom_reply"
    <3>1. blk.op = "fetch"
      BY <1>0, <1>7, <1>e, <1>10 DEF ClientInv
    <3>2. "fetch" \notin Handled
      BY DEF Handled, Queries, FileOps
    <3> QED
      BY <1>0, <1>10, <3>1, <3>2 DEF HandlerInv, TransmitStep
  <2>2. \/ answer.status = Err
        \/ answer.status = Ok /\ ((rom = "serve" /\ upl = req.p /\ left = MaxPieces)
                                   \/ rom = "command")
    BY <1>0, <1>1, <1>e, <1>10, <2>1 DEF WaitInv
  <2>3. Ok # Err
    BY DEF Ok, Err
  <2>4. \/ at' = "idle" /\ outcome' = "failed"
        \/ /\ at' = "fetch" /\ outcome' = outcome
           /\ (rom = "serve" /\ upl = req.p /\ left = MaxPieces) \/ rom = "command"
    BY <1>10, <2>2, <2>3 DEF AfterFetch, Goto, Leaves
  <2>5. ClientTyped'
    BY <1>1, <1>3, <1>10, <2>4 DEF ClientTyped, ServerTyped, Stations, Outcomes
  <2>6. ClientInv'
    BY <1>0, <1>1, <1>7, <1>10, <2>4 DEF ClientInv, AnswerMatchesRequest
  <2>7. WaitInv' /\ UploadInv'
    BY <1>7, <2>4 DEF WaitInv, UploadInv
  <2>8. /\ UNCHANGED <<rom, upl, left>>
        /\ rom = "serve" => phase' = "rom"
        /\ rom # "serve" => phase' = "receive"
    BY <1>10, <2>1 DEF TransmitStep, romVars
  <2>9. DownloadInv'
    BY <1>1, <1>7, <2>4, <2>8, Bounds DEF DownloadInv
  <2> QED
    BY <1>4, <1>5, <2>5, <2>6, <2>7, <2>9, TypeSplitNext DEF Agreement
<1>11. CASE /\ at' = "sync" \/ at' = "idle"
            /\ outcome' \in {"none", "error"} /\ (at' = "sync" => outcome' = "none")
            /\ UNCHANGED <<result, resultOf>>
  <2>1. ClientTyped'
    BY <1>1, <1>3, <1>11 DEF ClientTyped, Stations, Outcomes
  <2>2. ClientInv'
    BY <1>0, <1>1, <1>7, <1>11 DEF ClientInv, AnswerMatchesRequest
  <2>3. WaitInv' /\ UploadInv' /\ DownloadInv'
    BY <1>11 DEF WaitInv, UploadInv, DownloadInv
  <2> QED
    BY <1>4, <1>5, <2>1, <2>2, <2>3, TypeSplitNext DEF Agreement
<1> QED
  BY <1>6, <1>7, <1>8, <1>9, <1>10, <1>11

\* The confirm goes out once, to a ROM that waits for it or for nothing.
LEMMA SendConfirmKeeps == ASSUME Agreement, SendConfirm PROVE Agreement'
<1>0. TypeOK /\ ClientInv /\ HandlerInv
  BY DEF Agreement
<1>1. PICK ok \in BOOLEAN :
        /\ Send(ConfirmBlock, ok)
        /\ IF ok THEN at' = "data" /\ UNCHANGED outcome
           ELSE at' = "idle" /\ outcome' = "failed"
  BY DEF SendConfirm, Goto, Leaves
<1>2. at = "confirm" /\ UNCHANGED <<kind, req, tries, sent, result, calls, resultOf>>
  BY DEF SendConfirm
<1>3. SendStep(ConfirmBlock, ok)
  BY <1>1, SendMeans
<1>4. ServerTyped /\ ClientTyped /\ ConfirmBlock \in Blocks /\ ConfirmBlock.op = "confirm"
  BY <1>0, TypeSplit, BlockTypes DEF ClientTyped
<1>5. ServerTyped'
  BY <1>3, <1>4, SendTyped
<1>6. accepted' = accepted /\ owner' \in {owner, calls} /\ mixed' \in BOOLEAN
  BY <1>2, <1>3, <1>4 DEF SendStep, ClientTyped
<1>7. ClientTyped'
  BY <1>1, <1>2, <1>4, <1>6 DEF ClientTyped, Stations, Outcomes
<1>8. ClientInv'
  BY <1>0, <1>1, <1>2, <1>6, Bounds DEF ClientInv, AnswerMatchesRequest
<1>9. HandlerInv'
  BY <1>0, <1>3, SendKeepsHandler
<1>10. WaitInv' /\ DownloadInv'
  BY <1>0, <1>1, <1>2 DEF WaitInv, DownloadInv, ClientInv
<1>11. ASSUME PiecesAreData PROVE UploadInv'
  <2>1. (rom = "confirm" /\ upl = req.p) \/ rom = "command"
    BY <1>2, <1>11 DEF Agreement, UploadInv
  <2>2. CASE ok
    <3>1. /\ phase' = "hook" /\ blk' = ConfirmBlock /\ rom' = rom /\ upl' = upl
          /\ at' = "data" /\ outcome' = "none" /\ sent' = 0 /\ req' = req
      BY <1>0, <1>1, <1>2, <1>3, <1>4, <2>2, EmptyIsNoBlock DEF SendStep, romVars, ClientInv
    <3>2. "confirm" \notin Handled
      BY DEF Handled, Queries, FileOps
    <3>3. (AtUpload \/ AtNothing)'
      BY <1>4, <2>1, <3>1, <3>2 DEF AtUpload, AtNothing, InHand
    <3> QED
      BY <3>1, <3>3 DEF UploadInv
  <2>3. CASE ~ok
    BY <1>1, <2>3 DEF UploadInv
  <2> QED
    BY <2>2, <2>3
<1> QED
  BY <1>5, <1>7, <1>8, <1>9, <1>10, <1>11, TypeSplitNext DEF Agreement, PiecesAreData

\* A data block goes out once, and the ROM takes it for the piece it is due.
LEMMA SendDataKeeps == ASSUME Agreement, SendData PROVE Agreement'
<1>0. TypeOK /\ ClientInv /\ HandlerInv
  BY DEF Agreement
<1>1. PICK ok \in BOOLEAN, piece \in Pieces :
        /\ Send(piece, ok)
        /\ sent' = sent + 1
        /\ IF ~ok THEN at' = "idle" /\ outcome' = "failed"
           ELSE /\ at' = (IF sent' = MaxPieces THEN "final" ELSE "data")
                /\ UNCHANGED outcome
  BY DEF SendData, Goto, Leaves
<1>2. at = "data" /\ UNCHANGED <<kind, req, tries, result, calls, resultOf>>
  BY DEF SendData
<1>3. SendStep(piece, ok)
  BY <1>1, SendMeans
<1>4. ServerTyped /\ ClientTyped /\ piece \in Blocks
  BY <1>0, <1>1, TypeSplit, Bounds
<1>5. ServerTyped'
  BY <1>3, <1>4, SendTyped
<1>6. accepted' = accepted /\ owner' \in {owner, calls} /\ mixed' \in BOOLEAN
  BY <1>2, <1>3, <1>4 DEF SendStep, ClientTyped
<1>7. sent \in 0..MaxPieces /\ sent < MaxPieces /\ sent' \in 0..MaxPieces /\ outcome = "none"
  BY <1>0, <1>1, <1>2, <1>4, Bounds DEF ClientTyped, ClientInv
<1>8. ClientTyped'
  BY <1>1, <1>2, <1>4, <1>6, <1>7 DEF ClientTyped, Stations, Outcomes
<1>9. ClientInv'
  BY <1>0, <1>1, <1>2, <1>6, <1>7, Bounds DEF ClientInv, AnswerMatchesRequest
<1>10. HandlerInv'
  BY <1>0, <1>3, SendKeepsHandler
<1>11. WaitInv' /\ DownloadInv'
  BY <1>1, <1>2, <1>7 DEF WaitInv, DownloadInv
<1>12. ASSUME PiecesAreData PROVE UploadInv'
  <2>1. AtUpload \/ AtNothing
    BY <1>2, <1>12 DEF Agreement, UploadInv
  <2>2. CASE ok
    <3>1. /\ phase = "receive" /\ phase' = "hook" /\ blk' = piece /\ UNCHANGED romVars
          /\ mixed' = (IF rom = "data" THEN (left < MaxPieces /\ mixed) \/ ~Expected ELSE mixed)
          /\ at' \in {"data", "final"} /\ outcome' = "none" /\ req' = req
      BY <1>1, <1>2, <1>3, <1>4, <1>7, <2>2, EmptyIsNoBlock DEF SendStep
    <3>2. piece.op \notin Handled /\ piece.op \notin {"init", "fetch"}
      BY <1>1, <1>12 DEF PiecesAreData
    <3>3. CASE /\ rom = "data" /\ upl = req.p /\ left = MaxPieces - sent
               /\ sent > 0 => ~mixed
      <4>1. Expected /\ (left < MaxPieces => sent > 0)
        BY <1>2, <1>7, <3>3, Bounds DEF Expected
      <4>2. ~mixed'
        BY <3>1, <3>3, <4>1
      <4>3. left = MaxPieces - sent' + 1
        BY <1>1, <1>7, <3>3, Bounds
      <4>4. AtUpload'
        BY <3>1, <3>2, <3>3, <4>2, <4>3 DEF AtUpload, InHand, romVars
      <4> QED
        BY <3>1, <4>4 DEF UploadInv
    <3>4. CASE rom = "command"
      <4>1. AtNothing'
        BY <3>1, <3>2, <3>4 DEF AtNothing, InHand, romVars
      <4> QED
        BY <3>1, <4>1 DEF UploadInv
    <3> QED
      BY <2>1, <3>1, <3>3, <3>4 DEF AtUpload, AtNothing, InHand
  <2>3. CASE ~ok
    BY <1>1, <2>3 DEF UploadInv
  <2> QED
    BY <2>2, <2>3
<1> QED
  BY <1>5, <1>8, <1>9, <1>10, <1>11, <1>12, TypeSplitNext DEF Agreement, PiecesAreData

\* What is received after the last piece is the ROM's word on this upload.
LEMMA AwaitFinalKeeps == ASSUME Agreement, AwaitFinal PROVE Agreement'
<1>0. TypeOK /\ ClientInv /\ HandlerInv
  BY DEF Agreement
<1>1. at = "final" /\ UNCHANGED <<kind, req, tries, sent, calls, owner, accepted, mixed>>
  BY DEF AwaitFinal
<1>2. \/ /\ TransmitStep /\ result' = answer /\ resultOf' = owner
         /\ at' = "idle" /\ outcome' = (IF answer.status = Ok THEN "stored" ELSE "failed")
      \/ /\ TransmitStep \/ UNCHANGED serverVars
         /\ at' = "idle" /\ outcome' = "failed" /\ UNCHANGED <<result, resultOf>>
  BY TransmitMeans DEF AwaitFinal, Receive, ReceiveFails, Leaves
<1>3. ServerTyped /\ ClientTyped
  BY <1>0, TypeSplit
<1>4. ServerTyped'
  BY <1>2, <1>3, TransmitTyped
<1>5. HandlerInv'
  BY <1>0, <1>2, TransmitKeepsHandler
<1>6. ClientTyped'
  BY <1>1, <1>2, <1>3 DEF ClientTyped, ServerTyped, Stations, Outcomes
<1>7. ClientInv'
  BY <1>0, <1>1, <1>2 DEF ClientInv, AnswerMatchesRequest
<1>8. WaitInv' /\ DownloadInv'
  BY <1>2 DEF WaitInv, DownloadInv
<1>9. ASSUME PiecesAreData PROVE UploadInv'
  <2>1. AtUpload \/ AtNothing
    BY <1>1, <1>9 DEF Agreement, UploadInv
  <2>2. CASE outcome' = "stored"
    <3>1. TransmitStep /\ answer.status = Ok /\ at' = "idle"
      BY <1>2, <2>2
    <3>2. /\ phase = "rom_reply" /\ rom = "command" /\ ~mixed
          /\ answer.status = Ok => Holds(req.p, {"file"})
      BY <2>1, <3>1 DEF AtUpload, AtNothing, InHand, TransmitStep
    <3>3. phase' = "receive" /\ rom' = "command" /\ disk' = disk
      BY <3>1, <3>2 DEF TransmitStep, romVars
    <3> QED
      BY <1>1, <3>1, <3>2, <3>3 DEF UploadInv, Holds
  <2>3. CASE outcome' # "stored"
    BY <1>2, <2>3 DEF UploadInv
  <2> QED
    BY <2>2, <2>3
<1> QED
  BY <1>4, <1>5, <1>6, <1>7, <1>8, <1>9, TypeSplitNext DEF Agreement, PiecesAreData

\* A piece taken is the one the ROM was due, for the ROM counts with the client.
LEMMA FetchPieceKeeps == ASSUME Agreement, FetchPiece PROVE Agreement'
<1>0. TypeOK /\ ClientInv /\ HandlerInv /\ DownloadInv
  BY DEF Agreement
<1>1. at = "fetch" /\ UNCHANGED <<kind, req, tries, result, calls, owner, resultOf, accepted>>
  BY DEF FetchPiece
<1>2. \/ /\ TransmitStep /\ Transmitting /\ sent' = sent + 1
         /\ mixed' = ((sent > 0 /\ mixed) \/ ~ExpectedPiece)
         /\ at' = (IF sent' = MaxPieces THEN "finish" ELSE "fetch") /\ UNCHANGED outcome
      \/ /\ TransmitStep \/ UNCHANGED serverVars
         /\ at' = "idle" /\ outcome' = "failed" /\ UNCHANGED <<sent, mixed>>
  BY TransmitMeans DEF FetchPiece, Receive, ReceiveFails, Leaves, Goto
<1>3. ServerTyped /\ ClientTyped
  BY <1>0, TypeSplit
<1>4. ServerTyped'
  BY <1>2, <1>3, TransmitTyped
<1>5. HandlerInv'
  BY <1>0, <1>2, TransmitKeepsHandler
<1>6. sent \in 0..MaxPieces /\ sent < MaxPieces /\ outcome = "none"
  BY <1>0, <1>1, <1>3 DEF ClientTyped, ClientInv
<1>7. mixed' \in BOOLEAN
  BY <1>2, <1>3 DEF ClientTyped
<1>8. sent' \in 0..MaxPieces
  BY <1>2, <1>6, Bounds
<1>9. ClientTyped'
  BY <1>1, <1>2, <1>3, <1>7, <1>8 DEF ClientTyped, Stations, Outcomes
<1>10. ClientInv'
  BY <1>0, <1>1, <1>2, <1>6, <1>8, Bounds DEF ClientInv, AnswerMatchesRequest
<1>11. WaitInv' /\ UploadInv'
  BY <1>2, <1>6 DEF WaitInv, UploadInv
<1>12. CASE /\ TransmitStep /\ Transmitting /\ sent' = sent + 1
            /\ mixed' = ((sent > 0 /\ mixed) \/ ~ExpectedPiece)
            /\ at' = (IF sent' = MaxPieces THEN "finish" ELSE "fetch") /\ UNCHANGED outcome
  <2>1. /\ rom = "serve" /\ upl = req.p /\ (sent > 0 => ~mixed)
        /\ left = MaxPieces - sent - 1
    BY <1>0, <1>1, <1>12 DEF DownloadInv, Transmitting
  <2>2. ExpectedPiece
    BY <2>1 DEF ExpectedPiece
  <2>3. ~mixed'
    BY <1>12, <2>1, <2>2
  <2>4. phase' = "rom" /\ rom' = "serve" /\ upl' = upl /\ left' = left /\ req' = req
    BY <1>1, <1>12, <2>1 DEF TransmitStep, romVars
  <2>5. left' = MaxPieces - sent' /\ at' \in {"finish", "fetch"} /\ outcome' = "none"
    BY <1>6, <1>12, <2>1, <2>4, Bounds
  <2>6. DownloadInv'
    BY <2>1, <2>3, <2>4, <2>5 DEF DownloadInv
  <2> QED
    BY <1>4, <1>5, <1>9, <1>10, <1>11, <2>6, TypeSplitNext DEF Agreement
<1>13. CASE at' = "idle" /\ outcome' = "failed"
  <2>1. DownloadInv'
    BY <1>13 DEF DownloadInv
  <2> QED
    BY <1>4, <1>5, <1>9, <1>10, <1>11, <2>1, TypeSplitNext DEF Agreement
<1> QED
  BY <1>2, <1>12, <1>13

\* The block that acknowledges a download is no piece of an upload.
LEMMA SendFinishKeeps == ASSUME Agreement, SendFinish PROVE Agreement'
<1>0. TypeOK /\ ClientInv /\ HandlerInv /\ DownloadInv
  BY DEF Agreement
<1>1. PICK ok \in BOOLEAN : Send(FinishBlock, ok)
  BY DEF SendFinish
<1>2. /\ at = "finish" /\ at' = "idle" /\ outcome' = "fetched"
      /\ UNCHANGED <<kind, req, tries, sent, result, calls, resultOf>>
  BY DEF SendFinish, Leaves
<1>3. SendStep(FinishBlock, ok)
  BY <1>1, SendMeans
<1>4. ServerTyped /\ ClientTyped /\ FinishBlock \in Blocks
  BY <1>0, TypeSplit, BlockTypes DEF ClientTyped
<1>5. ServerTyped'
  BY <1>3, <1>4, SendTyped
<1>6. accepted' = accepted /\ owner' \in {owner, calls}
  BY <1>2, <1>3 DEF SendStep
<1>7. ~mixed /\ rom # "data"
  BY <1>0, <1>2 DEF DownloadInv
<1>8. mixed' = mixed
  BY <1>3, <1>7 DEF SendStep
<1>9. ClientTyped'
  BY <1>2, <1>4, <1>6, <1>8 DEF ClientTyped, Stations, Outcomes
<1>10. ClientInv'
  BY <1>0, <1>2, <1>6 DEF ClientInv, AnswerMatchesRequest
<1>11. HandlerInv'
  BY <1>0, <1>3, SendKeepsHandler
<1>12. WaitInv' /\ UploadInv' /\ DownloadInv'
  BY <1>2, <1>7, <1>8 DEF WaitInv, UploadInv, DownloadInv
<1> QED
  BY <1>5, <1>9, <1>10, <1>11, <1>12, TypeSplitNext DEF Agreement

-----------------------------------------------------------------------------
(* The server's steps *)

\* What the client knows of itself does not change while the server works.
LEMMA ClientRests ==
  ASSUME ClientTyped, ClientInv, UNCHANGED <<clientVars, traceVars>>
  PROVE  ClientTyped' /\ ClientInv'
BY DEF ClientTyped, ClientInv, AnswerMatchesRequest, clientVars, traceVars

\* A handler answers or passes the block on, and touches no transfer.
LEMMA HandlersKeep ==
  ASSUME Agreement, Handlers, UNCHANGED <<clientVars, traceVars>> PROVE Agreement'
<1>0. TypeOK /\ ClientInv /\ HandlerInv /\ WaitInv /\ DownloadInv
  BY DEF Agreement
<1>1. HandlerStep
  BY <1>0, HandlersMean
<1>2. ServerTyped /\ ClientTyped
  BY <1>0, TypeSplit
<1>3. ClientTyped' /\ ClientInv'
  BY <1>0, <1>2, ClientRests
<1>4. ServerTyped'
  BY <1>1, <1>2 DEF HandlerStep, ServerTyped, romVars, Phases
<1>5. phase = "hook" /\ rom # "serve"
  BY <1>0, <1>1 DEF HandlerInv, HandlerStep
<1>6. /\ phase' \in {"reply", "rom"} /\ blk' = blk /\ rom' = rom /\ upl' = upl /\ left' = left
      /\ phase' = "reply" => blk.op \in Handled
      /\ phase' = "rom" => blk.op \notin Handled
  BY <1>1 DEF HandlerStep, romVars
<1>7. HandlerInv'
  <2>1. phase' = "reply" => (answer.status = Ok => Done(blk))' /\ FaultStaysInItsCommand'
    BY <1>1 DEF HandlerStep
  <2>2. phase' # "reply" => FaultStaysInItsCommand'
    BY DEF FaultStaysInItsCommand
  <2> QED
    BY <1>0, <1>5, <1>6, <2>1, <2>2 DEF HandlerInv
<1>8. /\ at' = at /\ kind' = kind /\ req' = req /\ calls' = calls /\ owner' = owner
      /\ sent' = sent /\ outcome' = outcome /\ mixed' = mixed
  BY DEF clientVars, traceVars
<1>9. WaitInv'
  BY <1>0, <1>5, <1>6, <1>8 DEF WaitInv
<1>10. DownloadInv'
  BY <1>0, <1>5, <1>8 DEF DownloadInv
<1>11. ASSUME PiecesAreData PROVE UploadInv'
  <2>1. UploadInv
    BY <1>11 DEF Agreement
  <2>2. at # "confirm" /\ outcome # "stored"
    BY <1>5, <2>1 DEF UploadInv
  <2>3. ASSUME at \in {"data", "final"} PROVE (AtUpload \/ AtNothing)'
    <3>1. AtUpload \/ AtNothing
      BY <2>1, <2>3 DEF UploadInv
    <3>2. "confirm" \notin Handled
      BY DEF Handled, Queries, FileOps
    <3>3. blk.op \notin Handled
      BY <1>5, <3>1, <3>2 DEF AtUpload, AtNothing
    <3>4. phase' = "rom"
      BY <1>6, <3>3
    <3> QED
      BY <1>5, <1>6, <1>8, <3>1, <3>4 DEF AtUpload, AtNothing, InHand
  <2> QED
    BY <1>8, <2>2, <2>3 DEF UploadInv
<1> QED
  BY <1>3, <1>4, <1>7, <1>9, <1>10, <1>11, TypeSplitNext DEF Agreement, PiecesAreData

\* What the ROM's steps do to an upload and a download under way.
LEMMA RomKeeps ==
  ASSUME Agreement, RomSteps, UNCHANGED <<clientVars, traceVars>> PROVE Agreement'
<1>0. TypeOK /\ ClientInv /\ HandlerInv /\ WaitInv /\ DownloadInv
  BY DEF Agreement
<1>1. RomStep
  BY <1>0, RomMeans
<1>2. ServerTyped /\ ClientTyped
  BY <1>0, TypeSplit
<1>3. ClientTyped' /\ ClientInv'
  BY <1>0, <1>2, ClientRests
<1>4. ServerTyped'
  BY <1>1, <1>2 DEF RomStep, ServerTyped, histVars, Phases
<1>5. HandlerInv'
  BY <1>1 DEF RomStep, HandlerInv, FaultStaysInItsCommand
<1>6. /\ at' = at /\ kind' = kind /\ req' = req /\ calls' = calls /\ owner' = owner
      /\ sent' = sent /\ outcome' = outcome /\ mixed' = mixed
  BY DEF clientVars, traceVars
<1>7. /\ phase = "rom" /\ phase' \in {"receive", "rom_reply"} /\ blk' = blk
      /\ rom' = "serve" => phase' = "rom_reply"
      /\ left \in 0..MaxPieces /\ sent \in 0..MaxPieces
      /\ disk \in [Names -> Kinds] /\ upl \in Names
  BY <1>1, <1>2 DEF RomStep, ServerTyped, ClientTyped
<1>8. WaitInv'
  <2>1. SUFFICES ASSUME at = "reply", req # Empty PROVE WaitInv'
    BY <1>6 DEF WaitInv
  <2>2. blk = req /\ owner = calls /\ blk.op \notin Handled /\ rom # "serve"
    BY <1>0, <1>7, <2>1 DEF WaitInv
  <2>3. kind = "upload" /\ phase' = "rom_reply" =>
          \/ answer'.status = Err
          \/ answer'.status = Fresh /\ rom' = "data" /\ upl' = req.p /\ left' = MaxPieces
          \/ answer'.status = Ok /\ ((rom' = "confirm" /\ upl' = req.p) \/ rom' = "command")
    <3>1. SUFFICES ASSUME kind = "upload", phase' = "rom_reply"
                   PROVE  \/ answer'.status = Err
                          \/ answer'.status = Fresh /\ rom' = "data" /\ upl' = req.p
                             /\ left' = MaxPieces
                          \/ answer'.status = Ok
                             /\ ((rom' = "confirm" /\ upl' = req.p) \/ rom' = "command")
      OBVIOUS
    <3>2. blk.op = "init"
      BY <1>0, <2>2, <3>1 DEF ClientInv
    <3>3. RomInit \/ RomData
      BY <2>2, <3>1, <3>2
      DEF RomSteps, RomConfirm, RomFetch, RomServe, RomFinish, RomIgnores, KeepsListening
    <3> QED
      BY <2>2, <3>1, <3>3 DEF RomInit, RomData, RomSays, BeginsData, KeepsListening, Reply
  <2>4. kind = "download" /\ phase' = "rom_reply" =>
          \/ answer'.status = Err
          \/ answer'.status = Ok /\ ((rom' = "serve" /\ upl' = req.p /\ left' = MaxPieces)
                                     \/ rom' = "command")
    <3>1. SUFFICES ASSUME kind = "download", phase' = "rom_reply"
                   PROVE  \/ answer'.status = Err
                          \/ answer'.status = Ok
                             /\ ((rom' = "serve" /\ upl' = req.p /\ left' = MaxPieces)
                                 \/ rom' = "command")
      OBVIOUS
    <3>2. blk.op = "fetch"
      BY <1>0, <2>2, <3>1 DEF ClientInv
    <3>3. RomFetch \/ RomData
      BY <2>2, <3>1, <3>2
      DEF RomSteps, RomConfirm, RomInit, RomServe, RomFinish, RomIgnores, KeepsListening
    <3> QED
      BY <2>2, <3>1, <3>3 DEF RomFetch, RomData, RomSays, KeepsListening, Reply
  <2> QED
    BY <1>6, <1>7, <2>1, <2>2, <2>3, <2>4 DEF WaitInv
<1>9. DownloadInv'
  <2>1. CASE at \in {"fetch", "finish"}
    <3>1. rom = "serve" /\ (at = "fetch" => upl = req.p /\ (sent > 0 => ~mixed)
                                            /\ left = MaxPieces - sent)
          /\ (at = "finish" => ~mixed)
      BY <1>0, <1>7, <2>1 DEF DownloadInv
    <3>2. RomServe
      BY <3>1 DEF RomSteps, RomInit, RomConfirm, RomData, RomFetch, RomFinish, RomIgnores
    <3>3. \/ left' = left - 1 /\ phase' = "rom_reply" /\ rom' = "serve" /\ upl' = upl
          \/ rom' \in {"finish", "command"} /\ phase' = "receive"
      BY <3>1, <3>2 DEF RomServe, RomSays, KeepsListening
    <3>4. outcome = "none"
      BY <1>0, <2>1 DEF ClientInv
    <3> QED
      BY <1>6, <1>7, <3>1, <3>3, <3>4, Bounds DEF DownloadInv
  <2>2. CASE at \notin {"fetch", "finish"}
    BY <1>0, <1>6, <2>2 DEF DownloadInv
  <2> QED
    BY <2>1, <2>2
<1>10. ASSUME PiecesAreData PROVE UploadInv'
  <2>1. UploadInv
    BY <1>10 DEF Agreement
  <2>2. at # "confirm" /\ outcome # "stored"
    BY <1>7, <2>1 DEF UploadInv
  <2>3. ASSUME at \in {"data", "final"} PROVE (AtUpload \/ AtNothing)'
    <3>1. AtUpload \/ AtNothing
      BY <2>1, <2>3 DEF UploadInv
    <3>2. CASE rom = "data" /\ upl = req.p /\ left = MaxPieces - sent + 1 /\ ~mixed
      <4>1. RomData
        BY <3>2 DEF RomSteps, RomInit, RomConfirm, RomServe, RomFetch, RomFinish, RomIgnores
      <4>2. left' = left - 1 /\ upl' = upl
        BY <4>1 DEF RomData
      <4>3. CASE left > 1
        <5>1. phase' = "receive" /\ rom' = "data"
          BY <3>2, <4>1, <4>3 DEF RomData, KeepsListening
        <5> QED
          BY <1>6, <1>7, <3>2, <4>2, <5>1, Bounds DEF AtUpload
      <4>4. CASE ~(left > 1)
        <5>1. sent = MaxPieces
          BY <1>7, <3>2, <4>4, Bounds
        <5>2. at = "final"
          BY <1>0, <2>3, <5>1, Bounds DEF ClientInv
        <5>3. /\ phase' = "rom_reply" /\ rom' = "command"
              /\ answer'.status = Ok => disk' = Becomes(upl, "file")
          BY <4>1, <4>4 DEF RomData, RomSays, Reply, Ok, Err
        <5>4. answer'.status = Ok => disk'[req.p] = "file"
          BY <1>7, <3>2, <5>3 DEF Becomes
        <5> QED
          BY <1>6, <3>2, <5>2, <5>3, <5>4 DEF AtUpload, Holds
      <4> QED
        BY <4>3, <4>4
    <3>3. CASE rom = "confirm" /\ upl = req.p /\ sent = 0 /\ blk.op = "confirm"
      <4>1. RomConfirm
        BY <3>3 DEF RomSteps, RomInit, RomData, RomServe, RomFetch, RomFinish, RomIgnores
      <4>2. phase' = "receive" /\ rom' = "data" /\ left' = MaxPieces /\ upl' = upl
        BY <3>3, <4>1 DEF RomConfirm, BeginsData, KeepsListening
      <4> QED
        BY <1>6, <3>3, <4>2, Bounds DEF AtUpload
    <3>4. CASE AtNothing
      <4>1. rom = "command" /\ blk.op \notin {"init", "fetch"}
        BY <1>7, <3>4 DEF AtNothing
      <4>2. RomIgnores
        BY <4>1 DEF RomSteps, RomInit, RomData, RomServe, RomFetch, RomFinish, RomConfirm
      <4>3. phase' = "receive" /\ rom' = "command"
        BY <4>1, <4>2 DEF RomIgnores, KeepsListening, romVars
      <4> QED
        BY <4>3 DEF AtNothing
    <3> QED
      BY <1>7, <3>1, <3>2, <3>3, <3>4 DEF AtUpload
  <2> QED
    BY <1>6, <2>2, <2>3 DEF UploadInv
<1> QED
  BY <1>3, <1>4, <1>5, <1>8, <1>9, <1>10, TypeSplitNext DEF Agreement, PiecesAreData

\* A transmit nobody takes moves neither an upload nor a download.
LEMMA GiveUpKeeps ==
  ASSUME Agreement, GiveUp, UNCHANGED <<clientVars, traceVars>> PROVE Agreement'
<1>0. TypeOK /\ ClientInv /\ HandlerInv /\ DownloadInv
  BY DEF Agreement
<1>1. TransmitStep /\ at \notin {"reply", "final", "fetch"}
  BY TransmitMeans DEF GiveUp
<1>2. ServerTyped /\ ClientTyped
  BY <1>0, TypeSplit
<1>3. ClientTyped' /\ ClientInv'
  BY <1>0, <1>2, ClientRests
<1>4. ServerTyped' /\ HandlerInv'
  BY <1>0, <1>1, <1>2, TransmitTyped, TransmitKeepsHandler
<1>5. at' = at /\ outcome' = outcome /\ mixed' = mixed
  BY DEF clientVars, traceVars
<1>6. phase \in {"reply", "rom_reply"} /\ rom' = rom
  BY <1>1 DEF TransmitStep, romVars
<1>7. WaitInv' /\ DownloadInv'
  BY <1>0, <1>1, <1>5, <1>6 DEF WaitInv, DownloadInv
<1>8. ASSUME PiecesAreData PROVE UploadInv'
  <2>1. UploadInv
    BY <1>8 DEF Agreement
  <2>2. at \notin {"confirm", "data", "final"} /\ outcome # "stored"
    BY <1>1, <1>6, <2>1 DEF UploadInv, AtUpload, AtNothing, InHand
  <2> QED
    BY <1>5, <2>2 DEF UploadInv
<1> QED
  BY <1>3, <1>4, <1>7, <1>8, TypeSplitNext DEF Agreement, PiecesAreData

\* Nothing is lost while nothing happens.
LEMMA RestKeeps == ASSUME Agreement, UNCHANGED vars PROVE Agreement'
<1>0. TypeOK /\ ClientInv /\ HandlerInv /\ WaitInv /\ DownloadInv
  BY DEF Agreement
<1>1. UNCHANGED serverVars /\ UNCHANGED <<clientVars, traceVars>>
  BY DEF vars
<1>2. ServerTyped' /\ HandlerInv'
  BY <1>0, <1>1, TypeSplit, TransmitTyped, TransmitKeepsHandler
<1>3. ClientTyped' /\ ClientInv'
  BY <1>0, <1>1, TypeSplit, ClientRests
<1>4. /\ UNCHANGED <<phase, blk, rom, upl, left, disk, answer>>
      /\ UNCHANGED <<at, kind, req, sent, outcome, calls, owner, mixed>>
  BY <1>1 DEF serverVars, romVars, clientVars, traceVars
<1>5. WaitInv' /\ DownloadInv'
  BY <1>0, <1>4 DEF WaitInv, DownloadInv
<1>6. ASSUME PiecesAreData PROVE UploadInv'
  <2>1. UploadInv
    BY <1>6 DEF Agreement
  <2> QED
    BY <1>4, <2>1 DEF UploadInv, AtUpload, AtNothing, InHand, Holds
<1> QED
  BY <1>2, <1>3, <1>5, <1>6, TypeSplitNext DEF Agreement, PiecesAreData

\* At the start there is nothing under way at either end.
LEMMA InitKeeps == Init => Agreement
<1>1. SUFFICES ASSUME Init PROVE Agreement
  OBVIOUS
<1>2. AnyName \in Names
  BY ServerAssumption DEF AnyName
<1>3. /\ phase = "receive" /\ rom = "command" /\ upl = AnyName /\ left = 0
      /\ blk = [op |-> "other", p |-> AnyName, q |-> AnyName]
      /\ disk \in [Names -> StartKinds] /\ critical = FALSE
      /\ answer = [status |-> Data, errcode |-> 0] /\ faulted = FALSE /\ refusal = 0
      /\ at = "idle" /\ kind = "raw" /\ tries = 0 /\ sent = 0
      /\ req = [op |-> "other", p |-> AnyName, q |-> AnyName]
      /\ outcome = "none" /\ result = Reply(Data, 0) /\ calls = 0
      /\ owner = 0 /\ resultOf = 0 /\ accepted = 0 /\ mixed = FALSE
  BY <1>1 DEF Init, ServerInit
<1>4. blk \in Blocks /\ req \in Blocks
  BY <1>2, <1>3 DEF Blocks, Ops
<1>5. disk \in [Names -> Kinds]
  BY <1>3, StartAssumption
<1>6. answer \in Answers /\ result \in Answers
  BY <1>3 DEF Answers, Reply
<1>7. /\ left \in 0..MaxPieces /\ sent \in 0..MaxPieces /\ tries \in 0..MaxTries
      /\ calls \in 0..MaxCalls /\ owner \in 0..MaxCalls /\ resultOf \in 0..MaxCalls
      /\ accepted \in 0..MaxTries
  BY <1>3, Bounds
<1>8. critical \in BOOLEAN /\ faulted \in BOOLEAN /\ mixed \in BOOLEAN
  BY <1>3, Zenon
<1>9. /\ phase \in Phases /\ rom \in RomStates /\ upl \in Names /\ refusal \in DosCodes \cup {0}
      /\ at \in Stations /\ kind \in {"raw", "upload", "download"} /\ outcome \in Outcomes
  BY <1>2, <1>3 DEF Phases, RomStates, Stations, Outcomes
<1>10. ServerTyped
  BY <1>4, <1>5, <1>6, <1>7, <1>8, <1>9, Zenon DEF ServerTyped
<1>11. ClientTyped
  BY <1>4, <1>6, <1>7, <1>8, <1>9, Zenon DEF ClientTyped
<1>12. ClientInv /\ HandlerInv
  BY <1>3 DEF ClientInv, AnswerMatchesRequest, HandlerInv, FaultStaysInItsCommand
<1>13. WaitInv /\ UploadInv /\ DownloadInv
  BY <1>3 DEF WaitInv, UploadInv, DownloadInv
<1> QED
  BY <1>10, <1>11, <1>12, <1>13, TypeSplit DEF Agreement

-----------------------------------------------------------------------------
(* Whose block the server has *)

\* A block sent is this call's, and no block is not sent.
LEMMA SendOwns ==
  ASSUME OwnerInv, ClientTyped, NEW b, NEW ok, SendStep(b, ok), at # "idle", b # Empty => req # Empty,
         UNCHANGED <<calls, req>>
  PROVE  OwnerInv'
<1>1. CASE b # Empty /\ owner' = calls
  <2>1. calls \in Nat /\ calls > 0
    BY Bounds DEF OwnerInv, ClientTyped
  <2> QED
    BY <1>1, <2>1 DEF OwnerInv
<1>2. CASE UNCHANGED <<serverVars, owner>>
  BY <1>2 DEF OwnerInv, serverVars
<1> QED
  BY <1>1, <1>2 DEF SendStep

\* Nothing else gives the server a block.
LEMMA OthersOwn ==
  ASSUME OwnerInv, UNCHANGED <<calls, req, owner>>,
         at' # "idle" => at # "idle", phase' # "receive" => phase # "receive"
  PROVE  OwnerInv'
BY DEF OwnerInv

\* The server's block is a call's, and while no bytes are sent an earlier one's.
LEMMA OwnerKeeps == ASSUME SessionInv, [Next]_vars PROVE OwnerInv'
<1>0. TypeOK /\ ClientInv /\ OwnerInv
  BY DEF SessionInv, Agreement
<1>1. ClientTyped
  BY <1>0, TypeSplit
<1>2. CASE SomeCall
  <2>1. /\ calls' = calls + 1 /\ owner' = owner /\ phase' = phase
    BY <1>2 DEF SomeCall, SendRaw, UploadFile, DownloadFile, Call, serverVars
  <2>2. calls \in Nat /\ owner \in Nat
    BY <1>1, Bounds DEF ClientTyped
  <2>3. owner' < calls' /\ calls' > 0
    BY <1>0, <2>1, <2>2 DEF OwnerInv
  <2> QED
    BY <1>0, <2>1, <2>2, <2>3 DEF OwnerInv
<1>3. CASE TryRequest
  <2>1. PICK ok \in BOOLEAN : SendStep(req, ok)
    BY <1>3, SendMeans DEF TryRequest
  <2> QED
    BY <1>0, <1>1, <1>3, <2>1, SendOwns DEF TryRequest
<1>4. CASE SendConfirm \/ SendData \/ SendFinish
  <2>1. PICK b, ok : SendStep(b, ok)
    BY <1>4, SendMeans DEF SendConfirm, SendData, SendFinish
  <2>2. at \in {"confirm", "data", "finish"} /\ UNCHANGED <<calls, req>>
    BY <1>4 DEF SendConfirm, SendData, SendFinish
  <2>3. req # Empty
    BY <1>0, <2>2, EmptyIsNoBlock DEF ClientInv
  <2> QED
    BY <1>0, <1>1, <2>1, <2>2, <2>3, SendOwns
<1>5. CASE AwaitReply \/ AwaitFinal \/ FetchPiece
  <2>1. at # "idle" /\ UNCHANGED <<calls, req, owner>>
    BY <1>5 DEF AwaitReply, AwaitFinal, FetchPiece
  <2>2. TransmitStep \/ UNCHANGED serverVars
    BY <1>5, TransmitMeans DEF AwaitReply, AwaitFinal, FetchPiece, Receive, ReceiveFails
  <2>3. phase' # "receive" => phase # "receive"
    BY <2>2 DEF TransmitStep, serverVars
  <2> QED
    BY <1>0, <2>1, <2>3, OthersOwn
<1>6. CASE ServerSteps
  <2>1. UNCHANGED <<calls, req, owner, at>>
    BY <1>6 DEF ServerSteps, clientVars, traceVars
  <2>2. HandlerStep \/ RomStep \/ TransmitStep
    BY <1>0, <1>6, HandlersMean, RomMeans, TransmitMeans
    DEF ServerSteps, GiveUp, SessionInv, Agreement
  <2>3. phase # "receive"
    BY <2>2 DEF HandlerStep, RomStep, TransmitStep
  <2> QED
    BY <1>0, <2>1, <2>3, OthersOwn
<1>7. CASE UNCHANGED vars
  BY <1>0, <1>7 DEF OwnerInv, vars, serverVars, clientVars, traceVars
<1> QED
  BY <1>2, <1>3, <1>4, <1>5, <1>6, <1>7 DEF Next, SomeCall, ClientSteps

-----------------------------------------------------------------------------
(* Theorems *)

\* Client, hook and ROM agree on what is under way, whatever is lost between
\* them and whatever the calls before have left (mame_bridge.py's send_raw,
\* upload_file and download_file against PFTD.asm's int 0x61 hook).
THEOREM SessionInvariant == Spec => []SessionInv
<1>1. SessionInv /\ [Next]_vars => SessionInv'
  <2>1. SUFFICES ASSUME SessionInv, [Next]_vars PROVE SessionInv'
    OBVIOUS
  <2>a. Agreement /\ OwnerInv
    BY <2>1 DEF SessionInv
  <2>2. ASSUME SomeCall PROVE Agreement'
    BY <2>a, <2>2, CallKeeps
  <2>3. ASSUME ClientSteps PROVE Agreement'
    BY <2>a, <2>3, TryRequestKeeps, AwaitReplyKeeps, SendConfirmKeeps, SendDataKeeps,
       AwaitFinalKeeps, FetchPieceKeeps, SendFinishKeeps DEF ClientSteps
  <2>4. ASSUME ServerSteps PROVE Agreement'
    BY <2>a, <2>4, HandlersKeep, RomKeeps, GiveUpKeeps DEF ServerSteps
  <2>5. ASSUME UNCHANGED vars PROVE Agreement'
    BY <2>a, <2>5, RestKeeps
  <2>6. Agreement'
    BY <2>1, <2>2, <2>3, <2>4, <2>5 DEF Next, SomeCall
  <2>7. OwnerInv'
    BY <2>1, OwnerKeeps
  <2> QED
    BY <2>6, <2>7 DEF SessionInv
<1>2. Init => SessionInv
  BY InitKeeps DEF SessionInv, OwnerInv, Init, ServerInit
<1> QED
  BY <1>1, <1>2, PTL DEF Spec

\* The response send_raw returns answers its own request, never an earlier one
\* that was given up, unless it was asked to send no bytes (mame_bridge.py:326-357).
THEOREM AnswerMatchesRequestHolds == Spec => []AnswerMatchesRequest
<1>1. SessionInv => AnswerMatchesRequest
  BY DEF SessionInv, Agreement, ClientInv
<1> QED
  BY <1>1, SessionInvariant, PTL

\* 0xFF is answered for this command's media fault or for a DOS code its table
\* lacks, whatever earlier commands left in the flag (critical_error_flag).
THEOREM FaultStaysInItsCommandHolds == Spec => []FaultStaysInItsCommand
<1>1. SessionInv => FaultStaysInItsCommand
  BY DEF SessionInv, Agreement, HandlerInv
<1> QED
  BY <1>1, SessionInvariant, PTL

\* Provided no piece of a file starts like a command, upload_file's True and
\* download_file's bytes are those of a whole file, pieces in order.
THEOREM TransfersAreWholeHolds == PiecesAreData => (Spec => []TransfersAreWhole)
<1>1. SUFFICES ASSUME PiecesAreData PROVE Spec => []TransfersAreWhole
  OBVIOUS
<1>2. SessionInv => TransfersAreWhole
  BY <1>1 DEF SessionInv, Agreement, UploadInv, DownloadInv, TransfersAreWhole
<1> QED
  BY <1>2, SessionInvariant, PTL

\* An ok that send_raw returns is true of the disk (the handlers of PFTD.asm, by
\* way of the hook's transmit).
THEOREM OkMeansDoneHolds == Spec => OkMeansDone
<1>1. SessionInv /\ [Next]_vars
        => [outcome' = "returned" /\ at = "reply" /\ result'.status = Ok => Done(req)']_vars
  <2>1. SUFFICES ASSUME SessionInv, Next, outcome' = "returned", at = "reply",
                        result'.status = Ok
                 PROVE  Done(req)'
    OBVIOUS
  <2>2. outcome = "none"
    BY <2>1 DEF SessionInv, Agreement, ClientInv
  <2>3. AwaitReply
    BY <2>1, <2>2 DEF Next, SendRaw, UploadFile, DownloadFile, Call, ClientSteps, TryRequest,
       SendConfirm, SendData, AwaitFinal, FetchPiece, SendFinish, ServerSteps, clientVars
  <2>4. Receive /\ result' = answer
    BY <2>1, <2>2, <2>3 DEF AwaitReply, RetryOrRaise, Leaves
  <2>5. TransmitStep
    BY <2>4, TransmitMeans DEF Receive
  <2>6. disk' = disk /\ req' = req /\ faulted' = faulted
    BY <2>3, <2>5 DEF AwaitReply, TransmitStep, histVars
  <2>7. CASE req = Empty
    BY <2>6, <2>7, EmptyIsNoBlock DEF Done
  <2>8. CASE req # Empty
    <3>0. blk = req
      BY <2>1, <2>8 DEF SessionInv, Agreement, WaitInv
    <3>1. CASE phase = "reply"
      <4>1. Done(req)
        BY <2>1, <2>4, <3>0, <3>1 DEF SessionInv, Agreement, HandlerInv
      <4> QED
        BY <2>6, <4>1 DEF Done, Holds
    <3>2. CASE phase = "rom_reply"
      <4>1. req.op \notin Handled
        BY <2>1, <2>8, <3>0, <3>2 DEF SessionInv, Agreement, WaitInv
      <4> QED
        BY <2>6, <4>1 DEF Done, Handled, FileOps
    <3> QED
      BY <2>5, <3>1, <3>2 DEF TransmitStep
  <2> QED
    BY <2>7, <2>8
<1> QED
  BY <1>1, SessionInvariant, PTL DEF Spec, OkMeansDone

=============================================================================

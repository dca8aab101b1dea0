---------------------------- MODULE BridgeSession ----------------------------
(***************************************************************************)
(* One client of the server: the MameLink half of tools/mame_bridge.py.    *)
(* send_raw, upload_file and download_file run under a lock, one at a      *)
(* time, and move blocks with _send_block and _receive_block.              *)
(*                                                                         *)
(* A block transfer may fail for either end.  The receiver's checksum byte *)
(* is the sender's acknowledgement, so a block can be accepted although    *)
(* its sender counts it as failed; a receiver that counts an incoming      *)
(* block as failed may have told the sender otherwise.                     *)
(***************************************************************************)
EXTENDS PftdServer

\* No block: send_raw may be asked to send no bytes at all.
Empty == [op |-> "empty", p |-> AnyName, q |-> AnyName]

CONSTANTS
  Requests,     \* the blocks send_raw is asked to send, Empty perhaps among them
  Pieces,       \* what the data blocks of an uploaded file look like
  MaxTries,     \* bound: attempts that fit the deadline of 3 s
  MaxCalls      \* bound: calls of the three

ASSUME SessionAssumption ==
  /\ Requests \subseteq Blocks \cup {Empty} /\ Pieces \subseteq Blocks /\ Pieces # {}
  /\ MaxTries \in Nat \ {0} /\ MaxCalls \in Nat

VARIABLES
  at,           \* where the client is, see Stations
  kind,         \* "raw", "upload" or "download"
  req,          \* the request block of the call
  tries,        \* attempts of the retry loop so far
  sent,         \* data blocks of the transfer moved so far
  outcome,      \* what the last call came to
  result,       \* the response it returned
  calls,        \* calls made so far; the current one's number
  owner,        \* history: the call whose block the server holds or answers
  resultOf,     \* history: the call whose block `result` answers
  accepted,     \* history: times the server took this call's request
  mixed         \* history: the file on its way got a piece out of its turn

clientVars == <<at, kind, req, tries, sent, outcome, result, calls>>
traceVars  == <<owner, resultOf, accepted, mixed>>
vars == <<serverVars, clientVars, traceVars>>

\* sync: about to try the request once more; reply: waiting for its response;
\* confirm, data, final: the later blocks of an upload; fetch, finish: those of
\* a download.
Stations == {"idle", "sync", "reply", "confirm", "data", "final", "fetch", "finish"}

\* returned: send_raw has a response.  error: PortfolioLinkError.  stored and
\* fetched: upload_file's True and download_file's bytes; failed: False, None.
Outcomes == {"none", "returned", "error", "stored", "fetched", "failed"}

Init ==
  /\ ServerInit
  /\ at = "idle" /\ kind = "raw" /\ tries = 0 /\ sent = 0
  /\ req = [op |-> "other", p |-> AnyName, q |-> AnyName]
  /\ outcome = "none" /\ result = Reply(Data, 0) /\ calls = 0
  /\ owner = 0 /\ resultOf = 0 /\ accepted = 0 /\ mixed = FALSE

Goto(station) == at' = station
Leaves(o) == at' = "idle" /\ outcome' = o

-----------------------------------------------------------------------------
(* Block transfers *)

\* The block the ROM's upload is waiting for, the piece its download is due.
ExpectedPiece == rom = "serve" /\ upl = req.p /\ left = MaxPieces - sent - 1
Expected == at = "data" /\ upl = req.p /\ sent = MaxPieces - left

\* _send_block(b): ok is what the client makes of it.  No bytes are sent at once,
\* without a look at the server.
Send(b, ok) ==
  \/ /\ b # Empty /\ Accept(b)                      \* ok, or only the ack lost
     /\ owner' = calls
     /\ accepted' = IF at = "sync" THEN accepted + 1 ELSE accepted
     /\ mixed' = IF rom = "data" THEN (left < MaxPieces /\ mixed) \/ ~Expected ELSE mixed
  \/ /\ ok = (b = Empty) /\ UNCHANGED <<serverVars, owner, accepted, mixed>>

Transmitting == phase \in {"reply", "rom_reply"}

\* _receive_block() with a block to return.
Receive == Transmitting /\ EndTransmit
\* _receive_block() returning None, whatever the server makes of it.
ReceiveFails == (Transmitting /\ EndTransmit) \/ UNCHANGED serverVars

\* A failed attempt: once more, or out of time.
\* Mutant: the loop never looks at the clock.
RetryForever ==
  /\ Goto("sync") /\ UNCHANGED outcome
RetryOrRaise ==
  \/ tries < MaxTries /\ Goto("sync") /\ UNCHANGED outcome
  \/ Leaves("error")

-----------------------------------------------------------------------------
(* The calls *)

Call(k, b) ==
  /\ at = "idle" /\ calls < MaxCalls
  /\ kind' = k /\ req' = b /\ calls' = calls + 1
  /\ tries' = 0 /\ sent' = 0 /\ outcome' = "none" /\ accepted' = 0
  /\ Goto("sync")
  /\ UNCHANGED <<serverVars, result, owner, resultOf, mixed>>

InitBlock(n) == [op |-> "init", p |-> n, q |-> n]
FetchBlock(n) == [op |-> "fetch", p |-> n, q |-> n]
FinishBlock == [op |-> "other", p |-> req.p, q |-> req.p]
ConfirmBlock == [op |-> "confirm", p |-> req.p, q |-> req.p]

SendRaw(b) == Call("raw", b)
UploadFile(n) == Call("upload", InitBlock(n))
DownloadFile(n) == Call("download", FetchBlock(n))

\* Mutant: a failed _send_block does not stop the turn.
TryRequestUnchecked ==
  /\ at = "sync" /\ tries < MaxTries
  /\ tries' = tries + 1
  /\ \E ok \in BOOLEAN : Send(req, ok)
  /\ Goto("reply")
  /\ UNCHANGED <<outcome, kind, req, sent, result, calls, resultOf>>

\* One turn of the retry loop, up to the end of _send_block.
TryRequest ==
  /\ at = "sync" /\ tries < MaxTries
  /\ tries' = tries + 1
  /\ \E ok \in BOOLEAN :
       /\ Send(req, ok)
       /\ IF ok THEN Goto("reply") /\ UNCHANGED outcome
          ELSE \/ tries' < MaxTries /\ Goto("sync") /\ UNCHANGED outcome
               \/ Leaves("error")
  /\ UNCHANGED <<kind, req, sent, result, calls, resultOf>>

\* What upload_file and download_file make of the ROM's answer to the init block,
\* which may be shorter than they need.
AfterFetch ==
  \/ answer.status = Ok /\ Goto("fetch") /\ UNCHANGED outcome
  \/ Leaves("failed")
\* Mutant: a name that is taken needs no confirm.
AfterInitUnconfirmed ==
  \/ answer.status # Err /\ Goto("data") /\ UNCHANGED outcome
  \/ Leaves("failed")
AfterInit ==
  \/ answer.status = Ok /\ Goto("confirm") /\ UNCHANGED outcome
  \/ answer.status \notin {Ok, Err} /\ Goto("data") /\ UNCHANGED outcome
  \/ Leaves("failed")

\* The second half of the turn.  No response sends the loop back to the top,
\* and the request goes out again.
AwaitReply ==
  /\ at = "reply"
  /\ \/ /\ Receive
        /\ result' = answer /\ resultOf' = owner
        /\ CASE kind = "raw"      -> Leaves("returned")
             [] kind = "upload"   -> AfterInit
             [] kind = "download" -> AfterFetch
     \/ /\ ReceiveFails
        /\ RetryOrRaise
        /\ UNCHANGED <<result, resultOf>>
  /\ UNCHANGED <<kind, req, tries, sent, calls, owner, accepted, mixed>>

\* The overwrite confirm and the data blocks are sent once each.
SendConfirm ==
  /\ at = "confirm"
  /\ \E ok \in BOOLEAN :
       /\ Send(ConfirmBlock, ok)
       /\ IF ok THEN Goto("data") /\ UNCHANGED outcome ELSE Leaves("failed")
  /\ UNCHANGED <<kind, req, tries, sent, result, calls, resultOf>>

SendData ==
  /\ at = "data"
  /\ \E ok \in BOOLEAN, piece \in Pieces :
       /\ Send(piece, ok)
       /\ sent' = sent + 1
       /\ IF ~ok THEN Leaves("failed")
          ELSE /\ Goto(IF sent' = MaxPieces THEN "final" ELSE "data")
               /\ UNCHANGED outcome
  /\ UNCHANGED <<kind, req, tries, result, calls, resultOf>>

\* Mutant: any final block counts as done.
AwaitFinalUnchecked ==
  /\ at = "final"
  /\ \/ Receive /\ result' = answer /\ resultOf' = owner /\ Leaves("stored")
     \/ ReceiveFails /\ Leaves("failed") /\ UNCHANGED <<result, resultOf>>
  /\ UNCHANGED <<kind, req, tries, sent, calls, owner, accepted, mixed>>

AwaitFinal ==
  /\ at = "final"
  /\ \/ /\ Receive
        /\ result' = answer /\ resultOf' = owner
        /\ Leaves(IF answer.status = Ok THEN "stored" ELSE "failed")
     \/ /\ ReceiveFails
        /\ Leaves("failed")
        /\ UNCHANGED <<result, resultOf>>
  /\ UNCHANGED <<kind, req, tries, sent, calls, owner, accepted, mixed>>

\* Pieces are counted and never numbered.
FetchPiece ==
  /\ at = "fetch"
  /\ \/ /\ Receive
        /\ sent' = sent + 1
        /\ mixed' = ((sent > 0 /\ mixed) \/ ~ExpectedPiece)
        /\ Goto(IF sent' = MaxPieces THEN "finish" ELSE "fetch")
        /\ UNCHANGED outcome
     \/ /\ ReceiveFails
        /\ Leaves("failed")
        /\ UNCHANGED <<sent, mixed>>
  /\ UNCHANGED <<kind, req, tries, result, calls, owner, resultOf, accepted>>

\* Sent once, and the outcome does not depend on it.
SendFinish ==
  /\ at = "finish"
  /\ \E ok \in BOOLEAN : Send(FinishBlock, ok)
  /\ Leaves("fetched")
  /\ UNCHANGED <<kind, req, tries, sent, result, calls, resultOf>>

ClientSteps == \/ TryRequest \/ AwaitReply \/ SendConfirm \/ SendData \/ AwaitFinal
               \/ FetchPiece \/ SendFinish

-----------------------------------------------------------------------------

\* The transmit is given up when nobody takes the block.
GiveUp == at \notin {"reply", "final", "fetch"} /\ EndTransmit

ServerSteps == (Handlers \/ RomSteps \/ GiveUp) /\ UNCHANGED <<clientVars, traceVars>>

Next ==
  \/ \E b \in Requests : SendRaw(b)
  \/ \E n \in Names : UploadFile(n) \/ DownloadFile(n)
  \/ ClientSteps
  \/ ServerSteps

Spec == Init /\ [][Next]_vars

\* Every socket wait of the client has a timeout, and the server's transmit
\* returns when nobody takes the block.
FairSpec == Spec /\ WF_vars(ClientSteps) /\ WF_vars(ServerSteps)

-----------------------------------------------------------------------------
(* Properties *)

TypeOK ==
  /\ phase \in Phases /\ blk \in Blocks /\ answer \in Answers
  /\ rom \in RomStates /\ upl \in Names /\ left \in 0..MaxPieces
  /\ disk \in [Names -> Kinds] /\ critical \in BOOLEAN
  /\ faulted \in BOOLEAN /\ refusal \in DosCodes \cup {0}
  /\ at \in Stations /\ kind \in {"raw", "upload", "download"} /\ req \in Blocks \cup {Empty}
  /\ tries \in 0..MaxTries /\ sent \in 0..MaxPieces
  /\ outcome \in Outcomes /\ result \in Answers
  /\ calls \in 0..MaxCalls /\ owner \in 0..MaxCalls /\ resultOf \in 0..MaxCalls
  /\ accepted \in 0..MaxTries /\ mixed \in BOOLEAN

\* The response send_raw returns is the answer to its own request, never the
\* late answer to an earlier one whose client has given up: a response is only
\* asked for once the server has taken the block, and the server takes none
\* while it still has an answer to get rid of.  A request of no bytes is the
\* exception: nothing holds it back, and all it ever returns is a late answer.
AnswerMatchesRequest ==
  outcome = "returned" =>
    IF req = Empty THEN resultOf \in 1..calls - 1 ELSE resultOf = calls

\* What a file command's ok promises of the disk.  After a media fault COPY's
\* promises little: the ones that hit Find First or Close are not looked at.
Done(b) ==
  CASE b.op = "mkdir"             -> Holds(b.p, {"dir"})
    [] b.op \in {"delete", "rmdir"} -> Holds(b.p, {"absent"})
    [] b.op = "rename"            -> Holds(b.p, {"absent"}) /\ ~Holds(b.q, {"absent"})
    [] b.op = "copy" /\ b.p # b.q ->
         /\ Holds(b.p, FileKinds) /\ Holds(b.q, FileKinds)
         /\ ~faulted => disk[b.q] = disk[b.p]
    [] OTHER                      -> TRUE

\* When send_raw returns an ok, the command has been carried out, however many
\* times it was sent: the handlers look at the carry flag before anything else
\* can change it, and an ok is never left over from another command.
OkMeansDone ==
  [][outcome' = "returned" /\ at = "reply" /\ result'.status = Ok => Done(req)']_vars

\* 0xFF is answered for a media fault of this very command, or for a code its own
\* DOS call returned and its table lacks; a flag left set by an earlier LIST
\* fails nothing.
Unlisted ==
  \/ blk.op = "mkdir" /\ MkdirErrcode[refusal] = 255
  \/ blk.op = "delete" /\ DeleteErrcode[refusal] = 255
  \/ blk.op = "rmdir" /\ RmdirErrcode[refusal] = 255
  \/ blk.op = "rename" /\ RenameErrcode[refusal] = 255
FaultStaysInItsCommand ==
  phase = "reply" /\ answer.errcode = 255 /\ ~faulted => refusal # 0 /\ Unlisted

\* delete.inc:10 and rmdir.inc:16 say of 0xFF "critical error fired", and
\* delete.inc:23-24 and rmdir.inc:31-32 that the reachable DOS codes are mapped:
\* 0xFF tells of a media fault.
UnknownOnlyAfterFault == phase = "reply" /\ answer.errcode = 255 => faulted

\* upload_file returns True over a file that is stored, from its own pieces
\* in their order, and download_file returns the pieces of its file in theirs,
\* although nothing in the protocol numbers them.
TransfersAreWhole ==
  /\ outcome = "stored" => Holds(req.p, {"file"}) /\ ~mixed
  /\ outcome = "fetched" => ~mixed

\* Every call returns: each wait has a timeout and the retries a deadline.
CallsEnd == (at # "idle") ~> (at = "idle")

\* mame_bridge.py:326: "Only the initial 'Z' sync inside _send_block is retried
\* here": once the server has taken the request it is not sent again.
OnlyTheSyncIsRetried == accepted <= 1

-----------------------------------------------------------------------------
(* The inductive invariant behind the safety properties *)

Handled == Queries \cup FileOps

\* No piece of an uploaded file starts like a command (PFTD.asm:119 tells the
\* two apart by nothing else).
PiecesAreData == \A b \in Pieces : b.op \notin Handled \cup {"init", "fetch"}

\* What the client is at fits the call it is in.
ClientInv ==
  /\ at # "idle" => outcome = "none"
  /\ at \in {"confirm", "data", "final"} => kind = "upload"
  /\ at \in {"fetch", "finish"} => kind = "download"
  /\ kind = "upload" => req.op = "init"
  /\ kind = "download" => req.op = "fetch"
  /\ at \in {"sync", "reply", "confirm"} => sent = 0
  /\ at \in {"data", "fetch"} => sent < MaxPieces
  /\ at = "final" => sent = MaxPieces
  /\ accepted <= tries
  /\ AnswerMatchesRequest

\* What a handler transmits is true of its own block.
HandlerInv ==
  /\ rom = "serve" => phase \in {"rom", "rom_reply"}
  /\ rom = "data" => left > 0
  /\ phase = "reply" => /\ blk.op \in Handled
                        /\ answer.status = Ok => Done(blk)
  /\ FaultStaysInItsCommand

\* While the client waits for its response the server is at its request; what
\* the ROM transmits then tells what the ROM goes on to.
WaitInv ==
  at = "reply" /\ req # Empty =>
    /\ blk = req /\ owner = calls
    /\ phase \in {"rom", "rom_reply"} => blk.op \notin Handled
    /\ rom = "serve" => phase = "rom_reply"
    /\ kind = "upload" /\ phase = "rom_reply" =>
         \/ answer.status = Err
         \/ answer.status = Fresh /\ rom = "data" /\ upl = req.p /\ left = MaxPieces
         \/ answer.status = Ok /\ ((rom = "confirm" /\ upl = req.p) \/ rom = "command")
    /\ kind = "download" /\ phase = "rom_reply" =>
         \/ answer.status = Err
         \/ answer.status = Ok /\ ((rom = "serve" /\ upl = req.p /\ left = MaxPieces)
                                   \/ rom = "command")

InHand == phase \in {"hook", "rom"}

\* From the answer to the init block on, the ROM is at this very upload, with the
\* pieces in step, or at nothing at all.
AtUpload ==
  \/ /\ phase = "receive" /\ rom = "data" /\ upl = req.p /\ left = MaxPieces - sent
     /\ sent > 0 => ~mixed
  \/ /\ InHand /\ rom = "data" /\ upl = req.p /\ left = MaxPieces - sent + 1 /\ ~mixed
     /\ blk.op \notin Handled
  \/ InHand /\ rom = "confirm" /\ upl = req.p /\ sent = 0 /\ blk.op = "confirm"
  \/ /\ phase = "rom_reply" /\ rom = "command" /\ at = "final" /\ ~mixed
     /\ answer.status = Ok => Holds(req.p, {"file"})
AtNothing ==
  /\ rom = "command"
  /\ phase = "receive" \/ (InHand /\ blk.op \notin Handled \cup {"init", "fetch"})

UploadInv ==
  /\ at = "confirm" => phase = "receive" /\ ((rom = "confirm" /\ upl = req.p) \/ rom = "command")
  /\ at \in {"data", "final"} => AtUpload \/ AtNothing
  /\ outcome = "stored" => /\ phase = "receive" /\ rom = "command"
                           /\ Holds(req.p, {"file"}) /\ ~mixed

\* A download's pieces are counted down as they are taken, and the ROM gives the
\* download up between two of them or not at all.
DownloadInv ==
  /\ at = "fetch" =>
       \/ /\ rom = "serve" /\ upl = req.p /\ (sent > 0 => ~mixed)
          /\ \/ phase = "rom" /\ left = MaxPieces - sent
             \/ phase = "rom_reply" /\ left = MaxPieces - sent - 1
       \/ rom \in {"finish", "command"} /\ phase = "receive"
  /\ at = "finish" =>
       /\ ~mixed
       /\ rom = "serve" \/ (rom \in {"finish", "command"} /\ phase = "receive")
  /\ outcome = "fetched" => ~mixed

\* Whose block the server has: some call's, and while nothing is sent not this one's.
OwnerInv ==
  /\ owner <= calls
  /\ at # "idle" => calls > 0
  /\ phase # "receive" => owner > 0
  /\ at # "idle" /\ req = Empty => owner < calls

Agreement ==
  /\ TypeOK /\ ClientInv /\ HandlerInv /\ WaitInv
  /\ PiecesAreData => UploadInv
  /\ DownloadInv

SessionInv == Agreement /\ OwnerInv

=============================================================================

--------------------------- MODULE SmartCableBlock ---------------------------
(***************************************************************************)
(* One block over the cable, byte by byte: `Z` from the receiver, 0xA5 and *)
(* the length, the payload, the checksum, and the checksum back.  One end  *)
(* is the Portfolio.  The other asks MAME's card for one byte at a time,   *)
(* over TCP: MameLink of tools/mame_bridge.py, which sends a request and   *)
(* receives the response, or SmartCable of tools/smartcable_server.py      *)
(* under the loop of smartcable_pftc.py, which does the opposite.          *)
(*                                                                         *)
(* A reply of the card may come after the host's timeout.  MameLink then   *)
(* fails the block with the request left where it is; SmartCable cancels   *)
(* the request first.                                                      *)
(***************************************************************************)
EXTENDS Integers, Sequences, SequencesExt

CONSTANTS
  W,            \* the number of byte values
  Z, A5,        \* ord('Z') and 0xA5
  Mixes,        \* what two halves of consecutive `Z` read as
  Requests, Responses,  \* payloads, by the side that starts
  MaxLen,       \* what the host takes: PAYLOAD_BUFSIZE, --max-len
  RomMaxLen,    \* what the ROM takes: the buffer of the transfer server, or of PFTC
  NoBlock, NoByte,
  Programs,     \* which of "bridge" and "server" is run
  MaxTries,     \* bound: attempts that fit send_raw's 3 s
  MaxCalls,     \* bound: requests made
  MaxEvents,    \* bound: Port C events not yet looked at
  MaxNoise      \* bound: bytes of a body that can still be read of an idle line

Byte == 0..(W - 1)
Payloads == Requests \cup Responses

ASSUME CableAssumption ==
  /\ W \in Nat \ {0} /\ Z \in Byte /\ A5 \in Byte /\ NoByte \notin Byte /\ Mixes \subseteq Byte
  /\ Payloads \subseteq Seq(Byte) /\ NoBlock \notin Seq(Byte)
  /\ Programs \subseteq {"bridge", "server"}
  /\ MaxLen \in Nat /\ RomMaxLen \in Nat
  /\ MaxTries \in Nat /\ MaxCalls \in Nat /\ MaxEvents \in Nat /\ MaxNoise \in Nat

VARIABLES
  program,      \* which host is run
  host, pofo,   \* the two ends of the block, see Ends
  cancelling,   \* cancel() waits for its reply
  reqs,         \* requests the card has not answered
  reps,         \* its answers on their way
  tries,        \* attempts of the call
  calls,        \* requests made so far
  events,       \* Port C events received
  toPofo, toHost \* history: what became of the last block each way

vars == <<program, host, pofo, cancelling, reqs, reps, tries, calls, events, toPofo, toHost>>

-----------------------------------------------------------------------------
(* The protocol of a block, the same at both ends.  The receiver gives `Z`,   *)
(* takes 0xA5 and the body, and gives the checksum back; the sender takes     *)
(* `Z`, gives its frame, and takes the checksum.                              *)

\* k counts the bytes of the frame given, got holds the body as received.
Sender(b) == [stage |-> "sync", out |-> b, k |-> 0, got |-> <<>>]
Receiver(b) == [stage |-> "z", out |-> b, k |-> 0, got |-> <<>>]
Probe == [stage |-> "probe", out |-> NoBlock, k |-> 0, got |-> <<>>]
Idle == [stage |-> "idle", out |-> NoBlock, k |-> 0, got |-> <<>>]
Off == [Idle EXCEPT !.stage = "off"]

Total(bytes) == FoldLeft(+, 0, bytes)
Head2(b) == <<Len(b) % W, Len(b) \div W>>
Checksum(b) == (-Total(Head2(b) \o b)) % W
Frame(b) == <<A5>> \o Head2(b) \o b \o <<Checksum(b)>>

LengthIn(got) == got[1] + got[2] * W
Whole(got) == Len(got) > 2 /\ Len(got) = LengthIn(got) + 3
TooLong(got, max) == Len(got) = 2 /\ NoByte \notin ToSet(got) /\ LengthIn(got) > max
BodyPayload(got) == SubSeq(got, 3, Len(got) - 1)
ChecksumFits(got) == Total(got) % W = 0

Gives(e) == e.stage \in {"z", "frame", "thanks"}
Takes(e) == e.stage \in {"a5", "body", "sync", "ack", "probe"}
ByteOf(e) == CASE e.stage = "z" -> Z
               [] e.stage = "frame" -> Frame(e.out)[e.k]
               [] e.stage = "thanks" -> Last(e.got)

At(e, stage) == [e EXCEPT !.stage = stage]

AfterGive(e) ==
  CASE e.stage = "z" -> At(e, "a5")
    [] e.stage = "frame" -> IF e.k = Len(Frame(e.out)) THEN At(e, "ack")
                            ELSE [e EXCEPT !.k = @ + 1]
    [] e.stage = "thanks" -> At(e, "done")

\* Mutant: the checksum is not compared.
CollectAnything(e, got, max) ==
  CASE TooLong(got, max) -> At(e, "toolong")
    [] Len(got) = 2 /\ NoByte \in ToSet(got) -> At(e, "failed")
    [] Whole(got) -> [e EXCEPT !.got = got, !.stage = "thanks"]
    [] OTHER -> [e EXCEPT !.got = got]
Collect(e, got, max) ==
  CASE TooLong(got, max) -> At(e, "toolong")
    [] Len(got) = 2 /\ NoByte \in ToSet(got) -> At(e, "failed")
    [] Whole(got) -> [e EXCEPT !.got = got,
                               !.stage = IF ChecksumFits(got) THEN "thanks" ELSE "failed"]
    [] OTHER -> [e EXCEPT !.got = got]

\* Mutant: any byte is taken for the acknowledgement.
AfterTakeTrusts(e, v, max) ==
  CASE e.stage = "sync" -> IF v = Z THEN [e EXCEPT !.stage = "frame", !.k = 1]
                           ELSE At(e, "failed")
    [] e.stage \in {"ack", "probe"} -> At(e, "done")
    [] e.stage = "a5"   -> At(e, IF v = A5 THEN "body" ELSE "failed")
    [] e.stage = "body" -> Collect(e, Append(e.got, v), max)
AfterTake(e, v, max) ==
  CASE e.stage = "sync" -> IF v = Z THEN [e EXCEPT !.stage = "frame", !.k = 1]
                           ELSE At(e, "failed")
    [] e.stage = "ack"  -> At(e, IF v = Checksum(e.out) THEN "done" ELSE "failed")
    [] e.stage = "a5"   -> At(e, IF v = A5 THEN "body" ELSE "failed")
    [] e.stage = "body" -> Collect(e, Append(e.got, v), max)
    [] e.stage = "probe" -> At(e, "done")

-----------------------------------------------------------------------------
(* History: each way, the block offered last and what became of it, in the    *)
(* terms of BlockContract.                                                    *)

Quiet == [offer |-> NoBlock, trying |-> FALSE, taken |-> NoBlock, sure |-> FALSE, doubtful |-> {}]
Settled(h, ok) ==
  IF ~h.trying THEN h
  ELSE [h EXCEPT !.trying = FALSE, !.sure = ok,
                 !.doubtful = IF ok THEN @ ELSE @ \cup {h.offer}]
Offered(h, b) ==
  [Quiet EXCEPT !.offer = b, !.trying = TRUE, !.doubtful = Settled(h, FALSE).doubtful]
TakenBy(e, e2, h) ==
  IF e.stage = "body" /\ e2.stage = "thanks" THEN [h EXCEPT !.taken = BodyPayload(e2.got)] ELSE h

Init ==
  /\ program \in Programs
  /\ host = Idle /\ pofo = IF program = "bridge" THEN Receiver(NoBlock) ELSE Idle
  /\ cancelling = FALSE /\ reqs = <<>> /\ reps = <<>>
  /\ tries = 0 /\ calls = 0 /\ events = 0
  /\ toPofo = Quiet /\ toHost = Quiet

-----------------------------------------------------------------------------
(* The host.  `rest` are the replies it has not read.                         *)

Kind(e) == IF Gives(e) THEN "send" ELSE "receive"
RequestOf(e) == [kind |-> Kind(e), val |-> IF Gives(e) THEN ByteOf(e) ELSE NoByte]
CancelRequest == [kind |-> "cancel", val |-> NoByte]

\* The next byte of the block.
AsksFor(e) == host' = e /\ reqs' = Append(reqs, RequestOf(e))
Rests == host' = Idle /\ UNCHANGED reqs
\* An exception ends the server, and the connection with it.
Ends == host' = Off /\ reqs' = <<>> /\ reps' = <<>>

\* _drain_stale drops what has arrived.
Drains(rest) == \E n \in 0..Len(rest) : reps' = SubSeq(rest, n + 1, Len(rest))

\* One attempt of send_raw_instrumented.  _send_block of nothing returns True.
Attempt(b, rest) ==
  /\ Drains(rest)
  /\ \/ b = <<>> /\ AsksFor(Receiver(b)) /\ UNCHANGED toPofo
     \/ b # <<>> /\ AsksFor(Sender(b)) /\ toPofo' = Offered(toPofo, b)
  /\ UNCHANGED toHost

\* _send_block or _receive_block returns False or None.  A missing low byte of
\* the length does not stop the high byte from being asked for.
HostFails(rest) ==
  \/ /\ host.stage = "body" /\ host.got = <<>>
     /\ AsksFor([host EXCEPT !.got = <<NoByte>>])
     /\ reps' = rest /\ UNCHANGED <<tries, toPofo, toHost>>
  \/ /\ ~(host.stage = "body" /\ host.got = <<>>)
     /\ \/ /\ program = "bridge" /\ tries < MaxTries /\ tries' = tries + 1
           /\ Attempt(host.out, rest)
        \/ /\ Rests /\ reps' = rest
           /\ toPofo' = Settled(toPofo, FALSE)
           /\ UNCHANGED <<tries, toHost>>

\* The block is through: the bridge waits for the response, the server sends one.
HostDone(rest) ==
  /\ reps' = rest /\ UNCHANGED <<tries, toHost>>
  /\ \/ /\ program = "bridge" /\ host.stage = "ack"
        /\ AsksFor(Receiver(host.out)) /\ toPofo' = Settled(toPofo, TRUE)
     \/ /\ program = "server" /\ host.stage = "thanks"
        /\ \E b \in Responses : AsksFor(Sender(b)) /\ toPofo' = Offered(toPofo, b)
     \/ /\ host.stage \in {"probe", IF program = "bridge" THEN "thanks" ELSE "ack"}
        /\ Rests /\ toPofo' = Settled(toPofo, TRUE)

HostGoesOn(e, rest) ==
  CASE e.stage = "done" -> HostDone(rest)
    [] e.stage = "toolong" /\ program = "server" ->
         Ends /\ UNCHANGED <<tries, toPofo, toHost>>
    [] e.stage = "failed" \/ (e.stage = "toolong" /\ program = "bridge") -> HostFails(rest)
    [] OTHER -> /\ AsksFor(e) /\ reps' = rest
                /\ toHost' = TakenBy(host, e, toHost) /\ UNCHANGED <<tries, toPofo>>

\* send_raw is called; the lock keeps calls apart.
SendRaw ==
  /\ program = "bridge" /\ host.stage = "idle" /\ calls < MaxCalls
  /\ calls' = calls + 1 /\ tries' = 1
  /\ \E b \in Requests : Attempt(b, reps)
  /\ UNCHANGED <<program, pofo, cancelling, events>>

\* One read of detect_once: whatever comes, or nothing, it ends.
Detect ==
  /\ program = "bridge" /\ host.stage = "idle" /\ calls < MaxCalls
  /\ calls' = calls + 1 /\ tries' = MaxTries
  /\ Drains(reps) /\ AsksFor(Probe)
  /\ UNCHANGED <<program, pofo, cancelling, events, toPofo, toHost>>

\* The server's loop: a Port C event, then receive_atari_block.
WaitEvent ==
  /\ program = "server" /\ host.stage = "idle" /\ events > 0
  /\ events' = events - 1
  /\ AsksFor(Receiver(NoBlock))
  /\ UNCHANGED <<program, pofo, cancelling, reps, tries, calls, toPofo, toHost>>

Waiting == Gives(host) \/ Takes(host)
Answers(r) == r.kind = Kind(host)

\* _receive_byte, _send_byte: the bridge takes the next reply for its own; the
\* server passes over replies of another kind.
TakeReply ==
  /\ Waiting /\ ~cancelling /\ reps # <<>>
  /\ LET r == Head(reps) rest == Tail(reps) IN
       IF program = "server" /\ ~Answers(r)
         THEN reps' = rest /\ UNCHANGED <<host, reqs, tries, toPofo, toHost>>
       ELSE IF Answers(r) /\ r.ok
         THEN HostGoesOn(IF Gives(host) THEN AfterGive(host) ELSE AfterTake(host, r.val, MaxLen), rest)
       ELSE HostFails(rest)
  /\ UNCHANGED <<program, pofo, cancelling, calls, events>>

\* No reply in time.
\* Mutant: the server does not cancel.
TimeoutForgets ==
  /\ Waiting /\ ~cancelling /\ HostFails(reps)
  /\ UNCHANGED <<program, pofo, cancelling, calls, events>>
Timeout ==
  /\ Waiting /\ ~cancelling
  /\ \/ program = "bridge" /\ HostFails(reps) /\ UNCHANGED cancelling
     \/ /\ program = "server" /\ cancelling' = TRUE
        /\ reqs' = Append(reqs, CancelRequest)
        /\ UNCHANGED <<host, reps, tries, toPofo, toHost>>
  /\ UNCHANGED <<program, pofo, calls, events>>

\* cancel(): replies are dropped up to its own; without one the program ends.
Cancelled ==
  /\ cancelling /\ reps # <<>>
  /\ IF Head(reps).kind # "cancel"
       THEN reps' = Tail(reps) /\ UNCHANGED <<host, cancelling, reqs, tries, toPofo, toHost>>
     ELSE /\ cancelling' = FALSE
          /\ IF Head(reps).ok THEN HostFails(Tail(reps))
             ELSE Ends /\ toPofo' = Settled(toPofo, FALSE) /\ UNCHANGED <<tries, toHost>>
  /\ UNCHANGED <<program, pofo, calls, events>>
CancelUnanswered ==
  /\ cancelling
  /\ Ends /\ cancelling' = FALSE /\ toPofo' = Settled(toPofo, FALSE)
  /\ UNCHANGED <<program, pofo, tries, calls, events, toHost>>

HostSteps == SendRaw \/ Detect \/ WaitEvent \/ TakeReply \/ Timeout \/ Cancelled \/ CancelUnanswered

-----------------------------------------------------------------------------
(* The Portfolio: the ROM's File Transfer Server, which receives a block and  *)
(* transmits an answer, or PFTC, which transmits a request and receives.      *)

PofoRests == pofo' = IF program = "bridge" THEN Receiver(NoBlock) ELSE Idle

PofoDone ==
  CASE program = "bridge" /\ pofo.stage = "thanks" ->
         \E b \in Responses : pofo' = Sender(b) /\ toHost' = Offered(toHost, b)
    [] program = "server" /\ pofo.stage = "ack" ->
         pofo' = Receiver(NoBlock) /\ toHost' = Settled(toHost, TRUE)
    [] OTHER -> PofoRests /\ toHost' = Settled(toHost, TRUE)

PofoFails == PofoRests /\ toHost' = Settled(toHost, FALSE) /\ UNCHANGED toPofo

PofoGoesOn(e) ==
  CASE e.stage = "done" -> PofoDone /\ UNCHANGED toPofo
    [] e.stage \in {"failed", "toolong"} -> PofoFails
    [] OTHER -> pofo' = e /\ toPofo' = TakenBy(pofo, e, toPofo) /\ UNCHANGED toHost

\* A transmit of PFTC's.
PofoTransmits ==
  /\ program = "server" /\ pofo.stage = "idle" /\ calls < MaxCalls
  /\ calls' = calls + 1
  /\ \E b \in Requests \ {<<>>} : pofo' = Sender(b) /\ toHost' = Offered(toHost, b)
  /\ UNCHANGED <<program, host, cancelling, reqs, reps, tries, events, toPofo>>

PofoGivesUp ==
  /\ pofo.stage \notin (IF program = "server" THEN {"idle"} ELSE {"idle", "z"})
  /\ PofoFails
  /\ UNCHANGED <<program, host, cancelling, reqs, reps, tries, calls, events>>

\* Something on Port C of the Portfolio moves, in a handshake or not, and the card
\* tells the server, which reads such messages at once and counts them.
PortC ==
  /\ program = "server" /\ events < MaxEvents
  /\ events' = events + 1
  /\ UNCHANGED <<program, host, pofo, cancelling, reqs, reps, tries, calls, toPofo, toHost>>

-----------------------------------------------------------------------------
(* The card: one request after the other, each answered once.                *)

Answer(kind, ok, val) ==
  /\ reqs' = Tail(reqs)
  /\ reps' = Append(reps, [kind |-> kind, ok |-> ok, val |-> val])
CardUnchanged == UNCHANGED <<program, host, cancelling, tries, calls, events>>

\* The Portfolio waits for a block for a few seconds only: nobody reads a long body
\* of an idle line.
StillWaits == pofo.stage = "z" /\ host.stage = "body" => Len(host.got) < MaxNoise

\* The byte goes over, whatever the card makes of the handshake's end.
PassByte ==
  /\ reqs # <<>>
  /\ \/ /\ Head(reqs).kind = "send" /\ Takes(pofo)
        /\ PofoGoesOn(AfterTake(pofo, Head(reqs).val, RomMaxLen))
        /\ \E ok \in BOOLEAN : Answer("send", ok, NoByte)
     \/ /\ Head(reqs).kind = "receive" /\ Gives(pofo) /\ StillWaits
        /\ PofoGoesOn(AfterGive(pofo))
        /\ \E ok \in BOOLEAN : Answer("receive", ok, ByteOf(pofo))
  /\ CardUnchanged
\* It does not.  While the Portfolio gives one itself the card may take its clock
\* for the answer to a send; a receive may catch the idle `Z` in the middle.
LoseByte ==
  /\ reqs # <<>>
  /\ \/ Head(reqs).kind # "cancel" /\ Answer(Head(reqs).kind, FALSE, NoByte)
     \/ Head(reqs).kind = "send" /\ Gives(pofo) /\ Answer("send", TRUE, NoByte)
     \/ /\ Head(reqs).kind = "receive" /\ pofo.stage = "z" /\ StillWaits
        /\ \E v \in Mixes : Answer("receive", TRUE, v)
  /\ CardUnchanged /\ UNCHANGED <<pofo, toPofo, toHost>>
\* A cancelled request is answered no more.
CancelByte ==
  /\ reqs # <<>> /\ Last(reqs).kind = "cancel"
  /\ reqs' = <<>>
  /\ \E ok \in BOOLEAN : reps' = Append(reps, [kind |-> "cancel", ok |-> ok, val |-> NoByte])
  /\ CardUnchanged /\ UNCHANGED <<pofo, toPofo, toHost>>

OtherSteps == PofoTransmits \/ PofoGivesUp \/ PortC \/ PassByte \/ LoseByte \/ CancelByte

Next == HostSteps \/ OtherSteps

Spec == Init /\ [][Next]_vars

-----------------------------------------------------------------------------
(* Properties *)

ToPofo == INSTANCE BlockContract WITH Blocks <- Payloads,
  offer <- toPofo.offer, trying <- toPofo.trying, taken <- toPofo.taken,
  sure <- toPofo.sure, doubtful <- toPofo.doubtful
ToHost == INSTANCE BlockContract WITH Blocks <- Payloads,
  offer <- toHost.offer, trying <- toHost.trying, taken <- toHost.taken,
  sure <- toHost.sure, doubtful <- toHost.doubtful

\* Whatever timeouts and late replies do, _send_block returns True only for a
\* block the Portfolio has taken, byte for byte, and the Portfolio is never made
\* to take one that was not sent.
SentBlocksAreTaken == ToPofo!Spec
\* The Portfolio's transmit succeeds only for a block the host has, and what
\* the host returns was transmitted.
TransmitsAreTaken == ToHost!Spec

\* What the sum of eight bits has to tell apart for that, with the mock server, which
\* cancels.  A response cut off in the middle may go on with the `Z` of the server's next
\* calls: it must not fit, nor an 0xA5 of the next handshake pass for the echo of its sum.
Padded(b, m) ==
  [i \in 1..(Len(Frame(b)) - 1) |-> IF i <= m THEN Frame(b)[i + 1] ELSE Z]
PlainResponse(b) ==
  /\ Checksum(b) # A5
  /\ \A m \in 2..(Len(Frame(b)) - 1) :
       ChecksumFits(Padded(b, m)) => Padded(b, m) = Tail(Frame(b))
\* A request may be read from an 0xA5 in its middle on: that must not fit, nor a `Z` pass
\* for the echo.
PlainRequest(b) ==
  /\ Checksum(b) # Z
  /\ \A i \in 2..Len(Frame(b)), j \in 1..Len(Frame(b)) :
       Frame(b)[i] = A5 /\ Whole(SubSeq(Frame(b), i + 1, j))
         => ~ChecksumFits(SubSeq(Frame(b), i + 1, j))
\* And a length made of `Z`, whole or askew, is more than the ROM takes, and more than
\* anybody reads of an idle line.
Distinguishable ==
  /\ Z # A5 /\ Z \notin Mixes
  /\ Z * W > RomMaxLen /\ \A m \in Mixes \cup {Z} : m * W > MaxNoise
  /\ \A b \in Responses : PlainResponse(b)
  /\ \A b \in Requests \ {<<>>} : PlainRequest(b)

\* smartcable_server.py:96, cancel() will "consume stale replies": when the
\* server waits for a reply, the only one that can come is its own.
Outstanding == Len(reqs) + Len(reps)
RepliesAreOwn ==
  program = "server" /\ ~cancelling => Outstanding = (IF Waiting THEN 1 ELSE 0)

=============================================================================

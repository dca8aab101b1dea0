------------------------ MODULE SmartCableBlockProofs ------------------------
(***************************************************************************)
(* Theorems about the mock server's end of the cable, for any bytes,       *)
(* payloads and limits: between a request and its reply, or a cancellation *)
(* and its own, nothing else is under way, so that no reply is ever taken  *)
(* for another request's.  From that, and if the checksum tells the        *)
(* payloads apart, each direction implements BlockContract.                *)
(***************************************************************************)
EXTENDS SmartCableBlock, SequenceTheorems, TLAPS

-----------------------------------------------------------------------------
(* The invariant *)

IsEnd(e) == e = [stage |-> e.stage, out |-> e.out, k |-> e.k, got |-> e.got]
InBlock(e) == Gives(e) \/ Takes(e)

\* Sequences of one and of two messages.
One(s, kinds) == s = <<s[1]>> /\ s[1].kind \in kinds
Two(s) == s = <<s[1], s[2]>> /\ s[1].kind \in {"send", "receive"} /\ s[2].kind = "cancel"

\* A byte operation's request or its reply is under way, and nothing else.
Asking == \/ One(reqs, {Kind(host)}) /\ reps = <<>>
          \/ reqs = <<>> /\ One(reps, {Kind(host)})
\* The timed-out operation and the cancellation after it.
Crossing == \/ Two(reqs) /\ reps = <<>>
            \/ One(reqs, {"cancel"}) /\ One(reps, {"send", "receive"})
            \/ One(reqs, {"cancel"}) /\ reps = <<>>
            \/ reqs = <<>> /\ Two(reps)
            \/ reqs = <<>> /\ One(reps, {"cancel"})
Quiescent == reqs = <<>> /\ reps = <<>>

ServerInv ==
  program = "server" =>
    /\ IsEnd(host)
    /\ ~cancelling => IF Waiting THEN Asking ELSE Quiescent
    /\ cancelling => Waiting /\ Crossing

-----------------------------------------------------------------------------
(* Sequences of one or two messages *)

LEMMA Append0 == ASSUME NEW x PROVE Append(<<>>, x) = <<x>>
OBVIOUS

LEMMA Append1 == ASSUME NEW x, NEW y PROVE Append(<<x>>, y) = <<x, y>>
<1>1. <<x>> \in Seq({x, y}) /\ Len(<<x>>) = 1 /\ <<x>>[1] = x
  OBVIOUS
<1> DEFINE s == Append(<<x>>, y)
<1>2. s \in Seq({x, y}) /\ Len(s) = 2 /\ s[1] = x /\ s[2] = y
  BY <1>1, AppendProperties
<1> HIDE DEF s
<1>3. s = <<x, y>>
  BY <1>2
<1> QED
  BY <1>3 DEF s

LEMMA Ends1 == ASSUME NEW x PROVE Head(<<x>>) = x /\ Tail(<<x>>) = <<>> /\ Last(<<x>>) = x
BY DEF Last

LEMMA Ends2 ==
  ASSUME NEW x, NEW y
  PROVE  Head(<<x, y>>) = x /\ Tail(<<x, y>>) = <<y>> /\ Last(<<x, y>>) = y
BY DEF Last

-----------------------------------------------------------------------------
(* The protocol of a block *)

\* A byte given leads on in the block, or ends it (receive_atari_block).
LEMMA AfterGiveStage ==
  ASSUME NEW e, IsEnd(e), Gives(e)
  PROVE  IsEnd(AfterGive(e)) /\ (InBlock(AfterGive(e)) \/ AfterGive(e).stage = "done")
<1> DEFINE r == AfterGive(e)
<1>1. CASE e.stage = "z"
  BY <1>1 DEF IsEnd, AfterGive, At, InBlock, Gives, Takes
<1>2. CASE e.stage = "frame"
  BY <1>2 DEF IsEnd, AfterGive, At, InBlock, Gives, Takes
<1>3. CASE e.stage = "thanks"
  BY <1>3 DEF IsEnd, AfterGive, At, InBlock, Gives, Takes
<1> QED
  BY <1>1, <1>2, <1>3 DEF Gives

\* So does the body as it comes in.
LEMMA CollectStage ==
  ASSUME NEW e, NEW g, NEW max, IsEnd(e), e.stage = "body"
  PROVE  LET r == Collect(e, g, max) IN
         IsEnd(r) /\ (InBlock(r) \/ r.stage \in {"failed", "toolong"})
<1> DEFINE T == TooLong(g, max)
           F == Len(g) = 2 /\ NoByte \in ToSet(g)
           D == Whole(g)
<1>1. (T => ~F /\ ~D) /\ (F => ~D)
  <2>1. T => ~F
    BY DEF TooLong
  <2>2. Len(g) = 2 => ~D
    BY DEF Whole
  <2>3. T => Len(g) = 2
    BY DEF TooLong
  <2> QED
    BY <2>1, <2>2, <2>3
<1>2. Collect(e, g, max) = CASE T -> At(e, "toolong")
                             [] F -> At(e, "failed")
                             [] D -> [e EXCEPT !.got = g,
                                               !.stage = IF ChecksumFits(g) THEN "thanks" ELSE "failed"]
                             [] OTHER -> [e EXCEPT !.got = g]
  BY DEF Collect
<1> HIDE DEF T, F, D
<1>3. CASE T
  BY <1>1, <1>2, <1>3 DEF IsEnd, At, InBlock, Gives, Takes
<1>4. CASE F
  BY <1>1, <1>2, <1>4 DEF IsEnd, At, InBlock, Gives, Takes
<1>5. CASE D
  BY <1>1, <1>2, <1>5 DEF IsEnd, At, InBlock, Gives, Takes
<1>6. CASE ~T /\ ~F /\ ~D
  BY <1>2, <1>6 DEF IsEnd, At, InBlock, Gives, Takes
<1> QED
  BY <1>3, <1>4, <1>5, <1>6

\* A byte taken leads on, ends the block or fails it.
LEMMA AfterTakeStage ==
  ASSUME NEW e, NEW v, NEW max, IsEnd(e), Takes(e)
  PROVE  LET r == AfterTake(e, v, max) IN
         IsEnd(r) /\ (InBlock(r) \/ r.stage \in {"done", "failed", "toolong"})
<1>1. CASE e.stage = "body"
  <2>1. AfterTake(e, v, max) = Collect(e, Append(e.got, v), max)
    BY <1>1 DEF AfterTake
  <2> QED
    BY <1>1, <2>1, CollectStage
<1>2. CASE e.stage \in {"a5", "sync", "ack", "probe"}
  BY <1>2 DEF IsEnd, AfterTake, At, InBlock, Gives, Takes
<1> QED
  BY <1>1, <1>2 DEF Takes

-----------------------------------------------------------------------------
(* The steps of the host.  In each nothing is under way, and the server is    *)
(* not cancelling, when it goes on.                                           *)

\* The next byte operation is the only one (send_byte, receive_byte).
LEMMA AsksForInv ==
  ASSUME NEW e, IsEnd(e), InBlock(e), reqs = <<>>, AsksFor(e), reps' = <<>>, ~cancelling'
  PROVE  ServerInv'
<1>1. reqs' = <<RequestOf(e)>> /\ host' = e
  BY Append0 DEF AsksFor
<1>2. RequestOf(e).kind = Kind(e)
  BY DEF RequestOf
<1>3. One(reqs, {Kind(host)})'
  BY <1>1, <1>2 DEF One
<1> QED
  BY <1>1, <1>3 DEF ServerInv, Asking, Waiting, InBlock

\* Back in the loop, or off, the server has nothing under way.
LEMMA RestsInv ==
  ASSUME reqs = <<>>, reps' = <<>>, ~cancelling', Rests \/ Ends
  PROVE  ServerInv'
<1>1. reqs' = <<>>
  BY DEF Rests, Ends
<1>2. host' = Idle \/ host' = Off
  BY DEF Rests, Ends
<1>3. IsEnd(host') /\ ~Gives(host') /\ ~Takes(host')
  BY <1>2 DEF Idle, Off, IsEnd, Gives, Takes
<1> QED
  BY <1>1, <1>3 DEF ServerInv, Quiescent, Waiting

\* A block that fails: the server goes back to its loop, unless half a length is
\* still to be asked for.
LEMMA FailsInv ==
  ASSUME program = "server", IsEnd(host), reqs = <<>>, HostFails(<<>>), ~cancelling'
  PROVE  ServerInv'
<1>1. CASE host.stage = "body" /\ host.got = <<>>
  <2> DEFINE e == [host EXCEPT !.got = <<NoByte>>]
  <2>1. IsEnd(e) /\ InBlock(e)
    BY <1>1 DEF IsEnd, InBlock, Gives, Takes
  <2>2. AsksFor(e) /\ reps' = <<>>
    BY <1>1 DEF HostFails
  <2> QED
    BY <2>1, <2>2, AsksForInv
<1>2. CASE ~(host.stage = "body" /\ host.got = <<>>)
  BY <1>2, RestsInv DEF HostFails
<1> QED
  BY <1>1, <1>2

\* A block that is through: the response follows, or the next event.
LEMMA DoneInv ==
  ASSUME program = "server", reqs = <<>>, HostDone(<<>>), ~cancelling'
  PROVE  ServerInv'
<1>1. reps' = <<>>
  BY DEF HostDone
<1>2. CASE \E b \in Responses : AsksFor(Sender(b))
  <2>1. PICK b \in Responses : AsksFor(Sender(b))
    BY <1>2
  <2>2. IsEnd(Sender(b)) /\ InBlock(Sender(b))
    BY DEF Sender, IsEnd, InBlock, Gives, Takes
  <2> QED
    BY <1>1, <2>1, <2>2, AsksForInv
<1>3. CASE Rests
  BY <1>1, <1>3, RestsInv
<1> QED
  BY <1>2, <1>3 DEF HostDone

\* A reply to the byte operation was accepted.
LEMMA GoesOnInv ==
  ASSUME program = "server", IsEnd(host), reqs = <<>>, ~cancelling',
         NEW e, IsEnd(e), InBlock(e) \/ e.stage \in {"done", "failed", "toolong"},
         HostGoesOn(e, <<>>)
  PROVE  ServerInv'
<1>1. CASE e.stage = "done"
  BY <1>1, DoneInv DEF HostGoesOn
<1>2. CASE e.stage = "toolong"
  <2>1. Ends
    BY <1>2 DEF HostGoesOn
  <2>2. reps' = <<>>
    BY <2>1 DEF Ends
  <2> QED
    BY <2>1, <2>2, RestsInv
<1>3. CASE e.stage = "failed"
  BY <1>3, FailsInv DEF HostGoesOn
<1>4. CASE InBlock(e)
  <2>1. e.stage \notin {"done", "failed", "toolong"}
    BY <1>4 DEF InBlock, Gives, Takes
  <2>2. AsksFor(e) /\ reps' = <<>>
    BY <2>1 DEF HostGoesOn
  <2> QED
    BY <1>4, <2>2, AsksForInv
<1> QED
  BY <1>1, <1>2, <1>3, <1>4

-----------------------------------------------------------------------------
(* The invariant, step by step *)

LEMMA ServerInvInit == Init => ServerInv
BY DEF Init, ServerInv, IsEnd, Idle, Waiting, Gives, Takes, Quiescent

\* A reply that can be read is the one asked for.
LEMMA TakeReplyInv ==
  ASSUME program = "server", ServerInv, TakeReply PROVE ServerInv'
<1>1. IsEnd(host) /\ Waiting /\ ~cancelling /\ ~cancelling' /\ program' = program
  BY DEF ServerInv, TakeReply
<1>2. Asking /\ reps # <<>>
  BY <1>1 DEF ServerInv, TakeReply
<1>3. reqs = <<>> /\ One(reps, {Kind(host)})
  BY <1>2 DEF Asking
<1>4. Head(reps) = reps[1] /\ Tail(reps) = <<>>
  BY <1>3, Ends1 DEF One
<1>5. Answers(Head(reps))
  BY <1>3, <1>4 DEF One, Answers
<1>6. CASE Head(reps).ok
  <2> DEFINE e == IF Gives(host) THEN AfterGive(host) ELSE AfterTake(host, Head(reps).val, MaxLen)
  <2>1. HostGoesOn(e, <<>>)
    BY <1>4, <1>5, <1>6 DEF TakeReply
  <2>2. IsEnd(e) /\ (InBlock(e) \/ e.stage \in {"done", "failed", "toolong"})
    BY <1>1, AfterGiveStage, AfterTakeStage DEF Waiting
  <2> HIDE DEF e
  <2> QED
    BY <1>1, <1>3, <2>1, <2>2, GoesOnInv
<1>7. CASE ~Head(reps).ok
  <2>1. HostFails(<<>>)
    BY <1>4, <1>5, <1>7 DEF TakeReply
  <2> QED
    BY <1>1, <1>3, <2>1, FailsInv
<1> QED
  BY <1>6, <1>7

\* The cancellation goes after the request it is about.
LEMMA TimeoutInv ==
  ASSUME program = "server", ServerInv, Timeout PROVE ServerInv'
<1>1. IsEnd(host) /\ Waiting /\ Asking
  BY DEF ServerInv, Timeout
<1>2. /\ cancelling' = TRUE /\ reqs' = Append(reqs, CancelRequest)
      /\ UNCHANGED <<program, host, reps>>
  BY DEF Timeout
<1>3. CancelRequest.kind = "cancel" /\ Kind(host) \in {"send", "receive"}
  BY DEF CancelRequest, Kind
<1>4. CASE One(reqs, {Kind(host)}) /\ reps = <<>>
  <2>1. reqs' = <<reqs[1], CancelRequest>> /\ reqs[1].kind = Kind(host)
    BY <1>2, <1>4, Append1 DEF One
  <2>2. Two(reqs')
    BY <1>3, <2>1 DEF Two
  <2> QED
    BY <1>1, <1>2, <1>4, <2>2 DEF ServerInv, Waiting, Crossing, Two
<1>5. CASE reqs = <<>> /\ One(reps, {Kind(host)})
  <2>1. reqs' = <<CancelRequest>>
    BY <1>2, <1>5, Append0
  <2>2. One(reqs', {"cancel"})
    BY <1>3, <2>1 DEF One
  <2>3. One(reps', {"send", "receive"})
    BY <1>2, <1>3, <1>5 DEF One
  <2> QED
    BY <1>1, <1>2, <2>2, <2>3 DEF ServerInv, Waiting, Crossing, One
<1> QED
  BY <1>1, <1>4, <1>5 DEF Asking

\* The reply to the cancellation is the last.
LEMMA CancelledInv ==
  ASSUME program = "server", ServerInv, Cancelled PROVE ServerInv'
<1>1. IsEnd(host) /\ Waiting /\ Crossing /\ cancelling /\ reps # <<>>
  BY DEF ServerInv, Cancelled
<1>2. CASE One(reqs, {"cancel"}) /\ One(reps, {"send", "receive"})
  <2>1. Head(reps).kind # "cancel" /\ Tail(reps) = <<>>
    BY <1>2, Ends1 DEF One
  <2>2. UNCHANGED <<program, host, cancelling, reqs>> /\ reps' = <<>>
    BY <2>1 DEF Cancelled
  <2> QED
    BY <1>1, <1>2, <2>2 DEF ServerInv, Waiting, Crossing, One
<1>3. CASE reqs = <<>> /\ Two(reps)
  <2>1. Head(reps) = reps[1] /\ Tail(reps) = <<reps[2]>>
    BY <1>3, Ends2 DEF Two
  <2>2. UNCHANGED <<program, host, cancelling, reqs>> /\ reps' = <<reps[2]>>
    BY <1>3, <2>1 DEF Cancelled, Two
  <2>3. One(reps', {"cancel"})
    BY <1>3, <2>2 DEF One, Two
  <2> QED
    BY <1>1, <1>3, <2>2, <2>3 DEF ServerInv, Waiting, Crossing, One
<1>4. CASE reqs = <<>> /\ One(reps, {"cancel"})
  <2>1. Head(reps).kind = "cancel" /\ Tail(reps) = <<>>
    BY <1>4, Ends1 DEF One
  <2>2. ~cancelling'
    BY <2>1 DEF Cancelled
  <2>3. HostFails(<<>>) \/ Ends
    BY <2>1 DEF Cancelled
  <2>4. CASE HostFails(<<>>)
    BY <1>1, <1>4, <2>2, <2>4, FailsInv
  <2>5. CASE Ends
    BY <1>4, <2>2, <2>5, RestsInv DEF Ends
  <2> QED
    BY <2>3, <2>4, <2>5
<1> QED
  BY <1>1, <1>2, <1>3, <1>4 DEF Crossing

\* A reply takes the place of its request (the card, one request at a time).
LEMMA AnsweredInv ==
  ASSUME program = "server", ServerInv, reqs # <<>>, Head(reqs).kind \in {"send", "receive"},
         NEW ok, NEW v, Answer(Head(reqs).kind, ok, v), UNCHANGED <<program, host, cancelling>>
  PROVE  ServerInv'
<1> DEFINE r == [kind |-> Head(reqs).kind, ok |-> ok, val |-> v]
<1>1. reqs' = Tail(reqs) /\ reps' = Append(reps, r)
  BY DEF Answer
<1>2. r.kind = Head(reqs).kind
  OBVIOUS
<1> HIDE DEF r
<1>3. CASE ~cancelling
  <2>1. Waiting /\ One(reqs, {Kind(host)}) /\ reps = <<>>
    BY <1>3 DEF ServerInv, Asking, Quiescent
  <2>2. reqs' = <<>> /\ Head(reqs).kind = Kind(host)
    BY <1>1, <2>1, Ends1 DEF One
  <2>3. reps' = <<r>>
    BY <1>1, <2>1, Append0
  <2>4. One(reps', {Kind(host)})
    BY <1>2, <2>2, <2>3 DEF One
  <2> QED
    BY <1>3, <2>1, <2>2, <2>4 DEF ServerInv, Waiting, Asking, One
<1>4. CASE cancelling
  <2>1. Waiting /\ Crossing
    BY <1>4 DEF ServerInv
  <2>2. ~One(reqs, {"cancel"})
    BY Ends1 DEF One
  <2>3. Two(reqs) /\ reps = <<>>
    BY <2>1, <2>2 DEF Crossing
  <2>4. reqs' = <<reqs[2]>> /\ reqs[2].kind = "cancel"
    <3> DEFINE x == reqs[1]
               y == reqs[2]
    <3>1. reqs = <<x, y>>
      BY <2>3 DEF Two
    <3>2. y = reqs[2]
      OBVIOUS
    <3> HIDE DEF x, y
    <3>3. Tail(reqs) = <<reqs[2]>>
      BY <3>1, <3>2, Ends2
    <3> QED
      BY <1>1, <2>3, <3>3 DEF Two
  <2>5. reps' = <<r>>
    BY <1>1, <2>3, Append0
  <2>6. One(reqs', {"cancel"}) /\ One(reps', {"send", "receive"})
    BY <1>2, <2>4, <2>5 DEF One
  <2> QED
    BY <1>4, <2>1, <2>6 DEF ServerInv, Waiting, Crossing, One
<1> QED
  BY <1>3, <1>4

\* After the reply to a cancellation there is none to come (cancel).
LEMMA CancelByteInv ==
  ASSUME program = "server", ServerInv, CancelByte PROVE ServerInv'
<1>1. PICK ok \in BOOLEAN : reps' = Append(reps, [kind |-> "cancel", ok |-> ok, val |-> NoByte])
  BY DEF CancelByte
<1> DEFINE c == [kind |-> "cancel", ok |-> ok, val |-> NoByte]
<1>2. /\ reqs # <<>> /\ Last(reqs).kind = "cancel" /\ reqs' = <<>> /\ reps' = Append(reps, c)
      /\ UNCHANGED <<program, host, cancelling>>
  BY <1>1 DEF CancelByte, CardUnchanged
<1>3. c.kind = "cancel"
  OBVIOUS
<1> HIDE DEF c
<1>4. cancelling
  <2>1. Kind(host) # "cancel"
    BY DEF Kind
  <2>2. ~One(reqs, {Kind(host)})
    BY <1>2, <2>1, Ends1 DEF One
  <2> QED
    BY <1>2, <2>2 DEF ServerInv, Asking, Quiescent
<1>5. Waiting /\ Crossing
  BY <1>4 DEF ServerInv
<1>6. CASE reps = <<>>
  <2>1. reps' = <<c>>
    BY <1>2, <1>6, Append0
  <2>2. One(reps', {"cancel"})
    BY <1>3, <2>1 DEF One
  <2> QED
    BY <1>2, <1>4, <1>5, <2>2 DEF ServerInv, Waiting, Crossing, One
<1>7. CASE One(reps, {"send", "receive"})
  <2>1. reps' = <<reps[1], c>>
    BY <1>2, <1>7, Append1 DEF One
  <2>2. Two(reps')
    BY <1>3, <1>7, <2>1 DEF One, Two
  <2> QED
    BY <1>2, <1>4, <1>5, <2>2 DEF ServerInv, Waiting, Crossing, Two
<1> QED
  BY <1>2, <1>5, <1>6, <1>7 DEF Crossing

\* Nothing but the host and the card touches what is under way.
LEMMA UntouchedInv ==
  ASSUME ServerInv, UNCHANGED <<program, host, cancelling, reqs, reps>> PROVE ServerInv'
BY DEF ServerInv, IsEnd, Waiting, Gives, Takes, Asking, Crossing, Quiescent, One, Two, Kind

\* Every step keeps the invariant.
LEMMA ServerInvStep == ASSUME ServerInv, [Next]_vars PROVE ServerInv'
<1>1. CASE program # "server"
  <2>1. program' = program
    BY DEF Next, HostSteps, OtherSteps, SendRaw, Detect, WaitEvent, TakeReply, Timeout, Cancelled,
      CancelUnanswered, PofoTransmits, PofoGivesUp, PortC, PassByte, LoseByte, CancelByte, CardUnchanged, vars
  <2> QED
    BY <1>1, <2>1 DEF ServerInv
<1>2. CASE program = "server"
  <2>1. CASE SendRaw \/ Detect
    BY <1>2, <2>1 DEF SendRaw, Detect
  <2>2. CASE WaitEvent
    <3>1. ~cancelling /\ Quiescent
      BY <1>2, <2>2 DEF WaitEvent, ServerInv, Waiting, Gives, Takes
    <3>2. IsEnd(Receiver(NoBlock)) /\ InBlock(Receiver(NoBlock))
      BY DEF Receiver, IsEnd, InBlock, Gives, Takes
    <3> QED
      BY <2>2, <3>1, <3>2, AsksForInv DEF WaitEvent, Quiescent
  <2>3. CASE TakeReply
    BY <1>2, <2>3, TakeReplyInv
  <2>4. CASE Timeout
    BY <1>2, <2>4, TimeoutInv
  <2>5. CASE Cancelled
    BY <1>2, <2>5, CancelledInv
  <2>6. CASE CancelUnanswered
    <3>1. host' = Off /\ reqs' = <<>> /\ reps' = <<>> /\ ~cancelling'
      BY <2>6 DEF CancelUnanswered, Ends
    <3>2. IsEnd(Off) /\ ~Gives(Off) /\ ~Takes(Off)
      BY DEF Off, Idle, IsEnd, Gives, Takes
    <3> QED
      BY <3>1, <3>2 DEF ServerInv, Waiting, Quiescent
  <2>7. CASE PofoTransmits \/ PofoGivesUp \/ PortC \/ UNCHANGED vars
    BY <2>7, UntouchedInv DEF PofoTransmits, PofoGivesUp, PortC, vars
  <2>8. CASE PassByte
    <3>1. /\ reqs # <<>> /\ Head(reqs).kind \in {"send", "receive"}
          /\ \E ok, v : Answer(Head(reqs).kind, ok, v)
          /\ UNCHANGED <<program, host, cancelling>>
      BY <2>8 DEF PassByte, CardUnchanged
    <3> QED
      BY <1>2, <3>1, AnsweredInv
  <2>9. CASE LoseByte
    <3>1. /\ reqs # <<>> /\ \E ok, v : Answer(Head(reqs).kind, ok, v)
          /\ UNCHANGED <<program, host, cancelling>> /\ Head(reqs).kind # "cancel"
      BY <2>9 DEF LoseByte, CardUnchanged
    <3>2. Head(reqs).kind \in {"send", "receive"}
      BY <1>2, <3>1, Ends1, Ends2 DEF ServerInv, Asking, Quiescent, Crossing, One, Two, Kind
    <3> QED
      BY <1>2, <3>1, <3>2, AnsweredInv
  <2>10. CASE CancelByte
    BY <1>2, <2>10, CancelByteInv
  <2> QED
    BY <2>1, <2>2, <2>3, <2>4, <2>5, <2>6, <2>7, <2>8, <2>9, <2>10
    DEF Next, HostSteps, OtherSteps
<1> QED
  BY <1>1, <1>2

\* The invariant holds in every reachable state.
THEOREM ServerInvariant == Spec => []ServerInv
<1>1. ServerInv /\ [Next]_vars => ServerInv'
  BY ServerInvStep
<1> QED
  BY <1>1, ServerInvInit, PTL DEF Spec

\* cancel() leaves no stale reply behind: when the server waits for a reply the
\* only one under way is its own, whatever the limits, the payloads and the bytes
\* (smartcable_server.py:90-95).
THEOREM RepliesAreOwnHolds == Spec => []RepliesAreOwn
<1>1. ServerInv => RepliesAreOwn
  <2> SUFFICES ASSUME ServerInv, program = "server", ~cancelling
               PROVE  Outstanding = IF Waiting THEN 1 ELSE 0
    BY DEF RepliesAreOwn
  <2>1. Len(<<>>) = 0 /\ \A x : Len(<<x>>) = 1
    OBVIOUS
  <2>2. CASE Waiting
    <3>1. (Len(reqs) = 1 /\ Len(reps) = 0) \/ (Len(reqs) = 0 /\ Len(reps) = 1)
      BY <2>1, <2>2 DEF ServerInv, Asking, One
    <3>2. Outstanding = 1
      BY <3>1 DEF Outstanding
    <3> QED
      BY <2>2, <3>2
  <2>3. CASE ~Waiting
    BY <2>1, <2>3 DEF ServerInv, Quiescent, Outstanding
  <2> QED
    BY <2>2, <2>3
<1> QED
  BY <1>1, ServerInvariant, PTL

-----------------------------------------------------------------------------
(* Lists, given element by element *)

IsList(s, n) == n \in Nat /\ s = [k \in 1..n |-> s[k]]

LEMMA ListIs ==
  ASSUME NEW s, NEW n, IsList(s, n)
  PROVE  Len(s) = n /\ s \in Seq({s[k] : k \in 1..n}) /\ DOMAIN s = 1..n
<1> DEFINE S == {s[k] : k \in 1..n}
<1>1. n \in Nat /\ s \in [1..n -> S]
  BY DEF IsList
<1> HIDE DEF S
<1>2. s \in Seq(S) /\ DOMAIN s = 1..n
  BY <1>1
<1>3. Len(s) \in Nat /\ DOMAIN s = 1..Len(s)
  BY <1>2, LenProperties
<1>4. Len(s) = n
  BY <1>1, <1>2, <1>3
<1> QED
  BY <1>2, <1>4 DEF S

LEMMA SeqIsList == ASSUME NEW S, NEW s \in Seq(S) PROVE IsList(s, Len(s))
BY LenProperties DEF IsList

\* The list t is s and one more.
LEMMA AppendIs ==
  ASSUME NEW s, NEW t, NEW n, IsList(s, n), IsList(t, n + 1), \A k \in 1..n : t[k] = s[k]
  PROVE  Append(s, t[n + 1]) = t
<1> DEFINE S == {s[k] : k \in 1..n} \cup {t[n + 1]}
           a == Append(s, t[n + 1])
<1>1. n \in Nat /\ Len(s) = n /\ s \in Seq({s[k] : k \in 1..n})
  BY ListIs DEF IsList
<1>2. s \in Seq(S)
  BY <1>1, SeqMonotonic
<1>3. /\ a \in Seq(S) /\ Len(a) = n + 1
      /\ \A k \in 1..n : a[k] = s[k]
      /\ a[n + 1] = t[n + 1]
  BY <1>1, <1>2, AppendProperties
<1>4. a = [k \in 1..(n + 1) |-> a[k]]
  BY <1>1, <1>3, LenProperties
<1>5. \A k \in 1..(n + 1) : a[k] = t[k]
  BY <1>1, <1>3
<1> HIDE DEF a
<1>6. t = [k \in 1..(n + 1) |-> t[k]]
  BY DEF IsList
<1>7. a = t
  BY <1>4, <1>5, <1>6, Zenon
<1> QED
  BY <1>7 DEF a

\* Any one more makes a list again.
Grown(a, s, n, x) == IsList(a, n + 1) /\ a[n + 1] = x /\ \A k \in 1..n : a[k] = s[k]
LEMMA AppendList ==
  ASSUME NEW s, NEW n, IsList(s, n), NEW x PROVE Grown(Append(s, x), s, n, x)
<1> DEFINE S == {s[k] : k \in 1..n} \cup {x}
           a == Append(s, x)
<1>1. n \in Nat /\ Len(s) = n /\ s \in Seq({s[k] : k \in 1..n})
  BY ListIs DEF IsList
<1>2. s \in Seq(S)
  BY <1>1, SeqMonotonic
<1>3. a \in Seq(S) /\ Len(a) = n + 1 /\ (\A k \in 1..n : a[k] = s[k]) /\ a[n + 1] = x
  BY <1>1, <1>2, AppendProperties
<1> HIDE DEF a
<1>4. Grown(a, s, n, x)
  BY <1>3, SeqIsList DEF Grown
<1> QED
  BY <1>4 DEF a

\* A stretch of a list.
LEMMA StretchIs ==
  ASSUME NEW s, NEW i \in Nat, NEW n \in Nat
  PROVE  /\ IsList(SubSeq(s, i + 1, i + n), n)
         /\ \A k \in 1..n : SubSeq(s, i + 1, i + n)[k] = s[i + k]
<1> DEFINE S == {s[k] : k \in (i + 1)..(i + n)}
           t == SubSeq(s, i + 1, i + n)
<1>1. \A k \in (i + 1)..(i + n) : s[k] \in S
  OBVIOUS
<1>2. i + 1 \in Int /\ i + n \in Int
  OBVIOUS
<1> HIDE DEF S
<1>3. /\ t \in Seq(S)
      /\ Len(t) = IF i + 1 <= i + n THEN ((i + n) - (i + 1)) + 1 ELSE 0
      /\ \A k \in 1..(((i + n) - (i + 1)) + 1) : t[k] = s[((i + 1) + k) - 1]
  BY <1>1, <1>2, SubSeqProperties
<1> HIDE DEF t
<1>4. Len(t) = n
  BY <1>3
<1>5. \A k \in 1..n : t[k] = s[i + k]
  BY <1>3
<1>6. IsList(t, n)
  BY <1>3, <1>4, SeqIsList
<1> QED
  BY <1>5, <1>6 DEF t

LEMMA SameLists ==
  ASSUME NEW s, NEW t, NEW n, IsList(s, n), IsList(t, n), \A k \in 1..n : s[k] = t[k]
  PROVE  s = t
BY Zenon DEF IsList

-----------------------------------------------------------------------------
(* Frames *)

LEMMA Division ==
  ASSUME NEW n \in Nat, NEW d \in Nat \ {0}
  PROVE  /\ n \div d \in Nat /\ n % d \in 0..d - 1
         /\ n = d * (n \div d) + (n % d)
OBVIOUS

Symbols(b) == Byte \cup {A5, Checksum(b), Len(b) % W, Len(b) \div W}

LEMMA FrameIs ==
  ASSUME NEW b \in Payloads
  PROVE  /\ Len(b) \in Nat /\ IsList(b, Len(b)) /\ b # NoBlock
         /\ IsList(Frame(b), Len(b) + 4) /\ Len(Frame(b)) = Len(b) + 4
         /\ Frame(b)[1] = A5 /\ Frame(b)[2] = Len(b) % W /\ Frame(b)[3] = Len(b) \div W
         /\ \A k \in 1..Len(b) : Frame(b)[k + 3] = b[k]
         /\ Frame(b)[Len(b) + 4] = Checksum(b)
<1> DEFINE S == Symbols(b)
           n == Len(b)
           h == Head2(b)
           c == Checksum(b)
<1>1. b \in Seq(Byte) /\ NoBlock \notin Seq(Byte)
  BY CableAssumption
<1>2. b \in Seq(S)
  BY <1>1, SeqMonotonic DEF Symbols
<1>3. n \in Nat
  BY <1>2, LenProperties
<1>4. h \in Seq(S) /\ Len(h) = 2 /\ h[1] = n % W /\ h[2] = n \div W
  BY DEF Head2, Symbols
<1>5. <<A5>> \in Seq(S) /\ Len(<<A5>>) = 1 /\ <<A5>>[1] = A5 /\ <<c>> \in Seq(S) /\ Len(<<c>>) = 1 /\ <<c>>[1] = c
  BY DEF Symbols
<1> DEFINE s1 == <<A5>> \o h
           s2 == s1 \o b
           s3 == s2 \o <<c>>
<1>6. s3 = Frame(b)
  BY DEF Frame
<1> HIDE DEF S, n, h, c
<1>7. s1 \in Seq(S) /\ Len(s1) = 3 /\ s1[1] = A5 /\ s1[2] = h[1] /\ s1[3] = h[2]
  <2>1. s1 \in Seq(S) /\ Len(s1) = 1 + 2 /\ \A i \in 1..(1 + 2) : s1[i] = IF i <= 1 THEN <<A5>>[i] ELSE h[i - 1]
    <3> HIDE DEF s1
    <3>1. /\ <<A5>> \o h \in Seq(S) /\ Len(<<A5>> \o h) = Len(<<A5>>) + Len(h)
          /\ \A i \in 1..(Len(<<A5>>) + Len(h)) : (<<A5>> \o h)[i] = IF i <= Len(<<A5>>) THEN <<A5>>[i] ELSE h[i - Len(<<A5>>)]
      BY <1>4, <1>5, ConcatProperties
    <3> QED
      BY <3>1, <1>4, <1>5, Zenon DEF s1
  <2> HIDE DEF s1
  <2>2. 1 \in 1..3 /\ 2 \in 1..3 /\ 3 \in 1..3 /\ 2 - 1 = 1 /\ 3 - 1 = 2
    OBVIOUS
  <2> QED
    BY <2>1, <2>2, <1>5
<1> HIDE DEF s1
<1>8. s2 \in Seq(S) /\ Len(s2) = n + 3 /\ (\A k \in 1..3 : s2[k] = s1[k]) /\ \A k \in 1..n : s2[k + 3] = b[k]
  <2>1. s2 \in Seq(S) /\ Len(s2) = 3 + n /\ \A i \in 1..(3 + n) : s2[i] = IF i <= 3 THEN s1[i] ELSE b[i - 3]
    <3>1. Len(b) = n
      BY DEF n
    <3>2. /\ s1 \o b \in Seq(S) /\ Len(s1 \o b) = Len(s1) + Len(b)
          /\ \A i \in 1..(Len(s1) + Len(b)) : (s1 \o b)[i] = IF i <= Len(s1) THEN s1[i] ELSE b[i - Len(s1)]
      BY <1>2, <1>7, ConcatProperties
    <3> QED
      BY <3>1, <3>2, <1>7, Zenon
  <2> HIDE DEF s2
  <2>2. \A k \in 1..n : s2[k + 3] = b[(k + 3) - 3]
    BY <2>1, <1>3
  <2>3. \A k \in 1..n : (k + 3) - 3 = k
    BY <1>3
  <2> QED
    BY <2>1, <2>2, <2>3, <1>3
<1> HIDE DEF s2
<1>9. s3 \in Seq(S) /\ Len(s3) = n + 4 /\ (\A k \in 1..(n + 3) : s3[k] = s2[k]) /\ s3[n + 4] = c
  <2>1. s3 \in Seq(S) /\ Len(s3) = (n + 3) + 1
        /\ \A i \in 1..((n + 3) + 1) : s3[i] = IF i <= n + 3 THEN s2[i] ELSE <<c>>[i - (n + 3)]
    BY <1>5, <1>8, ConcatProperties
  <2> HIDE DEF s3
  <2>2. s3[n + 4] = <<c>>[(n + 4) - (n + 3)]
    BY <2>1, <1>3
  <2>3. (n + 4) - (n + 3) = 1
    BY <1>3
  <2> QED
    BY <2>1, <2>2, <2>3, <1>3, <1>5
<1> HIDE DEF s3
<1>10. s3[1] = A5 /\ s3[2] = h[1] /\ s3[3] = h[2]
  BY <1>3, <1>7, <1>8, <1>9
<1>11. \A k \in 1..n : s3[k + 3] = b[k]
  BY <1>3, <1>8, <1>9
<1>12. IsList(s3, n + 4)
  BY <1>9, SeqIsList
<1>13. IsList(b, n) /\ b # NoBlock
  BY <1>1, SeqIsList DEF n
<1> QED
  BY <1>3, <1>4, <1>6, <1>9, <1>10, <1>11, <1>12, <1>13 DEF n, c

\* The length that a whole frame says it has.
LEMMA LengthSaid ==
  ASSUME NEW b \in Payloads
  PROVE  (Len(b) % W) + ((Len(b) \div W) * W) = Len(b) /\ Len(b) % W \in Nat /\ Len(b) \div W \in Nat
<1>1. Len(b) \in Nat /\ W \in Nat \ {0}
  BY FrameIs, CableAssumption
<1> DEFINE q == Len(b) \div W
           r == Len(b) % W
<1>2. q \in Nat /\ r \in 0..(W - 1) /\ Len(b) = W * q + r
  BY <1>1, Division
<1> HIDE DEF q, r
<1>3. W * q = q * W
  BY <1>1, <1>2
<1>4. q * W \in Nat
  BY <1>1, <1>2
<1>5. r + (q * W) = Len(b) /\ r \in Nat
  BY <1>1, <1>2, <1>3, <1>4
<1> QED
  BY <1>2, <1>5 DEF q, r

RequestBlocks == Requests \ {<<>>}

\* n bytes behind the i-th of a frame.
Cut(b, i, n) == [k \in 1..n |-> Frame(b)[i + k]]
\* n bytes behind the 0xA5 of which the first m are of the frame.
Spoilt(b, m, n) == [k \in 1..n |-> IF k <= m THEN Frame(b)[k + 1] ELSE Z]
Noise(g) == \E n \in 0..MaxNoise : g \in [1..n -> Mixes \cup {Z}]

LEMMA BlocksAre ==
  /\ RequestBlocks \subseteq Payloads /\ Requests \subseteq Payloads /\ Responses \subseteq Payloads
BY DEF RequestBlocks, Payloads

LEMMA CutIs ==
  ASSUME NEW b, NEW i \in Nat, NEW n \in Nat
  PROVE  IsList(Cut(b, i, n), n) /\ Cut(b, i, n) = SubSeq(Frame(b), i + 1, i + n)
<1> DEFINE c == Cut(b, i, n)
           t == SubSeq(Frame(b), i + 1, i + n)
<1>1. IsList(c, n) /\ \A k \in 1..n : c[k] = Frame(b)[i + k]
  BY DEF Cut, IsList
<1>2. IsList(t, n) /\ \A k \in 1..n : t[k] = Frame(b)[i + k]
  BY StretchIs
<1> HIDE DEF c, t
<1>3. c = t
  BY <1>1, <1>2, SameLists
<1> QED
  BY <1>1, <1>3 DEF c, t

LEMMA SpoiltIs ==
  ASSUME NEW b, NEW m, NEW n \in Nat PROVE IsList(Spoilt(b, m, n), n)
BY DEF Spoilt, IsList

\* What the next byte makes of it.
LEMMA CutGrows ==
  ASSUME NEW b, NEW i \in Nat, NEW n \in Nat
  PROVE  Append(Cut(b, i, n), Frame(b)[(i + n) + 1]) = Cut(b, i, n + 1)
<1> DEFINE s == Cut(b, i, n)
           t == Cut(b, i, n + 1)
<1>1. IsList(s, n) /\ IsList(t, n + 1)
  <2>1. n + 1 \in Nat
    OBVIOUS
  <2>2. IsList(Cut(b, i, n), n)
    BY CutIs
  <2>3. IsList(Cut(b, i, n + 1), n + 1)
    BY <2>1, CutIs
  <2> QED
    BY <2>2, <2>3
<1>2. \A k \in 1..n : t[k] = s[k]
  BY DEF Cut
<1>3. t[n + 1] = Frame(b)[(i + n) + 1]
  BY DEF Cut
<1> HIDE DEF s, t
<1>4. Append(s, t[n + 1]) = t
  BY <1>1, <1>2, AppendIs
<1> QED
  BY <1>3, <1>4, Zenon DEF s, t

LEMMA SpoiltGrows ==
  ASSUME NEW b, NEW m \in Nat, NEW n \in Nat, m <= n
  PROVE  Append(Spoilt(b, m, n), Z) = Spoilt(b, m, n + 1)
<1> DEFINE s == Spoilt(b, m, n)
           t == Spoilt(b, m, n + 1)
<1>1. IsList(s, n) /\ IsList(t, n + 1)
  BY SpoiltIs
<1>2. \A k \in 1..n : t[k] = s[k]
  BY DEF Spoilt
<1>3. t[n + 1] = Z
  BY DEF Spoilt
<1> HIDE DEF s, t
<1>4. Append(s, t[n + 1]) = t
  BY <1>1, <1>2, AppendIs
<1> QED
  BY <1>3, <1>4, Zenon DEF s, t

LEMMA CutIsSpoilt == ASSUME NEW b, NEW n \in Nat PROVE Cut(b, 1, n) = Spoilt(b, n, n)
<1> DEFINE s == Cut(b, 1, n)
           t == Spoilt(b, n, n)
<1>1. IsList(s, n) /\ IsList(t, n)
  BY CutIs, SpoiltIs
<1>2. \A k \in 1..n : s[k] = t[k]
  BY DEF Cut, Spoilt
<1> HIDE DEF s, t
<1>3. s = t
  BY <1>1, <1>2, SameLists
<1> QED
  BY <1>3 DEF s, t

-----------------------------------------------------------------------------
(* What _receive_block makes of it *)

Short(g) == Len(g) = 2 /\ NoByte \in ToSet(g)

LEMMA CollectIs ==
  ASSUME NEW e, NEW g, NEW max, IsEnd(e), e.stage = "body"
  PROVE  LET r == Collect(e, g, max) IN
         \/ r.stage \in {"failed", "toolong"}
         \/ Whole(g) /\ ChecksumFits(g) /\ r = [e EXCEPT !.got = g, !.stage = "thanks"]
         \/ ~Whole(g) /\ ~TooLong(g, max) /\ ~Short(g) /\ r = [e EXCEPT !.got = g]
<1> DEFINE T == TooLong(g, max)
           F == Short(g)
           D == Whole(g)
           C == ChecksumFits(g)
<1>1. (T => ~F /\ ~D) /\ (F => ~D)
  <2>1. T => ~F
    BY DEF TooLong, Short
  <2>2. Len(g) = 2 => ~D
    BY DEF Whole
  <2>3. (T => Len(g) = 2) /\ (F => Len(g) = 2)
    BY DEF TooLong, Short
  <2> QED
    BY <2>1, <2>2, <2>3
<1>2. Collect(e, g, max) = CASE T -> At(e, "toolong")
                             [] F -> At(e, "failed")
                             [] D -> [e EXCEPT !.got = g, !.stage = IF C THEN "thanks" ELSE "failed"]
                             [] OTHER -> [e EXCEPT !.got = g]
  BY DEF Collect, Short
<1> HIDE DEF T, F, D, C
<1>3. CASE T
  BY <1>1, <1>2, <1>3 DEF IsEnd, At
<1>4. CASE F
  BY <1>1, <1>2, <1>4 DEF IsEnd, At
<1>5. CASE D /\ C
  <2>1. Collect(e, g, max) = [e EXCEPT !.got = g, !.stage = "thanks"]
    BY <1>1, <1>2, <1>5
  <2> QED
    BY <1>1, <1>5, <2>1 DEF T, D, C
<1>6. CASE D /\ ~C
  <2>1. Collect(e, g, max) = [e EXCEPT !.got = g, !.stage = "failed"]
    BY <1>1, <1>2, <1>6
  <2> QED
    BY <2>1 DEF IsEnd
<1>7. CASE ~T /\ ~F /\ ~D
  <2>1. Collect(e, g, max) = [e EXCEPT !.got = g]
    BY <1>2, <1>7
  <2> QED
    BY <1>7, <2>1 DEF T, F, D
<1> QED
  BY <1>3, <1>4, <1>5, <1>6, <1>7

\* Nobody reads as much of an idle line as the length it seems to announce.
LEMMA NoiseIsNoBlock ==
  ASSUME Distinguishable, NEW n \in 0..MaxNoise, NEW g \in [1..n -> Mixes \cup {Z}]
  PROVE  IsList(g, n) /\ ~Whole(g)
<1>0. Mixes \cup {Z} \subseteq Byte /\ W \in Nat \ {0} /\ MaxNoise \in Nat /\ n \in Nat
  BY CableAssumption
<1>1. IsList(g, n)
  BY <1>0 DEF IsList
<1>2. Len(g) = n
  BY <1>1, ListIs
<1>3. ASSUME Whole(g) PROVE FALSE
  <2>1. n > 2 /\ n = LengthIn(g) + 3
    BY <1>2, <1>3 DEF Whole
  <2>2. g[1] \in Mixes \cup {Z} /\ g[2] \in Mixes \cup {Z}
    BY <1>0, <2>1
  <2>3. g[1] \in Nat /\ g[2] \in Nat
    BY <1>0, <2>2 DEF Byte
  <2> DEFINE h == g[2] * W
  <2>4. h > MaxNoise
    BY <2>2 DEF Distinguishable
  <2>5. h \in Nat
    BY <1>0, <2>3
  <2>6. LengthIn(g) = g[1] + h
    BY DEF LengthIn
  <2> HIDE DEF h
  <2> QED
    BY <1>0, <2>1, <2>3, <2>4, <2>5, <2>6
<1> QED
  BY <1>1, <1>3

\* What fits of a request is the request.
LEMMA CutFits ==
  ASSUME Distinguishable, NEW b \in RequestBlocks, NEW i \in 1..(Len(b) + 4),
         NEW n \in 0..((Len(b) + 4) - i), Frame(b)[i] = A5,
         Whole(Cut(b, i, n)), ChecksumFits(Cut(b, i, n))
  PROVE  /\ i = 1 /\ n = Len(b) + 3
         /\ BodyPayload(Cut(b, i, n)) = b /\ Last(Cut(b, i, n)) = Checksum(b)
<1>1. b \in Payloads /\ Len(b) \in Nat /\ Len(Frame(b)) = Len(b) + 4
  BY BlocksAre, FrameIs
<1>2. IsList(Cut(b, i, n), n) /\ Cut(b, i, n) = SubSeq(Frame(b), i + 1, i + n)
  <2>1. i \in Nat /\ n \in Nat
    BY <1>1
  <2> QED
    BY <2>1, CutIs, Zenon
<1>3. i = 1
  <2> SUFFICES ASSUME i >= 2 PROVE FALSE
    BY <1>1
  <2>1. i \in 2..Len(Frame(b)) /\ i + n \in 1..Len(Frame(b))
    BY <1>1
  <2>2. Whole(SubSeq(Frame(b), i + 1, i + n)) /\ ChecksumFits(SubSeq(Frame(b), i + 1, i + n))
    BY <1>2
  <2> QED
    BY <2>1, <2>2 DEF Distinguishable, PlainRequest, RequestBlocks
<1>4. Len(Cut(b, i, n)) = n
  BY <1>2, ListIs
<1>5. n > 2 /\ n = LengthIn(Cut(b, i, n)) + 3
  BY <1>4 DEF Whole
<1>6. Cut(b, i, n)[1] = Frame(b)[2] /\ Cut(b, i, n)[2] = Frame(b)[3]
  BY <1>1, <1>3, <1>5 DEF Cut
<1>7. LengthIn(Cut(b, i, n)) = Len(b)
  BY <1>1, <1>6, FrameIs, LengthSaid DEF LengthIn
<1>8. n = Len(b) + 3
  BY <1>5, <1>7
<1>9. \A k \in 1..Len(b) : Cut(b, i, n)[2 + k] = b[k]
  <2>1. \A k \in 1..Len(b) : Cut(b, i, n)[2 + k] = Frame(b)[k + 3]
    BY <1>1, <1>3, <1>8 DEF Cut
  <2> QED
    BY <1>1, <2>1, FrameIs
<1>10. BodyPayload(Cut(b, i, n)) = b
  <2> DEFINE g == Cut(b, i, n)
             t == SubSeq(g, 2 + 1, 2 + Len(b))
  <2>1. IsList(t, Len(b)) /\ \A k \in 1..Len(b) : t[k] = g[2 + k]
    <3>1. 2 \in Nat
      OBVIOUS
    <3> QED
      BY <3>1, <1>1, StretchIs, Zenon
  <2>2. IsList(b, Len(b))
    BY <1>1, FrameIs
  <2>3. t = b
    <3> HIDE DEF t
    <3> QED
      BY <1>9, <2>1, <2>2, SameLists
  <2>4. 2 + 1 = 3 /\ 2 + Len(b) = Len(g) - 1
    BY <1>1, <1>4, <1>8
  <2>5. BodyPayload(g) = SubSeq(g, 2 + 1, 2 + Len(b))
    BY <2>4, Zenon DEF BodyPayload
  <2> QED
    BY <2>3, <2>5
<1>11. Last(Cut(b, i, n)) = Checksum(b)
  <2>1. Last(Cut(b, i, n)) = Cut(b, i, n)[n]
    BY <1>4 DEF Last
  <2>2. Cut(b, i, n)[n] = Frame(b)[Len(b) + 4]
    BY <1>1, <1>3, <1>8 DEF Cut
  <2> QED
    BY <1>1, <2>1, <2>2, FrameIs
<1> QED
  BY <1>3, <1>8, <1>10, <1>11

\* What fits of a response, whatever it goes on with, is the response.
LEMMA SpoiltCollects ==
  ASSUME Distinguishable, NEW b \in Responses, NEW n \in 1..(Len(b) + 3), NEW m \in 0..n,
         n >= 3 => m >= 2, NEW e, IsEnd(e), e.stage = "body"
  PROVE  LET g == Spoilt(b, m, n) IN
         \/ Collect(e, g, RomMaxLen).stage \in {"failed", "toolong"}
         \/ /\ Collect(e, g, RomMaxLen) = [e EXCEPT !.got = g]
            /\ n <= Len(b) + 2 /\ (n >= 2 => m >= 2)
         \/ /\ Collect(e, g, RomMaxLen) = [e EXCEPT !.got = g, !.stage = "thanks"]
            /\ BodyPayload(g) = b /\ n = Len(b) + 3
<1> DEFINE g == Spoilt(b, m, n)
<1>1. b \in Payloads /\ Len(b) \in Nat /\ Len(Frame(b)) = Len(b) + 4
  BY BlocksAre, FrameIs
<1>2. IsList(g, n)
  BY <1>1, SpoiltIs
<1>3. Len(g) = n /\ DOMAIN g = 1..n
  BY <1>2, ListIs
<1>4. \A k \in 1..n : g[k] = IF k <= m THEN Frame(b)[k + 1] ELSE Z
  BY DEF Spoilt
<1>5. W \in Nat \ {0} /\ RomMaxLen \in Nat /\ Z \in Nat /\ Z * W > RomMaxLen
  BY CableAssumption DEF Distinguishable, Byte
<1>6. Len(b) % W \in Nat /\ Len(b) \div W \in Nat /\ (Len(b) % W) + ((Len(b) \div W) * W) = Len(b)
  BY <1>1, LengthSaid
<1>7. Frame(b)[2] = Len(b) % W /\ Frame(b)[3] = Len(b) \div W
  BY <1>1, FrameIs
<1> HIDE DEF g
<1>8. ASSUME n = 2, m < 2 PROVE TooLong(g, RomMaxLen) \/ Short(g)
  <2>1. g[2] = Z
    BY <1>1, <1>4, <1>8
  <2>2. g[1] \in Nat
    BY <1>1, <1>4, <1>5, <1>6, <1>7, <1>8
  <2>3. Z * W \in Nat
    BY <1>5
  <2>4. LengthIn(g) = g[1] + (Z * W)
    BY <2>1 DEF LengthIn
  <2>5. LengthIn(g) > RomMaxLen
    BY <1>5, <2>2, <2>3, <2>4
  <2> QED
    BY <1>3, <1>8, <2>5 DEF TooLong, Short
<1>9. ASSUME n >= 2, m >= 2 PROVE LengthIn(g) = Len(b)
  <2>1. g[1] = Frame(b)[2] /\ g[2] = Frame(b)[3]
    BY <1>1, <1>4, <1>9
  <2> QED
    BY <1>6, <1>7, <2>1 DEF LengthIn
<1>10. CASE Collect(e, g, RomMaxLen).stage \in {"failed", "toolong"}
  BY <1>10 DEF g
<1>11. ASSUME Whole(g), ChecksumFits(g),
              Collect(e, g, RomMaxLen) = [e EXCEPT !.got = g, !.stage = "thanks"]
       PROVE  BodyPayload(g) = b /\ n = Len(b) + 3
  <2>1. n >= 3
    BY <1>1, <1>3, <1>11 DEF Whole
  <2>2. n = Len(b) + 3 /\ m >= 2
    BY <1>1, <1>3, <1>9, <1>11, <2>1 DEF Whole
  <2>3. g = Padded(b, m)
    <3>1. Len(Frame(b)) - 1 = n
      BY <1>1, <2>2
    <3> QED
      BY <3>1, Zenon DEF g, Spoilt, Padded
  <2>4. g = Tail(Frame(b))
    <3>1. m \in 2..(Len(Frame(b)) - 1)
      BY <1>1, <2>2
    <3> QED
      BY <1>11, <2>3, <3>1 DEF Distinguishable, PlainResponse
  <2>5. \A k \in 1..Len(b) : g[2 + k] = b[k]
    <3>1. IsList(Frame(b), Len(b) + 4)
      BY <1>1, FrameIs
    <3>2. Frame(b) \in Seq({Frame(b)[k] : k \in 1..(Len(b) + 4)})
      BY <3>1, ListIs
    <3>3. Frame(b) # <<>>
      <4>1. Len(Frame(b)) # 0 /\ Len(<<>>) = 0
        BY <1>1
      <4> QED
        BY <4>1
    <3>4. /\ Len(Tail(Frame(b))) = Len(Frame(b)) - 1
          /\ \A k \in 1..Len(Tail(Frame(b))) : Tail(Frame(b))[k] = Frame(b)[k + 1]
      BY <3>2, <3>3, HeadTailProperties
    <3>5. \A k \in 1..n : g[k] = Frame(b)[k + 1]
      BY <1>1, <2>2, <2>4, <3>4
    <3>6. \A k \in 1..Len(b) : g[2 + k] = Frame(b)[k + 3]
      BY <1>1, <2>2, <3>5
    <3> QED
      BY <1>1, <3>6, FrameIs
  <2> DEFINE t == SubSeq(g, 2 + 1, 2 + Len(b))
  <2>6. IsList(t, Len(b)) /\ \A k \in 1..Len(b) : t[k] = g[2 + k]
    <3>1. 2 \in Nat
      OBVIOUS
    <3> QED
      BY <3>1, <1>1, StretchIs, Zenon
  <2>7. IsList(b, Len(b))
    BY <1>1, FrameIs
  <2>8. t = b
    <3> HIDE DEF t
    <3> QED
      BY <2>5, <2>6, <2>7, SameLists
  <2>9. 2 + 1 = 3 /\ 2 + Len(b) = Len(g) - 1
    BY <1>1, <1>3, <2>2
  <2>10. BodyPayload(g) = SubSeq(g, 2 + 1, 2 + Len(b))
    BY <2>9, Zenon DEF BodyPayload
  <2> QED
    BY <2>2, <2>8, <2>10
<1>12. ASSUME ~Whole(g), ~TooLong(g, RomMaxLen), ~Short(g)
       PROVE  n <= Len(b) + 2 /\ (n >= 2 => m >= 2)
  <2>1. n >= 2 => m >= 2
    BY <1>1, <1>8, <1>12
  <2>2. ~(n > 2 /\ n = Len(b) + 3)
    BY <1>1, <1>3, <1>9, <1>12, <2>1 DEF Whole
  <2> QED
    BY <1>1, <2>1, <2>2
<1> QED
  BY <1>10, <1>11, <1>12, CollectIs DEF g

-----------------------------------------------------------------------------
(* The invariant *)

IsSender(e) == e.stage \in {"sync", "frame", "ack"}
IsHistory(h) ==
  /\ h = [offer |-> h.offer, trying |-> h.trying, taken |-> h.taken,
          sure |-> h.sure, doubtful |-> h.doubtful]
  /\ h.trying \in BOOLEAN /\ h.sure \in BOOLEAN /\ (h.trying => ~h.sure)

\* A sender is at the block its history has on offer, at some byte of the frame.
SenderInv(e, h, blocks) ==
  /\ IsEnd(e) /\ IsHistory(h) /\ (h.trying <=> IsSender(e))
  /\ IsSender(e) => e.out \in blocks /\ h.offer = e.out
  /\ e.stage = "frame" => e.k \in 1..(Len(e.out) + 4)

\* A beginning of the response, perhaps with the `Z` of later calls.
Hearing(got, b) ==
  /\ b \in Responses
  /\ \E n \in 0..(Len(b) + 2) : \E m \in 0..n : got = Spoilt(b, m, n) /\ (n >= 2 => m >= 2)

PofoInv(p, h, response) ==
  /\ SenderInv(p, h, RequestBlocks)
  /\ p.stage \in {"idle", "z", "a5", "body", "thanks", "sync", "frame", "ack"}
  /\ p.stage \in {"z", "a5"} => p.got = <<>>
  /\ p.stage = "body" => Hearing(p.got, response)

HostInv(e, h) ==
  /\ SenderInv(e, h, Responses)
  /\ e.stage \in {"off", "idle", "z", "a5", "body", "thanks", "sync", "frame", "ack"}
  /\ e.stage \in {"z", "a5"} => e.got = <<>>

\* The Portfolio has given up, and at most taken some `Z` for the start of its next block.
Away(p) == p.stage \in {"idle", "sync"}
Astray(p) == Away(p) \/ (p.stage = "frame" /\ p.k = 1)

\* It has heard j bytes of the frame of b.
Heard(p, h, b, j) ==
  \/ j = 0 /\ p.stage = "a5"
  \/ j \in 1..(Len(b) + 3) /\ p.stage = "body" /\ p.got = Cut(b, 1, j - 1)
  \/ j = Len(b) + 4 /\ p.stage = "thanks" /\ h.taken = b

\* The i-th byte of the frame of b is what it gives next.
ComesNext(p, b, i) ==
  /\ p.out = b
  /\ \/ p.stage = "frame" /\ p.k = i
     \/ p.stage = "ack" /\ i = Len(b) + 5

\* What the host has read is of a frame, behind some 0xA5, or of an idle line.
Doubts(h) == IF h.trying THEN h.doubtful \cup {h.offer} ELSE h.doubtful
ReadsNoise(p, g) == Noise(g) /\ (Away(p) \/ p.stage \in {"z", "a5"})
ReadsCut(p, h, g, b, i, n) ==
  /\ b \in Doubts(h) /\ Frame(b)[i] = A5 /\ g = Cut(b, i, n)
  /\ ComesNext(p, b, (i + n) + 1) \/ Away(p)
Reads(p, h, g) ==
  \/ ReadsNoise(p, g)
  \/ \E b \in RequestBlocks : \E i \in 1..(Len(b) + 4) : \E n \in 0..((Len(b) + 4) - i) :
       ReadsCut(p, h, g, b, i, n)

\* The two ends, e the host and p the Portfolio, when the host's request is with
\* the card, and when it has been answered with v.
AskedInv(e, p, hp, hh) ==
  /\ e.stage = "body" => e.got = <<NoByte>> \/ Reads(p, hh, e.got)
  /\ e.stage = "thanks" =>
       Last(e.got) # Z /\ (Away(p) \/ (p.stage = "ack" /\ p.out = hh.taken))
  /\ e.stage = "sync" => Away(p) \/ p.stage = "z"
  /\ e.stage = "frame" => Astray(p) \/ Heard(p, hp, e.out, e.k - 1)
  /\ e.stage = "ack" => Astray(p) \/ Heard(p, hp, e.out, Len(e.out) + 4)
FineInv(v, e, p, hp, hh) ==
  /\ e.stage = "a5" /\ v = A5 => Reads(p, hh, <<>>)
  /\ e.stage = "body" => e.got = <<NoByte>> \/ Reads(p, hh, Append(e.got, v))
  /\ e.stage = "thanks" => Away(p) \/ p.stage = "z"
  /\ e.stage = "sync" /\ v = Z => Away(p) \/ p.stage = "a5"
  /\ e.stage = "frame" => Astray(p) \/ Heard(p, hp, e.out, e.k)
  /\ e.stage = "ack" /\ v = Checksum(e.out) => hp.taken = e.out

EndsInv == PofoInv(pofo, toHost, toPofo.offer) /\ HostInv(host, toPofo)
Asked == reqs # <<>> /\ Head(reqs).kind # "cancel"
Fine == ~cancelling /\ reps # <<>> /\ Head(reps).ok
CableInv ==
  /\ program = "server" /\ ServerInv /\ EndsInv
  /\ Asked => Head(reqs) = RequestOf(host) /\ AskedInv(host, pofo, toPofo, toHost)
  /\ Fine => FineInv(Head(reps).val, host, pofo, toPofo, toHost)

PofoKeeps == [ToPofo!Next]_ToPofo!vars
HostKeeps == [ToHost!Next]_ToHost!vars

-----------------------------------------------------------------------------
(* Histories *)

LEMMA HistoryOffered ==
  ASSUME NEW h, IsHistory(h), NEW b
  PROVE  Offered(h, b) = [offer |-> b, trying |-> TRUE, taken |-> NoBlock, sure |-> FALSE,
                          doubtful |-> IF h.trying THEN h.doubtful \cup {h.offer} ELSE h.doubtful]
<1> DEFINE D == Settled(h, FALSE).doubtful
<1>1. D = IF h.trying THEN h.doubtful \cup {h.offer} ELSE h.doubtful
  <2>1. CASE h.trying
    BY <2>1 DEF Settled, IsHistory
  <2>2. CASE ~h.trying
    BY <2>2 DEF Settled
  <2> QED
    BY <2>1, <2>2
<1>2. Offered(h, b) = [Quiet EXCEPT !.offer = b, !.trying = TRUE, !.doubtful = D]
  BY DEF Offered
<1> HIDE DEF D
<1>3. Offered(h, b) = [offer |-> b, trying |-> TRUE, taken |-> NoBlock, sure |-> FALSE, doubtful |-> D]
  BY <1>2 DEF Quiet
<1> QED
  BY <1>1, <1>3, Zenon

LEMMA HistorySettled ==
  ASSUME NEW h, IsHistory(h), NEW ok \in BOOLEAN
  PROVE  /\ ~h.trying => Settled(h, ok) = h
         /\ h.trying =>
              Settled(h, ok) = [offer |-> h.offer, trying |-> FALSE, taken |-> h.taken, sure |-> ok,
                                doubtful |-> IF ok THEN h.doubtful ELSE h.doubtful \cup {h.offer}]
<1>1. ~h.trying => Settled(h, ok) = h
  BY DEF Settled
<1>2. ASSUME h.trying, ok
      PROVE  Settled(h, ok) = [offer |-> h.offer, trying |-> FALSE, taken |-> h.taken,
                               sure |-> ok, doubtful |-> h.doubtful]
  BY <1>2 DEF Settled, IsHistory
<1>3. ASSUME h.trying, ~ok
      PROVE  Settled(h, ok) = [offer |-> h.offer, trying |-> FALSE, taken |-> h.taken,
                               sure |-> ok, doubtful |-> h.doubtful \cup {h.offer}]
  BY <1>3 DEF Settled, IsHistory
<1> QED
  BY <1>1, <1>2, <1>3

LEMMA HistoryTaken ==
  ASSUME NEW h, IsHistory(h), NEW b
  PROVE  [h EXCEPT !.taken = b] =
           [offer |-> h.offer, trying |-> h.trying, taken |-> b, sure |-> h.sure, doubtful |-> h.doubtful]
BY DEF IsHistory

\* A new block on offer.
LEMMA OffersToPofo ==
  ASSUME IsHistory(toPofo), NEW b \in Payloads, toPofo' = Offered(toPofo, b)
  PROVE  PofoKeeps /\ IsHistory(toPofo') /\ toPofo'.trying /\ toPofo'.offer = b
<1>1. toPofo' = [offer |-> b, trying |-> TRUE, taken |-> NoBlock, sure |-> FALSE,
                 doubtful |-> IF toPofo.trying THEN toPofo.doubtful \cup {toPofo.offer} ELSE toPofo.doubtful]
  BY HistoryOffered
<1>2. ToPofo!Offer(b)
  BY <1>1 DEF ToPofo!Offer, ToPofo!Doubts
<1> QED
  BY <1>1, <1>2 DEF PofoKeeps, ToPofo!Next, IsHistory

LEMMA OffersToHost ==
  ASSUME IsHistory(toHost), NEW b \in Payloads, toHost' = Offered(toHost, b)
  PROVE  /\ HostKeeps /\ IsHistory(toHost') /\ toHost'.trying /\ toHost'.offer = b
         /\ toHost'.doubtful = IF toHost.trying THEN toHost.doubtful \cup {toHost.offer} ELSE toHost.doubtful
<1>1. toHost' = [offer |-> b, trying |-> TRUE, taken |-> NoBlock, sure |-> FALSE,
                 doubtful |-> IF toHost.trying THEN toHost.doubtful \cup {toHost.offer} ELSE toHost.doubtful]
  BY HistoryOffered
<1>2. ToHost!Offer(b)
  BY <1>1 DEF ToHost!Offer, ToHost!Doubts
<1> QED
  BY <1>1, <1>2 DEF HostKeeps, ToHost!Next, IsHistory

\* The end of a block: given up, or believed when the other side has it.
LEMMA SettlesToPofo ==
  ASSUME IsHistory(toPofo), NEW ok \in BOOLEAN, ok /\ toPofo.trying => toPofo.taken = toPofo.offer,
         toPofo' = Settled(toPofo, ok)
  PROVE  /\ PofoKeeps /\ IsHistory(toPofo') /\ ~toPofo'.trying
         /\ toPofo'.offer = toPofo.offer /\ toPofo'.taken = toPofo.taken
<1>1. CASE ~toPofo.trying
  <2>1. toPofo' = toPofo
    BY <1>1, HistorySettled
  <2> QED
    BY <1>1, <2>1 DEF PofoKeeps, ToPofo!vars
<1>2. CASE toPofo.trying
  <2>1. toPofo' = [offer |-> toPofo.offer, trying |-> FALSE, taken |-> toPofo.taken, sure |-> ok,
                   doubtful |-> IF ok THEN toPofo.doubtful ELSE toPofo.doubtful \cup {toPofo.offer}]
    BY <1>2, HistorySettled
  <2>2. ASSUME ok PROVE ToPofo!Believe
    BY <1>2, <2>1, <2>2 DEF ToPofo!Believe
  <2>3. ASSUME ~ok PROVE ToPofo!GiveUp
    BY <1>2, <2>1, <2>3 DEF ToPofo!GiveUp, ToPofo!Doubts, IsHistory
  <2>4. PofoKeeps
    BY <2>2, <2>3 DEF PofoKeeps, ToPofo!Next
  <2> QED
    BY <2>1, <2>4 DEF IsHistory
<1> QED
  BY <1>1, <1>2 DEF IsHistory

LEMMA SettlesToHost ==
  ASSUME IsHistory(toHost), NEW ok \in BOOLEAN, ok /\ toHost.trying => toHost.taken = toHost.offer,
         toHost' = Settled(toHost, ok)
  PROVE  /\ HostKeeps /\ IsHistory(toHost') /\ ~toHost'.trying
         /\ toHost'.offer = toHost.offer /\ toHost'.taken = toHost.taken
         /\ ~ok => Doubts(toHost) \subseteq toHost'.doubtful
<1>1. CASE ~toHost.trying
  <2>1. toHost' = toHost
    BY <1>1, HistorySettled
  <2> QED
    BY <1>1, <2>1 DEF HostKeeps, ToHost!vars, Doubts
<1>2. CASE toHost.trying
  <2>1. toHost' = [offer |-> toHost.offer, trying |-> FALSE, taken |-> toHost.taken, sure |-> ok,
                   doubtful |-> IF ok THEN toHost.doubtful ELSE toHost.doubtful \cup {toHost.offer}]
    BY <1>2, HistorySettled
  <2>2. ASSUME ok PROVE ToHost!Believe
    BY <1>2, <2>1, <2>2 DEF ToHost!Believe
  <2>3. ASSUME ~ok PROVE ToHost!GiveUp
    BY <1>2, <2>1, <2>3 DEF ToHost!GiveUp, ToHost!Doubts, IsHistory
  <2>4. HostKeeps
    BY <2>2, <2>3 DEF HostKeeps, ToHost!Next
  <2> QED
    BY <1>2, <2>1, <2>4 DEF IsHistory, Doubts
<1> QED
  BY <1>1, <1>2 DEF IsHistory

\* A block taken.
LEMMA TakesToPofo ==
  ASSUME IsHistory(toPofo), NEW b, b \in toPofo.doubtful \cup {toPofo.offer}, b # NoBlock,
         toPofo' = [toPofo EXCEPT !.taken = b]
  PROVE  /\ PofoKeeps /\ IsHistory(toPofo') /\ toPofo'.trying = toPofo.trying
         /\ toPofo'.offer = toPofo.offer /\ toPofo'.taken = b
<1>1. toPofo' = [offer |-> toPofo.offer, trying |-> toPofo.trying, taken |-> b, sure |-> toPofo.sure,
                 doubtful |-> toPofo.doubtful]
  BY HistoryTaken
<1>2. ToPofo!Take
  BY <1>1 DEF ToPofo!Take
<1> QED
  BY <1>1, <1>2 DEF PofoKeeps, ToPofo!Next, IsHistory

LEMMA TakesToHost ==
  ASSUME IsHistory(toHost), NEW b, b \in toHost.doubtful \cup {toHost.offer}, b # NoBlock,
         toHost' = [toHost EXCEPT !.taken = b]
  PROVE  /\ HostKeeps /\ IsHistory(toHost') /\ toHost'.trying = toHost.trying
         /\ toHost'.offer = toHost.offer /\ toHost'.taken = b /\ toHost'.doubtful = toHost.doubtful
<1>1. toHost' = [offer |-> toHost.offer, trying |-> toHost.trying, taken |-> b, sure |-> toHost.sure,
                 doubtful |-> toHost.doubtful]
  BY HistoryTaken
<1>2. ToHost!Take
  BY <1>1 DEF ToHost!Take
<1> QED
  BY <1>1, <1>2 DEF HostKeeps, ToHost!Next, IsHistory

-----------------------------------------------------------------------------
(* The host goes on after a good reply *)

\* Whatever the Portfolio does, the host is still at its block.
LEMMA HostGives ==
  ASSUME NEW v, NEW e, NEW p, NEW hp, NEW hh, HostInv(e, hp), FineInv(v, e, p, hp, hh), Gives(e)
  PROVE  \/ e.stage = "thanks" /\ AfterGive(e).stage = "done" /\ (Away(p) \/ p.stage = "z")
         \/ /\ AfterGive(e).stage \in {"a5", "frame", "ack"}
            /\ HostInv(AfterGive(e), hp) /\ AskedInv(AfterGive(e), p, hp, hh)
<1> DEFINE r == AfterGive(e)
<1>0. /\ IsEnd(e) /\ SenderInv(e, hp, Responses)
      /\ e.stage = "frame" => e.k \in 1..(Len(e.out) + 4) /\ e.out \in Responses
  BY DEF HostInv, SenderInv, IsSender
<1>1. CASE e.stage = "z"
  <2>1. r = [stage |-> "a5", out |-> e.out, k |-> e.k, got |-> e.got]
    BY <1>0, <1>1 DEF AfterGive, At, IsEnd
  <2>2. HostInv(r, hp)
    BY <1>0, <1>1, <2>1 DEF HostInv, SenderInv, IsSender, IsEnd
  <2>3. AskedInv(r, p, hp, hh)
    BY <2>1 DEF AskedInv
  <2> QED
    BY <2>1, <2>2, <2>3
<1>2. CASE e.stage = "thanks"
  <2>1. r.stage = "done"
    BY <1>0, <1>2 DEF AfterGive, At, IsEnd
  <2> QED
    BY <1>2, <2>1 DEF FineInv
<1>3. CASE e.stage = "frame"
  <2>0. Len(Frame(e.out)) = Len(e.out) + 4 /\ Len(e.out) \in Nat /\ e.k \in 1..(Len(e.out) + 4)
    BY <1>0, <1>3, FrameIs, BlocksAre
  <2>a. Astray(p) \/ Heard(p, hp, e.out, e.k)
    BY <1>3 DEF FineInv
  <2>1. CASE e.k = Len(e.out) + 4
    <3>1. r = [stage |-> "ack", out |-> e.out, k |-> e.k, got |-> e.got]
      BY <1>0, <1>3, <2>0, <2>1 DEF AfterGive, At, IsEnd
    <3>2. HostInv(r, hp)
      BY <1>0, <1>3, <3>1 DEF HostInv, SenderInv, IsSender, IsEnd
    <3>3. AskedInv(r, p, hp, hh)
      BY <2>1, <2>a, <3>1 DEF AskedInv
    <3> QED
      BY <3>1, <3>2, <3>3
  <2>2. CASE e.k # Len(e.out) + 4
    <3>1. r = [stage |-> "frame", out |-> e.out, k |-> e.k + 1, got |-> e.got]
      <4>1. AfterGive(e) = [e EXCEPT !.k = @ + 1]
        BY <1>3, <2>0, <2>2 DEF AfterGive
      <4> QED
        BY <1>0, <1>3, <4>1 DEF IsEnd
    <3>2. HostInv(r, hp)
      BY <1>0, <1>3, <2>0, <2>2, <3>1 DEF HostInv, SenderInv, IsSender, IsEnd
    <3>3. (e.k + 1) - 1 = e.k
      BY <2>0
    <3>4. AskedInv(r, p, hp, hh)
      BY <2>a, <3>1, <3>3 DEF AskedInv
    <3> QED
      BY <3>1, <3>2, <3>4
  <2> QED
    BY <2>1, <2>2
<1> QED
  BY <1>1, <1>2, <1>3 DEF Gives

\* A whole and fitting body is that of a block of the Portfolio's.
LEMMA HostCollects ==
  ASSUME Distinguishable, NEW v, NEW e, NEW p, NEW hp, NEW hh,
         HostInv(e, hp), PofoInv(p, hh, hp.offer), FineInv(v, e, p, hp, hh), e.stage = "body"
  PROVE  LET r == Collect(e, Append(e.got, v), MaxLen) IN
         \/ r.stage \in {"failed", "toolong"}
         \/ r.stage = "body" /\ HostInv(r, hp) /\ AskedInv(r, p, hp, hh)
         \/ /\ r.stage = "thanks" /\ HostInv(r, hp)
            /\ \E b \in RequestBlocks :
                 /\ b \in Doubts(hh) /\ BodyPayload(r.got) = b
                 /\ Last(r.got) # Z /\ (Away(p) \/ (p.stage = "ack" /\ p.out = b))
<1> DEFINE g == Append(e.got, v)
           r == Collect(e, g, MaxLen)
<1>0. IsEnd(e) /\ SenderInv(e, hp, Responses)
  BY DEF HostInv, SenderInv
<1>1. e.got = <<NoByte>> \/ Reads(p, hh, g)
  BY DEF FineInv
<1>2. CASE e.got = <<NoByte>>
  <2>1. g = <<NoByte, v>>
    BY <1>2, Append1
  <2> HIDE DEF g
  <2>2. Short(g)
    BY <2>1 DEF Short, ToSet
  <2>3. r.stage \in {"failed", "toolong"}
    <3>1. ~Whole(g)
      BY <2>2 DEF Short, Whole
    <3> QED
      BY <1>0, <2>2, <3>1, CollectIs
  <2> QED
    BY <2>3 DEF g
<1>3. CASE Reads(p, hh, g)
  <2> HIDE DEF g
  <2>1. CASE r.stage \in {"failed", "toolong"}
    BY <2>1 DEF g
  <2>2. ASSUME Whole(g), ChecksumFits(g), r = [e EXCEPT !.got = g, !.stage = "thanks"]
        PROVE  /\ r.stage = "thanks" /\ HostInv(r, hp)
               /\ \E b \in RequestBlocks :
                    /\ b \in Doubts(hh) /\ BodyPayload(r.got) = b
                    /\ Last(r.got) # Z /\ (Away(p) \/ (p.stage = "ack" /\ p.out = b))
    <3>1. r = [stage |-> "thanks", out |-> e.out, k |-> e.k, got |-> g]
      BY <1>0, <2>2 DEF IsEnd
    <3>2. HostInv(r, hp)
      BY <1>0, <3>1 DEF HostInv, SenderInv, IsSender, IsEnd
    <3>3. ~ReadsNoise(p, g)
      BY <2>2, NoiseIsNoBlock DEF ReadsNoise, Noise
    <3>4. PICK b \in RequestBlocks : \E i \in 1..(Len(b) + 4) : \E n \in 0..((Len(b) + 4) - i) :
            ReadsCut(p, hh, g, b, i, n)
      BY <1>3, <3>3 DEF Reads
    <3>5. PICK i \in 1..(Len(b) + 4) : \E n \in 0..((Len(b) + 4) - i) : ReadsCut(p, hh, g, b, i, n)
      BY <3>4
    <3>6. PICK n \in 0..((Len(b) + 4) - i) : ReadsCut(p, hh, g, b, i, n)
      BY <3>5
    <3>7. b \in Doubts(hh) /\ Frame(b)[i] = A5 /\ g = Cut(b, i, n) /\ (ComesNext(p, b, (i + n) + 1) \/ Away(p))
      BY <3>6 DEF ReadsCut
    <3>8. i = 1 /\ n = Len(b) + 3 /\ BodyPayload(g) = b /\ Last(g) = Checksum(b)
      BY <2>2, <3>7, CutFits
    <3>9. Last(g) # Z
      BY <3>8 DEF Distinguishable, PlainRequest, RequestBlocks
    <3>10. Away(p) \/ (p.stage = "ack" /\ p.out = b)
      <4>1. Len(b) \in Nat
        BY FrameIs, BlocksAre
      <4>2. CASE ComesNext(p, b, (i + n) + 1)
        <5>1. ASSUME p.stage = "frame" PROVE FALSE
          <6>1. p.k = Len(b) + 5 /\ p.out = b
            BY <4>1, <4>2, <3>8, <5>1 DEF ComesNext
          <6>2. p.k \in 1..(Len(b) + 4)
            BY <5>1, <6>1 DEF PofoInv, SenderInv
          <6> QED
            BY <4>1, <6>1, <6>2
        <5> QED
          BY <4>2, <5>1 DEF ComesNext
      <4> QED
        BY <3>7, <4>2
    <3> QED
      BY <3>1, <3>2, <3>7, <3>8, <3>9, <3>10
  <2>3. ASSUME r = [e EXCEPT !.got = g]
        PROVE  r.stage = "body" /\ HostInv(r, hp) /\ AskedInv(r, p, hp, hh)
    <3>1. r = [stage |-> "body", out |-> e.out, k |-> e.k, got |-> g]
      BY <1>0, <2>3 DEF IsEnd
    <3>2. HostInv(r, hp)
      BY <1>0, <2>3, <3>1 DEF HostInv, SenderInv, IsSender, IsEnd
    <3>3. AskedInv(r, p, hp, hh)
      BY <1>3, <3>1 DEF AskedInv
    <3> QED
      BY <3>1, <3>2, <3>3
  <2>4. \/ r.stage \in {"failed", "toolong"}
        \/ Whole(g) /\ ChecksumFits(g) /\ r = [e EXCEPT !.got = g, !.stage = "thanks"]
        \/ r = [e EXCEPT !.got = g]
    BY <1>0, CollectIs
  <2> QED
    BY <2>1, <2>2, <2>3, <2>4 DEF g
<1> QED
  BY <1>1, <1>2, <1>3

\* Any byte answered leads on, or the block ends or fails there.
LEMMA HostTakes ==
  ASSUME Distinguishable, NEW v, NEW e, NEW p, NEW hp, NEW hh,
         HostInv(e, hp), PofoInv(p, hh, hp.offer), FineInv(v, e, p, hp, hh), Takes(e), e.stage # "body"
  PROVE  LET r == AfterTake(e, v, MaxLen) IN
         \/ r.stage = "failed"
         \/ r.stage = "done" /\ e.stage = "ack" /\ hp.taken = e.out
         \/ /\ r.stage \in {"body", "frame"}
            /\ HostInv(r, hp) /\ AskedInv(r, p, hp, hh)
<1> DEFINE r == AfterTake(e, v, MaxLen)
<1>0. IsEnd(e) /\ SenderInv(e, hp, Responses)
  BY DEF HostInv, SenderInv
<1>1. CASE e.stage = "a5"
  <2>1. CASE v = A5
    <3>1. r = [stage |-> "body", out |-> e.out, k |-> e.k, got |-> <<>>]
      BY <1>0, <1>1, <2>1 DEF AfterTake, At, IsEnd, HostInv
    <3>3. HostInv(r, hp)
      BY <1>0, <1>1, <3>1 DEF HostInv, SenderInv, IsSender, IsEnd
    <3>4. AskedInv(r, p, hp, hh)
      BY <1>1, <2>1, <3>1 DEF AskedInv, FineInv
    <3> QED
      BY <3>1, <3>3, <3>4
  <2>2. CASE v # A5
    <3>1. r.stage = "failed"
      BY <1>0, <1>1, <2>2 DEF AfterTake, At, IsEnd
    <3> QED
      BY <3>1
  <2> QED
    BY <2>1, <2>2
<1>2. CASE e.stage = "sync"
  <2>1. CASE v = Z
    <3>1. r = [stage |-> "frame", out |-> e.out, k |-> 1, got |-> e.got]
      BY <1>0, <1>2, <2>1 DEF AfterTake, IsEnd
    <3>2. e.out \in Responses /\ Len(e.out) \in Nat
      BY <1>0, <1>2, FrameIs, BlocksAre DEF SenderInv, IsSender
    <3>3. HostInv(r, hp)
      BY <1>0, <1>2, <3>1, <3>2 DEF HostInv, SenderInv, IsSender, IsEnd
    <3>4. Astray(p) \/ Heard(p, hp, e.out, 1 - 1)
      BY <1>2, <2>1 DEF FineInv, Astray, Heard
    <3>5. AskedInv(r, p, hp, hh)
      BY <3>1, <3>4 DEF AskedInv
    <3> QED
      BY <3>1, <3>3, <3>5
  <2>2. CASE v # Z
    <3>1. r.stage = "failed"
      BY <1>0, <1>2, <2>2 DEF AfterTake, At, IsEnd
    <3> QED
      BY <3>1
  <2> QED
    BY <2>1, <2>2
<1>3. CASE e.stage = "ack"
  <2>1. CASE v = Checksum(e.out)
    <3>1. r.stage = "done"
      BY <1>0, <1>3, <2>1 DEF AfterTake, At, IsEnd
    <3> QED
      BY <1>3, <2>1, <3>1 DEF FineInv
  <2>2. CASE v # Checksum(e.out)
    <3>1. r.stage = "failed"
      BY <1>0, <1>3, <2>2 DEF AfterTake, At, IsEnd
    <3> QED
      BY <3>1
  <2> QED
    BY <2>1, <2>2
<1> QED
  BY <1>1, <1>2, <1>3 DEF Takes, HostInv

\* Half a length missing: the other half is asked for, but the block is lost.
LEMMA HostMissesHalf ==
  ASSUME NEW e, NEW p, NEW hp, NEW hh, HostInv(e, hp), e.stage = "body"
  PROVE  LET r == [e EXCEPT !.got = <<NoByte>>] IN HostInv(r, hp) /\ AskedInv(r, p, hp, hh)
<1> DEFINE r == [e EXCEPT !.got = <<NoByte>>]
<1>1. IsEnd(e)
  BY DEF HostInv, SenderInv
<1>2. r = [stage |-> "body", out |-> e.out, k |-> e.k, got |-> <<NoByte>>]
  BY <1>1 DEF IsEnd
<1>4. HostInv(r, hp)
  BY <1>2 DEF HostInv, SenderInv, IsSender, IsEnd
<1>5. AskedInv(r, p, hp, hh)
  BY <1>2 DEF AskedInv
<1> QED
  BY <1>4, <1>5

-----------------------------------------------------------------------------
(* What is read of an idle line or of a frame *)

LEMMA EmptyIs == ASSUME NEW s, IsList(s, 0) PROVE s = <<>>
<1>1. IsList(<<>>, 0)
  BY DEF IsList
<1> QED
  BY <1>1, SameLists

LEMMA EmptyCut == ASSUME NEW b, NEW i \in Nat PROVE Cut(b, i, 0) = <<>> /\ Spoilt(b, 0, 0) = <<>>
<1>1. 0 \in Nat
  OBVIOUS
<1>2. IsList(Cut(b, i, 0), 0) /\ IsList(Spoilt(b, 0, 0), 0)
  BY <1>1, CutIs, SpoiltIs
<1> QED
  BY <1>2, EmptyIs

LEMMA EmptyNoise == Noise(<<>>)
<1>1. <<>> \in [1..0 -> Mixes \cup {Z}]
  OBVIOUS
<1>2. 0 \in 0..MaxNoise
  BY CableAssumption
<1> QED
  BY <1>1, <1>2 DEF Noise

LEMMA NoiseGrows ==
  ASSUME Distinguishable, NEW g, Noise(g), Len(g) < MaxNoise, NEW x \in Mixes \cup {Z}
  PROVE  Noise(Append(g, x))
<1>1. PICK n \in 0..MaxNoise : g \in [1..n -> Mixes \cup {Z}]
  BY DEF Noise
<1>2. IsList(g, n) /\ Len(g) = n /\ MaxNoise \in Nat
  BY <1>1, NoiseIsNoBlock, ListIs, CableAssumption
<1> DEFINE a == Append(g, x)
<1>a. a = Append(g, x)
  OBVIOUS
<1>b. Grown(Append(g, x), g, n, x)
  BY <1>2, AppendList
<1> HIDE DEF a
<1>3. IsList(a, n + 1) /\ a[n + 1] = x /\ \A k \in 1..n : a[k] = g[k]
  BY <1>a, <1>b DEF Grown
<1>4. \A k \in 1..(n + 1) : a[k] \in Mixes \cup {Z}
  BY <1>1, <1>2, <1>3
<1>5. a \in [1..(n + 1) -> Mixes \cup {Z}]
  BY <1>3, <1>4 DEF IsList
<1>6. n + 1 \in 0..MaxNoise
  BY <1>1, <1>2
<1> QED
  BY <1>5, <1>6 DEF Noise, a

\* What has been read stays read when the Portfolio goes away.
LEMMA ReadsKept ==
  ASSUME NEW p, NEW h, NEW g, Reads(p, h, g), NEW p2, NEW h2, Away(p2), Doubts(h) \subseteq Doubts(h2)
  PROVE  Reads(p2, h2, g)
<1>1. CASE ReadsNoise(p, g)
  BY <1>1 DEF Reads, ReadsNoise
<1>2. CASE \E b \in RequestBlocks : \E i \in 1..(Len(b) + 4) : \E n \in 0..((Len(b) + 4) - i) :
             ReadsCut(p, h, g, b, i, n)
  <2>1. \A b, i, n : ReadsCut(p, h, g, b, i, n) => ReadsCut(p2, h2, g, b, i, n)
    BY DEF ReadsCut
  <2> QED
    BY <1>2, <2>1 DEF Reads
<1> QED
  BY <1>1, <1>2 DEF Reads

LEMMA AwayKeeps ==
  ASSUME NEW e, NEW p, NEW hp, NEW hh, NEW p2, NEW h2, Away(p2), Doubts(hh) \subseteq Doubts(h2)
  PROVE  /\ AskedInv(e, p, hp, hh) => AskedInv(e, p2, hp, h2)
         /\ \A v : FineInv(v, e, p, hp, hh) => FineInv(v, e, p2, hp, h2)
<1>0. \A g : Reads(p, hh, g) => Reads(p2, h2, g)
  BY ReadsKept
<1>1. ASSUME AskedInv(e, p, hp, hh) PROVE AskedInv(e, p2, hp, h2)
  BY <1>0, <1>1 DEF AskedInv, Astray
<1>2. ASSUME NEW v, FineInv(v, e, p, hp, hh) PROVE FineInv(v, e, p2, hp, h2)
  BY <1>0, <1>2 DEF FineInv, Astray
<1> QED
  BY <1>1, <1>2

\* Nothing is asked of a Portfolio that is away while the host gives a byte.
LEMMA AwayFine ==
  ASSUME NEW e, NEW p, NEW hp, NEW hh, Away(p), Gives(e)
  PROVE  \A v : FineInv(v, e, p, hp, hh)
BY DEF Gives, FineInv, Astray

-----------------------------------------------------------------------------
(* A byte goes over to the Portfolio *)

LEMMA PofoTakes ==
  ASSUME Distinguishable, NEW e, NEW p, NEW hp, NEW hh, HostInv(e, hp), PofoInv(p, hh, hp.offer),
         AskedInv(e, p, hp, hh), Gives(e), Takes(p)
  PROVE  LET r == AfterTake(p, ByteOf(e), RomMaxLen) IN
         \/ r.stage \in {"failed", "toolong"}
         \/ r.stage = "done" /\ p.stage = "ack" /\ e.stage = "thanks" /\ hh.taken = p.out
         \/ /\ r.stage = "thanks" /\ p.stage = "body" /\ PofoInv(r, hh, hp.offer)
            /\ BodyPayload(r.got) = hp.offer /\ hp.offer \in Responses
            /\ \A v, h : h.taken = hp.offer => FineInv(v, e, r, h, hh)
         \/ /\ r.stage \in {"body", "frame"} /\ PofoInv(r, hh, hp.offer)
            /\ p.stage = "body" => r.stage = "body"
            /\ \A v : FineInv(v, e, r, hp, hh)
<1> DEFINE v == ByteOf(e)
           r == AfterTake(p, v, RomMaxLen)
           R == hp.offer
<1>0. /\ IsEnd(p) /\ SenderInv(p, hh, RequestBlocks)
      /\ e.stage \in {"z", "frame", "thanks"} /\ p.stage \in {"a5", "body", "sync", "ack"}
  BY DEF PofoInv, SenderInv, Gives, Takes
<1>1. ASSUME e.stage = "frame"
      PROVE  /\ e.out \in Responses /\ e.out \in Payloads /\ R = e.out /\ Len(e.out) \in Nat
             /\ e.k \in 1..(Len(e.out) + 4) /\ v = Frame(e.out)[e.k]
  <2>1. e.out \in Responses /\ R = e.out /\ e.k \in 1..(Len(e.out) + 4)
    BY <1>1 DEF HostInv, SenderInv, IsSender
  <2>2. v = Frame(e.out)[e.k]
    BY <1>1 DEF ByteOf
  <2> QED
    BY <2>1, <2>2, BlocksAre, FrameIs
<1>2. e.stage = "z" => v = Z
  BY DEF ByteOf
<1>3. e.stage = "thanks" => v = Last(e.got)
  BY DEF ByteOf
<1>4. e.stage = "frame" => Astray(p) \/ Heard(p, hp, e.out, e.k - 1)
  BY DEF AskedInv
<1>5. e.stage = "thanks" => v # Z /\ (Away(p) \/ (p.stage = "ack" /\ p.out = hh.taken))
  BY <1>3 DEF AskedInv
<1>z. Z # A5
  BY DEF Distinguishable
<1> HIDE DEF v, R
<1>6. CASE p.stage = "a5"
  <2>1. CASE v # A5
    <3>1. r.stage = "failed"
      BY <1>0, <1>6, <2>1 DEF AfterTake, At, IsEnd
    <3> QED
      BY <3>1 DEF v
  <2>2. CASE v = A5
    <3>1. e.stage = "frame"
      BY <1>0, <1>2, <1>5, <1>6, <1>z, <2>2 DEF Away
    <3>2. e.k = 1
      BY <1>1, <1>4, <1>6, <3>1 DEF Astray, Away, Heard
    <3>3. r = [stage |-> "body", out |-> p.out, k |-> p.k, got |-> <<>>]
      BY <1>0, <1>6, <2>2 DEF AfterTake, At, IsEnd, PofoInv
    <3>4. Cut(e.out, 1, 1 - 1) = <<>> /\ Spoilt(e.out, 0, 0) = <<>>
      <4>1. 1 \in Nat /\ 1 - 1 = 0
        OBVIOUS
      <4> QED
        BY <4>1, EmptyCut
    <3>5. Hearing(<<>>, R)
      <4>1. 0 \in 0..(Len(R) + 2) /\ 0 \in 0..0
        BY <1>1, <3>1
      <4> QED
        BY <1>1, <3>1, <3>4, <4>1 DEF Hearing
    <3>6. PofoInv(r, hh, R)
      BY <1>0, <1>6, <3>3, <3>5 DEF PofoInv, SenderInv, IsSender, IsEnd
    <3>7. Heard(r, hp, e.out, e.k)
      BY <1>1, <3>1, <3>2, <3>3, <3>4 DEF Heard
    <3>8. \A w : FineInv(w, e, r, hp, hh)
      BY <3>1, <3>7 DEF FineInv
    <3> QED
      BY <1>6, <3>3, <3>6, <3>8 DEF v, R
  <2> QED
    BY <2>1, <2>2
<1>7. CASE p.stage = "sync"
  <2>1. CASE v # Z
    <3>1. r.stage = "failed"
      BY <1>0, <1>7, <2>1 DEF AfterTake, At, IsEnd
    <3> QED
      BY <3>1 DEF v
  <2>2. CASE v = Z
    <3>1. r = [stage |-> "frame", out |-> p.out, k |-> 1, got |-> p.got]
      BY <1>0, <1>7, <2>2 DEF AfterTake, IsEnd
    <3>2. p.out \in RequestBlocks /\ Len(p.out) \in Nat
      BY <1>0, <1>7, BlocksAre, FrameIs DEF SenderInv, IsSender
    <3>3. PofoInv(r, hh, R)
      BY <1>0, <1>7, <3>1, <3>2 DEF PofoInv, SenderInv, IsSender, IsEnd
    <3>4. \A w : FineInv(w, e, r, hp, hh)
      BY <1>0, <1>5, <2>2, <3>1 DEF FineInv, Astray
    <3> QED
      BY <1>7, <3>1, <3>3, <3>4 DEF v, R
  <2> QED
    BY <2>1, <2>2
<1>8. CASE p.stage = "ack"
  <2>1. p.out \in RequestBlocks
    BY <1>0, <1>8 DEF SenderInv, IsSender
  <2>2. Checksum(p.out) # Z
    BY <2>1 DEF Distinguishable, PlainRequest, RequestBlocks
  <2>3. e.stage # "frame"
    BY <1>4, <1>8 DEF Astray, Away, Heard
  <2>4. CASE v # Checksum(p.out)
    <3>1. r.stage = "failed"
      BY <1>0, <1>8, <2>4 DEF AfterTake, At, IsEnd
    <3> QED
      BY <3>1 DEF v
  <2>5. CASE v = Checksum(p.out)
    <3>1. r.stage = "done"
      BY <1>0, <1>8, <2>5 DEF AfterTake, At, IsEnd
    <3>2. e.stage = "thanks"
      BY <1>0, <1>2, <2>2, <2>3, <2>5
    <3> QED
      BY <1>5, <1>8, <3>1, <3>2 DEF Away, v
  <2> QED
    BY <2>4, <2>5
<1>9. CASE p.stage = "body"
  <2>1. Hearing(p.got, R)
    BY <1>9 DEF PofoInv, R
  <2>2. R \in Responses /\ R \in Payloads /\ Len(R) \in Nat
    BY <2>1, BlocksAre, FrameIs DEF Hearing
  <2>a. PICK n \in 1..(Len(R) + 3) : \E m \in 0..n :
          /\ Append(p.got, v) = Spoilt(R, m, n) /\ (n >= 3 => m >= 2)
          /\ e.stage = "frame" => n = e.k - 1 /\ Append(p.got, v) = Cut(e.out, 1, e.k - 1)
    <3>1. CASE e.stage = "frame"
      <4>1. /\ e.k - 1 \in 1..(Len(R) + 3) /\ p.got = Cut(R, 1, (e.k - 1) - 1)
            /\ v = Frame(R)[e.k] /\ R = e.out
        BY <1>1, <1>4, <1>9, <3>1 DEF Astray, Away, Heard
      <4>c. e.k \in 2..(Len(R) + 4)
        BY <1>1, <2>2, <3>1, <4>1
      <4> DEFINE n == e.k - 1
      <4>2. /\ n \in 1..(Len(R) + 3) /\ n - 1 \in Nat /\ n \in Nat /\ 1 \in Nat
            /\ (n - 1) + 1 = n /\ (1 + (n - 1)) + 1 = e.k
        BY <2>2, <4>c
      <4> HIDE DEF n
      <4>3. Append(Cut(R, 1, n - 1), Frame(R)[(1 + (n - 1)) + 1]) = Cut(R, 1, (n - 1) + 1)
        BY <4>2, CutGrows
      <4>a. Append(Cut(R, 1, n - 1), Frame(R)[e.k]) = Cut(R, 1, n)
        BY <4>2, <4>3, Zenon
      <4>b. p.got = Cut(R, 1, n - 1)
        BY <4>1 DEF n
      <4>4. Append(p.got, v) = Cut(R, 1, n)
        BY <4>1, <4>a, <4>b, Zenon
      <4>5. Cut(R, 1, n) = Spoilt(R, n, n)
        BY <4>2, CutIsSpoilt
      <4>6. n \in 0..n /\ (n >= 3 => n >= 2)
        BY <4>2
      <4>7. Append(p.got, v) = Spoilt(R, n, n)
        BY <4>4, <4>5, Zenon
      <4>8. Append(p.got, v) = Cut(e.out, 1, e.k - 1)
        BY <4>1, <4>4, Zenon DEF n
      <4> QED
        BY <4>2, <4>6, <4>7, <4>8 DEF n
    <3>2. CASE e.stage = "z"
      <4>1. PICK j \in 0..(Len(R) + 2) : \E m \in 0..j : p.got = Spoilt(R, m, j) /\ (j >= 2 => m >= 2)
        BY <2>1 DEF Hearing
      <4>2. PICK m \in 0..j : p.got = Spoilt(R, m, j) /\ (j >= 2 => m >= 2)
        BY <4>1
      <4>3. j \in Nat /\ m \in Nat /\ m <= j
        BY <2>2
      <4>4. Append(p.got, v) = Spoilt(R, m, j + 1)
        BY <1>2, <3>2, <4>2, <4>3, SpoiltGrows
      <4>5. j + 1 \in 1..(Len(R) + 3) /\ m \in 0..(j + 1) /\ (j + 1 >= 3 => m >= 2)
        BY <2>2, <4>2, <4>3
      <4> QED
        BY <3>2, <4>4, <4>5
    <3>3. e.stage # "thanks"
      BY <1>5, <1>9 DEF Away
    <3> QED
      BY <1>0, <3>1, <3>2, <3>3
  <2>3. PICK m \in 0..n :
          /\ Append(p.got, v) = Spoilt(R, m, n) /\ (n >= 3 => m >= 2)
          /\ e.stage = "frame" => n = e.k - 1 /\ Append(p.got, v) = Cut(e.out, 1, e.k - 1)
    BY <2>a
  <2> DEFINE g == Spoilt(R, m, n)
  <2>4. r = Collect(p, g, RomMaxLen)
    <3>1. r = Collect(p, Append(p.got, v), RomMaxLen)
      BY <1>9 DEF AfterTake
    <3> QED
      BY <2>3, <3>1, Zenon
  <2>5. \/ Collect(p, g, RomMaxLen).stage \in {"failed", "toolong"}
        \/ Collect(p, g, RomMaxLen) = [p EXCEPT !.got = g] /\ n <= Len(R) + 2 /\ (n >= 2 => m >= 2)
        \/ Collect(p, g, RomMaxLen) = [p EXCEPT !.got = g, !.stage = "thanks"] /\ BodyPayload(g) = R /\ n = Len(R) + 3
    BY <1>0, <1>9, <2>2, <2>3, SpoiltCollects
  <2>6. CASE Collect(p, g, RomMaxLen).stage \in {"failed", "toolong"}
    BY <2>4, <2>6 DEF v
  <2>7. CASE Collect(p, g, RomMaxLen) = [p EXCEPT !.got = g] /\ n <= Len(R) + 2 /\ (n >= 2 => m >= 2)
    <3>1. Hearing(g, R)
      <4>1. n \in 0..(Len(R) + 2) /\ m \in 0..n
        BY <2>2, <2>7
      <4> QED
        BY <2>2, <2>7, <4>1 DEF Hearing
    <3>2. e.stage = "frame" => e.k \in 1..(Len(e.out) + 3) /\ g = Cut(e.out, 1, e.k - 1)
      BY <1>1, <2>2, <2>3, <2>7
    <3> HIDE DEF g, r
    <3>3. r = [stage |-> "body", out |-> p.out, k |-> p.k, got |-> g]
      BY <1>0, <1>9, <2>4, <2>7 DEF IsEnd
    <3>4. PofoInv(r, hh, R)
      BY <1>0, <1>9, <3>1, <3>3 DEF PofoInv, SenderInv, IsSender, IsEnd
    <3>5. \A w : FineInv(w, e, r, hp, hh)
      <4>1. e.stage = "frame" => Heard(r, hp, e.out, e.k)
        BY <3>2, <3>3 DEF Heard
      <4> QED
        BY <1>0, <1>5, <1>9, <4>1 DEF FineInv, Away
    <3> QED
      BY <1>9, <3>3, <3>4, <3>5 DEF v, R, r
  <2>8. CASE Collect(p, g, RomMaxLen) = [p EXCEPT !.got = g, !.stage = "thanks"] /\ BodyPayload(g) = R /\ n = Len(R) + 3
    <3>2. e.stage = "frame" => e.k = Len(e.out) + 4 /\ R = e.out
      BY <1>1, <2>2, <2>3, <2>8
    <3> HIDE DEF g, r
    <3>3. r = [stage |-> "thanks", out |-> p.out, k |-> p.k, got |-> g]
      BY <1>0, <1>9, <2>4, <2>8 DEF IsEnd
    <3>4. PofoInv(r, hh, R)
      BY <1>0, <1>9, <3>3 DEF PofoInv, SenderInv, IsSender, IsEnd
    <3>5. \A w, h : h.taken = R => FineInv(w, e, r, h, hh)
      <4>1. e.stage = "frame" => \A h : h.taken = R => Heard(r, h, e.out, e.k)
        BY <3>2, <3>3 DEF Heard
      <4> QED
        BY <1>0, <1>5, <1>9, <4>1 DEF FineInv, Away
    <3>6. BodyPayload(r.got) = R
      BY <2>8, <3>3
    <3> QED
      BY <1>9, <2>2, <3>3, <3>4, <3>5, <3>6 DEF v, R, r
  <2> QED
    BY <2>5, <2>6, <2>7, <2>8
<1> QED
  BY <1>0, <1>6, <1>7, <1>8, <1>9

-----------------------------------------------------------------------------
(* A byte comes from the Portfolio, or seems to *)

\* What is read of a frame as the next byte comes.
LEMMA FrameRead ==
  ASSUME NEW p, NEW r, NEW h, NEW g, NEW v, Reads(p, h, g), SenderInv(p, h, RequestBlocks),
         p.stage = "frame", v = Frame(p.out)[p.k], r.out = p.out,
         IF p.k = Len(p.out) + 4 THEN r.stage = "ack" ELSE r.stage = "frame" /\ r.k = p.k + 1
  PROVE  Reads(r, h, Append(g, v))
<1>1. ~ReadsNoise(p, g)
  BY DEF ReadsNoise, Away
<1>2. PICK b \in RequestBlocks : \E i \in 1..(Len(b) + 4) : \E n \in 0..((Len(b) + 4) - i) :
        ReadsCut(p, h, g, b, i, n)
  BY <1>1 DEF Reads
<1>3. PICK i \in 1..(Len(b) + 4) : \E n \in 0..((Len(b) + 4) - i) : ReadsCut(p, h, g, b, i, n)
  BY <1>2
<1>4. PICK n \in 0..((Len(b) + 4) - i) : ReadsCut(p, h, g, b, i, n)
  BY <1>3
<1>5. /\ b \in Doubts(h) /\ Frame(b)[i] = A5 /\ g = Cut(b, i, n)
      /\ p.out = b /\ p.k = (i + n) + 1
  BY <1>4 DEF ReadsCut, ComesNext, Away
<1>6. Len(b) \in Nat /\ p.k \in 1..(Len(b) + 4)
  BY <1>5, FrameIs, BlocksAre DEF SenderInv
<1>7. n + 1 \in 0..((Len(b) + 4) - i) /\ (i + (n + 1)) + 1 = p.k + 1 /\ i \in Nat /\ n \in Nat
  BY <1>5, <1>6
<1>8. Append(g, v) = Cut(b, i, n + 1)
  <2>1. Append(Cut(b, i, n), Frame(b)[(i + n) + 1]) = Cut(b, i, n + 1)
    BY <1>7, CutGrows
  <2>2. v = Frame(b)[(i + n) + 1]
    BY <1>5, Zenon
  <2> QED
    BY <1>5, <2>1, <2>2, Zenon
<1>9. ComesNext(r, b, (i + (n + 1)) + 1)
  BY <1>5, <1>6, <1>7 DEF ComesNext
<1>10. ReadsCut(r, h, Append(g, v), b, i, n + 1)
  BY <1>5, <1>8, <1>9 DEF ReadsCut
<1> QED
  BY <1>7, <1>10 DEF Reads

\* An 0xA5 of the frame may begin a body.
LEMMA FrameBegins ==
  ASSUME NEW p, NEW r, NEW h, SenderInv(p, h, RequestBlocks),
         p.stage = "frame", Frame(p.out)[p.k] = A5, r.out = p.out,
         IF p.k = Len(p.out) + 4 THEN r.stage = "ack" ELSE r.stage = "frame" /\ r.k = p.k + 1
  PROVE  Reads(r, h, <<>>)
<1> DEFINE b == p.out
<1>1. b \in RequestBlocks /\ b \in Doubts(h)
  BY DEF SenderInv, IsSender, Doubts
<1>2. Len(b) \in Nat /\ p.k \in 1..(Len(b) + 4)
  BY <1>1, FrameIs, BlocksAre DEF SenderInv
<1>3. 0 \in 0..((Len(b) + 4) - p.k) /\ (p.k + 0) + 1 = p.k + 1 /\ p.k \in Nat
  BY <1>2
<1>4. Cut(b, p.k, 0) = <<>>
  BY <1>3, EmptyCut
<1>5. ComesNext(r, b, (p.k + 0) + 1)
  BY <1>2, <1>3 DEF ComesNext
<1>6. ReadsCut(r, h, <<>>, b, p.k, 0)
  BY <1>1, <1>4, <1>5 DEF ReadsCut
<1> QED
  BY <1>1, <1>2, <1>3, <1>6 DEF Reads

\* More of an idle line.
LEMMA NoiseRead ==
  ASSUME Distinguishable, NEW p, NEW r, NEW h, NEW g, NEW v \in Mixes \cup {Z},
         Reads(p, h, g), Len(g) < MaxNoise, p.stage = "z", r.stage \in {"z", "a5"}
  PROVE  Reads(r, h, Append(g, v))
<1>1. ReadsNoise(p, g)
  BY DEF Reads, ReadsCut, ComesNext, Away
<1>2. Noise(Append(g, v))
  BY <1>1, NoiseGrows DEF ReadsNoise
<1> QED
  BY <1>2 DEF Reads, ReadsNoise

LEMMA PofoGives ==
  ASSUME Distinguishable, NEW e, NEW p, NEW hp, NEW hh, HostInv(e, hp), PofoInv(p, hh, hp.offer),
         AskedInv(e, p, hp, hh), Takes(e), Gives(p),
         p.stage = "z" /\ e.stage = "body" => Len(e.got) < MaxNoise
  PROVE  LET v == ByteOf(p)
             r == AfterGive(p) IN
         \/ /\ p.stage = "thanks" /\ r.stage = "done"
            /\ \A q, h : Away(q) => FineInv(v, e, q, hp, h)
         \/ /\ r.stage \in {"a5", "frame", "ack"}
            /\ PofoInv(r, hh, hp.offer) /\ FineInv(v, e, r, hp, hh)
<1> DEFINE v == ByteOf(p)
           r == AfterGive(p)
<1>0. /\ IsEnd(p) /\ SenderInv(p, hh, RequestBlocks)
      /\ e.stage \in {"a5", "body", "sync", "ack"}
  BY DEF PofoInv, SenderInv, HostInv, Takes
<1>z. Z # A5 /\ (e.stage = "ack" => Checksum(e.out) # A5)
  BY DEF Distinguishable, PlainResponse, HostInv, SenderInv, IsSender
<1>1. CASE p.stage = "z"
  <2>1. v = Z /\ r = [stage |-> "a5", out |-> p.out, k |-> p.k, got |-> p.got]
    BY <1>0, <1>1 DEF AfterGive, ByteOf, At, IsEnd
  <2> HIDE DEF v, r
  <2>2. PofoInv(r, hh, hp.offer)
    BY <1>0, <1>1, <2>1 DEF PofoInv, SenderInv, IsSender, IsEnd
  <2>3. e.stage = "body" => e.got = <<NoByte>> \/ Reads(r, hh, Append(e.got, v))
    <3> SUFFICES ASSUME e.stage = "body", e.got # <<NoByte>> PROVE Reads(r, hh, Append(e.got, v))
      OBVIOUS
    <3>1. Reads(p, hh, e.got) /\ Len(e.got) < MaxNoise
      BY <1>1 DEF AskedInv
    <3>2. v \in Mixes \cup {Z} /\ r.stage \in {"z", "a5"}
      BY <2>1
    <3> QED
      BY <1>1, <3>1, <3>2, NoiseRead
  <2>4. e.stage = "ack" => FALSE
    BY <1>1 DEF AskedInv, Astray, Away, Heard
  <2>5. FineInv(v, e, r, hp, hh)
    BY <1>0, <1>z, <2>1, <2>3, <2>4 DEF FineInv
  <2> QED
    BY <2>1, <2>2, <2>5 DEF v, r
<1>2. CASE p.stage = "frame"
  <2>1. p.out \in RequestBlocks /\ Len(p.out) \in Nat /\ Len(Frame(p.out)) = Len(p.out) + 4
        /\ p.k \in 1..(Len(p.out) + 4)
    BY <1>0, <1>2, FrameIs, BlocksAre DEF SenderInv, IsSender
  <2>2. v = Frame(p.out)[p.k]
    BY <1>2 DEF ByteOf
  <2>3. r = [stage |-> IF p.k = Len(p.out) + 4 THEN "ack" ELSE "frame", out |-> p.out,
             k |-> IF p.k = Len(p.out) + 4 THEN p.k ELSE p.k + 1, got |-> p.got]
    <3>1. CASE p.k = Len(p.out) + 4
      BY <1>0, <1>2, <2>1, <3>1 DEF AfterGive, At, IsEnd
    <3>2. CASE p.k # Len(p.out) + 4
      <4>1. AfterGive(p) = [p EXCEPT !.k = @ + 1]
        BY <1>2, <2>1, <3>2 DEF AfterGive
      <4> QED
        BY <1>0, <1>2, <3>2, <4>1 DEF IsEnd
    <3> QED
      BY <3>1, <3>2
  <2> HIDE DEF v, r
  <2>4. r.out = p.out /\ IF p.k = Len(p.out) + 4 THEN r.stage = "ack" ELSE r.stage = "frame" /\ r.k = p.k + 1
    BY <2>3
  <2>5. PofoInv(r, hh, hp.offer)
    BY <1>0, <1>2, <2>1, <2>3 DEF PofoInv, SenderInv, IsSender, IsEnd
  <2>6. e.stage = "a5" /\ v = A5 => Reads(r, hh, <<>>)
    BY <1>0, <1>2, <2>2, <2>4, FrameBegins
  <2>7. e.stage = "body" => e.got = <<NoByte>> \/ Reads(r, hh, Append(e.got, v))
    <3> SUFFICES ASSUME e.stage = "body", e.got # <<NoByte>> PROVE Reads(r, hh, Append(e.got, v))
      OBVIOUS
    <3>1. Reads(p, hh, e.got)
      BY DEF AskedInv
    <3> QED
      BY <1>0, <1>2, <2>2, <2>4, <3>1, FrameRead
  <2>8. e.stage = "sync" => FALSE
    BY <1>2 DEF AskedInv, Away
  <2>9. e.stage = "ack" => v # Checksum(e.out)
    <3> SUFFICES ASSUME e.stage = "ack" PROVE v = A5
      BY <1>z
    <3>1. p.k = 1
      BY <1>2 DEF AskedInv, Astray, Away, Heard
    <3> QED
      BY <2>1, <2>2, <3>1, FrameIs, BlocksAre
  <2>10. FineInv(v, e, r, hp, hh)
    BY <1>0, <2>6, <2>7, <2>8, <2>9 DEF FineInv
  <2> QED
    BY <2>3, <2>5, <2>10 DEF v, r
<1>3. CASE p.stage = "thanks"
  <2>1. r.stage = "done"
    BY <1>0, <1>3 DEF AfterGive, At, IsEnd
  <2> HIDE DEF v
  <2>2. ASSUME NEW q, NEW h, Away(q) PROVE FineInv(v, e, q, hp, h)
    <3>1. Reads(q, h, <<>>)
      BY <2>2, EmptyNoise DEF Reads, ReadsNoise
    <3>2. e.stage = "body" => e.got = <<NoByte>>
      BY <1>3 DEF AskedInv, Reads, ReadsNoise, ReadsCut, ComesNext, Away
    <3>3. e.stage = "ack" => hp.taken = e.out
      BY <1>3 DEF AskedInv, Astray, Away, Heard
    <3> QED
      BY <1>0, <2>2, <3>1, <3>2, <3>3 DEF FineInv
  <2> QED
    BY <1>3, <2>1, <2>2 DEF v
<1> QED
  BY <1>1, <1>2, <1>3 DEF Gives

\* A send while the Portfolio gives itself: the card may think it went over.
LEMMA LostGive ==
  ASSUME NEW e, NEW p, NEW hp, NEW hh, AskedInv(e, p, hp, hh), HostInv(e, hp), Gives(e), Gives(p)
  PROVE  \A v : FineInv(v, e, p, hp, hh)
<1>1. e.stage = "frame" => Astray(p)
  <2> SUFFICES ASSUME e.stage = "frame", ~Astray(p) PROVE FALSE
    OBVIOUS
  <2>1. Heard(p, hp, e.out, e.k - 1) /\ e.out \in Responses /\ e.k \in 1..(Len(e.out) + 4)
    BY DEF AskedInv, HostInv, SenderInv, IsSender
  <2>2. Len(e.out) \in Nat
    BY <2>1, FrameIs, BlocksAre
  <2>3. e.k - 1 # Len(e.out) + 4
    BY <2>1, <2>2
  <2> QED
    BY <2>1, <2>3 DEF Heard, Gives
<1>2. e.stage # "thanks"
  BY DEF AskedInv, Gives, Away
<1> QED
  BY <1>1, <1>2 DEF FineInv, Gives

\* A receive that reads an idle `Z` askew.
LEMMA NoiseTaken ==
  ASSUME Distinguishable, NEW e, NEW p, NEW hp, NEW hh, AskedInv(e, p, hp, hh), HostInv(e, hp),
         Takes(e), p.stage = "z", e.stage = "body" => Len(e.got) < MaxNoise, NEW v \in Mixes
  PROVE  FineInv(v, e, p, hp, hh)
<1>0. e.stage \in {"a5", "body", "sync", "ack"}
  BY DEF HostInv, Takes
<1>1. Reads(p, hh, <<>>)
  BY EmptyNoise DEF Reads, ReadsNoise
<1>2. e.stage = "body" => e.got = <<NoByte>> \/ Reads(p, hh, Append(e.got, v))
  <2> SUFFICES ASSUME e.stage = "body", e.got # <<NoByte>> PROVE Reads(p, hh, Append(e.got, v))
    OBVIOUS
  <2>1. Reads(p, hh, e.got) /\ Len(e.got) < MaxNoise
    BY DEF AskedInv
  <2> QED
    BY <2>1, NoiseRead
<1>3. e.stage # "ack"
  BY DEF AskedInv, Astray, Away, Heard
<1>4. v # Z
  BY DEF Distinguishable
<1> QED
  BY <1>0, <1>1, <1>2, <1>3, <1>4 DEF FineInv

-----------------------------------------------------------------------------
(* The invariant, step by step *)

LEMMA CableInvIs ==
  ASSUME program' = "server", ServerInv',
         PofoInv(pofo', toHost', toPofo'.offer), HostInv(host', toPofo'),
         Asked' => Head(reqs') = RequestOf(host') /\ AskedInv(host', pofo', toPofo', toHost'),
         Fine' => FineInv(Head(reps').val, host', pofo', toPofo', toHost')
  PROVE  CableInv'
BY DEF CableInv, EndsInv

\* The host asks for the next byte.
LEMMA AsksKeeps ==
  ASSUME program' = "server", ServerInv', reqs = <<>>, reps' = <<>>, NEW e, AsksFor(e),
         PofoInv(pofo', toHost', toPofo'.offer), HostInv(e, toPofo'),
         AskedInv(e, pofo', toPofo', toHost')
  PROVE  CableInv'
<1>1. host' = e /\ reqs' = <<RequestOf(e)>>
  BY Append0 DEF AsksFor
<1>2. Head(reqs') = RequestOf(host')
  BY <1>1, Ends1
<1>3. ~Fine'
  BY DEF Fine
<1> QED
  BY <1>1, <1>2, <1>3, CableInvIs

\* It is back in its loop, or off.
LEMMA RestsKeeps ==
  ASSUME program' = "server", ServerInv', reqs = <<>>, reps' = <<>>, Rests \/ Ends,
         PofoInv(pofo', toHost', toPofo'.offer), IsHistory(toPofo'), ~toPofo'.trying
  PROVE  CableInv'
<1>1. reqs' = <<>> /\ (host' = Idle \/ host' = Off)
  BY DEF Rests, Ends
<1>2. ~Asked' /\ ~Fine'
  BY <1>1 DEF Asked, Fine
<1>3. HostInv(host', toPofo')
  BY <1>1 DEF HostInv, SenderInv, IsSender, IsEnd, Idle, Off
<1> QED
  BY <1>2, <1>3, CableInvIs

\* _send_block or _receive_block returns False or None.
LEMMA FailsKeeps ==
  ASSUME CableInv, ServerInv', reqs = <<>>, HostFails(<<>>), UNCHANGED <<program, pofo>>
  PROVE  CableInv' /\ PofoKeeps /\ HostKeeps
<1>0. /\ program = "server" /\ HostInv(host, toPofo) /\ PofoInv(pofo, toHost, toPofo.offer)
      /\ IsHistory(toPofo)
  BY DEF CableInv, EndsInv, HostInv, SenderInv
<1>1. CASE host.stage = "body" /\ host.got = <<>>
  <2> DEFINE e == [host EXCEPT !.got = <<NoByte>>]
  <2>1. AsksFor(e) /\ reps' = <<>> /\ toPofo' = toPofo /\ toHost' = toHost
    BY <1>1 DEF HostFails
  <2>2. HostInv(e, toPofo) /\ AskedInv(e, pofo, toPofo, toHost)
    BY <1>0, <1>1, HostMissesHalf
  <2> HIDE DEF e
  <2>3. CableInv'
    BY <1>0, <2>1, <2>2, AsksKeeps
  <2> QED
    BY <2>1, <2>3 DEF PofoKeeps, HostKeeps, ToPofo!vars, ToHost!vars
<1>2. CASE ~(host.stage = "body" /\ host.got = <<>>)
  <2>1. Rests /\ reps' = <<>> /\ toPofo' = Settled(toPofo, FALSE) /\ toHost' = toHost
    BY <1>0, <1>2 DEF HostFails
  <2>2. PofoKeeps /\ IsHistory(toPofo') /\ ~toPofo'.trying /\ toPofo'.offer = toPofo.offer
    BY <1>0, <2>1, SettlesToPofo
  <2>3. PofoInv(pofo', toHost', toPofo'.offer)
    BY <1>0, <2>1, <2>2, Zenon
  <2>4. CableInv'
    BY <1>0, <2>1, <2>2, <2>3, RestsKeeps
  <2> QED
    BY <2>1, <2>2, <2>4 DEF HostKeeps, ToHost!vars
<1> QED
  BY <1>1, <1>2

\* The exceptions that end the server.
LEMMA EndsKeeps ==
  ASSUME CableInv, ServerInv', Ends, toPofo' = Settled(toPofo, FALSE), reqs' = <<>>,
         UNCHANGED <<program, pofo, toHost>>
  PROVE  CableInv' /\ PofoKeeps /\ HostKeeps
<1>0. /\ program = "server" /\ PofoInv(pofo, toHost, toPofo.offer) /\ IsHistory(toPofo)
  BY DEF CableInv, EndsInv, HostInv, SenderInv
<1>1. PofoKeeps /\ IsHistory(toPofo') /\ ~toPofo'.trying /\ toPofo'.offer = toPofo.offer
  BY <1>0, SettlesToPofo
<1>2. PofoInv(pofo', toHost', toPofo'.offer)
  BY <1>0, <1>1, Zenon
<1>3. host' = Off /\ ~Asked' /\ ~Fine'
  BY DEF Ends, Asked, Fine
<1>4. HostInv(host', toPofo')
  BY <1>1, <1>3 DEF HostInv, SenderInv, IsSender, IsEnd, Idle, Off
<1>5. CableInv'
  BY <1>0, <1>2, <1>3, <1>4, CableInvIs
<1> QED
  BY <1>1, <1>5 DEF HostKeeps, ToHost!vars

\* A reply that the host takes for what it asked.
LEMMA ReplyIsOwn ==
  ASSUME CableInv, TakeReply
  PROVE  /\ reqs = <<>> /\ Waiting /\ ~cancelling' /\ UNCHANGED <<program, pofo>>
         /\ \/ HostFails(<<>>)
            \/ /\ FineInv(Head(reps).val, host, pofo, toPofo, toHost)
               /\ HostGoesOn(IF Gives(host) THEN AfterGive(host)
                             ELSE AfterTake(host, Head(reps).val, MaxLen), <<>>)
<1>1. /\ ServerInv /\ program = "server" /\ ~cancelling /\ Waiting /\ reps # <<>>
      /\ ~cancelling' /\ UNCHANGED <<program, pofo>>
  BY DEF CableInv, TakeReply
<1>2. Asking
  BY <1>1 DEF ServerInv
<1>3. reqs = <<>> /\ One(reps, {Kind(host)})
  BY <1>1, <1>2 DEF Asking
<1>4. Head(reps) = reps[1] /\ Tail(reps) = <<>>
  BY <1>3, Ends1 DEF One
<1>5. Answers(Head(reps))
  BY <1>3, <1>4 DEF One, Answers
<1>6. CASE Head(reps).ok
  <2>1. HostGoesOn(IF Gives(host) THEN AfterGive(host) ELSE AfterTake(host, Head(reps).val, MaxLen), <<>>)
    BY <1>4, <1>5, <1>6 DEF TakeReply
  <2>2. Fine
    BY <1>1, <1>6 DEF Fine
  <2> QED
    BY <1>1, <1>3, <2>1, <2>2 DEF CableInv
<1>7. CASE ~Head(reps).ok
  <2>1. HostFails(<<>>)
    BY <1>4, <1>5, <1>7 DEF TakeReply
  <2> QED
    BY <1>1, <1>3, <2>1
<1> QED
  BY <1>6, <1>7

\* The block goes on.
LEMMA GoesOnKeeps ==
  ASSUME CableInv, ServerInv', reqs = <<>>, UNCHANGED <<program, pofo>>,
         NEW e, HostGoesOn(e, <<>>), e.stage \in {"a5", "frame", "ack", "body"},
         HostInv(e, toPofo), AskedInv(e, pofo, toPofo, toHost)
  PROVE  CableInv' /\ PofoKeeps /\ HostKeeps
<1>1. AsksFor(e) /\ reps' = <<>> /\ toHost' = TakenBy(host, e, toHost) /\ toPofo' = toPofo
  BY DEF HostGoesOn
<1>2. toHost' = toHost
  BY <1>1 DEF TakenBy
<1>3. program' = "server" /\ PofoInv(pofo, toHost, toPofo.offer)
  BY DEF CableInv, EndsInv
<1>4. CableInv'
  BY <1>1, <1>2, <1>3, AsksKeeps
<1> QED
  BY <1>1, <1>2, <1>4 DEF PofoKeeps, HostKeeps, ToPofo!vars, ToHost!vars

LEMMA TakeReplyKeeps ==
  ASSUME Distinguishable, CableInv, ServerInv', TakeReply
  PROVE  CableInv' /\ PofoKeeps /\ HostKeeps
<1>0. /\ program = "server" /\ HostInv(host, toPofo) /\ PofoInv(pofo, toHost, toPofo.offer)
      /\ IsHistory(toPofo) /\ IsHistory(toHost) /\ IsEnd(host) /\ program' = "server"
      /\ reqs = <<>> /\ Waiting /\ UNCHANGED <<program, pofo>>
  BY ReplyIsOwn DEF CableInv, EndsInv, HostInv, PofoInv, SenderInv
<1> DEFINE v == Head(reps).val
           e == IF Gives(host) THEN AfterGive(host) ELSE AfterTake(host, v, MaxLen)
<1>1. CASE HostFails(<<>>)
  BY <1>0, <1>1, FailsKeeps
<1>2. ASSUME FineInv(v, host, pofo, toPofo, toHost), HostGoesOn(e, <<>>)
      PROVE  CableInv' /\ PofoKeeps /\ HostKeeps
  <2> HIDE DEF v
  <2>1. CASE Gives(host)
    <3>1. e = AfterGive(host)
      BY <2>1
    <3> HIDE DEF e
    <3>2. CASE host.stage = "thanks" /\ e.stage = "done" /\ (Away(pofo) \/ pofo.stage = "z")
      <4>1. HostDone(<<>>)
        BY <1>2, <3>2 DEF HostGoesOn
      <4>2. PICK b \in Responses : AsksFor(Sender(b)) /\ toPofo' = Offered(toPofo, b)
        BY <1>0, <3>2, <4>1 DEF HostDone
      <4>3. reps' = <<>> /\ toHost' = toHost
        BY <4>1 DEF HostDone
      <4>4. PofoKeeps /\ IsHistory(toPofo') /\ toPofo'.trying /\ toPofo'.offer = b
        BY <1>0, <4>2, BlocksAre, OffersToPofo
      <4>5. HostInv(Sender(b), toPofo')
        BY <4>4 DEF HostInv, SenderInv, IsSender, IsEnd, Sender
      <4>6. PofoInv(pofo', toHost', toPofo'.offer)
        BY <1>0, <3>2, <4>3 DEF PofoInv, Away
      <4>7. AskedInv(Sender(b), pofo', toPofo', toHost')
        BY <1>0, <3>2 DEF AskedInv, Sender
      <4>8. CableInv'
        BY <1>0, <4>2, <4>3, <4>5, <4>6, <4>7, AsksKeeps
      <4> QED
        BY <4>3, <4>4, <4>8 DEF HostKeeps, ToHost!vars
    <3>3. CASE e.stage \in {"a5", "frame", "ack"} /\ HostInv(e, toPofo) /\ AskedInv(e, pofo, toPofo, toHost)
      BY <1>0, <1>2, <3>3, GoesOnKeeps
    <3> QED
      BY <1>0, <1>2, <2>1, <3>1, <3>2, <3>3, HostGives
  <2>2. CASE host.stage = "body"
    <3>1. e = Collect(host, Append(host.got, v), MaxLen)
      BY <2>2 DEF Gives, AfterTake
    <3> HIDE DEF e
    <3>2. CASE e.stage = "failed"
      <4>1. HostFails(<<>>)
        BY <1>2, <3>2 DEF HostGoesOn
      <4> QED
        BY <1>0, <4>1, FailsKeeps
    <3>3. CASE e.stage = "toolong"
      <4>1. Ends /\ toPofo' = toPofo /\ toHost' = toHost
        BY <1>0, <1>2, <3>3 DEF HostGoesOn
      <4>2. ~toPofo.trying
        BY <1>0, <2>2 DEF HostInv, SenderInv, IsSender
      <4>3. toPofo' = Settled(toPofo, FALSE) /\ reqs' = <<>>
        BY <4>1, <4>2 DEF Settled, Ends
      <4> QED
        BY <1>0, <4>1, <4>3, EndsKeeps
    <3>4. CASE e.stage = "body" /\ HostInv(e, toPofo) /\ AskedInv(e, pofo, toPofo, toHost)
      BY <1>0, <1>2, <3>4, GoesOnKeeps
    <3>5. ASSUME e.stage = "thanks", HostInv(e, toPofo), NEW b \in RequestBlocks,
                 b \in Doubts(toHost), BodyPayload(e.got) = b, Last(e.got) # Z,
                 Away(pofo) \/ (pofo.stage = "ack" /\ pofo.out = b)
          PROVE  CableInv' /\ PofoKeeps /\ HostKeeps
      <4>1. AsksFor(e) /\ reps' = <<>> /\ toHost' = TakenBy(host, e, toHost) /\ toPofo' = toPofo
        BY <1>2, <3>5 DEF HostGoesOn
      <4>2. toHost' = [toHost EXCEPT !.taken = b]
        BY <2>2, <3>5, <4>1 DEF TakenBy
      <4>3. b \in toHost.doubtful \cup {toHost.offer} /\ b # NoBlock
        BY <3>5, BlocksAre, FrameIs DEF Doubts
      <4>4. /\ HostKeeps /\ IsHistory(toHost') /\ toHost'.trying = toHost.trying
            /\ toHost'.offer = toHost.offer /\ toHost'.taken = b
        BY <1>0, <4>2, <4>3, TakesToHost
      <4>5. PofoInv(pofo', toHost', toPofo'.offer)
        BY <1>0, <4>1, <4>4 DEF PofoInv, SenderInv
      <4>6. AskedInv(e, pofo', toPofo', toHost')
        BY <1>0, <3>5, <4>4 DEF AskedInv
      <4>7. CableInv'
        BY <1>0, <3>5, <4>1, <4>5, <4>6, AsksKeeps
      <4> QED
        BY <4>1, <4>4, <4>7 DEF PofoKeeps, ToPofo!vars
    <3> QED
      BY <1>0, <1>2, <2>2, <3>1, <3>2, <3>3, <3>4, <3>5, HostCollects
  <2>3. CASE Takes(host) /\ host.stage # "body"
    <3>1. e = AfterTake(host, v, MaxLen)
      BY <2>3 DEF Gives, Takes
    <3> HIDE DEF e
    <3>2. CASE e.stage = "failed"
      <4>1. HostFails(<<>>)
        BY <1>2, <3>2 DEF HostGoesOn
      <4> QED
        BY <1>0, <4>1, FailsKeeps
    <3>3. CASE e.stage = "done" /\ host.stage = "ack" /\ toPofo.taken = host.out
      <4>1. HostDone(<<>>)
        BY <1>2, <3>3 DEF HostGoesOn
      <4>2. Rests /\ toPofo' = Settled(toPofo, TRUE) /\ reps' = <<>> /\ toHost' = toHost
        BY <1>0, <3>3, <4>1 DEF HostDone
      <4>3. toPofo.taken = toPofo.offer
        BY <1>0, <3>3 DEF HostInv, SenderInv, IsSender
      <4>4. PofoKeeps /\ IsHistory(toPofo') /\ ~toPofo'.trying /\ toPofo'.offer = toPofo.offer
        BY <1>0, <4>2, <4>3, SettlesToPofo
      <4>5. PofoInv(pofo', toHost', toPofo'.offer)
        BY <1>0, <4>2, <4>4, Zenon
      <4>6. CableInv'
        BY <1>0, <4>2, <4>4, <4>5, RestsKeeps
      <4> QED
        BY <4>2, <4>4, <4>6 DEF HostKeeps, ToHost!vars
    <3>4. CASE e.stage \in {"body", "frame"} /\ HostInv(e, toPofo) /\ AskedInv(e, pofo, toPofo, toHost)
      BY <1>0, <1>2, <3>4, GoesOnKeeps
    <3> QED
      BY <1>0, <1>2, <2>3, <3>1, <3>2, <3>3, <3>4, HostTakes
  <2> QED
    BY <1>0, <2>1, <2>2, <2>3 DEF Waiting
<1> QED
  BY <1>1, <1>2, ReplyIsOwn

\* The server starts to read what the Port C event announced.
LEMMA WaitEventKeeps ==
  ASSUME CableInv, ServerInv', WaitEvent PROVE CableInv' /\ PofoKeeps /\ HostKeeps
<1>1. /\ HostInv(host, toPofo) /\ PofoInv(pofo, toHost, toPofo.offer) /\ program' = "server"
      /\ AsksFor(Receiver(NoBlock)) /\ host.stage = "idle"
      /\ UNCHANGED <<pofo, reps, toPofo, toHost>>
  BY DEF CableInv, EndsInv, WaitEvent
<1>2. reqs = <<>> /\ reps' = <<>>
  BY <1>1 DEF CableInv, ServerInv, Waiting, Gives, Takes, Quiescent, Crossing, WaitEvent
<1> DEFINE e == Receiver(NoBlock)
<1>3. HostInv(e, toPofo')
  BY <1>1 DEF HostInv, SenderInv, IsSender, IsEnd, Receiver
<1>4. AskedInv(e, pofo', toPofo', toHost')
  BY DEF AskedInv, Receiver
<1> HIDE DEF e
<1>5. CableInv'
  BY <1>1, <1>2, <1>3, <1>4, AsksKeeps DEF e
<1> QED
  BY <1>1, <1>5 DEF PofoKeeps, HostKeeps, ToPofo!vars, ToHost!vars

\* A cancellation leaves the request where it is, and no reply is taken until its own.
LEMMA TimeoutKeeps ==
  ASSUME CableInv, ServerInv', Timeout PROVE CableInv' /\ PofoKeeps /\ HostKeeps
<1>1. /\ program' = "server" /\ cancelling' /\ reqs' = Append(reqs, CancelRequest)
      /\ UNCHANGED <<host, pofo, reps, toPofo, toHost>> /\ EndsInv /\ Asking
  BY DEF CableInv, ServerInv, Timeout
<1>2. CancelRequest.kind = "cancel"
  BY DEF CancelRequest
<1>3. ~Fine'
  BY <1>1 DEF Fine
<1>4. Asked' => Asked /\ Head(reqs') = Head(reqs)
  <2>1. CASE reqs = <<>>
    <3>1. Head(reqs') = CancelRequest
      BY <1>1, <2>1, Append0, Ends1
    <3> QED
      BY <1>2, <3>1 DEF Asked
  <2>2. CASE One(reqs, {Kind(host)})
    <3>1. reqs = <<reqs[1]>> /\ reqs[1].kind = Kind(host)
      BY <2>2 DEF One
    <3>2. reqs' = <<reqs[1], CancelRequest>> /\ Head(reqs) = reqs[1]
      BY <1>1, <3>1, Append1, Ends1
    <3>3. Head(reqs') = reqs[1]
      BY <3>2, Ends2
    <3> QED
      BY <3>1, <3>2, <3>3 DEF Asked
  <2> QED
    BY <1>1, <2>1, <2>2 DEF Asking
<1>5. Asked' => Head(reqs') = RequestOf(host') /\ AskedInv(host', pofo', toPofo', toHost')
  BY <1>1, <1>4, Zenon DEF CableInv
<1>6. CableInv'
  BY <1>1, <1>3, <1>5, CableInvIs DEF EndsInv
<1> QED
  BY <1>1, <1>6 DEF PofoKeeps, HostKeeps, ToPofo!vars, ToHost!vars

LEMMA CancelledKeeps ==
  ASSUME CableInv, ServerInv', Cancelled PROVE CableInv' /\ PofoKeeps /\ HostKeeps
<1>1. /\ program' = "server" /\ cancelling /\ reps # <<>> /\ EndsInv /\ Crossing /\ UNCHANGED <<program, pofo>>
  BY DEF CableInv, ServerInv, Cancelled
<1>2. CASE Head(reps).kind # "cancel"
  <2>1. cancelling' /\ UNCHANGED <<program, host, pofo, reqs, toPofo, toHost>>
    BY <1>1, <1>2 DEF Cancelled
  <2>2. ~Fine'
    BY <2>1 DEF Fine
  <2>3. Asked' => Head(reqs') = RequestOf(host') /\ AskedInv(host', pofo', toPofo', toHost')
    BY <2>1, Zenon DEF CableInv, Asked
  <2>4. CableInv'
    BY <1>1, <2>1, <2>2, <2>3, CableInvIs DEF EndsInv
  <2> QED
    BY <2>1, <2>4 DEF PofoKeeps, HostKeeps, ToPofo!vars, ToHost!vars
<1>3. CASE Head(reps).kind = "cancel"
  <2>1. reqs = <<>> /\ One(reps, {"cancel"})
    BY <1>1, <1>3, Ends1, Ends2 DEF Crossing, One, Two
  <2>2. Tail(reps) = <<>>
    BY <2>1, Ends1 DEF One
  <2>3. HostFails(<<>>) \/ (Ends /\ toPofo' = Settled(toPofo, FALSE) /\ UNCHANGED toHost)
    BY <1>3, <2>2 DEF Cancelled
  <2>4. CASE HostFails(<<>>)
    BY <1>1, <2>1, <2>4, FailsKeeps
  <2>5. CASE Ends /\ toPofo' = Settled(toPofo, FALSE) /\ UNCHANGED toHost
    <3>1. reqs' = <<>>
      BY <2>5 DEF Ends
    <3> QED
      BY <1>1, <2>5, <3>1, EndsKeeps
  <2> QED
    BY <2>3, <2>4, <2>5
<1> QED
  BY <1>2, <1>3

LEMMA CancelUnansweredKeeps ==
  ASSUME CableInv, ServerInv', CancelUnanswered PROVE CableInv' /\ PofoKeeps /\ HostKeeps
<1>1. /\ Ends /\ toPofo' = Settled(toPofo, FALSE) /\ UNCHANGED <<program, pofo, toHost>>
  BY DEF CancelUnanswered
<1>2. reqs' = <<>>
  BY <1>1 DEF Ends
<1> QED
  BY <1>1, <1>2, EndsKeeps

-----------------------------------------------------------------------------

\* What the messages say when the Portfolio has gone away and the host waits on.
LEMMA AwayLeaves ==
  ASSUME CableInv, ServerInv', UNCHANGED <<program, host, cancelling, reqs, reps, toPofo>>,
         PofoInv(pofo', toHost', toPofo.offer), Away(pofo'), Doubts(toHost) \subseteq Doubts(toHost')
  PROVE  CableInv'
<1>1. EndsInv /\ program' = "server"
  BY DEF CableInv
<1>2. /\ AskedInv(host, pofo, toPofo, toHost) => AskedInv(host, pofo', toPofo, toHost')
      /\ \A v : FineInv(v, host, pofo, toPofo, toHost) => FineInv(v, host, pofo', toPofo, toHost')
  BY AwayKeeps
<1>3. Asked' => Head(reqs') = RequestOf(host') /\ AskedInv(host', pofo', toPofo', toHost')
  BY <1>2, Zenon DEF CableInv, Asked
<1>4. Fine' => FineInv(Head(reps').val, host', pofo', toPofo', toHost')
  BY <1>2, Zenon DEF CableInv, Fine
<1>5. PofoInv(pofo', toHost', toPofo'.offer) /\ HostInv(host', toPofo')
  BY <1>1, Zenon DEF EndsInv
<1> QED
  BY <1>1, <1>3, <1>4, <1>5, CableInvIs

LEMMA PofoTransmitsKeeps ==
  ASSUME CableInv, ServerInv', PofoTransmits PROVE CableInv' /\ PofoKeeps /\ HostKeeps
<1>1. /\ UNCHANGED <<program, host, cancelling, reqs, reps, toPofo>>
      /\ EndsInv /\ IsHistory(toHost)
  BY DEF CableInv, EndsInv, PofoInv, SenderInv, PofoTransmits
<1>2. PICK b \in RequestBlocks : pofo' = Sender(b) /\ toHost' = Offered(toHost, b)
  BY DEF PofoTransmits, RequestBlocks
<1>3. /\ HostKeeps /\ IsHistory(toHost') /\ toHost'.trying /\ toHost'.offer = b
      /\ toHost'.doubtful = IF toHost.trying THEN toHost.doubtful \cup {toHost.offer} ELSE toHost.doubtful
  BY <1>1, <1>2, BlocksAre, OffersToHost
<1>4. Doubts(toHost) \subseteq Doubts(toHost')
  BY <1>3 DEF Doubts
<1>5. PofoInv(pofo', toHost', toPofo.offer) /\ Away(pofo')
  BY <1>2, <1>3 DEF PofoInv, SenderInv, IsSender, IsEnd, Sender, Away
<1>6. CableInv'
  BY <1>1, <1>4, <1>5, AwayLeaves
<1> QED
  BY <1>1, <1>3, <1>6 DEF PofoKeeps, ToPofo!vars

\* The Portfolio's end of a block that it gives up.
LEMMA PofoFailsIs ==
  ASSUME CableInv, PofoFails
  PROVE  /\ HostKeeps /\ toPofo' = toPofo /\ PofoInv(pofo', toHost', toPofo.offer)
         /\ Away(pofo') /\ Doubts(toHost) \subseteq Doubts(toHost')
<1>1. program = "server" /\ IsHistory(toHost)
  BY DEF CableInv, EndsInv, PofoInv, SenderInv
<1>2. pofo' = Idle /\ toHost' = Settled(toHost, FALSE) /\ toPofo' = toPofo
  BY <1>1 DEF PofoFails, PofoRests
<1>3. HostKeeps /\ IsHistory(toHost') /\ ~toHost'.trying /\ Doubts(toHost) \subseteq toHost'.doubtful
  BY <1>1, <1>2, SettlesToHost
<1>4. PofoInv(pofo', toHost', toPofo.offer) /\ Away(pofo')
  BY <1>2, <1>3 DEF PofoInv, SenderInv, IsSender, IsEnd, Idle, Away
<1> QED
  BY <1>2, <1>3, <1>4 DEF Doubts

LEMMA PofoGivesUpKeeps ==
  ASSUME CableInv, ServerInv', PofoGivesUp PROVE CableInv' /\ PofoKeeps /\ HostKeeps
<1>1. PofoFails /\ UNCHANGED <<program, host, cancelling, reqs, reps>>
  BY DEF PofoGivesUp
<1>2. /\ HostKeeps /\ toPofo' = toPofo /\ PofoInv(pofo', toHost', toPofo.offer)
      /\ Away(pofo') /\ Doubts(toHost) \subseteq Doubts(toHost')
  BY <1>1, PofoFailsIs
<1>3. CableInv'
  BY <1>1, <1>2, AwayLeaves
<1> QED
  BY <1>2, <1>3 DEF PofoKeeps, ToPofo!vars

-----------------------------------------------------------------------------
(* The card *)

\* The answer that the host may read next is this one, and nothing else is asked.
LEMMA AnswerIs ==
  ASSUME CableInv, reqs # <<>>, Head(reqs).kind \in {"send", "receive"},
         NEW ok, NEW v, Answer(Head(reqs).kind, ok, v), UNCHANGED cancelling
  PROVE  /\ ~Asked' /\ (Fine' => ok /\ Head(reps').val = v)
         /\ Head(reqs) = RequestOf(host) /\ AskedInv(host, pofo, toPofo, toHost) /\ Waiting
<1> DEFINE r == [kind |-> Head(reqs).kind, ok |-> ok, val |-> v]
<1>1. reqs' = Tail(reqs) /\ reps' = Append(reps, r)
  BY DEF Answer
<1>2. r.ok = ok /\ r.val = v
  OBVIOUS
<1> HIDE DEF r
<1>3. ServerInv /\ program = "server" /\ Asked
  BY DEF CableInv, Asked
<1>4. Head(reqs) = RequestOf(host) /\ AskedInv(host, pofo, toPofo, toHost)
  BY <1>3 DEF CableInv
<1>5. CASE ~cancelling
  <2>1. Waiting /\ One(reqs, {Kind(host)}) /\ reps = <<>>
    BY <1>3, <1>5 DEF ServerInv, Asking, Quiescent
  <2>2. reqs' = <<>> /\ reps' = <<r>>
    BY <1>1, <2>1, Append0, Ends1 DEF One
  <2>3. Head(reps') = r
    BY <2>2, Ends1
  <2> QED
    BY <1>2, <1>4, <2>1, <2>2, <2>3 DEF Asked, Fine
<1>6. CASE cancelling
  <2>1. Waiting /\ Crossing
    BY <1>3, <1>6 DEF ServerInv
  <2>2. ~One(reqs, {"cancel"})
    BY Ends1 DEF One
  <2>3. Two(reqs)
    BY <2>1, <2>2 DEF Crossing
  <2> DEFINE x == reqs[1]
             y == reqs[2]
  <2>4. reqs = <<x, y>> /\ y.kind = "cancel"
    BY <2>3 DEF Two
  <2> HIDE DEF x, y
  <2>5. reqs' = <<y>>
    BY <1>1, <2>4, Ends2
  <2>6. Head(reqs') = y
    BY <2>5, Ends1
  <2> QED
    BY <1>4, <1>6, <2>1, <2>4, <2>6 DEF Asked, Fine
<1> QED
  BY <1>5, <1>6

\* What the answer changes.
LEMMA AnsweredKeeps ==
  ASSUME CableInv, ServerInv', reqs # <<>>, Head(reqs).kind \in {"send", "receive"},
         NEW ok, NEW v, Answer(Head(reqs).kind, ok, v), UNCHANGED <<program, host, cancelling>>,
         PofoInv(pofo', toHost', toPofo'.offer), HostInv(host, toPofo'),
         ok => FineInv(v, host, pofo', toPofo', toHost')
  PROVE  CableInv'
<1>1. ~Asked' /\ (Fine' => ok /\ Head(reps').val = v)
  BY AnswerIs
<1>2. Fine' => FineInv(Head(reps').val, host', pofo', toPofo', toHost')
  BY <1>1, Zenon
<1>3. HostInv(host', toPofo') /\ program' = "server"
  BY DEF CableInv
<1> QED
  BY <1>1, <1>2, <1>3, CableInvIs

LEMMA SendPassesKeeps ==
  ASSUME Distinguishable, CableInv, ServerInv', reqs # <<>>, Head(reqs).kind = "send", Takes(pofo),
         PofoGoesOn(AfterTake(pofo, Head(reqs).val, RomMaxLen)),
         NEW ok \in BOOLEAN, Answer("send", ok, NoByte), CardUnchanged
  PROVE  CableInv' /\ PofoKeeps /\ HostKeeps
<1>0. /\ program = "server" /\ HostInv(host, toPofo) /\ PofoInv(pofo, toHost, toPofo.offer)
      /\ IsHistory(toPofo) /\ IsHistory(toHost) /\ UNCHANGED <<program, host, cancelling>>
      /\ SenderInv(pofo, toHost, RequestBlocks)
  BY DEF CableInv, EndsInv, HostInv, PofoInv, SenderInv, CardUnchanged
<1>1. /\ Head(reqs) = RequestOf(host) /\ AskedInv(host, pofo, toPofo, toHost)
      /\ Answer(Head(reqs).kind, ok, NoByte)
  BY <1>0, AnswerIs
<1>2. Gives(host) /\ Head(reqs).val = ByteOf(host)
  BY <1>1 DEF RequestOf, Kind
<1> DEFINE r == AfterTake(pofo, ByteOf(host), RomMaxLen)
<1>3. PofoGoesOn(r)
  BY <1>2
<1>4. \/ r.stage \in {"failed", "toolong"}
      \/ r.stage = "done" /\ pofo.stage = "ack" /\ host.stage = "thanks" /\ toHost.taken = pofo.out
      \/ /\ r.stage = "thanks" /\ pofo.stage = "body" /\ PofoInv(r, toHost, toPofo.offer)
         /\ BodyPayload(r.got) = toPofo.offer /\ toPofo.offer \in Responses
         /\ \A v, h : h.taken = toPofo.offer => FineInv(v, host, r, h, toHost)
      \/ /\ r.stage \in {"body", "frame"} /\ PofoInv(r, toHost, toPofo.offer)
         /\ pofo.stage = "body" => r.stage = "body"
         /\ \A v : FineInv(v, host, r, toPofo, toHost)
  BY <1>0, <1>1, <1>2, PofoTakes
<1> HIDE DEF r
<1>5. CASE r.stage \in {"failed", "toolong"}
  <2>1. PofoFails
    BY <1>3, <1>5 DEF PofoGoesOn
  <2>2. /\ HostKeeps /\ toPofo' = toPofo /\ PofoInv(pofo', toHost', toPofo.offer) /\ Away(pofo')
    BY <2>1, PofoFailsIs
  <2>3. \A v : FineInv(v, host, pofo', toPofo', toHost')
    BY <1>2, <2>2, AwayFine
  <2>4. PofoInv(pofo', toHost', toPofo'.offer) /\ HostInv(host, toPofo')
    BY <1>0, <2>2, Zenon
  <2>5. CableInv'
    BY <1>0, <1>1, <2>3, <2>4, AnsweredKeeps
  <2> QED
    BY <2>2, <2>5 DEF PofoKeeps, ToPofo!vars
<1>6. CASE r.stage = "done" /\ pofo.stage = "ack" /\ host.stage = "thanks" /\ toHost.taken = pofo.out
  <2>1. PofoDone /\ toPofo' = toPofo
    BY <1>3, <1>6 DEF PofoGoesOn
  <2>2. pofo' = Receiver(NoBlock) /\ toHost' = Settled(toHost, TRUE)
    BY <1>0, <1>6, <2>1 DEF PofoDone
  <2>3. toHost.taken = toHost.offer
    BY <1>0, <1>6 DEF SenderInv, IsSender
  <2>4. HostKeeps /\ IsHistory(toHost') /\ ~toHost'.trying
    BY <1>0, <2>2, <2>3, SettlesToHost
  <2>5. PofoInv(pofo', toHost', toPofo'.offer)
    BY <2>2, <2>4 DEF PofoInv, SenderInv, IsSender, IsEnd, Receiver
  <2>6. \A v : FineInv(v, host, pofo', toPofo', toHost')
    BY <1>6, <2>2 DEF FineInv, Receiver
  <2>7. HostInv(host, toPofo')
    BY <1>0, <2>1, Zenon
  <2>8. CableInv'
    BY <1>0, <1>1, <2>5, <2>6, <2>7, AnsweredKeeps
  <2> QED
    BY <2>1, <2>4, <2>8 DEF PofoKeeps, ToPofo!vars
<1>7. ASSUME r.stage = "thanks", pofo.stage = "body", PofoInv(r, toHost, toPofo.offer),
             BodyPayload(r.got) = toPofo.offer, toPofo.offer \in Responses,
             \A v, h : h.taken = toPofo.offer => FineInv(v, host, r, h, toHost)
      PROVE  CableInv' /\ PofoKeeps /\ HostKeeps
  <2>1. pofo' = r /\ toPofo' = TakenBy(pofo, r, toPofo) /\ toHost' = toHost
    BY <1>3, <1>7 DEF PofoGoesOn
  <2>2. toPofo' = [toPofo EXCEPT !.taken = toPofo.offer]
    BY <1>7, <2>1 DEF TakenBy
  <2>3. toPofo.offer # NoBlock
    BY <1>7, BlocksAre, FrameIs
  <2>4. /\ PofoKeeps /\ IsHistory(toPofo') /\ toPofo'.trying = toPofo.trying
        /\ toPofo'.offer = toPofo.offer /\ toPofo'.taken = toPofo.offer
    BY <1>0, <2>2, <2>3, TakesToPofo
  <2>5. PofoInv(pofo', toHost', toPofo'.offer)
    BY <1>7, <2>1, <2>4, Zenon
  <2>6. HostInv(host, toPofo')
    BY <1>0, <2>4 DEF HostInv, SenderInv
  <2>7. FineInv(NoByte, host, pofo', toPofo', toHost')
    BY <1>7, <2>1, <2>4, Zenon
  <2>8. CableInv'
    BY <1>0, <1>1, <2>5, <2>6, <2>7, AnsweredKeeps
  <2> QED
    BY <2>1, <2>4, <2>8 DEF HostKeeps, ToHost!vars
<1>8. ASSUME r.stage \in {"body", "frame"}, PofoInv(r, toHost, toPofo.offer),
             \A v : FineInv(v, host, r, toPofo, toHost)
      PROVE  CableInv' /\ PofoKeeps /\ HostKeeps
  <2>1. pofo' = r /\ toPofo' = TakenBy(pofo, r, toPofo) /\ toHost' = toHost
    BY <1>3, <1>8 DEF PofoGoesOn
  <2>2. toPofo' = toPofo
    BY <1>8, <2>1 DEF TakenBy
  <2>3. PofoInv(pofo', toHost', toPofo'.offer) /\ HostInv(host, toPofo')
    BY <1>0, <1>8, <2>1, <2>2, Zenon
  <2>4. FineInv(NoByte, host, pofo', toPofo', toHost')
    BY <1>8, <2>1, <2>2, Zenon
  <2>5. CableInv'
    BY <1>0, <1>1, <2>3, <2>4, AnsweredKeeps
  <2> QED
    BY <2>1, <2>2, <2>5 DEF PofoKeeps, HostKeeps, ToPofo!vars, ToHost!vars
<1> QED
  BY <1>4, <1>5, <1>6, <1>7, <1>8

LEMMA ReceivePassesKeeps ==
  ASSUME Distinguishable, CableInv, ServerInv', reqs # <<>>, Head(reqs).kind = "receive", Gives(pofo), StillWaits,
         PofoGoesOn(AfterGive(pofo)),
         NEW ok \in BOOLEAN, Answer("receive", ok, ByteOf(pofo)), CardUnchanged
  PROVE  CableInv' /\ PofoKeeps /\ HostKeeps
<1>0. /\ program = "server" /\ HostInv(host, toPofo) /\ PofoInv(pofo, toHost, toPofo.offer)
      /\ IsHistory(toPofo) /\ IsHistory(toHost) /\ UNCHANGED <<program, host, cancelling>>
      /\ SenderInv(pofo, toHost, RequestBlocks)
  BY DEF CableInv, EndsInv, HostInv, PofoInv, SenderInv, CardUnchanged
<1> DEFINE v == ByteOf(pofo)
           r == AfterGive(pofo)
<1>1. /\ Head(reqs) = RequestOf(host) /\ AskedInv(host, pofo, toPofo, toHost) /\ Waiting
      /\ Answer(Head(reqs).kind, ok, v)
  BY <1>0, AnswerIs
<1>2. Takes(host)
  BY <1>1 DEF RequestOf, Kind, Waiting
<1>3. \/ /\ pofo.stage = "thanks" /\ r.stage = "done"
         /\ \A q, h : Away(q) => FineInv(v, host, q, toPofo, h)
      \/ /\ r.stage \in {"a5", "frame", "ack"}
         /\ PofoInv(r, toHost, toPofo.offer) /\ FineInv(v, host, r, toPofo, toHost)
  BY <1>0, <1>1, <1>2, PofoGives DEF StillWaits
<1>4. PofoGoesOn(r)
  OBVIOUS
<1> HIDE DEF r, v
<1>5. ASSUME pofo.stage = "thanks", r.stage = "done",
             \A q, h : Away(q) => FineInv(v, host, q, toPofo, h)
      PROVE  CableInv' /\ PofoKeeps /\ HostKeeps
  <2>1. PofoDone /\ toPofo' = toPofo
    BY <1>4, <1>5 DEF PofoGoesOn
  <2>2. pofo' = Idle /\ toHost' = Settled(toHost, TRUE)
    BY <1>0, <1>5, <2>1 DEF PofoDone, PofoRests
  <2>3. ~toHost.trying
    BY <1>0, <1>5 DEF SenderInv, IsSender
  <2>4. HostKeeps /\ IsHistory(toHost') /\ ~toHost'.trying
    BY <1>0, <2>2, <2>3, SettlesToHost
  <2>5. PofoInv(pofo', toHost', toPofo'.offer) /\ Away(pofo')
    BY <2>2, <2>4 DEF PofoInv, SenderInv, IsSender, IsEnd, Idle, Away
  <2>6. FineInv(v, host, pofo', toPofo', toHost') /\ HostInv(host, toPofo')
    BY <1>0, <1>5, <2>1, <2>5, Zenon
  <2>7. CableInv'
    BY <1>0, <1>1, <2>5, <2>6, AnsweredKeeps
  <2> QED
    BY <2>1, <2>4, <2>7 DEF PofoKeeps, ToPofo!vars
<1>6. ASSUME r.stage \in {"a5", "frame", "ack"}, PofoInv(r, toHost, toPofo.offer),
             FineInv(v, host, r, toPofo, toHost)
      PROVE  CableInv' /\ PofoKeeps /\ HostKeeps
  <2>1. pofo' = r /\ toPofo' = TakenBy(pofo, r, toPofo) /\ toHost' = toHost
    BY <1>4, <1>6 DEF PofoGoesOn
  <2>2. toPofo' = toPofo
    BY <1>6, <2>1 DEF TakenBy
  <2>3. PofoInv(pofo', toHost', toPofo'.offer) /\ HostInv(host, toPofo')
    BY <1>0, <1>6, <2>1, <2>2, Zenon
  <2>4. FineInv(v, host, pofo', toPofo', toHost')
    BY <1>6, <2>1, <2>2, Zenon
  <2>5. CableInv'
    BY <1>0, <1>1, <2>3, <2>4, AnsweredKeeps
  <2> QED
    BY <2>1, <2>2, <2>5 DEF PofoKeeps, HostKeeps, ToPofo!vars, ToHost!vars
<1> QED
  BY <1>3, <1>5, <1>6

LEMMA PassByteKeeps ==
  ASSUME Distinguishable, CableInv, ServerInv', PassByte PROVE CableInv' /\ PofoKeeps /\ HostKeeps
<1>1. CASE /\ Head(reqs).kind = "send" /\ Takes(pofo)
           /\ PofoGoesOn(AfterTake(pofo, Head(reqs).val, RomMaxLen))
           /\ \E ok \in BOOLEAN : Answer("send", ok, NoByte)
  BY <1>1, SendPassesKeeps DEF PassByte
<1>2. CASE /\ Head(reqs).kind = "receive" /\ Gives(pofo) /\ StillWaits
           /\ PofoGoesOn(AfterGive(pofo))
           /\ \E ok \in BOOLEAN : Answer("receive", ok, ByteOf(pofo))
  BY <1>2, ReceivePassesKeeps DEF PassByte
<1> QED
  BY <1>1, <1>2 DEF PassByte

LEMMA LoseByteKeeps ==
  ASSUME Distinguishable, CableInv, ServerInv', LoseByte PROVE CableInv' /\ PofoKeeps /\ HostKeeps
<1>0. /\ program = "server" /\ HostInv(host, toPofo) /\ PofoInv(pofo, toHost, toPofo.offer)
      /\ reqs # <<>> /\ Head(reqs).kind # "cancel"
      /\ UNCHANGED <<program, host, cancelling, pofo, toPofo, toHost>>
  BY DEF CableInv, EndsInv, LoseByte, CardUnchanged
<1>1. Head(reqs) = RequestOf(host) /\ AskedInv(host, pofo, toPofo, toHost)
  BY <1>0 DEF CableInv, Asked
<1>2. Head(reqs).kind \in {"send", "receive"} /\ (Head(reqs).kind = "send" <=> Gives(host))
  BY <1>1 DEF RequestOf, Kind
<1>3. PofoInv(pofo', toHost', toPofo'.offer) /\ HostInv(host, toPofo')
  BY <1>0, Zenon
<1>4. ASSUME NEW ok \in BOOLEAN, NEW v, Answer(Head(reqs).kind, ok, v),
             ok => FineInv(v, host, pofo, toPofo, toHost)
      PROVE  CableInv'
  <2>1. ok => FineInv(v, host, pofo', toPofo', toHost')
    BY <1>0, <1>4, Zenon
  <2> QED
    BY <1>0, <1>2, <1>3, <1>4, <2>1, AnsweredKeeps
<1>5. ASSUME Answer(Head(reqs).kind, FALSE, NoByte) PROVE CableInv'
  BY <1>4, <1>5
<1>6. ASSUME Head(reqs).kind = "send", Gives(pofo), Answer("send", TRUE, NoByte) PROVE CableInv'
  <2>1. FineInv(NoByte, host, pofo, toPofo, toHost)
    BY <1>0, <1>1, <1>2, <1>6, LostGive
  <2> QED
    BY <1>4, <1>6, <2>1
<1>7. ASSUME Head(reqs).kind = "receive", pofo.stage = "z", StillWaits, NEW v \in Mixes,
             Answer("receive", TRUE, v)
      PROVE  CableInv'
  <2>1. Takes(host)
    <3>1. Waiting
      BY <1>0, <1>2, <1>7, AnswerIs
    <3> QED
      BY <1>2, <1>7, <3>1 DEF Waiting
  <2>2. FineInv(v, host, pofo, toPofo, toHost)
    BY <1>0, <1>1, <1>7, <2>1, NoiseTaken DEF StillWaits
  <2> QED
    BY <1>4, <1>7, <2>2
<1>8. CableInv'
  BY <1>5, <1>6, <1>7 DEF LoseByte
<1> QED
  BY <1>0, <1>8 DEF PofoKeeps, HostKeeps, ToPofo!vars, ToHost!vars

LEMMA CancelByteKeeps ==
  ASSUME CableInv, ServerInv', CancelByte PROVE CableInv' /\ PofoKeeps /\ HostKeeps
<1>1. /\ ServerInv /\ program = "server" /\ EndsInv /\ reqs # <<>> /\ Last(reqs).kind = "cancel"
      /\ reqs' = <<>> /\ UNCHANGED <<program, host, cancelling, pofo, toPofo, toHost>>
  BY DEF CableInv, CancelByte, CardUnchanged
<1>2. cancelling
  <2>1. Kind(host) # "cancel"
    BY DEF Kind
  <2>2. ~One(reqs, {Kind(host)})
    BY <1>1, <2>1, Ends1 DEF One
  <2> QED
    BY <1>1, <2>2 DEF ServerInv, Asking, Quiescent
<1>3. ~Asked' /\ ~Fine'
  BY <1>1, <1>2 DEF Asked, Fine
<1>4. CableInv'
  BY <1>1, <1>3, CableInvIs DEF EndsInv
<1> QED
  BY <1>1, <1>4 DEF PofoKeeps, HostKeeps, ToPofo!vars, ToHost!vars

LEMMA CableInvInit ==
  ASSUME Programs = {"server"}, Init PROVE CableInv /\ ToPofo!Init /\ ToHost!Init
<1>1. /\ program = "server" /\ host = Idle /\ pofo = Idle /\ cancelling = FALSE
      /\ reqs = <<>> /\ reps = <<>> /\ toPofo = Quiet /\ toHost = Quiet
  BY DEF Init
<1>2. ServerInv
  BY ServerInvInit
<1>3. HostInv(host, toPofo) /\ PofoInv(pofo, toHost, toPofo.offer)
  BY <1>1 DEF HostInv, PofoInv, SenderInv, IsSender, IsEnd, IsHistory, Idle, Quiet
<1>4. CableInv
  BY <1>1, <1>2, <1>3 DEF CableInv, EndsInv, Asked, Fine
<1>5. ToPofo!Init /\ ToHost!Init
  BY <1>1 DEF ToPofo!Init, ToHost!Init, Quiet
<1> QED
  BY <1>4, <1>5

LEMMA CableInvStep ==
  ASSUME Distinguishable, CableInv, [Next]_vars PROVE CableInv' /\ PofoKeeps /\ HostKeeps
<1>0. ServerInv' /\ program = "server"
  BY ServerInvStep DEF CableInv
<1>1. CASE SendRaw \/ Detect
  BY <1>0, <1>1 DEF SendRaw, Detect
<1>2. CASE WaitEvent
  BY <1>0, <1>2, WaitEventKeeps
<1>3. CASE TakeReply
  BY <1>0, <1>3, TakeReplyKeeps
<1>4. CASE Timeout
  BY <1>0, <1>4, TimeoutKeeps
<1>5. CASE Cancelled
  BY <1>0, <1>5, CancelledKeeps
<1>6. CASE CancelUnanswered
  BY <1>0, <1>6, CancelUnansweredKeeps
<1>7. CASE PofoTransmits
  BY <1>0, <1>7, PofoTransmitsKeeps
<1>8. CASE PofoGivesUp
  BY <1>0, <1>8, PofoGivesUpKeeps
<1>9. CASE PassByte
  BY <1>0, <1>9, PassByteKeeps
<1>10. CASE LoseByte
  BY <1>0, <1>10, LoseByteKeeps
<1>11. CASE CancelByte
  BY <1>0, <1>11, CancelByteKeeps
<1>12. CASE PortC \/ UNCHANGED vars
  <2>1. UNCHANGED <<program, host, pofo, cancelling, reqs, reps, toPofo, toHost>>
    BY <1>12 DEF PortC, vars
  <2>2. CableInv'
    <3>1. EndsInv
      BY DEF CableInv
    <3>2. Asked' => Head(reqs') = RequestOf(host') /\ AskedInv(host', pofo', toPofo', toHost')
      BY <2>1, Zenon DEF CableInv, Asked
    <3>3. Fine' => FineInv(Head(reps').val, host', pofo', toPofo', toHost')
      BY <2>1, Zenon DEF CableInv, Fine
    <3> QED
      BY <1>0, <2>1, <3>1, <3>2, <3>3, CableInvIs DEF EndsInv
  <2> QED
    BY <2>1, <2>2 DEF PofoKeeps, HostKeeps, ToPofo!vars, ToHost!vars
<1> QED
  BY <1>1, <1>2, <1>3, <1>4, <1>5, <1>6, <1>7, <1>8, <1>9, <1>10, <1>11, <1>12
  DEF Next, HostSteps, OtherSteps

\* With the mock server the two ends agree, byte by byte, on what of a block has gone
\* over, whatever was lost, late or cancelled before, if the sum tells its payloads apart.
THEOREM CableInvariant ==
  ASSUME Distinguishable, Programs = {"server"} PROVE Spec => []CableInv
<1>1. Init => CableInv
  BY CableInvInit
<1>2. CableInv /\ [Next]_vars => CableInv'
  BY CableInvStep
<1> QED
  BY <1>1, <1>2, PTL DEF Spec

\* send_block_after_sync returns True only for a response the Portfolio has taken, and the
\* Portfolio is never made to take a block that was not sent (smartcable_pftc.py:356-374).
THEOREM SentBlocksAreTakenHolds ==
  ASSUME Distinguishable, Programs = {"server"} PROVE Spec => SentBlocksAreTaken
<1>1. Init => ToPofo!Init
  BY CableInvInit
<1>2. CableInv /\ [Next]_vars => [ToPofo!Next]_ToPofo!vars
  BY CableInvStep DEF PofoKeeps
<1> QED
  BY <1>1, <1>2, CableInvariant, PTL DEF Spec, SentBlocksAreTaken, ToPofo!Spec

\* PFTC's transmit succeeds only for a request the server has, and what
\* receive_atari_block returns is a request that was transmitted
\* (smartcable_server.py:122-156).
THEOREM TransmitsAreTakenHolds ==
  ASSUME Distinguishable, Programs = {"server"} PROVE Spec => TransmitsAreTaken
<1>1. Init => ToHost!Init
  BY CableInvInit
<1>2. CableInv /\ [Next]_vars => [ToHost!Next]_ToHost!vars
  BY CableInvStep DEF HostKeeps
<1> QED
  BY <1>1, <1>2, CableInvariant, PTL DEF Spec, TransmitsAreTaken, ToHost!Spec

=============================================================================

---------------------- MODULE PftdCopyRefinementProofs ----------------------
(***************************************************************************)
(* The stepwise COPY implements CopyContract: initial states map to        *)
(* initial states, a request to Submit, the transmission of the response   *)
(* to Answer, and every DOS call in between to Work or to a stutter.  What  *)
(* the contract asks of the answers is in the inductive invariant of        *)
(* PftdCopyProofs.                                                         *)
(***************************************************************************)
EXTENDS PftdCopyRefinement, PftdCopyProofs

\* The driver starts with no job.
LEMMA RefinesInit == Init => Contract!Init
<1> SUFFICES ASSUME Init PROVE Contract!Init
  OBVIOUS
<1>1. TypeOK /\ pc = "idle" /\ copies = 0 /\ hit = {} /\ orig = fs
  BY InitType DEF Init
<1> QED
  BY <1>1 DEF Contract!Init, Contract!NoJob, Serving, Unhit, TypeOK

\* A request opens the job with nothing done and nothing missed.
LEMMA RequestSubmits ==
  ASSUME TypeOK, NEW s \in Paths, NEW d \in Paths, Request(s, d)
  PROVE  Contract!Submit(s, d)
BY DEF Request, Contract!Submit, Contract!NoJob, Serving, Goto, Unhit

\* The calls between request and response write to the destination alone
\* (copy.inc:105-306), and faults are never unmissed.
LEMMA CallsWork ==
  ASSUME TypeOK, Driver, pc' # "idle" PROVE Contract!Work
<1>1. pc # "idle" /\ UNCHANGED <<src, dst, orig, copies>>
  BY DEF Driver, FindFirst, OpenSource, CreateDest, CreateCleanup, ReadBlock, WriteBlock,
         Progress, CloseSource, CloseDest, CleanupSource, CleanupDest, CleanupUnlink,
         Respond, jobVars, Goto
<1>2. \A n \in Paths \ {dst} : fs'[n] = fs[n]
  <2>1. fs \in [Paths -> Files] /\ dst \in Paths
    BY DEF TypeOK
  <2>2. CASE CreateDest
    BY <2>1, <2>2 DEF CreateDest, DiskAfterFault, Created
  <2>3. CASE WriteBlock
    BY <2>1, <2>3 DEF WriteBlock, Extended
  <2>4. CASE CloseDest
    BY <2>1, <2>4 DEF CloseDest
  <2>5. CASE CleanupUnlink
    BY <2>1, <2>5 DEF CleanupUnlink, Unlinked
  <2>6. CASE FindFirst \/ OpenSource \/ CreateCleanup \/ ReadBlock \/ Progress
    BY <2>6 DEF FindFirst, OpenSource, CreateCleanup, ReadBlock, Progress
  <2>7. CASE CloseSource \/ CleanupSource \/ CleanupDest \/ Respond
    BY <2>7 DEF CloseSource, CleanupSource, CleanupDest, Respond
  <2> QED
    BY <2>2, <2>3, <2>4, <2>5, <2>6, <2>7 DEF Driver
<1>3. Unhit({"find", "create", "close", "unlink"})'
      => Unhit({"find", "create", "close", "unlink"})
  BY HitGrows
<1> QED
  BY <1>1, <1>2, <1>3 DEF Contract!Work, Contract!NoJob, Serving

\* The response says ok over a copy and error over an untouched or removed
\* destination, wherever the driver has looked.
LEMMA RespondAnswers ==
  ASSUME CopyInv, Respond PROVE Contract!Answer
<1>1. /\ pc = "respond" /\ pc' = "idle" /\ copies > 0 /\ status \in {Ok, Err}
      /\ UNCHANGED <<fs, orig, src, dst, copies, status, hit>>
  BY DEF CopyInv, TypeOK, StatusInv, Respond, jobVars, respVars, Goto
<1>2. ASSUME Unhit({"find", "create", "close", "unlink"}), src # dst, status = Ok
      PROVE  fs[dst] = orig[src] /\ fs[src] = orig[src]
  BY <1>1, <1>2 DEF CopyInv, CountInv, Unhit
<1>3. ASSUME Unhit({"find", "create", "close", "unlink"}), src # dst, status = Err,
             orig[src].attr # "readonly"
      PROVE  fs[dst] = orig[dst] \/ fs[dst].attr = "absent"
  BY <1>1, <1>3 DEF CopyInv, UndoInv, Unhit, Exists
<1>4. Ok # Err
  BY DEF Ok, Err
<1> QED
  BY <1>1, <1>2, <1>3, <1>4
  DEF Contract!Answer, Contract!NoJob, Contract!Copied, Contract!Undone, Contract!OntoItself,
      Serving, Unhit

\* COPY keeps its contract, step for step.
THEOREM ImplementsContractHolds == Spec => ImplementsContract
<1>1. CopyInv /\ [Next]_vars => [Contract!Next]_Contract!contractVars
  <2> SUFFICES ASSUME CopyInv, [Next]_vars
               PROVE  [Contract!Next]_Contract!contractVars
    OBVIOUS
  <2>0. TypeOK
    BY DEF CopyInv
  <2>1. ASSUME NEW s \in Paths, NEW d \in Paths, Request(s, d) PROVE Contract!Next
    BY <2>0, <2>1, RequestSubmits DEF Contract!Next
  <2>2. CASE Driver /\ pc' # "idle"
    BY <2>0, <2>2, CallsWork DEF Contract!Next
  <2>3. CASE Driver /\ pc' = "idle"
    <3>1. Respond
      BY <2>3 DEF Driver, FindFirst, OpenSource, CreateDest, CreateCleanup, ReadBlock, WriteBlock,
         Progress, CloseSource, CloseDest, CleanupSource, CleanupDest, CleanupUnlink, Goto
    <3> QED
      BY <3>1, RespondAnswers DEF Contract!Next
  <2>4. CASE UNCHANGED vars
    BY <2>4 DEF vars, Contract!contractVars, Serving, Unhit
  <2> QED
    BY <2>1, <2>2, <2>3, <2>4 DEF Next
<1>2. Spec => [][Next]_vars /\ Init
  BY DEF Spec
<1> QED
  BY <1>1, <1>2, RefinesInit, CopyInvariant, PTL DEF ImplementsContract, Contract!Spec

=============================================================================

---------------------------- MODULE BlockContract ----------------------------
(***************************************************************************)
(* What one direction of the cable promises, as BridgeSession and Pftc     *)
(* assume it of a whole block.  The sender offers a block and in the end   *)
(* is sure of it or not.  It is only ever sure of a block the receiver has *)
(* taken; a block it is not sure of may have been taken all the same, or   *)
(* be taken later.  Nothing is taken that was not offered.                 *)
(***************************************************************************)
EXTENDS Integers

CONSTANTS Blocks, NoBlock

VARIABLES
  offer,        \* the block the sender was given last
  trying,       \* it is at it
  taken,        \* what the receiver has taken since
  sure,         \* the sender was told so
  doubtful      \* the blocks given up

vars == <<offer, trying, taken, sure, doubtful>>

Init ==
  /\ offer = NoBlock /\ trying = FALSE /\ taken = NoBlock
  /\ sure = FALSE /\ doubtful = {}

Doubts == IF trying THEN doubtful \cup {offer} ELSE doubtful

Offer(b) ==
  /\ offer' = b /\ trying' = TRUE /\ taken' = NoBlock /\ sure' = FALSE
  /\ doubtful' = Doubts

Take ==
  /\ taken' \in doubtful \cup (IF offer = NoBlock THEN {} ELSE {offer})
  /\ UNCHANGED <<offer, trying, sure, doubtful>>

Believe ==
  /\ trying /\ taken = offer
  /\ trying' = FALSE /\ sure' = TRUE
  /\ UNCHANGED <<offer, taken, doubtful>>

GiveUp ==
  /\ trying
  /\ trying' = FALSE /\ doubtful' = Doubts
  /\ UNCHANGED <<offer, taken, sure>>

Next == (\E b \in Blocks : Offer(b)) \/ Take \/ Believe \/ GiveUp

Spec == Init /\ [][Next]_vars

=============================================================================

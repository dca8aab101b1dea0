------------------------- MODULE PftdCopyRefinement -------------------------
(***************************************************************************)
(* The stepwise COPY implements CopyContract.  A job is open from the      *)
(* moment the command is taken until the response has been transmitted.    *)
(***************************************************************************)
EXTENDS PftdCopy

Serving == pc # "idle"

Contract == INSTANCE CopyContract WITH
  Names  <- Paths,
  File   <- Files,
  Absent <- LAMBDA f : f.attr = "absent",
  Frozen <- LAMBDA f : f.attr = "readonly",
  disk   <- fs,
  before <- orig,
  job    <- IF Serving THEN <<src, dst>> ELSE <<>>,
  blind  <- ~Unhit({"find", "create", "close", "unlink"}),
  answer <- IF Serving \/ copies = 0 THEN "none"
            ELSE IF status = Ok THEN "ok" ELSE "error"

\* Every behaviour of the driver is one the contract allows.
ImplementsContract == Contract!Spec

=============================================================================

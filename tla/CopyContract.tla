---------------------------- MODULE CopyContract ----------------------------
(***************************************************************************)
(* What COPY promises the client (docs/source/protocol.md, COPY): one job  *)
(* at a time, answered ok or error, that touches the destination only.     *)
(* The answer ok is given over a destination equal to the source; the      *)
(* answer error over a destination that is as it was, or gone.  `blind`    *)
(* tells a job in which a media fault hit a call whose outcome the driver  *)
(* does not look at, or can no longer undo: then neither is promised.      *)
(***************************************************************************)
CONSTANT Names, File, Absent(_), Frozen(_)

VARIABLES disk, before, job, blind, answer

contractVars == <<disk, before, job, blind, answer>>

NoJob == <<>>

Init ==
  /\ disk \in [Names -> File] /\ before = disk
  /\ job = NoJob /\ blind = FALSE /\ answer = "none"

Submit(s, d) ==
  /\ job = NoJob
  /\ job' = <<s, d>> /\ before' = disk /\ blind' = FALSE /\ answer' = "none"
  /\ UNCHANGED disk

\* Some of the work: whatever it does, it does to the destination.
Work ==
  /\ job # NoJob
  /\ \A n \in Names \ {job[2]} : disk'[n] = disk[n]
  /\ blind' \in {blind, TRUE}
  /\ UNCHANGED <<before, job, answer>>

Copied == disk[job[2]] = before[job[1]] /\ disk[job[1]] = before[job[1]]
Undone == disk[job[2]] = before[job[2]] \/ Absent(disk[job[2]])
OntoItself == job # NoJob /\ job[1] = job[2]

Answer ==
  /\ job # NoJob
  /\ \/ answer' = "ok" /\ (blind \/ OntoItself \/ Copied)
     \/ answer' = "error" /\ (blind \/ OntoItself \/ Frozen(before[job[1]]) \/ Undone)
  /\ job' = NoJob
  /\ UNCHANGED <<disk, before, blind>>

Next == (\E s, d \in Names : Submit(s, d)) \/ Work \/ Answer

Spec == Init /\ [][Next]_contractVars

=============================================================================

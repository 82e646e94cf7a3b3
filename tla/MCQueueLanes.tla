----------------------------- MODULE MCQueueLanes -----------------------------
(***************************************************************************)
(* The scheduling decision, as a function and as the store commits it: on  *)
(* every snapshot that MCQueueRules builds (moving = "decision"), and in   *)
(* the store of two resources and three jobs, where the queue changes      *)
(* between the decision and its commit (moving = "store").  A behaviour is *)
(* of one of the two and the other stays at its start.                     *)
(***************************************************************************)
EXTENDS MCQueueStore

VARIABLES
    jb, rn, young, out,   \* the snapshot and its decision
    moving                \* what this behaviour is about

Snapshot == INSTANCE MCQueueRules WITH Jobs <- 1..4, Priorities <- 0..2

snapshotVars == <<jb, rn, young, out>>

NoSnapshot == jb = <<>> /\ rn = <<>> /\ young = {} /\ out = Snapshot!Undecided

LanesInit ==
    /\ Init
    /\ \/ moving = "store" /\ NoSnapshot
       \/ moving = "decision" /\ Snapshot!Init

LanesNext ==
    \/ moving = "store" /\ Next /\ UNCHANGED <<snapshotVars, moving>>
    \/ moving = "decision" /\ Snapshot!Next /\ UNCHANGED <<storeVars, moving>>

LanesSpec == LanesInit /\ [][LanesNext]_<<storeVars, snapshotVars, moving>>

\* docs/resource-queue.md and queue/schedule.rs: the decision serves in order
\* and stops only the best victim (ServesInOrder and StopIsBest)
DecisionIsRight == Snapshot!DecisionIsRight

=============================================================================

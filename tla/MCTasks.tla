------------------------------ MODULE MCTasks -------------------------------
(***************************************************************************)
(* What people ask of a machine's tasks and lanes, in one exploration:      *)
(* tasks that wait for others and continue in chains (TaskChains), and the  *)
(* commands about lanes and queued jobs (QueueRequests).                    *)
(* They share no state, so a behaviour is of one of them, which `moving'    *)
(* names, and the other stays at its start: the states of the parts add up. *)
(* The tasks are explored three times: with two dependencies and two wait    *)
(* targets each, with submits that resume any thread, and with a cancel, the *)
(* last two with one dependency and one target, and a cancel with a fault    *)
(* among fewer tasks.  The commands are explored twice: any two of them with *)
(* one lane under one daemon, and those that reach a lane while daemons      *)
(* start again and find other GPUs.                                          *)
(***************************************************************************)

EXTENDS TaskChains, QueueRequests

\* A lane of another kind that takes a GPU's name, and a GPU registered by hand.
HandMade == {<<0, NoDevice>>, <<1, 0>>}
TwoWait == <<"y", "x">>

VARIABLE moving   \* the component this behaviour is about

TasksInit ==
    moving \in {"waits", "threads", "cancel", "queued", "lanes"} /\ TaskInit /\ RequestsInit

\* No submit resumes a thread; continuations do.
FreshThreads == \A t \in Tasks : body[t].resume = 0 \/ body[t].rule = "ended"

OneEach == \A t \in Tasks : Cardinality(body[t].after) <= 1 /\ Cardinality(report[t]) <= 1

TaskPart ==
    \/ moving = "waits" /\ FreshThreads /\ cancels = 0
    \/ moving = "threads" /\ OneEach /\ cancels = 0
    \/ moving = "cancel" /\ FreshThreads /\ OneEach /\ (taskFaults = 0 \/ fresh < MaxTasks)

OneLane == boots <= 1 /\ Len(lanes) <= 1

AboutLanes ==
    \A c \in Callers : calls[c] # NoCall => calls[c].request.command \in {"register", "release"}

TasksNext ==
    \/ moving \in {"waits", "threads", "cancel"} /\ TaskNext /\ UNCHANGED <<requestVars, moving>> /\ TaskPart'
    \/ moving = "queued" /\ RequestsNext /\ OneLane' /\ UNCHANGED <<taskVars, moving>>
    \/ moving = "lanes" /\ RequestsNext /\ AboutLanes' /\ UNCHANGED <<taskVars, moving>>

TasksSpec == TasksInit /\ [][TasksNext]_<<taskVars, requestVars, moving>>

=============================================================================

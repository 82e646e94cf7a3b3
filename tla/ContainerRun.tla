---------------------------- MODULE ContainerRun ----------------------------
(***************************************************************************)
(* The witness of one container task.  A worker creates the container, saves*)
(* its ID, starts it, waits, and removes it; dockerd keeps the container when*)
(* the worker dies, and the daemon starts another worker that adopts it.    *)
(* A request to dockerd may fail at the client and still take effect later. *)
(***************************************************************************)
EXTENDS Naturals, FiniteSets

CONSTANTS
    AdoptionLimit,  \* CONTAINER_ADOPTION_LIMIT
    MaxFaults      \* bound on dead workers, failed calls and outside commands

ASSUME ContainerAssumption == AdoptionLimit \in Nat \ {0} /\ MaxFaults \in Nat

VARIABLES
    box,        \* dockerd: the container of this task
    nameTaken,  \* dockerd: another container holds the fixed name
    inflight,   \* requests that dockerd has not processed
    cid,        \* the ID file exists
    saved,      \* task_containers.container_id is set
    adoptions,  \* task_containers.adoptions
    runner,     \* the process that holds runner.lock
    row,        \* status, exit reason and container evidence of the task
    cancelled,  \* cancel_requested_at is set
    ran,        \* history: the container has run
    exits,      \* history: causes of the container's exits
    finishedAt, \* last exit, relative to the stop that a worker issued
    unreached,  \* history: dead workers since one reached the container
    outage,     \* history: Docker stayed silent beyond the budget, no worker could
                \* start, or the store did not keep what a worker told it
    containerFaults

dockerd == <<box, nameTaken, inflight, ran, exits, finishedAt>>
records == <<cid, saved, adoptions, unreached>>
containerVars == <<dockerd, records, runner, row, cancelled, outage, containerFaults>>

ContainerStatus == {"none", "created", "running", "exited", "gone"}
DockerRequests == {"create", "start", "remove", "stop", "kill"}
WorkerPhases == {"none", "new", "creating", "probing", "saving", "saved", "starting", "adopting",
    "adopting_again", "looking", "removing", "dropping", "confirming", "supervising",
    "cancelling", "issuing", "stopping", "settling", "killing", "clearing"}
ExitEvidence == {"none", "NeverStarted", "Confirmed", "Unconfirmed"}
Reasons == {"none", "Exit", "Cancelled", "SpawnFailed"}

NoWorker == [at |-> "none", adopts |-> FALSE, reason |-> "none", killed |-> FALSE, reply |-> "none"]
WorkerAt(phase) == [NoWorker EXCEPT !.at = phase]

ContainerTypeOK ==
    /\ box \in ContainerStatus /\ inflight \subseteq DockerRequests /\ adoptions \in 0 .. AdoptionLimit
    /\ {cid, saved, nameTaken, cancelled, ran, outage} \subseteq BOOLEAN
    /\ runner \in [at: WorkerPhases, adopts: BOOLEAN, reason: Reasons, killed: BOOLEAN,
                   reply: {"none", "ok", "refused"}]
    /\ row \in [status: {"queued", "running", "exited", "lost"}, reason: Reasons, evidence: ExitEvidence]
    /\ exits \subseteq {"own", "stopped"} /\ finishedAt \in {"none", "before", "after"}
    /\ unreached \in 0 .. MaxFaults /\ containerFaults \in 0 .. MaxFaults

ContainerInit ==
    /\ box = "none" /\ nameTaken \in BOOLEAN /\ inflight = {} /\ cid = FALSE /\ saved = FALSE
    /\ adoptions = 0 /\ runner = WorkerAt("new") /\ cancelled = FALSE
    /\ row = [status |-> "queued", reason |-> "none", evidence |-> "none"]
    /\ ran = FALSE /\ exits = {} /\ finishedAt = "none" /\ unreached = 0
    /\ outage = FALSE /\ containerFaults = 0

Fault == containerFaults < MaxFaults /\ containerFaults' = containerFaults + 1
Present == box \notin {"none", "gone"}
is_live == box = "running"

-----------------------------------------------------------------------------
(* dockerd and the outside world.                                           *)

AwaitedExit == [creating |-> "create", starting |-> "start", removing |-> "remove", dropping |-> "remove",
            clearing |-> "remove", stopping |-> "stop", killing |-> "kill"]

\* dockerd processes a request; the answer reaches only a client that waits for it.
Answers(op, ok) ==
    /\ op \in inflight /\ inflight' = inflight \ {op}
    /\ runner' = IF runner.at \in DOMAIN AwaitedExit /\ AwaitedExit[runner.at] = op /\ runner.reply = "none"
                 THEN [runner EXCEPT !.reply = IF ok THEN "ok" ELSE "refused"]
                 ELSE runner

\* The fixed name makes a second container of this task impossible.
engine_create ==
    /\ Answers("create", ~nameTaken)
    /\ box' = IF nameTaken THEN box ELSE "created"
    /\ cid' = (cid \/ (~nameTaken /\ runner.at = "creating"))
    /\ UNCHANGED <<nameTaken, saved, adoptions, unreached, ran, exits, finishedAt, row, cancelled, outage, containerFaults>>

\* A second start of a running container is accepted and changes nothing.
engine_start ==
    /\ Answers("start", Present)
    /\ box' = IF box \in {"created", "exited"} THEN "running" ELSE box
    /\ ran' = (ran \/ Present)
    /\ UNCHANGED <<nameTaken, records, exits, finishedAt, row, cancelled, outage, containerFaults>>

\* Removal without force: a running container is refused.
engine_remove ==
    /\ Answers("remove", box \in {"created", "exited"})
    /\ box' = IF box \in {"created", "exited"} THEN "gone" ELSE box
    /\ UNCHANGED <<nameTaken, records, ran, exits, finishedAt, row, cancelled, outage, containerFaults>>

Exits(cause) ==
    /\ box' = "exited" /\ exits' = exits \cup {cause} /\ finishedAt' = "after"

\* A container may ignore the stop until its grace ends; a kill it cannot ignore.
engine_stop(op) ==
    /\ Answers(op, Present)
    /\ IF is_live THEN Exits("stopped") ELSE UNCHANGED <<box, exits, finishedAt>>
    /\ UNCHANGED <<nameTaken, records, ran, row, cancelled, outage, containerFaults>>

ContainerExits ==
    /\ is_live /\ Exits("own")
    /\ UNCHANGED <<nameTaken, inflight, records, ran, runner, row, cancelled, outage, containerFaults>>

\* `docker start` or `docker rm --force` by somebody else.
OutsideCommand ==
    /\ Fault
    /\ \/ box = "exited" /\ box' = "running"
       \/ Present /\ box' = "gone"
    /\ UNCHANGED <<nameTaken, inflight, ran, exits, finishedAt, records, runner, row, cancelled, outage>>

RequestCancel ==
    /\ ~cancelled /\ row.status \in {"queued", "running"} /\ cancelled' = TRUE
    /\ UNCHANGED <<dockerd, records, runner, row, outage, containerFaults>>

-----------------------------------------------------------------------------
(* Steps of the worker.                                                     *)

At(phase) == runner.at = phase
Turns(phase) == runner' = [runner EXCEPT !.at = phase, !.reply = "none"]
Planned(phase, reason) == runner' = [runner EXCEPT !.at = phase, !.reply = "none", !.reason = reason]
Sends(op, phase) == inflight' = inflight \cup {op} /\ Turns(phase)
KeepDocker == UNCHANGED <<box, nameTaken, ran, exits, finishedAt>>

record_exit(reason, evidence) ==
    /\ row' = [status |-> "exited", reason |-> reason, evidence |-> evidence]
    /\ runner' = NoWorker
lost == row' = [row EXCEPT !.status = "lost"] /\ runner' = NoWorker

\* The queued-to-running transition and the first check of launch.
launch ==
    /\ At("new") /\ row.status = "queued"
    /\ \/ cancelled /\ record_exit("Cancelled", "NeverStarted") /\ UNCHANGED inflight
       \/ ~cancelled /\ row' = [row EXCEPT !.status = "running"]
          /\ IF cid THEN Turns("adopting") /\ UNCHANGED inflight ELSE Sends("create", "creating")
    /\ KeepDocker /\ UNCHANGED <<records, cancelled, outage, containerFaults>>

\* The answer of create, or a client that gave up on it.
Created ==
    /\ At("creating")
    /\ \/ runner.reply = "ok" /\ Turns("saving") /\ UNCHANGED containerFaults
       \/ runner.reply = "refused" /\ Turns("probing") /\ UNCHANGED containerFaults
       \/ Fault /\ Turns("probing")
    /\ UNCHANGED <<dockerd, records, row, cancelled, outage>>

save_container == saved' = TRUE /\ UNCHANGED <<outage, containerFaults>>

\* The ledger cannot read or write this task's row.
LedgerFails == Fault /\ outage' = TRUE

\* A name that another task's container holds is no container of this task.
after_failed_create ==
    /\ At("probing")
    /\ \/ /\ Present /\ save_container
          /\ runner' = [runner EXCEPT !.at = "looking", !.adopts = TRUE, !.reply = "none"]
          /\ UNCHANGED row
       \/ Present /\ LedgerFails /\ lost /\ UNCHANGED saved
       \/ /\ ~Present /\ record_exit("SpawnFailed", "NeverStarted")
          /\ UNCHANGED <<saved, outage, containerFaults>>
    /\ UNCHANGED <<dockerd, cid, adoptions, unreached, cancelled>>

\* An ID that could not be saved never starts its container.
SaveCreated ==
    /\ At("saving")
    /\ \/ save_container /\ Turns("saved") /\ UNCHANGED inflight
       \/ Fault /\ inflight' = inflight \cup {"remove"} /\ Planned("dropping", "SpawnFailed")
          /\ UNCHANGED <<saved, outage>>
    /\ KeepDocker /\ UNCHANGED <<cid, adoptions, unreached, row, cancelled>>

StartSaved ==
    /\ At("saved")
    /\ IF cancelled
       THEN inflight' = inflight \cup {"remove"} /\ Planned("dropping", "Cancelled")
       ELSE Sends("start", "starting")
    /\ KeepDocker /\ UNCHANGED <<records, row, cancelled, outage, containerFaults>>

Started ==
    /\ At("starting")
    /\ \/ runner.reply # "none" /\ Turns("looking") /\ UNCHANGED containerFaults
       \/ Fault /\ Turns("looking")
    /\ UNCHANGED <<dockerd, records, row, cancelled, outage>>

\* The saved ID, the ID file, then the name with this task's label, read twice. A
\* ledger that cannot read the saved ID, or save the one found, loses the task.
adopt(phase) ==
    /\ At(phase)
    /\ LET found == saved \/ cid \/ Present IN
       \/ found /\ save_container /\ Turns("looking") /\ UNCHANGED row
       \/ (found \/ phase = "adopting") /\ LedgerFails /\ lost /\ UNCHANGED saved
       \/ /\ ~found /\ UNCHANGED <<saved, outage, containerFaults>>
          /\ IF phase = "adopting" THEN Turns("adopting_again") /\ UNCHANGED row
             ELSE record_exit("SpawnFailed", "NeverStarted")

find_own_container ==
    /\ \E phase \in {"adopting", "adopting_again"}: adopt(phase)
    /\ UNCHANGED <<dockerd, cid, adoptions, unreached, cancelled>>

-----------------------------------------------------------------------------
(* A worker acts on the state that Docker reports.                          *)

\* An adopting worker that reached the container ends the streak; one whose
\* ledger fails only warns, and the claimed adoptions stay counted.
record_observed ==
    /\ unreached' = IF runner.adopts THEN 0 ELSE unreached
    /\ \/ /\ adoptions' = IF runner.adopts THEN 0 ELSE adoptions
          /\ UNCHANGED <<outage, containerFaults>>
       \/ runner.adopts /\ LedgerFails /\ UNCHANGED adoptions

\* A created container is removed; a start sent before may win, so look again.
RemoveCreated ==
    /\ inflight' = inflight \cup {"remove"}
    /\ Planned("removing", IF cancelled THEN "Cancelled" ELSE "SpawnFailed")
    /\ UNCHANGED row

continue_with ==
    /\ At("looking")
    /\ \/ ~Present /\ lost /\ UNCHANGED <<inflight, adoptions, unreached, outage, containerFaults>>
       \/ box = "created" /\ record_observed /\ RemoveCreated
       \/ is_live /\ record_observed /\ Turns(IF cancelled THEN "cancelling" ELSE "supervising")
          /\ UNCHANGED <<row, inflight>>
       \/ box = "exited" /\ record_observed /\ inflight' = inflight \cup {"remove"}
          /\ Planned("clearing", "Exit") /\ UNCHANGED row
    /\ KeepDocker /\ UNCHANGED <<cid, saved, cancelled>>

Removed ==
    /\ At("removing")
    /\ \/ runner.reply = "ok" /\ Turns("confirming") /\ UNCHANGED containerFaults
       \/ runner.reply = "refused" /\ Turns("looking") /\ UNCHANGED containerFaults
       \/ Fault /\ Turns("looking")
    /\ UNCHANGED <<dockerd, records, row, cancelled, outage>>

\* remove_unstarted goes on whatever the removal answered.
remove_unstarted ==
    /\ At("dropping")
    /\ \/ runner.reply # "none" /\ UNCHANGED containerFaults
       \/ Fault
    /\ Turns("confirming")
    /\ UNCHANGED <<dockerd, records, row, cancelled, outage>>

confirm_unstarted_removed ==
    /\ At("confirming")
    /\ record_exit(runner.reason, IF Present THEN "Unconfirmed" ELSE "NeverStarted")
    /\ UNCHANGED <<dockerd, records, cancelled, outage, containerFaults>>

\* Mutated form: only a signal, and no poll of the store, would end the wait.
CancelSeen == FALSE

\* The interrupt's poll of cancel_requested_at.
Interrupted == cancelled

supervise ==
    /\ At("supervising")
    /\ \/ box = "exited" /\ inflight' = inflight \cup {"remove"} /\ Planned("clearing", "Exit")
          /\ UNCHANGED row
       \/ ~Present /\ lost /\ UNCHANGED inflight
       \/ Interrupted /\ Turns("cancelling") /\ UNCHANGED <<row, inflight>>
    /\ KeepDocker /\ UNCHANGED <<records, cancelled, outage, containerFaults>>

\* Each look before the stop is an observation of its own.
cancel ==
    /\ At("cancelling")
    /\ IF box = "exited"
       THEN inflight' = inflight \cup {"remove"} /\ Planned("clearing", "Exit")
       ELSE Turns("issuing") /\ UNCHANGED inflight
    /\ KeepDocker /\ UNCHANGED <<records, row, cancelled, outage, containerFaults>>

\* stop_issued_at is read when the stop is sent.
IssueStop ==
    /\ At("issuing") /\ Sends("stop", "stopping")
    /\ finishedAt' = IF box = "exited" THEN "before" ELSE "none"
    /\ UNCHANGED <<box, nameTaken, ran, exits, records, row, cancelled, outage, containerFaults>>

StopAnswered ==
    /\ runner.at \in {"stopping", "killing"}
    /\ \/ runner.reply # "none" /\ UNCHANGED containerFaults
       \/ Fault
    /\ Turns("settling")
    /\ UNCHANGED <<dockerd, records, row, cancelled, outage>>

\* A stop of an already finished container did not cause its exit.
ReasonAfterStop == IF finishedAt = "before" THEN "Exit" ELSE "Cancelled"

\* Docker never takes a live container back to created, so that arm of the
\* code's match cannot be reached from here.
SettleRow ==
    /\ At("settling")
    /\ \/ is_live /\ ~runner.killed /\ inflight' = inflight \cup {"kill"}
          /\ runner' = [runner EXCEPT !.at = "killing", !.killed = TRUE, !.reply = "none"]
          /\ UNCHANGED <<row, containerFaults>>
       \/ is_live /\ runner.killed /\ record_exit("Cancelled", "Unconfirmed")
          /\ UNCHANGED <<inflight, containerFaults>>
       \/ box = "exited" /\ inflight' = inflight \cup {"remove"} /\ Planned("clearing", ReasonAfterStop)
          /\ UNCHANGED <<row, containerFaults>>
       \/ ~Present /\ record_exit("Cancelled", "Unconfirmed") /\ UNCHANGED <<inflight, containerFaults>>
    /\ KeepDocker /\ UNCHANGED <<records, cancelled, outage>>

\* Mutated form: an accepted removal counts without the probe.
ConfirmsAnswered == IF is_live THEN "Unconfirmed" ELSE "Confirmed"

\* Only an absent container confirms the exit code that was read before.
Witness == IF Present THEN "Unconfirmed" ELSE "Confirmed"

\* Removal is tried again until the container is absent, lives again, or the
\* budget passes.
finish ==
    /\ At("clearing")
    /\ \/ runner.reply # "none" /\ box # "exited" /\ record_exit(runner.reason, Witness)
          /\ UNCHANGED <<inflight, containerFaults>>
       \/ runner.reply # "none" /\ box = "exited" /\ Sends("remove", "clearing")
          /\ UNCHANGED <<row, containerFaults>>
       \/ Fault /\ record_exit(runner.reason, Witness) /\ UNCHANGED inflight
    /\ KeepDocker /\ UNCHANGED <<records, cancelled, outage>>

-----------------------------------------------------------------------------
(* Outages, dead workers and the daemon's watch.                            *)

\* Docker does not answer a probe within unavailable_budget.
Unavailable ==
    /\ Fault /\ outage' = TRUE
    /\ \/ runner.at \in {"probing", "adopting", "adopting_again", "looking", "supervising"} /\ lost
       \/ runner.at = "confirming" /\ record_exit(runner.reason, "Unconfirmed")
       \/ runner.at = "settling" /\ record_exit("Cancelled", "Unconfirmed")
       \/ runner.at = "cancelling" /\ Turns("issuing") /\ UNCHANGED row
    /\ UNCHANGED <<dockerd, records, cancelled>>

\* The worker is killed, or detaches on SIGTERM without a cancel marker.
WorkerEnds ==
    /\ runner.at # "none" /\ row.status = "running" /\ Fault /\ runner' = NoWorker
    /\ unreached' = IF runner.adopts /\ runner.at \in {"adopting", "adopting_again", "looking"}
                    THEN unreached + 1 ELSE unreached
    /\ UNCHANGED <<dockerd, cid, saved, adoptions, row, cancelled, outage>>

claim_task_container_adoption == adoptions < AdoptionLimit

adopt_container ==
    /\ runner.at = "none" /\ row.status = "running"
    /\ \/ claim_task_container_adoption
          /\ adoptions' = adoptions + 1 /\ runner' = [WorkerAt("adopting") EXCEPT !.adopts = TRUE]
          /\ UNCHANGED <<row, outage, containerFaults>>
       \/ claim_task_container_adoption /\ Fault /\ outage' = TRUE
          /\ adoptions' = adoptions + 1 /\ lost
       \/ ~claim_task_container_adoption /\ lost /\ UNCHANGED <<adoptions, outage, containerFaults>>
    /\ UNCHANGED <<dockerd, cid, saved, unreached, cancelled>>

EngineStep == engine_create \/ engine_start \/ engine_remove \/ (\E op \in {"stop", "kill"}: engine_stop(op))

ContainerStep ==
    \/ launch \/ Created \/ after_failed_create \/ SaveCreated \/ StartSaved \/ Started
    \/ find_own_container \/ continue_with \/ Removed \/ remove_unstarted
    \/ confirm_unstarted_removed \/ supervise \/ cancel \/ IssueStop \/ StopAnswered
    \/ SettleRow \/ finish

ContainerNext ==
    \/ EngineStep \/ ContainerStep \/ adopt_container \/ WorkerEnds \/ Unavailable
    \/ ContainerExits \/ OutsideCommand \/ RequestCancel

ContainerSpec == ContainerInit /\ [][ContainerNext]_containerVars

\* dockerd processes requests, the worker's tasks and the daemon's watch run.
ContainerFairness ==
    /\ WF_containerVars(EngineStep) /\ WF_containerVars(ContainerStep) /\ WF_containerVars(adopt_container)
ContainerFairSpec == ContainerSpec /\ ContainerFairness

-----------------------------------------------------------------------------
(* Properties.                                                              *)

\* Once NeverStarted is recorded, nothing runs: no create or start that a dead
\* worker sent may bring the container up (find_own_container, continue_with).
NeverStartedStaysDown == row.evidence = "NeverStarted" => box \in {"none", "created", "gone"}

\* domain.rs: NeverStarted means that no container process ran at all.
NeverStartedNeverRan == row.evidence = "NeverStarted" => ~ran

\* Confirmed evidence names an exit that happened, of a container that is gone.
ConfirmedIsGone == row.evidence = "Confirmed" => box = "gone" /\ exits # {}

\* A container that ended by itself before the stop was issued is not reported
\* as cancelled, however the cancel raced it.
NaturalExitKept ==
    row.reason = "Cancelled" /\ row.evidence = "Confirmed" => finishedAt # "before"

\* The task is lost only when its container is gone, Docker, the host or the store
\* failed it, or AdoptionLimit workers in a row died before they reached it: dead
\* workers that did reach a container never add up to a lost task.
LostOnlyUnreachable ==
    row.status = "lost" => box \in {"none", "gone"} \/ outage \/ unreached >= AdoptionLimit

\* A requested cancel ends the task, through every dead worker and adoption.
CancelEndsTask == cancelled ~> row.status \in {"exited", "lost"}

\* The evidence and the reason that a task's row gives for its container hold.
ContainerRowIsTrue ==
    /\ ContainerTypeOK /\ NeverStartedStaysDown /\ ConfirmedIsGone
    /\ NaturalExitKept /\ LostOnlyUnreachable

=============================================================================

----------------------------- MODULE QueueSystem -----------------------------
(***************************************************************************)
(* The resource queue with its callers: the daemon (queue actor, supervisor*)
(* and one watch per task) and one worker process per run, each with its   *)
(* own store connection.  Store transactions are the actions of            *)
(* QueueStore; between two of them any other process may run, and the      *)
(* daemon or a worker may crash.                                           *)
(*                                                                         *)
(* Durable: the store, the yield file and exit.json of a task, the worker  *)
(* and child processes.  Lost with the daemon: the actor's decisions, the  *)
(* watches and the running cleanups.                                       *)
(*                                                                         *)
(* Time is abstract: a launch may be abandoned at any moment after its     *)
(* reservation (the worker may be arbitrarily slow), and a run may be      *)
(* inside or outside its restart window whenever the scheduler looks.      *)
(***************************************************************************)
EXTENDS QueueStore

CONSTANTS
    Cancellable, \* bound: the jobs people cancel
    MaxCrashes   \* bound: crashes of the daemon and of workers together

ASSUME SystemAssumption == Cancellable \subseteq Jobs /\ MaxCrashes \in Nat

VARIABLES
    up,        \* the daemon runs
    crashes,   \* crashes so far
    plan,      \* queue actor: decisions of this pass not yet carried out
    pending,   \* queue actor: reserved task the supervisor has not launched
    ask,       \* queue actor: a run it saw stopping for a yield, not yet told
    watch,     \* supervisor: tasks with a watch actor
    sweep,     \* queue actor: the cleanup that runs for each resource
    worker,    \* the worker process of each task
    child,     \* the processes the run of each task started
    known,     \* tasks.child_pid: whether the child's identity is stored
    proof,     \* tasks.process_group_exit_evidence
    exitFile,  \* exit.json of each task
    yieldFile, \* whether the yield file of each task exists
    released   \* ghost: run tasks whose resource a person released

daemonVars == <<up, crashes, plan, pending, ask, watch, sweep>>
processVars == <<worker, child, known, proof, exitFile, yieldFile, released>>
vars == <<storeVars, daemonVars, processVars>>

-----------------------------------------------------------------------------
NoPlan == [launches |-> <<>>, stop |-> NoStop]
NoSweep == [task |-> NoTask, attempt |-> 0, result |-> "none"]
NoExit == [end |-> "none", evidence |-> "unconfirmed"]

Evidence == {"no_child", "exited", "unconfirmed"}

\* A worker holds runner.lock in these states, in this order
HasLock == {"spawned", "claimed", "started", "identified", "running", "reported"}
WorkerStates == HasLock \cup {"none", "gone"}

SystemInit ==
    /\ Init
    /\ up = TRUE /\ crashes = 0
    /\ plan = NoPlan /\ pending = NoTask /\ ask = NoTask
    /\ watch = {}
    /\ sweep = [r \in Resources |-> NoSweep]
    /\ worker = [t \in Tasks |-> "none"]
    /\ child = [t \in Tasks |-> "none"]
    /\ known = [t \in Tasks |-> FALSE]
    /\ proof = [t \in Tasks |-> "unconfirmed"]
    /\ exitFile = [t \in Tasks |-> NoExit]
    /\ yieldFile = [t \in Tasks |-> FALSE]
    /\ released = {}

-----------------------------------------------------------------------------
(* Requests through the daemon's API *)

Request ==
    /\ up
    /\ \/ \E m \in Submissions : submit_job(m[1], m[2])
       \/ \E j \in Movable, p \in Priorities, front \in BOOLEAN :
                move_to_edge(j, p, front)
       \/ \E j \in Cancellable : cancel_job(j)
    /\ UNCHANGED <<daemonVars, processVars>>

\* A person cancels the run task itself instead of its job
CancelRunTask(r, t) ==
    /\ up /\ t[1] \in Cancellable
    /\ request_cancel(r, t)
    /\ proof' = IF task[t].status = "queued"
                THEN [proof EXCEPT ![t] = "no_child"] ELSE proof
    /\ UNCHANGED <<daemonVars, worker, child, known, exitFile, yieldFile, released>>

Release(r) ==
    /\ up
    /\ release_resource_attention(r, run[r].task)
    /\ released' = released \cup {run[r].task}
    /\ UNCHANGED <<daemonVars, worker, child, known, proof, exitFile, yieldFile>>

-----------------------------------------------------------------------------
(* The queue actor.  One pass: settle each stored run, then decide, then   *)
(* launch and stop.  ActorIdle is between passes or in their first part.   *)

ActorIdle == up /\ plan = NoPlan /\ pending = NoTask /\ ask = NoTask

\* Mutated form: only a launch this daemon watches is abandoned
AbandonWatched(r) ==
    /\ ActorIdle /\ run[r].task \in watch
    /\ abandon_launch(r, run[r].task)
    /\ proof' = [proof EXCEPT ![run[r].task] = "no_child"]
    /\ UNCHANGED <<daemonVars, worker, child, known, exitFile, yieldFile, released>>

Abandon(r) ==
    /\ ActorIdle
    /\ abandon_launch(r, run[r].task)
    /\ proof' = [proof EXCEPT ![run[r].task] = "no_child"]
    /\ UNCHANGED <<daemonVars, worker, child, known, exitFile, yieldFile, released>>

Observe(r) ==
    /\ ActorIdle
    /\ HoldsJob(run[r]) /\ task[run[r].task].status = "running"
    /\ run[r].task \notin watch
    /\ watch' = watch \cup {run[r].task}
    /\ UNCHANGED <<storeVars, up, crashes, ask, plan, pending, sweep, processVars>>

\* enact_stop: publish the yield file of a run that was stopping for a yield
\* when the pass read it, if it still has its resource.  A file that cannot be
\* written is tried again by the next pass
SeeYield(r) ==
    /\ ActorIdle
    /\ StopCauseOf(run[r]) = "yield" /\ ~yieldFile[run[r].task]
    /\ ask' = run[r].task
    /\ UNCHANGED <<storeVars, up, crashes, plan, pending, watch, sweep, processVars>>

EnactYield ==
    /\ up /\ ask # NoTask
    /\ \/ /\ \E r \in Resources : RunOn(r, ask)
          /\ yieldFile' = [yieldFile EXCEPT ![ask] = TRUE]
       \/ UNCHANGED yieldFile
    /\ ask' = NoTask
    /\ UNCHANGED <<storeVars, up, crashes, plan, pending, watch, sweep,
                   worker, child, known, proof, exitFile, released>>

\* Mutated form: a run that has not started is not signalled
EnactKillStarted(r) ==
    /\ ActorIdle
    /\ run[r].phase = "stopping" /\ ~task[run[r].task].cancel
    /\ run[r].started # 0
    /\ signal_committed_run_stop(r, run[r].task)
    /\ UNCHANGED <<daemonVars, worker, child, known, proof, exitFile, yieldFile, released>>

\* enact_stop, other causes: the cancellation marker the worker polls
EnactKill(r) ==
    /\ ActorIdle
    /\ run[r].phase = "stopping" /\ ~task[run[r].task].cancel
    /\ signal_committed_run_stop(r, run[r].task)
    /\ proof' = IF task[run[r].task].status = "queued"
                THEN [proof EXCEPT ![run[r].task] = "no_child"] ELSE proof
    /\ UNCHANGED <<daemonVars, worker, child, known, exitFile, yieldFile, released>>

\* Mutated form: the cleanup of a run is started once, not after a restart
StartCleanupOnce(r) ==
    /\ ActorIdle
    /\ sweep[r].task # run[r].task /\ run[r].attempt = 1
    /\ begin_cleanup_attempt(r, run[r].task)
    /\ sweep' = [sweep EXCEPT ![r] = [task |-> run[r].task,
                    attempt |-> run[r].attempt + 1, result |-> "none"]]
    /\ UNCHANGED <<up, crashes, ask, plan, pending, watch, processVars>>

StartCleanup(r) ==
    /\ ActorIdle
    /\ sweep[r].task # run[r].task
    /\ begin_cleanup_attempt(r, run[r].task)
    /\ sweep' = [sweep EXCEPT ![r] = [task |-> run[r].task,
                    attempt |-> run[r].attempt + 1, result |-> "none"]]
    /\ UNCHANGED <<up, crashes, ask, plan, pending, watch, processVars>>

\* Mutated form: a lost worker without a recorded child counts as clean
ConfirmUnknownChild(t) ==
    task[t].status = "lost" \/ proof[t] # "unconfirmed"

\* cleanup_run: a lost worker's child must be known to be stopped, any other
\* run must have confirmed its group's exit; then leftovers are swept
MayConfirm(t) ==
    IF task[t].status = "lost" THEN known[t] ELSE proof[t] # "unconfirmed"

\* cleanup_lost_group ends the recorded group; the sweep by marker may end
\* what else it finds
Sweep(r, result) ==
    LET t == sweep[r].task IN
    /\ up /\ t # NoTask /\ sweep[r].result = "none"
    /\ result = "ok" => MayConfirm(t)
    /\ sweep' = [sweep EXCEPT ![r].result = result]
    /\ \/ /\ result = "ok" => ~(task[t].status = "lost" /\ known[t])
          /\ UNCHANGED child
       \/ child[t] = "alive" /\ child' = [child EXCEPT ![t] = "dead"]
       \/ child[t] # "alive" /\ UNCHANGED child
    /\ UNCHANGED <<storeVars, up, crashes, ask, plan, pending, watch,
                   worker, known, proof, exitFile, yieldFile, released>>

\* CleanupFinished: commit the result; a failed commit is swept again
CleanupFinished(r) ==
    /\ ActorIdle /\ sweep[r].result # "none"
    /\ apply_cleanup_result(r, sweep[r].task, sweep[r].attempt, sweep[r].result = "ok")
    /\ sweep' = [sweep EXCEPT ![r] = NoSweep]
    /\ UNCHANGED <<up, crashes, ask, plan, pending, watch, processVars>>

Decide(young) ==
    LET d == decide(job, run, young) IN
    /\ ActorIdle
    /\ plan' = [launches |-> d.launches, stop |-> d.preemption]
    /\ plan' # NoPlan
    /\ UNCHANGED <<storeVars, up, crashes, ask, pending, watch, sweep, processVars>>

\* launch_job: reserve, or fail the step when its program is gone.  A
\* refused reservation ends the pass
NextLaunch == Head(plan.launches)
PassBusy == up /\ pending = NoTask /\ ask = NoTask
LaterLaunches == [plan EXCEPT !.launches = Tail(@)]

Reserve ==
    /\ PassBusy /\ plan.launches # <<>>
    /\ reserve_run(NextLaunch.job, NextLaunch.resource)
    /\ pending' = <<NextLaunch.job, job[NextLaunch.job].runs + 1>>
    /\ plan' = LaterLaunches
    /\ UNCHANGED <<up, crashes, ask, watch, sweep, processVars>>

ProgramGone ==
    /\ PassBusy /\ plan.launches # <<>>
    /\ fail_job_launch(NextLaunch.job, NextLaunch.resource)
    /\ proof' = [proof EXCEPT ![<<NextLaunch.job, job[NextLaunch.job].runs + 1>>] = "no_child"]
    /\ plan' = LaterLaunches
    /\ UNCHANGED <<up, crashes, ask, pending, watch, sweep, worker, child, known,
                   exitFile, yieldFile, released>>

ReserveRefused ==
    /\ PassBusy /\ plan.launches # <<>>
    /\ ~MayReserve(NextLaunch.job, NextLaunch.resource)
    /\ plan' = NoPlan
    /\ UNCHANGED <<storeVars, up, crashes, ask, pending, watch, sweep, processVars>>

\* LaunchQueueRun: nothing when the run was cancelled meanwhile; the task
\* fails when its files or its worker cannot be made
Launchable == \E r \in Resources : RunOn(r, pending) /\ run[r].phase = "launching"
                                   /\ task[pending].status = "queued"

LaunchWorker ==
    /\ up /\ pending # NoTask /\ Launchable
    /\ worker' = [worker EXCEPT ![pending] = "spawned"]
    /\ watch' = watch \cup {pending}
    /\ pending' = NoTask
    /\ UNCHANGED <<storeVars, up, crashes, ask, plan, sweep, child, known, proof,
                   exitFile, yieldFile, released>>

LaunchDropped ==
    /\ up /\ pending # NoTask /\ ~Launchable
    /\ pending' = NoTask
    /\ UNCHANGED <<storeVars, up, crashes, ask, plan, watch, sweep, processVars>>

LaunchFails ==
    /\ up /\ pending # NoTask
    /\ \E r \in Resources : commit_job_run_exit(r, pending, "queued", "other")
    /\ proof' = [proof EXCEPT ![pending] = "no_child"]
    /\ pending' = NoTask
    /\ UNCHANGED <<up, crashes, ask, plan, watch, sweep, worker, child, known,
                   exitFile, yieldFile, released>>

\* The stop is decided again at its commit; another decision drops it.  A
\* committed stop is enacted next
CommitStop(young) ==
    /\ PassBusy /\ plan.launches = <<>> /\ plan.stop # NoStop
    /\ \/ commit_preemption(plan.stop, young)
       \/ /\ \/ ~RunOn(plan.stop.resource, plan.stop.task)
             \/ run[plan.stop.resource].phase = "stopping"
             \/ decide(job, run, young).preemption # plan.stop
          /\ UNCHANGED storeVars
    /\ ask' = IF /\ run'[plan.stop.resource].task = plan.stop.task
                 /\ StopCauseOf(run'[plan.stop.resource]) = "yield"
              THEN plan.stop.task ELSE NoTask
    /\ plan' = NoPlan
    /\ UNCHANGED <<up, crashes, pending, watch, sweep, processVars>>

-----------------------------------------------------------------------------
(* The watch of a task: when the worker released runner.lock, apply        *)
(* exit.json, or record the worker lost.                                   *)

\* Mutated form: a worker that left before its commit is lost, exit.json or not
LockReleasedIsLost(t) ==
    /\ up /\ t \in watch /\ worker[t] = "gone"
    /\ watch' = watch \ {t}
    /\ IF task[t].status \in TerminalStatus
       THEN UNCHANGED storeVars
       ELSE \E r \in Resources : commit_lost(r, t, task[t].status)
    /\ UNCHANGED <<up, crashes, ask, plan, pending, sweep, worker, child, known,
                   proof, exitFile, yieldFile, released>>

LockReleased(t) ==
    /\ up /\ t \in watch /\ worker[t] = "gone"
    /\ watch' = watch \ {t}
    /\ IF task[t].status \in TerminalStatus
       THEN UNCHANGED <<storeVars, proof>>
       ELSE \E r \in Resources :
            IF exitFile[t] # NoExit
            THEN /\ commit_job_run_exit(r, t, task[t].status, exitFile[t].end)
                 /\ proof' = [proof EXCEPT ![t] = exitFile[t].evidence]
            ELSE /\ commit_lost(r, t, task[t].status)
                 /\ UNCHANGED proof
    /\ UNCHANGED <<up, crashes, ask, plan, pending, sweep, worker, child, known,
                   exitFile, yieldFile, released>>

-----------------------------------------------------------------------------
(* The worker process of one run *)

Worker(t, from, to) == worker[t] = from /\ worker' = [worker EXCEPT ![t] = to]

Claim(t) ==
    /\ Worker(t, "spawned", "claimed")
    /\ claim_task(t)
    /\ UNCHANGED <<daemonVars, child, known, proof, exitFile, yieldFile, released>>

ClaimRefused(t) ==
    /\ Worker(t, "spawned", "gone")
    /\ task[t].status # "queued"
    /\ UNCHANGED <<storeVars, daemonVars, child, known, proof, exitFile, yieldFile, released>>

SpawnChild(t) ==
    /\ Worker(t, "claimed", "started")
    /\ child' = [child EXCEPT ![t] = "alive"]
    /\ UNCHANGED <<storeVars, daemonVars, known, proof, exitFile, yieldFile, released>>

\* Storing the child's identity may fail; the run goes on without it
RecordChild(t, stored) ==
    /\ Worker(t, "started", "identified")
    /\ known' = [known EXCEPT ![t] = stored]
    /\ UNCHANGED <<storeVars, daemonVars, child, proof, exitFile, yieldFile, released>>

Confirm(t) ==
    /\ Worker(t, "identified", "running")
    /\ \E r \in Resources : mark_run_executing(r, t)
    /\ UNCHANGED <<daemonVars, child, known, proof, exitFile, yieldFile, released>>

\* The end of the workload, and exit.json.  The processes of the run are
\* gone when the evidence says so and may survive when it is unconfirmed
WriteExit(t, end, evidence) ==
    /\ worker' = [worker EXCEPT ![t] = "reported"]
    /\ exitFile' = [exitFile EXCEPT ![t] = [end |-> end, evidence |-> evidence]]
    /\ \/ evidence = "no_child" /\ UNCHANGED child
       \/ evidence = "exited" /\ child' = [child EXCEPT ![t] = "dead"]
       \/ evidence = "unconfirmed" /\ UNCHANGED child
    /\ UNCHANGED <<storeVars, daemonVars, known, proof, yieldFile, released>>

SpawnFails(t) ==
    worker[t] = "claimed" /\ WriteExit(t, "other", "no_child")

ConfirmFails(t, evidence) ==
    worker[t] = "identified" /\ WriteExit(t, "other", evidence)

ChildExits(t, end, evidence) ==
    worker[t] = "running" /\ WriteExit(t, end, evidence)

\* The marker is set: stop the group.  A child that exited before the first
\* signal keeps its own exit
StopChild(t, end, evidence) ==
    /\ worker[t] = "running" /\ task[t].cancel
    /\ WriteExit(t, end, evidence)

\* record_exit: the commit after exit.json; the process then leaves
CommitExit(t) ==
    /\ Worker(t, "reported", "gone")
    /\ IF task[t].status = "running"
       THEN /\ \E r \in Resources : commit_job_run_exit(r, t, "running", exitFile[t].end)
            /\ proof' = [proof EXCEPT ![t] = exitFile[t].evidence]
       ELSE UNCHANGED <<storeVars, proof>>
    /\ UNCHANGED <<daemonVars, child, known, exitFile, yieldFile, released>>

-----------------------------------------------------------------------------
(* Crashes *)

DaemonCrash ==
    /\ up /\ crashes < MaxCrashes
    /\ up' = FALSE /\ crashes' = crashes + 1
    /\ plan' = NoPlan /\ pending' = NoTask /\ ask' = NoTask /\ watch' = {}
    /\ sweep' = [r \in Resources |-> NoSweep]
    /\ UNCHANGED <<storeVars, processVars>>

\* recover_tasks observes the running tasks; a queued run task is left to
\* the queue actor, which abandons it
DaemonStart ==
    /\ ~up /\ up' = TRUE
    /\ watch' = {t \in Tasks : task[t].status = "running"}
    /\ UNCHANGED <<storeVars, crashes, ask, plan, pending, sweep, processVars>>

\* The child may die with its worker or survive it
WorkerCrash(t) ==
    /\ worker[t] \in HasLock /\ crashes < MaxCrashes
    /\ crashes' = crashes + 1
    /\ worker' = [worker EXCEPT ![t] = "gone"]
    /\ \/ UNCHANGED child
       \/ child[t] = "alive" /\ child' = [child EXCEPT ![t] = "dead"]
    /\ UNCHANGED <<storeVars, up, ask, plan, pending, watch, sweep, known, proof,
                   exitFile, yieldFile, released>>

-----------------------------------------------------------------------------
Running == {r \in Resources : run[r].phase = "executing"}
NaturalEnds == {"exit0", "exit75", "other"}
GroupEvidence == {"exited", "unconfirmed"}

\* reconcile_run and the CleanupFinished message, for the run of r
SettleRun(r) ==
    \/ Abandon(r) \/ Observe(r) \/ SeeYield(r) \/ EnactKill(r)
    \/ StartCleanup(r) \/ CleanupFinished(r)

\* What a pass still has to do after a decision
FinishPass ==
    \/ EnactYield
    \/ Reserve \/ ProgramGone \/ ReserveRefused
    \/ LaunchWorker \/ LaunchDropped \/ LaunchFails
    \/ \E young \in SUBSET Running : CommitStop(young)

ActorStep ==
    \/ \E r \in Resources : SettleRun(r)
    \/ \E young \in SUBSET Running : Decide(young)
    \/ FinishPass

WorkerStep(t) ==
    \/ Claim(t) \/ ClaimRefused(t) \/ SpawnChild(t) \/ SpawnFails(t)
    \/ \E stored \in BOOLEAN : RecordChild(t, stored)
    \/ Confirm(t)
    \/ \E evidence \in GroupEvidence :
            \/ ConfirmFails(t, evidence)
            \/ \E end \in NaturalEnds \cup {"cancelled"} : StopChild(t, end, evidence)
    \/ CommitExit(t)

SystemNext ==
    \/ Request
    \/ \E r \in Resources, t \in Tasks : CancelRunTask(r, t)
    \/ \E r \in Resources : Release(r)
    \/ ActorStep
    \/ \E r \in Resources, result \in {"ok", "stuck"} : Sweep(r, result)
    \/ \E t \in Tasks :
            \/ LockReleased(t) \/ WorkerStep(t) \/ WorkerCrash(t)
            \/ \E end \in NaturalEnds, evidence \in GroupEvidence :
                    ChildExits(t, end, evidence)
    \/ DaemonCrash \/ DaemonStart

SystemSpec == SystemInit /\ [][SystemNext]_vars

\* A pass visits every stored run and runs again every 250 ms, so work on a
\* run that is there pass after pass gets done although the actor is busy in
\* between; sweeps have a time limit; the host restarts the daemon; a worker
\* goes on until it waits for its child, whose own exit is not assumed
Fairness ==
    /\ WF_vars(DaemonStart) /\ WF_vars(FinishPass)
    /\ \A r \in Resources :
            /\ SF_vars(SettleRun(r))
            /\ WF_vars(\E result \in {"ok", "stuck"} : Sweep(r, result))
    /\ \A t \in Tasks : WF_vars(LockReleased(t)) /\ WF_vars(WorkerStep(t))

FairSystemSpec == SystemSpec /\ Fairness

-----------------------------------------------------------------------------
(* Properties *)

\* Every daemon and process variable has its type
SystemTypeOK ==
    /\ TypeOK
    /\ up \in BOOLEAN /\ crashes \in 0..MaxCrashes
    /\ pending \in Tasks \cup {NoTask} /\ ask \in Tasks \cup {NoTask}
    /\ watch \subseteq Tasks
    /\ worker \in [Tasks -> WorkerStates]
    /\ child \in [Tasks -> {"none", "alive", "dead"}]
    /\ known \in [Tasks -> BOOLEAN] /\ yieldFile \in [Tasks -> BOOLEAN]
    /\ proof \in [Tasks -> Evidence]
    /\ exitFile \in [Tasks -> [end : RunEnds \cup {"none"}, evidence : Evidence]]
    /\ released \subseteq Tasks

\* Only one run's processes use a resource: a process of a run that no longer
\* holds a resource is gone, unless a person released that resource from
\* attention.  So neither the resource nor the job's state directory is
\* handed on while the earlier run still writes
NoLeftoverProcess ==
    \A t \in Tasks : child[t] = "alive" =>
        t \in released \/ \E r \in Resources : RunOn(r, t)

\* Between its claim and its own commit, a worker that holds runner.lock is
\* the only one to end its task: no watch, abandoned launch or cancel does
WorkerOwnsTask ==
    \A t \in Tasks :
        worker[t] \in HasLock \ {"spawned"} => task[t].status = "running"

\* A run that ended before its worker claimed it never starts a process: an
\* abandoned or cancelled launch cannot run beside the run that follows it
UnclaimedNeverRuns ==
    \A t \in Tasks :
        proof[t] = "no_child" /\ exitFile[t] = NoExit => child[t] = "none"

\* An exit that reached exit.json is never recorded as lost, and a success in
\* it is never recorded as anything else, whichever process commits it
ReportedExitCounts ==
    \A t \in Tasks : exitFile[t] # NoExit /\ task[t].status \in TerminalStatus =>
        /\ task[t].status # "lost"
        /\ exitFile[t].end = "exit0" => task[t].status = "succeeded"

\* The yield file of a run exists only if a yield was committed for it, and
\* it is its own: an earlier run's request never stops a later run
YieldFileWasCommitted ==
    \A t \in Tasks : yieldFile[t] =>
        \/ task[t].status \in TerminalStatus
        \/ \E r \in Resources : RunOn(r, t) /\ run[r].phase = "stopping"

\* A reservation never holds its resource for good: a worker confirms it, or
\* it is abandoned, cancelled or found lost, across daemon and worker crashes
LaunchSettles ==
    \A r \in Resources : run[r].phase = "launching" ~> run[r].phase # "launching"

\* A person's cancel of an active job ends the job, whatever its child does
\* and whichever process crashes before the marker is set or the exit stored
CancelCompletes ==
    \A j \in Jobs :
        (\E r \in Resources : run[r].job = j /\ StopCauseOf(run[r]) = "user_cancel")
            ~> job[j].state \in TerminalJob

\* Cleanup ends: the resource is free again or asks for a person, although
\* the result of a sweep is lost when the daemon crashes
CleanupSettles ==
    \A r \in Resources :
        run[r].phase = "cleaning" ~> run[r].phase \in {"idle", "attention"}

\* Two runs never use a resource or a job's directory at the same time
RunsStayApart == NoLeftoverProcess /\ UnclaimedNeverRuns

\* A run ends by its own worker's report if there is one, and yields only to
\* its own request
RunsEndAsReported ==
    SystemTypeOK /\ WorkerOwnsTask /\ ReportedExitCounts /\ YieldFileWasCommitted

=============================================================================

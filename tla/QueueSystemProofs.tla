-------------------------- MODULE QueueSystemProofs --------------------------
(***************************************************************************)
(* Proofs about QueueSystem: the queue with its daemon and its workers,    *)
(* which crash at any step, for any jobs, resources, runs and attempts.    *)
(*                                                                         *)
(* The invariant adds to the store's what ties a run task to the processes *)
(* that work on it (TasksFit), and the daemon's memory to both             *)
(* (ActorHolds).  Every step of the system is a step of the store or       *)
(* leaves it alone, so the store's part follows from the proofs about      *)
(* QueueStore; each action then keeps the rest.                            *)
(***************************************************************************)
EXTENDS QueueSystem, QueueStoreProofs, SequenceTheorems

-----------------------------------------------------------------------------
(* The invariant *)

\* The rows of the running cleanups
SweepRow ==
    [ task : Tasks \cup {NoTask}, attempt : Nat, result : {"none", "ok", "stuck"} ]

\* The state of one run task s, its worker w, its processes c, the evidence p
\* in its row and its exit.json x fit together
Fit(s, w, c, p, x) ==
    /\ s = "absent" => w = "none"
    /\ s \in {"absent", "queued"} => c = "none" /\ x = NoExit
    /\ w \in {"none", "spawned", "claimed"} => c = "none"
    /\ w \in HasLock \ {"spawned"} => s = "running"
    /\ w \notin {"reported", "gone"} => x = NoExit
    /\ w = "reported" => x # NoExit
    /\ x # NoExit => x.end \in RunEnds \ {"lost"}
    /\ x.evidence = "no_child" \/ p = "no_child" => c = "none"
    /\ x.evidence = "exited" \/ p = "exited" => c = "dead"
    /\ p # "unconfirmed" => s \in TerminalStatus
    /\ x # NoExit /\ s \in TerminalStatus =>
          s # "lost" /\ (x.end = "exit0" => s = "succeeded")

TasksFit ==
    \A t \in Tasks : Fit(task[t].status, worker[t], child[t], proof[t], exitFile[t])

\* A run's task has a row
RunTaskKnown ==
    \A r \in Resources : run[r].phase # "idle" => task[run[r].task].status # "absent"

\* The task ended, or a stop of its run is committed
Stopped(t) ==
    \/ task[t].status \in TerminalStatus
    \/ \E r \in Resources : RunOn(r, t) /\ run[r].phase = "stopping"

\* What the queue actor has in hand: a reserved task that has no worker yet, a
\* run to tell of a stop that is committed, and cleanups of tasks that ended;
\* one that confirmed its cleanup left no process
ActorHolds ==
    /\ pending # NoTask => worker[pending] = "none" /\ task[pending].status # "absent"
    /\ ask # NoTask => Stopped(ask)
    /\ \A r \in Resources : sweep[r].task # NoTask =>
          /\ task[sweep[r].task].status \in TerminalStatus
          /\ sweep[r].attempt \in 1..MaxAttempts
          /\ sweep[r].result = "ok" => child[sweep[r].task] # "alive"
    /\ \A r \in Resources : sweep[r].result # "none" => sweep[r].task # NoTask

\* The variables of the daemon and of the processes have their types
SystemTypes ==
    /\ up \in BOOLEAN /\ crashes \in 0..MaxCrashes
    /\ pending \in Tasks \cup {NoTask} /\ ask \in Tasks \cup {NoTask}
    /\ watch \in SUBSET Tasks /\ released \in SUBSET Tasks
    /\ sweep \in [Resources -> SweepRow]
    /\ plan = [launches |-> plan.launches, stop |-> plan.stop]
    /\ plan.launches \in Seq([job : Jobs, resource : Resources])
    /\ plan.stop # NoStop => plan.stop.resource \in Resources

ProcessTypes ==
    /\ worker \in [Tasks -> WorkerStates]
    /\ child \in [Tasks -> {"none", "alive", "dead"}]
    /\ known \in [Tasks -> BOOLEAN] /\ yieldFile \in [Tasks -> BOOLEAN]
    /\ proof \in [Tasks -> Evidence]
    /\ exitFile \in [Tasks -> [end : RunEnds \cup {"none"}, evidence : Evidence]]

StoreState == StoreInv /\ Dense(job) /\ OnePreemption /\ Work(job, run, task)

SystemInv ==
    /\ StoreState /\ SystemTypes /\ ProcessTypes
    /\ RunTaskKnown /\ TasksFit /\ ActorHolds
    /\ NoLeftoverProcess /\ YieldFileWasCommitted

-----------------------------------------------------------------------------
(* What a step of the store leaves *)

\* Every step of the store keeps what the earlier modules proved of it
LEMMA StoreStateKept ==
    ASSUME StoreState, [Next]_storeVars
    PROVE  StoreState' /\ Kinds
<1>0. /\ Inv /\ Rows(job, run) /\ Slotted(job) /\ OneTerminalEvent
      /\ Dense(job) /\ OnePreemption /\ Work(job, run, task)
  BY DEF StoreState, StoreInv, Rows
<1>1. Kinds
  BY <1>0, StepKinds
<1>2. Inv'
  <2>1. CASE Next
    <3>1. TypeOK'
      BY <1>0, <2>1, RequestsType, ActorCallsType, WorkerCallsType DEF Next, Inv, Consistent
    <3>2. Consistent(job, run, task)'
      BY <1>0, <2>1, RequestsTies, ActorCallsTies, WorkerCallsTies DEF Next
    <3> QED BY <3>1, <3>2 DEF Inv
  <2>2. CASE UNCHANGED storeVars
    <3>1. job' = job /\ run' = run /\ task' = task /\ events' = events
      BY <2>2 DEF storeVars
    <3>2. TypeOK'
      BY <1>0, <3>1 DEF Inv, TypeOK
    <3>3. Consistent(job, run, task)'
      BY <1>0, <3>1, NextTies DEF Inv
    <3> QED BY <3>2, <3>3 DEF Inv
  <2> QED BY <2>1, <2>2
<1>3. Rows(job, run)'
  <2>1. Rows(job', run')
    BY <1>0, <1>1, RowsKept
  <2> QED BY <2>1 DEF Rows, Slotted, Fresh, OnStep
<1>4. OneTerminalEvent'
  <2>1. \A j \in Jobs : LogFits(events'[j], job'[j].state)
    BY <1>0, <1>1, LogsKept
  <2> QED BY <2>1 DEF LogFits, OneTerminalEvent
<1>5. Dense(job)'
  <2>1. Dense(job')
    BY <1>0, <1>1, <1>2, DenseKept
  <2> QED BY <2>1 DEF Dense, Packed, level
<1>6. OnePreemption'
  BY <1>0, <1>1, OnePreemptionKept
<1>7. Work(job, run, task)'
  <2>1. \A k \in Jobs : WorkOf(job', run', task', k)
    BY <1>0, <1>1, <1>2, WorkKept
  <2> QED BY <2>1 DEF Work, WorkOf, StepFits, Done, Resuming, Resumable, HoldsJob
<1> QED BY <1>1, <1>2, <1>3, <1>4, <1>5, <1>6, <1>7 DEF StoreState, StoreInv

\* A new run's task has no row yet
LEMMA NewTask ==
    ASSUME StoreState, NEW j \in Jobs, NEW r \in Resources, MayReserve(j, r)
    PROVE  /\ <<j, job[j].runs + 1>> \in Tasks
           /\ task[<<j, job[j].runs + 1>>].status = "absent"
<1>1. TypeOK /\ Work(job, run, task)
  BY DEF StoreState, StoreInv, Inv
<1>2. <<j, job[j].runs + 1>> \in Tasks
  BY <1>1, ReservedType
<1>3. job[j].runs \in Nat
  BY <1>1 DEF TypeOK, JobRow
<1>4. job[j].runs + 1 \in 1..MaxRuns
  BY <1>2 DEF Tasks
<1> QED BY <1>1, <1>2, <1>3, <1>4 DEF Work, WorkOf

\* A task that ended keeps its status, no row goes, and a run has a row
TasksLast ==
    \A t \in Tasks :
        /\ task[t].status \in TerminalStatus => task'[t].status = task[t].status
        /\ task[t].status # "absent" => task'[t].status # "absent"

LEMMA TasksLastKept ==
    ASSUME StoreState, Kinds
    PROVE  TasksLast
<1> SUFFICES ASSUME NEW t \in Tasks
             PROVE  /\ task[t].status \in TerminalStatus => task'[t].status = task[t].status
                    /\ task[t].status # "absent" => task'[t].status # "absent"
  BY DEF TasksLast
<1>0. /\ TypeOK /\ Owned(run) /\ Live(run, task) /\ task \in [Tasks -> TaskRow]
  BY DEF StoreState, StoreInv, Inv, Consistent, TypeOK
<1>a. "absent" \notin TerminalStatus /\ "queued" \notin TerminalStatus /\ "running" \notin TerminalStatus
  BY DEF TerminalStatus
<1>1. CASE task'[t].status = task[t].status
  BY <1>1
<1>2. ASSUME NEW r \in Resources, Proceeds(r)
      PROVE  \/ task'[t].status = task[t].status
             \/ task[t].status = "queued" /\ task'[t].status = "running"
  BY <1>2 DEF Proceeds
<1>3. ASSUME NEW j \in Jobs, NEW r \in Resources, MayReserve(j, r),
             NEW tk, \A u \in Tasks \ {<<j, job[j].runs + 1>>} : tk[u] = ReservedTask(j)[u], task' = tk,
             tk[<<j, job[j].runs + 1>>].status \in TerminalStatus \cup {"queued"}
      PROVE  task'[t].status = task[t].status \/ task[t].status = "absent"
  <2>1. \A u \in Tasks \ {<<j, job[j].runs + 1>>} : ReservedTask(j)[u] = task[u]
    BY <1>0, <1>3, ReservedRows
  <2>2. task[<<j, job[j].runs + 1>>].status = "absent"
    BY <1>3, NewTask
  <2> QED BY <1>3, <2>1, <2>2
<1>4. ASSUME NEW j \in Jobs, NEW r \in Resources, Starts(j, r)
      PROVE  task'[t].status = task[t].status \/ task[t].status = "absent"
  <2>1. MayReserve(j, r) /\ task' = ReservedTask(j)
    BY <1>4 DEF Starts
  <2>2. ReservedTask(j)[<<j, job[j].runs + 1>>].status = "queued"
    BY <1>0, <2>1, ReservedRows
  <2> QED BY <1>3, <2>1, <2>2
<1>5. ASSUME NEW j \in Jobs, NEW r \in Resources, Fails(j, r)
      PROVE  task'[t].status = task[t].status \/ task[t].status = "absent"
  <2>1. MayReserve(j, r)
    BY <1>5 DEF Fails
  <2>2. ReservedRun(j, r)[r].task = <<j, job[j].runs + 1>>
    BY <1>0, <2>1, ReservedRows
  <2>3. /\ task'[<<j, job[j].runs + 1>>].status = "failed"
        /\ \A u \in Tasks \ {<<j, job[j].runs + 1>>} : task'[u] = ReservedTask(j)[u]
    BY <1>5, <2>2 DEF Fails, EndsIn
  <2> QED BY <1>3, <2>1, <2>3 DEF TerminalStatus
<1>6. ASSUME NEW r \in Resources, NEW move, NEW outcome \in TerminalStatus, Ends(r, move, outcome)
      PROVE  \/ task'[t].status = task[t].status
             \/ task[t].status \in {"queued", "running"} /\ task'[t].status \in TerminalStatus
  <2>1. HoldsJob(run[r]) /\ EndsIn(job, run, task, r, move, outcome)
    BY <1>6 DEF Ends
  <2>2. task'[run[r].task].status = outcome /\ \A u \in Tasks \ {run[r].task} : task'[u] = task[u]
    BY <2>1 DEF EndsIn
  <2>3. t = run[r].task => task[t].status \in {"queued", "running"}
    BY <1>0, <2>1 DEF Live
  <2>4. CASE t = run[r].task
    BY <2>2, <2>3, <2>4
  <2>5. CASE t # run[r].task
    BY <2>2, <2>5
  <2> QED BY <2>4, <2>5
<1>7. CASE task' = task
  BY <1>7
<1>8. CASE \A u \in Tasks : task'[u].status = task[u].status
  BY <1>8
<1>9. \/ task' = task \/ \A u \in Tasks : task'[u].status = task[u].status
      \/ \E j \in Jobs, r \in Resources : Starts(j, r) \/ Fails(j, r)
      \/ \E r \in Resources : Proceeds(r)
      \/ \E r \in Resources, move \in Moves \cup {"abandoned"},
            outcome \in TerminalStatus : Ends(r, move, outcome)
  BY DEF Kinds, Accepts, Reorders, Withdraws, Reminds, Sticks, Frees, storeVars
<1> QED BY <1>a, <1>2, <1>4, <1>5, <1>6, <1>7, <1>8, <1>9

\* The task of a run that is cleaned up has ended
LEMMA CleanedHasEnded ==
    ASSUME NEW rn, NEW tk, Owned(rn), Single(rn), Live(rn, tk), tk \in [Tasks -> TaskRow],
           NEW r \in Resources, rn[r].phase \in {"cleaning", "attention"},
           tk[rn[r].task].status # "absent"
    PROVE  rn[r].task \in Tasks /\ tk[rn[r].task].status \in TerminalStatus
<1>1. rn[r].task \in Tasks /\ rn[r].task[1] = rn[r].job /\ rn[r].job \in Jobs
  BY DEF Owned
<1>2. ~HoldsJob(rn[r])
  BY DEF HoldsJob, HoldingPhases
<1>3. ASSUME NEW s \in Resources, rn[s].task = rn[r].task, HoldsJob(rn[s]) PROVE FALSE
  <2>1. rn[s].phase # "idle"
    BY <1>3 DEF HoldsJob, HoldingPhases
  <2>2. rn[s].job = rn[r].job
    BY <1>1, <1>3, <2>1 DEF Owned
  <2>3. s = r
    BY <2>1, <2>2 DEF Single
  <2> QED BY <1>2, <1>3, <2>3
<1>4. tk[rn[r].task].status \notin {"queued", "running"}
  BY <1>1, <1>3 DEF Live
<1>6. tk[rn[r].task].status \in TaskStatuses
  BY <1>1 DEF TaskRow
<1> QED BY <1>1, <1>4, <1>6 DEF TaskStatuses

\* A run that takes a resource has a task with a row
LEMMA RunTaskKnownKept ==
    ASSUME StoreState, StoreState', RunTaskKnown, Kinds, TasksLast
    PROVE  RunTaskKnown'
<1> SUFFICES ASSUME NEW q \in Resources, run'[q].phase # "idle"
             PROVE  task'[run'[q].task].status # "absent"
  BY DEF RunTaskKnown
<1>0. /\ TypeOK /\ Owned(run) /\ run \in [Resources -> RunRow]
  BY DEF StoreState, StoreInv, Inv, Consistent, TypeOK
<1>b. TypeOK
  BY DEF StoreState, StoreInv, Inv
<1>1. ASSUME run[q].phase # "idle", run'[q].task = run[q].task
      PROVE  task'[run'[q].task].status # "absent"
  BY <1>0, <1>1 DEF RunTaskKnown, TasksLast, Owned
<1>2. CASE run'[q] = run[q]
  BY <1>1, <1>2
<1>3. ASSUME NEW r \in Resources, Proceeds(r) \/ Sticks(r) PROVE task'[run'[q].task].status # "absent"
  BY <1>1, <1>2, <1>3 DEF Proceeds, Sticks
<1>4. ASSUME NEW r \in Resources, Frees(r) PROVE task'[run'[q].task].status # "absent"
  <2>1. q # r
    BY <1>0, <1>4 DEF Frees, IdleRun
  <2> QED BY <1>0, <1>2, <1>4, <2>1 DEF Frees
<1>5. ASSUME NEW j \in Jobs, NEW r \in Resources, Starts(j, r) PROVE task'[run'[q].task].status # "absent"
  <2>1. MayReserve(j, r) /\ run' = ReservedRun(j, r) /\ task' = ReservedTask(j)
    BY <1>5 DEF Starts
  <2>2. /\ run'[r].task = <<j, job[j].runs + 1>> /\ task'[<<j, job[j].runs + 1>>].status = "queued"
        /\ \A u \in Resources \ {r} : run'[u] = run[u]
    <3>1. <<j, job[j].runs + 1>> \in Tasks
      BY <1>b, <2>1, NewTask
    <3>2. task'[<<j, job[j].runs + 1>>].status = "queued"
      BY <1>b, <2>1, <3>1 DEF ReservedTask, AbsentTask, TypeOK
    <3>3. run'[r].task = <<j, job[j].runs + 1>> /\ \A u \in Resources \ {r} : run'[u] = run[u]
      BY <1>0, <2>1 DEF ReservedRun, IdleRun
    <3> QED BY <3>2, <3>3
  <2>3. CASE q = r
    BY <2>2, <2>3
  <2>4. CASE q # r
    BY <1>2, <2>2, <2>4
  <2> QED BY <2>3, <2>4
<1>6. ASSUME NEW j \in Jobs, NEW r \in Resources, Fails(j, r) PROVE task'[run'[q].task].status # "absent"
  <2>1. MayReserve(j, r)
    BY <1>6 DEF Fails
  <2>2. /\ \A u \in Resources \ {r} : run'[u] = ReservedRun(j, r)[u]
        /\ run'[r].task = ReservedRun(j, r)[r].task /\ task'[ReservedRun(j, r)[r].task].status = "failed"
    BY <1>6 DEF Fails, EndsIn
  <2>3. \A u \in Resources \ {r} : ReservedRun(j, r)[u] = run[u]
    BY <1>0 DEF ReservedRun
  <2>4. CASE q = r
    BY <2>2, <2>4
  <2>5. CASE q # r
    BY <1>2, <2>2, <2>3, <2>5
  <2> QED BY <2>4, <2>5
<1>7. ASSUME NEW r \in Resources, NEW move, NEW outcome, Ends(r, move, outcome)
      PROVE  task'[run'[q].task].status # "absent"
  <2>1. /\ \A u \in Resources \ {r} : run'[u] = run[u]
        /\ run'[r].task = run[r].task /\ run[r].phase # "idle"
    BY <1>7 DEF Ends, EndsIn, HoldsJob, HoldingPhases
  <2> QED BY <1>1, <1>2, <2>1
<1>8. CASE run' = run
  BY <1>2, <1>8
<1> QED BY <1>3, <1>4, <1>5, <1>6, <1>7, <1>8 DEF Kinds, Accepts, Reorders, Withdraws, Reminds, storeVars

\* A committed stop lasts until the task ended
LEMMA StoppedKept ==
    ASSUME StoreState, StoreState', RunTaskKnown', Kinds, TasksLast, NEW t \in Tasks, Stopped(t)
    PROVE  Stopped(t)'
<1>0. Inv /\ Inv'
  BY DEF StoreState, StoreInv
<1>1. CASE task[t].status \in TerminalStatus
  BY <1>1 DEF TasksLast, Stopped
<1>2. ASSUME NEW r \in Resources, RunOn(r, t), run[r].phase = "stopping" PROVE Stopped(t)'
  <2>1. run'[r].task = t /\ run'[r].phase \in {"stopping", "cleaning"}
    <3>1. CASE \A s \in Resources : StopKept(run[s], run'[s])
      BY <1>2, <3>1 DEF StopKept, RunOn
    <3>2. CASE Preempts
      <4>1. PICK q \in Resources : run[q].phase = "executing" /\ \A s \in Resources \ {q} : run'[s] = run[s]
        BY <1>0, <3>2, PreemptsOne
      <4> QED BY <1>2, <4>1 DEF RunOn
    <3> QED BY <1>0, <3>1, <3>2, StopsKept
  <2>2. CASE run'[r].phase = "stopping"
    BY <2>1, <2>2 DEF Stopped, RunOn
  <2>3. CASE run'[r].phase = "cleaning"
    <3>1. Owned(run') /\ Single(run') /\ Live(run', task') /\ task' \in [Tasks -> TaskRow]
      BY <1>0 DEF Inv, Consistent, TypeOK, Owned, Single, Live, HoldsJob
    <3>2. task'[run'[r].task].status # "absent"
      BY <2>3 DEF RunTaskKnown
    <3>3. task'[run'[r].task].status \in TerminalStatus
      BY <2>3, <3>1, <3>2, CleanedHasEnded
    <3> QED BY <2>1, <3>3 DEF Stopped
  <2> QED BY <2>1, <2>2, <2>3
<1> QED BY <1>1, <1>2 DEF Stopped

-----------------------------------------------------------------------------
(* Every step of the system is a step of the store, or leaves it alone *)

LEMMA NoTaskIsNone == NoTask \notin Tasks
  BY DEF NoTask, Tasks

\* A run that is not idle has a task
LEMMA RunHasTask ==
    ASSUME StoreState, NEW r \in Resources, run[r].phase # "idle"
    PROVE  run[r].task \in Tasks
  BY DEF StoreState, StoreInv, Inv, Consistent, Owned

\* What a commit of a run's end does to the task
LEMMA CommitStatus ==
    ASSUME NEW jb, NEW rn, NEW tk, NEW r, NEW t, NEW from, NEW end,
           commit_terminal(jb, rn, tk, r, t, from, end)
    PROVE  /\ tk[t].status = from /\ from \in {"queued", "running"}
           /\ HoldsJob(rn[r]) /\ rn[r].task = t
           /\ LET class == classify(end, StopCauseOf(rn[r]), IsLast(jb[rn[r].job].spec, rn[r].step))
              IN  /\ task' = [tk EXCEPT ![t].status = class.outcome]
                  /\ finish_run(jb, rn, r, class.move)
<1>1. from \in {"queued", "running"}
  BY DEF commit_terminal, StatusMayMove
<1> QED BY <1>1 DEF commit_terminal

\* The first launch of a plan
LEMMA NextLaunchType ==
    ASSUME SystemTypes, plan.launches # <<>>
    PROVE  /\ NextLaunch.job \in Jobs /\ NextLaunch.resource \in Resources
           /\ Tail(plan.launches) \in Seq([job : Jobs, resource : Resources])
<1> DEFINE L == [job : Jobs, resource : Resources]
<1>1. plan.launches \in Seq(L)
  BY DEF SystemTypes
<1> HIDE DEF L
<1>2. Head(plan.launches) \in L /\ Tail(plan.launches) \in Seq(L)
  BY <1>1
<1> QED BY <1>2 DEF L, NextLaunch

\* The store sees the calls of the daemon and of the workers
LEMMA ActorSimulates ==
    ASSUME SystemInv, ActorStep
    PROVE  [Next]_storeVars
<1>0. /\ StoreState /\ SystemTypes /\ ActorHolds
  BY DEF SystemInv
<1>1. ASSUME NEW r \in Resources, SettleRun(r) PROVE [Next]_storeVars
  <2>1. CASE Abandon(r)
    <3>1. abandon_launch(r, run[r].task) /\ run[r].phase # "idle"
      BY <2>1 DEF Abandon, abandon_launch
    <3> QED BY <1>0, <3>1, RunHasTask DEF Next, ActorCalls
  <2>2. CASE Observe(r)
    BY <2>2 DEF Observe
  <2>3. CASE SeeYield(r)
    BY <2>3 DEF SeeYield
  <2>4. CASE EnactKill(r)
    <3>1. signal_committed_run_stop(r, run[r].task) /\ run[r].phase # "idle"
      BY <2>4 DEF EnactKill
    <3> QED BY <1>0, <3>1, RunHasTask DEF Next, ActorCalls
  <2>5. CASE StartCleanup(r)
    <3>1. begin_cleanup_attempt(r, run[r].task) /\ run[r].phase # "idle"
      BY <2>5 DEF StartCleanup, begin_cleanup_attempt
    <3> QED BY <1>0, <3>1, RunHasTask DEF Next, ActorCalls
  <2>6. CASE CleanupFinished(r)
    <3>1. /\ apply_cleanup_result(r, sweep[r].task, sweep[r].attempt, sweep[r].result = "ok")
          /\ sweep[r].result # "none"
      BY <2>6 DEF CleanupFinished
    <3>2. sweep[r].attempt \in 1..MaxAttempts /\ sweep[r].task # NoTask
      BY <1>0, <3>1 DEF ActorHolds
    <3>3. sweep[r].task \in Tasks
      BY <1>0, <3>2 DEF SystemTypes, SweepRow
    <3>4. (sweep[r].result = "ok") \in BOOLEAN
      OBVIOUS
    <3> QED BY <3>1, <3>2, <3>3, <3>4 DEF Next, ActorCalls
  <2> QED BY <1>1, <2>1, <2>2, <2>3, <2>4, <2>5, <2>6 DEF SettleRun
<1>2. ASSUME NEW young \in SUBSET Running, Decide(young) PROVE [Next]_storeVars
  BY <1>2 DEF Decide
<1>3. CASE EnactYield
  BY <1>3 DEF EnactYield
<1>4. CASE Reserve
  BY <1>0, <1>4, NextLaunchType DEF Reserve, Next, ActorCalls
<1>5. CASE ProgramGone
  BY <1>0, <1>5, NextLaunchType DEF ProgramGone, Next, ActorCalls
<1>6. CASE ReserveRefused
  BY <1>6 DEF ReserveRefused
<1>7. CASE LaunchWorker
  BY <1>7 DEF LaunchWorker
<1>8. CASE LaunchDropped
  BY <1>8 DEF LaunchDropped
<1>9. CASE LaunchFails
  <2>1. pending \in Tasks
    BY <1>0, <1>9 DEF SystemTypes, LaunchFails
  <2>2. PICK r \in Resources : commit_job_run_exit(r, pending, "queued", "other")
    BY <1>9 DEF LaunchFails
  <2> QED BY <2>1, <2>2 DEF Next, WorkerCalls, RunEnds
<1>10. ASSUME NEW young \in SUBSET Running, CommitStop(young) PROVE [Next]_storeVars
  <2>1. CASE commit_preemption(plan.stop, young)
    <3>1. decide(job, run, young).preemption = plan.stop
      BY <2>1 DEF commit_preemption
    <3>2. commit_preemption(decide(job, run, young).preemption, young)
      BY <2>1, <3>1
    <3> QED BY <3>2 DEF Next, ActorCalls, Running
  <2>2. CASE UNCHANGED storeVars
    BY <2>2
  <2> QED BY <1>10, <2>1, <2>2 DEF CommitStop
<1> QED BY <1>1, <1>2, <1>3, <1>4, <1>5, <1>6, <1>7, <1>8, <1>9, <1>10 DEF ActorStep, FinishPass

LEMMA WorkerSimulates ==
    ASSUME SystemInv, NEW t \in Tasks, WorkerStep(t) \/ LockReleased(t)
    PROVE  [Next]_storeVars
<1>0. StoreState /\ ProcessTypes /\ TasksFit
  BY DEF SystemInv
<1>a. exitFile[t].end \in RunEnds \cup {"none"}
  BY <1>0 DEF ProcessTypes
<1>1. CASE Claim(t)
  BY <1>1 DEF Claim, Next, WorkerCalls
<1>2. CASE Confirm(t)
  <2>1. worker[t] = "identified"
    BY <1>2 DEF Confirm, Worker
  <2>2. task[t].status = "running"
    BY <1>0, <2>1 DEF TasksFit, Fit, HasLock
  <2>3. PICK r \in Resources : mark_run_executing(r, t)
    BY <1>2 DEF Confirm
  <2> QED BY <2>2, <2>3 DEF Next, WorkerCalls
<1>3. CASE CommitExit(t)
  <2>1. worker[t] = "reported"
    BY <1>3 DEF CommitExit, Worker
  <2>2. exitFile[t].end \in RunEnds
    BY <1>0, <2>1 DEF TasksFit, Fit
  <2>3. CASE task[t].status = "running"
    <3>1. PICK r \in Resources : commit_job_run_exit(r, t, "running", exitFile[t].end)
      BY <1>3, <2>3 DEF CommitExit
    <3> QED BY <2>2, <3>1 DEF Next, WorkerCalls
  <2>4. CASE task[t].status # "running"
    BY <1>3, <2>4 DEF CommitExit
  <2> QED BY <2>3, <2>4
<1>4. CASE LockReleased(t)
  <2>1. CASE task[t].status \in TerminalStatus
    BY <1>4, <2>1 DEF LockReleased
  <2>2. CASE task[t].status \notin TerminalStatus
    <3>1. PICK r \in Resources :
              IF exitFile[t] # NoExit
              THEN commit_job_run_exit(r, t, task[t].status, exitFile[t].end)
              ELSE commit_lost(r, t, task[t].status)
      BY <1>4, <2>2 DEF LockReleased
    <3>2. task[t].status \in {"queued", "running"}
      BY <3>1, CommitStatus DEF commit_job_run_exit, commit_lost
    <3>3. exitFile[t] # NoExit => exitFile[t].end \in RunEnds
      BY <1>0 DEF TasksFit, Fit
    <3>4. CASE exitFile[t] # NoExit
      BY <3>1, <3>2, <3>3, <3>4 DEF Next, WorkerCalls
    <3>5. CASE exitFile[t] = NoExit
      BY <3>1, <3>2, <3>5 DEF Next, WorkerCalls
    <3> QED BY <3>4, <3>5
  <2> QED BY <2>1, <2>2
<1>5. CASE /\ ~Claim(t) /\ ~Confirm(t) /\ ~CommitExit(t) /\ ~LockReleased(t)
  <2>1. UNCHANGED storeVars
    BY <1>5 DEF WorkerStep, ClaimRefused, SpawnChild, SpawnFails, RecordChild, ConfirmFails, StopChild, WriteExit
  <2> QED BY <2>1
<1> QED BY <1>1, <1>2, <1>3, <1>4, <1>5

LEMMA SystemSimulates ==
    ASSUME SystemInv, [SystemNext]_vars
    PROVE  [Next]_storeVars
<1>0. StoreState
  BY DEF SystemInv
<1>1. CASE Request
  <2>1. CASE \E m \in Submissions : submit_job(m[1], m[2])
    BY <2>1 DEF Next, Requests
  <2>2. CASE \E j \in Movable, p \in Priorities, front \in BOOLEAN : move_to_edge(j, p, front)
    BY <2>2 DEF Next, Requests
  <2>3. CASE \E j \in Cancellable : cancel_job(j)
    BY <2>3, SystemAssumption DEF Next, Requests
  <2> QED BY <1>1, <2>1, <2>2, <2>3 DEF Request
<1>2. ASSUME NEW r \in Resources, NEW t \in Tasks, CancelRunTask(r, t) PROVE [Next]_storeVars
  BY <1>2 DEF CancelRunTask, Next, Requests
<1>3. ASSUME NEW r \in Resources, Release(r) PROVE [Next]_storeVars
  <2>1. release_resource_attention(r, run[r].task) /\ run[r].phase # "idle"
    BY <1>3 DEF Release, release_resource_attention
  <2> QED BY <1>0, <2>1, RunHasTask DEF Next, Requests
<1>4. ASSUME NEW r \in Resources, NEW result, Sweep(r, result) PROVE [Next]_storeVars
  BY <1>4 DEF Sweep
<1>5. ASSUME NEW t \in Tasks, WorkerCrash(t) PROVE [Next]_storeVars
  BY <1>5 DEF WorkerCrash
<1>6. ASSUME NEW t \in Tasks, NEW end, NEW evidence, ChildExits(t, end, evidence) PROVE [Next]_storeVars
  BY <1>6 DEF ChildExits, WriteExit
<1>7. CASE DaemonCrash \/ DaemonStart
  BY <1>7 DEF DaemonCrash, DaemonStart
<1>8. CASE UNCHANGED vars
  BY <1>8 DEF vars
<1> QED
  BY <1>1, <1>2, <1>3, <1>4, <1>5, <1>6, <1>7, <1>8, ActorSimulates, WorkerSimulates DEF SystemNext

-----------------------------------------------------------------------------
(* What the operations of the store do to tasks and to the runs of resources *)

\* Every run keeps its resource
RunsStay ==
    \A r \in Resources :
        run[r].phase # "idle" => run'[r].phase # "idle" /\ run'[r].task = run[r].task

\* No task changes its state, or t does so only
SameTasks == \A u \in Tasks : task'[u].status = task[u].status
OthersSame(t) == \A u \in Tasks \ {t} : task'[u].status = task[u].status

\* The task of a run ends
EndsTask(t) ==
    /\ RunsStay /\ OthersSame(t)
    /\ task[t].status \in {"queued", "running"} /\ task'[t].status \in TerminalStatus

\* One run is rewritten and keeps its task
LEMMA RunRewritten ==
    ASSUME run \in [Resources -> RunRow], NEW r, NEW rec,
           run' = [run EXCEPT ![r] = rec],
           r \in Resources => rec.phase # "idle" /\ rec.task = run[r].task
    PROVE  RunsStay
  BY DEF RunsStay

\* A transaction that ends a run keeps every run's resource
LEMMA FinishStays ==
    ASSUME NEW rn \in [Resources -> RunRow], NEW jb, NEW r \in Resources, NEW move,
           finish_run(jb, rn, r, move),
           \A s \in Resources : run[s].phase # "idle" =>
                rn[s].phase # "idle" /\ rn[s].task = run[s].task
    PROVE  RunsStay
<1>1. run' = [rn EXCEPT ![r] = [rn[r] EXCEPT !.phase = "cleaning", !.started = 0,
                                             !.cause = NoCause, !.attempt = 1]]
  BY DEF finish_run
<1>2. run'[r].phase = "cleaning" /\ run'[r].task = rn[r].task /\ \A s \in Resources \ {r} : run'[s] = rn[s]
  BY <1>1 DEF RunRow
<1> QED BY <1>2 DEF RunsStay

\* The task of the run that a transaction ends, with the outcome of its class
LEMMA CommitEndsTask ==
    ASSUME TypeOK, NEW rn \in [Resources -> RunRow], NEW tk \in [Tasks -> TaskRow],
           NEW jb, NEW r \in Resources, NEW t \in Tasks, NEW from, NEW end \in RunEnds,
           commit_terminal(jb, rn, tk, r, t, from, end),
           \A u \in Tasks : tk[u].status = task[u].status,
           \A s \in Resources : run[s].phase # "idle" =>
                rn[s].phase # "idle" /\ rn[s].task = run[s].task
    PROVE  /\ EndsTask(t) /\ task[t].status = from
           /\ end = "exit0" => task'[t].status = "succeeded"
           /\ end # "lost" => task'[t].status # "lost"
<1> DEFINE cause == StopCauseOf(rn[r])
           last == IsLast(jb[rn[r].job].spec, rn[r].step)
           class == classify(end, cause, last)
<1>1. /\ tk[t].status = from /\ from \in {"queued", "running"}
      /\ task' = [tk EXCEPT ![t].status = class.outcome]
      /\ finish_run(jb, rn, r, class.move)
  BY CommitStatus
<1>2. cause \in Causes \cup {NoCause}
  BY StopCauseType
<1>3. last \in BOOLEAN
  BY DEF IsLast
<1> HIDE DEF cause, last
<1>4. class.outcome \in TerminalStatus
  BY <1>2, <1>3, ClassifyType
<1>5. /\ end = "exit0" => class.outcome = "succeeded"
      /\ end # "lost" => class.outcome # "lost"
  <2>1. CASE end = "exit0"
    BY <1>2, <1>3, <2>1, SMT DEF classify, Class
  <2>2. CASE end = "exit75"
    BY <1>2, <1>3, <2>2, SMT DEF classify, Class
  <2>3. CASE end = "cancelled"
    BY <1>2, <1>3, <2>3, SMT DEF classify, Class
  <2>4. CASE end = "other"
    BY <1>2, <1>3, <2>4, SMT DEF classify, Class
  <2> QED BY <2>1, <2>2, <2>3, <2>4 DEF RunEnds
<1>6. RunsStay
  BY <1>1, FinishStays
<1> HIDE DEF class
<1>7. task'[t].status = class.outcome /\ \A u \in Tasks \ {t} : task'[u] = tk[u]
  BY <1>1 DEF TaskRow
<1> QED BY <1>1, <1>4, <1>5, <1>6, <1>7 DEF EndsTask, OthersSame

\* A stored exit or a lost worker ends its task
LEMMA ExitEndsTask ==
    ASSUME TypeOK, NEW r \in Resources, NEW t \in Tasks, NEW from, NEW end \in RunEnds,
           commit_terminal(job, run, task, r, t, from, end)
    PROVE  /\ EndsTask(t) /\ task[t].status = from
           /\ end = "exit0" => task'[t].status = "succeeded"
           /\ end # "lost" => task'[t].status # "lost"
<1>1. run \in [Resources -> RunRow] /\ task \in [Tasks -> TaskRow]
  BY DEF TypeOK
<1> QED BY <1>1, CommitEndsTask

\* The cancellation marker ends a task that no worker claimed
LEMMA CancelInnerEnds ==
    ASSUME TypeOK, NEW rn \in [Resources -> RunRow], NEW r \in Resources, NEW t \in Tasks,
           request_cancel_inner(rn, r, t),
           \A s \in Resources : run[s].phase # "idle" =>
                rn[s].phase # "idle" /\ rn[s].task = run[s].task
    PROVE  IF task[t].status = "queued" THEN EndsTask(t) ELSE RunsStay /\ SameTasks
<1> DEFINE marked == [task EXCEPT ![t] = [task[t] EXCEPT !.cancel = TRUE]]
<1>0. task \in [Tasks -> TaskRow]
  BY DEF TypeOK
<1>1. marked \in [Tasks -> TaskRow] /\ \A u \in Tasks : marked[u].status = task[u].status
  <2>1. [task[t] EXCEPT !.cancel = TRUE] \in TaskRow /\ [task[t] EXCEPT !.cancel = TRUE].status = task[t].status
    BY <1>0 DEF TaskRow
  <2> QED BY <1>0, <2>1
<1>2. IF task[t].status = "queued"
      THEN commit_terminal(job, rn, marked, r, t, "queued", "cancelled")
      ELSE task' = marked /\ run' = rn
  BY DEF request_cancel_inner
<1> HIDE DEF marked
<1>3. CASE task[t].status = "queued"
  <2>1. commit_terminal(job, rn, marked, r, t, "queued", "cancelled") /\ "cancelled" \in RunEnds
    BY <1>2, <1>3 DEF RunEnds
  <2>2. EndsTask(t)
    BY <1>1, <2>1, CommitEndsTask
  <2> QED BY <1>3, <2>2
<1>4. CASE task[t].status # "queued"
  BY <1>1, <1>2, <1>4 DEF RunsStay, SameTasks
<1> QED BY <1>3, <1>4

LEMMA CancelEnds ==
    ASSUME TypeOK, NEW r \in Resources, NEW t \in Tasks,
           request_cancel(r, t) \/ signal_committed_run_stop(r, t)
    PROVE  IF task[t].status = "queued" THEN EndsTask(t) ELSE RunsStay /\ SameTasks
<1>0. run \in [Resources -> RunRow]
  BY DEF TypeOK
<1>1. CASE request_cancel(r, t)
  <2> DEFINE rn == [run EXCEPT ![r] = request_stop(run[r], "user_cancel")]
  <2>1. request_cancel_inner(rn, r, t)
    BY <1>1 DEF request_cancel
  <2>2. /\ request_stop(run[r], "user_cancel") \in RunRow
        /\ request_stop(run[r], "user_cancel").phase = "stopping"
        /\ request_stop(run[r], "user_cancel").task = run[r].task
    BY <1>0, RequestStopType DEF Causes
  <2>3. /\ rn \in [Resources -> RunRow]
        /\ \A s \in Resources : run[s].phase # "idle" => rn[s].phase # "idle" /\ rn[s].task = run[s].task
    BY <1>0, <2>2
  <2> HIDE DEF rn
  <2> QED BY <2>1, <2>3, CancelInnerEnds
<1>2. CASE signal_committed_run_stop(r, t)
  <2>1. request_cancel_inner(run, r, t)
    BY <1>2 DEF signal_committed_run_stop
  <2> QED BY <1>0, <2>1, CancelInnerEnds
<1> QED BY <1>1, <1>2

\* A launch that is given up ends its task
LEMMA AbandonEnds ==
    ASSUME TypeOK, NEW r \in Resources, NEW t \in Tasks, abandon_launch(r, t)
    PROVE  EndsTask(t) /\ task[t].status = "queued"
<1>0. run \in [Resources -> RunRow] /\ task \in [Tasks -> TaskRow]
  BY DEF TypeOK
<1>1. /\ task[t].status = "queued" /\ task' = [task EXCEPT ![t].status = "failed"]
      /\ finish_run(job, run, r, "abandoned")
  BY DEF abandon_launch
<1>2. RunsStay
  BY <1>0, <1>1, FinishStays
<1>3. task'[t].status = "failed" /\ \A u \in Tasks \ {t} : task'[u] = task[u]
  BY <1>0, <1>1 DEF TaskRow
<1> QED BY <1>1, <1>2, <1>3 DEF EndsTask, OthersSame, TerminalStatus

\* A request, a start, a committed stop and an attempt of a cleanup end no task
LEMMA RequestStays ==
    ASSUME TypeOK, Request
    PROVE  RunsStay /\ SameTasks
<1>0. run \in [Resources -> RunRow]
  BY DEF TypeOK
<1>1. CASE \E m \in Submissions : submit_job(m[1], m[2])
  BY <1>1 DEF submit_job, RunsStay, SameTasks
<1>2. CASE \E j \in Movable, p \in Priorities, front \in BOOLEAN : move_to_edge(j, p, front)
  BY <1>2 DEF move_to_edge, RunsStay, SameTasks
<1>3. ASSUME NEW j, cancel_queued_job(j) PROVE RunsStay /\ SameTasks
  BY <1>3 DEF cancel_queued_job, RunsStay, SameTasks
<1>4. ASSUME NEW j, cancel_active_job(j) PROVE RunsStay /\ SameTasks
  <2> DEFINE r == job[j].resource
  <2>1. run' = [run EXCEPT ![r] = request_stop(run[r], "user_cancel")] /\ task' = task
    BY <1>4 DEF cancel_active_job
  <2> HIDE DEF r
  <2>2. r \in Resources => request_stop(run[r], "user_cancel").phase = "stopping"
                           /\ request_stop(run[r], "user_cancel").task = run[r].task
    BY <1>0, RequestStopType DEF Causes
  <2>3. RunsStay
    BY <1>0, <2>1, <2>2, RunRewritten
  <2> QED BY <2>1, <2>3 DEF SameTasks
<1> QED BY <1>1, <1>2, <1>3, <1>4 DEF Request, cancel_job

LEMMA StopStays ==
    ASSUME Inv, NEW stop, NEW young, commit_preemption(stop, young)
    PROVE  RunsStay /\ SameTasks
<1>0. run \in [Resources -> RunRow] /\ TypeOK /\ Owned(run)
  BY DEF TypeOK, Inv, Consistent
<1>a. TypeOK
  BY <1>0
<1>1. /\ stop # NoStop /\ decide(job, run, young).preemption = stop
      /\ run' = [run EXCEPT ![stop.resource] = request_stop(run[stop.resource], stop.cause)]
      /\ task' = task
  BY DEF commit_preemption
<1>2. stop.cause \in Causes /\ stop.resource \in Resources
  BY <1>0, <1>a, <1>1, DecisionCause DEF Causes
<1>3. /\ request_stop(run[stop.resource], stop.cause).phase = "stopping"
      /\ request_stop(run[stop.resource], stop.cause).task = run[stop.resource].task
  BY <1>0, <1>2, RequestStopType
<1>4. RunsStay
  BY <1>0, <1>1, <1>3, RunRewritten
<1> QED BY <1>1, <1>4 DEF SameTasks

LEMMA StartStays ==
    ASSUME TypeOK, NEW r \in Resources, NEW t, mark_run_executing(r, t)
    PROVE  RunsStay /\ SameTasks
<1>0. run \in [Resources -> RunRow] /\ run[r] \in RunRow
  BY DEF TypeOK
<1>1. /\ task' = task /\ run[r].phase # "idle"
      /\ \/ run' = [run EXCEPT ![r] = [run[r] EXCEPT !.phase = "executing", !.started = NextStart]]
         \/ run' = [run EXCEPT ![r] = [run[r] EXCEPT !.started = NextStart]]
         \/ run' = run
  BY DEF mark_run_executing, RunOn
<1>2. /\ [run[r] EXCEPT !.phase = "executing", !.started = NextStart].phase # "idle"
      /\ [run[r] EXCEPT !.phase = "executing", !.started = NextStart].task = run[r].task
      /\ [run[r] EXCEPT !.started = NextStart].phase # "idle"
      /\ [run[r] EXCEPT !.started = NextStart].task = run[r].task
  BY <1>0, <1>1 DEF RunRow
<1>3. RunsStay
  BY <1>0, <1>1, <1>2 DEF RunsStay
<1> QED BY <1>1, <1>3 DEF SameTasks

LEMMA AttemptStays ==
    ASSUME TypeOK, NEW r \in Resources, NEW t, begin_cleanup_attempt(r, t)
    PROVE  RunsStay /\ SameTasks
<1>0. run \in [Resources -> RunRow] /\ run[r] \in RunRow
  BY DEF TypeOK
<1>1. /\ task' = task /\ run[r].phase # "idle"
      /\ run' = [run EXCEPT ![r] = [run[r] EXCEPT !.attempt = run[r].attempt + 1]]
  BY DEF begin_cleanup_attempt
<1>2. /\ [run[r] EXCEPT !.attempt = run[r].attempt + 1].phase # "idle"
      /\ [run[r] EXCEPT !.attempt = run[r].attempt + 1].task = run[r].task
  BY <1>0, <1>1 DEF RunRow
<1>3. RunsStay
  BY <1>0, <1>1, <1>2, RunRewritten
<1> QED BY <1>1, <1>3 DEF SameTasks

\* A reservation, and a launch that fails with it, add a run and its task
LEMMA ReserveStays ==
    ASSUME StoreState, NEW j \in Jobs, NEW r \in Resources,
           reserve_run(j, r) \/ fail_job_launch(j, r)
    PROVE  LET t == <<j, job[j].runs + 1>>
           IN  /\ RunsStay /\ OthersSame(t) /\ t \in Tasks /\ task[t].status = "absent"
               /\ reserve_run(j, r) => task'[t].status = "queued"
               /\ fail_job_launch(j, r) => task'[t].status \in TerminalStatus
<1> DEFINE t == <<j, job[j].runs + 1>>
<1>0. TypeOK /\ MayReserve(j, r)
  BY DEF StoreState, StoreInv, Inv, reserve_run, fail_job_launch
<1>1. t \in Tasks /\ task[t].status = "absent"
  BY <1>0, NewTask
<1>2. run \in [Resources -> RunRow] /\ task \in [Tasks -> TaskRow]
  BY <1>0 DEF TypeOK
<1>3. /\ ReservedJob(j, r) \in [Jobs -> JobRow] /\ ReservedRun(j, r) \in [Resources -> RunRow]
      /\ ReservedTask(j) \in [Tasks -> TaskRow]
  BY <1>0, ReservedType
<1>4. run[r].phase = "idle"
  BY <1>0 DEF MayReserve
<1>5. \A s \in Resources : run[s].phase # "idle" =>
          ReservedRun(j, r)[s].phase # "idle" /\ ReservedRun(j, r)[s].task = run[s].task
  BY <1>2, <1>4 DEF ReservedRun
<1>6. ReservedTask(j)[t].status = "queued" /\ \A u \in Tasks \ {t} : ReservedTask(j)[u] = task[u]
  BY <1>1, <1>2 DEF ReservedTask, AbsentTask
<1>7. CASE reserve_run(j, r)
  <2>1. run' = ReservedRun(j, r) /\ task' = ReservedTask(j)
    BY <1>7 DEF reserve_run
  <2>2. RunsStay /\ OthersSame(t) /\ task'[t].status = "queued"
    BY <1>5, <1>6, <2>1 DEF RunsStay, OthersSame
  <2>3. ~fail_job_launch(j, r)
    <3>1. fail_job_launch(j, r) => run'[r].phase = "cleaning"
      <4> SUFFICES ASSUME fail_job_launch(j, r) PROVE run'[r].phase = "cleaning"
        OBVIOUS
      <4>1. PICK move : finish_run(ReservedJob(j, r), ReservedRun(j, r), r, move)
        BY DEF fail_job_launch, commit_terminal
      <4>2. run' = [ReservedRun(j, r) EXCEPT ![r] = [ReservedRun(j, r)[r] EXCEPT !.phase = "cleaning",
                        !.started = 0, !.cause = NoCause, !.attempt = 1]]
        BY <4>1 DEF finish_run
      <4> QED BY <1>3, <4>2 DEF RunRow
    <3>2. run'[r].phase = "launching"
      BY <1>2, <2>1 DEF ReservedRun, IdleRun
    <3> QED BY <3>1, <3>2
  <2> QED BY <1>1, <2>2, <2>3
<1>8. CASE fail_job_launch(j, r)
  <2>1. commit_terminal(ReservedJob(j, r), ReservedRun(j, r), ReservedTask(j), r, t, "queued", "other")
    BY <1>8 DEF fail_job_launch
  <2> DEFINE rn == ReservedRun(j, r)
             tk == ReservedTask(j)
             jb == ReservedJob(j, r)
             class == classify("other", StopCauseOf(rn[r]), IsLast(jb[rn[r].job].spec, rn[r].step))
  <2>2. task' = [tk EXCEPT ![t].status = class.outcome] /\ finish_run(jb, rn, r, class.move)
    BY <2>1, CommitStatus
  <2>3. rn[r] \in RunRow
    BY <1>3
  <2>4. class.outcome \in TerminalStatus
    <3>1. StopCauseOf(rn[r]) \in Causes \cup {NoCause}
      BY <2>3, StopCauseType
    <3>2. IsLast(jb[rn[r].job].spec, rn[r].step) \in BOOLEAN /\ "other" \in RunEnds
      BY DEF IsLast, RunEnds
    <3> HIDE DEF rn, jb
    <3> QED BY <3>1, <3>2, ClassifyType
  <2> HIDE DEF class, rn, tk, jb
  <2>5. RunsStay
    BY <1>3, <1>5, <2>2, FinishStays DEF rn
  <2>6. task'[t].status = class.outcome /\ \A u \in Tasks \ {t} : task'[u] = tk[u]
    BY <1>1, <1>3, <2>2 DEF TaskRow, tk
  <2>7. OthersSame(t) /\ task'[t].status \in TerminalStatus
    BY <1>6, <2>4, <2>6 DEF OthersSame, tk
  <2>8. ~reserve_run(j, r)
    <3>1. reserve_run(j, r) => task'[t].status = "queued"
      BY <1>6 DEF reserve_run
    <3> QED BY <2>7, <3>1 DEF TerminalStatus
  <2> QED BY <1>1, <2>5, <2>7, <2>8
<1> QED BY <1>7, <1>8

-----------------------------------------------------------------------------
(* What a step leaves of the daemon's memory and of the processes *)

\* A committed stop lasts until its task ended
StopsLast == \A t \in Tasks : Stopped(t) => Stopped(t)'

\* The parts of the invariant besides the store's
Rest ==
    /\ SystemTypes /\ ProcessTypes /\ TasksFit /\ ActorHolds
    /\ NoLeftoverProcess /\ YieldFileWasCommitted

SameProcess(t) ==
    worker'[t] = worker[t] /\ child'[t] = child[t] /\ proof'[t] = proof[t] /\ exitFile'[t] = exitFile[t]

\* A process appears only for a task that runs
ChildrenOfRunning ==
    \A t \in Tasks : child'[t] = "alive" => child[t] = "alive" \/ task[t].status = "running"

\* A process keeps the resource of its run
LEMMA NoLeftoverStays ==
    ASSUME StoreState, NoLeftoverProcess, RunsStay, ChildrenOfRunning, released' = released
    PROVE  NoLeftoverProcess'
<1> SUFFICES ASSUME NEW t \in Tasks, child'[t] = "alive"
             PROVE  t \in released' \/ \E r \in Resources : run'[r].phase # "idle" /\ run'[r].task = t
  BY DEF NoLeftoverProcess, RunOn
<1>1. CASE child[t] = "alive"
  <2>1. t \in released \/ \E r \in Resources : run[r].phase # "idle" /\ run[r].task = t
    BY <1>1 DEF NoLeftoverProcess, RunOn
  <2> QED BY <2>1 DEF RunsStay
<1>2. CASE task[t].status = "running"
  <2>1. PICK r \in Resources : run[r].task = t /\ HoldsJob(run[r])
    BY <1>2 DEF StoreState, StoreInv, Inv, Consistent, Live
  <2>2. run[r].phase # "idle"
    BY <2>1 DEF HoldsJob, HoldingPhases
  <2> QED BY <2>1, <2>2 DEF RunsStay
<1> QED BY <1>1, <1>2 DEF ChildrenOfRunning

LEMMA YieldStays ==
    ASSUME YieldFileWasCommitted, StopsLast, yieldFile' = yieldFile
    PROVE  YieldFileWasCommitted'
<1> SUFFICES ASSUME NEW t \in Tasks, yieldFile[t] PROVE Stopped(t)'
  BY DEF YieldFileWasCommitted, Stopped
<1>1. Stopped(t)
  BY DEF YieldFileWasCommitted, Stopped
<1> QED BY <1>1 DEF StopsLast

\* The three things the actor has in hand
PendingHolds == pending # NoTask => worker[pending] = "none" /\ task[pending].status # "absent"
AskHolds == ask # NoTask => Stopped(ask)
SweepHolds(r) ==
    /\ sweep[r].task # NoTask =>
          /\ task[sweep[r].task].status \in TerminalStatus
          /\ sweep[r].attempt \in 1..MaxAttempts
          /\ sweep[r].result = "ok" => child[sweep[r].task] # "alive"
    /\ sweep[r].result # "none" => sweep[r].task # NoTask

LEMMA ActorParts == ActorHolds <=> PendingHolds /\ AskHolds /\ \A r \in Resources : SweepHolds(r)
  BY DEF ActorHolds, PendingHolds, AskHolds, SweepHolds

LEMMA ActorPartsNext ==
    ActorHolds' <=> PendingHolds' /\ AskHolds' /\ \A r \in Resources : SweepHolds(r)'
  BY DEF ActorHolds, PendingHolds, AskHolds, SweepHolds

LEMMA PendingStays ==
    ASSUME PendingHolds, SystemTypes, TasksLast, pending' \in {pending, NoTask},
           pending' # NoTask => worker'[pending] = worker[pending]
    PROVE  PendingHolds'
  BY DEF PendingHolds, SystemTypes, TasksLast

LEMMA AskStays ==
    ASSUME AskHolds, SystemTypes, StopsLast, ask' \in {ask, NoTask}
    PROVE  AskHolds'
<1> SUFFICES ASSUME ask' # NoTask PROVE Stopped(ask)'
  BY DEF AskHolds
<1>1. ask' = ask /\ ask \in Tasks /\ Stopped(ask)
  BY DEF AskHolds, SystemTypes
<1>2. \A t \in Tasks : Stopped(t) => Stopped(t)'
  BY DEF StopsLast
<1>3. \A t \in Tasks : t = ask' => (Stopped(t)' <=> Stopped(ask)')
  BY DEF Stopped, RunOn
<1> QED BY <1>1, <1>2, <1>3

LEMMA SweepStays ==
    ASSUME SystemTypes, TasksLast, ChildrenOfRunning, NEW r \in Resources, SweepHolds(r),
           sweep'[r] = sweep[r]
    PROVE  SweepHolds(r)'
<1>1. CASE sweep[r].task = NoTask
  BY <1>1 DEF SweepHolds
<1>2. CASE sweep[r].task # NoTask
  <2>1. sweep[r].task \in Tasks /\ task[sweep[r].task].status \in TerminalStatus
    BY <1>2 DEF SystemTypes, SweepRow, SweepHolds
  <2>2. task[sweep[r].task].status # "running"
    BY <2>1 DEF TerminalStatus
  <2>3. task'[sweep[r].task].status \in TerminalStatus
    BY <2>1 DEF TasksLast
  <2>4. sweep[r].result = "ok" => child'[sweep[r].task] # "alive"
    BY <1>2, <2>1, <2>2 DEF SweepHolds, ChildrenOfRunning
  <2> QED BY <1>2, <2>3, <2>4 DEF SweepHolds
<1> QED BY <1>1, <1>2

\* A step about one task
LEMMA TaskMoved ==
    ASSUME SystemInv, TasksLast, StopsLast, SystemTypes', ProcessTypes', NEW t \in Tasks,
           RunsStay, OthersSame(t), \A u \in Tasks \ {t} : SameProcess(u),
           Fit(task'[t].status, worker'[t], child'[t], proof'[t], exitFile'[t]),
           child'[t] = "alive" => child[t] = "alive" \/ task[t].status = "running",
           PendingHolds', AskHolds', sweep' = sweep,
           yieldFile' = yieldFile, released' = released
    PROVE  Rest'
<1>0. /\ StoreState /\ SystemTypes /\ ProcessTypes /\ TasksFit /\ ActorHolds
      /\ NoLeftoverProcess /\ YieldFileWasCommitted
  BY DEF SystemInv
<1>1. TasksFit'
  <2>1. ASSUME NEW u \in Tasks
        PROVE  Fit(task'[u].status, worker'[u], child'[u], proof'[u], exitFile'[u])
    <3>1. CASE u = t
      BY <3>1
    <3>2. CASE u # t
      <4>1. Fit(task[u].status, worker[u], child[u], proof[u], exitFile[u])
        BY <1>0 DEF TasksFit
      <4>2. task'[u].status = task[u].status /\ SameProcess(u)
        BY <3>2 DEF OthersSame
      <4> QED BY <4>1, <4>2 DEF SameProcess
    <3> QED BY <3>1, <3>2
  <2>2. TasksFit' <=> \A u \in Tasks : Fit(task'[u].status, worker'[u], child'[u], proof'[u], exitFile'[u])
    BY DEF TasksFit, Fit
  <2> QED BY <2>1, <2>2
<1>2. ChildrenOfRunning
  <2>1. \A u \in Tasks \ {t} : child'[u] = child[u]
    BY DEF SameProcess
  <2> QED BY <2>1 DEF ChildrenOfRunning
<1>3. \A r \in Resources : SweepHolds(r)
  BY <1>0, ActorParts
<1>4. \A r \in Resources : SweepHolds(r)'
  BY <1>0, <1>2, <1>3, SweepStays
<1>5. ActorHolds'
  BY <1>4, ActorPartsNext
<1>6. NoLeftoverProcess'
  BY <1>0, <1>2, NoLeftoverStays
<1>7. YieldFileWasCommitted'
  BY <1>0, YieldStays
<1> QED BY <1>1, <1>5, <1>6, <1>7 DEF Rest

LEMMA TaskMoves ==
    ASSUME SystemInv, TasksLast, StopsLast, SystemTypes', ProcessTypes', NEW t \in Tasks,
           RunsStay, OthersSame(t), \A u \in Tasks \ {t} : SameProcess(u),
           Fit(task'[t].status, worker'[t], child'[t], proof'[t], exitFile'[t]),
           child'[t] = "alive" => child[t] = "alive" \/ task[t].status = "running",
           pending' \in {pending, NoTask}, ask' \in {ask, NoTask}, sweep' = sweep,
           pending' # NoTask => worker'[t] = worker[t] \/ t # pending,
           yieldFile' = yieldFile, released' = released
    PROVE  Rest'
<1>0. SystemTypes /\ ActorHolds
  BY DEF SystemInv
<1>1. PendingHolds /\ AskHolds
  BY <1>0, ActorParts
<1>2. PendingHolds'
  <2>1. pending' # NoTask => worker'[pending] = worker[pending]
    BY <1>0 DEF SameProcess, SystemTypes
  <2> QED BY <1>0, <1>1, <2>1, PendingStays
<1>3. AskHolds'
  BY <1>0, <1>1, AskStays
<1> QED BY <1>2, <1>3, TaskMoved

\* A step that changes no task
LEMMA TasksStay ==
    ASSUME SystemInv, StopsLast, SystemTypes', RunsStay, SameTasks,
           UNCHANGED processVars, ActorHolds'
    PROVE  Rest'
<1>0. /\ StoreState /\ SystemTypes /\ ProcessTypes /\ TasksFit
      /\ NoLeftoverProcess /\ YieldFileWasCommitted
  BY DEF SystemInv
<1>1. /\ worker' = worker /\ child' = child /\ known' = known /\ proof' = proof /\ exitFile' = exitFile
      /\ yieldFile' = yieldFile /\ released' = released
  BY DEF processVars
<1>2. ProcessTypes'
  BY <1>0, <1>1 DEF ProcessTypes
<1>3. TasksFit'
  BY <1>0, <1>1 DEF TasksFit, Fit, SameTasks
<1>4. ChildrenOfRunning
  BY <1>1 DEF ChildrenOfRunning
<1>5. NoLeftoverProcess' /\ YieldFileWasCommitted'
  BY <1>0, <1>1, <1>4, NoLeftoverStays, YieldStays
<1> QED BY <1>2, <1>3, <1>5 DEF Rest

\* A task that no worker claimed ends, and its row says that it had no child
LEMMA UnclaimedEnds ==
    ASSUME SystemInv, TasksLast, StopsLast, NEW t \in Tasks, EndsTask(t), task[t].status = "queued",
           proof' = [proof EXCEPT ![t] = "no_child"],
           UNCHANGED <<up, crashes, plan, ask, watch, sweep>>, pending' \in {pending, NoTask},
           UNCHANGED <<worker, child, known, exitFile, yieldFile, released>>
    PROVE  Rest'
<1>0. SystemTypes /\ ProcessTypes /\ TasksFit
  BY DEF SystemInv
<1>1. SystemTypes'
  BY <1>0 DEF SystemTypes
<1>2. proof' \in [Tasks -> Evidence] /\ proof'[t] = "no_child" /\ \A u \in Tasks \ {t} : proof'[u] = proof[u]
  BY <1>0 DEF ProcessTypes, Evidence
<1>3. ProcessTypes'
  BY <1>0, <1>2 DEF ProcessTypes
<1>4. Fit(task[t].status, worker[t], child[t], proof[t], exitFile[t])
  BY <1>0 DEF TasksFit
<1>5. task'[t].status \in TerminalStatus /\ RunsStay /\ OthersSame(t)
  BY DEF EndsTask
<1>6. /\ child[t] = "none" /\ exitFile[t] = NoExit /\ worker[t] \notin HasLock \ {"spawned"}
  BY <1>4 DEF Fit
<1>7. Fit(task'[t].status, worker'[t], child'[t], proof'[t], exitFile'[t])
  BY <1>2, <1>5, <1>6 DEF Fit, NoExit, HasLock, TerminalStatus
<1>8. \A u \in Tasks \ {t} : SameProcess(u)
  BY <1>2 DEF SameProcess
<1> QED BY <1>1, <1>3, <1>5, <1>7, <1>8, TaskMoves

-----------------------------------------------------------------------------
(* The steps of the daemon *)

\* The store is left alone
LEMMA StoreStays ==
    ASSUME UNCHANGED storeVars
    PROVE  RunsStay /\ SameTasks /\ \A t \in Tasks : OthersSame(t)
  BY DEF storeVars, RunsStay, SameTasks, OthersSame

\* The actor's memory is left alone
LEMMA MemoryStays ==
    ASSUME SystemInv, TasksLast, StopsLast, UNCHANGED daemonVars, UNCHANGED processVars
    PROVE  SystemTypes' /\ ActorHolds'
<1>0. SystemTypes /\ ActorHolds
  BY DEF SystemInv
<1>1. /\ up' = up /\ crashes' = crashes /\ plan' = plan /\ pending' = pending /\ ask' = ask
      /\ watch' = watch /\ sweep' = sweep /\ worker' = worker /\ child' = child /\ released' = released
  BY DEF daemonVars, processVars
<1>2. SystemTypes'
  BY <1>0, <1>1 DEF SystemTypes
<1>3. ChildrenOfRunning
  BY <1>1 DEF ChildrenOfRunning
<1>4. PendingHolds' /\ AskHolds' /\ \A r \in Resources : SweepHolds(r)'
  BY <1>0, <1>1, <1>3, ActorParts, PendingStays, AskStays, SweepStays
<1> QED BY <1>2, <1>4, ActorPartsNext

LEMMA RequestKeeps ==
    ASSUME SystemInv, TasksLast, StopsLast, Request
    PROVE  Rest'
<1>1. TypeOK
  BY DEF SystemInv, StoreState, StoreInv, Inv
<1>2. RunsStay /\ SameTasks
  BY <1>1, RequestStays
<1>3. UNCHANGED daemonVars /\ UNCHANGED processVars
  BY DEF Request
<1> QED BY <1>2, <1>3, MemoryStays, TasksStay

\* A cancellation marker, a person's or of a committed stop
LEMMA CancelKeeps ==
    ASSUME SystemInv, TasksLast, StopsLast, NEW r \in Resources, NEW t \in Tasks,
           request_cancel(r, t) \/ signal_committed_run_stop(r, t),
           proof' = IF task[t].status = "queued" THEN [proof EXCEPT ![t] = "no_child"] ELSE proof,
           UNCHANGED <<daemonVars, worker, child, known, exitFile, yieldFile, released>>
    PROVE  Rest'
<1>1. TypeOK
  BY DEF SystemInv, StoreState, StoreInv, Inv
<1>2. IF task[t].status = "queued" THEN EndsTask(t) ELSE RunsStay /\ SameTasks
  BY <1>1, CancelEnds
<1>3. CASE task[t].status = "queued"
  BY <1>2, <1>3, UnclaimedEnds DEF daemonVars
<1>4. CASE task[t].status # "queued"
  <2>1. UNCHANGED daemonVars /\ UNCHANGED processVars
    BY <1>4 DEF processVars
  <2> QED BY <1>2, <1>4, <2>1, MemoryStays, TasksStay
<1> QED BY <1>3, <1>4

LEMMA CancelRunTaskKeeps ==
    ASSUME SystemInv, TasksLast, StopsLast, NEW r \in Resources, NEW t \in Tasks, CancelRunTask(r, t)
    PROVE  Rest'
  BY CancelKeeps DEF CancelRunTask

\* The resource of a run is free again: a person released it, or its cleanup
\* left no process
LEMMA FreeKeeps ==
    ASSUME SystemInv, TasksLast, StopsLast, NEW r \in Resources, NEW t,
           run[r].phase # "idle", run[r].task = t, run' = [run EXCEPT ![r] = IdleRun], SameTasks,
           SystemTypes', ActorHolds',
           UNCHANGED <<worker, child, known, proof, exitFile, yieldFile>>,
           released' = released \/ released' = released \cup {t},
           child[t] = "alive" => t \in released'
    PROVE  Rest'
<1>0. /\ StoreState /\ ProcessTypes /\ TasksFit /\ NoLeftoverProcess /\ YieldFileWasCommitted
  BY DEF SystemInv
<1>a. run \in [Resources -> RunRow]
  BY <1>0 DEF StoreState, StoreInv, Inv, TypeOK
<1>1. ProcessTypes'
  BY <1>0 DEF ProcessTypes
<1>2. TasksFit'
  BY <1>0 DEF TasksFit, Fit, SameTasks
<1>3. YieldFileWasCommitted'
  BY <1>0, YieldStays
<1>4. NoLeftoverProcess'
  <2> SUFFICES ASSUME NEW u \in Tasks, child[u] = "alive"
               PROVE  u \in released' \/ \E s \in Resources : run'[s].phase # "idle" /\ run'[s].task = u
    BY DEF NoLeftoverProcess, RunOn
  <2>1. u \in released \/ \E s \in Resources : run[s].phase # "idle" /\ run[s].task = u
    BY <1>0 DEF NoLeftoverProcess, RunOn
  <2>2. CASE u = t
    BY <2>2
  <2>3. ASSUME NEW s \in Resources, run[s].phase # "idle", run[s].task = u, u # t
        PROVE  run'[s].phase # "idle" /\ run'[s].task = u
    BY <1>a, <2>3
  <2>4. CASE u \in released
    BY <2>4
  <2> QED BY <2>1, <2>2, <2>3, <2>4
<1> QED BY <1>1, <1>2, <1>3, <1>4 DEF Rest

LEMMA ReleaseKeeps ==
    ASSUME SystemInv, TasksLast, StopsLast, NEW r \in Resources, Release(r)
    PROVE  Rest'
<1>0. StoreState /\ SystemTypes /\ ActorHolds
  BY DEF SystemInv
<1>1. /\ run[r].phase = "attention" /\ run' = [run EXCEPT ![r] = IdleRun] /\ task' = task
      /\ released' = released \cup {run[r].task}
      /\ UNCHANGED <<up, crashes, plan, pending, ask, watch, sweep>>
      /\ UNCHANGED <<worker, child, known, proof, exitFile, yieldFile>>
  BY DEF Release, release_resource_attention, daemonVars
<1>2. run[r].task \in Tasks
  BY <1>0, <1>1, RunHasTask
<1>3. SystemTypes'
  BY <1>0, <1>1, <1>2 DEF SystemTypes
<1>4. SameTasks /\ ChildrenOfRunning
  BY <1>1 DEF SameTasks, ChildrenOfRunning
<1>5. PendingHolds' /\ AskHolds' /\ \A q \in Resources : SweepHolds(q)'
  BY <1>0, <1>1, <1>4, ActorParts, PendingStays, AskStays, SweepStays
<1>6. ActorHolds'
  BY <1>5, ActorPartsNext
<1> QED BY <1>1, <1>3, <1>4, <1>6, FreeKeeps

LEMMA CleanupFinishedKeeps ==
    ASSUME SystemInv, TasksLast, StopsLast, NEW r \in Resources, CleanupFinished(r)
    PROVE  Rest'
<1>0. StoreState /\ SystemTypes /\ ActorHolds
  BY DEF SystemInv
<1>a. run \in [Resources -> RunRow] /\ sweep \in [Resources -> SweepRow]
  BY <1>0 DEF StoreState, StoreInv, Inv, TypeOK, SystemTypes
<1>1. /\ run[r].phase # "idle" /\ run[r].task = sweep[r].task /\ task' = task
      /\ IF sweep[r].result = "ok" THEN run' = [run EXCEPT ![r] = IdleRun]
         ELSE run' = [run EXCEPT ![r] = [run[r] EXCEPT !.phase = "attention", !.attempt = 0]]
      /\ sweep' = [sweep EXCEPT ![r] = NoSweep]
      /\ UNCHANGED <<up, crashes, ask, plan, pending, watch>> /\ UNCHANGED processVars
  BY DEF CleanupFinished, apply_cleanup_result, RunOn
<1>2. UNCHANGED <<worker, child, known, proof, exitFile, yieldFile>> /\ released' = released
  BY <1>1 DEF processVars
<1>3. NoSweep \in SweepRow
  BY DEF NoSweep, SweepRow
<1>4. sweep' \in [Resources -> SweepRow] /\ sweep'[r] = NoSweep /\ \A q \in Resources \ {r} : sweep'[q] = sweep[q]
  BY <1>a, <1>1, <1>3
<1>5. SystemTypes'
  BY <1>0, <1>1, <1>2, <1>4 DEF SystemTypes
<1>6. SameTasks /\ ChildrenOfRunning
  BY <1>1, <1>2 DEF SameTasks, ChildrenOfRunning
<1>7. SweepHolds(r)'
  BY <1>4 DEF SweepHolds, NoSweep
<1>8. PendingHolds' /\ AskHolds' /\ \A q \in Resources \ {r} : SweepHolds(q)'
  BY <1>0, <1>1, <1>2, <1>4, <1>6, ActorParts, PendingStays, AskStays, SweepStays
<1>9. ActorHolds'
  BY <1>7, <1>8, ActorPartsNext
<1>10. CASE sweep[r].result = "ok"
  <2>1. child[sweep[r].task] # "alive"
    BY <1>0, <1>10 DEF ActorHolds
  <2> QED BY <1>1, <1>2, <1>5, <1>6, <1>9, <1>10, <2>1, FreeKeeps
<1>11. CASE sweep[r].result # "ok"
  <2>1. /\ [run[r] EXCEPT !.phase = "attention", !.attempt = 0].phase # "idle"
        /\ [run[r] EXCEPT !.phase = "attention", !.attempt = 0].task = run[r].task
    BY <1>a DEF RunRow
  <2>2. RunsStay
    BY <1>a, <1>1, <1>11, <2>1, RunRewritten
  <2> QED BY <1>1, <1>5, <1>6, <1>9, <2>2, TasksStay
<1> QED BY <1>10, <1>11

LEMMA StartCleanupKeeps ==
    ASSUME SystemInv, TasksLast, StopsLast, NEW r \in Resources, StartCleanup(r)
    PROVE  Rest'
<1>0. /\ StoreState /\ SystemTypes /\ ActorHolds /\ TypeOK /\ Inv /\ RunTaskKnown
  BY DEF SystemInv, StoreState, StoreInv, Inv
<1>b. TypeOK
  BY <1>0
<1>a. run \in [Resources -> RunRow] /\ sweep \in [Resources -> SweepRow] /\ task \in [Tasks -> TaskRow]
      /\ Owned(run) /\ Single(run) /\ Live(run, task)
  BY <1>0 DEF Inv, Consistent, TypeOK, SystemTypes
<1> DEFINE new == [task |-> run[r].task, attempt |-> run[r].attempt + 1, result |-> "none"]
<1>1. /\ begin_cleanup_attempt(r, run[r].task)
      /\ run[r].phase = "cleaning" /\ run[r].attempt < MaxAttempts /\ task' = task
      /\ sweep' = [sweep EXCEPT ![r] = new]
      /\ UNCHANGED <<up, crashes, ask, plan, pending, watch>> /\ UNCHANGED processVars
  BY DEF StartCleanup, begin_cleanup_attempt
<1>2. worker' = worker /\ child' = child /\ released' = released
  BY <1>1 DEF processVars
<1>3. run[r].task \in Tasks /\ task[run[r].task].status \in TerminalStatus
  <2>1. task[run[r].task].status # "absent"
    BY <1>0, <1>1 DEF RunTaskKnown
  <2> QED BY <1>a, <1>1, <2>1, CleanedHasEnded
<1>4. run[r].attempt \in Nat /\ run[r].attempt + 1 \in 1..MaxAttempts
  BY <1>a, <1>1, StoreAssumption DEF StoreAssumption, RunRow
<1>5. new \in SweepRow
  BY <1>3, <1>4 DEF SweepRow
<1>6. new.task = run[r].task /\ new.attempt = run[r].attempt + 1 /\ new.result = "none"
  OBVIOUS
<1> HIDE DEF new
<1>7. sweep' \in [Resources -> SweepRow] /\ sweep'[r] = new /\ \A q \in Resources \ {r} : sweep'[q] = sweep[q]
  BY <1>a, <1>1, <1>5
<1>8. SystemTypes'
  BY <1>0, <1>1, <1>2, <1>7 DEF SystemTypes
<1>9. ChildrenOfRunning
  BY <1>2 DEF ChildrenOfRunning
<1>10. SweepHolds(r)'
  BY <1>1, <1>3, <1>4, <1>6, <1>7 DEF SweepHolds
<1>11. PendingHolds' /\ AskHolds' /\ \A q \in Resources \ {r} : SweepHolds(q)'
  BY <1>0, <1>1, <1>2, <1>7, <1>9, ActorParts, PendingStays, AskStays, SweepStays
<1>12. ActorHolds'
  BY <1>10, <1>11, ActorPartsNext
<1>13. RunsStay /\ SameTasks
  BY <1>b, <1>1, AttemptStays
<1> QED BY <1>1, <1>8, <1>12, <1>13, TasksStay

LEMMA SweepKeeps ==
    ASSUME SystemInv, TasksLast, StopsLast, NEW r \in Resources, NEW result \in {"ok", "stuck"},
           Sweep(r, result)
    PROVE  Rest'
<1> DEFINE t == sweep[r].task
<1>0. /\ StoreState /\ SystemTypes /\ ProcessTypes /\ ActorHolds /\ TasksFit
      /\ NoLeftoverProcess /\ YieldFileWasCommitted
  BY DEF SystemInv
<1>a. sweep \in [Resources -> SweepRow] /\ child \in [Tasks -> {"none", "alive", "dead"}]
  BY <1>0 DEF SystemTypes, ProcessTypes
<1>1. /\ t # NoTask /\ sweep[r].result = "none" /\ (result = "ok" => MayConfirm(t))
      /\ sweep' = [sweep EXCEPT ![r] = [sweep[r] EXCEPT !.result = result]]
      /\ \/ (result = "ok" => ~(task[t].status = "lost" /\ known[t])) /\ child' = child
         \/ child[t] = "alive" /\ child' = [child EXCEPT ![t] = "dead"]
         \/ child[t] # "alive" /\ child' = child
      /\ UNCHANGED storeVars
      /\ UNCHANGED <<up, crashes, ask, plan, pending, watch>>
      /\ UNCHANGED <<worker, known, proof, exitFile, yieldFile, released>>
  BY DEF Sweep
<1>2. t \in Tasks /\ task[t].status \in TerminalStatus /\ sweep[r].attempt \in 1..MaxAttempts
  BY <1>0, <1>a, <1>1 DEF ActorHolds, SweepRow
<1> HIDE DEF t
<1>3. Fit(task[t].status, worker[t], child[t], proof[t], exitFile[t])
  BY <1>0, <1>2 DEF TasksFit
<1>4. /\ child' \in [Tasks -> {"none", "alive", "dead"}]
      /\ \A u \in Tasks \ {t} : child'[u] = child[u]
      /\ \/ child'[t] = child[t]
         \/ child[t] = "alive" /\ child'[t] = "dead"
  BY <1>a, <1>1, <1>2
<1>5. result = "ok" => child'[t] # "alive"
  <2> SUFFICES ASSUME result = "ok" PROVE child'[t] # "alive"
    OBVIOUS
  <2>1. CASE ~(task[t].status = "lost" /\ known[t]) /\ child' = child
    <3>1. proof[t] # "unconfirmed"
      BY <1>1, <2>1 DEF MayConfirm
    <3>2. proof[t] \in {"no_child", "exited"}
      BY <1>0, <1>2, <3>1 DEF ProcessTypes, Evidence
    <3> QED BY <1>3, <2>1, <3>2 DEF Fit
  <2>2. CASE child[t] = "alive" /\ child' = [child EXCEPT ![t] = "dead"]
    BY <1>a, <1>2, <2>2
  <2>3. CASE child[t] # "alive" /\ child' = child
    BY <2>3
  <2> QED BY <1>1, <2>1, <2>2, <2>3
<1>6. /\ sweep' \in [Resources -> SweepRow] /\ sweep'[r].task = t /\ sweep'[r].result = result
      /\ sweep'[r].attempt = sweep[r].attempt /\ \A q \in Resources \ {r} : sweep'[q] = sweep[q]
  <2>1. /\ [sweep[r] EXCEPT !.result = result] \in SweepRow
        /\ [sweep[r] EXCEPT !.result = result].task = t
        /\ [sweep[r] EXCEPT !.result = result].result = result
        /\ [sweep[r] EXCEPT !.result = result].attempt = sweep[r].attempt
    BY <1>a DEF SweepRow, t
  <2> QED BY <1>a, <1>1, <2>1
<1>7. SystemTypes'
  BY <1>0, <1>1, <1>6 DEF SystemTypes
<1>8. ProcessTypes'
  BY <1>0, <1>1, <1>4 DEF ProcessTypes
<1>9. RunsStay /\ SameTasks
  BY <1>1, StoreStays
<1>10. ChildrenOfRunning
  BY <1>4 DEF ChildrenOfRunning
<1>11. SweepHolds(r)'
  <2>1. task'[t].status \in TerminalStatus
    BY <1>2, <1>9 DEF SameTasks
  <2> QED BY <1>1, <1>2, <1>5, <1>6, <2>1 DEF SweepHolds
<1>12. PendingHolds' /\ AskHolds' /\ \A q \in Resources \ {r} : SweepHolds(q)'
  BY <1>0, <1>1, <1>6, <1>10, ActorParts, PendingStays, AskStays, SweepStays
<1>13. ActorHolds'
  BY <1>11, <1>12, ActorPartsNext
<1>14. TasksFit'
  <2>1. ASSUME NEW u \in Tasks PROVE Fit(task[u].status, worker[u], child'[u], proof[u], exitFile[u])
    <3>1. Fit(task[u].status, worker[u], child[u], proof[u], exitFile[u])
      BY <1>0 DEF TasksFit
    <3>2. CASE child'[u] = child[u]
      BY <3>1, <3>2
    <3>3. CASE child[u] = "alive" /\ child'[u] = "dead"
      BY <3>1, <3>3 DEF Fit
    <3> QED BY <1>4, <3>2, <3>3
  <2>2. \A u \in Tasks : task'[u].status = task[u].status
    BY <1>9 DEF SameTasks
  <2> QED BY <1>1, <2>1, <2>2 DEF TasksFit, Fit
<1>15. NoLeftoverProcess' /\ YieldFileWasCommitted'
  BY <1>0, <1>1, <1>9, <1>10, NoLeftoverStays, YieldStays
<1> QED BY <1>7, <1>8, <1>13, <1>14, <1>15 DEF Rest

\* The actor's memory changes; neither a task nor a process does
LEMMA MemoryMoves ==
    ASSUME SystemInv, TasksLast, StopsLast, SystemTypes', RunsStay, SameTasks, UNCHANGED processVars,
           PendingHolds', AskHolds', sweep' = sweep
    PROVE  Rest'
<1>0. SystemTypes /\ ActorHolds
  BY DEF SystemInv
<1>1. worker' = worker /\ child' = child
  BY DEF processVars
<1>2. ChildrenOfRunning
  BY <1>1 DEF ChildrenOfRunning
<1>3. \A r \in Resources : SweepHolds(r)'
  BY <1>0, <1>2, ActorParts, SweepStays
<1>4. ActorHolds'
  BY <1>3, ActorPartsNext
<1> QED BY <1>4, TasksStay

LEMMA AbandonKeeps ==
    ASSUME SystemInv, TasksLast, StopsLast, NEW r \in Resources, Abandon(r)
    PROVE  Rest'
<1> DEFINE t == run[r].task
<1>1. /\ abandon_launch(r, t) /\ proof' = [proof EXCEPT ![t] = "no_child"]
      /\ UNCHANGED <<up, crashes, plan, ask, watch, sweep>> /\ pending' = pending
      /\ UNCHANGED <<worker, child, known, exitFile, yieldFile, released>>
  BY DEF Abandon, daemonVars
<1>2. StoreState /\ TypeOK
  BY DEF SystemInv, StoreState, StoreInv, Inv
<1>b. TypeOK
  BY <1>2
<1>3. t \in Tasks
  BY <1>1, <1>2, RunHasTask DEF abandon_launch
<1> HIDE DEF t
<1>4. EndsTask(t) /\ task[t].status = "queued"
  BY <1>b, <1>1, <1>3, AbandonEnds
<1> QED BY <1>1, <1>3, <1>4, UnclaimedEnds

LEMMA ObserveKeeps ==
    ASSUME SystemInv, TasksLast, StopsLast, NEW r \in Resources, Observe(r)
    PROVE  Rest'
<1>0. StoreState /\ SystemTypes /\ ActorHolds
  BY DEF SystemInv
<1>1. /\ HoldsJob(run[r]) /\ watch' = watch \cup {run[r].task} /\ UNCHANGED storeVars
      /\ UNCHANGED <<up, crashes, ask, plan, pending, sweep>> /\ UNCHANGED processVars
  BY DEF Observe
<1>2. run[r].task \in Tasks
  BY <1>0, <1>1, RunHasTask DEF HoldsJob, HoldingPhases
<1>3. worker' = worker /\ released' = released
  BY <1>1 DEF processVars
<1>4. SystemTypes'
  BY <1>0, <1>1, <1>2, <1>3 DEF SystemTypes
<1>5. RunsStay /\ SameTasks
  BY <1>1, StoreStays
<1>6. PendingHolds' /\ AskHolds'
  BY <1>0, <1>1, <1>3, ActorParts, PendingStays, AskStays
<1> QED BY <1>1, <1>4, <1>5, <1>6, MemoryMoves

LEMMA SeeYieldKeeps ==
    ASSUME SystemInv, TasksLast, StopsLast, NEW r \in Resources, SeeYield(r)
    PROVE  Rest'
<1>0. StoreState /\ SystemTypes /\ ActorHolds
  BY DEF SystemInv
<1>1. /\ run[r].phase = "stopping" /\ ask' = run[r].task /\ UNCHANGED storeVars
      /\ UNCHANGED <<up, crashes, plan, pending, watch, sweep>> /\ UNCHANGED processVars
  BY DEF SeeYield, StopCauseOf, NoCause
<1>2. run[r].task \in Tasks
  BY <1>0, <1>1, RunHasTask
<1>3. worker' = worker /\ released' = released
  BY <1>1 DEF processVars
<1>4. SystemTypes'
  BY <1>0, <1>1, <1>2, <1>3 DEF SystemTypes
<1>5. RunsStay /\ SameTasks
  BY <1>1, StoreStays
<1>6. PendingHolds'
  BY <1>0, <1>1, <1>3, ActorParts, PendingStays
<1>7. AskHolds'
  BY <1>1 DEF AskHolds, Stopped, RunOn, storeVars
<1> QED BY <1>1, <1>4, <1>5, <1>6, <1>7, MemoryMoves

LEMMA EnactKillKeeps ==
    ASSUME SystemInv, TasksLast, StopsLast, NEW r \in Resources, EnactKill(r)
    PROVE  Rest'
<1>0. StoreState
  BY DEF SystemInv
<1>1. run[r].task \in Tasks
  BY <1>0, RunHasTask DEF EnactKill
<1> QED BY <1>1, CancelKeeps DEF EnactKill

\* A file that is published belongs to a run whose stop is committed
LEMMA EnactYieldKeeps ==
    ASSUME SystemInv, TasksLast, StopsLast, EnactYield
    PROVE  Rest'
<1>0. /\ StoreState /\ SystemTypes /\ ProcessTypes /\ TasksFit /\ ActorHolds
      /\ NoLeftoverProcess /\ YieldFileWasCommitted
  BY DEF SystemInv
<1>1. /\ ask # NoTask /\ ask' = NoTask /\ UNCHANGED storeVars
      /\ yieldFile' = [yieldFile EXCEPT ![ask] = TRUE] \/ yieldFile' = yieldFile
      /\ UNCHANGED <<up, crashes, plan, pending, watch, sweep>>
      /\ UNCHANGED <<worker, child, known, proof, exitFile, released>>
  BY DEF EnactYield
<1>2. ask \in Tasks /\ Stopped(ask)
  BY <1>0, <1>1 DEF SystemTypes, ActorHolds
<1>3. SystemTypes'
  BY <1>0, <1>1 DEF SystemTypes
<1>4. ProcessTypes'
  BY <1>0, <1>1, <1>2 DEF ProcessTypes
<1>5. RunsStay /\ SameTasks
  BY <1>1, StoreStays
<1>6. TasksFit'
  BY <1>0, <1>1, <1>5 DEF TasksFit, Fit, SameTasks
<1>7. ChildrenOfRunning
  BY <1>1 DEF ChildrenOfRunning
<1>8. NoLeftoverProcess'
  BY <1>0, <1>1, <1>5, <1>7, NoLeftoverStays
<1>9. YieldFileWasCommitted'
  <2> SUFFICES ASSUME NEW t \in Tasks, yieldFile'[t] PROVE Stopped(t)'
    BY DEF YieldFileWasCommitted, Stopped
  <2>1. CASE t = ask
    <3>1. Stopped(t)
      BY <1>2, <2>1
    <3> QED BY <3>1 DEF StopsLast
  <2>2. CASE t # ask
    <3>1. yieldFile[t]
      BY <1>0, <1>1, <2>2 DEF ProcessTypes
    <3>2. Stopped(t)
      BY <1>0, <3>1 DEF YieldFileWasCommitted, Stopped
    <3> QED BY <3>2 DEF StopsLast
  <2> QED BY <2>1, <2>2
<1>10. PendingHolds' /\ AskHolds' /\ \A r \in Resources : SweepHolds(r)'
  BY <1>0, <1>1, <1>7, ActorParts, PendingStays, AskStays, SweepStays
<1>11. ActorHolds'
  BY <1>10, ActorPartsNext
<1> QED BY <1>3, <1>4, <1>6, <1>8, <1>9, <1>11 DEF Rest

LEMMA DecideKeeps ==
    ASSUME SystemInv, TasksLast, StopsLast, NEW young, Decide(young)
    PROVE  Rest'
<1>0. StoreState /\ SystemTypes /\ ActorHolds
  BY DEF SystemInv
<1>b. TypeOK
  BY <1>0 DEF StoreState, StoreInv, Inv
<1> DEFINE d == decide(job, run, young)
           L == [job : Jobs, resource : Resources]
<1>1. /\ plan' = [launches |-> d.launches, stop |-> d.preemption] /\ UNCHANGED storeVars
      /\ UNCHANGED <<up, crashes, ask, pending, watch, sweep>> /\ UNCHANGED processVars
  BY DEF Decide
<1>2. d.launches \in Seq(L)
  <2>1. job \in [Jobs -> JobRow] /\ Dense(job)
    BY <1>0, <1>b DEF TypeOK, StoreState
  <2>2. Fill(job, run).launches \in Seq(Fits(job, run))
    BY <2>1, FillFinds DEF Found
  <2>3. d.launches = Fill(job, run).launches
    BY DEF decide
  <2>4. Fits(job, run) \subseteq L
    BY DEF Fits, Startable, Idle
  <2> HIDE DEF d, L
  <2> DEFINE F == Fits(job, run)
  <2>5. F \subseteq L /\ d.launches \in Seq(F)
    BY <2>2, <2>3, <2>4
  <2> HIDE DEF F
  <2> QED BY <2>5, SeqMonotonic
<1>3. d.preemption # NoStop => d.preemption.resource \in Resources
  <2>1. Owned(run)
    BY <1>0 DEF StoreState, StoreInv, Inv, Consistent
  <2> QED BY <1>b, <2>1, DecisionCause
<1> HIDE DEF d
<1>4. plan'.launches = d.launches /\ plan'.stop = d.preemption
  BY <1>1
<1>5. worker' = worker /\ released' = released
  BY <1>1 DEF processVars
<1>6. SystemTypes'
  BY <1>0, <1>1, <1>2, <1>3, <1>4, <1>5 DEF SystemTypes
<1>7. RunsStay /\ SameTasks
  BY <1>1, StoreStays
<1>8. PendingHolds' /\ AskHolds'
  BY <1>0, <1>1, <1>5, ActorParts, PendingStays, AskStays
<1> QED BY <1>1, <1>6, <1>7, <1>8, MemoryMoves

\* What is left of a plan after its first launch, and a plan that is dropped
LEMMA PlanTypes ==
    ASSUME SystemTypes
    PROVE  /\ plan.launches # <<>> =>
                /\ LaterLaunches = [launches |-> LaterLaunches.launches, stop |-> LaterLaunches.stop]
                /\ LaterLaunches.launches \in Seq([job : Jobs, resource : Resources])
                /\ LaterLaunches.stop # NoStop => LaterLaunches.stop.resource \in Resources
           /\ NoPlan = [launches |-> NoPlan.launches, stop |-> NoPlan.stop]
           /\ NoPlan.launches \in Seq([job : Jobs, resource : Resources]) /\ NoPlan.stop = NoStop
<1> DEFINE S == Seq([job : Jobs, resource : Resources])
           a == plan.launches
           b == plan.stop
<1>1. plan = [launches |-> a, stop |-> b] /\ (b # NoStop => b.resource \in Resources)
  BY DEF SystemTypes
<1>2. a # <<>> => Tail(a) \in S
  BY NextLaunchType
<1>3. NoPlan.launches = <<>> /\ NoPlan.stop = NoStop /\ <<>> \in S
      /\ NoPlan = [launches |-> NoPlan.launches, stop |-> NoPlan.stop]
  BY DEF NoPlan
<1>4. LaterLaunches = [plan EXCEPT !.launches = Tail(a)]
  BY DEF LaterLaunches
<1> HIDE DEF S, a, b
<1>5. LaterLaunches = [launches |-> Tail(a), stop |-> b]
  BY <1>1, <1>4
<1>6. LaterLaunches.launches = Tail(a) /\ LaterLaunches.stop = b
  BY <1>5
<1> QED BY <1>1, <1>2, <1>3, <1>5, <1>6 DEF S, a

\* A launch is reserved: its task is new and has no worker
LEMMA ReserveKeeps ==
    ASSUME SystemInv, TasksLast, StopsLast, Reserve
    PROVE  Rest'
<1>0. StoreState /\ SystemTypes /\ ProcessTypes /\ TasksFit /\ ActorHolds
  BY DEF SystemInv
<1> DEFINE j == NextLaunch.job
           r == NextLaunch.resource
           t == <<j, job[j].runs + 1>>
<1>1. /\ plan.launches # <<>> /\ reserve_run(j, r) /\ pending' = t /\ plan' = LaterLaunches
      /\ UNCHANGED <<up, crashes, ask, watch, sweep>> /\ UNCHANGED processVars
  BY DEF Reserve
<1>2. j \in Jobs /\ r \in Resources
  BY <1>0, <1>1, NextLaunchType
<1> HIDE DEF j, r
<1>3. RunsStay /\ OthersSame(t) /\ t \in Tasks /\ task[t].status = "absent" /\ task'[t].status = "queued"
  BY <1>0, <1>1, <1>2, ReserveStays
<1> HIDE DEF t
<1>4. /\ worker' = worker /\ child' = child /\ known' = known /\ proof' = proof /\ exitFile' = exitFile
      /\ yieldFile' = yieldFile /\ released' = released
  BY <1>1 DEF processVars
<1>5. SystemTypes'
  BY <1>0, <1>1, <1>3, <1>4, PlanTypes DEF SystemTypes
<1>6. ProcessTypes'
  BY <1>0, <1>4 DEF ProcessTypes
<1>7. Fit(task[t].status, worker[t], child[t], proof[t], exitFile[t])
  BY <1>0, <1>3 DEF TasksFit
<1>8. worker[t] = "none" /\ child[t] = "none" /\ exitFile[t] = NoExit /\ proof[t] = "unconfirmed"
  BY <1>3, <1>7 DEF Fit, TerminalStatus
<1>9. Fit(task'[t].status, worker'[t], child'[t], proof'[t], exitFile'[t])
  BY <1>3, <1>4, <1>8 DEF Fit, NoExit, HasLock, TerminalStatus
<1>10. \A u \in Tasks \ {t} : SameProcess(u)
  BY <1>4 DEF SameProcess
<1>11. PendingHolds'
  BY <1>1, <1>3, <1>4, <1>8 DEF PendingHolds
<1>12. AskHolds'
  BY <1>0, <1>1, ActorParts, AskStays
<1>13. child'[t] # "alive"
  BY <1>4, <1>8
<1> QED BY <1>1, <1>3, <1>4, <1>5, <1>6, <1>9, <1>10, <1>11, <1>12, <1>13, TaskMoved

\* A launch whose program is gone: its task is new and ends at once
LEMMA ProgramGoneKeeps ==
    ASSUME SystemInv, TasksLast, StopsLast, ProgramGone
    PROVE  Rest'
<1>0. StoreState /\ SystemTypes /\ ProcessTypes /\ TasksFit /\ ActorHolds
  BY DEF SystemInv
<1> DEFINE j == NextLaunch.job
           r == NextLaunch.resource
           t == <<j, job[j].runs + 1>>
<1>1. /\ plan.launches # <<>> /\ fail_job_launch(j, r) /\ pending' = pending /\ plan' = LaterLaunches
      /\ proof' = [proof EXCEPT ![t] = "no_child"]
      /\ UNCHANGED <<up, crashes, ask, watch, sweep>>
      /\ UNCHANGED <<worker, child, known, exitFile, yieldFile, released>>
  BY DEF ProgramGone
<1>2. j \in Jobs /\ r \in Resources
  BY <1>0, <1>1, NextLaunchType
<1> HIDE DEF j, r
<1>3. RunsStay /\ OthersSame(t) /\ t \in Tasks /\ task[t].status = "absent" /\ task'[t].status \in TerminalStatus
  BY <1>0, <1>1, <1>2, ReserveStays
<1> HIDE DEF t
<1>4. SystemTypes'
  BY <1>0, <1>1, <1>3, PlanTypes DEF SystemTypes
<1>5. proof' \in [Tasks -> Evidence] /\ proof'[t] = "no_child" /\ \A u \in Tasks \ {t} : proof'[u] = proof[u]
  BY <1>0, <1>1, <1>3 DEF ProcessTypes, Evidence
<1>6. ProcessTypes'
  BY <1>0, <1>1, <1>5 DEF ProcessTypes
<1>7. Fit(task[t].status, worker[t], child[t], proof[t], exitFile[t])
  BY <1>0, <1>3 DEF TasksFit
<1>8. worker[t] = "none" /\ child[t] = "none" /\ exitFile[t] = NoExit
  BY <1>3, <1>7 DEF Fit
<1>9. Fit(task'[t].status, worker'[t], child'[t], proof'[t], exitFile'[t])
  BY <1>1, <1>3, <1>5, <1>8 DEF Fit, NoExit, HasLock, TerminalStatus
<1>10. \A u \in Tasks \ {t} : SameProcess(u)
  BY <1>1, <1>5 DEF SameProcess
<1> QED BY <1>1, <1>3, <1>4, <1>6, <1>8, <1>9, <1>10, TaskMoves

LEMMA ReserveRefusedKeeps ==
    ASSUME SystemInv, TasksLast, StopsLast, ReserveRefused \/ LaunchDropped
    PROVE  Rest'
<1>0. SystemTypes /\ ActorHolds
  BY DEF SystemInv
<1>1. /\ plan' \in {plan, NoPlan} /\ pending' \in {pending, NoTask} /\ UNCHANGED storeVars
      /\ UNCHANGED <<up, crashes, ask, watch, sweep>> /\ UNCHANGED processVars
  BY DEF ReserveRefused, LaunchDropped
<1>2. worker' = worker /\ released' = released
  BY <1>1 DEF processVars
<1>3. SystemTypes'
  BY <1>0, <1>1, <1>2, PlanTypes DEF SystemTypes
<1>4. RunsStay /\ SameTasks
  BY <1>1, StoreStays
<1>5. PendingHolds' /\ AskHolds'
  BY <1>0, <1>1, <1>2, ActorParts, PendingStays, AskStays
<1> QED BY <1>1, <1>3, <1>4, <1>5, MemoryMoves

LEMMA LaunchWorkerKeeps ==
    ASSUME SystemInv, TasksLast, StopsLast, LaunchWorker
    PROVE  Rest'
<1>0. SystemTypes /\ ProcessTypes /\ TasksFit /\ ActorHolds
  BY DEF SystemInv
<1>1. /\ pending # NoTask /\ task[pending].status = "queued" /\ UNCHANGED storeVars
      /\ worker' = [worker EXCEPT ![pending] = "spawned"] /\ watch' = watch \cup {pending}
      /\ pending' = NoTask /\ UNCHANGED <<up, crashes, ask, plan, sweep>>
      /\ UNCHANGED <<child, known, proof, exitFile, yieldFile, released>>
  BY DEF LaunchWorker, Launchable
<1>2. pending \in Tasks /\ worker[pending] = "none"
  BY <1>0, <1>1 DEF SystemTypes, ActorHolds
<1>3. SystemTypes'
  BY <1>0, <1>1, <1>2 DEF SystemTypes
<1>4. /\ worker' \in [Tasks -> WorkerStates] /\ worker'[pending] = "spawned"
      /\ \A u \in Tasks \ {pending} : worker'[u] = worker[u]
  BY <1>0, <1>1, <1>2 DEF ProcessTypes, WorkerStates, HasLock
<1>5. ProcessTypes'
  BY <1>0, <1>1, <1>4 DEF ProcessTypes
<1>6. Fit(task[pending].status, worker[pending], child[pending], proof[pending], exitFile[pending])
  BY <1>0, <1>2 DEF TasksFit
<1>7. child[pending] = "none" /\ exitFile[pending] = NoExit /\ proof[pending] = "unconfirmed"
  BY <1>1, <1>6 DEF Fit, TerminalStatus
<1>8. RunsStay /\ OthersSame(pending) /\ task'[pending].status = "queued"
  BY <1>1, <1>2, StoreStays DEF storeVars
<1>9. Fit(task'[pending].status, worker'[pending], child'[pending], proof'[pending], exitFile'[pending])
  BY <1>1, <1>4, <1>7, <1>8 DEF Fit, NoExit, HasLock, TerminalStatus
<1>10. \A u \in Tasks \ {pending} : SameProcess(u)
  BY <1>1, <1>4 DEF SameProcess
<1> QED BY <1>1, <1>2, <1>3, <1>5, <1>7, <1>8, <1>9, <1>10, TaskMoves

LEMMA LaunchFailsKeeps ==
    ASSUME SystemInv, TasksLast, StopsLast, LaunchFails
    PROVE  Rest'
<1>0. SystemTypes
  BY DEF SystemInv
<1>b. TypeOK
  BY DEF SystemInv, StoreState, StoreInv, Inv
<1>1. /\ pending # NoTask /\ proof' = [proof EXCEPT ![pending] = "no_child"] /\ pending' = NoTask
      /\ UNCHANGED <<up, crashes, plan, ask, watch, sweep>>
      /\ UNCHANGED <<worker, child, known, exitFile, yieldFile, released>>
  BY DEF LaunchFails
<1>2. PICK r \in Resources : commit_terminal(job, run, task, r, pending, "queued", "other")
  BY DEF LaunchFails, commit_job_run_exit
<1>3. pending \in Tasks /\ "other" \in RunEnds
  BY <1>0, <1>1 DEF SystemTypes, RunEnds
<1>4. EndsTask(pending) /\ task[pending].status = "queued"
  BY <1>b, <1>2, <1>3, ExitEndsTask
<1> QED BY <1>1, <1>3, <1>4, UnclaimedEnds

\* A stop that is committed, or was decided otherwise meanwhile
LEMMA CommitStopKeeps ==
    ASSUME SystemInv, TasksLast, StopsLast, StoreState', NEW young, CommitStop(young)
    PROVE  Rest'
<1>0. StoreState /\ SystemTypes /\ ActorHolds /\ Inv
  BY DEF SystemInv, StoreState, StoreInv
<1>b. Inv
  BY <1>0
<1> DEFINE s == plan.stop
<1>1. /\ s # NoStop
      /\ commit_preemption(s, young) \/ UNCHANGED storeVars
      /\ ask' = IF run'[s.resource].task = s.task /\ StopCauseOf(run'[s.resource]) = "yield"
                THEN s.task ELSE NoTask
      /\ plan' = NoPlan /\ UNCHANGED <<up, crashes, pending, watch, sweep>> /\ UNCHANGED processVars
  BY DEF CommitStop
<1>2. s.resource \in Resources
  BY <1>0 DEF SystemTypes, CommitStop
<1> HIDE DEF s
<1>3. RunsStay /\ SameTasks
  BY <1>b, <1>1, StopStays, StoreStays
<1>4. worker' = worker /\ released' = released
  BY <1>1 DEF processVars
<1>5. ask' # NoTask => /\ run'[s.resource].task = ask' /\ run'[s.resource].phase = "stopping"
                       /\ ask' \in Tasks
  <2> SUFFICES ASSUME ask' # NoTask
               PROVE  /\ run'[s.resource].task = ask' /\ run'[s.resource].phase = "stopping"
                      /\ ask' \in Tasks
    OBVIOUS
  <2>1. run'[s.resource].task = ask' /\ run'[s.resource].phase = "stopping"
    BY <1>1 DEF StopCauseOf, NoCause
  <2>2. Owned(run')
    BY DEF StoreState, StoreInv, Inv, Consistent, Owned
  <2> QED BY <1>2, <2>1, <2>2 DEF Owned
<1>6. SystemTypes'
  BY <1>0, <1>1, <1>4, <1>5, PlanTypes DEF SystemTypes
<1>7. AskHolds'
  BY <1>2, <1>5 DEF AskHolds, Stopped, RunOn
<1>8. PendingHolds'
  BY <1>0, <1>1, <1>4, ActorParts, PendingStays
<1> QED BY <1>1, <1>3, <1>6, <1>7, <1>8, MemoryMoves

LEMMA DaemonCrashKeeps ==
    ASSUME SystemInv, TasksLast, StopsLast, DaemonCrash \/ DaemonStart
    PROVE  Rest'
<1>0. SystemTypes /\ ActorHolds
  BY DEF SystemInv
<1>1. /\ up' \in BOOLEAN /\ crashes' \in 0..MaxCrashes /\ plan' \in {plan, NoPlan}
      /\ pending' \in {pending, NoTask} /\ ask' \in {ask, NoTask} /\ watch' \in SUBSET Tasks
      /\ sweep' = [r \in Resources |-> NoSweep] \/ sweep' = sweep
      /\ UNCHANGED storeVars /\ UNCHANGED processVars
  <2>1. CASE DaemonCrash
    <3>1. crashes + 1 \in 0..MaxCrashes
      BY <1>0, <2>1, SystemAssumption DEF DaemonCrash, SystemTypes
    <3> QED BY <2>1, <3>1 DEF DaemonCrash
  <2>2. CASE DaemonStart
    BY <1>0, <2>2 DEF DaemonStart, SystemTypes
  <2> QED BY <2>1, <2>2
<1>2. worker' = worker /\ child' = child /\ released' = released
  BY <1>1 DEF processVars
<1>3. sweep' \in [Resources -> SweepRow]
  BY <1>0, <1>1 DEF SystemTypes, NoSweep, SweepRow
<1>4. SystemTypes'
  BY <1>0, <1>1, <1>2, <1>3, PlanTypes DEF SystemTypes
<1>5. RunsStay /\ SameTasks
  BY <1>1, StoreStays
<1>6. ChildrenOfRunning
  BY <1>2 DEF ChildrenOfRunning
<1>7. PendingHolds' /\ AskHolds'
  BY <1>0, <1>1, <1>2, ActorParts, PendingStays, AskStays
<1>8. ASSUME NEW r \in Resources PROVE SweepHolds(r)'
  <2>1. CASE sweep' = sweep
    BY <1>0, <1>6, <2>1, ActorParts, SweepStays
  <2>2. CASE sweep' = [q \in Resources |-> NoSweep]
    BY <2>2 DEF SweepHolds, NoSweep
  <2> QED BY <1>1, <2>1, <2>2
<1>9. ActorHolds'
  BY <1>7, <1>8, ActorPartsNext
<1> QED BY <1>1, <1>4, <1>5, <1>9, TasksStay

-----------------------------------------------------------------------------
(* The steps of a worker and of the watch of its task *)

\* A worker that exists is not the one a reserved task still waits for
LEMMA WorkerMoves ==
    ASSUME SystemInv, TasksLast, StopsLast, ProcessTypes', NEW t \in Tasks,
           RunsStay, OthersSame(t), \A u \in Tasks \ {t} : SameProcess(u),
           Fit(task'[t].status, worker'[t], child'[t], proof'[t], exitFile'[t]),
           child'[t] = "alive" => child[t] = "alive" \/ task[t].status = "running",
           worker[t] # "none", crashes' \in 0..MaxCrashes,
           UNCHANGED <<up, plan, pending, ask, watch, sweep>>,
           yieldFile' = yieldFile, released' = released
    PROVE  Rest'
<1>0. SystemTypes /\ ActorHolds
  BY DEF SystemInv
<1>1. SystemTypes'
  BY <1>0 DEF SystemTypes
<1>2. pending' # NoTask => t # pending
  BY <1>0 DEF ActorHolds
<1> QED BY <1>1, <1>2, TaskMoves

\* Only the worker of t changes its state
LEMMA WorkerAlone ==
    ASSUME SystemInv, NEW t \in Tasks, NEW from, NEW to \in WorkerStates, Worker(t, from, to),
           UNCHANGED <<child, known, proof, exitFile, yieldFile>>
    PROVE  /\ ProcessTypes' /\ worker'[t] = to
           /\ Fit(task[t].status, from, child[t], proof[t], exitFile[t])
           /\ \A u \in Tasks \ {t} : SameProcess(u)
<1>0. ProcessTypes /\ TasksFit
  BY DEF SystemInv
<1>1. worker[t] = from /\ worker' = [worker EXCEPT ![t] = to]
  BY DEF Worker
<1>2. Fit(task[t].status, worker[t], child[t], proof[t], exitFile[t])
  BY <1>0 DEF TasksFit
<1>3. ProcessTypes' /\ worker'[t] = to
  BY <1>0, <1>1 DEF ProcessTypes
<1>4. \A u \in Tasks \ {t} : SameProcess(u)
  BY <1>0, <1>1 DEF ProcessTypes, SameProcess
<1> QED BY <1>1, <1>2, <1>3, <1>4

LEMMA ClaimKeeps ==
    ASSUME SystemInv, TasksLast, StopsLast, NEW t \in Tasks, Claim(t)
    PROVE  Rest'
<1>0. StoreState /\ SystemTypes
  BY DEF SystemInv
<1>a. task \in [Tasks -> TaskRow]
  BY <1>0 DEF StoreState, StoreInv, Inv, TypeOK
<1>1. /\ Worker(t, "spawned", "claimed") /\ task[t].status = "queued" /\ worker[t] = "spawned"
      /\ task' = [task EXCEPT ![t].status = "running"] /\ run' = run
      /\ UNCHANGED <<up, crashes, plan, pending, ask, watch, sweep>>
      /\ UNCHANGED <<child, known, proof, exitFile, yieldFile>> /\ released' = released
  BY DEF Claim, claim_task, daemonVars, Worker
<1>2. "claimed" \in WorkerStates
  BY DEF WorkerStates, HasLock
<1>3. /\ ProcessTypes' /\ worker'[t] = "claimed" /\ \A u \in Tasks \ {t} : SameProcess(u)
      /\ Fit(task[t].status, "spawned", child[t], proof[t], exitFile[t])
  BY <1>1, <1>2, WorkerAlone
<1>4. task'[t].status = "running" /\ RunsStay /\ OthersSame(t)
  BY <1>a, <1>1 DEF TaskRow, RunsStay, OthersSame
<1>5. child[t] = "none" /\ exitFile[t] = NoExit /\ proof[t] = "unconfirmed"
  BY <1>1, <1>3 DEF Fit, TerminalStatus
<1>6. Fit(task'[t].status, worker'[t], child'[t], proof'[t], exitFile'[t])
  BY <1>1, <1>3, <1>4, <1>5 DEF Fit, NoExit, HasLock, TerminalStatus
<1>7. crashes' \in 0..MaxCrashes
  BY <1>0, <1>1 DEF SystemTypes
<1> QED BY <1>1, <1>3, <1>4, <1>6, <1>7, WorkerMoves

LEMMA ClaimRefusedKeeps ==
    ASSUME SystemInv, TasksLast, StopsLast, NEW t \in Tasks, ClaimRefused(t)
    PROVE  Rest'
<1>0. SystemTypes
  BY DEF SystemInv
<1>1. /\ Worker(t, "spawned", "gone") /\ worker[t] = "spawned" /\ UNCHANGED storeVars
      /\ UNCHANGED <<up, crashes, plan, pending, ask, watch, sweep>>
      /\ UNCHANGED <<child, known, proof, exitFile, yieldFile>> /\ released' = released
  BY DEF ClaimRefused, daemonVars, Worker
<1>2. "gone" \in WorkerStates
  BY DEF WorkerStates
<1>3. /\ ProcessTypes' /\ worker'[t] = "gone" /\ \A u \in Tasks \ {t} : SameProcess(u)
      /\ Fit(task[t].status, "spawned", child[t], proof[t], exitFile[t])
  BY <1>1, <1>2, WorkerAlone
<1>4. RunsStay /\ OthersSame(t) /\ task' = task
  BY <1>1, StoreStays DEF storeVars
<1>5. Fit(task'[t].status, worker'[t], child'[t], proof'[t], exitFile'[t])
  BY <1>1, <1>3, <1>4 DEF Fit, HasLock
<1>6. crashes' \in 0..MaxCrashes
  BY <1>0, <1>1 DEF SystemTypes
<1> QED BY <1>1, <1>3, <1>4, <1>5, <1>6, WorkerMoves

LEMMA SpawnChildKeeps ==
    ASSUME SystemInv, TasksLast, StopsLast, NEW t \in Tasks, SpawnChild(t)
    PROVE  Rest'
<1>0. SystemTypes /\ ProcessTypes /\ TasksFit
  BY DEF SystemInv
<1>1. /\ worker[t] = "claimed" /\ worker' = [worker EXCEPT ![t] = "started"]
      /\ child' = [child EXCEPT ![t] = "alive"] /\ UNCHANGED storeVars
      /\ UNCHANGED <<up, crashes, plan, pending, ask, watch, sweep>>
      /\ UNCHANGED <<known, proof, exitFile, yieldFile, released>>
  BY DEF SpawnChild, daemonVars, Worker
<1>2. /\ ProcessTypes' /\ worker'[t] = "started" /\ child'[t] = "alive"
      /\ \A u \in Tasks \ {t} : SameProcess(u)
  BY <1>0, <1>1 DEF ProcessTypes, SameProcess, WorkerStates, HasLock
<1>3. Fit(task[t].status, worker[t], child[t], proof[t], exitFile[t])
  BY <1>0 DEF TasksFit
<1>4. RunsStay /\ OthersSame(t) /\ task' = task
  BY <1>1, StoreStays DEF storeVars
<1>5. task[t].status = "running" /\ exitFile[t] = NoExit /\ proof[t] = "unconfirmed"
  BY <1>1, <1>3 DEF Fit, HasLock, TerminalStatus
<1>6. Fit(task'[t].status, worker'[t], child'[t], proof'[t], exitFile'[t])
  BY <1>1, <1>2, <1>4, <1>5 DEF Fit, NoExit, HasLock, TerminalStatus
<1>7. crashes' \in 0..MaxCrashes
  BY <1>0, <1>1 DEF SystemTypes
<1> QED BY <1>1, <1>2, <1>4, <1>5, <1>6, <1>7, WorkerMoves

LEMMA RecordChildKeeps ==
    ASSUME SystemInv, TasksLast, StopsLast, NEW t \in Tasks, NEW stored \in BOOLEAN,
           RecordChild(t, stored)
    PROVE  Rest'
<1>0. SystemTypes /\ ProcessTypes /\ TasksFit
  BY DEF SystemInv
<1>1. /\ worker[t] = "started" /\ worker' = [worker EXCEPT ![t] = "identified"]
      /\ known' = [known EXCEPT ![t] = stored] /\ UNCHANGED storeVars
      /\ UNCHANGED <<up, crashes, plan, pending, ask, watch, sweep>>
      /\ UNCHANGED <<child, proof, exitFile, yieldFile, released>>
  BY DEF RecordChild, daemonVars, Worker
<1>2. /\ ProcessTypes' /\ worker'[t] = "identified" /\ \A u \in Tasks \ {t} : SameProcess(u)
  BY <1>0, <1>1 DEF ProcessTypes, SameProcess, WorkerStates, HasLock
<1>3. Fit(task[t].status, worker[t], child[t], proof[t], exitFile[t])
  BY <1>0 DEF TasksFit
<1>4. RunsStay /\ OthersSame(t) /\ task' = task
  BY <1>1, StoreStays DEF storeVars
<1>5. Fit(task'[t].status, worker'[t], child'[t], proof'[t], exitFile'[t])
  BY <1>1, <1>2, <1>3, <1>4 DEF Fit, HasLock
<1>6. crashes' \in 0..MaxCrashes
  BY <1>0, <1>1 DEF SystemTypes
<1> QED BY <1>1, <1>2, <1>4, <1>5, <1>6, WorkerMoves

LEMMA ConfirmKeeps ==
    ASSUME SystemInv, TasksLast, StopsLast, NEW t \in Tasks, Confirm(t)
    PROVE  Rest'
<1>0. SystemTypes /\ TypeOK
  BY DEF SystemInv, StoreState, StoreInv, Inv
<1>b. TypeOK
  BY <1>0
<1>1. /\ Worker(t, "identified", "running") /\ worker[t] = "identified"
      /\ UNCHANGED <<up, crashes, plan, pending, ask, watch, sweep>>
      /\ UNCHANGED <<child, known, proof, exitFile, yieldFile>> /\ released' = released
  BY DEF Confirm, daemonVars, Worker
<1>2. PICK r \in Resources : mark_run_executing(r, t)
  BY DEF Confirm
<1>3. RunsStay /\ SameTasks
  BY <1>b, <1>2, StartStays
<1>4. OthersSame(t) /\ task'[t].status = task[t].status
  BY <1>3 DEF SameTasks, OthersSame
<1>5. "running" \in WorkerStates
  BY DEF WorkerStates, HasLock
<1>6. /\ ProcessTypes' /\ worker'[t] = "running" /\ \A u \in Tasks \ {t} : SameProcess(u)
      /\ Fit(task[t].status, "identified", child[t], proof[t], exitFile[t])
  BY <1>1, <1>5, WorkerAlone
<1>7. Fit(task'[t].status, worker'[t], child'[t], proof'[t], exitFile'[t])
  BY <1>1, <1>4, <1>6 DEF Fit, HasLock
<1>8. crashes' \in 0..MaxCrashes
  BY <1>0, <1>1 DEF SystemTypes
<1> QED BY <1>1, <1>3, <1>4, <1>6, <1>7, <1>8, WorkerMoves

\* exit.json is written while the worker holds its task
LEMMA WriteExitKeeps ==
    ASSUME SystemInv, TasksLast, StopsLast, NEW t \in Tasks, NEW end \in RunEnds \ {"lost"},
           NEW evidence \in Evidence, worker[t] \in {"claimed", "identified", "running"},
           evidence = "no_child" => worker[t] = "claimed", WriteExit(t, end, evidence)
    PROVE  Rest'
<1>0. SystemTypes /\ ProcessTypes /\ TasksFit
  BY DEF SystemInv
<1> DEFINE x == [end |-> end, evidence |-> evidence]
<1>1. /\ worker' = [worker EXCEPT ![t] = "reported"] /\ exitFile' = [exitFile EXCEPT ![t] = x]
      /\ \/ evidence = "no_child" /\ child' = child
         \/ evidence = "exited" /\ child' = [child EXCEPT ![t] = "dead"]
         \/ evidence = "unconfirmed" /\ child' = child
      /\ UNCHANGED storeVars
      /\ UNCHANGED <<up, crashes, plan, pending, ask, watch, sweep>>
      /\ UNCHANGED <<known, proof, yieldFile, released>>
  BY DEF WriteExit, daemonVars
<1>2. x \in [end : RunEnds \cup {"none"}, evidence : Evidence] /\ x.end = end /\ x.evidence = evidence
  OBVIOUS
<1>3. x # NoExit
  <2>1. x.end # NoExit.end
    BY <1>2 DEF NoExit, RunEnds
  <2> QED BY <2>1
<1> HIDE DEF x
<1>4. /\ worker' \in [Tasks -> WorkerStates] /\ worker'[t] = "reported"
      /\ exitFile'[t] = x /\ exitFile' \in [Tasks -> [end : RunEnds \cup {"none"}, evidence : Evidence]]
      /\ \A u \in Tasks \ {t} : worker'[u] = worker[u] /\ exitFile'[u] = exitFile[u]
  <2>1. "reported" \in WorkerStates
    BY DEF WorkerStates, HasLock
  <2> DEFINE X == [end : RunEnds \cup {"none"}, evidence : Evidence]
  <2>2. x \in X /\ exitFile \in [Tasks -> X] /\ worker \in [Tasks -> WorkerStates]
    BY <1>0, <1>2 DEF ProcessTypes
  <2> HIDE DEF X
  <2>3. exitFile'[t] = x /\ exitFile' \in [Tasks -> X]
        /\ \A u \in Tasks \ {t} : exitFile'[u] = exitFile[u]
    BY <1>1, <2>2
  <2>4. worker'[t] = "reported" /\ worker' \in [Tasks -> WorkerStates]
        /\ \A u \in Tasks \ {t} : worker'[u] = worker[u]
    BY <1>1, <2>1, <2>2
  <2> QED BY <2>3, <2>4 DEF X
<1>5. /\ child' \in [Tasks -> {"none", "alive", "dead"}] /\ \A u \in Tasks \ {t} : child'[u] = child[u]
      /\ evidence = "exited" => child'[t] = "dead"
      /\ evidence # "exited" => child'[t] = child[t]
  BY <1>0, <1>1 DEF ProcessTypes
<1>6. ProcessTypes'
  BY <1>0, <1>1, <1>4, <1>5 DEF ProcessTypes
<1>7. \A u \in Tasks \ {t} : SameProcess(u)
  BY <1>1, <1>4, <1>5 DEF SameProcess
<1>8. Fit(task[t].status, worker[t], child[t], proof[t], exitFile[t])
  BY <1>0 DEF TasksFit
<1>9. RunsStay /\ OthersSame(t) /\ task' = task
  BY <1>1, StoreStays DEF storeVars
<1>10. task[t].status = "running" /\ proof[t] = "unconfirmed" /\ (evidence = "no_child" => child[t] = "none")
  BY <1>8 DEF Fit, HasLock, TerminalStatus
<1>11. Fit(task'[t].status, worker'[t], child'[t], proof'[t], exitFile'[t])
  BY <1>1, <1>2, <1>3, <1>4, <1>5, <1>9, <1>10 DEF Fit, HasLock, TerminalStatus
<1>12. crashes' \in 0..MaxCrashes
  BY <1>0, <1>1 DEF SystemTypes
<1> QED BY <1>1, <1>5, <1>6, <1>7, <1>9, <1>10, <1>11, <1>12, WorkerMoves

\* The end of a task whose exit.json exists
LEMMA ReportedEnds ==
    ASSUME SystemInv, NEW t \in Tasks, worker[t] \in {"reported", "gone"},
           exitFile[t] # NoExit, EndsTask(t),
           exitFile[t].end = "exit0" => task'[t].status = "succeeded", task'[t].status # "lost"
    PROVE  Fit(task'[t].status, "gone", child[t], exitFile[t].evidence, exitFile[t])
<1>0. TasksFit
  BY DEF SystemInv
<1>1. Fit(task[t].status, worker[t], child[t], proof[t], exitFile[t])
  BY <1>0 DEF TasksFit
<1>2. task'[t].status \in TerminalStatus
  BY DEF EndsTask
<1> QED BY <1>1, <1>2 DEF Fit, HasLock, TerminalStatus

LEMMA CommitExitKeeps ==
    ASSUME SystemInv, TasksLast, StopsLast, NEW t \in Tasks, CommitExit(t)
    PROVE  Rest'
<1>0. SystemTypes /\ ProcessTypes /\ TasksFit /\ TypeOK
  BY DEF SystemInv, StoreState, StoreInv, Inv
<1>b. TypeOK
  BY <1>0
<1>1. /\ worker[t] = "reported" /\ worker' = [worker EXCEPT ![t] = "gone"]
      /\ UNCHANGED <<up, crashes, plan, pending, ask, watch, sweep>>
      /\ UNCHANGED <<child, known, exitFile, yieldFile, released>>
  BY DEF CommitExit, daemonVars, Worker
<1>2. Fit(task[t].status, worker[t], child[t], proof[t], exitFile[t])
  BY <1>0 DEF TasksFit
<1>3. task[t].status = "running" /\ exitFile[t] # NoExit /\ exitFile[t].end \in RunEnds \ {"lost"}
  BY <1>1, <1>2 DEF Fit, HasLock
<1>4. /\ proof' = [proof EXCEPT ![t] = exitFile[t].evidence]
      /\ \E r \in Resources : commit_terminal(job, run, task, r, t, "running", exitFile[t].end)
  BY <1>3 DEF CommitExit, commit_job_run_exit
<1>5. /\ EndsTask(t) /\ task'[t].status # "lost"
      /\ exitFile[t].end = "exit0" => task'[t].status = "succeeded"
  BY <1>b, <1>3, <1>4, ExitEndsTask
<1>6. exitFile[t].evidence \in Evidence
  BY <1>0 DEF ProcessTypes
<1>7. /\ ProcessTypes' /\ worker'[t] = "gone" /\ proof'[t] = exitFile[t].evidence
      /\ \A u \in Tasks \ {t} : SameProcess(u)
  BY <1>0, <1>1, <1>4, <1>6 DEF ProcessTypes, SameProcess, WorkerStates
<1>8. Fit(task'[t].status, worker'[t], child'[t], proof'[t], exitFile'[t])
  BY <1>1, <1>3, <1>5, <1>7, ReportedEnds
<1>9. crashes' \in 0..MaxCrashes
  BY <1>0, <1>1 DEF SystemTypes
<1>10. RunsStay /\ OthersSame(t)
  BY <1>5 DEF EndsTask
<1> QED BY <1>1, <1>7, <1>8, <1>9, <1>10, WorkerMoves

LEMMA LockReleasedKeeps ==
    ASSUME SystemInv, TasksLast, StopsLast, NEW t \in Tasks, LockReleased(t)
    PROVE  Rest'
<1>0. SystemTypes /\ ProcessTypes /\ TasksFit /\ TypeOK
  BY DEF SystemInv, StoreState, StoreInv, Inv
<1>b. TypeOK
  BY <1>0
<1>1. /\ worker[t] = "gone" /\ watch' = watch \ {t}
      /\ UNCHANGED <<up, crashes, ask, plan, pending, sweep>>
      /\ UNCHANGED <<worker, child, known, exitFile, yieldFile, released>>
  BY DEF LockReleased
<1>2. SystemTypes'
  BY <1>0, <1>1 DEF SystemTypes
<1>3. Fit(task[t].status, worker[t], child[t], proof[t], exitFile[t])
  BY <1>0 DEF TasksFit
<1>4. CASE task[t].status \in TerminalStatus
  <2>1. UNCHANGED storeVars /\ proof' = proof
    BY <1>4 DEF LockReleased
  <2>2. RunsStay /\ OthersSame(t) /\ task' = task
    BY <2>1, StoreStays DEF storeVars
  <2>3. ProcessTypes'
    BY <1>0, <1>1, <2>1 DEF ProcessTypes
  <2>4. Fit(task'[t].status, worker'[t], child'[t], proof'[t], exitFile'[t])
    BY <1>1, <1>3, <2>1, <2>2
  <2>5. \A u \in Tasks \ {t} : SameProcess(u)
    BY <1>1, <2>1 DEF SameProcess
  <2> QED BY <1>1, <1>2, <2>2, <2>3, <2>4, <2>5, TaskMoves
<1>5. CASE task[t].status \notin TerminalStatus /\ exitFile[t] # NoExit
  <2>1. /\ proof' = [proof EXCEPT ![t] = exitFile[t].evidence]
        /\ \E r \in Resources : commit_terminal(job, run, task, r, t, task[t].status, exitFile[t].end)
    BY <1>5 DEF LockReleased, commit_job_run_exit
  <2>2. exitFile[t].end \in RunEnds \ {"lost"}
    BY <1>3, <1>5 DEF Fit
  <2>3. /\ EndsTask(t) /\ task'[t].status # "lost"
        /\ exitFile[t].end = "exit0" => task'[t].status = "succeeded"
    BY <1>b, <2>1, <2>2, ExitEndsTask
  <2>4. exitFile[t].evidence \in Evidence
    BY <1>0 DEF ProcessTypes
  <2>5. /\ ProcessTypes' /\ proof'[t] = exitFile[t].evidence /\ \A u \in Tasks \ {t} : SameProcess(u)
    BY <1>0, <1>1, <2>1, <2>4 DEF ProcessTypes, SameProcess
  <2>6. Fit(task'[t].status, worker'[t], child'[t], proof'[t], exitFile'[t])
    BY <1>1, <1>5, <2>3, <2>5, ReportedEnds
  <2>7. RunsStay /\ OthersSame(t)
    BY <2>3 DEF EndsTask
  <2> QED BY <1>1, <1>2, <2>5, <2>6, <2>7, TaskMoves
<1>6. CASE task[t].status \notin TerminalStatus /\ exitFile[t] = NoExit
  <2>1. /\ proof' = proof
        /\ \E r \in Resources : commit_terminal(job, run, task, r, t, task[t].status, "lost")
    BY <1>6 DEF LockReleased, commit_lost
  <2>2. "lost" \in RunEnds
    BY DEF RunEnds
  <2>3. EndsTask(t)
    BY <1>b, <2>1, <2>2, ExitEndsTask
  <2>4. RunsStay /\ OthersSame(t) /\ task'[t].status \in TerminalStatus
    BY <2>3 DEF EndsTask
  <2>5. ProcessTypes' /\ \A u \in Tasks \ {t} : SameProcess(u)
    BY <1>0, <1>1, <2>1 DEF ProcessTypes, SameProcess
  <2>6. Fit(task'[t].status, worker'[t], child'[t], proof'[t], exitFile'[t])
    BY <1>1, <1>3, <1>6, <2>1, <2>4 DEF Fit, HasLock, TerminalStatus
  <2> QED BY <1>1, <1>2, <2>4, <2>5, <2>6, TaskMoves
<1> QED BY <1>4, <1>5, <1>6

LEMMA WorkerCrashKeeps ==
    ASSUME SystemInv, TasksLast, StopsLast, NEW t \in Tasks, WorkerCrash(t)
    PROVE  Rest'
<1>0. SystemTypes /\ ProcessTypes /\ TasksFit
  BY DEF SystemInv
<1>1. /\ worker[t] \in HasLock /\ crashes < MaxCrashes /\ crashes' = crashes + 1
      /\ worker' = [worker EXCEPT ![t] = "gone"]
      /\ \/ child' = child
         \/ child[t] = "alive" /\ child' = [child EXCEPT ![t] = "dead"]
      /\ UNCHANGED storeVars /\ UNCHANGED <<up, plan, pending, ask, watch, sweep>>
      /\ UNCHANGED <<known, proof, exitFile, yieldFile, released>>
  BY DEF WorkerCrash
<1>2. /\ child' \in [Tasks -> {"none", "alive", "dead"}] /\ \A u \in Tasks \ {t} : child'[u] = child[u]
      /\ \/ child'[t] = child[t]
         \/ child[t] = "alive" /\ child'[t] = "dead"
  BY <1>0, <1>1 DEF ProcessTypes
<1>3. worker' \in [Tasks -> WorkerStates] /\ worker'[t] = "gone" /\ \A u \in Tasks \ {t} : worker'[u] = worker[u]
  BY <1>0, <1>1 DEF ProcessTypes, WorkerStates
<1>4. ProcessTypes'
  BY <1>0, <1>1, <1>2, <1>3 DEF ProcessTypes
<1>5. \A u \in Tasks \ {t} : SameProcess(u)
  BY <1>1, <1>2, <1>3 DEF SameProcess
<1>6. Fit(task[t].status, worker[t], child[t], proof[t], exitFile[t])
  BY <1>0 DEF TasksFit
<1>7. RunsStay /\ OthersSame(t) /\ task' = task
  BY <1>1, StoreStays DEF storeVars
<1>8. Fit(task'[t].status, worker'[t], child'[t], proof'[t], exitFile'[t])
  BY <1>1, <1>2, <1>3, <1>6, <1>7 DEF Fit, HasLock
<1>9. crashes' \in 0..MaxCrashes /\ worker[t] # "none"
  BY <1>0, <1>1, SystemAssumption DEF SystemTypes, HasLock
<1>10. child'[t] = "alive" => child[t] = "alive"
  BY <1>2
<1> QED BY <1>1, <1>4, <1>5, <1>7, <1>8, <1>9, <1>10, WorkerMoves

-----------------------------------------------------------------------------
(* The invariant holds, and with it the properties of the runs *)

\* The queue actor, the supervisor and the watches, step by step
LEMMA ActorKeeps ==
    ASSUME SystemInv, TasksLast, StopsLast, StoreState', ActorStep
    PROVE  Rest'
<1>1. ASSUME NEW r \in Resources, SettleRun(r) PROVE Rest'
  BY <1>1, AbandonKeeps, ObserveKeeps, SeeYieldKeeps, EnactKillKeeps, StartCleanupKeeps,
     CleanupFinishedKeeps DEF SettleRun
<1>2. ASSUME NEW young, Decide(young) PROVE Rest'
  BY <1>2, DecideKeeps
<1>3. ASSUME NEW young, CommitStop(young) PROVE Rest'
  BY <1>3, CommitStopKeeps
<1>4. CASE EnactYield \/ Reserve \/ ProgramGone \/ ReserveRefused
  BY <1>4, EnactYieldKeeps, ReserveKeeps, ProgramGoneKeeps, ReserveRefusedKeeps
<1>5. CASE LaunchWorker \/ LaunchDropped \/ LaunchFails
  BY <1>5, LaunchWorkerKeeps, ReserveRefusedKeeps, LaunchFailsKeeps
<1> QED BY <1>1, <1>2, <1>3, <1>4, <1>5 DEF ActorStep, FinishPass

\* A worker, step by step
LEMMA WorkerKeeps ==
    ASSUME SystemInv, TasksLast, StopsLast, NEW t \in Tasks,
           \/ WorkerStep(t)
           \/ \E end \in NaturalEnds, evidence \in GroupEvidence : ChildExits(t, end, evidence)
    PROVE  Rest'
<1>1. CASE Claim(t) \/ ClaimRefused(t) \/ SpawnChild(t) \/ Confirm(t) \/ CommitExit(t)
  BY <1>1, ClaimKeeps, ClaimRefusedKeeps, SpawnChildKeeps, ConfirmKeeps, CommitExitKeeps
<1>2. ASSUME NEW stored \in BOOLEAN, RecordChild(t, stored) PROVE Rest'
  BY <1>2, RecordChildKeeps
<1>3. CASE SpawnFails(t)
  BY <1>3, WriteExitKeeps DEF SpawnFails, RunEnds, Evidence
<1>4. ASSUME NEW evidence \in GroupEvidence, NEW end \in NaturalEnds \cup {"cancelled"},
             worker[t] \in {"identified", "running"}, WriteExit(t, end, evidence)
      PROVE  Rest'
  <2>1. evidence \in Evidence /\ evidence # "no_child" /\ end \in RunEnds \ {"lost"}
    BY DEF GroupEvidence, Evidence, NaturalEnds, RunEnds
  <2> QED BY <1>4, <2>1, WriteExitKeeps
<1>5. ASSUME NEW evidence \in GroupEvidence, ConfirmFails(t, evidence) PROVE Rest'
  BY <1>4, <1>5 DEF ConfirmFails, NaturalEnds
<1>6. ASSUME NEW evidence \in GroupEvidence, NEW end \in NaturalEnds \cup {"cancelled"},
             StopChild(t, end, evidence)
      PROVE  Rest'
  BY <1>4, <1>6 DEF StopChild
<1>7. ASSUME NEW evidence \in GroupEvidence, NEW end \in NaturalEnds, ChildExits(t, end, evidence)
      PROVE  Rest'
  BY <1>4, <1>7 DEF ChildExits
<1> QED BY <1>1, <1>2, <1>3, <1>5, <1>6, <1>7 DEF WorkerStep

LEMMA SystemKeeps ==
    ASSUME SystemInv, [SystemNext]_vars
    PROVE  SystemInv'
<1>0. StoreState /\ RunTaskKnown
  BY DEF SystemInv
<1>1. StoreState' /\ Kinds
  BY <1>0, SystemSimulates, StoreStateKept
<1>2. TasksLast
  BY <1>0, <1>1, TasksLastKept
<1>3. RunTaskKnown'
  BY <1>0, <1>1, <1>2, RunTaskKnownKept
<1>4. StopsLast
  BY <1>0, <1>1, <1>2, <1>3, StoppedKept DEF StopsLast
<1>5. Rest'
  <2>1. CASE UNCHANGED vars
    <3>1. UNCHANGED storeVars /\ UNCHANGED daemonVars /\ UNCHANGED processVars
      BY <2>1 DEF vars
    <3> QED BY <1>2, <1>4, <3>1, MemoryStays, StoreStays, TasksStay
  <2>2. CASE Request
    BY <1>2, <1>4, <2>2, RequestKeeps
  <2>3. ASSUME NEW r \in Resources, NEW t \in Tasks, CancelRunTask(r, t) PROVE Rest'
    BY <1>2, <1>4, <2>3, CancelRunTaskKeeps
  <2>4. ASSUME NEW r \in Resources, Release(r) PROVE Rest'
    BY <1>2, <1>4, <2>4, ReleaseKeeps
  <2>5. CASE ActorStep
    BY <1>1, <1>2, <1>4, <2>5, ActorKeeps
  <2>6. ASSUME NEW r \in Resources, NEW result \in {"ok", "stuck"}, Sweep(r, result) PROVE Rest'
    BY <1>2, <1>4, <2>6, SweepKeeps
  <2>7. ASSUME NEW t \in Tasks, LockReleased(t) PROVE Rest'
    BY <1>2, <1>4, <2>7, LockReleasedKeeps
  <2>8. ASSUME NEW t \in Tasks, WorkerStep(t) PROVE Rest'
    BY <1>2, <1>4, <2>8, WorkerKeeps
  <2>9. ASSUME NEW t \in Tasks, NEW end \in NaturalEnds, NEW evidence \in GroupEvidence,
               ChildExits(t, end, evidence)
        PROVE  Rest'
    BY <1>2, <1>4, <2>9, WorkerKeeps
  <2>10. ASSUME NEW t \in Tasks, WorkerCrash(t) PROVE Rest'
    BY <1>2, <1>4, <2>10, WorkerCrashKeeps
  <2>11. CASE DaemonCrash \/ DaemonStart
    BY <1>2, <1>4, <2>11, DaemonCrashKeeps
  <2> QED BY <2>1, <2>2, <2>3, <2>4, <2>5, <2>6, <2>7, <2>8, <2>9, <2>10, <2>11 DEF SystemNext
<1> QED BY <1>1, <1>3, <1>5 DEF SystemInv, Rest

LEMMA SystemStarts ==
    ASSUME SystemInit
    PROVE  SystemInv
<1>1. Init
  BY DEF SystemInit
<1>2. StoreState
  BY <1>1, InitType, InitTies, InitRows, InitOrder, InitWork DEF StoreState, StoreInv, Inv
<1>3. /\ \A r \in Resources : run[r].phase = "idle"
      /\ \A t \in Tasks : task[t].status = "absent"
  BY <1>1 DEF Init, IdleRun, AbsentTask
<1>4. RunTaskKnown
  BY <1>3 DEF RunTaskKnown
<1>5. NoSweep \in SweepRow /\ NoSweep.task = NoTask /\ NoSweep.result = "none"
  BY DEF NoSweep, SweepRow
<1>6. /\ NoPlan.launches = <<>> /\ NoPlan.stop = NoStop
      /\ NoPlan = [launches |-> NoPlan.launches, stop |-> NoPlan.stop]
  BY DEF NoPlan
<1>7. SystemTypes
  <2>1. <<>> \in Seq([job : Jobs, resource : Resources])
    OBVIOUS
  <2>2. sweep \in [Resources -> SweepRow]
    BY <1>5 DEF SystemInit
  <2> QED BY <1>6, <2>1, <2>2, SystemAssumption DEF SystemInit, SystemTypes
<1>8. /\ \A t \in Tasks : /\ worker[t] = "none" /\ child[t] = "none" /\ ~yieldFile[t]
                         /\ proof[t] = "unconfirmed" /\ exitFile[t] = NoExit
      /\ \A r \in Resources : sweep[r] = NoSweep
      /\ pending = NoTask /\ ask = NoTask
  BY DEF SystemInit
<1>9. ProcessTypes
  <2>1. NoExit \in [end : RunEnds \cup {"none"}, evidence : Evidence]
    BY DEF NoExit, Evidence
  <2> QED BY <2>1 DEF SystemInit, ProcessTypes, WorkerStates, Evidence
<1>10. TasksFit
  BY <1>3, <1>8 DEF TasksFit, Fit, NoExit, HasLock, TerminalStatus
<1>11. ActorHolds
  BY <1>5, <1>8 DEF ActorHolds
<1>12. NoLeftoverProcess /\ YieldFileWasCommitted
  BY <1>8 DEF NoLeftoverProcess, YieldFileWasCommitted
<1> QED BY <1>2, <1>4, <1>7, <1>9, <1>10, <1>11, <1>12 DEF SystemInv

\* The invariant of the queue with its daemon and its workers: the store's rows,
\* the daemon's memory, the worker and child of every run task, its exit.json
\* and the evidence in its row fit together, whatever crashes and whichever
\* process steps next
THEOREM SystemInvariance == SystemSpec => []SystemInv
<1>1. SystemInit => SystemInv
  BY SystemStarts
<1>2. SystemInv /\ [SystemNext]_vars => SystemInv'
  BY SystemKeeps
<1> QED BY <1>1, <1>2, PTL DEF SystemSpec

\* The daemon, its watches and the workers call the store only as the store's
\* own specification allows (queue actor, supervisor, task watch, worker): every
\* theorem about the store holds of the whole system
THEOREM SystemImplementsStore == SystemSpec => Spec
<1>1. SystemInit => Init
  BY DEF SystemInit
<1>2. SystemInv /\ [SystemNext]_vars => [Next]_storeVars
  BY SystemSimulates
<1> QED BY <1>1, <1>2, SystemInvariance, PTL DEF SystemSpec, Spec

\* So the whole system keeps the contract of a job queue: a resource is handed on
\* only after its cleanup or a person's release, and a job ends once
THEOREM SystemImplementsContract == SystemSpec => ContractSpec
  BY SystemImplementsStore, StoreImplementsContract, PTL

\* daemon/actors/queue.rs (`cleanup_run', `reconcile_run'): a process of a run
\* that lost its resource is gone, unless a person released the resource, and a
\* launch that was given up or cancelled before its claim never starts one: the
\* property that the runs check, for any jobs, resources, crashes and attempts
THEOREM RunsStayApartCorrect == SystemSpec => []RunsStayApart
<1>1. SystemInv => RunsStayApart
  <2> SUFFICES ASSUME SystemInv PROVE RunsStayApart
    OBVIOUS
  <2>1. TasksFit /\ NoLeftoverProcess
    BY DEF SystemInv
  <2>2. UnclaimedNeverRuns
    BY <2>1 DEF TasksFit, Fit, UnclaimedNeverRuns
  <2> QED BY <2>1, <2>2 DEF RunsStayApart
<1> QED BY <1>1, SystemInvariance, PTL

\* runner.rs (`run', `record_exit') and task.rs (`apply_after_lock'): a worker
\* that claimed its task is the one that ends it, an exit that reached exit.json is recorded as it is, and the
\* yield file of a run exists only after a stop of that run was committed: the
\* property that the runs check, for any jobs, resources, crashes and attempts
THEOREM RunsEndAsReportedCorrect == SystemSpec => []RunsEndAsReported
<1>1. SystemInv => RunsEndAsReported
  <2> SUFFICES ASSUME SystemInv PROVE RunsEndAsReported
    OBVIOUS
  <2>1. StoreState /\ SystemTypes /\ ProcessTypes /\ TasksFit /\ YieldFileWasCommitted
    BY DEF SystemInv
  <2>2. TypeOK
    BY <2>1 DEF StoreState, StoreInv, Inv
  <2>3. SystemTypeOK
    BY <2>1, <2>2 DEF SystemTypes, ProcessTypes, SystemTypeOK
  <2>4. WorkerOwnsTask /\ ReportedExitCounts
    BY <2>1 DEF TasksFit, Fit, WorkerOwnsTask, ReportedExitCounts
  <2> QED BY <2>1, <2>3, <2>4 DEF RunsEndAsReported
<1> QED BY <1>1, SystemInvariance, PTL

=============================================================================

----------------------------- MODULE QueueStore -----------------------------
(***************************************************************************)
(* The store of one machine's resource queue (store/queue/*.rs).  Every    *)
(* operation is one BEGIN IMMEDIATE transaction, so it is one action.  The *)
(* callers (daemon, API, one worker process per run) are not modelled      *)
(* here: any operation may be called at any time, with any arguments its   *)
(* caller may hold.  A call the store refuses changes nothing and is       *)
(* therefore no step.  QueueSystem adds the callers.                       *)
(*                                                                         *)
(* A run task is identified by its job and run number: reserve_run makes a *)
(* fresh task id for every run number.  The attention id a release must    *)
(* name is fresh for every run that enters "attention", so the run's task  *)
(* stands for it.                                                          *)
(***************************************************************************)
EXTENDS QueueRules

CONSTANTS
    NoJob,      \* the job of an idle resource
    Submissions, \* the submit requests that may arrive: job and specification
    Movable,    \* bound: the jobs people move
    MaxRuns,    \* bound: run numbers (a u32 in the code)
    MaxAttempts, \* bound: cleanup attempts of one run (a u32 in the code)
    Reminders   \* whether a run may stay silent past its job's timeout

ASSUME StoreAssumption ==
    /\ NoJob \notin Jobs /\ Submissions \subseteq Jobs \X Specs
    /\ Movable \subseteq Jobs
    /\ MaxRuns \in Nat \ {0} /\ \A s \in Specs : s.limit <= MaxRuns
    /\ MaxAttempts \in Nat \ {0}
    /\ Reminders \in BOOLEAN

VARIABLES
    job,    \* resource_jobs: one row per job, kept after the job ends
    run,    \* resources.run_*: the single active run of each resource
    task,   \* tasks: the row of each run task
    events  \* resource_job_events: per job, in sequence order

storeVars == <<job, run, task, events>>

-----------------------------------------------------------------------------
Tasks == Jobs \X (1..MaxRuns)
NoTask == <<NoJob, 0>>

JobRow ==
    [ state : JobStates, spec : Specs, priority : Priorities,
      position : Nat,                        \* 0 is NULL
      resource : Resources \cup {NoResource},  \* active_resource
      step : Nat, resume : BOOLEAN, runs : 0..MaxRuns ]

RunRow ==
    [ phase : Phases, job : Jobs \cup {NoJob}, task : Tasks \cup {NoTask},
      step : Nat, resume : BOOLEAN,
      started : Nat,                         \* 0 is NULL; only compared
      cause : Causes \cup {NoCause}, attempt : Nat ]

TaskRow == [ status : TaskStatuses, cancel : BOOLEAN, due : BOOLEAN ]

EventKinds == {"succeeded", "failed", "cancelled", "preempted",
               "attention", "check_due"}

Event == [kind : EventKinds, run : 0..MaxRuns]

IdleRun ==
    [ phase |-> "idle", job |-> NoJob, task |-> NoTask, step |-> 0,
      resume |-> FALSE, started |-> 0, cause |-> NoCause, attempt |-> 0 ]

\* An absent job has no specification; any stands for none
NoSpec == CHOOSE s \in Specs : TRUE

AbsentJob ==
    [ state |-> "absent", spec |-> NoSpec, priority |-> NoSpec.priority,
      position |-> 0, resource |-> NoResource, step |-> 0, resume |-> FALSE,
      runs |-> 0 ]

AbsentTask ==
    [ status |-> "absent", cancel |-> FALSE, due |-> FALSE ]

Init ==
    /\ job = [j \in Jobs |-> AbsentJob]
    /\ run = [r \in Resources |-> IdleRun]
    /\ task = [t \in Tasks |-> AbsentTask]
    /\ events = [j \in Jobs |-> <<>>]

-----------------------------------------------------------------------------
(* Slots.  A level is the set of jobs of one priority that hold a          *)
(* position; rewriting a level gives its members 1..n in their order.      *)

level(jb, p) == {j \in Jobs : jb[j].position # 0 /\ jb[j].priority = p}

\* The place of k in the order of S
Place(jb, S, k) == Cardinality({i \in S : jb[i].position <= jb[k].position})

\* Drop j's slot and close the gap it left in its level
renumber_level(jb, j) ==
    LET rest == level(jb, jb[j].priority) \ {j}
    IN  [k \in Jobs |->
            IF k = j THEN [jb[k] EXCEPT !.position = 0]
            ELSE IF k \in rest
            THEN [jb[k] EXCEPT !.position = Place(jb, rest, k)]
            ELSE jb[k]]

\* Take j out of its level and insert it into level p behind index others
write_levels(jb, j, p, index) ==
    LET order    == level(jb, p) \ {j}
        previous == level(jb, jb[j].priority) \ {j}
    IN  [k \in Jobs |->
            IF k = j THEN [jb[k] EXCEPT !.priority = p, !.position = index + 1]
            ELSE IF k \in order
            THEN LET at == Place(jb, order, k)
                 IN  [jb[k] EXCEPT !.position =
                        IF at <= index THEN at ELSE at + 1]
            ELSE IF k \in previous
            THEN [jb[k] EXCEPT !.position = Place(jb, previous, k)]
            ELSE jb[k]]

append_job_event(ev, j, kind, n) ==
    [ev EXCEPT ![j] = Append(@, [kind |-> kind, run |-> n])]

\* Every job the store knows, and the run task of a resource
Known(j) == job[j].state # "absent"
RunOn(r, t) == run[r].phase # "idle" /\ run[r].task = t

-----------------------------------------------------------------------------
(* Requests of people and agents *)

submit_job(j, s) ==
    /\ job[j].state = "absent"      \* a retry returns the job as it is
    /\ job' = [job EXCEPT ![j] =
                [ state |-> "queued", spec |-> s, priority |-> s.priority,
                  position |-> Cardinality(level(job, s.priority)) + 1,
                  resource |-> NoResource, step |-> 0, resume |-> FALSE,
                  runs |-> 0 ]]
    /\ UNCHANGED <<run, task, events>>

\* Placement::Edge: the front or back of a level, its own by default
move_to_edge(j, p, front) ==
    /\ Known(j) /\ job[j].state \notin TerminalJob
    /\ job' = write_levels(job, j, p,
                IF front THEN 0 ELSE Cardinality(level(job, p) \ {j}))
    /\ UNCHANGED <<run, task, events>>

\* Placement::Relative: next to target, which may be expected at a level
move_next_to(j, target, before, expect) ==
    LET p     == job[target].priority
        order == level(job, p) \ {j}
        at    == Place(job, order, target)
    IN  /\ Known(j) /\ job[j].state \notin TerminalJob
        /\ target # j
        /\ Known(target) /\ job[target].state \notin TerminalJob
        /\ expect = p
        /\ job' = write_levels(job, j, p, IF before THEN at - 1 ELSE at)
        /\ UNCHANGED <<run, task, events>>

\* The run after a stop is requested; the guard is StopAllowed
StopAllowed(rec, cause) ==
    \/ rec.phase = "launching" /\ cause = "user_cancel"
    \/ rec.phase \in {"executing", "stopping"}

request_stop(rec, cause) ==
    [rec EXCEPT !.phase = "stopping",
                !.cause = Upgrade(StopCauseOf(rec), cause)]

cancel_queued_job(j) ==
    /\ job[j].state = "queued"
    /\ job' = renumber_level([job EXCEPT ![j].state = "cancelled",
                                         ![j].resume = FALSE], j)
    /\ events' = append_job_event(events, j, "cancelled", 0)
    /\ UNCHANGED <<run, task>>

cancel_active_job(j) ==
    /\ job[j].state = "active"
    /\ LET r == job[j].resource IN
        /\ StopAllowed(run[r], "user_cancel")
        /\ run' = [run EXCEPT ![r] = request_stop(@, "user_cancel")]
    /\ UNCHANGED <<job, task, events>>

cancel_job(j) == cancel_queued_job(j) \/ cancel_active_job(j)

release_resource_attention(r, attention) ==
    /\ run[r].phase = "attention" /\ run[r].task = attention
    /\ run' = [run EXCEPT ![r] = IdleRun]
    /\ UNCHANGED <<job, task, events>>

-----------------------------------------------------------------------------
(* The end of a run *)

\* Mutated form: an abandoned launch goes back as if its run had yielded
AfterRunResumesAbandoned(rec, move) ==
    LET Queued(step, resume, event) ==
            [state |-> "queued", step |-> step, resume |-> resume, event |-> event]
        Ended(state) ==
            [state |-> state, step |-> rec.step, resume |-> FALSE, event |-> state]
    IN  CASE move = "abandoned" -> Queued(rec.step, TRUE, "none")
          [] move = "next_step" -> Queued(rec.step + 1, FALSE, "none")
          [] move = "resume"    -> Queued(rec.step, TRUE, "preempted")
          [] move = "restart"   -> Queued(rec.step, FALSE, "preempted")
          [] move \in TerminalJob -> Ended(move)

\* Where a run's end leaves its job, and the event that records it
AfterRun(rec, move) ==
    LET Queued(step, resume, event) ==
            [state |-> "queued", step |-> step, resume |-> resume, event |-> event]
        Ended(state) ==
            [state |-> state, step |-> rec.step, resume |-> FALSE, event |-> state]
    IN  CASE move = "abandoned" -> Queued(rec.step, rec.resume, "none")
          [] move = "next_step" -> Queued(rec.step + 1, FALSE, "none")
          [] move = "resume"    -> Queued(rec.step, TRUE, "preempted")
          [] move = "restart"   -> Queued(rec.step, FALSE, "preempted")
          [] move \in TerminalJob -> Ended(move)

\* Mutated form: the resource is free again without a cleanup
FinishRunWithoutCleanup(jb, rn, r, move) ==
    LET j     == rn[r].job
        after == AfterRun(rn[r], move)
        moved == [jb EXCEPT ![j].state = after.state,
                            ![j].resource = NoResource,
                            ![j].step = after.step,
                            ![j].resume = after.resume]
    IN  /\ job' = IF after.state \in TerminalJob
                  THEN renumber_level(moved, j) ELSE moved
        /\ run' = [rn EXCEPT ![r] = IdleRun]
        /\ events' = IF after.event = "none" THEN events
                     ELSE append_job_event(events, j, after.event, rn[r].task[2])

\* Move the job, set the run cleaning and append the event, on the job and
\* run tables jb and rn of the open transaction
finish_run(jb, rn, r, move) ==
    LET j     == rn[r].job
        after == AfterRun(rn[r], move)
        moved == [jb EXCEPT ![j].state = after.state,
                            ![j].resource = NoResource,
                            ![j].step = after.step,
                            ![j].resume = after.resume]
    IN  /\ job' = IF after.state \in TerminalJob
                  THEN renumber_level(moved, j) ELSE moved
        /\ run' = [rn EXCEPT ![r] = [@ EXCEPT !.phase = "cleaning",
                                              !.started = 0,
                                              !.cause = NoCause,
                                              !.attempt = 1]]
        /\ events' = IF after.event = "none" THEN events
                     ELSE append_job_event(events, j, after.event, rn[r].task[2])

\* Commit the terminal state of run task t, which runs on r
commit_terminal(jb, rn, tk, r, t, from, end) ==
    LET class == classify(end, StopCauseOf(rn[r]), IsLast(jb[rn[r].job].spec, rn[r].step))
    IN  /\ tk[t].status = from
        /\ rn[r].task = t /\ HoldsJob(rn[r])
        /\ StatusMayMove(from, class.outcome)
        /\ task' = [tk EXCEPT ![t].status = class.outcome]
        /\ finish_run(jb, rn, r, class.move)

\* The worker's commit, and the daemon's from exit.json
commit_job_run_exit(r, t, from, end) ==
    /\ end # "lost"
    /\ commit_terminal(job, run, task, r, t, from, end)

commit_lost(r, t, from) == commit_terminal(job, run, task, r, t, from, "lost")

\* The actor gives up on a launch no worker claimed
abandon_launch(r, t) ==
    /\ RunOn(r, t) /\ run[r].phase = "launching"
    /\ task[t].status = "queued"
    /\ task' = [task EXCEPT ![t].status = "failed"]
    /\ finish_run(job, run, r, "abandoned")

\* Set the cancellation marker; a task no worker claimed ends at once
request_cancel_inner(rn, r, t) ==
    LET marked == [task EXCEPT ![t].cancel = TRUE]
    IN  IF task[t].status = "queued"
        THEN commit_terminal(job, rn, marked, r, t, "queued", "cancelled")
        ELSE task' = marked /\ run' = rn /\ UNCHANGED <<job, events>>

\* A person cancels the run task itself
request_cancel(r, t) ==
    /\ task[t].status \in {"queued", "running"}
    /\ RunOn(r, t)
    /\ StopAllowed(run[r], "user_cancel")
    /\ request_cancel_inner([run EXCEPT ![r] = request_stop(@, "user_cancel")], r, t)

\* The queue publishes the marker of a stop it committed
signal_committed_run_stop(r, t) ==
    /\ task[t].status \in {"queued", "running"}
    /\ RunOn(r, t)
    /\ StopCauseOf(run[r]) \in {"restart", "user_cancel"}
    /\ request_cancel_inner(run, r, t)

-----------------------------------------------------------------------------
(* Reservation, start, preemption, cleanup *)

ReservedJob(j, r) ==
    [job EXCEPT ![j].state = "active", ![j].resource = r,
                ![j].resume = FALSE, ![j].runs = @ + 1]

ReservedRun(j, r) ==
    [run EXCEPT ![r] =
        [IdleRun EXCEPT !.phase = "launching", !.job = j,
                        !.task = <<j, job[j].runs + 1>>,
                        !.step = job[j].step, !.resume = job[j].resume]]

ReservedTask(j) ==
    [task EXCEPT ![<<j, job[j].runs + 1>>] = [AbsentTask EXCEPT !.status = "queued"]]

\* Mutated form: a run of the job that is still cleaned up does not count
MayReserveEarly(j, r) ==
    /\ job[j].state = "queued"
    /\ run[r].phase = "idle"
    /\ Allows(job[j].spec.target, r)
    /\ job[j].step < job[j].spec.steps
    /\ job[j].runs < job[j].spec.limit

MayReserve(j, r) ==
    /\ job[j].state = "queued"
    /\ run[r].phase = "idle"
    /\ Allows(job[j].spec.target, r)
    /\ \A s \in Resources : run[s].job # j      \* no run_of_job, in any phase
    /\ job[j].step < job[j].spec.steps
    /\ job[j].runs < job[j].spec.limit

reserve_run(j, r) ==
    /\ MayReserve(j, r)
    /\ job' = ReservedJob(j, r)
    /\ run' = ReservedRun(j, r)
    /\ task' = ReservedTask(j)
    /\ UNCHANGED events

\* Reserve and fail a step whose executable is gone, in one transaction
fail_job_launch(j, r) ==
    /\ MayReserve(j, r)
    /\ commit_terminal(ReservedJob(j, r), ReservedRun(j, r), ReservedTask(j),
                       r, <<j, job[j].runs + 1>>, "queued", "other")

\* The worker claims its task: cas_status Queued -> Running
claim_task(t) ==
    /\ task[t].status = "queued"
    /\ task' = [task EXCEPT ![t].status = "running"]
    /\ UNCHANGED <<job, run, events>>

\* Later than every start still recorded
NextStart ==
    LET S == {run[r].started : r \in Resources} \cup {0}
    IN  1 + CHOOSE m \in S : \A n \in S : n <= m

\* The worker confirms that the child of its run started
mark_run_executing(r, t) ==
    /\ RunOn(r, t)
    /\ \/ /\ run[r].phase = "launching"
          /\ run' = [run EXCEPT ![r].phase = "executing", ![r].started = NextStart]
       \/ /\ run[r].phase = "stopping" /\ run[r].started = 0
          /\ run' = [run EXCEPT ![r].started = NextStart]
       \/ /\ \/ run[r].phase = "executing"
             \/ run[r].phase = "stopping" /\ run[r].started # 0
          /\ UNCHANGED run
    /\ UNCHANGED <<job, task, events>>

\* Decide again inside the transaction and commit only the same stop
commit_preemption(stop, young) ==
    /\ stop # NoStop
    /\ RunOn(stop.resource, stop.task)
    /\ run[stop.resource].phase # "stopping"   \* committed already: no change
    /\ decide(job, run, young).preemption = stop
    /\ StopAllowed(run[stop.resource], stop.cause)
    /\ run' = [run EXCEPT ![stop.resource] = request_stop(@, stop.cause)]
    /\ UNCHANGED <<job, task, events>>

begin_cleanup_attempt(r, t) ==
    /\ RunOn(r, t) /\ run[r].phase = "cleaning"
    /\ run[r].attempt < MaxAttempts
    /\ run' = [run EXCEPT ![r].attempt = @ + 1]
    /\ UNCHANGED <<job, task, events>>

apply_cleanup_result(r, t, attempt, ok) ==
    /\ RunOn(r, t) /\ run[r].phase = "cleaning" /\ run[r].attempt = attempt
    /\ IF ok
       THEN run' = [run EXCEPT ![r] = IdleRun] /\ UNCHANGED events
       ELSE /\ run' = [run EXCEPT ![r].phase = "attention", ![r].attempt = 0]
            /\ events' = append_job_event(events, run[r].job, "attention", t[2])
    /\ UNCHANGED <<job, task>>

\* Mutated form: a late timer does not look at the run's state
CheckDueLate(r, t) ==
    /\ RunOn(r, t) /\ ~task[t].due /\ Reminders
    /\ task' = [task EXCEPT ![t].due = TRUE]
    /\ events' = append_job_event(events, run[r].job, "check_due", t[2])
    /\ UNCHANGED <<job, run>>

\* One inactivity reminder per running run task
produce_job_check_due(r, t) ==
    /\ RunOn(r, t) /\ run[r].phase \in {"executing", "stopping"}
    /\ task[t].status = "running" /\ ~task[t].due /\ Reminders
    /\ task' = [task EXCEPT ![t].due = TRUE]
    /\ events' = append_job_event(events, run[r].job, "check_due", t[2])
    /\ UNCHANGED <<job, run>>

-----------------------------------------------------------------------------
(* Any caller, in any order.  The only contract: a start is confirmed by   *)
(* the worker that claimed the task.                                       *)

Requests ==
    \/ \E m \in Submissions : submit_job(m[1], m[2])
    \/ \E j \in Movable, p \in Priorities, front \in BOOLEAN : move_to_edge(j, p, front)
    \/ \E j \in Movable, k \in Jobs, before \in BOOLEAN, p \in Priorities :
            move_next_to(j, k, before, p)
    \/ \E j \in Jobs : cancel_job(j)
    \/ \E r \in Resources, t \in Tasks : release_resource_attention(r, t)
    \/ \E r \in Resources, t \in Tasks : request_cancel(r, t)

ActorCalls ==
    \/ \E j \in Jobs, r \in Resources : reserve_run(j, r)
    \/ \E j \in Jobs, r \in Resources : fail_job_launch(j, r)
    \/ \E r \in Resources, t \in Tasks : abandon_launch(r, t)
    \/ \E young \in SUBSET {r \in Resources : run[r].phase = "executing"} :
            commit_preemption(decide(job, run, young).preemption, young)
    \/ \E r \in Resources, t \in Tasks : signal_committed_run_stop(r, t)
    \/ \E r \in Resources, t \in Tasks : begin_cleanup_attempt(r, t)
    \/ \E r \in Resources, t \in Tasks, n \in 1..MaxAttempts, ok \in BOOLEAN :
            apply_cleanup_result(r, t, n, ok)
    \/ \E r \in Resources, t \in Tasks : produce_job_check_due(r, t)

WorkerCalls ==
    \/ \E t \in Tasks : claim_task(t)
    \/ \E r \in Resources, t \in Tasks :
            task[t].status = "running" /\ mark_run_executing(r, t)
    \/ \E r \in Resources, t \in Tasks, from \in {"queued", "running"},
          end \in RunEnds :
            commit_job_run_exit(r, t, from, end)
    \/ \E r \in Resources, t \in Tasks, from \in {"queued", "running"} :
            commit_lost(r, t, from)

Next == Requests \/ ActorCalls \/ WorkerCalls

Spec == Init /\ [][Next]_storeVars

-----------------------------------------------------------------------------
(* Properties *)

\* Every stored row has the shape the schema gives it
TypeOK ==
    /\ job \in [Jobs -> JobRow]
    /\ run \in [Resources -> RunRow]
    /\ task \in [Tasks -> TaskRow]
    /\ events \in [Jobs -> Seq(Event)]

\* store/queue.rs: "the job of an active run is `Active` exactly while the
\* run still executes it": a job is active on r if and only if r's run belongs
\* to it and is launching, executing or stopping
ActiveExactlyWhileHeld ==
    \A j \in Jobs, r \in Resources :
        (job[j].state = "active" /\ job[j].resource = r)
            <=> (run[r].job = j /\ HoldsJob(run[r]))

\* store/queue.rs: "one active run per resource and per job", cleaning and
\* attention included: a job never starts while a run of it is still cleaned up
OneRunPerJob ==
    \A r, s \in Resources :
        run[r].phase # "idle" /\ run[r].job = run[s].job => r = s

\* A run task is queued or running exactly while a resource holds it in an
\* executing phase: the terminal commit moves the task, the job and the run
\* together, and no launch leaves a live task without a resource
LiveTaskHasResource ==
    \A t \in Tasks :
        task[t].status \in {"queued", "running"}
            <=> \E r \in Resources : run[r].task = t /\ HoldsJob(run[r])

\* store/queue.rs: "every non-terminal job holds a slot that is unique and
\* dense within its level", whatever moves, cancels and endings came before
DenseSlots ==
    /\ \A j \in Jobs : job[j].position # 0 <=> job[j].state \in {"queued", "active"}
    /\ \A p \in Priorities :
            {job[j].position : j \in level(job, p)} = 1..Cardinality(level(job, p))

Successes(j) == {n \in 1..MaxRuns : task[<<j, n>>].status = "succeeded"}

\* queue/classify.rs: "successful work is not repeated", nor skipped: the
\* next step of a waiting or running job is the number of its successful
\* runs, and a job succeeds only with every step done exactly once
StepsCountSuccesses ==
    \A j \in Jobs :
        LET done == Cardinality(Successes(j)) IN
        CASE job[j].state = "succeeded" -> done = job[j].spec.steps
          [] job[j].state = "cancelled" -> done \in {job[j].step, job[j].step + 1}
          [] OTHER -> done = job[j].step /\ done < job[j].spec.steps

\* The event log of a job: exactly one terminal event, of the kind of the
\* job's final state, and only reports of a stuck cleanup after it
OneTerminalEvent ==
    \A j \in Jobs :
        LET ends == {n \in DOMAIN events[j] : events[j][n].kind \in TerminalJob} IN
        IF job[j].state \in TerminalJob
        THEN \E n \in ends :
                /\ ends = {n} /\ events[j][n].kind = job[j].state
                /\ \A m \in DOMAIN events[j] :
                        m > n => events[j][m].kind = "attention"
        ELSE ends = {}

\* At most one run is being stopped for preemption, although every stop is
\* decided on a snapshot that may be stale when it is committed
OnePreemption ==
    \A r, s \in Resources :
        /\ run[r].phase = "stopping" /\ run[r].cause \in {"yield", "restart"}
        /\ run[s].phase = "stopping" /\ run[s].cause \in {"yield", "restart"}
        => r = s

\* A run resumes from a checkpoint only if the last run of its job that got
\* past its launch was preempted: neither a failed step nor a finished one
\* hands a stale checkpoint to the next run
ResumeOnlyAfterPreemption ==
    \A j \in Jobs :
        LET Past(n) == task[<<j, n>>].status \notin {"absent", "queued", "running", "failed"}
            resuming == \/ job[j].resume
                        \/ \E r \in Resources : run[r].job = j /\ run[r].resume
                                                /\ HoldsJob(run[r])
        IN  resuming =>
                \E n \in 1..MaxRuns :
                    /\ task[<<j, n>>].status = "preempted"
                    /\ \A m \in (n + 1)..MaxRuns : ~Past(m)

\* A committed stop stays until the run ends and its cause only grows, so a
\* person's cancel is never downgraded to a preemption that requeues the job
StopOnlyEscalates ==
    [][\A r \in Resources : run[r].phase = "stopping" =>
          \/ run'[r].phase = "cleaning" /\ run'[r].task = run[r].task
          \/ /\ run'[r].phase = "stopping" /\ run'[r].task = run[r].task
             /\ CauseRank(run'[r].cause) >= CauseRank(run[r].cause)]_storeVars

\* docs/resource-queue.md: a run is preempted only for a job of a strictly
\* higher level.  It holds for the queue at the commit, not at the decision:
\* some startable job of a higher level may use the resource
PreemptOnlyForHigherLevel ==
    [][\A r \in Resources :
          run[r].phase = "executing" /\ run'[r].phase = "stopping"
            /\ run'[r].cause \in {"yield", "restart"} =>
          \E w \in Jobs :
             /\ startable(job, run, w)
             /\ job[w].priority > job[run[r].job].priority
             /\ Allows(job[w].spec.target, r)]_storeVars

\* The contract the store implements: job states and steps as they are, and
\* a resource that works, settles (cleaning or attention) or is free
LaneUse(r) ==
    [ use |-> IF run[r].phase = "idle" THEN "free"
              ELSE IF HoldsJob(run[r]) THEN "work" ELSE "settle",
      job |-> run[r].job ]

Contract == INSTANCE JobContract WITH
    life <- [j \in Jobs |-> job[j].state],
    done <- [j \in Jobs |-> job[j].step],
    lane <- [r \in Resources |-> LaneUse(r)]

\* Every behaviour of the store is a behaviour of JobContract: a resource is
\* handed on only after cleanup or release, a job runs one step at a time on
\* one resource and ends once
ContractSpec == Contract!Spec

\* A job, its run and its run task agree: one resource, one run, one live task
RunsAreHeld ==
    TypeOK /\ ActiveExactlyWhileHeld /\ OneRunPerJob /\ LiveTaskHasResource

\* No step is done twice or skipped, nor fed another run's checkpoint
WorkIsNotRepeated == StepsCountSuccesses /\ ResumeOnlyAfterPreemption

\* A job ends once: after every step its log has one terminal event or none,
\* and a job that ended keeps its whole row: no late exit, timer, delayed
\* submit, move or cancel changes or recreates it
EndsOnce ==
    [][ /\ OneTerminalEvent'
        /\ \A j \in Jobs : job[j].state \in TerminalJob => job'[j] = job[j] ]_storeVars

\* The queue is an order of its jobs, and one run at most makes room in it
QueueIsOrdered == DenseSlots /\ OnePreemption

\* A stop has a cause that held when it was committed, and keeps it
StopsAreJustified == PreemptOnlyForHigherLevel /\ StopOnlyEscalates

=============================================================================

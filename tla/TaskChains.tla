----------------------------- MODULE TaskChains -----------------------------
(***************************************************************************)
(* Local tasks from submit to ending: admission by dependencies, held routes,*)
(* their release through the supervisor's mailbox, reports, agent runs that  *)
(* park on other tasks and continue in a chain of runs, and cancellation of  *)
(* whichever run owns the work.                                              *)
(*                                                                          *)
(* A request is the task id of its first attempt.  A Codex thread is the id  *)
(* of the run that created it.  Callers time out, their launches stay in the *)
(* mailbox, and the daemon restarts.                                         *)
(***************************************************************************)
EXTENDS Naturals, FiniteSets, Sequences, SequencesExt

CONSTANTS
    MaxTasks,       \* bound on task ids
    MaxSubmits,     \* bound on the ids given out to submits; parked runs take the others
    MaxRuns,        \* MAX_CHAIN_RUNS
    MaxAfter,       \* MAX_DEPENDENCIES
    MaxTargets,     \* MAX_WAIT_TARGETS
    MaxCancels,     \* bound on `task cancel` calls
    MaxTaskFaults   \* bound on timeouts, lost runners and daemon restarts

ASSUME ChainAssumption ==
    MaxTasks \in Nat \ {0} /\ MaxSubmits \in Nat /\ MaxRuns \in Nat \ {0}
    /\ MaxAfter \in Nat /\ MaxTargets \in Nat
    /\ MaxCancels \in Nat /\ MaxTaskFaults \in Nat

VARIABLES
    body,       \* what a submit asks for, by task
    fresh,      \* task ids given out
    route,      \* submission state of the origin route
    row,        \* process status of the task row
    stopping,   \* live tasks with cancel_requested_at
    report,     \* targets of a live task's last report, if it is a waiting one
    thread,     \* worker_thread saved with a run's ending
    ending,     \* terminal event that the origin has not accepted yet
    outcome,    \* outcome saved on the origin route
    chainOf,    \* chain of a run, 0 outside a chain
    chain,      \* task_chains, by the first run
    mailbox,    \* launches in the supervisor's mailbox
    launching,  \* the launch whose row is committed and whose worker is next
    canceller,  \* the `task cancel` in progress
    cancels,    \* cancel calls so far
    answered,   \* history: tasks whose cancel was answered, with what it found
    taskFaults

taskVars == <<body, fresh, route, row, stopping, report, thread, ending, outcome,
              chainOf, chain, mailbox, launching, canceller, cancels, answered, taskFaults>>

Tasks == 1 .. MaxTasks
Live == {"queued", "running"}
Ended == {"succeeded", "failed", "cancelled", "lost"}
NoBody == [after |-> {}, rule |-> "succeeded", resume |-> 0, request |-> 0]
NoChain == [state |-> "none", current |-> 0, on |-> {}, next |-> 0, runs |-> 0, outcome |-> "none"]
NoCancel == [phase |-> "none", task |-> 0, current |-> 0, chained |-> FALSE, tries |-> 0]

TaskTypeOK ==
    /\ body \in [Tasks -> [after: SUBSET Tasks, rule: {"succeeded", "ended"}, resume: 0 .. MaxTasks, request: 0 .. MaxTasks]]
    /\ fresh \in 0 .. MaxTasks
    /\ route \in [Tasks -> {"none", "held", "accepted", "cancelled", "rejected"}]
    /\ row \in [Tasks -> {"none"} \cup Live \cup Ended]
    /\ stopping \subseteq Tasks
    /\ report \in [Tasks -> SUBSET Tasks]
    /\ thread \in [Tasks -> 0 .. MaxTasks]
    /\ ending \in [Tasks -> {"none", "waiting"} \cup Ended]
    /\ outcome \in [Tasks -> {"none"} \cup Ended]
    /\ chainOf \in [Tasks -> 0 .. MaxTasks]
    /\ chain \in [Tasks -> [state: {"none", "running", "waiting", "ended"},
                            current: 0 .. MaxTasks, on: SUBSET Tasks, next: 0 .. MaxTasks,
                            runs: 0 .. MaxRuns, outcome: {"none"} \cup Ended]]
    /\ \A i \in DOMAIN mailbox : mailbox[i] \in [task: Tasks, released: BOOLEAN, live: BOOLEAN]
    /\ launching \in 0 .. MaxTasks
    /\ cancels \in 0 .. MaxCancels /\ taskFaults \in 0 .. MaxTaskFaults

\* Task 1 is a command that succeeded earlier.
TaskInit ==
    /\ body = [t \in Tasks |-> IF t = 1 THEN [NoBody EXCEPT !.request = 1] ELSE NoBody]
    /\ fresh = 1
    /\ route = [t \in Tasks |-> IF t = 1 THEN "accepted" ELSE "none"]
    /\ row = [t \in Tasks |-> IF t = 1 THEN "succeeded" ELSE "none"]
    /\ outcome = [t \in Tasks |-> IF t = 1 THEN "succeeded" ELSE "none"]
    /\ stopping = {}
    /\ report = [t \in Tasks |-> {}] /\ thread = [t \in Tasks |-> 0]
    /\ ending = [t \in Tasks |-> "none"]
    /\ chainOf = [t \in Tasks |-> 0] /\ chain = [t \in Tasks |-> NoChain]
    /\ mailbox = <<>> /\ launching = 0
    /\ canceller = NoCancel /\ cancels = 0 /\ answered = {} /\ taskFaults = 0

-----------------------------------------------------------------------------
(* What the rows say: dependencies, chains and the wait graph.              *)

\* A run of a chain ends with the whole chain, even after it parked.
dependency_state(t) ==
    IF chainOf[t] # 0
    THEN IF chain[chainOf[t]].state = "ended" THEN chain[chainOf[t]].outcome ELSE "pending"
    ELSE IF outcome[t] # "none" THEN outcome[t]
    ELSE IF row[t] \in Ended /\ ending[t] = "none" THEN "unknown"
    ELSE "pending"

decide(after, rule) ==
    IF rule = "succeeded" /\ \E d \in after : dependency_state(d) \notin {"pending", "succeeded"}
    THEN "cancel"
    ELSE IF \E d \in after : dependency_state(d) = "pending" THEN "wait"
    ELSE "release"

chain_current_run(t) ==
    IF chainOf[t] = 0 THEN 0
    ELSE LET c == chain[chainOf[t]] IN
         CASE c.state = "running" -> c.current
           [] c.state = "waiting" -> c.next
           [] OTHER -> 0

node_on(t) == IF chainOf[t] # 0 THEN chainOf[t] ELSE t
held_after_on(t) == IF route[t] = "held" THEN body[t].after ELSE {}
pending_wait_on(t) == IF row[t] \in Live THEN report[t] ELSE {}

waits_of_on(n) ==
    LET own(t) == held_after_on(t) \cup pending_wait_on(t) IN
    CASE chain[n].state = "none"    -> own(n)
      [] chain[n].state = "waiting" -> chain[n].on
      [] chain[n].state = "running" -> own(chain[n].current)
      [] OTHER                      -> {}

\* The nodes that a set of tasks waits on, directly or through others.
NodesOf(tasks) == {node_on(t) : t \in tasks}
ReachedFrom(tasks) ==
    LET reach[k \in 0 .. MaxTasks] ==
            IF k = 0 THEN NodesOf(tasks)
            ELSE reach[k - 1] \cup NodesOf(UNION {waits_of_on(n) : n \in reach[k - 1]})
    IN reach[MaxTasks]

\* Mutated form: of all that a node waits on, one is followed.
LeadsBackAlongOne(worker, target) ==
    LET walk[k \in 0 .. MaxTasks] ==
            IF k = 0 THEN node_on(target)
            ELSE IF waits_of_on(walk[k - 1]) = {} THEN walk[k - 1]
            ELSE node_on(CHOOSE d \in waits_of_on(walk[k - 1]) : TRUE)
    IN \E k \in 0 .. MaxTasks : walk[k] = worker

leads_back_on(worker, target) == worker \in ReachedFrom({target})

\* Mutated form: a parked chain does not reserve its thread.
ReservedByNobody(t, th) == FALSE

\* A held continuation other than `t` that will resume the Codex thread.
thread_reserved_by_on(t, th) ==
    \E c \in Tasks : /\ chain[c].state = "waiting" /\ chain[c].next # t
                     /\ route[chain[c].next] = "held"
                     /\ body[chain[c].next].resume = th
reject_busy_resume_thread_on(t) ==
    LET th == body[t].resume IN
    /\ th # 0
    /\ \/ \E u \in Tasks : row[u] \in Live /\ body[u].resume = th
       \/ thread_reserved_by_on(t, th)

Locked(r) == \E i \in DOMAIN mailbox : mailbox[i].live /\ body[mailbox[i].task].request = r
Saved(r) == {t \in Tasks : route[t] # "none" /\ body[t].request = r}

-----------------------------------------------------------------------------
(* Submit and release.                                                      *)

TasksRest == <<stopping, report, thread, ending, outcome, chainOf, chain, launching,
               canceller, cancels, answered, taskFaults>>

Enqueue(t, released) ==
    mailbox' = Append(mailbox, [task |-> t, released |-> released, live |-> TRUE])

\* A new id for a body: held while a dependency is pending, refused when one
\* failed, and otherwise handed to the supervisor.
admit_or_hold(b) ==
    LET t == fresh + 1
        decision == decide(b.after, "succeeded")
    IN /\ fresh < MaxTasks /\ Cardinality({u \in 1 .. fresh : body[u].rule = "succeeded"}) < MaxSubmits
       /\ decision # "cancel"
       /\ fresh' = t
       /\ body' = [body EXCEPT ![t] = [b EXCEPT !.request = IF @ = 0 THEN t ELSE @]]
       /\ \/ /\ decision = "wait"
             /\ route' = [route EXCEPT ![t] = "held"] /\ UNCHANGED mailbox
          \/ /\ decision = "release"
             /\ Enqueue(t, FALSE) /\ UNCHANGED route
       /\ UNCHANGED <<row, TasksRest>>

\* A person or agent submits.  The Codex thread they resume may be any: that of a
\* run which ended or still works in it, and 1 is one that no run created.
Submit ==
    \E after \in SUBSET (1 .. fresh), resume \in 0 .. fresh :
        /\ Cardinality(after) <= MaxAfter
        /\ \A d \in after : route[d] # "none"
        /\ admit_or_hold([after |-> after, rule |-> "succeeded",
                          resume |-> resume, request |-> 0])

\* A saved row whose launch stopped short of its worker gets one, unless the spawn
\* fails and ends it.  The supervisor does one thing at a time.
resume_local(t) ==
    /\ launching = 0
    /\ \/ row' = [row EXCEPT ![t] = IF @ = "queued" THEN "running" ELSE @] /\ UNCHANGED ending
       \/ /\ row[t] = "queued"
          /\ row' = [row EXCEPT ![t] = "failed"]
          /\ ending' = [ending EXCEPT ![t] = "failed"]

\* A caller repeats a request whose earlier answer it did not get.  The saved
\* route answers it; without one the launch is tried under a new id.
Resubmit(t) ==
    /\ t <= fresh /\ body[t].request = t /\ body[t].rule = "succeeded"
    /\ ~Locked(t)
    /\ \/ /\ Saved(t) = {} /\ admit_or_hold(body[t])
       \/ \E saved \in Saved(t) :
             /\ route[saved] = "accepted" /\ row[saved] = "queued" /\ resume_local(saved)
             /\ UNCHANGED <<body, fresh, route, stopping, report, thread, outcome, chainOf, chain,
                            mailbox, launching, canceller, cancels, answered, taskFaults>>

\* An unlaunched route ends: its event, its outcome and its chain at once.
Owner(t) == chain_current_run(t) = t
end_chain_on(t, result) ==
    chain' = IF Owner(t)
             THEN [chain EXCEPT ![chainOf[t]] = [NoChain EXCEPT !.state = "ended", !.runs = chain[chainOf[t]].runs,
                                                           !.outcome = result]]
             ELSE chain
EndUnlaunched(t, submission, result) ==
    /\ route' = [route EXCEPT ![t] = submission]
    /\ outcome' = [outcome EXCEPT ![t] = IF @ = "none" THEN result ELSE @]
    /\ end_chain_on(t, result)

cancel_held_route(t) == route[t] = "held" /\ EndUnlaunched(t, "cancelled", "cancelled")

\* The release loop: a failed dependency cancels a held route under its lock.
SettleCancel(t) ==
    /\ route[t] = "held" /\ decide(body[t].after, body[t].rule) = "cancel"
    /\ ~Locked(body[t].request)
    /\ cancel_held_route(t)
    /\ UNCHANGED <<body, fresh, row, stopping, report, thread, ending, chainOf, mailbox,
                   launching, canceller, cancels, answered, taskFaults>>

\* The release loop: a ready route is handed to the supervisor.
SettleRelease(t) ==
    /\ route[t] = "held" /\ decide(body[t].after, body[t].rule) = "release"
    /\ ~Locked(body[t].request)
    /\ Enqueue(t, TRUE)
    /\ UNCHANGED <<body, fresh, route, row, TasksRest>>

\* The release loop: a released row that has no worker yet.
retry_resume(t) ==
    /\ row[t] = "queued" /\ body[t].after # {} /\ resume_local(t)
    /\ UNCHANGED <<body, fresh, route, stopping, report, thread, outcome, chainOf, chain, mailbox,
                   launching, canceller, cancels, answered, taskFaults>>

\* The program or the directory of a ready route is gone.
refuse_held_launch(t) ==
    /\ route[t] = "held" /\ decide(body[t].after, body[t].rule) = "release"
    /\ ~Locked(body[t].request)
    /\ EndUnlaunched(t, "rejected", "failed")
    /\ UNCHANGED <<body, fresh, row, stopping, report, thread, ending, chainOf, mailbox,
                   launching, canceller, cancels, answered, taskFaults>>

-----------------------------------------------------------------------------
(* The supervisor.                                                          *)

\* Mutated form: a release does not look at the route's submission again.
AdmitsAnyRelease(m) ==
    /\ ~reject_busy_resume_thread_on(m.task)
    /\ row[m.task] = "none"

\* A submission needs a request without a route, a release a route still held.
Admits(m) ==
    /\ ~reject_busy_resume_thread_on(m.task)
    /\ IF m.released THEN route[m.task] = "held" ELSE Saved(body[m.task].request) = {}

start_continuation_on(t) ==
    chain' = IF chainOf[t] # 0 /\ chain[chainOf[t]].state = "waiting" /\ chain[chainOf[t]].next = t
             THEN [chain EXCEPT ![chainOf[t]] = [NoChain EXCEPT !.state = "running", !.current = t,
                                                           !.runs = chain[chainOf[t]].runs]]
             ELSE chain

\* The launch at the head of the mailbox: the row and its route commit, or the
\* store refuses them and nothing changes.  The supervisor may have stopped waiting
\* for an insert that commits, and then leaves the row without a worker.
launch ==
    /\ mailbox # <<>> /\ launching = 0
    /\ LET m == Head(mailbox) IN
       \/ /\ m.released /\ row[m.task] # "none"
          /\ resume_local(m.task)
          /\ UNCHANGED <<route, chain, launching, taskFaults>>
       \/ /\ ~(m.released /\ row[m.task] # "none") /\ Admits(m)
          /\ row' = [row EXCEPT ![m.task] = "queued"]
          /\ route' = [route EXCEPT ![m.task] = "accepted"]
          /\ start_continuation_on(m.task)
          /\ \/ launching' = m.task /\ UNCHANGED taskFaults
             \/ taskFaults < MaxTaskFaults /\ taskFaults' = taskFaults + 1 /\ UNCHANGED launching
          /\ UNCHANGED ending
       \/ /\ ~(m.released /\ row[m.task] # "none") /\ ~Admits(m)
          /\ UNCHANGED <<route, row, ending, chain, launching, taskFaults>>
    /\ mailbox' = Tail(mailbox)
    /\ UNCHANGED <<body, fresh, stopping, report, thread, outcome, chainOf, canceller,
                   cancels, answered>>

\* The worker of the committed row claims it, unless a cancel ended it first, or
\* the spawn fails and ends the queued row.
spawn_task_run ==
    /\ launching # 0 /\ launching' = 0
    /\ \/ /\ row' = [row EXCEPT ![launching] = IF @ = "queued" THEN "running" ELSE @]
          /\ UNCHANGED ending
       \/ /\ row[launching] = "queued"
          /\ row' = [row EXCEPT ![launching] = "failed"]
          /\ ending' = [ending EXCEPT ![launching] = "failed"]
    /\ UNCHANGED <<body, fresh, route, stopping, report, thread, outcome, chainOf, chain, mailbox,
                   canceller, cancels, answered, taskFaults>>

\* A caller stops waiting; its launch stays in the mailbox and its lock is free.
CallerTimeout(i) ==
    /\ taskFaults < MaxTaskFaults /\ mailbox[i].live
    /\ mailbox' = [mailbox EXCEPT ![i].live = FALSE]
    /\ taskFaults' = taskFaults + 1
    /\ UNCHANGED <<body, fresh, route, row, stopping, report, thread, ending, outcome,
                   chainOf, chain, launching, canceller, cancels, answered>>

\* The daemon restarts: mailboxes and calls are gone.  A queued row without a
\* worker is launched when its origin released it, and is lost otherwise.
Recover ==
    LET queued == {t \in Tasks : row[t] = "queued"}
        lost == {t \in queued : body[t].after = {}}
    IN /\ taskFaults < MaxTaskFaults /\ taskFaults' = taskFaults + 1
       /\ mailbox' = <<>> /\ launching' = 0 /\ canceller' = NoCancel
       /\ row' = [t \in Tasks |-> IF t \in lost THEN "lost"
                                  ELSE IF t \in queued THEN "running"
                                  ELSE row[t]]
       /\ ending' = [t \in Tasks |-> IF t \in lost THEN "lost" ELSE ending[t]]
       /\ UNCHANGED <<body, fresh, route, stopping, report, thread, outcome, chainOf, chain,
                      cancels, answered>>

-----------------------------------------------------------------------------
(* The worker.                                                              *)

WorkerRest == <<body, fresh, route, outcome, mailbox, launching, canceller, cancels, answered>>

\* A waiting report is refused when it could not park or would close a cycle.
check_waiting_on(t, on) ==
    /\ chainOf[t] # 0 => chain[chainOf[t]].runs < MaxRuns
    /\ MaxRuns > 1
    /\ t \notin on /\ \A d \in on : route[d] # "none"
    /\ \A d \in on : ~leads_back_on(node_on(t), d)

\* Only the last report counts: a waiting one names its targets, any other
\* withdraws them.
append_report(t) ==
    /\ row[t] = "running"
    /\ \E on \in SUBSET (1 .. fresh) :
          /\ Cardinality(on) <= MaxTargets /\ on # report[t]
          /\ on # {} => check_waiting_on(t, on)
          /\ report' = [report EXCEPT ![t] = on]
    /\ UNCHANGED <<row, stopping, thread, ending, chainOf, chain, taskFaults, WorkerRest>>

\* An exit 0 without a waiting report is a success, reported or needing none; a
\* failed or blocked report ends like exit 1.
classify_exit(t, process) ==
    IF process \in {"cancelled", "lost"} THEN process
    ELSE IF report[t] # {} /\ t \in stopping THEN "cancelled"
    ELSE IF process # "exit_0" THEN "failed"
    ELSE IF report[t] # {} THEN "waiting"
    ELSE "succeeded"

\* The run parks: its chain waits, and its continuation is held until every
\* target ends.  A known Codex thread is resumed by the continuation.
park_on(t, th) ==
    LET c == IF chainOf[t] # 0 THEN chainOf[t] ELSE t
        next == fresh + 1
    IN /\ fresh < MaxTasks
       /\ fresh' = next
       /\ body' = [body EXCEPT ![next] =
             [after |-> report[t], rule |-> "ended",
              resume |-> IF th # 0 THEN th ELSE body[t].resume, request |-> next]]
       /\ route' = [route EXCEPT ![next] = "held"]
       /\ chainOf' = [chainOf EXCEPT ![t] = c, ![next] = c]
       /\ chain' = [chain EXCEPT ![c] =
             [state |-> "waiting", current |-> t, on |-> report[t], next |-> next,
              runs |-> IF chainOf[t] # 0 THEN @.runs + 1 ELSE 2, outcome |-> "none"]]

\* The exit transaction: row, worker thread, parking and terminal event.
Exit(t, process) ==
    LET class == classify_exit(t, process) IN
    /\ row[t] = "running"
    /\ process = "cancelled" => t \in stopping
    /\ \E th \in IF body[t].resume # 0 THEN {body[t].resume} ELSE {0, t} :
          /\ thread' = [thread EXCEPT ![t] = th]
          /\ IF class = "waiting" THEN park_on(t, th)
             ELSE UNCHANGED <<fresh, body, route, chainOf, chain>>
    /\ row' = [row EXCEPT ![t] = CASE process = "exit_0" -> "succeeded"
                                   [] process = "exit_1" -> "failed"
                                   [] OTHER -> process]
    /\ ending' = [ending EXCEPT ![t] = class]
    /\ taskFaults' = IF process = "lost" THEN taskFaults + 1 ELSE taskFaults
    /\ taskFaults' <= MaxTaskFaults
    /\ report' = [report EXCEPT ![t] = {}]
    /\ stopping' = stopping \ {t}
    /\ UNCHANGED <<outcome, mailbox, launching, canceller, cancels,
                   answered>>

\* The origin saves the outcome that a terminal event names; TASK_WAITING names
\* none.  The chain whose work the task owns ends with it.
record_outcome_on(t) ==
    IF ending[t] = "waiting" THEN UNCHANGED <<outcome, chain>>
    ELSE /\ outcome' = [outcome EXCEPT ![t] = IF @ = "none" THEN ending[t] ELSE @]
         /\ end_chain_on(t, ending[t])

accept_event(t) ==
    /\ ending[t] # "none"
    /\ record_outcome_on(t)
    /\ ending' = [ending EXCEPT ![t] = "none"]
    /\ UNCHANGED <<body, fresh, route, row, stopping, report, thread, chainOf, mailbox,
                   launching, canceller, cancels, answered, taskFaults>>

-----------------------------------------------------------------------------
(* `task cancel`.                                                           *)

CancelRest == <<body, fresh, report, thread, chainOf, mailbox, launching, cancels,
                taskFaults>>

CancelStart ==
    \E t \in 1 .. fresh :
        /\ canceller.phase = "none" /\ cancels < MaxCancels
        /\ route[t] # "none"
        /\ canceller' = [NoCancel EXCEPT !.phase = "chain", !.task = t]
        /\ cancels' = cancels + 1
        /\ UNCHANGED <<body, fresh, route, row, stopping, report, thread, ending, outcome,
                       chainOf, chain, mailbox, launching, answered, taskFaults>>

Answer ==
    /\ answered' = answered \cup {[task |-> canceller.task, chained |-> canceller.chained]}
    /\ canceller' = NoCancel

\* The run that owns the work of the chain, if the task is in a live chain.
CancelReadsChain ==
    LET current == chain_current_run(canceller.task) IN
    /\ canceller.phase = "chain" /\ canceller.tries <= MaxRuns
    /\ canceller' = IF current = 0
                    THEN [canceller EXCEPT !.phase = "held", !.current = canceller.task]
                    ELSE [canceller EXCEPT !.phase = "held", !.current = current,
                                           !.chained = TRUE, !.tries = @ + 1]
    /\ UNCHANGED <<route, row, stopping, ending, outcome, chain, answered, CancelRest>>

\* A held route is cancelled under its request's lock.
CancelHeld ==
    LET t == canceller.current IN
    /\ canceller.phase = "held"
    /\ \/ /\ route[t] = "held" /\ ~Locked(body[t].request)
          /\ cancel_held_route(t) /\ Answer
       \/ /\ route[t] = "cancelled" /\ Answer
          /\ UNCHANGED <<route, outcome, chain>>
       \/ /\ route[t] \notin {"held", "cancelled"}
          /\ canceller' = [canceller EXCEPT !.phase = "row"]
          /\ UNCHANGED <<route, outcome, chain, answered>>
    /\ UNCHANGED <<row, stopping, ending, CancelRest>>

\* A launched run is stopped: a queued one at once, a running one by its worker.
\* A run that had ended answers only if it still owns the work.
CancelRow ==
    LET t == canceller.current IN
    /\ canceller.phase = "row"
    /\ stopping' = IF row[t] = "running" THEN stopping \cup {t} ELSE stopping
    /\ row' = IF row[t] = "queued" THEN [row EXCEPT ![t] = "cancelled"] ELSE row
    /\ ending' = IF row[t] = "queued" THEN [ending EXCEPT ![t] = "cancelled"] ELSE ending
    /\ IF canceller.chained /\ row[t] \in Ended
       THEN canceller' = [canceller EXCEPT !.phase = "again"] /\ UNCHANGED answered
       ELSE Answer
    /\ UNCHANGED <<route, outcome, chain, CancelRest>>

CancelReadsAgain ==
    /\ canceller.phase = "again"
    /\ IF chain_current_run(canceller.task) = canceller.current THEN Answer
       ELSE canceller' = [canceller EXCEPT !.phase = "chain"] /\ UNCHANGED answered
    /\ UNCHANGED <<route, row, stopping, ending, outcome, chain, CancelRest>>

Daemon ==
    \/ \E t \in Tasks : SettleCancel(t) \/ SettleRelease(t) \/ retry_resume(t) \/ accept_event(t)
    \/ launch \/ spawn_task_run

TaskNext ==
    \/ Daemon
    \/ Submit
    \/ \E t \in Tasks : Resubmit(t) \/ refuse_held_launch(t) \/ append_report(t)
    \/ \E t \in Tasks, process \in {"exit_0", "exit_1", "cancelled", "lost"} : Exit(t, process)
    \/ \E i \in DOMAIN mailbox : CallerTimeout(i)
    \/ Recover
    \/ CancelStart \/ CancelReadsChain \/ CancelHeld \/ CancelRow \/ CancelReadsAgain

TaskSpec == TaskInit /\ [][TaskNext]_taskVars

-----------------------------------------------------------------------------
(* Properties.                                                              *)

\* Nobody waits for itself: over `after` lists, waiting reports of running
\* workers and parked chains, the graph that check_waiting_on searches has no
\* cycle, so no set of tasks waits on each other for ever.
WaitGraphAcyclic ==
    \A n \in Tasks : node_on(n) = n => n \notin ReachedFrom(waits_of_on(n))

\* A request has at most one task row, and a held route either launched or
\* ended before launch, never both, whatever timed-out launches were still in
\* the supervisor's mailbox.
LaunchedOnceOrNever ==
    /\ \A t \in Tasks : route[t] \in {"held", "cancelled", "rejected"} => row[t] = "none"
    /\ \A t, u \in Tasks : row[t] # "none" /\ row[u] # "none" /\ body[t].request = body[u].request
                            => t = u

\* A task held `after` others runs only when the whole chain of each one ended
\* in success, and a continuation only when each target's chain ended.
ReleasedAfterChains ==
    \A t \in Tasks : row[t] # "none" =>
        \A d \in body[t].after :
            /\ dependency_state(d) \in Ended
            /\ chainOf[d] # 0 => chain[chainOf[d]].state = "ended"
            /\ body[t].rule = "succeeded" => dependency_state(d) = "succeeded"

\* A Codex thread is resumed by one live task at a time, and none resumes a thread
\* that a chain resumed before it parked and will resume again.  (A thread that the
\* parked run created is not its own yet: a task submitted to resume it while that
\* run worked may still be live.)
OneResumerPerThread ==
    \A t \in Tasks : row[t] \in Live /\ body[t].resume # 0 =>
        /\ \A u \in Tasks \ {t} : ~(row[u] \in Live /\ body[u].resume = body[t].resume)
        /\ \A c \in Tasks : chain[c].state = "waiting" /\ body[chain[c].current].resume # 0 =>
              body[chain[c].next].resume # body[t].resume

\* The work of a task is over or being stopped.
Stopped(t) ==
    LET owner == IF chainOf[t] = 0 THEN t ELSE chain_current_run(t) IN
    \/ owner = 0
    \/ owner \in stopping
    \/ row[owner] \in Ended \/ route[owner] \in {"cancelled", "rejected"}

\* A `task cancel` that found a chain stops the run that owns the work when it
\* answers, even if the chain launched or parked again meanwhile.
ChainCancelReachesOwner == \A a \in answered : a.chained => Stopped(a.task)

\* The same of every answered cancel, as README.md:663 promises of a cancel "on
\* any run".  A run that parks for the first time between the look at its chain
\* and the look at its row slips through.
CancelReachesOwner == \A a \in answered : Stopped(a.task)

\* What is held launches once or never, and not before those it waits for.
LaunchesInOrder == TaskTypeOK /\ LaunchedOnceOrNever /\ ReleasedAfterChains

\* A thread has one owner at a time, and a cancel of a chain finds it.
OneOwner == OneResumerPerThread /\ ChainCancelReachesOwner

=============================================================================

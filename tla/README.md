# Formal models of homebased

homebased runs agent and command tasks on a set of machines.  Each machine has
one daemon with one SQLite store; a worker process runs each task; machines
forward submissions, cancels and events to each other.  This directory holds
TLA+ models of that system, TLC configurations that check them on small
instances, and TLAPS proofs for instances of any size.  Paths below are
relative to the repository's `src/`.

## Inventory

| Component | State it keeps | Operations | Hard part | What makes it correct |
|---|---|---|---|---|
| Queue rules (`queue.rs`, `queue/classify.rs`, `queue/schedule.rs`) | none | classify the end of a run; decide launches and one preemption | ties, windows, pinned jobs | serving order is kept; the stop is the cheapest one for the first job that can have one |
| Queue store (`store/queue/*`) | tables `resources`, `resource_jobs`, `resource_job_events`, `tasks`, operation records | submit, move, cancel, release, reserve, confirm, stop, commit an end, abandon, clean up, remind | callers hold stale snapshots; a call may come late or twice | job, run and task rows move together; one run per job; dense slots; steps neither repeated nor skipped; one terminal event |
| Resource catalog (`store/queue/resources.rs`) | lanes of a machine | register, detect at start, retire, label | GPUs change under a stuck run | one lane per GPU, kept while a run holds it |
| Queue actor (`daemon/actors/queue.rs`) | timers and running cleanups, lost at a restart | reconcile pass, cleanup result | everything is re-derived from the store after a crash | launches, cancels and cleanups settle |
| Supervisor, task watch (`daemon/actors/supervisor.rs`, `task.rs`) | watched tasks, a mailbox of launches | launch, observe, recover, apply exit or loss | worker death against its own commit; a caller that timed out | a reported exit counts; a task is launched once or never |
| Worker (`runner.rs`, `runner/container.rs`) | the process itself, `exit.json`, the child's identity | claim, spawn, confirm, poll the marker, stop, report | crash between any two steps | no process survives beside the next run |
| Task store, dependencies, chains (`store/task.rs`, `store/dependency.rs`, `store/chain.rs`) | tasks, held routes, reports, parked runs | submit, hold, release, skip, report, park, continue, cancel | a prerequisite ends while the dependent is accepted; the owner of work changes | no circle of waits; one owner per thread; held tasks launch in order |
| Event delivery (`store/events/*`, `daemon/event_sender*`) | outbox, inbox, receipts, claims | produce, send, acknowledge, deliver, retry, prune | lost and repeated requests, a restored database | each event in order, within its budget, settled at last |
| Callbacks, waiters (`callback/*`, `daemon/wait_api.rs`) | a record that pins a route; streams and claims | route, deliver, clear, compact; stream, confirm | replies lost after the effect, sessions that change hands | a line arrives once; a wait swallows nothing and ends |
| Remote submission, cancellation | routes, identities, intents, receipts | submit, retry, abandon, cancel, acknowledge | cancel before submit, answers lost | route and executor agree; an acknowledged cancel holds |
| Messages | reservations, bindings, attempts, receipts | send, receive, repeat | repeats with other content, names that move | one text in one thread |
| Fleet directory, inspection | observed peers and bindings; none | observe, probe, confirm, rank; assemble an answer | addresses that move, copied installations, machines that do not answer | evidence before a duplicate; no statement from absence |
| Container lifecycle | `task_containers`, the container | create, start, wait, stop, remove, adopt | docker outlives worker and daemon and acts late | the row's evidence is true; a cancel ends the task |
| Process cleanup (`cleanup/*`) | none | scan, signal, confirm | PIDs are used again, processes fork | only the run's processes are signalled; completed means clear |
| T3 sessions (`t3*`, `daemon/t3_*`) | session token, last fingerprint | launch, add project, probe, alert | replies lost, a server that changes | reports are true; a change is told |
| Daemon life (`daemon.rs`, `cli/daemon.rs`, `install/*`, `update.rs`) | lock, socket, unit, binary | serve, install, stop, restart, uninstall, update | supervisor and commands race | a reported stop is one |
| Power (`power/*`) | the samples of use | sample, answer | sleep, dark wake, a clock set back | a Mac says yes only after real use |
| Files, notifications, usage, titles, command line, configuration, dashboard | little or none | input and output | the operating system and external services | |

Inside one machine the store's operations are transactions
(`BEGIN IMMEDIATE`), so each is one atomic step.  The daemon calls them
through one store actor; each worker has its own connection.  Concurrency is
therefore between transactions, and between transactions and processes.

## Modules

| Module | Models |
|---|---|
| `QueueRules` | the stateless rules: stop causes, classification, serving order, the scheduling decision |
| `QueueStore` | the store's queue tables and every operation on them, with unrestricted callers |
| `JobContract` | what the queue promises about jobs and resources, without mechanism |
| `QueueSystem` | `QueueStore` composed with its callers: queue actor, supervisor, task watch, workers and their children, people, crashes |
| `QueueRequests` | commands about lanes and jobs, sent again and repeated by people, operation records, GPU detection |
| `JobDelivery` | one queue job between origin and authority: submission, blocked notices, events, callbacks |
| `TaskChains` | tasks of one machine: dependencies, releases through the mailbox, parked runs, cancels |
| `RemoteTask` | submission and cancellation between origin and executor |
| `EventDelivery` | the events of a task from outbox to thread |
| `WaitStream` | `homebased wait`: client, stream, registry, hand-off |
| `CallbackRoute` | one line on its way into the origin thread |
| `DirectMessage` | `message send` with one UUID |
| `T3Launch`, `T3Watch` | launches through T3; the watch over its API |
| `ContainerRun` | one container task, its workers and dockerd |
| `ProcessSweep` | what is stopped when a run ends |
| `DaemonLife` | the daemon, its unit and the commands about it |
| `Presence` | whether a Mac takes a task that waited for it |
| `FleetDirectory`, `FleetInspection` | the peers of a daemon; answers about a task of the fleet |
| `*Proofs` | the theorems, by part of the system: the queue's store (`QueueStoreProofs`) and its daemon and workers (`QueueSystemProofs`), jobs and commands (`JobProofs`), events and waiting clients (`EventDeliveryProofs`), tasks, sessions, the host, the fleet (`FleetProofs`) |
| `MC*` | instances for TLC; `MCQueueRules` also has the reference definition of the decision |

Definitions carry the names of the functions they model; `PROJECT.json` maps
each to its lines.

Components that share no state are explored by one run: its `MC` module
extends both, and a variable `moving` chooses at the start which one a
behaviour is about, while the other stays in its initial state.  The state
spaces add up and do not multiply; each part's properties hold trivially in
the other part's behaviours.

### The queue

A resource is a positive number, its place in the order of resource names.
Target "any" and "no resource" are 0.  `decide` has the structure of the code:
`Fill` walks the queue and hands out free resources, `preempt_for` picks the
victim for the first waiting job that has a candidate, and no stop is decided
while one is in flight.  Time appears only as `young`, the set of runs inside
their restart window at the moment of the decision.  Equal start times are
decided by run id in the code and by resource in the model: the code's order
is as arbitrary.

`QueueStore` has `job` (`resource_jobs`), `run` (the `run_*` columns of
`resources`), `task` (`tasks` of runs) and `events`
(`resource_job_events`).  One action per operation; each has the whole
transaction, the renumbering of a level and the append to the event log
included.  A refused call changes nothing and is no step.  A run task is the
pair of its job and run number, because every reservation makes a new task
id; the attention id a release must name is fresh for each stuck run, and the
run's task stands for it; `started` is a number larger than every start still
recorded, since only the order of starts is read.  `Next` lets any caller
make any call at any time; only a start is confirmed for a task that a worker
claimed, which is how the worker calls it.

`JobContract`: jobs are accepted, run one step at a time on one resource, and
end once; a resource works for one job, settles, and is free again.
`QueueStore` implements it under the mapping `life`, `done`, `lane` (the
property `ContractSpec`).

`QueueSystem` adds durable files and processes, and the daemon's own state,
lost in `DaemonCrash`: the decisions of the pass (`plan`), the reservation it
is launching (`pending`), the run it is about to ask to yield (`ask`), the
watches and the running cleanups.  A pass is split at every call to the
store, since a worker or a person may commit in between.  The launch bound
(`LAUNCH_CONFIRMATION_BOUND`) is not assumed to be long enough for the
worker: `Abandon` may come at any moment.

`QueueRequests` keeps operation records, lanes and the queue order; placement
is reduced to the two ends, the text of a label is not kept, and cancelling an
active job is in `QueueStore`.

### Tasks and events

`TaskChains` has the tasks of one machine with their `after` lists
(`MaxAfter`, in the code 16), held routes, reports with their wait targets
(`MaxTargets`, in the code 16) and chains.  A submit may resume any thread: that
of a run that ended or still works, or one that no run created.  The
supervisor's mailbox is a sequence, so a launch whose caller timed out is still
in it; an insert that the supervisor stopped waiting for may commit, and the row
gets its worker later (`resume_local`, `retry_resume`).  `RemoteTask` keeps both
ends of a submission; a request that was given up may arrive at any later time.
`EventDelivery` and `JobDelivery` keep outbox, inbox, receipts and the
callback worker on two machines; the origin may return from a backup.  T3 is
asked to wake a stopped session, and a wake whose reply was lost may have sent
its line and yet gives the attempt back (`defer`); `unsure` counts those, and
`SendBudget` allows them beside the attempts.  In `JobDelivery` the last check
of a blocked notice (`before_send`) and the arrival of its line
(`deliver_job_event`) are two steps: `NoticesAreCurrent` says that a notice was
current when the authority answered that check, and that only a move of the
queue after it makes it stale.
`WaitStream` and `CallbackRoute` are the two consumers: a client that
confirms, and the routes into a thread.  When no stream takes an event its
normal delivery may fail for now (`retry`) or be given up (`settle_unheard`:
attempts used up, an unusable context, a detached thread); the wait then replays
the row as settled, and `unheard` keeps those events apart from the ones the
agent has.  Only a task's events are given up, never a job's.  A line that T3
took may be asked for again because T3 drops repeated commands; the socket and `codex queue` do not.

### Hosts and fleet

`ContainerRun` gives dockerd the freedom to do a request late, and the store
may fail at each place where a worker saves or reads its container
(`LedgerFails`); in adoption and after a failed create that loses the task while
its container may run on.

`ProcessSweep` models Linux with pidfds and one atomic read of the process
table; PIDs are a small set used again, and so is the id of the run's process
group.  A child of the run alone in a session of its own may become a homebased
process by exec, also after the tracker recorded it or the sweep verified it; a
process may deny reads at times.  The worker's own signals to the group and the
sweep's `killpg` are counted alike.  What the code leaves open is named in
`SignalsReachTheRun`: a group id taken over since its last check (`taken`), and
what turned homebased after it was adopted, verified or recorded (`astray`).

`DaemonLife` models the systemd unit.  A callback is to be sent, being sent, put
off by its thread, delivered, given up, or owed by another machine; a stop waits
only for the first two, as `has_pending_terminal_callbacks` does.

`FleetDirectory` is one directory over addresses that answer for changing
machines and boots; `Old` are the boots of a peer as a build without a shared
protocol version.  An operator command changes the directory in one step and
saves it in another (`CommandSaves`), and every save may fail, which the code
only logs.  A duplicate that was cleared may thus return with an older file;
`DuplicateNeedsEvidence` counts the evidence since a round that began when
neither the directory nor its file held the machine for one.
`FleetInspection` assembles an answer from three records read at different
moments; an accepted identity carries the state of its task, and a cancel on the
executor asks the fleet for the owner like any other
(`check_local_cancellation_owner`), so that it too may answer incomplete.

`Presence` samples a clock that the operator may set back, at any time and
before or after a sleep, not forward within one gap.  A clock that was set back and caught up before the next
sample cannot be told from one that was not: `hidden` marks that case and
`ReadyAfterUse` leaves it out.  `T3Watch` assumes that a notifier is configured.

## Runs

`tlc -workers 2 -config <run>.cfg <module>`; each takes up to four minutes.

| Run | Module | Instance | Shows |
|---|---|---|---|
| `JobEvents` | `MCJobEvents` | 2 resources, a two-step yielding job with 2 runs and an urgent job; a job with 3 events, 2 blocked episodes, 1 fault | `RunsAreHeld`, `WorkIsNotRepeated`, `EndsOnce`, `ContractSpec`; `JobNewsIsTrue`, `AcceptedStays`, `EndIsTold` |
| `QueueLanes` | `MCQueueLanes` | every snapshot of 2 resources, 2 held and 2 waiting jobs, 3 levels; 2 resources and 3 jobs, one moved | `DecisionIsRight`; `QueueIsOrdered`, `StopsAreJustified` |
| `Launches` | `MCLaunches` | 1 resource, 2 jobs, 1 crash; 2 remote tasks, a retry, a request given up | `RunsStayApart`, `RunsEndAsReported`; `RoutesAgree`, `CancelTakesEffect` |
| `Ends` | `MCEnds` | 1 resource, a job with 2 runs, 2 crashes; a container with 6 faults and 3 adoptions; 3 T3 servers, 2 glitches; fairness | `LaunchSettles`, `CancelCompletes`, `CleanupSettles`; `ContainerRowIsTrue`, `CancelEndsTask`; `ChangeIsTold` |
| `Events` | `MCEvents` | 3 events, 2 faults, 2 attempts, a restore; 2 streams, 1 fault (a failed send, a lost confirmation, a broken stream or a restart); fairness | `EventsInOrder`, `EventsSettle`; `WaitIsTrue`, `WaitEnds` |
| `Tasks` | `MCTasks` | 4 tasks, 3 submits, 3 runs, 1 fault, with 2 dependencies and 2 wait targets each, with any resumed thread, or with a cancel; 2 callers with 2 operations, 2 GPUs and 2 starts | `WaitGraphAcyclic`, `LaunchesInOrder`, `OneOwner`; `OperationsHappenOnce`, `LanesAreKept` |
| `Host` | `MCHost` | 3 PIDs, 4 processes; 3 daemons, 1 command, 2 crashes; a clock of 10 periods | `SignalsReachTheRun`, `SweepEndsClear`; `StopIsTrue`; `ReadyAfterUse` |
| `Machines` | `MCMachines` | 2 addresses, 1 peer with 2 boots, the second an old build, 3 of shifts, reports, calls and starts; every query | `DirectoryIsTrue`, `DuplicateNeedsEvidence`, `PeerIsFound`; `InspectionIsTrue` |
| `Sessions` | `MCSessions` | 2 hosts, 2 projects, 2 calls; every kind of line; 3 sends of 2 texts, 1 move, 1 mishap | `LaunchReportIsTrue`; `LineArrivesOnce`; `OneMessage` |
| `TaskCancel` | `TaskChains` | as `Tasks` | violates `CancelReachesOwner` |
| `ContainerEvidence` | `ContainerRun` | 1 fault | violates `NeverStartedNeverRan` |
| `DaemonUpdate` | `DaemonLife` | no crash | violates `UpdateRestarts` |

Bounds.  Counters that grow without end in the code (runs, attempts, faults,
moves, starts, streams, crashes) have a named constant each.  Two runs are
enough for an abandoned or preempted run and its successor, two resources for
every conflict between two runs, three events for one on its way, one behind
it and a gap; one fault together with one crash reaches a reply lost before
the restart that repeats the request; three PIDs the child, a descendant and
a stranger.  `MCTasks` explores the tasks three times, since all at once is too
much: several dependencies and targets without resumed threads and cancels,
resumed threads with one of each, and a cancel with one of each.  `MCMachines`
takes three events of the four kinds that have bounds (`MaxEvents`).  `MCHost`
lets a protected worker be an unmarked process only where the daemon cleans up
after a lost worker.  The theorems have none of these restrictions.  The bounds
are why a behaviour may end and deadlock is not checked; what may not stop is stated as liveness.

Each property is also tried against a plausible defect of the code: the
operators commented "Mutated form" replace the definition that follows them,
and TLC then finds the property violated.

### Findings

- `TaskCancel`: `api::cancel` (`daemon/api.rs:672`) finds no chain, the run
  parks, and the supervisor then cancels a run that no longer owns the work.
  `README.md:663` and `daemon/chains.rs:3` promise that a cancel reaches the
  owner.  Once a chain exists it does (`OneOwner`).
- `ContainerEvidence`: a start that failed at the client and took effect late
  may run a short container between the probe and `docker rm`
  (`container/lifecycle.rs:431`), against `domain.rs:670`.
- `DaemonUpdate`: after a standalone update on Linux, `current_exe` names a
  deleted file and the restart fails with the old daemon stopped
  (`cli/daemon.rs:268`), against `README.md:794`.

Smaller disagreements between code and comments, met while modelling; each
property says what the code does and names the exception:

- `daemon/t3_watch.rs:88` alerts once for each fingerprint "that two consecutive
  probes report"; probes without a verdict and repeats of the last alert may lie
  between the two (`AlertIsDue`).
- `daemon/wait_api.rs:8` says that "only a printed event settles" and `:429` that
  "a settled event was printed or delivered normally"; an event whose normal delivery
  was given up is settled all the same, and the wait ends with nothing printed of it (`WaitIsTrue`).
- `events.rs:240` says that a refunded attempt "sent nothing that could have been
  delivered"; a wake whose reply was lost may have (`SendBudget`).
- `store/chain.rs:325` says "no other task may resume that thread meanwhile" of a
  parked chain's thread; a task that was submitted to resume it while
  the run still worked is not refused, and two chains that park may reserve the same thread and then keep
  each other from going on.  `OneResumerPerThread` says it of the threads that a
  chain has resumed before.
- `cleanup/descendants.rs:9` says "a process running a homebased executable bounds
  the tree"; one recorded before its exec stays recorded, and what it starts is
  followed (`SignalsReachTheRun`).

Other observations: GPU detection waits for all devices while a lane registered
by hand holds the fallback's first device; a retried label has no operation id
and may overwrite another person's; a relative move that was refused may take
effect through a late duplicate; a worker that adopts a container whose stop its
dead predecessor asked for reports exit 137; a job submission processed after a
definite refusal leaves the route rejected while the authority has the job.

### Fairness

- The host restarts the daemon (`Restart=on-failure`, `install/systemd.rs`).
- A pass that began finishes, and since a pass visits every stored run and
  starts again after 250 ms (`RECONCILE_INTERVAL`), what one run needs in pass
  after pass gets done: `SF` of `SettleRun(r)`, strong because the actor is
  busy with other work in between.
- A sweep ends, with success or failure (`CleanupTiming::STANDARD`); a watch
  notices that the lock is free; a worker goes on until it waits for its
  child.  That the child ever exits is *not* assumed.
- Sender, receiver and callback worker of event delivery go on, as their
  timers start each cycle again; so do a stream, a deliverer and a client
  that keeps running.
- dockerd answers or fails each request, a container worker goes on, and the
  daemon starts an adopter; a container need not exit by itself.
- The watch over T3 takes its turns, and a push tried again and again gets
  through (`SF`).  A directory finishes its rounds.

Faults and crashes are bounded, so an endless run of them is excluded.

## Proofs

`tlapm <module>.tla` checks a proof module.  The theorems hold for every value
of the constants that satisfies the named assumptions; nothing is taken
without proof.

| Module | Theorem | Says, for every instance |
|---|---|---|
| `QueueStoreProofs` | `Invariance`, `TypeCorrect`, `RunsAreHeldCorrect` | a job is active exactly while one resource holds its run, and a live task's resource is held |
| | `CancelEndsJob`, `DecisionCause` | a run's end never queues its job again once a person cancelled it; a decision stops only an executing run, by a yield or a restart |
| | `StoreInvariance`, `EndsOnceCorrect` | a job has at most one terminal event, and its row never changes once it ended |
| | `StoreImplementsContract` | the store implements `JobContract` |
| | `OrderInvariance`, `QueueIsOrderedCorrect` | the positions of the queue are exactly 1..n, and at most one run is stopped to make room in it |
| | `FillFinds`, `StopsAreJustifiedCorrect` | the walk launches and makes wait only startable jobs; a run is preempted only for a job of a higher level, and its stop only escalates |
| | `WorkInvariance`, `WorkIsNotRepeatedCorrect` | no step of a job is repeated or skipped; a run resumes only from the checkpoint of the run before it |
| `QueueSystemProofs` | `SystemInvariance`, `RunsStayApartCorrect` | with crashes of daemon and workers at any step, two runs never use a resource or a job's directory at once |
| | `RunsEndAsReportedCorrect` | a run ends by its own worker's report if there is one, and yields only to its own request |
| | `SystemImplementsStore`, `SystemImplementsContract` | actor, supervisor, watches and workers together implement the store's specification, and so the contract |
| `JobProofs` | `JobNewsIsTrueCorrect` | the owner's thread hears of its job what was true at the last check, in order and once per episode |
| | `AcceptedStaysCorrect` | an accepted submission is never answered as refused |
| | `RequestsInvariance`, `OperationsHappenOnceCorrect` | an operation takes effect once under its id, and every answer is the first result |
| | `LanesAreKeptCorrect` | detection and registration keep lanes apart, whatever GPUs a start finds, and take no GPU away from a run |
| `EventDeliveryProofs` | `EventInvariance`, `EventsInOrderCorrect` | the origin holds a prefix of the log, nothing is dropped before it is held, the thread hears events in order and within their budget, wakes without an answer aside |
| | `WaitInvariance`, `WaitIsTrueCorrect` | `homebased wait` swallows no event and ends with success only after its target's end reached the agent, or the delivery of a task's was given up |
| `TaskProofs` | `RemoteInvariance`, `RoutesAgreeCorrect` | what the origin says about a task agrees with what the executor does |
| | `CancelTakesEffectCorrect` | an acknowledged cancel holds, also one that overtook its submission |
| | `ChainInvariance`, `LaunchesInOrderCorrect` | what is held launches once or never, and not before the chains it waits for ended as it asks |
| | `OneOwnerCorrect` | a thread has one live resumer, none while a chain that resumed it before is parked; a cancel of a chain stops its owner |
| | `WaitGraphAcyclicCorrect` | no task waits for itself through others |
| `SessionProofs` | `OneMessageCorrect` | one UUID is one line in one thread; a second line needs a mishap and a call that did not merely wait |
| | `LineArrivesOnceCorrect` | a callback's line is neither swallowed nor sent down a second path after a lost answer |
| | `LaunchReportCorrect` | a launch through T3 is one thread, and its report is what T3 holds |
| `HostProofs` | `ReadyAfterUseCorrect` | a Mac takes a waiting task only after use that was watched without a gap |
| | `StopIsTrueCorrect` | a stop that reports success ended the daemon it addressed, and every callback it owed was tried |
| | `ContainerRowCorrect` | the evidence and the reason in a container task's row are true, and a task is lost only for a reason |
| | `SweepInvariance`, `SignalsReachTheRunCorrect` | a sweep's signals reach only processes of the run, whatever exits, forks, execs or takes over a pid between two reads, with the two exceptions above |
| | `SweepEndsClearCorrect` | a completed sweep left nothing of the run, unless its processes were replaced during every confirming scan |
| `FleetProofs` | `FleetInvariance`, `DirectoryIsTrueCorrect` | an address leads only to a known machine, and work goes only where the intended one just answered |
| | `DuplicateNeedsEvidenceCorrect` | a machine is held for a duplicate, and this one is cleared of it, only on evidence |
| | `InspectionInvariance`, `InspectionIsTrueCorrect` | what a lookup or a cancel says of a task is true, although its records are read at different moments |

### Assumptions

`RulesAssumption` and `StoreAssumption`: finitely many jobs and resources
(rows of a table), three priority levels, run limits within `MaxRuns`.  The
assumptions of the other modules (`SystemAssumption`, `RemoteAssumption`,
`ChainAssumption`, `DaemonAssumption`, ...): natural numbers where the model
counts, a reserved value outside the set it marks, finitely many daemons and
send calls.  `SweepAssumption` keeps pid 0 and the older daemon's pid out of
the pids that processes get and `MaxStarts` at the two starts of the first state
or above, `FleetAssumption` the words for a binding out of
the machine UUIDs and 0, the boot nobody runs as, out of the boots;
`RequestsAssumption` has each waiting job in the queue once.  Every bound is any natural number, positive where zero would
leave nothing to do.  TLC evaluates each assumption on the instance of the run
that extends its module.

### Arguments

None of the properties is inductive by itself; each proof names the parts of
its strengthening, and TLC checked the strengthening on the run's instance
before it was proved.

- *The store.*  `Inv` is the type invariant with `Owned`, `Single`, `Held` and
  `Live`: which rows point at which.  `StoreInv` adds `Rows` (the waiting and active rows have a position,
  absent rows are blank, a run is at its job's step: `Slotted`, `Fresh`,
  `OnStep`) and `OneTerminalEvent`.
  The operations are reduced to a few kinds of step (a row settles, a run
  launches, a stop is asked for, ...), and the refinement and later invariants
  are proved per kind.
- *Order.*  `OrderInv` adds `Dense` (the positions of queued jobs are exactly
  1..n, from `RanksAreDense`: the ranks of a finite total order) and
  `OnePreemption`.  `FillFinds` is about a recursive function: that the walk
  has a value at every position follows from a least position without one.
- *Work.*  `Work` counts: the successful tasks of a job are the steps its row
  has done (`StepFits`), a job that resumes has a preempted task with none
  past its launch after it (`Resumable`), and its runs are numbered without
  gaps.
- *The queue system.*  `SystemInv` takes the store's invariants over, since
  every step of the system is a step of the store or leaves it alone; this is
  also the refinement.  `TasksFit` lists what a task's row, worker, processes,
  evidence and exit file can be together; `ActorHolds` says what each caller's
  stale view still implies (a pending launch has no worker, a confirmed sweep
  left no process), which is why a crash between two of its steps does no harm.
- *Job news.*  `JobInv`: the cursors of both sides are ordered (`Cursors`),
  what is on its way is in the log (`Outgoing`, `Incoming`; a line that passed its
  check is current or was overtaken), and each notice
  belongs to its episode (`Announced`).
- *Commands.*  `RequestsInv`: a message asks what its command asked at first
  (`Mail`), a stored operation took effect exactly once (`Ledger`), and an
  answer that is no refusal is the stored result (`Answers`).  What an
  operation does to the queue stays opaque.
- *Lanes.*  `LanesInv`: each lane fits by itself (`RowFits`: its run has its
  GPU, and a fallback carries the first GPU's name), two lanes differ in name
  and GPU (`Differ`), so there is one fallback at most, and none beside a
  detected GPU (`StandsAlone`).  For the insertion of what a start found,
  `InsertionFits` is shown at every position from a least one without it.
- *Remote tasks.*  `RemoteInv` speaks per task: `RowOf` (the executor's rows),
  `SilentOf` (it hears of a task only after the route left the held states),
  `TruthOf` (definite answers on their way, and saved results, are the identity
  the executor keeps: why a late or repeated answer does no harm) and
  `ReceiptOf` (a cancel's receipts).  The origin's steps share `OriginFacts`,
  since none changes the executor.
- *Chains.*  `ChainInv`: a chain is at one of its runs, live or held
  (`ChainsFit`); an end, once known, stays what it is, so that a launch that
  waits in the supervisor's mailbox is still ready when it is taken out
  (`Releases`); the run that parked a chain is one of its runs (`ParkedRuns`); and
  `Cancelling` says what each phase of `task cancel` still knows of the chain
  it looked at.
- *Waits.*  `WaitGraphInv` says it without paths: for every node some set that
  no edge leaves holds all that the node waits for and not the node
  (`Acyclic`).  A step that only removes edges keeps those sets, a new task
  is in none of them, and for a waiting report the set is what the search of
  `check_waiting_on` found, which is closed after `MaxTasks` steps
  (`ReachedCloses`: until then every step adds a node).
- *Events.*  `EventInv`: `Produced`, `Sending` and `AckedWasAccepted` for the
  sender, `Prefix` for the inbox and its two cursors, `Working` and `Counted`
  for the callback worker.  `Counted` bounds the lines by attempts and wakes
  without an answer; it has to know an attempt that was counted
  and has not sent yet (`Open`); it is what a crash between the two leaves.
- *Waiting.*  `WaitInv`: a worker hands off the first event that is not
  settled (`Settling`) and a confirmation is of a printed line
  (`AcksArePrinted`), and what is given up is noted as it is settled, so
  `SettledReached` lasts.  A stream replays only settled
  events and says done as its last word (`StreamFits`); while the client is
  connected to a stream with nothing left, the agent has heard the end or the
  frame with it is unread (`EndIsPassedOn`).
- *Messages.*  `OneRequest`, `OnePermit`, `ReceiptsOfBound`, `OneThread`: what
  was saved first stands for all calls.  `LinesArePaid` and `Waited` bound the
  lines by mishaps and by calls that never waited for a permit.
- *Callbacks.*  `RouteInv`: while T3 may have taken a line unheard of, the
  record of the attempt stands and only a retry through T3 follows
  (`DoubtIsRecorded`, `RecordOfAttempt`); `SuccessWasHeard` and
  `CompactionIsIdle` give the other two parts.
- *Launches.*  `T3Inv` ties an effect to its answer from the moment the request
  leaves (`EffectIsNotDenied`, `AnswerIsHeld`), since a late effect cannot be
  told from a refusal afterwards.
- *Presence.*  `RemembersTheGap` and `UseIsCovered` tie what the daemon keeps
  to the time that passed, as long as its clock is not behind its last sample and
  did not catch up unseen.
- *The daemon.*  `DaemonInv`: past the lock a daemon holds it, and from bind to
  end the socket is its own (`OneHome`); `Good` says, per step of a command,
  what it knows of the daemon it addressed and of the tasks it cancelled.
- *Containers.*  `ContainerInv`: one create is ever sent and nothing starts
  whose ID is not saved (`RequestsOfTask`), so the evidence stays true whatever
  dockerd still has to process (`EvidenceLasts`); `AdoptionsAreDeaths` pays
  each adoption with a worker's death while the store keeps what it is told.
- *The sweep.*  `SweepInv`: what a process tied to the run forks is its kin, and
  the processes of a group are of one kind (`Processes`, from `PlaceOf` each); what
  was recorded is kin of the run, what was adopted or verified is the run's or
  turned homebased only afterwards, and no later process gets such an identity
  (`Known`); a handle on another process than the target was opened only after
  the target was gone (`Aimed`, `OneHandle`), which is why the check between pin
  and signal suffices; a group that is signalled is the run's unless its id was
  taken over.
  `ClearInv` is a second layer over it: a scan during which the run lost
  no process finds one that remains, because the process either is still to be
  read or its first read was of the process that is there now (`Found`); so
  while something remains, every empty scan of the row met an exit or an exec
  (`EmptyRow`), and a row is confirmed after two scans at least.
- *The directory.*  `FleetInv` adds `RunsAsLast` (a machine that was never
  cloned runs as its last boot only), `Sweeping` (a sweep that saw two boots of
  it saw a restart, the second sweep another one), `SavedEvidence` for what a
  restarted daemon reads back, however old the file, and `LocalRecovery` for the count of clean
  rounds.  The history counts also restarts of machines that nobody could
  reach and outlives `forget`.
- *Inspection.*  `InspectInv`: the three records of a task fit together
  (`RecordsFit`), what was collected was true and what is definite of it lasts
  (`CollectedLasts`), a record that matters is read, to be read or its request
  failed (`Covered`), and an answer stays true (`AnswerLasts`).

Where an argument wants induction it uses the least-number principle
(`NatMin`, `LeastNumber`), derived from the well-foundedness of the natural
numbers.

### Only model-checked

- Liveness: `EndIsTold`, `LaunchSettles`, `CancelCompletes`, `CleanupSettles`,
  `CancelEndsTask`, `ChangeIsTold`, `EventsSettle`, `WaitEnds`, `PeerIsFound`.
  TLAPS has no rules for fairness and `ENABLED`.
- `DecisionIsRight` compares the recursive walk with a reference definition
  over all inputs of a size: induction over data.

## Not modelled

File listings and transfers, desktop notifications, usage accounting, thread
titles, parsing and formatting of the command line, configuration, the web
dashboard; launchd, macOS process handling, mDNS and Tailscale themselves,
Docker flags, T3's and Codex' own behaviour beyond what the code relies on.

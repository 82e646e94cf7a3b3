-------------------------- MODULE QueueStoreProofs --------------------------
(***************************************************************************)
(* Proofs about QueueStore, for any jobs, resources, specifications and    *)
(* bounds.  First which rows point at which; then every step of the store  *)
(* is one of a few kinds, told apart by what they do to the rows: with     *)
(* them, a job ends once, and the store implements JobContract.  Then the  *)
(* queue is an order of its jobs, and stops are justified by it; no step   *)
(* of a job is repeated or skipped, and a run resumes only from the        *)
(* checkpoint of the run before it.                                        *)
(***************************************************************************)
EXTENDS QueueStore, FiniteSetTheorems, SequenceTheorems, WellFoundedInduction, TLAPS

-----------------------------------------------------------------------------
(* Least and greatest numbers, for the choices the scheduler makes *)

\* A nonempty set of numbers has a least element
LEMMA NatMin ==
    ASSUME NEW S \in SUBSET Nat, S # {}
    PROVE  \E m \in S : \A n \in S : m <= n
  <1> DEFINE R == {ss \in Nat \X Nat : ss[1] < ss[2]}
  <1>1. IsWellFoundedOn(R, Nat)
    BY NatLessThanWellFounded DEF OpToRel
  <1> HIDE DEF R
  <1>2. PICK m \in S : \A n \in S : ~(<<n, m>> \in R)
    BY <1>1, WFMin
  <1>3. \A n \in S : ~(n < m)
    BY <1>2 DEF R
  <1>4. QED
    BY <1>3

\* The numbers of a sequence of length n have an upper bound
Bounded(n) == \A f \in [1..n -> Nat] : \E b \in Nat : \A i \in 1..n : f[i] <= b

\* One value more keeps a finite sequence of numbers bounded
LEMMA BoundedStep ==
    ASSUME NEW m \in Nat, m # 0, Bounded(m - 1)
    PROVE  Bounded(m)
  <1> SUFFICES ASSUME NEW f \in [1..m -> Nat]
               PROVE  \E b \in Nat : \A i \in 1..m : f[i] <= b
    BY DEF Bounded
  <1> DEFINE g == [i \in 1..(m - 1) |-> f[i]]
  <1>1. \A i \in 1..(m - 1) : i \in 1..m
    OBVIOUS
  <1>2. g \in [1..(m - 1) -> Nat]
    BY <1>1
  <1>3. PICK b \in Nat : \A i \in 1..(m - 1) : g[i] <= b
    BY <1>2 DEF Bounded
  <1>4. m \in 1..m /\ f[m] \in Nat
    OBVIOUS
  <1>5. PICK c \in Nat : b <= c /\ f[m] <= c
    BY <1>4
  <1>6. ASSUME NEW i \in 1..m PROVE f[i] <= c
    <2>1. CASE i = m
      BY <1>5, <2>1
    <2>2. CASE i # m
      <3>1. i \in 1..(m - 1)
        BY <2>2
      <3>2. f[i] \in Nat /\ f[i] <= b
        BY <3>1, <1>3, <1>1
      <3>3. QED
        BY <3>2, <1>5
    <2>3. QED
      BY <2>1, <2>2
  <1>7. QED
    BY <1>6

\* Every finite sequence of numbers is bounded: there is no least length
\* for which one is not
LEMMA AlwaysBounded ==
    ASSUME NEW n \in Nat
    PROVE  Bounded(n)
  <1> DEFINE Bad == {m \in Nat : ~Bounded(m)}
  <1> SUFFICES Bad = {}
    OBVIOUS
  <1> SUFFICES ASSUME Bad # {} PROVE FALSE
    OBVIOUS
  <1>1. Bad \in SUBSET Nat
    OBVIOUS
  <1>2. PICK m \in Bad : \A k \in Bad : m <= k
    <2> HIDE DEF Bad
    <2> QED BY <1>1, NatMin
  <1>3. m \in Nat /\ ~Bounded(m)
    OBVIOUS
  <1>4. m # 0
    <2>1. Bounded(0)
      <3>1. \A f \in [1..0 -> Nat] : \A i \in 1..0 : f[i] <= 0
        OBVIOUS
      <3>2. QED
        BY <3>1 DEF Bounded
    <2>2. QED
      BY <2>1, <1>3
  <1>5. m - 1 \in Nat /\ ~(m <= m - 1)
    BY <1>3, <1>4
  <1>6. Bounded(m - 1)
    BY <1>2, <1>5
  <1>7. QED
    BY <1>3, <1>4, <1>6, BoundedStep

\* A finite set of numbers is bounded
LEMMA FiniteBound ==
    ASSUME NEW S \in SUBSET Nat, IsFiniteSet(S)
    PROVE  \E b \in Nat : \A n \in S : n <= b
  <1>2. PICK n \in Nat : ExistsSurjection(1..n, S)
    BY FS_NatSurjection
  <1>3. PICK f \in [1..n -> S] : \A s \in S : \E i \in 1..n : f[i] = s
    BY <1>2 DEF ExistsSurjection, Surjection
  <1>4. f \in [1..n -> Nat]
    BY <1>3
  <1>5. PICK b \in Nat : \A i \in 1..n : f[i] <= b
    BY <1>4, AlwaysBounded DEF Bounded
  <1>6. QED
    BY <1>3, <1>5

\* A nonempty finite set of numbers has a greatest element
LEMMA NatMax ==
    ASSUME NEW S \in SUBSET Nat, IsFiniteSet(S), S # {}
    PROVE  \E m \in S : \A n \in S : n <= m
  <1> DEFINE U == {b \in Nat : \A n \in S : n <= b}
  <1>0. PICK b \in Nat : \A n \in S : n <= b
    BY FiniteBound
  <1>1. U \in SUBSET Nat /\ U # {}
    BY <1>0
  <1>2. PICK m \in U : \A c \in U : m <= c
    <2> HIDE DEF U
    <2> QED BY <1>1, NatMin
  <1>6. m \in Nat /\ \A n \in S : n <= m /\ n \in Nat
    OBVIOUS
  <1>3. CASE m \in S
    BY <1>6, <1>3
  <1>4. CASE m \notin S
    <2>1. \A n \in S : n < m
      BY <1>6, <1>4
    <2>2. m # 0
      <3>1. PICK n \in S : TRUE
        OBVIOUS
      <3>2. n \in Nat /\ n < m
        BY <2>1
      <3>3. QED
        BY <3>2, <1>6
    <2>3. m - 1 \in Nat /\ ~(m <= m - 1)
      BY <2>2, <1>6
    <2>4. \A n \in S : n <= m - 1
      BY <2>1, <1>6
    <2>5. m - 1 \in U
      BY <2>3, <2>4
    <2>6. QED
      BY <1>2, <2>5, <2>3
  <1>5. QED
    BY <1>3, <1>4

-----------------------------------------------------------------------------
(* The operators *)

Moves == {"next_step", "resume", "restart"} \cup TerminalJob

\* Every end of a run is classified: the task gets a terminal status and the
\* job a transition finish_run knows (queue/classify.rs)
LEMMA ClassifyType ==
    ASSUME NEW end \in RunEnds, NEW cause \in Causes \cup {NoCause},
           NEW last \in BOOLEAN
    PROVE  /\ classify(end, cause, last).outcome \in TerminalStatus
           /\ classify(end, cause, last).move \in Moves
  <1>1. CASE end = "exit0"
    BY <1>1, SMT DEF classify, Class, Moves, TerminalStatus, TerminalJob
  <1>2. CASE end = "exit75"
    BY <1>2, SMT DEF classify, Class, Moves, TerminalStatus, TerminalJob
  <1>3. CASE end = "cancelled"
    BY <1>3, SMT DEF classify, Class, Moves, TerminalStatus, TerminalJob
  <1>4. CASE end = "other"
    BY <1>4, SMT DEF classify, Class, Moves, TerminalStatus, TerminalJob
  <1>5. CASE end = "lost"
    BY <1>5, SMT DEF classify, Class, Moves, TerminalStatus, TerminalJob
  <1>6. QED
    BY <1>1, <1>2, <1>3, <1>4, <1>5 DEF RunEnds

\* A person's cancel always ends the job: whatever the run's end was, its
\* job is not queued again, except that a finished last step still succeeds
LEMMA CancelEndsJob ==
    ASSUME NEW end \in RunEnds, NEW last \in BOOLEAN
    PROVE  classify(end, "user_cancel", last).move \in TerminalJob
  <1>1. CASE end = "exit0"
    BY <1>1, SMT DEF classify, Class, TerminalJob
  <1>2. CASE end = "exit75"
    BY <1>2, SMT DEF classify, Class, TerminalJob
  <1>3. CASE end = "cancelled"
    BY <1>3, SMT DEF classify, Class, TerminalJob
  <1>4. CASE end = "other"
    BY <1>4, SMT DEF classify, Class, TerminalJob
  <1>5. CASE end = "lost"
    BY <1>5, SMT DEF classify, Class, TerminalJob
  <1>6. QED
    BY <1>1, <1>2, <1>3, <1>4, <1>5 DEF RunEnds

\* Where a run's end leaves its job
LEMMA AfterRunType ==
    ASSUME NEW rec \in RunRow, NEW move \in Moves \cup {"abandoned"}
    PROVE  /\ AfterRun(rec, move).state \in {"queued"} \cup TerminalJob
           /\ AfterRun(rec, move).step \in Nat
           /\ AfterRun(rec, move).resume \in BOOLEAN
           /\ AfterRun(rec, move).event \in EventKinds \cup {"none"}
  <1>1. rec.step \in Nat /\ rec.resume \in BOOLEAN
    BY DEF RunRow
  <1>2. CASE move \in TerminalJob
    <2>1. AfterRun(rec, move) = [state |-> move, step |-> rec.step,
                                 resume |-> FALSE, event |-> move]
      BY <1>2 DEF AfterRun, TerminalJob
    <2>2. QED
      BY <2>1, <1>1, <1>2 DEF TerminalJob, EventKinds
  <1>3. CASE move = "next_step"
    <2>1. AfterRun(rec, move) = [state |-> "queued", step |-> rec.step + 1,
                                 resume |-> FALSE, event |-> "none"]
      BY <1>3 DEF AfterRun, TerminalJob
    <2>2. QED
      BY <2>1, <1>1 DEF EventKinds
  <1>4. CASE move = "resume"
    <2>1. AfterRun(rec, move) = [state |-> "queued", step |-> rec.step,
                                 resume |-> TRUE, event |-> "preempted"]
      BY <1>4 DEF AfterRun, TerminalJob
    <2>2. QED
      BY <2>1, <1>1 DEF EventKinds
  <1>5. CASE move = "restart"
    <2>1. AfterRun(rec, move) = [state |-> "queued", step |-> rec.step,
                                 resume |-> FALSE, event |-> "preempted"]
      BY <1>5 DEF AfterRun, TerminalJob
    <2>2. QED
      BY <2>1, <1>1 DEF EventKinds
  <1>6. CASE move = "abandoned"
    <2>1. AfterRun(rec, move) = [state |-> "queued", step |-> rec.step,
                                 resume |-> rec.resume, event |-> "none"]
      BY <1>6 DEF AfterRun, TerminalJob
    <2>2. QED
      BY <2>1, <1>1 DEF EventKinds
  <1>7. QED
    BY <1>2, <1>3, <1>4, <1>5, <1>6 DEF Moves

\* Levels are finite, so places and positions are numbers
LEMMA FiniteLevels ==
    ASSUME NEW S \in SUBSET Jobs
    PROVE  Cardinality(S) \in Nat
  BY RulesAssumption, FS_Subset, FS_CardinalityType DEF RulesAssumption

-----------------------------------------------------------------------------
(* Slots keep everything but positions *)

\* Closing a gap changes nothing but positions (jobs.rs: renumber_level)
LEMMA RenumberKeeps ==
    ASSUME NEW jb \in [Jobs -> JobRow], NEW j
    PROVE  /\ renumber_level(jb, j) \in [Jobs -> JobRow]
           /\ \A k \in Jobs :
                /\ renumber_level(jb, j)[k].state = jb[k].state
                /\ renumber_level(jb, j)[k].resource = jb[k].resource
                /\ renumber_level(jb, j)[k].spec = jb[k].spec
                /\ renumber_level(jb, j)[k].step = jb[k].step
                /\ renumber_level(jb, j)[k].runs = jb[k].runs
  <1> DEFINE rest == level(jb, jb[j].priority) \ {j}
  <1>1. \A k \in Jobs : Place(jb, rest, k) \in Nat
    BY FiniteLevels DEF Place, level
  <1>2. QED
    BY <1>1 DEF renumber_level, JobRow

\* Writing levels changes nothing but positions and the moved job's level
\* (jobs.rs: apply_move)
LEMMA WriteLevelsKeeps ==
    ASSUME NEW jb \in [Jobs -> JobRow], NEW j \in Jobs,
           NEW p \in Priorities, NEW index \in Int, index + 1 \in Nat
    PROVE  /\ write_levels(jb, j, p, index) \in [Jobs -> JobRow]
           /\ \A k \in Jobs :
                /\ write_levels(jb, j, p, index)[k].state = jb[k].state
                /\ write_levels(jb, j, p, index)[k].resource = jb[k].resource
  <1> DEFINE order == level(jb, p) \ {j}
             previous == level(jb, jb[j].priority) \ {j}
  <1>1. \A k \in Jobs : Place(jb, order, k) \in Nat /\ Place(jb, previous, k) \in Nat
    BY FiniteLevels DEF Place, level
  <1> DEFINE new == write_levels(jb, j, p, index)
  <1>2. ASSUME NEW k \in Jobs
        PROVE  new[k] \in JobRow /\ new[k].state = jb[k].state
                                 /\ new[k].resource = jb[k].resource
    <2>1. CASE k = j
      <3>1. new[k] = [jb[k] EXCEPT !.priority = p, !.position = index + 1]
        BY <2>1 DEF write_levels
      <3>2. QED
        BY <3>1 DEF JobRow
    <2>2. CASE k # j /\ k \in order
      <3>1. new[k] = [jb[k] EXCEPT !.position = IF Place(jb, order, k) <= index
                        THEN Place(jb, order, k) ELSE Place(jb, order, k) + 1]
        BY <2>2 DEF write_levels
      <3>2. QED
        BY <3>1, <1>1 DEF JobRow
    <2>3. CASE k # j /\ k \notin order /\ k \in previous
      <3>1. new[k] = [jb[k] EXCEPT !.position = Place(jb, previous, k)]
        BY <2>3 DEF write_levels
      <3>2. QED
        BY <3>1, <1>1 DEF JobRow
    <2>4. CASE k # j /\ k \notin order /\ k \notin previous
      BY <2>4 DEF write_levels
    <2>5. QED
      BY <2>1, <2>2, <2>3, <2>4
  <1>3. new = [k \in Jobs |-> new[k]]
    BY DEF write_levels
  <1>4. QED
    BY <1>2, <1>3

-----------------------------------------------------------------------------
(* Type correctness *)

\* What ties the tables of a transaction together: an idle resource has an
\* empty row and a run belongs to a job and has one of its tasks; one run per
\* job; active jobs are the held ones; live tasks are the held ones
Owned(rn) ==
    \A r \in Resources :
        IF rn[r].phase = "idle" THEN rn[r] = IdleRun
        ELSE rn[r].job \in Jobs /\ rn[r].task \in Tasks
             /\ rn[r].task[1] = rn[r].job

Single(rn) ==
    \A r, s \in Resources : rn[r].phase # "idle" /\ rn[r].job = rn[s].job => r = s

Held(jb, rn) ==
    \A j \in Jobs, r \in Resources :
        (jb[j].state = "active" /\ jb[j].resource = r)
            <=> (rn[r].job = j /\ HoldsJob(rn[r]))

Live(rn, tk) ==
    \A t \in Tasks :
        tk[t].status \in {"queued", "running"}
            <=> \E r \in Resources : rn[r].task = t /\ HoldsJob(rn[r])

Consistent(jb, rn, tk) ==
    Owned(rn) /\ Single(rn) /\ Held(jb, rn) /\ Live(rn, tk)

\* The inductive invariant
Inv == TypeOK /\ Consistent(job, run, task)

\* An event is appended to one job's log (jobs.rs: append_job_event)
LEMMA AppendEventType ==
    ASSUME NEW ev \in [Jobs -> Seq(Event)], NEW j,
           NEW kind \in EventKinds, NEW n \in 0..MaxRuns
    PROVE  append_job_event(ev, j, kind, n) \in [Jobs -> Seq(Event)]
  <1> DEFINE e == [kind |-> kind, run |-> n]
  <1>1. e \in Event
    BY DEF Event
  <1>2. \A x \in Jobs : Append(ev[x], e) \in Seq(Event)
    <2> HIDE DEF e
    <2> QED BY <1>1, AppendProperties
  <1>3. append_job_event(ev, j, kind, n) = [ev EXCEPT ![j] = Append(ev[j], e)]
    BY DEF append_job_event
  <1> HIDE DEF e
  <1>4. QED
    BY <1>2, <1>3

\* The number of a run task
LEMMA TaskNumber ==
    ASSUME NEW t \in Tasks \cup {NoTask}
    PROVE  t[2] \in 0..MaxRuns
  BY StoreAssumption DEF StoreAssumption, Tasks, NoTask

\* The stored stop of a run is a cause or none
LEMMA StopCauseType ==
    ASSUME NEW rec \in RunRow
    PROVE  StopCauseOf(rec) \in Causes \cup {NoCause}
  BY DEF StopCauseOf, RunRow

\* A requested stop leaves a run row, and keeps its job and task
\* (runs.rs: request_stop)
LEMMA RequestStopType ==
    ASSUME NEW rec \in RunRow, NEW cause \in Causes
    PROVE  /\ request_stop(rec, cause) \in RunRow
           /\ request_stop(rec, cause).phase = "stopping"
           /\ request_stop(rec, cause).job = rec.job
           /\ request_stop(rec, cause).task = rec.task
  <1>1. Upgrade(StopCauseOf(rec), cause) \in Causes \cup {NoCause}
    BY StopCauseType DEF Upgrade
  <1>2. "stopping" \in Phases
    BY DEF Phases, HoldingPhases
  <1>3. QED
    BY <1>1, <1>2 DEF request_stop, RunRow

\* A job row after its run ended
LEMMA EndedRowType ==
    ASSUME NEW row \in JobRow, NEW state \in JobStates, NEW step \in Nat,
           NEW resume \in BOOLEAN
    PROVE  [row EXCEPT !.state = state, !.resource = NoResource,
                       !.step = step, !.resume = resume] \in JobRow
  BY DEF JobRow

\* A job row after its job was cancelled in the queue
LEMMA CancelledRowType ==
    ASSUME NEW row \in JobRow
    PROVE  [row EXCEPT !.state = "cancelled", !.resume = FALSE] \in JobRow
  BY DEF JobRow, JobStates, TerminalJob

\* The rows the run's own steps write
LEMMA IdleRowType == IdleRun \in RunRow
  BY DEF IdleRun, RunRow, Phases

LEMMA StartedRowType ==
    ASSUME NEW rec \in RunRow, NEW phase \in Phases, NEW n \in Nat
    PROVE  /\ [rec EXCEPT !.phase = phase, !.started = n] \in RunRow
           /\ [rec EXCEPT !.started = n] \in RunRow
           /\ [rec EXCEPT !.phase = phase, !.attempt = n] \in RunRow
           /\ [rec EXCEPT !.attempt = n] \in RunRow
  BY DEF RunRow

\* Every row written by finish_run has its type
LEMMA FinishRunType ==
    ASSUME NEW jb \in [Jobs -> JobRow], NEW rn \in [Resources -> RunRow],
           events \in [Jobs -> Seq(Event)],
           NEW r \in Resources, NEW move \in Moves \cup {"abandoned"},
           finish_run(jb, rn, r, move)
    PROVE  /\ job' \in [Jobs -> JobRow]
           /\ run' \in [Resources -> RunRow]
           /\ events' \in [Jobs -> Seq(Event)]
  <1> DEFINE j == rn[r].job
             after == AfterRun(rn[r], move)
             moved == [jb EXCEPT ![j].state = after.state,
                                 ![j].resource = NoResource,
                                 ![j].step = after.step,
                                 ![j].resume = after.resume]
  <1>1. /\ after.state \in JobStates /\ after.step \in Nat
        /\ after.resume \in BOOLEAN /\ after.event \in EventKinds \cup {"none"}
    BY AfterRunType DEF JobStates
  <1>2. moved \in [Jobs -> JobRow]
    <2>1. \A k \in Jobs : moved[k] =
            IF k = j THEN [jb[k] EXCEPT !.state = after.state,
                                        !.resource = NoResource,
                                        !.step = after.step,
                                        !.resume = after.resume]
            ELSE jb[k]
      OBVIOUS
    <2>2. \A k \in Jobs : moved[k] \in JobRow
      BY <1>1, <2>1, EndedRowType
    <2>3. QED
      BY <2>2
  <1>3. job' \in [Jobs -> JobRow]
    BY <1>2, RenumberKeeps DEF finish_run
  <1>4. run' \in [Resources -> RunRow]
    <2>1. [rn[r] EXCEPT !.phase = "cleaning", !.started = 0, !.cause = NoCause,
                        !.attempt = 1] \in RunRow
      BY DEF RunRow, Phases
    <2>2. QED
      BY <2>1 DEF finish_run
  <1>5. events' \in [Jobs -> Seq(Event)]
    <2>1. rn[r].task[2] \in 0..MaxRuns
      BY TaskNumber DEF RunRow
    <2>2. CASE after.event = "none"
      BY <2>2 DEF finish_run
    <2>3. CASE after.event # "none"
      <3>1. events' = append_job_event(events, j, after.event, rn[r].task[2])
        BY <2>3 DEF finish_run
      <3>2. QED
        BY <3>1, <2>1, <2>3, <1>1, AppendEventType
    <2>4. QED
      BY <2>2, <2>3
  <1>6. QED
    BY <1>3, <1>4, <1>5

\* Every row written by commit_terminal has its type
LEMMA CommitTerminalType ==
    ASSUME NEW jb \in [Jobs -> JobRow], NEW rn \in [Resources -> RunRow],
           NEW tk \in [Tasks -> TaskRow], events \in [Jobs -> Seq(Event)],
           NEW r \in Resources, NEW t \in Tasks, NEW from, NEW end \in RunEnds,
           commit_terminal(jb, rn, tk, r, t, from, end)
    PROVE  TypeOK'
  <1> DEFINE cause == StopCauseOf(rn[r])
             last  == IsLast(jb[rn[r].job].spec, rn[r].step)
             class == classify(end, cause, last)
  <1>1. cause \in Causes \cup {NoCause} /\ last \in BOOLEAN
    BY StopCauseType DEF IsLast
  <1> HIDE DEF cause, last
  <1>2. class.outcome \in TaskStatuses /\ class.move \in Moves
    BY <1>1, ClassifyType DEF TaskStatuses
  <1>3. task' = [tk EXCEPT ![t].status = class.outcome] /\ finish_run(jb, rn, r, class.move)
    BY DEF commit_terminal, cause, last
  <1> HIDE DEF class
  <1>4. task' \in [Tasks -> TaskRow]
    BY <1>2, <1>3 DEF TaskRow
  <1>5. job' \in [Jobs -> JobRow] /\ run' \in [Resources -> RunRow]
        /\ events' \in [Jobs -> Seq(Event)]
    BY <1>2, <1>3, FinishRunType
  <1>6. QED
    BY <1>4, <1>5 DEF TypeOK

\* The row of a fresh reservation
LEMMA LaunchingRowType ==
    ASSUME NEW j \in Jobs, NEW t \in Tasks, NEW step \in Nat, NEW resume \in BOOLEAN
    PROVE  [IdleRun EXCEPT !.phase = "launching", !.job = j, !.task = t,
                           !.step = step, !.resume = resume] \in RunRow
  BY DEF IdleRun, RunRow, Phases, HoldingPhases

\* The tables as reserve_run leaves them
LEMMA ReservedType ==
    ASSUME TypeOK, NEW j \in Jobs, NEW r \in Resources, MayReserve(j, r)
    PROVE  /\ <<j, job[j].runs + 1>> \in Tasks
           /\ ReservedJob(j, r) \in [Jobs -> JobRow]
           /\ ReservedRun(j, r) \in [Resources -> RunRow]
           /\ ReservedTask(j) \in [Tasks -> TaskRow]
  <1>1. job[j] \in JobRow /\ job[j].runs \in 0..MaxRuns /\ job[j].spec \in Specs
        /\ job[j].step \in Nat /\ job[j].resume \in BOOLEAN
    BY DEF TypeOK, JobRow
  <1>2. job[j].spec.limit \in Nat /\ job[j].spec.limit <= MaxRuns
    BY <1>1, RulesAssumption, StoreAssumption
       DEF RulesAssumption, StoreAssumption, SpecType
  <1>3. job[j].runs + 1 \in 1..MaxRuns /\ job[j].runs + 1 \in 0..MaxRuns
    BY <1>1, <1>2, StoreAssumption DEF MayReserve, StoreAssumption
  <1>4. <<j, job[j].runs + 1>> \in Tasks
    BY <1>3 DEF Tasks
  <1>5. ReservedJob(j, r) \in [Jobs -> JobRow]
    <2>1. [job[j] EXCEPT !.state = "active", !.resource = r, !.resume = FALSE,
                         !.runs = job[j].runs + 1] \in JobRow
      BY <1>1, <1>3 DEF JobRow, JobStates
    <2>2. QED
      BY <2>1 DEF ReservedJob, TypeOK
  <1>6. ReservedRun(j, r) \in [Resources -> RunRow]
    <2>1. [IdleRun EXCEPT !.phase = "launching", !.job = j,
                          !.task = <<j, job[j].runs + 1>>,
                          !.step = job[j].step, !.resume = job[j].resume] \in RunRow
      BY <1>1, <1>4, LaunchingRowType
    <2>2. QED
      BY <2>1 DEF ReservedRun, TypeOK
  <1>7. ReservedTask(j) \in [Tasks -> TaskRow]
    BY <1>4 DEF ReservedTask, TypeOK, TaskRow, AbsentTask, TaskStatuses
  <1>8. QED
    BY <1>4, <1>5, <1>6, <1>7

\* The cancellation marker, and the commit when no worker claimed the task
LEMMA CancelInnerType ==
    ASSUME TypeOK, NEW rn \in [Resources -> RunRow], NEW r \in Resources,
           NEW t \in Tasks, request_cancel_inner(rn, r, t)
    PROVE  TypeOK'
  <1> DEFINE marked == [task EXCEPT ![t].cancel = TRUE]
  <1>1. marked \in [Tasks -> TaskRow]
    BY DEF TypeOK, TaskRow
  <1> HIDE DEF marked
  <1>2. CASE task[t].status = "queued"
    <2>1. commit_terminal(job, rn, marked, r, t, "queued", "cancelled")
      BY <1>2 DEF request_cancel_inner, marked
    <2>2. QED
      BY <1>1, <2>1, CommitTerminalType DEF TypeOK, RunEnds
  <1>3. CASE task[t].status # "queued"
    BY <1>1, <1>3 DEF request_cancel_inner, marked, TypeOK
  <1>4. QED
    BY <1>2, <1>3

\* Init makes well-typed, empty tables
LEMMA InitType == Init => TypeOK
  <1> SUFFICES ASSUME Init PROVE TypeOK
    OBVIOUS
  <1>1. NoSpec \in Specs /\ NoSpec.priority \in Priorities
    BY RulesAssumption DEF RulesAssumption, NoSpec, SpecType
  <1>2. AbsentJob \in JobRow
    BY <1>1, StoreAssumption DEF AbsentJob, JobRow, JobStates, StoreAssumption
  <1>3. IdleRun \in RunRow
    BY DEF IdleRun, RunRow, Phases
  <1>4. AbsentTask \in TaskRow
    BY DEF AbsentTask, TaskRow, TaskStatuses
  <1>5. QED
    BY <1>2, <1>3, <1>4 DEF Init, TypeOK

\* Requests keep the tables well-typed
LEMMA RequestsType ==
    ASSUME TypeOK, Requests
    PROVE  TypeOK'
  <1> USE DEF TypeOK
  <1>1. ASSUME NEW m \in Submissions, submit_job(m[1], m[2]) PROVE TypeOK'
    <2> DEFINE j == m[1]
               s == m[2]
               n == Cardinality(level(job, s.priority)) + 1
    <2>1. j \in Jobs /\ s \in Specs /\ s.priority \in Priorities
      BY StoreAssumption, RulesAssumption DEF StoreAssumption, RulesAssumption, SpecType
    <2>2. n \in Nat
      BY FiniteLevels DEF level
    <2>3. job' = [job EXCEPT ![j] =
                    [ state |-> "queued", spec |-> s, priority |-> s.priority,
                      position |-> n, resource |-> NoResource, step |-> 0,
                      resume |-> FALSE, runs |-> 0 ]]
      BY <1>1 DEF submit_job
    <2> HIDE DEF n, s, j
    <2>4. job' \in [Jobs -> JobRow]
      BY <2>1, <2>2, <2>3, StoreAssumption DEF JobRow, JobStates, StoreAssumption
    <2>5. QED
      BY <1>1, <2>4 DEF submit_job
  <1>2. ASSUME NEW j \in Movable, NEW p \in Priorities, NEW front \in BOOLEAN,
               move_to_edge(j, p, front)
        PROVE  TypeOK'
    <2> DEFINE index == IF front THEN 0 ELSE Cardinality(level(job, p) \ {j})
    <2>1. index \in Nat /\ j \in Jobs
      BY FiniteLevels, StoreAssumption DEF level, StoreAssumption
    <2>2. job' = write_levels(job, j, p, index)
      BY <1>2 DEF move_to_edge
    <2> HIDE DEF index
    <2>3. index \in Int /\ index + 1 \in Nat
      BY <2>1
    <2>4. job' \in [Jobs -> JobRow]
      BY <2>1, <2>2, <2>3, WriteLevelsKeeps
    <2>5. QED
      BY <1>2, <2>4 DEF move_to_edge
  <1>3. ASSUME NEW j \in Movable, NEW k \in Jobs, NEW before \in BOOLEAN,
               NEW p \in Priorities, move_next_to(j, k, before, p)
        PROVE  TypeOK'
    <2> DEFINE at == Place(job, level(job, p) \ {j}, k)
               index == IF before THEN at - 1 ELSE at
    <2>1. at \in Nat /\ j \in Jobs
      BY FiniteLevels, StoreAssumption DEF Place, level, StoreAssumption
    <2>2. index \in Int /\ index + 1 \in Nat
      BY <2>1
    <2>3. job' = write_levels(job, j, p, index)
      BY <1>3 DEF move_next_to
    <2> HIDE DEF index
    <2>4. job' \in [Jobs -> JobRow]
      BY <2>1, <2>2, <2>3, WriteLevelsKeeps
    <2>5. QED
      BY <1>3, <2>4 DEF move_next_to
  <1>4. ASSUME NEW j \in Jobs, cancel_queued_job(j) PROVE TypeOK'
    <2> DEFINE ended == [job EXCEPT ![j].state = "cancelled", ![j].resume = FALSE]
    <2>1. ended \in [Jobs -> JobRow]
      <3>1. [job[j] EXCEPT !.state = "cancelled", !.resume = FALSE] \in JobRow
        BY CancelledRowType DEF TypeOK
      <3>2. ended = [job EXCEPT ![j] = [job[j] EXCEPT !.state = "cancelled",
                                                      !.resume = FALSE]]
        BY DEF TypeOK
      <3>3. QED
        BY <3>1, <3>2 DEF TypeOK
    <2>2. job' = renumber_level(ended, j)
      BY <1>4 DEF cancel_queued_job
    <2> HIDE DEF ended
    <2>3. job' \in [Jobs -> JobRow]
      BY <2>1, <2>2, RenumberKeeps
    <2>4. events' \in [Jobs -> Seq(Event)]
      <3>1. 0 \in 0..MaxRuns /\ "cancelled" \in EventKinds
        BY StoreAssumption DEF StoreAssumption, EventKinds
      <3>2. events' = append_job_event(events, j, "cancelled", 0)
        BY <1>4 DEF cancel_queued_job
      <3>3. QED
        BY <3>1, <3>2, AppendEventType
    <2>5. QED
      BY <1>4, <2>3, <2>4 DEF cancel_queued_job
  <1>5. ASSUME NEW j \in Jobs, cancel_active_job(j) PROVE TypeOK'
    <2> DEFINE r == job[j].resource
    <2>1. run' = [run EXCEPT ![r] = request_stop(run[r], "user_cancel")]
      BY <1>5 DEF cancel_active_job
    <2>2. run' \in [Resources -> RunRow]
      BY <2>1, RequestStopType DEF Causes
    <2>3. QED
      BY <1>5, <2>2 DEF cancel_active_job
  <1>6. ASSUME NEW r \in Resources, NEW t \in Tasks, release_resource_attention(r, t)
        PROVE  TypeOK'
    BY <1>6, IdleRowType DEF release_resource_attention
  <1>7. ASSUME NEW r \in Resources, NEW t \in Tasks, request_cancel(r, t)
        PROVE  TypeOK'
    <2> DEFINE rn == [run EXCEPT ![r] = request_stop(run[r], "user_cancel")]
    <2>1. rn \in [Resources -> RunRow]
      BY RequestStopType DEF Causes
    <2>2. request_cancel_inner(rn, r, t)
      BY <1>7 DEF request_cancel
    <2> HIDE DEF rn
    <2>3. QED
      BY <2>1, <2>2, CancelInnerType
  <1>8. QED
    BY <1>1, <1>2, <1>3, <1>4, <1>5, <1>6, <1>7 DEF Requests, cancel_job

\* A run that may be stopped is stopped by a yield or a restart
LEMMA StopAtType ==
    ASSUME NEW spec \in Specs, NEW young \in BOOLEAN
    PROVE  stop_at(spec, young) \in {"yield", "restart", NoCause}
  <1>1. spec.mode \in Modes /\ spec.window \in BOOLEAN
    BY RulesAssumption DEF RulesAssumption, SpecType
  <1>2. CASE spec.mode = "restart"
    BY <1>2 DEF stop_at, NoCause
  <1>3. CASE spec.mode = "yield"
    BY <1>1, <1>3 DEF stop_at, NoCause
  <1>4. CASE spec.mode = "wait"
    BY <1>1, <1>4 DEF stop_at, NoCause
  <1>5. QED
    BY <1>1, <1>2, <1>3, <1>4 DEF Modes

\* Among runs that may be stopped there is one preferred to all of them
LEMMA VictimExists ==
    ASSUME TypeOK, NEW young, NEW C \in SUBSET Resources, C # {},
           \A x \in C : run[x].job \in Jobs
    PROVE  \E x \in C : \A y \in C : PreferredVictim(job, run, young, x, y)
  <1> DEFINE Level(x) == job[run[x].job].priority
             Cost(x)  == IF stop_at(job[run[x].job].spec, x \in young) = "restart"
                         THEN 0 ELSE 1
             Start(x) == run[x].started
  <1>1. \A x \in C : Level(x) \in Nat
    <2>1. \A j \in Jobs : job[j].priority \in Priorities
      BY DEF TypeOK, JobRow
    <2>2. Priorities \subseteq Nat
      BY RulesAssumption DEF RulesAssumption
    <2>3. QED
      BY <2>1, <2>2
  <1>2. \A x \in C : Cost(x) \in Nat
    OBVIOUS
  <1>3. \A x \in C : Start(x) \in Nat /\ x \in Nat
    BY RulesAssumption DEF RulesAssumption, TypeOK, RunRow
  <1>4. \A x, y \in C :
          (\/ Level(x) < Level(y)
           \/ /\ Level(x) = Level(y)
              /\ \/ Cost(x) < Cost(y)
                 \/ /\ Cost(x) = Cost(y)
                    /\ Start(x) > Start(y) \/ (Start(x) = Start(y) /\ x <= y))
          => PreferredVictim(job, run, young, x, y)
    BY DEF PreferredVictim
  <1>5. IsFiniteSet(C)
    BY RulesAssumption, FS_Subset DEF RulesAssumption
  <1> HIDE DEF Level, Cost, Start
  <1>6. PICK l \in {Level(x) : x \in C} : \A k \in {Level(x) : x \in C} : l <= k
    <2>1. {Level(x) : x \in C} \in SUBSET Nat /\ {Level(x) : x \in C} # {}
      BY <1>1
    <2>2. QED
      BY <2>1, NatMin
  <1> DEFINE C1 == {x \in C : Level(x) = l}
  <1>7. PICK c \in {Cost(x) : x \in C1} : \A k \in {Cost(x) : x \in C1} : c <= k
    <2>1. {Cost(x) : x \in C1} \in SUBSET Nat /\ {Cost(x) : x \in C1} # {}
      BY <1>2, <1>6
    <2>2. QED
      BY <2>1, NatMin
  <1> DEFINE C2 == {x \in C1 : Cost(x) = c}
  <1>8. PICK m \in {Start(x) : x \in C2} : \A k \in {Start(x) : x \in C2} : k <= m
    <2>1. {Start(x) : x \in C2} \in SUBSET Nat /\ {Start(x) : x \in C2} # {}
      BY <1>3, <1>7
    <2>2. IsFiniteSet(C2)
      BY <1>5, FS_Subset
    <2>3. IsFiniteSet({Start(x) : x \in C2})
      <3>1. [x \in C2 |-> Start(x)] \in Surjection(C2, {Start(x) : x \in C2})
        BY DEF Surjection
      <3>2. QED
        BY <2>2, <3>1, FS_Surjection
    <2>4. QED
      BY <2>1, <2>3, NatMax
  <1> DEFINE C3 == {x \in C2 : Start(x) = m}
  <1>9. PICK x \in C3 : \A y \in C3 : x <= y
    <2>1. C3 \in SUBSET Nat /\ C3 # {}
      BY <1>3, <1>8
    <2>2. QED
      BY <2>1, NatMin
  <1>10. x \in C /\ Level(x) = l /\ Cost(x) = c /\ Start(x) = m
    BY <1>9
  <1>11. ASSUME NEW y \in C PROVE PreferredVictim(job, run, young, x, y)
    <2>1. Level(x) <= Level(y)
      BY <1>6, <1>10
    <2>2. Level(x) = Level(y) => Cost(x) <= Cost(y)
      BY <1>7, <1>10
    <2>3. Level(x) = Level(y) /\ Cost(x) = Cost(y) => Start(y) <= Start(x)
      BY <1>8, <1>10
    <2>4. Level(x) = Level(y) /\ Cost(x) = Cost(y) /\ Start(x) = Start(y) => x <= y
      BY <1>9, <1>10
    <2>5. /\ Level(x) \in Nat /\ Level(y) \in Nat /\ Cost(x) \in Nat
          /\ Cost(y) \in Nat /\ Start(x) \in Nat /\ Start(y) \in Nat
      BY <1>1, <1>2, <1>3, <1>10
    <2>6. \/ Level(x) < Level(y)
          \/ /\ Level(x) = Level(y)
             /\ \/ Cost(x) < Cost(y)
                \/ /\ Cost(x) = Cost(y)
                   /\ Start(x) > Start(y) \/ (Start(x) = Start(y) /\ x <= y)
      BY <2>1, <2>2, <2>3, <2>4, <2>5
    <2>7. QED
      BY <2>6, <1>4, <1>10
  <1>12. QED
    BY <1>10, <1>11

\* A preemption stops an executing run of the store, by a yield or a restart
\* (queue/schedule.rs: preempt_for)
LEMMA DecisionCause ==
    ASSUME TypeOK, Owned(run),
           NEW young, NEW stop, stop # NoStop,
           decide(job, run, young).preemption = stop
    PROVE  /\ stop.cause \in {"yield", "restart"}
           /\ stop.resource \in Resources
           /\ run[stop.resource].phase = "executing"
  <1>1. PICK w : stop = preempt_for(job, run, young, w)
    BY DEF decide
  <1> DEFINE C == Candidates(job, run, young, w)
             r == CHOOSE x \in C : \A y \in C : PreferredVictim(job, run, young, x, y)
  <1>2. C # {}
    BY <1>1 DEF preempt_for
  <1>3. C \in SUBSET Resources /\ \A x \in C : run[x].job \in Jobs
    BY DEF Candidates, Owned
  <1>4. r \in C
    <2> HIDE DEF C
    <2>1. \E x \in C : \A y \in C : PreferredVictim(job, run, young, x, y)
      BY <1>2, <1>3, VictimExists
    <2>2. QED
      BY <2>1
  <1>5. stop = [resource |-> r, task |-> run[r].task,
                cause |-> stop_at(job[run[r].job].spec, r \in young)]
    BY <1>1, <1>2 DEF preempt_for
  <1> HIDE DEF r
  <1>6. /\ r \in Resources /\ run[r].phase = "executing"
        /\ stop_at(job[run[r].job].spec, r \in young) # NoCause
    BY <1>4 DEF Candidates
  <1>7. job[run[r].job].spec \in Specs /\ (r \in young) \in BOOLEAN
    BY <1>3, <1>4 DEF TypeOK, JobRow
  <1>8. stop_at(job[run[r].job].spec, r \in young) \in {"yield", "restart"}
    BY <1>6, <1>7, StopAtType
  <1>9. QED
    BY <1>5, <1>6, <1>8

\* A recorded start is a number
LEMMA StartType ==
    ASSUME TypeOK
    PROVE  NextStart \in Nat \ {0}
  <1> DEFINE S == {run[r].started : r \in Resources} \cup {0}
  <1>1. \A r \in Resources : run[r].started \in Nat
    BY DEF TypeOK, RunRow
  <1>2. S \in SUBSET Nat /\ S # {}
    BY <1>1
  <1>3. IsFiniteSet({run[r].started : r \in Resources})
    <2>1. [r \in Resources |-> run[r].started]
            \in Surjection(Resources, {run[r].started : r \in Resources})
      BY DEF Surjection
    <2>2. QED
      BY <2>1, RulesAssumption, FS_Surjection DEF RulesAssumption
  <1>4. IsFiniteSet(S)
    BY <1>3, FS_AddElement
  <1> HIDE DEF S
  <1>5. \E m \in S : \A n \in S : n <= m
    BY <1>2, <1>4, NatMax
  <1> DEFINE top == CHOOSE m \in S : \A n \in S : n <= m
  <1>6. top \in S
    BY <1>5
  <1>7. NextStart = 1 + top
    BY DEF NextStart, S
  <1> HIDE DEF top
  <1>8. QED
    BY <1>2, <1>6, <1>7

\* Calls of the queue actor keep the tables well-typed
LEMMA ActorCallsType ==
    ASSUME TypeOK, Owned(run), ActorCalls
    PROVE  TypeOK'
  <1> USE DEF TypeOK
  <1>1. ASSUME NEW j \in Jobs, NEW r \in Resources, reserve_run(j, r) PROVE TypeOK'
    <2>1. MayReserve(j, r)
      BY <1>1 DEF reserve_run
    <2>2. /\ ReservedJob(j, r) \in [Jobs -> JobRow]
          /\ ReservedRun(j, r) \in [Resources -> RunRow]
          /\ ReservedTask(j) \in [Tasks -> TaskRow]
      BY <2>1, ReservedType
    <2>3. QED
      BY <1>1, <2>2 DEF reserve_run
  <1>2. ASSUME NEW j \in Jobs, NEW r \in Resources, fail_job_launch(j, r) PROVE TypeOK'
    <2>1. /\ MayReserve(j, r)
          /\ commit_terminal(ReservedJob(j, r), ReservedRun(j, r), ReservedTask(j),
                             r, <<j, job[j].runs + 1>>, "queued", "other")
      BY <1>2 DEF fail_job_launch
    <2>2. "other" \in RunEnds
      BY DEF RunEnds
    <2>3. QED
      BY <2>1, <2>2, ReservedType, CommitTerminalType
  <1>3. ASSUME NEW r \in Resources, NEW t \in Tasks, abandon_launch(r, t) PROVE TypeOK'
    <2>1. task' \in [Tasks -> TaskRow]
      BY <1>3 DEF abandon_launch, TaskRow, TaskStatuses, TerminalStatus
    <2>2. finish_run(job, run, r, "abandoned")
      BY <1>3 DEF abandon_launch
    <2>3. QED
      BY <2>1, <2>2, FinishRunType
  <1>4. ASSUME NEW young \in SUBSET Resources,
               NEW stop, commit_preemption(stop, young)
        PROVE  TypeOK'
    <2>1. stop.cause \in Causes
      <3>1. stop # NoStop /\ decide(job, run, young).preemption = stop
        BY <1>4 DEF commit_preemption
      <3>2. stop.cause \in {"yield", "restart"}
        BY <3>1, DecisionCause
      <3>3. QED
        BY <3>2 DEF Causes
    <2>2. run' = [run EXCEPT ![stop.resource] =
                    request_stop(run[stop.resource], stop.cause)]
      BY <1>4 DEF commit_preemption
    <2>3. run' \in [Resources -> RunRow]
      BY <2>1, <2>2, RequestStopType
    <2>4. QED
      BY <1>4, <2>3 DEF commit_preemption
  <1>5. ASSUME NEW r \in Resources, NEW t \in Tasks, signal_committed_run_stop(r, t)
        PROVE  TypeOK'
    BY <1>5, CancelInnerType DEF signal_committed_run_stop
  <1>6. ASSUME NEW r \in Resources, NEW t \in Tasks, begin_cleanup_attempt(r, t)
        PROVE  TypeOK'
    <2>1. run[r] \in RunRow /\ run[r].attempt + 1 \in Nat
      BY DEF RunRow
    <2> DEFINE n == run[r].attempt + 1
    <2>2. [run[r] EXCEPT !.attempt = n] \in RunRow
      <3> HIDE DEF n
      <3>1. "cleaning" \in Phases /\ n \in Nat
        BY <2>1 DEF Phases, n
      <3>2. QED
        BY <2>1, <3>1, StartedRowType
    <2>3. run' = [run EXCEPT ![r] = [run[r] EXCEPT !.attempt = run[r].attempt + 1]]
      BY <1>6 DEF begin_cleanup_attempt
    <2>4. QED
      BY <1>6, <2>2, <2>3 DEF begin_cleanup_attempt
  <1>7. ASSUME NEW r \in Resources, NEW t \in Tasks, NEW n \in 1..MaxAttempts,
               NEW ok \in BOOLEAN, apply_cleanup_result(r, t, n, ok)
        PROVE  TypeOK'
    <2>1. CASE ok
      BY <1>7, <2>1, IdleRowType DEF apply_cleanup_result
    <2>2. CASE ~ok
      <3>1. run' \in [Resources -> RunRow]
        BY <1>7, <2>2 DEF apply_cleanup_result, RunRow, Phases
      <3>2. t[2] \in 0..MaxRuns /\ "attention" \in EventKinds
        BY TaskNumber DEF EventKinds
      <3>3. events' = append_job_event(events, run[r].job, "attention", t[2])
        BY <1>7, <2>2 DEF apply_cleanup_result
      <3>4. events' \in [Jobs -> Seq(Event)]
        BY <3>2, <3>3, AppendEventType
      <3>5. QED
        BY <1>7, <3>1, <3>4 DEF apply_cleanup_result
    <2>3. QED
      BY <2>1, <2>2
  <1>8. ASSUME NEW r \in Resources, NEW t \in Tasks, produce_job_check_due(r, t)
        PROVE  TypeOK'
    <2>1. task' \in [Tasks -> TaskRow]
      BY <1>8 DEF produce_job_check_due, TaskRow
    <2>2. t[2] \in 0..MaxRuns /\ "check_due" \in EventKinds
      BY TaskNumber DEF EventKinds
    <2>3. events' = append_job_event(events, run[r].job, "check_due", t[2])
      BY <1>8 DEF produce_job_check_due
    <2>4. events' \in [Jobs -> Seq(Event)]
      BY <2>2, <2>3, AppendEventType
    <2>5. QED
      BY <1>8, <2>1, <2>4 DEF produce_job_check_due
  <1>9. QED
    BY <1>1, <1>2, <1>3, <1>4, <1>5, <1>6, <1>7, <1>8 DEF ActorCalls

\* Calls of the workers keep the tables well-typed
LEMMA WorkerCallsType ==
    ASSUME TypeOK, WorkerCalls
    PROVE  TypeOK'
  <1> USE DEF TypeOK
  <1>1. ASSUME NEW t \in Tasks, claim_task(t) PROVE TypeOK'
    BY <1>1 DEF claim_task, TaskRow, TaskStatuses
  <1>2. ASSUME NEW r \in Resources, NEW t \in Tasks, mark_run_executing(r, t)
        PROVE  TypeOK'
    <2>1. NextStart \in Nat
      BY StartType
    <2>2. run' \in [Resources -> RunRow]
      <3>1. run[r] \in RunRow /\ "executing" \in Phases
        BY DEF Phases, HoldingPhases
      <3>2. /\ [run[r] EXCEPT !.phase = "executing", !.started = NextStart] \in RunRow
            /\ [run[r] EXCEPT !.started = NextStart] \in RunRow
        BY <2>1, <3>1, StartedRowType
      <3>3. \/ run' = [run EXCEPT ![r] = [run[r] EXCEPT !.phase = "executing",
                                                       !.started = NextStart]]
            \/ run' = [run EXCEPT ![r] = [run[r] EXCEPT !.started = NextStart]]
            \/ run' = run
        BY <1>2 DEF mark_run_executing
      <3>4. QED
        BY <3>2, <3>3
    <2>3. QED
      BY <1>2, <2>2 DEF mark_run_executing
  <1>3. ASSUME NEW r \in Resources, NEW t \in Tasks, NEW from, NEW end \in RunEnds,
               commit_job_run_exit(r, t, from, end)
        PROVE  TypeOK'
    BY <1>3, CommitTerminalType DEF commit_job_run_exit
  <1>4. ASSUME NEW r \in Resources, NEW t \in Tasks, NEW from, commit_lost(r, t, from)
        PROVE  TypeOK'
    BY <1>4, CommitTerminalType DEF commit_lost, RunEnds
  <1>5. QED
    BY <1>1, <1>2, <1>3, <1>4 DEF WorkerCalls

-----------------------------------------------------------------------------
(* The tables stay tied together *)

\* A change that touches neither the phases' kind nor the owners keeps the ties
LEMMA SameHolders ==
    ASSUME NEW jb, NEW rn, NEW tk, NEW jb2, NEW rn2, NEW tk2, Consistent(jb, rn, tk),
           \A r \in Resources :
              \/ rn2[r] = rn[r]
              \/ /\ rn2[r].job = rn[r].job /\ rn2[r].task = rn[r].task
                 /\ HoldsJob(rn2[r]) <=> HoldsJob(rn[r])
                 /\ rn[r].phase # "idle" /\ rn2[r].phase # "idle",
           \A j \in Jobs :
              \/ jb[j].state # "active" /\ jb2[j].state # "active"
              \/ jb2[j].state = jb[j].state /\ jb2[j].resource = jb[j].resource,
           \A t \in Tasks : tk2[t].status \in {"queued", "running"}
                              <=> tk[t].status \in {"queued", "running"}
    PROVE  Consistent(jb2, rn2, tk2)
  <1>1. Owned(rn2)
    BY DEF Consistent, Owned
  <1>2. Single(rn2)
    BY DEF Consistent, Single
  <1>3. Held(jb2, rn2)
    BY DEF Consistent, Held
  <1>4. Live(rn2, tk2)
    BY DEF Consistent, Live
  <1>5. QED
    BY <1>1, <1>2, <1>3, <1>4 DEF Consistent

\* A settled resource becomes idle
LEMMA FreedResource ==
    ASSUME NEW jb, NEW rn \in [Resources -> RunRow], NEW tk, Consistent(jb, rn, tk),
           NEW r \in Resources, ~HoldsJob(rn[r])
    PROVE  Consistent(jb, [rn EXCEPT ![r] = IdleRun], tk)
  <1> DEFINE rn2 == [rn EXCEPT ![r] = IdleRun]
  <1>1. rn2[r] = IdleRun /\ \A s \in Resources : s # r => rn2[s] = rn[s]
    OBVIOUS
  <1>2. IdleRun.phase = "idle" /\ IdleRun.job \notin Jobs /\ ~HoldsJob(IdleRun)
    BY StoreAssumption DEF StoreAssumption, IdleRun, HoldsJob, HoldingPhases
  <1> HIDE DEF rn2
  <1>3. Owned(rn2)
    BY <1>1, <1>2 DEF Consistent, Owned
  <1>4. Single(rn2)
    BY <1>1, <1>2 DEF Consistent, Single, Owned
  <1>5. Held(jb, rn2)
    BY <1>1, <1>2 DEF Consistent, Held
  <1>6. Live(rn2, tk)
    BY <1>1, <1>2 DEF Consistent, Live
  <1>7. QED
    BY <1>3, <1>4, <1>5, <1>6 DEF Consistent, rn2

\* The end of a run: its job and its task leave together
LEMMA EndedRun ==
    ASSUME NEW jb, NEW rn, NEW tk, NEW jb2, NEW rn2, NEW tk2, Consistent(jb, rn, tk),
           NEW r \in Resources, HoldsJob(rn[r]),
           rn2[r].job = rn[r].job, rn2[r].task = rn[r].task, rn2[r].phase = "cleaning",
           \A s \in Resources : s # r => rn2[s] = rn[s],
           jb2[rn[r].job].state # "active",
           \A j \in Jobs : j # rn[r].job => jb2[j].state = jb[j].state
                                            /\ jb2[j].resource = jb[j].resource,
           tk2[rn[r].task].status \notin {"queued", "running"},
           \A t \in Tasks : t # rn[r].task => tk2[t].status = tk[t].status
    PROVE  Consistent(jb2, rn2, tk2)
  <1>1. rn[r].phase # "idle" /\ ~HoldsJob(rn2[r])
    BY DEF HoldsJob, HoldingPhases
  <1>2. \A s \in Resources : s # r => rn[s].job # rn[r].job
    BY <1>1 DEF Consistent, Single
  <1>3. \A s \in Resources : s # r /\ HoldsJob(rn[s]) => rn[s].task # rn[r].task
    BY <1>1, <1>2 DEF Consistent, Owned, HoldsJob, HoldingPhases
  <1>4. Owned(rn2)
    BY <1>1 DEF Consistent, Owned
  <1>5. Single(rn2)
    BY <1>1, <1>2 DEF Consistent, Single
  <1>6. Held(jb2, rn2)
    BY <1>1, <1>2 DEF Consistent, Held
  <1>7. Live(rn2, tk2)
    BY <1>1, <1>3 DEF Consistent, Live
  <1>8. QED
    BY <1>4, <1>5, <1>6, <1>7 DEF Consistent

\* A reservation: an idle resource takes a queued job no run belongs to, and
\* a task of it
LEMMA StartedRun ==
    ASSUME NEW jb, NEW rn, NEW tk, NEW jb2, NEW rn2, NEW tk2, Consistent(jb, rn, tk),
           NEW r \in Resources, NEW j \in Jobs, NEW t \in Tasks, t[1] = j,
           rn[r].phase = "idle", jb[j].state # "active",
           \A s \in Resources : rn[s].job # j,
           rn2[r].phase = "launching", rn2[r].job = j, rn2[r].task = t,
           \A s \in Resources : s # r => rn2[s] = rn[s],
           jb2[j].state = "active", jb2[j].resource = r,
           \A k \in Jobs : k # j => jb2[k] = jb[k],
           tk2[t].status = "queued",
           \A u \in Tasks : u # t => tk2[u] = tk[u]
    PROVE  Consistent(jb2, rn2, tk2)
  <1>1. HoldsJob(rn2[r]) /\ ~HoldsJob(rn[r])
    BY DEF HoldsJob, HoldingPhases
  <1>2. Owned(rn2)
    BY DEF Consistent, Owned
  <1>3. Single(rn2)
    BY DEF Consistent, Single
  <1>4. Held(jb2, rn2)
    BY <1>1 DEF Consistent, Held
  <1>5. Live(rn2, tk2)
    BY <1>1 DEF Consistent, Live
  <1>6. QED
    BY <1>2, <1>3, <1>4, <1>5 DEF Consistent

\* What finish_run does to the jobs and the run
LEMMA FinishRunMoves ==
    ASSUME NEW jb \in [Jobs -> JobRow], NEW rn \in [Resources -> RunRow],
           NEW r \in Resources, rn[r].job \in Jobs,
           NEW move \in Moves \cup {"abandoned"}, finish_run(jb, rn, r, move)
    PROVE  /\ job'[rn[r].job].state # "active"
           /\ \A k \in Jobs : k # rn[r].job =>
                job'[k].state = jb[k].state /\ job'[k].resource = jb[k].resource
           /\ run'[r].job = rn[r].job /\ run'[r].task = rn[r].task
           /\ run'[r].phase = "cleaning"
           /\ \A s \in Resources : s # r => run'[s] = rn[s]
  <1> DEFINE j == rn[r].job
             after == AfterRun(rn[r], move)
             row == [jb[j] EXCEPT !.state = after.state, !.resource = NoResource,
                                  !.step = after.step, !.resume = after.resume]
             moved == [jb EXCEPT ![j] = row]
  <1>1. /\ after.state \in {"queued"} \cup TerminalJob /\ after.step \in Nat
        /\ after.resume \in BOOLEAN
    BY AfterRunType
  <1>2. job' = renumber_level(moved, j) \/ job' = moved
    BY DEF finish_run
  <1>3. run' = [rn EXCEPT ![r] = [rn[r] EXCEPT !.phase = "cleaning", !.started = 0,
                                   !.cause = NoCause, !.attempt = 1]]
    BY DEF finish_run
  <1> HIDE DEF after
  <1>4. after.state \in JobStates /\ after.state # "active"
    BY <1>1 DEF JobStates, TerminalJob
  <1>5. row \in JobRow /\ row.state = after.state
    <2>1. jb[j] \in JobRow
      OBVIOUS
    <2>2. row \in JobRow
      BY <2>1, <1>1, <1>4, EndedRowType
    <2>3. QED
      BY <2>1, <2>2 DEF JobRow
  <1> HIDE DEF row
  <1>6. moved \in [Jobs -> JobRow] /\ moved[j] = row
        /\ \A k \in Jobs : k # j => moved[k] = jb[k]
    BY <1>5
  <1> HIDE DEF moved
  <1>7. \A k \in Jobs : job'[k].state = moved[k].state
                        /\ job'[k].resource = moved[k].resource
    BY <1>2, <1>6, RenumberKeeps
  <1>8. rn[r] \in RunRow
    OBVIOUS
  <1>9. QED
    BY <1>3, <1>4, <1>5, <1>6, <1>7, <1>8 DEF RunRow

\* The terminal commit keeps the ties (runs.rs: commit_terminal)
LEMMA CommitTerminalTies ==
    ASSUME NEW jb \in [Jobs -> JobRow], NEW rn \in [Resources -> RunRow],
           NEW tk \in [Tasks -> TaskRow], Consistent(jb, rn, tk),
           NEW r \in Resources, NEW t \in Tasks, NEW from, NEW end \in RunEnds,
           commit_terminal(jb, rn, tk, r, t, from, end)
    PROVE  Consistent(job, run, task)'
  <1> DEFINE cause == StopCauseOf(rn[r])
             last  == IsLast(jb[rn[r].job].spec, rn[r].step)
             class == classify(end, cause, last)
  <1>1. cause \in Causes \cup {NoCause} /\ last \in BOOLEAN
    BY StopCauseType DEF IsLast
  <1>2. /\ task' = [tk EXCEPT ![t].status = class.outcome]
        /\ finish_run(jb, rn, r, class.move)
        /\ rn[r].task = t /\ HoldsJob(rn[r])
    BY DEF commit_terminal
  <1> HIDE DEF cause, last
  <1>3. class.outcome \in TerminalStatus /\ class.move \in Moves
    BY <1>1, ClassifyType
  <1> HIDE DEF class
  <1>4. rn[r].job \in Jobs
    BY <1>2 DEF Consistent, Owned, HoldsJob, HoldingPhases
  <1>5. /\ task'[t].status \notin {"queued", "running"}
        /\ \A u \in Tasks : u # t => task'[u].status = tk[u].status
    BY <1>2, <1>3 DEF TerminalStatus, TaskRow
  <1>6. /\ job'[rn[r].job].state # "active"
        /\ \A k \in Jobs : k # rn[r].job =>
                job'[k].state = jb[k].state /\ job'[k].resource = jb[k].resource
        /\ run'[r].job = rn[r].job /\ run'[r].task = rn[r].task
        /\ run'[r].phase = "cleaning"
        /\ \A s \in Resources : s # r => run'[s] = rn[s]
    BY <1>2, <1>3, <1>4, FinishRunMoves
  <1>7. Consistent(job', run', task')
    <2>1. /\ HoldsJob(rn[r])
          /\ task'[rn[r].task].status \notin {"queued", "running"}
          /\ \A u \in Tasks : u # rn[r].task => task'[u].status = tk[u].status
      BY <1>2, <1>5
    <2>2. QED
      BY <1>6, <2>1, EndedRun, SMTT(60)
  <1>8. QED
    BY <1>7 DEF Consistent, Owned, Single, Held, Live

\* Cancelling a run task keeps the ties, whether a worker claimed it or not
LEMMA CancelInnerTies ==
    ASSUME TypeOK, NEW rn \in [Resources -> RunRow], Consistent(job, rn, task),
           NEW r \in Resources, NEW t \in Tasks, request_cancel_inner(rn, r, t)
    PROVE  Consistent(job, run, task)'
  <1> DEFINE marked == [task EXCEPT ![t].cancel = TRUE]
  <1>1. /\ marked \in [Tasks -> TaskRow]
        /\ \A u \in Tasks : marked[u].status = task[u].status
    BY DEF TypeOK, TaskRow
  <1>2. /\ task[t].status = "queued" =>
                commit_terminal(job, rn, marked, r, t, "queued", "cancelled")
        /\ task[t].status # "queued" => task' = marked /\ run' = rn /\ job' = job
    BY DEF request_cancel_inner
  <1> HIDE DEF marked
  <1>3. Consistent(job, rn, marked)
    BY <1>1, SameHolders
  <1>4. CASE task[t].status = "queued"
    <2>1. "cancelled" \in RunEnds /\ job \in [Jobs -> JobRow]
      BY DEF RunEnds, TypeOK
    <2>2. QED
      BY <1>1, <1>2, <1>3, <1>4, <2>1, CommitTerminalTies
  <1>5. CASE task[t].status # "queued"
    BY <1>2, <1>3, <1>5 DEF Consistent, Owned, Single, Held, Live
  <1>6. QED
    BY <1>4, <1>5

\* A requested stop keeps the ties: only a run that holds its job is stopped
LEMMA StopTies ==
    ASSUME TypeOK, Consistent(job, run, task), NEW r, NEW cause \in Causes,
           StopAllowed(run[r], cause)
    PROVE  Consistent(job, [run EXCEPT ![r] = request_stop(run[r], cause)], task)
  <1> DEFINE rn == [run EXCEPT ![r] = request_stop(run[r], cause)]
  <1>1. \A s \in Resources : rn[s] = IF s = r THEN request_stop(run[r], cause) ELSE run[s]
    BY DEF TypeOK
  <1>2. CASE r \in Resources
    <2>1. run[r] \in RunRow
      BY <1>2 DEF TypeOK
    <2>2. /\ request_stop(run[r], cause).phase = "stopping"
          /\ request_stop(run[r], cause).job = run[r].job
          /\ request_stop(run[r], cause).task = run[r].task
      BY <2>1, RequestStopType
    <2>3. HoldsJob(run[r]) /\ run[r].phase # "idle"
      BY DEF StopAllowed, HoldsJob, HoldingPhases
    <2>4. HoldsJob(request_stop(run[r], cause))
      BY <2>2 DEF HoldsJob, HoldingPhases
    <2> HIDE DEF rn
    <2>5. \A s \in Resources :
            \/ rn[s] = run[s]
            \/ /\ rn[s].job = run[s].job /\ rn[s].task = run[s].task
               /\ HoldsJob(rn[s]) <=> HoldsJob(run[s])
               /\ run[s].phase # "idle" /\ rn[s].phase # "idle"
      BY <1>1, <2>2, <2>3, <2>4
    <2>6. QED
      BY <2>5, SameHolders DEF rn
  <1>3. CASE r \notin Resources
    <2>1. \A s \in Resources : rn[s] = run[s]
      BY <1>1, <1>3
    <2> HIDE DEF rn
    <2>2. QED
      BY <2>1, SameHolders DEF rn
  <1>4. QED
    BY <1>2, <1>3

\* The ties depend on the tables only
LEMMA NextTies ==
    ASSUME Consistent(job', run', task')
    PROVE  Consistent(job, run, task)'
  BY DEF Consistent, Owned, Single, Held, Live

\* Init has no runs, no jobs and no tasks
LEMMA InitTies == Init => Consistent(job, run, task)
  <1> SUFFICES ASSUME Init PROVE Consistent(job, run, task)
    OBVIOUS
  <1>1. \A r \in Resources : run[r] = IdleRun
    BY DEF Init
  <1>2. \A j \in Jobs : job[j].state = "absent"
    BY DEF Init, AbsentJob
  <1>3. \A t \in Tasks : task[t].status = "absent"
    BY DEF Init, AbsentTask
  <1>4. IdleRun.phase = "idle" /\ ~HoldsJob(IdleRun)
    BY DEF IdleRun, HoldsJob, HoldingPhases
  <1>5. Owned(run) /\ Single(run)
    BY <1>1, <1>4 DEF Owned, Single
  <1>6. Held(job, run) /\ Live(run, task)
    BY <1>1, <1>2, <1>3, <1>4 DEF Held, Live
  <1>7. QED
    BY <1>5, <1>6 DEF Consistent

\* Requests keep the ties
LEMMA RequestsTies ==
    ASSUME Inv, Requests
    PROVE  Consistent(job, run, task)'
  <1> USE DEF Inv
  <1>1. ASSUME NEW m \in Submissions, submit_job(m[1], m[2])
        PROVE  Consistent(job, run, task)'
    <2>1. m[1] \in Jobs
      BY StoreAssumption DEF StoreAssumption
    <2>2. /\ job[m[1]].state = "absent" /\ job'[m[1]].state = "queued"
          /\ \A k \in Jobs : k # m[1] => job'[k] = job[k]
          /\ run' = run /\ task' = task
      BY <1>1, <2>1 DEF submit_job, TypeOK
    <2>3. Consistent(job', run, task)
      BY <2>2, SameHolders
    <2>4. QED
      BY <2>2, <2>3, NextTies
  <1>2. ASSUME NEW j \in Movable, NEW p \in Priorities, NEW front \in BOOLEAN,
               move_to_edge(j, p, front)
        PROVE  Consistent(job, run, task)'
    <2> DEFINE index == IF front THEN 0 ELSE Cardinality(level(job, p) \ {j})
    <2>1. index \in Nat /\ j \in Jobs
      BY FiniteLevels, StoreAssumption DEF level, StoreAssumption
    <2>2. job' = write_levels(job, j, p, index) /\ run' = run /\ task' = task
      BY <1>2 DEF move_to_edge
    <2> HIDE DEF index
    <2>3. index \in Int /\ index + 1 \in Nat /\ job \in [Jobs -> JobRow]
      BY <2>1 DEF TypeOK
    <2>4. \A k \in Jobs : job'[k].state = job[k].state
                          /\ job'[k].resource = job[k].resource
      BY <2>1, <2>2, <2>3, WriteLevelsKeeps
    <2>5. Consistent(job', run, task)
      BY <2>4, SameHolders
    <2>6. QED
      BY <2>2, <2>5, NextTies
  <1>3. ASSUME NEW j \in Movable, NEW k \in Jobs, NEW before \in BOOLEAN,
               NEW p \in Priorities, move_next_to(j, k, before, p)
        PROVE  Consistent(job, run, task)'
    <2> DEFINE at == Place(job, level(job, p) \ {j}, k)
               index == IF before THEN at - 1 ELSE at
    <2>1. at \in Nat /\ j \in Jobs
      BY FiniteLevels, StoreAssumption DEF Place, level, StoreAssumption
    <2>2. index \in Int /\ index + 1 \in Nat /\ job \in [Jobs -> JobRow]
      BY <2>1 DEF TypeOK
    <2>3. job' = write_levels(job, j, p, index) /\ run' = run /\ task' = task
      BY <1>3 DEF move_next_to
    <2> HIDE DEF index
    <2>4. \A i \in Jobs : job'[i].state = job[i].state
                          /\ job'[i].resource = job[i].resource
      BY <2>1, <2>2, <2>3, WriteLevelsKeeps
    <2>5. Consistent(job', run, task)
      BY <2>4, SameHolders
    <2>6. QED
      BY <2>3, <2>5, NextTies
  <1>4. ASSUME NEW j \in Jobs, cancel_queued_job(j)
        PROVE  Consistent(job, run, task)'
    <2> DEFINE ended == [job EXCEPT ![j].state = "cancelled", ![j].resume = FALSE]
    <2>1. ended \in [Jobs -> JobRow]
      <3>1. [job[j] EXCEPT !.state = "cancelled", !.resume = FALSE] \in JobRow
        BY CancelledRowType DEF TypeOK
      <3>2. ended = [job EXCEPT ![j] = [job[j] EXCEPT !.state = "cancelled",
                                                      !.resume = FALSE]]
        BY DEF TypeOK
      <3>3. QED
        BY <3>1, <3>2 DEF TypeOK
    <2>2. /\ job[j].state = "queued" /\ ended[j].state = "cancelled"
          /\ \A k \in Jobs : k # j => ended[k] = job[k]
      BY <1>4 DEF cancel_queued_job, TypeOK, JobRow
    <2>3. job' = renumber_level(ended, j) /\ run' = run /\ task' = task
      BY <1>4 DEF cancel_queued_job
    <2> HIDE DEF ended
    <2>4. \A k \in Jobs : job'[k].state = ended[k].state
                          /\ job'[k].resource = ended[k].resource
      BY <2>1, <2>3, RenumberKeeps
    <2>5. Consistent(job', run, task)
      BY <2>2, <2>4, SameHolders
    <2>6. QED
      BY <2>3, <2>5, NextTies
  <1>5. ASSUME NEW j \in Jobs, cancel_active_job(j)
        PROVE  Consistent(job, run, task)'
    <2> DEFINE r == job[j].resource
    <2>1. /\ StopAllowed(run[r], "user_cancel")
          /\ run' = [run EXCEPT ![r] = request_stop(run[r], "user_cancel")]
          /\ job' = job /\ task' = task
      BY <1>5 DEF cancel_active_job
    <2>2. "user_cancel" \in Causes
      BY DEF Causes
    <2>3. Consistent(job, run', task)
      BY <2>1, <2>2, StopTies
    <2>4. QED
      BY <2>1, <2>3, NextTies
  <1>6. ASSUME NEW r \in Resources, NEW t \in Tasks, release_resource_attention(r, t)
        PROVE  Consistent(job, run, task)'
    <2>1. /\ ~HoldsJob(run[r]) /\ run' = [run EXCEPT ![r] = IdleRun]
          /\ job' = job /\ task' = task
      BY <1>6 DEF release_resource_attention, HoldsJob, HoldingPhases
    <2>2. Consistent(job, run', task)
      BY <2>1, FreedResource DEF TypeOK
    <2>3. QED
      BY <2>1, <2>2, NextTies
  <1>7. ASSUME NEW r \in Resources, NEW t \in Tasks, request_cancel(r, t)
        PROVE  Consistent(job, run, task)'
    <2> DEFINE rn == [run EXCEPT ![r] = request_stop(run[r], "user_cancel")]
    <2>1. StopAllowed(run[r], "user_cancel") /\ request_cancel_inner(rn, r, t)
      BY <1>7 DEF request_cancel
    <2>2. "user_cancel" \in Causes
      BY DEF Causes
    <2>3. rn \in [Resources -> RunRow]
      BY <2>2, RequestStopType DEF TypeOK
    <2>4. Consistent(job, rn, task)
      BY <2>1, <2>2, StopTies
    <2> HIDE DEF rn
    <2>5. QED
      BY <2>1, <2>3, <2>4, CancelInnerTies
  <1>8. QED
    BY <1>1, <1>2, <1>3, <1>4, <1>5, <1>6, <1>7 DEF Requests, cancel_job

\* The tables of a reservation are tied together (runs.rs: reserve_run)
LEMMA ReservedTies ==
    ASSUME Inv, NEW j \in Jobs, NEW r \in Resources, MayReserve(j, r)
    PROVE  Consistent(ReservedJob(j, r), ReservedRun(j, r), ReservedTask(j))
  <1> DEFINE t == <<j, job[j].runs + 1>>
             jb2 == ReservedJob(j, r)
             rn2 == ReservedRun(j, r)
             tk2 == ReservedTask(j)
  <1>1. t \in Tasks /\ t[1] = j
    BY ReservedType DEF Inv
  <1>2. /\ run[r].phase = "idle" /\ job[j].state # "active"
        /\ \A s \in Resources : run[s].job # j
    BY DEF MayReserve
  <1>3. /\ rn2[r].phase = "launching" /\ rn2[r].job = j /\ rn2[r].task = t
        /\ \A s \in Resources : s # r => rn2[s] = run[s]
    BY DEF ReservedRun, IdleRun, Inv, TypeOK
  <1>4. /\ jb2[j].state = "active" /\ jb2[j].resource = r
        /\ \A k \in Jobs : k # j => jb2[k] = job[k]
    BY DEF ReservedJob, Inv, TypeOK, JobRow
  <1>5. /\ tk2[t].status = "queued"
        /\ \A u \in Tasks : u # t => tk2[u] = task[u]
    BY <1>1 DEF ReservedTask, AbsentTask, Inv, TypeOK
  <1>6. Consistent(job, run, task)
    BY DEF Inv
  <1> HIDE DEF t, jb2, rn2, tk2
  <1>7. Consistent(jb2, rn2, tk2)
    BY <1>1, <1>2, <1>3, <1>4, <1>5, <1>6, StartedRun, SMTT(60)
  <1>8. QED
    BY <1>7 DEF jb2, rn2, tk2

\* Calls of the queue actor keep the ties
LEMMA ActorCallsTies ==
    ASSUME Inv, ActorCalls
    PROVE  Consistent(job, run, task)'
  <1> USE DEF Inv
  <1>1. ASSUME NEW j \in Jobs, NEW r \in Resources, reserve_run(j, r)
        PROVE  Consistent(job, run, task)'
    <2>1. /\ MayReserve(j, r) /\ job' = ReservedJob(j, r)
          /\ run' = ReservedRun(j, r) /\ task' = ReservedTask(j)
      BY <1>1 DEF reserve_run
    <2>2. Consistent(job', run', task')
      BY <2>1, ReservedTies
    <2>3. QED
      BY <2>2, NextTies
  <1>2. ASSUME NEW j \in Jobs, NEW r \in Resources, fail_job_launch(j, r)
        PROVE  Consistent(job, run, task)'
    <2>1. /\ MayReserve(j, r)
          /\ commit_terminal(ReservedJob(j, r), ReservedRun(j, r), ReservedTask(j),
                             r, <<j, job[j].runs + 1>>, "queued", "other")
      BY <1>2 DEF fail_job_launch
    <2>2. "other" \in RunEnds
      BY DEF RunEnds
    <2>3. QED
      BY <2>1, <2>2, ReservedType, ReservedTies, CommitTerminalTies
  <1>3. ASSUME NEW r \in Resources, NEW t \in Tasks, abandon_launch(r, t)
        PROVE  Consistent(job, run, task)'
    <2>1. /\ run[r].phase = "launching" /\ run[r].task = t
          /\ task' = [task EXCEPT ![t].status = "failed"]
          /\ finish_run(job, run, r, "abandoned")
      BY <1>3 DEF abandon_launch, RunOn
    <2>2. HoldsJob(run[r]) /\ run[r].job \in Jobs
      BY <2>1 DEF HoldsJob, HoldingPhases, Consistent, Owned
    <2>3. /\ task'[run[r].task].status \notin {"queued", "running"}
          /\ \A u \in Tasks : u # run[r].task => task'[u].status = task[u].status
      BY <2>1 DEF TypeOK, TaskRow
    <2>4. /\ job'[run[r].job].state # "active"
          /\ \A k \in Jobs : k # run[r].job =>
                job'[k].state = job[k].state /\ job'[k].resource = job[k].resource
          /\ run'[r].job = run[r].job /\ run'[r].task = run[r].task
          /\ run'[r].phase = "cleaning"
          /\ \A s \in Resources : s # r => run'[s] = run[s]
      <3>1. /\ job \in [Jobs -> JobRow] /\ run \in [Resources -> RunRow]
            /\ "abandoned" \in Moves \cup {"abandoned"}
        BY DEF TypeOK
      <3>2. QED
        BY <2>1, <2>2, <3>1, FinishRunMoves
    <2>5. Consistent(job', run', task')
      BY <2>2, <2>3, <2>4, EndedRun, SMTT(60)
    <2>6. QED
      BY <2>5, NextTies
  <1>4. ASSUME NEW young \in SUBSET Resources,
               NEW stop, commit_preemption(stop, young)
        PROVE  Consistent(job, run, task)'
    <2>1. stop # NoStop /\ decide(job, run, young).preemption = stop
      BY <1>4 DEF commit_preemption
    <2>2. stop.cause \in Causes
      BY <2>1, DecisionCause DEF Causes, Consistent
    <2>3. /\ StopAllowed(run[stop.resource], stop.cause)
          /\ run' = [run EXCEPT ![stop.resource] =
                        request_stop(run[stop.resource], stop.cause)]
          /\ job' = job /\ task' = task
      BY <1>4 DEF commit_preemption
    <2>4. Consistent(job, run', task)
      BY <2>2, <2>3, StopTies
    <2>5. QED
      BY <2>3, <2>4, NextTies
  <1>5. ASSUME NEW r \in Resources, NEW t \in Tasks, signal_committed_run_stop(r, t)
        PROVE  Consistent(job, run, task)'
    BY <1>5, CancelInnerTies DEF signal_committed_run_stop, TypeOK
  <1>6. ASSUME NEW r \in Resources, NEW t \in Tasks, begin_cleanup_attempt(r, t)
        PROVE  Consistent(job, run, task)'
    <2>1. /\ run[r].phase = "cleaning" /\ run'[r].phase = "cleaning"
          /\ run'[r].job = run[r].job /\ run'[r].task = run[r].task
          /\ \A s \in Resources : s # r => run'[s] = run[s]
          /\ job' = job /\ task' = task
      BY <1>6 DEF begin_cleanup_attempt, TypeOK, RunRow
    <2>2. Consistent(job, run', task)
      BY <2>1, SameHolders DEF HoldsJob, HoldingPhases
    <2>3. QED
      BY <2>1, <2>2, NextTies
  <1>7. ASSUME NEW r \in Resources, NEW t \in Tasks, NEW n \in 1..MaxAttempts,
               NEW ok \in BOOLEAN, apply_cleanup_result(r, t, n, ok)
        PROVE  Consistent(job, run, task)'
    <2>1. run[r].phase = "cleaning" /\ ~HoldsJob(run[r]) /\ job' = job /\ task' = task
      BY <1>7 DEF apply_cleanup_result, HoldsJob, HoldingPhases
    <2>2. CASE ok
      <3>1. run' = [run EXCEPT ![r] = IdleRun]
        BY <1>7, <2>2 DEF apply_cleanup_result
      <3>2. Consistent(job, run', task)
        BY <2>1, <3>1, FreedResource DEF TypeOK
      <3>3. QED
        BY <2>1, <3>2, NextTies
    <2>3. CASE ~ok
      <3>1. /\ run'[r].phase = "attention"
            /\ run'[r].job = run[r].job /\ run'[r].task = run[r].task
            /\ \A s \in Resources : s # r => run'[s] = run[s]
        BY <1>7, <2>3 DEF apply_cleanup_result, TypeOK, RunRow
      <3>2. Consistent(job, run', task)
        BY <2>1, <3>1, SameHolders DEF HoldsJob, HoldingPhases
      <3>3. QED
        BY <2>1, <3>2, NextTies
    <2>4. QED
      BY <2>2, <2>3
  <1>8. ASSUME NEW r \in Resources, NEW t \in Tasks, produce_job_check_due(r, t)
        PROVE  Consistent(job, run, task)'
    <2>1. /\ \A u \in Tasks : task'[u].status = task[u].status
          /\ job' = job /\ run' = run
      BY <1>8 DEF produce_job_check_due, TypeOK, TaskRow
    <2>2. Consistent(job, run, task')
      BY <2>1, SameHolders
    <2>3. QED
      BY <2>1, <2>2, NextTies
  <1>9. QED
    BY <1>1, <1>2, <1>3, <1>4, <1>5, <1>6, <1>7, <1>8 DEF ActorCalls

\* Calls of the workers keep the ties
LEMMA WorkerCallsTies ==
    ASSUME Inv, WorkerCalls
    PROVE  Consistent(job, run, task)'
  <1> USE DEF Inv
  <1>1. ASSUME NEW t \in Tasks, claim_task(t) PROVE Consistent(job, run, task)'
    <2>1. /\ task[t].status = "queued" /\ task'[t].status = "running"
          /\ \A u \in Tasks : u # t => task'[u].status = task[u].status
          /\ job' = job /\ run' = run
      BY <1>1 DEF claim_task, TypeOK, TaskRow
    <2>2. Consistent(job, run, task')
      BY <2>1, SameHolders
    <2>3. QED
      BY <2>1, <2>2, NextTies
  <1>2. ASSUME NEW r \in Resources, NEW t \in Tasks, mark_run_executing(r, t)
        PROVE  Consistent(job, run, task)'
    <2>1. job' = job /\ task' = task
      BY <1>2 DEF mark_run_executing
    <2>2. \A s \in Resources : s # r => run'[s] = run[s]
      BY <1>2 DEF mark_run_executing, TypeOK
    <2>3. \/ run'[r] = run[r]
          \/ /\ run'[r].job = run[r].job /\ run'[r].task = run[r].task
             /\ run[r].phase \in HoldingPhases /\ run'[r].phase \in HoldingPhases
      BY <1>2 DEF mark_run_executing, TypeOK, RunRow, HoldingPhases
    <2>4. Consistent(job, run', task)
      BY <2>2, <2>3, SameHolders DEF HoldsJob, HoldingPhases
    <2>5. QED
      BY <2>1, <2>4, NextTies
  <1>3. ASSUME NEW r \in Resources, NEW t \in Tasks, NEW from, NEW end \in RunEnds,
               commit_job_run_exit(r, t, from, end)
        PROVE  Consistent(job, run, task)'
    BY <1>3, CommitTerminalTies DEF commit_job_run_exit, TypeOK
  <1>4. ASSUME NEW r \in Resources, NEW t \in Tasks, NEW from, commit_lost(r, t, from)
        PROVE  Consistent(job, run, task)'
    BY <1>4, CommitTerminalTies DEF commit_lost, RunEnds, TypeOK
  <1>5. QED
    BY <1>1, <1>2, <1>3, <1>4 DEF WorkerCalls

-----------------------------------------------------------------------------
(* The theorems *)

\* The tables are well-typed and tied together in every reachable state
THEOREM Invariance == Spec => []Inv
  <1>1. Init => Inv
    BY InitType, InitTies DEF Inv
  <1>2. Inv /\ [Next]_storeVars => Inv'
    <2> SUFFICES ASSUME Inv, [Next]_storeVars PROVE Inv'
      OBVIOUS
    <2>1. CASE Next
      <3>1. TypeOK'
        BY <2>1, RequestsType, ActorCallsType, WorkerCallsType DEF Next, Inv, Consistent
      <3>2. Consistent(job, run, task)'
        BY <2>1, RequestsTies, ActorCallsTies, WorkerCallsTies DEF Next
      <3>3. QED
        BY <3>1, <3>2 DEF Inv
    <2>2. CASE UNCHANGED storeVars
      <3>1. job' = job /\ run' = run /\ task' = task /\ events' = events
        BY <2>2 DEF storeVars
      <3>2. TypeOK'
        BY <3>1 DEF Inv, TypeOK
      <3>3. Consistent(job, run, task)'
        BY <3>1, NextTies DEF Inv
      <3>4. QED
        BY <3>2, <3>3 DEF Inv
    <2>3. QED
      BY <2>1, <2>2
  <1>3. QED
    BY <1>1, <1>2, PTL DEF Spec

\* The rows of jobs, runs and run tasks and the event logs keep the types the
\* schema gives them, whatever calls arrive in whatever order
THEOREM TypeCorrect == Spec => []TypeOK
  <1>1. Inv => TypeOK
    BY DEF Inv
  <1>2. QED
    BY <1>1, Invariance, PTL

\* A job is active on a resource exactly while that resource's run executes it
THEOREM ActiveCorrect == Spec => []ActiveExactlyWhileHeld
  <1>1. Inv => ActiveExactlyWhileHeld
    BY DEF Inv, Consistent, Held, ActiveExactlyWhileHeld
  <1>2. QED
    BY <1>1, Invariance, PTL

\* No job has two runs, a run that is still cleaned up included
THEOREM OneRunCorrect == Spec => []OneRunPerJob
  <1>1. Inv => OneRunPerJob
    BY DEF Inv, Consistent, Single, OneRunPerJob
  <1>2. QED
    BY <1>1, Invariance, PTL

\* A run task is queued or running exactly while a resource holds it
THEOREM LiveTaskCorrect == Spec => []LiveTaskHasResource
  <1>1. Inv => LiveTaskHasResource
    BY DEF Inv, Consistent, Live, LiveTaskHasResource
  <1>2. QED
    BY <1>1, Invariance, PTL

\* Job, run and run task agree in every reachable state of the store: the
\* property that the runs check, for any jobs, resources and bounds
THEOREM RunsAreHeldCorrect == Spec => []RunsAreHeld
  <1>1. TypeOK /\ ActiveExactlyWhileHeld /\ OneRunPerJob /\ LiveTaskHasResource
           => RunsAreHeld
    BY DEF RunsAreHeld
  <1>2. QED
    BY <1>1, TypeCorrect, ActiveCorrect, OneRunCorrect, LiveTaskCorrect, PTL

-----------------------------------------------------------------------------
(* What a transaction leaves of a job's row *)

\* The row is kept, or only its place in the queue changed
Replaced(row, new) ==
    \/ new = row
    \/ row.position # 0 /\ \E n \in Nat \ {0} : new = [row EXCEPT !.position = n]

\* Every job but j keeps its row of table jb up to its place
OthersKept(jb, j) == \A k \in Jobs \ {j} : Replaced(jb[k], job'[k])

\* The positions of the others after j left the queue of table jb
Closes(jb, j) ==
    LET rest == level(jb, jb[j].priority) \ {j} IN
    \A k \in Jobs \ {j} : job'[k].position =
        IF k \in rest THEN Place(jb, rest, k) ELSE jb[k].position

\* The positions of the others after j moved behind index others of level p
Inserts(jb, j, p, index) ==
    LET order    == level(jb, p) \ {j}
        previous == level(jb, jb[j].priority) \ {j}
    IN  \A k \in Jobs \ {j} : job'[k].position =
            IF k \in order
            THEN IF Place(jb, order, k) <= index THEN Place(jb, order, k)
                 ELSE Place(jb, order, k) + 1
            ELSE IF k \in previous THEN Place(jb, previous, k)
            ELSE jb[k].position

\* A replaced row differs in its position only, and stays in or out of the queue
LEMMA ReplacedFields ==
    ASSUME NEW row \in JobRow, NEW new, Replaced(row, new)
    PROVE  /\ new \in JobRow
           /\ new.state = row.state /\ new.resource = row.resource
           /\ new.spec = row.spec /\ new.step = row.step
           /\ new.resume = row.resume /\ new.runs = row.runs
           /\ new.priority = row.priority
           /\ row.position = 0 => new = row
           /\ row.position # 0 => new.position # 0
  <1>1. CASE new = row
    BY <1>1
  <1>2. CASE row.position # 0 /\ \E n \in Nat \ {0} : new = [row EXCEPT !.position = n]
    <2>1. PICK n \in Nat \ {0} : new = [row EXCEPT !.position = n]
      BY <1>2
    <2>2. QED
      BY <1>2, <2>1 DEF JobRow
  <1>3. QED
    BY <1>1, <1>2 DEF Replaced

\* A member of a level has a place in it
LEMMA PlacePositive ==
    ASSUME NEW jb \in [Jobs -> JobRow], NEW S \in SUBSET Jobs, NEW k \in S
    PROVE  Place(jb, S, k) \in Nat \ {0}
  <1> DEFINE B == {i \in S : jb[i].position <= jb[k].position}
  <1>1. jb[k].position \in Nat
    BY DEF JobRow
  <1>2. k \in B
    BY <1>1
  <1>3. IsFiniteSet(B)
    BY RulesAssumption, FS_Subset DEF RulesAssumption
  <1>4. Place(jb, S, k) = Cardinality(B)
    BY DEF Place
  <1> HIDE DEF B
  <1>5. Cardinality(B) \in Nat /\ Cardinality(B) # 0
    BY <1>2, <1>3, FS_CardinalityType, FS_EmptySet
  <1>6. QED
    BY <1>4, <1>5

\* A place is at most the size of the level
LEMMA PlaceBounded ==
    ASSUME NEW jb, NEW S \in SUBSET Jobs, NEW k
    PROVE  Place(jb, S, k) <= Cardinality(S)
  <1>1. IsFiniteSet(S)
    BY RulesAssumption, FS_Subset DEF RulesAssumption
  <1>2. {i \in S : jb[i].position <= jb[k].position} \in SUBSET S
    OBVIOUS
  <1>3. QED
    BY <1>1, <1>2, FS_Subset DEF Place

\* Levels and places depend on positions and priorities only
LEMMA SameLevels ==
    ASSUME NEW a, NEW b,
           \A k \in Jobs : a[k].position = b[k].position /\ a[k].priority = b[k].priority
    PROVE  /\ \A p : level(a, p) = level(b, p)
           /\ \A S \in SUBSET Jobs, k \in Jobs : Place(a, S, k) = Place(b, S, k)
  <1>1. \A p : level(a, p) = level(b, p)
    BY DEF level
  <1>2. ASSUME NEW S \in SUBSET Jobs, NEW k \in Jobs PROVE Place(a, S, k) = Place(b, S, k)
    <2>1. {i \in S : a[i].position <= a[k].position} = {i \in S : b[i].position <= b[k].position}
      OBVIOUS
    <2>2. QED
      BY <2>1 DEF Place
  <1>3. QED
    BY <1>1, <1>2

\* A gap closes alike in tables with the same levels
LEMMA ClosesSame ==
    ASSUME NEW a, NEW b, NEW j \in Jobs, Closes(a, j),
           a[j].position = b[j].position, a[j].priority = b[j].priority,
           \A k \in Jobs \ {j} : a[k] = b[k]
    PROVE  Closes(b, j)
  <1>1. \A k \in Jobs : a[k].position = b[k].position /\ a[k].priority = b[k].priority
    OBVIOUS
  <1>2. /\ \A p : level(a, p) = level(b, p)
        /\ \A S \in SUBSET Jobs, k \in Jobs : Place(a, S, k) = Place(b, S, k)
    BY <1>1, SameLevels
  <1> DEFINE rest == level(b, b[j].priority) \ {j}
  <1>3. rest = level(a, a[j].priority) \ {j} /\ rest \in SUBSET Jobs
    BY <1>2 DEF level
  <1> HIDE DEF rest
  <1>4. \A k \in Jobs \ {j} : job'[k].position =
            IF k \in rest THEN Place(a, rest, k) ELSE a[k].position
    BY <1>3 DEF Closes
  <1>5. \A k \in Jobs \ {j} : job'[k].position =
            IF k \in rest THEN Place(b, rest, k) ELSE b[k].position
    BY <1>1, <1>2, <1>3, <1>4
  <1>6. QED
    BY <1>5 DEF Closes, rest

\* Closing a gap takes j out of the queue and moves others within it
LEMMA RenumberRows ==
    ASSUME NEW jb \in [Jobs -> JobRow], NEW j \in Jobs
    PROVE  /\ renumber_level(jb, j)[j] = [jb[j] EXCEPT !.position = 0]
           /\ \A k \in Jobs \ {j} : Replaced(jb[k], renumber_level(jb, j)[k])
           /\ job' = renumber_level(jb, j) => Closes(jb, j)
  <1> DEFINE rest == level(jb, jb[j].priority) \ {j}
             new  == renumber_level(jb, j)
  <1>1. rest \in SUBSET Jobs /\ \A k \in rest : jb[k].position # 0
    BY DEF level
  <1>2. \A k \in Jobs : new[k] =
            IF k = j THEN [jb[k] EXCEPT !.position = 0]
            ELSE IF k \in rest THEN [jb[k] EXCEPT !.position = Place(jb, rest, k)]
            ELSE jb[k]
    BY DEF renumber_level
  <1> HIDE DEF rest
  <1>3. \A k \in rest : Place(jb, rest, k) \in Nat \ {0}
    BY <1>1, PlacePositive
  <1> HIDE DEF new
  <1>4. \A k \in Jobs \ {j} : Replaced(jb[k], new[k])
    BY <1>1, <1>2, <1>3 DEF Replaced
  <1>5. \A k \in Jobs \ {j} : new[k].position =
            IF k \in rest THEN Place(jb, rest, k) ELSE jb[k].position
    BY <1>2, <1>3 DEF JobRow
  <1>6. job' = new => Closes(jb, j)
    BY <1>5 DEF Closes, rest
  <1>7. QED
    BY <1>2, <1>4, <1>6 DEF new

\* Writing levels gives j a place and moves others within the queue
LEMMA WriteLevelsRows ==
    ASSUME NEW jb \in [Jobs -> JobRow], NEW j \in Jobs, NEW p \in Priorities,
           NEW index \in Nat
    PROVE  /\ write_levels(jb, j, p, index)[j] =
                [jb[j] EXCEPT !.priority = p, !.position = index + 1]
           /\ \A k \in Jobs \ {j} : Replaced(jb[k], write_levels(jb, j, p, index)[k])
           /\ job' = write_levels(jb, j, p, index) => Inserts(jb, j, p, index)
  <1> DEFINE order    == level(jb, p) \ {j}
             previous == level(jb, jb[j].priority) \ {j}
             new      == write_levels(jb, j, p, index)
             shift(k) == IF Place(jb, order, k) <= index THEN Place(jb, order, k)
                         ELSE Place(jb, order, k) + 1
  <1>1. /\ order \in SUBSET Jobs /\ previous \in SUBSET Jobs
        /\ \A k \in order \cup previous : jb[k].position # 0
    BY DEF level
  <1>2. \A k \in Jobs : new[k] =
            IF k = j THEN [jb[k] EXCEPT !.priority = p, !.position = index + 1]
            ELSE IF k \in order THEN [jb[k] EXCEPT !.position = shift(k)]
            ELSE IF k \in previous
            THEN [jb[k] EXCEPT !.position = Place(jb, previous, k)]
            ELSE jb[k]
    BY DEF write_levels
  <1> HIDE DEF order, previous
  <1>3. \A k \in order : shift(k) \in Nat \ {0}
    <2>1. \A k \in order : Place(jb, order, k) \in Nat \ {0}
      BY <1>1, PlacePositive
    <2>2. QED
      BY <2>1
  <1>4. \A k \in previous : Place(jb, previous, k) \in Nat \ {0}
    BY <1>1, PlacePositive
  <1> HIDE DEF new, shift
  <1>5. \A k \in Jobs \ {j} : Replaced(jb[k], new[k])
    BY <1>1, <1>2, <1>3, <1>4 DEF Replaced
  <1>6. \A k \in Jobs \ {j} : new[k].position =
            IF k \in order THEN shift(k)
            ELSE IF k \in previous THEN Place(jb, previous, k)
            ELSE jb[k].position
    BY <1>2, <1>3, <1>4 DEF JobRow
  <1>7. job' = new => Inserts(jb, j, p, index)
    BY <1>6 DEF Inserts, order, previous, shift
  <1>8. QED
    BY <1>2, <1>5, <1>7 DEF new

-----------------------------------------------------------------------------
(* The kinds of steps *)

\* A row after its run ended
EndedRow(row, after) ==
    [row EXCEPT !.state = after.state, !.resource = NoResource,
                !.step = after.step, !.resume = after.resume,
                !.position = IF after.state \in TerminalJob THEN 0 ELSE row.position]

\* The event of a run's end, if it has one
Logged(j, kind, n) ==
    events' = IF kind = "none" THEN events ELSE append_job_event(events, j, kind, n)

\* A new job joins the queue
Accepts(j) ==
    /\ job[j].state = "absent"
    /\ job'[j].state = "queued" /\ job'[j].position # 0
    /\ job'[j].position = Cardinality(level(job, job'[j].priority)) + 1
    /\ job'[j].step = 0 /\ job'[j].resume = FALSE /\ job'[j].runs = 0
    /\ \A k \in Jobs \ {j} : job'[k] = job[k]
    /\ run' = run /\ task' = task /\ events' = events

\* A waiting or running job changes its place, and others make room
Reorders(j) ==
    /\ job[j].state \in {"queued", "active"}
    /\ \E p \in Priorities, index \in Nat :
            /\ job'[j] = [job[j] EXCEPT !.priority = p, !.position = index + 1]
            /\ index <= Cardinality(level(job, p) \ {j})
            /\ Inserts(job, j, p, index)
    /\ OthersKept(job, j)
    /\ run' = run /\ task' = task /\ events' = events

\* A waiting job is cancelled
Withdraws(j) ==
    /\ job[j].state = "queued"
    /\ job'[j] = [job[j] EXCEPT !.state = "cancelled", !.resume = FALSE,
                                !.position = 0]
    /\ OthersKept(job, j) /\ Closes(job, j)
    /\ run' = run /\ task' = task
    /\ events' = append_job_event(events, j, "cancelled", 0)

\* No stop is committed for the run, or a person's
Undisturbed(rec, new) ==
    \/ new.phase = rec.phase /\ new.cause = rec.cause
    \/ rec.phase # "stopping" /\ new.phase # "stopping"
    \/ new.phase = "stopping" /\ new.cause = "user_cancel"

Preempts == \E young, stop : commit_preemption(stop, young)

\* The run of a resource goes on: a claim, a start, a stop, a marker or an
\* attempt of its cleanup
Proceeds(r) ==
    /\ Undisturbed(run[r], run'[r]) \/ Preempts
    /\ job' = job /\ events' = events
    /\ \A s \in Resources \ {r} : run'[s] = run[s]
    /\ run'[r].job = run[r].job /\ run'[r].task = run[r].task
    /\ run'[r].step = run[r].step /\ run'[r].resume = run[r].resume
    /\ HoldsJob(run'[r]) <=> HoldsJob(run[r])
    /\ run'[r].phase = "idle" <=> run[r].phase = "idle"
    /\ \A t \in Tasks :
          \/ task'[t].status = task[t].status
          \/ task[t].status = "queued" /\ task'[t].status = "running"

\* A silent run reminds its submitter
Reminds(r) ==
    /\ HoldsJob(run[r])
    /\ job' = job /\ run' = run
    /\ \A t \in Tasks : task'[t].status = task[t].status
    /\ events' = append_job_event(events, run[r].job, "check_due", run[r].task[2])

\* The cleanup of a run fails and waits for a person
Sticks(r) ==
    /\ run[r].phase = "cleaning" /\ run'[r].phase = "attention"
    /\ run'[r].job = run[r].job /\ run'[r].task = run[r].task
    /\ \A s \in Resources \ {r} : run'[s] = run[s]
    /\ job' = job /\ task' = task
    /\ events' = append_job_event(events, run[r].job, "attention", run[r].task[2])

\* A settled resource is free again
Frees(r) ==
    /\ run[r].phase \in {"cleaning", "attention"}
    /\ run' = [run EXCEPT ![r] = IdleRun]
    /\ job' = job /\ task' = task /\ events' = events

\* A waiting job gets a resource and its next run
Starts(j, r) ==
    /\ MayReserve(j, r)
    /\ job' = ReservedJob(j, r) /\ run' = ReservedRun(j, r)
    /\ task' = ReservedTask(j) /\ events' = events

\* The tables jb, rn, tk after the run on r ended with this move and outcome
EndsIn(jb, rn, tk, r, move, outcome) ==
    /\ job'[rn[r].job] = EndedRow(jb[rn[r].job], AfterRun(rn[r], move))
    /\ OthersKept(jb, rn[r].job)
    /\ IF AfterRun(rn[r], move).state \in TerminalJob THEN Closes(jb, rn[r].job)
       ELSE \A k \in Jobs \ {rn[r].job} : job'[k] = jb[k]
    /\ run'[r].phase = "cleaning"
    /\ run'[r].job = rn[r].job /\ run'[r].task = rn[r].task
    /\ \A s \in Resources \ {r} : run'[s] = rn[s]
    /\ task'[rn[r].task].status = outcome
    /\ \A u \in Tasks \ {rn[r].task} : task'[u] = tk[u]
    /\ Logged(rn[r].job, AfterRun(rn[r], move).event, rn[r].task[2])

\* The move and outcome of a run's end: a classified end, or a launch given up
EndOf(rec, row, status, move, outcome) ==
    \/ move = "abandoned" /\ outcome = "failed" /\ status = "queued"
    \/ /\ StatusMayMove(status, outcome)
       /\ \E end \in RunEnds, cause \in Causes \cup {NoCause} :
            /\ outcome = classify(end, cause, IsLast(row.spec, rec.step)).outcome
            /\ move = classify(end, cause, IsLast(row.spec, rec.step)).move

\* The run on r ends, and its job with it, or its job waits again
Ends(r, move, outcome) ==
    /\ HoldsJob(run[r])
    /\ EndOf(run[r], job[run[r].job], task[run[r].task].status, move, outcome)
    /\ EndsIn(job, run, task, r, move, outcome)

\* A job fails with the reservation of its run
Fails(j, r) ==
    /\ MayReserve(j, r)
    /\ EndsIn(ReservedJob(j, r), ReservedRun(j, r), ReservedTask(j), r,
              "failed", "failed")

\* A step of the store, by kind
Kinds ==
    \/ \E j \in Jobs : Accepts(j) \/ Reorders(j) \/ Withdraws(j)
    \/ \E j \in Jobs, r \in Resources : Starts(j, r) \/ Fails(j, r)
    \/ \E r \in Resources : Proceeds(r) \/ Reminds(r) \/ Sticks(r) \/ Frees(r)
    \/ \E r \in Resources, move \in Moves \cup {"abandoned"},
          outcome \in TerminalStatus : Ends(r, move, outcome)
    \/ UNCHANGED storeVars

\* What holds of single rows besides: the waiting and active jobs are the
\* ones in the queue, an absent job's row is empty, and a run executes the
\* step its job has reached
Slotted(jb) ==
    \A j \in Jobs : jb[j].position # 0 <=> jb[j].state \in {"queued", "active"}

Fresh(jb) == \A j \in Jobs : jb[j].state = "absent" => jb[j] = AbsentJob

OnStep(jb, rn) ==
    \A r \in Resources : HoldsJob(rn[r]) => rn[r].step = jb[rn[r].job].step

Rows(jb, rn) == Slotted(jb) /\ Fresh(jb) /\ OnStep(jb, rn)

\* What finish_run writes
LEMMA FinishRunRows ==
    ASSUME NEW jb \in [Jobs -> JobRow], NEW rn \in [Resources -> RunRow],
           NEW r \in Resources, rn[r].job \in Jobs,
           NEW move \in Moves \cup {"abandoned"}, finish_run(jb, rn, r, move)
    PROVE  /\ job'[rn[r].job] = EndedRow(jb[rn[r].job], AfterRun(rn[r], move))
           /\ OthersKept(jb, rn[r].job)
           /\ IF AfterRun(rn[r], move).state \in TerminalJob THEN Closes(jb, rn[r].job)
              ELSE \A k \in Jobs \ {rn[r].job} : job'[k] = jb[k]
           /\ Logged(rn[r].job, AfterRun(rn[r], move).event, rn[r].task[2])
  <1> DEFINE j == rn[r].job
             after == AfterRun(rn[r], move)
             row == [jb[j] EXCEPT !.state = after.state, !.resource = NoResource,
                                  !.step = after.step, !.resume = after.resume]
             moved == [jb EXCEPT ![j] = row]
  <1>1. /\ after.state \in JobStates /\ after.step \in Nat /\ after.resume \in BOOLEAN
    BY AfterRunType DEF JobStates
  <1>2. job' = IF after.state \in TerminalJob THEN renumber_level(moved, j) ELSE moved
    BY DEF finish_run
  <1>3. Logged(j, after.event, rn[r].task[2])
    BY DEF finish_run, Logged
  <1> HIDE DEF after
  <1>4. row \in JobRow
    <2>1. jb[j] \in JobRow
      OBVIOUS
    <2>2. QED
      BY <2>1, <1>1, EndedRowType
  <1>5. EndedRow(jb[j], after) =
            IF after.state \in TerminalJob THEN [row EXCEPT !.position = 0] ELSE row
    <2>1. jb[j] \in JobRow
      OBVIOUS
    <2>2. QED
      BY <2>1 DEF EndedRow, JobRow
  <1> HIDE DEF row
  <1>a. row.position = jb[j].position /\ row.priority = jb[j].priority
    <2>1. jb[j] \in JobRow
      OBVIOUS
    <2>2. QED
      BY <2>1 DEF JobRow, row
  <1>6. moved \in [Jobs -> JobRow] /\ moved[j] = row
        /\ \A k \in Jobs \ {j} : moved[k] = jb[k]
    BY <1>4
  <1> HIDE DEF moved
  <1>b. Closes(moved, j) => Closes(jb, j)
    BY <1>a, <1>6, ClosesSame
  <1>7. CASE after.state \in TerminalJob
    <2>1. /\ job'[j] = [row EXCEPT !.position = 0]
          /\ \A k \in Jobs \ {j} : Replaced(jb[k], job'[k])
          /\ Closes(jb, j)
      BY <1>2, <1>6, <1>7, <1>b, RenumberRows
    <2>2. QED
      BY <2>1, <1>3, <1>5, <1>7 DEF OthersKept, after
  <1>8. CASE after.state \notin TerminalJob
    <2>1. /\ job'[j] = row /\ \A k \in Jobs \ {j} : job'[k] = jb[k]
          /\ \A k \in Jobs \ {j} : Replaced(jb[k], job'[k])
      BY <1>2, <1>6, <1>8 DEF Replaced
    <2>2. QED
      BY <2>1, <1>3, <1>5, <1>8 DEF OthersKept, after
  <1>9. QED
    BY <1>7, <1>8

\* What commit_terminal writes, on the tables of its transaction
LEMMA CommitTerminalRows ==
    ASSUME NEW jb \in [Jobs -> JobRow], NEW rn \in [Resources -> RunRow],
           NEW tk \in [Tasks -> TaskRow], Owned(rn),
           NEW r \in Resources, NEW t \in Tasks, NEW from, NEW end \in RunEnds,
           commit_terminal(jb, rn, tk, r, t, from, end)
    PROVE  LET class == classify(end, StopCauseOf(rn[r]),
                                 IsLast(jb[rn[r].job].spec, rn[r].step))
           IN  /\ rn[r].task = t /\ HoldsJob(rn[r]) /\ rn[r].job \in Jobs
               /\ class.move \in Moves /\ class.outcome \in TerminalStatus
               /\ StopCauseOf(rn[r]) \in Causes \cup {NoCause}
               /\ StatusMayMove(tk[t].status, class.outcome)
               /\ EndsIn(jb, rn, tk, r, class.move, class.outcome)
  <1> DEFINE cause == StopCauseOf(rn[r])
             last  == IsLast(jb[rn[r].job].spec, rn[r].step)
             class == classify(end, cause, last)
  <1>1. cause \in Causes \cup {NoCause} /\ last \in BOOLEAN
    BY StopCauseType DEF IsLast
  <1>2. /\ task' = [tk EXCEPT ![t].status = class.outcome]
        /\ finish_run(jb, rn, r, class.move)
        /\ rn[r].task = t /\ HoldsJob(rn[r])
        /\ StatusMayMove(tk[t].status, class.outcome)
    BY DEF commit_terminal
  <1> HIDE DEF cause, last
  <1>3. class.outcome \in TerminalStatus /\ class.move \in Moves
    BY <1>1, ClassifyType
  <1> HIDE DEF class
  <1>4. rn[r].job \in Jobs
    BY <1>2 DEF Owned, HoldsJob, HoldingPhases
  <1>5. /\ task'[t].status = class.outcome
        /\ \A u \in Tasks \ {t} : task'[u] = tk[u]
    BY <1>2, <1>3 DEF TaskRow
  <1>6. /\ run'[r].job = rn[r].job /\ run'[r].task = rn[r].task
        /\ run'[r].phase = "cleaning"
        /\ \A s \in Resources : s # r => run'[s] = rn[s]
    BY <1>2, <1>3, <1>4, FinishRunMoves
  <1>7. /\ job'[rn[r].job] = EndedRow(jb[rn[r].job], AfterRun(rn[r], class.move))
        /\ OthersKept(jb, rn[r].job)
        /\ IF AfterRun(rn[r], class.move).state \in TerminalJob
           THEN Closes(jb, rn[r].job)
           ELSE \A k \in Jobs \ {rn[r].job} : job'[k] = jb[k]
        /\ Logged(rn[r].job, AfterRun(rn[r], class.move).event, rn[r].task[2])
    BY <1>2, <1>3, <1>4, FinishRunRows
  <1>8. EndsIn(jb, rn, tk, r, class.move, class.outcome)
    BY <1>2, <1>5, <1>6, <1>7 DEF EndsIn
  <1>9. QED
    BY <1>1, <1>2, <1>3, <1>4, <1>8 DEF class, cause, last

\* The end of a run depends on its step and checkpoint only
LEMMA AfterRunSame ==
    ASSUME NEW a, NEW b, NEW move, a.step = b.step, a.resume = b.resume
    PROVE  AfterRun(a, move) = AfterRun(b, move)
  BY DEF AfterRun

\* A requested stop keeps the run's step and checkpoint
LEMMA RequestStopKeeps ==
    ASSUME NEW rec \in RunRow, NEW cause \in Causes
    PROVE  /\ request_stop(rec, cause).step = rec.step
           /\ request_stop(rec, cause).resume = rec.resume
  BY DEF request_stop, RunRow

\* A person's cancel replaces every other cause
LEMMA CancelUpgrades ==
    ASSUME NEW rec \in RunRow
    PROVE  request_stop(rec, "user_cancel").cause = "user_cancel"
  <1>1. StopCauseOf(rec) \in Causes \cup {NoCause}
    BY StopCauseType
  <1>2. Upgrade(StopCauseOf(rec), "user_cancel") = "user_cancel"
    BY <1>1 DEF Upgrade, CauseRank, Causes, NoCause
  <1>3. QED
    BY <1>2 DEF request_stop, RunRow

\* A stopped run proceeds
LEMMA StopProceeds ==
    ASSUME Inv, NEW r, NEW cause \in Causes, StopAllowed(run[r], cause),
           cause = "user_cancel" \/ Preempts,
           run' = [run EXCEPT ![r] = request_stop(run[r], cause)],
           job' = job, task' = task, events' = events
    PROVE  Kinds
  <1>1. CASE r \in Resources
    <2>1. run[r] \in RunRow /\ run \in [Resources -> RunRow]
      BY <1>1 DEF Inv, TypeOK
    <2>2. run'[r] = request_stop(run[r], cause)
          /\ \A s \in Resources \ {r} : run'[s] = run[s]
      BY <2>1, <1>1
    <2>3. /\ run'[r].phase = "stopping" /\ run'[r].job = run[r].job
          /\ run'[r].task = run[r].task /\ run'[r].step = run[r].step
          /\ run'[r].resume = run[r].resume
      BY <2>1, <2>2, RequestStopType, RequestStopKeeps
    <2>4. run[r].phase \in HoldingPhases
      BY DEF StopAllowed, HoldingPhases
    <2>5. Undisturbed(run[r], run'[r]) \/ Preempts
      BY <2>1, <2>2, <2>3, CancelUpgrades DEF Undisturbed
    <2>6. Proceeds(r)
      BY <2>2, <2>3, <2>4, <2>5 DEF Proceeds, HoldsJob, HoldingPhases
    <2>7. QED
      BY <1>1, <2>6 DEF Kinds
  <1>2. CASE r \notin Resources
    <2>1. run' = run
      BY <1>2 DEF Inv, TypeOK
    <2>2. QED
      BY <2>1 DEF Kinds, storeVars
  <1>3. QED
    BY <1>1, <1>2

\* A terminal commit ends the run, on the stored run or one just stopped
LEMMA CommitEnds ==
    ASSUME Inv, NEW rn \in [Resources -> RunRow], NEW tk \in [Tasks -> TaskRow],
           NEW r \in Resources, NEW t \in Tasks, NEW from, NEW end \in RunEnds,
           Owned(rn), HoldsJob(run[r]),
           rn[r].job = run[r].job, rn[r].task = run[r].task,
           rn[r].step = run[r].step, rn[r].resume = run[r].resume,
           \A s \in Resources \ {r} : rn[s] = run[s],
           tk[t].status = task[t].status,
           \A u \in Tasks \ {t} : tk[u] = task[u],
           commit_terminal(job, rn, tk, r, t, from, end)
    PROVE  Kinds
  <1> DEFINE cause == StopCauseOf(rn[r])
             class == classify(end, cause, IsLast(job[rn[r].job].spec, rn[r].step))
  <1>1. /\ rn[r].task = t /\ HoldsJob(rn[r]) /\ rn[r].job \in Jobs
        /\ class.move \in Moves /\ class.outcome \in TerminalStatus
        /\ cause \in Causes \cup {NoCause}
        /\ StatusMayMove(tk[t].status, class.outcome)
        /\ EndsIn(job, rn, tk, r, class.move, class.outcome)
    <2>1. job \in [Jobs -> JobRow]
      BY DEF Inv, TypeOK
    <2>2. QED
      BY <2>1, CommitTerminalRows
  <1>2. class = classify(end, cause, IsLast(job[run[r].job].spec, run[r].step))
    OBVIOUS
  <1> HIDE DEF cause
  <1>3. EndOf(run[r], job[run[r].job], task[t].status, class.move, class.outcome)
    BY <1>1, <1>2 DEF EndOf
  <1> HIDE DEF class
  <1>4. AfterRun(rn[r], class.move) = AfterRun(run[r], class.move)
    BY AfterRunSame
  <1>5. EndsIn(job, run, task, r, class.move, class.outcome)
    BY <1>1, <1>4 DEF EndsIn
  <1>6. Ends(r, class.move, class.outcome)
    BY <1>1, <1>3, <1>5 DEF Ends
  <1>7. QED
    BY <1>1, <1>6 DEF Kinds

\* The cancellation marker ends an unclaimed run and lets a claimed one proceed
LEMMA CancelInnerKind ==
    ASSUME Inv, NEW rn \in [Resources -> RunRow], NEW r \in Resources, NEW t \in Tasks,
           Owned(rn), HoldsJob(run[r]), HoldsJob(rn[r]), Undisturbed(run[r], rn[r]),
           rn[r].job = run[r].job, rn[r].task = run[r].task,
           rn[r].step = run[r].step, rn[r].resume = run[r].resume,
           \A s \in Resources \ {r} : rn[s] = run[s],
           request_cancel_inner(rn, r, t)
    PROVE  Kinds
  <1> DEFINE marked == [task EXCEPT ![t].cancel = TRUE]
  <1>1. /\ marked \in [Tasks -> TaskRow] /\ marked[t].status = task[t].status
        /\ \A u \in Tasks \ {t} : marked[u] = task[u]
    BY DEF Inv, TypeOK, TaskRow
  <1>2. /\ task[t].status = "queued" =>
                commit_terminal(job, rn, marked, r, t, "queued", "cancelled")
        /\ task[t].status # "queued" =>
                task' = marked /\ run' = rn /\ job' = job /\ events' = events
    BY DEF request_cancel_inner
  <1> HIDE DEF marked
  <1>3. CASE task[t].status = "queued"
    <2>1. "cancelled" \in RunEnds
      BY DEF RunEnds
    <2>2. QED
      BY <1>1, <1>2, <1>3, <2>1, CommitEnds
  <1>4. CASE task[t].status # "queued"
    <2>1. Proceeds(r)
      BY <1>1, <1>2, <1>4 DEF Proceeds, HoldsJob, HoldingPhases
    <2>2. QED
      BY <2>1 DEF Kinds
  <1>5. QED
    BY <1>3, <1>4

\* The kinds of the requests
LEMMA RequestKinds ==
    ASSUME Inv, Slotted(job), Requests
    PROVE  Kinds
  <1>0. /\ job \in [Jobs -> JobRow] /\ run \in [Resources -> RunRow]
        /\ task \in [Tasks -> TaskRow] /\ Owned(run)
    BY DEF Inv, TypeOK, Consistent
  <1>1. ASSUME NEW m \in Submissions, submit_job(m[1], m[2]) PROVE Kinds
    <2>1. m[1] \in Jobs /\ Cardinality(level(job, m[2].priority)) \in Nat
      BY StoreAssumption, FiniteLevels DEF StoreAssumption, level
    <2>2. Accepts(m[1])
      <3> DEFINE n == Cardinality(level(job, m[2].priority)) + 1
      <3>1. n \in Nat \ {0}
        BY <2>1
      <3>2. /\ job[m[1]].state = "absent"
            /\ job' = [job EXCEPT ![m[1]] =
                [ state |-> "queued", spec |-> m[2], priority |-> m[2].priority,
                  position |-> n, resource |-> NoResource, step |-> 0,
                  resume |-> FALSE, runs |-> 0 ]]
            /\ run' = run /\ task' = task /\ events' = events
        BY <1>1 DEF submit_job
      <3>3. job'[m[1]].priority = m[2].priority
        BY <1>0, <2>1, <3>2
      <3> HIDE DEF n
      <3>4. /\ job'[m[1]].state = "queued" /\ job'[m[1]].position = n
            /\ job'[m[1]].step = 0 /\ job'[m[1]].resume = FALSE /\ job'[m[1]].runs = 0
            /\ \A k \in Jobs \ {m[1]} : job'[k] = job[k]
        BY <1>0, <2>1, <3>2
      <3>5. QED
        BY <3>1, <3>2, <3>3, <3>4 DEF Accepts, n
    <2>3. QED
      BY <2>1, <2>2 DEF Kinds
  <1>2. ASSUME NEW j \in Jobs, NEW p \in Priorities, NEW index \in Nat,
               index <= Cardinality(level(job, p) \ {j}),
               job[j].state \in {"queued", "active"},
               job' = write_levels(job, j, p, index),
               run' = run, task' = task, events' = events
        PROVE  Kinds
    <2> DEFINE new == write_levels(job, j, p, index)
    <2>0. /\ new[j] = [job[j] EXCEPT !.priority = p, !.position = index + 1]
          /\ \A k \in Jobs \ {j} : Replaced(job[k], new[k])
          /\ job' = new => Inserts(job, j, p, index)
      <3>1. job \in [Jobs -> JobRow]
        BY <1>0
      <3>2. QED
        BY <3>1, WriteLevelsRows, Zenon
    <2>1. /\ job'[j] = [job[j] EXCEPT !.priority = p, !.position = index + 1]
          /\ \A k \in Jobs \ {j} : Replaced(job[k], job'[k])
          /\ Inserts(job, j, p, index)
      BY <1>2, <2>0, Zenon
    <2>2. \E q \in Priorities, i \in Nat :
            /\ job'[j] = [job[j] EXCEPT !.priority = q, !.position = i + 1]
            /\ i <= Cardinality(level(job, q) \ {j})
            /\ Inserts(job, j, q, i)
      BY <1>2, <2>1, Zenon
    <2>3. Reorders(j)
      BY <1>2, <2>1, <2>2, Zenon DEF Reorders, OthersKept
    <2>4. QED
      BY <2>3 DEF Kinds
  <1>3. \A j \in Jobs : Known(j) /\ job[j].state \notin TerminalJob
                          => job[j].state \in {"queued", "active"}
    BY <1>0 DEF Known, JobRow, JobStates
  <1>4. ASSUME NEW j \in Movable, NEW p \in Priorities, NEW front \in BOOLEAN,
               move_to_edge(j, p, front)
        PROVE  Kinds
    <2> DEFINE index == IF front THEN 0 ELSE Cardinality(level(job, p) \ {j})
    <2>1. /\ index \in Nat /\ j \in Jobs
          /\ index <= Cardinality(level(job, p) \ {j})
      BY FiniteLevels, StoreAssumption DEF level, StoreAssumption
    <2>2. /\ job' = write_levels(job, j, p, index) /\ run' = run /\ task' = task
          /\ events' = events /\ Known(j) /\ job[j].state \notin TerminalJob
      BY <1>4 DEF move_to_edge
    <2> HIDE DEF index
    <2>3. QED
      BY <1>2, <1>3, <2>1, <2>2
  <1>5. ASSUME NEW j \in Movable, NEW k \in Jobs, NEW before \in BOOLEAN,
               NEW p \in Priorities, move_next_to(j, k, before, p)
        PROVE  Kinds
    <2> DEFINE order == level(job, p) \ {j}
               at == Place(job, order, k)
               index == IF before THEN at - 1 ELSE at
    <2>1. /\ p = job[k].priority /\ k # j /\ j \in Jobs
          /\ Known(k) /\ job[k].state \notin TerminalJob
          /\ Known(j) /\ job[j].state \notin TerminalJob
          /\ run' = run /\ task' = task /\ events' = events
      BY <1>5, StoreAssumption DEF move_next_to, StoreAssumption
    <2>2. job' = write_levels(job, j, p, index)
      BY <1>5 DEF move_next_to
    <2>3. k \in order /\ order \in SUBSET Jobs
      BY <1>3, <2>1 DEF level, Slotted
    <2> HIDE DEF order
    <2>4. at \in Nat \ {0} /\ at <= Cardinality(order)
      BY <1>0, <2>3, PlacePositive, PlaceBounded
    <2>5. index \in Nat /\ index <= Cardinality(order)
      BY <2>3, <2>4, FiniteLevels
    <2> HIDE DEF index
    <2>6. QED
      BY <1>2, <1>3, <2>1, <2>2, <2>5 DEF order
  <1>6. ASSUME NEW j \in Jobs, cancel_queued_job(j) PROVE Kinds
    <2> DEFINE row == [job[j] EXCEPT !.state = "cancelled", !.resume = FALSE]
               ended == [job EXCEPT ![j] = row]
    <2>1. row \in JobRow /\ [row EXCEPT !.position = 0] =
                [job[j] EXCEPT !.state = "cancelled", !.resume = FALSE, !.position = 0]
      <3>1. job[j] \in JobRow
        BY <1>0
      <3>2. QED
        BY <3>1, CancelledRowType DEF JobRow
    <2>2. /\ job[j].state = "queued" /\ run' = run /\ task' = task
          /\ job' = renumber_level(ended, j)
          /\ events' = append_job_event(events, j, "cancelled", 0)
      BY <1>6 DEF cancel_queued_job
    <2> HIDE DEF row
    <2>3. ended \in [Jobs -> JobRow] /\ ended[j] = row
          /\ \A k \in Jobs \ {j} : ended[k] = job[k]
      BY <1>0, <2>1
    <2> HIDE DEF ended
    <2>4. /\ job'[j] = [row EXCEPT !.position = 0]
          /\ \A k \in Jobs \ {j} : Replaced(job[k], job'[k])
          /\ Closes(ended, j)
      BY <2>2, <2>3, RenumberRows
    <2>a. Closes(job, j)
      <3>1. row.position = job[j].position /\ row.priority = job[j].priority
        BY <1>0 DEF row, JobRow
      <3>2. QED
        BY <2>3, <2>4, <3>1, ClosesSame
    <2>5. Withdraws(j)
      BY <2>1, <2>2, <2>4, <2>a DEF Withdraws, OthersKept
    <2>6. QED
      BY <2>5 DEF Kinds
  <1>7. ASSUME NEW j \in Jobs, cancel_active_job(j) PROVE Kinds
    <2>1. "user_cancel" \in Causes
      BY DEF Causes
    <2>2. QED
      BY <1>7, <2>1, StopProceeds DEF cancel_active_job
  <1>8. ASSUME NEW r \in Resources, NEW t \in Tasks, release_resource_attention(r, t)
        PROVE  Kinds
    <2>1. Frees(r)
      BY <1>8 DEF release_resource_attention, Frees
    <2>2. QED
      BY <2>1 DEF Kinds
  <1>9. ASSUME NEW r \in Resources, NEW t \in Tasks, request_cancel(r, t)
        PROVE  Kinds
    <2> DEFINE rn == [run EXCEPT ![r] = request_stop(run[r], "user_cancel")]
    <2>1. StopAllowed(run[r], "user_cancel") /\ request_cancel_inner(rn, r, t)
      BY <1>9 DEF request_cancel
    <2>2. "user_cancel" \in Causes /\ run[r] \in RunRow
      BY <1>0 DEF Causes
    <2>3. rn \in [Resources -> RunRow]
      BY <1>0, <2>2, RequestStopType
    <2>4. Owned(rn)
      BY <2>1, <2>2, StopTies DEF Inv, Consistent
    <2>5. rn[r] = request_stop(run[r], "user_cancel")
          /\ \A s \in Resources \ {r} : rn[s] = run[s]
      BY <1>0
    <2> HIDE DEF rn
    <2>6. /\ rn[r].phase = "stopping" /\ rn[r].job = run[r].job
          /\ rn[r].task = run[r].task /\ rn[r].step = run[r].step
          /\ rn[r].resume = run[r].resume
      BY <2>2, <2>5, RequestStopType, RequestStopKeeps
    <2>7. HoldsJob(run[r]) /\ HoldsJob(rn[r])
      BY <2>1, <2>6 DEF StopAllowed, HoldsJob, HoldingPhases
    <2>a. Undisturbed(run[r], rn[r])
      BY <2>2, <2>5, <2>6, CancelUpgrades DEF Undisturbed
    <2>8. QED
      BY <2>1, <2>3, <2>4, <2>5, <2>6, <2>7, <2>a, CancelInnerKind
  <1>10. QED
    BY <1>1, <1>4, <1>5, <1>6, <1>7, <1>8, <1>9 DEF Requests, cancel_job

\* The kinds of the actor's calls
LEMMA ActorKinds ==
    ASSUME Inv, ActorCalls
    PROVE  Kinds
  <1>0. /\ job \in [Jobs -> JobRow] /\ run \in [Resources -> RunRow]
        /\ task \in [Tasks -> TaskRow] /\ Owned(run) /\ TypeOK
    BY DEF Inv, TypeOK, Consistent
  <1>1. ASSUME NEW j \in Jobs, NEW r \in Resources, reserve_run(j, r) PROVE Kinds
    <2>1. Starts(j, r)
      BY <1>1 DEF reserve_run, Starts
    <2>2. QED
      BY <2>1 DEF Kinds
  <1>2. ASSUME NEW j \in Jobs, NEW r \in Resources, fail_job_launch(j, r) PROVE Kinds
    <2> DEFINE jb == ReservedJob(j, r)
               rn == ReservedRun(j, r)
               tk == ReservedTask(j)
               t  == <<j, job[j].runs + 1>>
               class == classify("other", StopCauseOf(rn[r]),
                                 IsLast(jb[rn[r].job].spec, rn[r].step))
    <2>1. MayReserve(j, r) /\ commit_terminal(jb, rn, tk, r, t, "queued", "other")
      BY <1>2 DEF fail_job_launch
    <2>2. /\ t \in Tasks /\ jb \in [Jobs -> JobRow] /\ rn \in [Resources -> RunRow]
          /\ tk \in [Tasks -> TaskRow]
      BY <1>0, <2>1, ReservedType
    <2>3. Owned(rn) /\ "other" \in RunEnds
      BY <2>1, ReservedTies DEF Consistent, RunEnds
    <2>4. rn[r].phase = "launching"
      BY <1>0 DEF ReservedRun, IdleRun
    <2> HIDE DEF jb, rn, tk, t
    <2>5. StopCauseOf(rn[r]) = NoCause
      BY <2>4 DEF StopCauseOf
    <2>6. class.move = "failed" /\ class.outcome = "failed"
      BY <2>5, SMT DEF classify, Class, NoCause
    <2>7. EndsIn(jb, rn, tk, r, class.move, class.outcome)
      BY <2>1, <2>2, <2>3, CommitTerminalRows
    <2>8. Fails(j, r)
      BY <2>1, <2>6, <2>7 DEF Fails, jb, rn, tk
    <2>9. QED
      BY <2>8 DEF Kinds
  <1>3. ASSUME NEW r \in Resources, NEW t \in Tasks, abandon_launch(r, t) PROVE Kinds
    <2>1. /\ run[r].phase = "launching" /\ run[r].task = t
          /\ task[t].status = "queued"
          /\ task' = [task EXCEPT ![t].status = "failed"]
          /\ finish_run(job, run, r, "abandoned")
      BY <1>3 DEF abandon_launch, RunOn
    <2>2. HoldsJob(run[r]) /\ run[r].job \in Jobs
      BY <1>0, <2>1 DEF HoldsJob, HoldingPhases, Owned
    <2>3. task'[t].status = "failed" /\ \A u \in Tasks \ {t} : task'[u] = task[u]
      BY <1>0, <2>1 DEF TaskRow
    <2>4. "abandoned" \in Moves \cup {"abandoned"} /\ "failed" \in TerminalStatus
      BY DEF TerminalStatus
    <2>5. /\ run'[r].job = run[r].job /\ run'[r].task = run[r].task
          /\ run'[r].phase = "cleaning"
          /\ \A s \in Resources : s # r => run'[s] = run[s]
      BY <1>0, <2>1, <2>2, <2>4, FinishRunMoves
    <2>6. /\ job'[run[r].job] = EndedRow(job[run[r].job], AfterRun(run[r], "abandoned"))
          /\ OthersKept(job, run[r].job)
          /\ IF AfterRun(run[r], "abandoned").state \in TerminalJob
             THEN Closes(job, run[r].job)
             ELSE \A k \in Jobs \ {run[r].job} : job'[k] = job[k]
          /\ Logged(run[r].job, AfterRun(run[r], "abandoned").event, run[r].task[2])
      BY <1>0, <2>1, <2>2, <2>4, FinishRunRows
    <2>7. EndsIn(job, run, task, r, "abandoned", "failed")
      BY <2>1, <2>3, <2>5, <2>6 DEF EndsIn
    <2>8. Ends(r, "abandoned", "failed")
      BY <2>1, <2>2, <2>7 DEF Ends, EndOf
    <2>9. QED
      BY <2>4, <2>8 DEF Kinds
  <1>4. ASSUME NEW young, NEW stop, commit_preemption(stop, young)
        PROVE  Kinds
    <2>1. stop # NoStop /\ decide(job, run, young).preemption = stop
      BY <1>4 DEF commit_preemption
    <2>2. stop.cause \in Causes
      BY <1>0, <2>1, DecisionCause DEF Causes
    <2>3. Preempts
      BY <1>4 DEF Preempts
    <2>4. QED
      BY <1>4, <2>2, <2>3, StopProceeds DEF commit_preemption
  <1>5. ASSUME NEW r \in Resources, NEW t \in Tasks, signal_committed_run_stop(r, t)
        PROVE  Kinds
    <2>1. run[r].phase = "stopping" /\ request_cancel_inner(run, r, t)
      BY <1>5 DEF signal_committed_run_stop, StopCauseOf, NoCause
    <2>2. HoldsJob(run[r]) /\ Undisturbed(run[r], run[r])
      BY <2>1 DEF HoldsJob, HoldingPhases, Undisturbed
    <2>3. QED
      BY <1>0, <2>1, <2>2, CancelInnerKind
  <1>6. ASSUME NEW r \in Resources, NEW t \in Tasks, begin_cleanup_attempt(r, t)
        PROVE  Kinds
    <2>1. /\ run[r].phase = "cleaning" /\ run'[r].phase = "cleaning"
          /\ run'[r].job = run[r].job /\ run'[r].task = run[r].task
          /\ run'[r].step = run[r].step /\ run'[r].resume = run[r].resume
          /\ \A s \in Resources \ {r} : run'[s] = run[s]
          /\ job' = job /\ task' = task /\ events' = events
      BY <1>0, <1>6 DEF begin_cleanup_attempt, RunRow
    <2>2. Proceeds(r)
      BY <2>1 DEF Proceeds, HoldsJob, HoldingPhases, Undisturbed
    <2>3. QED
      BY <2>2 DEF Kinds
  <1>7. ASSUME NEW r \in Resources, NEW t \in Tasks, NEW n \in 1..MaxAttempts,
               NEW ok \in BOOLEAN, apply_cleanup_result(r, t, n, ok)
        PROVE  Kinds
    <2>1. /\ run[r].phase = "cleaning" /\ run[r].task = t
          /\ job' = job /\ task' = task
      BY <1>7 DEF apply_cleanup_result, RunOn
    <2>2. CASE ok
      <3>1. Frees(r)
        BY <1>7, <2>1, <2>2 DEF apply_cleanup_result, Frees
      <3>2. QED
        BY <3>1 DEF Kinds
    <2>3. CASE ~ok
      <3>1. /\ run'[r].phase = "attention"
            /\ run'[r].job = run[r].job /\ run'[r].task = run[r].task
            /\ \A s \in Resources \ {r} : run'[s] = run[s]
            /\ events' = append_job_event(events, run[r].job, "attention", t[2])
        BY <1>0, <1>7, <2>3 DEF apply_cleanup_result, RunRow
      <3>2. Sticks(r)
        BY <2>1, <3>1 DEF Sticks
      <3>3. QED
        BY <3>2 DEF Kinds
    <2>4. QED
      BY <2>2, <2>3
  <1>8. ASSUME NEW r \in Resources, NEW t \in Tasks, produce_job_check_due(r, t)
        PROVE  Kinds
    <2>1. /\ \A u \in Tasks : task'[u].status = task[u].status
          /\ job' = job /\ run' = run /\ run[r].task = t
          /\ run[r].phase \in {"executing", "stopping"}
          /\ events' = append_job_event(events, run[r].job, "check_due", t[2])
      BY <1>0, <1>8 DEF produce_job_check_due, TaskRow, RunOn
    <2>2. Reminds(r)
      BY <2>1 DEF Reminds, HoldsJob, HoldingPhases
    <2>3. QED
      BY <2>2 DEF Kinds
  <1>9. QED
    BY <1>1, <1>2, <1>3, <1>4, <1>5, <1>6, <1>7, <1>8 DEF ActorCalls

\* The kinds of the workers' calls
LEMMA WorkerKinds ==
    ASSUME Inv, WorkerCalls
    PROVE  Kinds
  <1>0. /\ job \in [Jobs -> JobRow] /\ run \in [Resources -> RunRow]
        /\ task \in [Tasks -> TaskRow] /\ Owned(run) /\ TypeOK
    BY DEF Inv, TypeOK, Consistent
  <1>1. ASSUME NEW t \in Tasks, claim_task(t) PROVE Kinds
    <2>1. /\ task[t].status = "queued" /\ task'[t].status = "running"
          /\ \A u \in Tasks : u # t => task'[u].status = task[u].status
          /\ job' = job /\ run' = run /\ events' = events
      BY <1>0, <1>1 DEF claim_task, TaskRow
    <2>2. PICK r \in Resources : run[r].task = t /\ HoldsJob(run[r])
      BY <2>1 DEF Inv, Consistent, Live
    <2>3. Proceeds(r)
      BY <2>1 DEF Proceeds, Undisturbed
    <2>4. QED
      BY <2>3 DEF Kinds
  <1>2. ASSUME NEW r \in Resources, NEW t \in Tasks, mark_run_executing(r, t)
        PROVE  Kinds
    <2>1. job' = job /\ task' = task /\ events' = events
      BY <1>2 DEF mark_run_executing
    <2>2. \A s \in Resources \ {r} : run'[s] = run[s]
      BY <1>0, <1>2 DEF mark_run_executing
    <2>3. /\ run'[r].job = run[r].job /\ run'[r].task = run[r].task
          /\ run'[r].step = run[r].step /\ run'[r].resume = run[r].resume
          /\ run[r].phase \in HoldingPhases /\ run'[r].phase \in HoldingPhases
      BY <1>0, <1>2 DEF mark_run_executing, RunRow, HoldingPhases
    <2>4. Undisturbed(run[r], run'[r])
      BY <1>0, <1>2 DEF mark_run_executing, RunRow, Undisturbed
    <2>5. Proceeds(r)
      BY <2>1, <2>2, <2>3, <2>4 DEF Proceeds, HoldsJob, HoldingPhases
    <2>6. QED
      BY <2>5 DEF Kinds
  <1>3. ASSUME NEW r \in Resources, NEW t \in Tasks, NEW from, NEW end \in RunEnds,
               commit_terminal(job, run, task, r, t, from, end)
        PROVE  Kinds
    <2>1. HoldsJob(run[r])
      BY <1>3 DEF commit_terminal
    <2>2. QED
      BY <1>0, <1>3, <2>1, CommitEnds
  <1>4. ASSUME NEW r \in Resources, NEW t \in Tasks, NEW from, NEW end \in RunEnds,
               commit_job_run_exit(r, t, from, end)
        PROVE  Kinds
    BY <1>3, <1>4 DEF commit_job_run_exit
  <1>5. ASSUME NEW r \in Resources, NEW t \in Tasks, NEW from, commit_lost(r, t, from)
        PROVE  Kinds
    BY <1>3, <1>5 DEF commit_lost, RunEnds
  <1>6. QED
    BY <1>1, <1>2, <1>4, <1>5 DEF WorkerCalls

\* Every step of the store is of one of the kinds
LEMMA StepKinds ==
    ASSUME Inv, Slotted(job), [Next]_storeVars
    PROVE  Kinds
  <1>1. CASE Next
    BY <1>1, RequestKinds, ActorKinds, WorkerKinds DEF Next
  <1>2. CASE UNCHANGED storeVars
    BY <1>2 DEF Kinds
  <1>3. QED
    BY <1>1, <1>2

-----------------------------------------------------------------------------
(* The rows *)

\* The tables of a reservation, row by row
LEMMA ReservedRows ==
    ASSUME TypeOK, NEW j \in Jobs, NEW r \in Resources, MayReserve(j, r)
    PROVE  /\ ReservedJob(j, r)[j].state = "active"
           /\ ReservedJob(j, r)[j].resource = r
           /\ ReservedJob(j, r)[j].resume = FALSE
           /\ ReservedJob(j, r)[j].runs = job[j].runs + 1
           /\ ReservedJob(j, r)[j].position = job[j].position
           /\ ReservedJob(j, r)[j].priority = job[j].priority
           /\ ReservedJob(j, r)[j].step = job[j].step
           /\ ReservedJob(j, r)[j].spec = job[j].spec
           /\ \A k \in Jobs \ {j} : ReservedJob(j, r)[k] = job[k]
           /\ ReservedRun(j, r)[r].phase = "launching"
           /\ ReservedRun(j, r)[r].job = j
           /\ ReservedRun(j, r)[r].task = <<j, job[j].runs + 1>>
           /\ ReservedRun(j, r)[r].step = job[j].step
           /\ ReservedRun(j, r)[r].resume = job[j].resume
           /\ \A s \in Resources \ {r} : ReservedRun(j, r)[s] = run[s]
           /\ ReservedTask(j)[<<j, job[j].runs + 1>>].status = "queued"
           /\ \A u \in Tasks \ {<<j, job[j].runs + 1>>} : ReservedTask(j)[u] = task[u]
  <1>1. job \in [Jobs -> JobRow] /\ run \in [Resources -> RunRow]
        /\ task \in [Tasks -> TaskRow]
    BY DEF TypeOK
  <1>2. <<j, job[j].runs + 1>> \in Tasks
    BY ReservedType
  <1>3. /\ ReservedJob(j, r)[j].state = "active"
        /\ ReservedJob(j, r)[j].resource = r
        /\ ReservedJob(j, r)[j].resume = FALSE
        /\ ReservedJob(j, r)[j].runs = job[j].runs + 1
        /\ ReservedJob(j, r)[j].position = job[j].position
        /\ ReservedJob(j, r)[j].priority = job[j].priority
        /\ ReservedJob(j, r)[j].step = job[j].step
        /\ ReservedJob(j, r)[j].spec = job[j].spec
        /\ \A k \in Jobs \ {j} : ReservedJob(j, r)[k] = job[k]
    BY <1>1 DEF ReservedJob, JobRow
  <1>4. /\ ReservedRun(j, r)[r].phase = "launching"
        /\ ReservedRun(j, r)[r].job = j
        /\ ReservedRun(j, r)[r].task = <<j, job[j].runs + 1>>
        /\ ReservedRun(j, r)[r].step = job[j].step
        /\ ReservedRun(j, r)[r].resume = job[j].resume
        /\ \A s \in Resources \ {r} : ReservedRun(j, r)[s] = run[s]
    BY <1>1 DEF ReservedRun, IdleRun
  <1>5. /\ ReservedTask(j)[<<j, job[j].runs + 1>>].status = "queued"
        /\ \A u \in Tasks \ {<<j, job[j].runs + 1>>} : ReservedTask(j)[u] = task[u]
    BY <1>1, <1>2 DEF ReservedTask, AbsentTask
  <1>6. QED
    BY <1>3, <1>4, <1>5

\* The fields of a row after its run ended
LEMMA EndedRowFields ==
    ASSUME NEW row \in JobRow, NEW after,
           after.state \in {"queued"} \cup TerminalJob, after.step \in Nat,
           after.resume \in BOOLEAN
    PROVE  /\ EndedRow(row, after).state = after.state
           /\ EndedRow(row, after).step = after.step
           /\ EndedRow(row, after).resume = after.resume
           /\ EndedRow(row, after).spec = row.spec
           /\ EndedRow(row, after).runs = row.runs
           /\ EndedRow(row, after).priority = row.priority
           /\ EndedRow(row, after).position =
                IF after.state \in TerminalJob THEN 0 ELSE row.position
  BY DEF EndedRow, JobRow

\* The kind of row changes of a step that moves one job: j's own row is in
\* the queue exactly if j waits or is active, and it is not absent
LEMMA RowsOfStep ==
    ASSUME job \in [Jobs -> JobRow], Slotted(job), Fresh(job), NEW j \in Jobs,
           job'[j].position # 0 <=> job'[j].state \in {"queued", "active"},
           job'[j].state # "absent",
           OthersKept(job, j)
    PROVE  /\ Slotted(job') /\ Fresh(job')
           /\ \A k \in Jobs \ {j} : job'[k].step = job[k].step
  <1>1. ASSUME NEW k \in Jobs \ {j}
        PROVE  /\ job'[k].state = job[k].state /\ job'[k].step = job[k].step
               /\ job[k].position = 0 => job'[k] = job[k]
               /\ job[k].position # 0 => job'[k].position # 0
    BY ReplacedFields DEF OthersKept
  <1>2. Slotted(job')
    BY <1>1 DEF Slotted
  <1>3. Fresh(job')
    <2>1. ASSUME NEW k \in Jobs \ {j}, job'[k].state = "absent" PROVE job'[k] = AbsentJob
      <3>1. job[k].position = 0 /\ job[k].state = "absent"
        BY <1>1, <2>1 DEF Slotted
      <3>2. QED
        BY <1>1, <3>1 DEF Fresh
    <2>2. QED
      BY <2>1 DEF Fresh
  <1>4. QED
    BY <1>1, <1>2, <1>3

\* Every step keeps the rows
LEMMA RowsKept ==
    ASSUME Inv, Rows(job, run), Kinds
    PROVE  Rows(job', run')
  <1>0. /\ job \in [Jobs -> JobRow] /\ run \in [Resources -> RunRow] /\ TypeOK
        /\ Slotted(job) /\ Fresh(job) /\ OnStep(job, run) /\ Owned(run)
        /\ Single(run) /\ Held(job, run)
    BY DEF Inv, TypeOK, Consistent, Rows
  <1>a. TypeOK
    BY DEF Inv
  <1>1. ASSUME NEW j \in Jobs, Accepts(j) PROVE Rows(job', run')
    <2>1. OthersKept(job, j)
      BY <1>1 DEF Accepts, OthersKept, Replaced
    <2>2. Slotted(job') /\ Fresh(job')
      BY <1>0, <1>1, <2>1, RowsOfStep DEF Accepts
    <2>3. job[j].step = 0
      BY <1>0, <1>1 DEF Accepts, Fresh, AbsentJob
    <2>4. \A k \in Jobs : job'[k].step = job[k].step
      BY <1>1, <2>3 DEF Accepts
    <2>5. OnStep(job', run')
      BY <1>0, <1>1, <2>4 DEF OnStep, Owned, HoldsJob, HoldingPhases, Accepts
    <2>6. QED
      BY <2>2, <2>5 DEF Rows
  <1>2. ASSUME NEW j \in Jobs, Reorders(j) PROVE Rows(job', run')
    <2>1. PICK p \in Priorities, n \in Nat :
                job'[j] = [job[j] EXCEPT !.priority = p, !.position = n + 1]
      BY <1>2 DEF Reorders
    <2>2. /\ job'[j].position = n + 1 /\ job'[j].state = job[j].state
          /\ job'[j].step = job[j].step
      <3>1. job[j] \in JobRow
        BY <1>0
      <3>2. QED
        BY <2>1, <3>1 DEF JobRow
    <2>3. job[j].state \in {"queued", "active"} /\ OthersKept(job, j) /\ run' = run
      BY <1>2 DEF Reorders
    <2>4. /\ Slotted(job') /\ Fresh(job')
          /\ \A k \in Jobs \ {j} : job'[k].step = job[k].step
      BY <1>0, <2>2, <2>3, RowsOfStep
    <2>5. OnStep(job', run')
      BY <1>0, <2>2, <2>3, <2>4 DEF OnStep, Owned, HoldsJob, HoldingPhases
    <2>6. QED
      BY <2>4, <2>5 DEF Rows
  <1>3. ASSUME NEW j \in Jobs, Withdraws(j) PROVE Rows(job', run')
    <2>1. /\ job'[j].position = 0 /\ job'[j].state = "cancelled"
          /\ job'[j].step = job[j].step
      <3>1. job[j] \in JobRow
        BY <1>0
      <3>2. QED
        BY <1>3, <3>1 DEF Withdraws, JobRow
    <2>2. OthersKept(job, j) /\ run' = run
      BY <1>3 DEF Withdraws
    <2>3. /\ Slotted(job') /\ Fresh(job')
          /\ \A k \in Jobs \ {j} : job'[k].step = job[k].step
      BY <1>0, <2>1, <2>2, RowsOfStep
    <2>4. OnStep(job', run')
      BY <1>0, <2>1, <2>2, <2>3 DEF OnStep, Owned, HoldsJob, HoldingPhases
    <2>5. QED
      BY <2>3, <2>4 DEF Rows
  <1>4. ASSUME NEW j \in Jobs, NEW r \in Resources, Starts(j, r) PROVE Rows(job', run')
    <2>1. /\ MayReserve(j, r) /\ job' = ReservedJob(j, r) /\ run' = ReservedRun(j, r)
      BY <1>4 DEF Starts
    <2>2. /\ job'[j].state = "active" /\ job'[j].position = job[j].position
          /\ job'[j].step = job[j].step /\ job[j].state = "queued"
      BY <1>0, <2>1, ReservedRows DEF MayReserve
    <2>3. /\ \A k \in Jobs \ {j} : job'[k] = job[k]
          /\ run'[r].job = j /\ run'[r].step = job[j].step
          /\ \A s \in Resources \ {r} : run'[s] = run[s]
      <3>0. MayReserve(j, r)
        BY <2>1
      <3>1. \A k \in Jobs \ {j} : ReservedJob(j, r)[k] = job[k]
        BY <1>a DEF ReservedJob, TypeOK
      <3>2. /\ ReservedRun(j, r)[r].job = j /\ ReservedRun(j, r)[r].step = job[j].step
            /\ \A s \in Resources \ {r} : ReservedRun(j, r)[s] = run[s]
        BY <1>a, <2>1, ReservedRows
      <3>3. QED
        BY <2>1, <3>1, <3>2
    <2>4. Slotted(job') /\ Fresh(job')
      BY <1>0, <2>2, <2>3 DEF Slotted, Fresh
    <2>5. OnStep(job', run')
      BY <1>0, <2>2, <2>3 DEF OnStep, Owned, HoldsJob, HoldingPhases
    <2>6. QED
      BY <2>4, <2>5 DEF Rows
  <1>5. ASSUME NEW j \in Jobs, NEW r \in Resources, Fails(j, r) PROVE Rows(job', run')
    <2> DEFINE jb == ReservedJob(j, r)
               rn == ReservedRun(j, r)
               after == AfterRun(rn[r], "failed")
    <2>1. MayReserve(j, r) /\ EndsIn(jb, rn, ReservedTask(j), r, "failed", "failed")
      BY <1>5 DEF Fails
    <2>2. jb \in [Jobs -> JobRow] /\ rn[r] \in RunRow /\ rn[r].job = j
      <3>1. jb \in [Jobs -> JobRow] /\ rn \in [Resources -> RunRow]
        BY <1>a, <2>1, ReservedType
      <3>2. rn[r].job = j
        BY <1>a, <2>1, ReservedRows
      <3>3. QED
        BY <3>1, <3>2
    <2>3. /\ \A k \in Jobs \ {j} : jb[k] = job[k]
          /\ \A s \in Resources \ {r} : rn[s] = run[s]
      BY <1>a, <2>1, ReservedRows
    <2> HIDE DEF jb, rn
    <2>4. after.state = "failed" /\ after.step \in Nat /\ after.resume \in BOOLEAN
      BY <2>2 DEF AfterRun, TerminalJob, RunRow
    <2>5. /\ job'[j] = EndedRow(jb[j], after) /\ OthersKept(jb, j)
          /\ run'[r].phase = "cleaning"
          /\ \A s \in Resources \ {r} : run'[s] = rn[s]
      BY <2>1, <2>2 DEF EndsIn
    <2> HIDE DEF after
    <2>6. job'[j].state = "failed" /\ job'[j].position = 0
      BY <2>2, <2>4, <2>5, EndedRowFields DEF TerminalJob
    <2>7. OthersKept(job, j)
      BY <2>3, <2>5 DEF OthersKept
    <2>8. /\ Slotted(job') /\ Fresh(job')
          /\ \A k \in Jobs \ {j} : job'[k].step = job[k].step
      BY <1>0, <2>6, <2>7, RowsOfStep
    <2>9. \A s \in Resources \ {r} : run'[s] = run[s] /\ run[s].job # j
      BY <2>1, <2>3, <2>5 DEF MayReserve
    <2>10. OnStep(job', run')
      BY <1>0, <2>5, <2>8, <2>9 DEF OnStep, Owned, HoldsJob, HoldingPhases
    <2>11. QED
      BY <2>8, <2>10 DEF Rows
  <1>6. ASSUME NEW r \in Resources, job' = job,
               \A s \in Resources \ {r} : run'[s] = run[s],
               HoldsJob(run'[r]) => /\ HoldsJob(run[r]) /\ run'[r].job = run[r].job
                                    /\ run'[r].step = run[r].step
        PROVE  Rows(job', run')
    BY <1>0, <1>6 DEF Rows, Slotted, Fresh, OnStep
  <1>7. ASSUME NEW r \in Resources,
               Proceeds(r) \/ Reminds(r) \/ Sticks(r) \/ Frees(r)
        PROVE  Rows(job', run')
    <2>1. CASE Proceeds(r)
      BY <1>6, <2>1 DEF Proceeds
    <2>2. CASE Reminds(r)
      BY <1>6, <2>2 DEF Reminds
    <2>3. CASE Sticks(r)
      BY <1>6, <2>3 DEF Sticks, HoldsJob, HoldingPhases
    <2>4. CASE Frees(r)
      <3>1. /\ run'[r].phase = "idle" /\ job' = job
            /\ \A s \in Resources \ {r} : run'[s] = run[s]
        BY <1>0, <2>4 DEF Frees, IdleRun
      <3>2. ~HoldsJob(run'[r])
        BY <3>1 DEF HoldsJob, HoldingPhases
      <3>3. QED
        BY <1>6, <3>1, <3>2
    <2>5. QED
      BY <1>7, <2>1, <2>2, <2>3, <2>4
  <1>8. ASSUME NEW r \in Resources, NEW move \in Moves \cup {"abandoned"},
               NEW outcome, Ends(r, move, outcome)
        PROVE  Rows(job', run')
    <2> DEFINE j == run[r].job
               after == AfterRun(run[r], move)
    <2>1. /\ HoldsJob(run[r]) /\ job'[j] = EndedRow(job[j], after)
          /\ OthersKept(job, j) /\ run'[r].phase = "cleaning"
          /\ \A s \in Resources \ {r} : run'[s] = run[s]
      BY <1>8 DEF Ends, EndsIn
    <2>2. j \in Jobs /\ run[r] \in RunRow /\ job[j].state = "active"
      BY <1>0, <2>1 DEF Owned, Held, HoldsJob, HoldingPhases
    <2>3. /\ after.state \in {"queued"} \cup TerminalJob /\ after.step \in Nat
          /\ after.resume \in BOOLEAN
      BY <2>2, AfterRunType
    <2> HIDE DEF after
    <2>4. /\ job'[j].state = after.state
          /\ job'[j].position = IF after.state \in TerminalJob THEN 0
                                ELSE job[j].position
      BY <1>0, <2>1, <2>2, <2>3, EndedRowFields
    <2>5. job[j].position # 0
      BY <1>0, <2>2 DEF Slotted
    <2>6. /\ Slotted(job') /\ Fresh(job')
          /\ \A k \in Jobs \ {j} : job'[k].step = job[k].step
      <3>1. /\ job'[j].position # 0 <=> job'[j].state \in {"queued", "active"}
            /\ job'[j].state # "absent"
        BY <2>3, <2>4, <2>5 DEF TerminalJob
      <3>2. QED
        BY <1>0, <2>1, <2>2, <3>1, RowsOfStep
    <2>7. \A s \in Resources \ {r} : run[s].job # j
      BY <1>0, <2>1 DEF Single, HoldsJob, HoldingPhases
    <2>8. OnStep(job', run')
      BY <1>0, <2>1, <2>6, <2>7 DEF OnStep, Owned, HoldsJob, HoldingPhases
    <2>9. QED
      BY <2>6, <2>8 DEF Rows
  <1>9. CASE UNCHANGED storeVars
    BY <1>0, <1>9 DEF storeVars, Rows
  <1>10. QED
    BY <1>1, <1>2, <1>3, <1>4, <1>5, <1>7, <1>8, <1>9 DEF Kinds

-----------------------------------------------------------------------------
(* The event logs *)

\* The log s fits a job in this state: one terminal event, of the state's
\* kind and with only stuck cleanups after it, or none
LogFits(s, state) ==
    LET ends == {n \in DOMAIN s : s[n].kind \in TerminalJob} IN
    IF state \in TerminalJob
    THEN \E n \in ends :
            /\ ends = {n} /\ s[n].kind = state
            /\ \A m \in DOMAIN s : m > n => s[m].kind = "attention"
    ELSE ends = {}

LEMMA LogsFit == OneTerminalEvent <=> \A j \in Jobs : LogFits(events[j], job[j].state)
  BY DEF OneTerminalEvent, LogFits

\* The event a job ends with
LEMMA AppendEnd ==
    ASSUME NEW s \in Seq(Event), NEW state, state \notin TerminalJob,
           LogFits(s, state), NEW kind \in TerminalJob, NEW e \in Event, e.kind = kind
    PROVE  LogFits(Append(s, e), kind)
  <1> DEFINE a == Append(s, e)
             last == Len(s) + 1
  <1>1. /\ Len(s) \in Nat /\ DOMAIN s = 1..Len(s) /\ DOMAIN a = 1..last
        /\ a[last] = e /\ \A n \in 1..Len(s) : a[n] = s[n]
    BY AppendProperties, LenProperties
  <1>2. \A n \in DOMAIN s : s[n].kind \notin TerminalJob
    BY DEF LogFits
  <1> HIDE DEF a
  <1>3. {n \in DOMAIN a : a[n].kind \in TerminalJob} = {last}
    BY <1>1, <1>2
  <1>4. \A m \in DOMAIN a : ~(m > last)
    BY <1>1
  <1>5. LogFits(a, kind)
    BY <1>1, <1>3, <1>4 DEF LogFits
  <1>6. QED
    BY <1>5 DEF a

\* Any other event of a job that goes on
LEMMA AppendReport ==
    ASSUME NEW s \in Seq(Event), NEW state, NEW state2, state \notin TerminalJob,
           state2 \notin TerminalJob, LogFits(s, state),
           NEW e \in Event, e.kind \notin TerminalJob
    PROVE  LogFits(Append(s, e), state2)
  <1> DEFINE a == Append(s, e)
             last == Len(s) + 1
  <1>1. /\ Len(s) \in Nat /\ DOMAIN s = 1..Len(s) /\ DOMAIN a = 1..last
        /\ a[last] = e /\ \A n \in 1..Len(s) : a[n] = s[n]
    BY AppendProperties, LenProperties
  <1>2. \A n \in DOMAIN s : s[n].kind \notin TerminalJob
    BY DEF LogFits
  <1> HIDE DEF a
  <1>3. {n \in DOMAIN a : a[n].kind \in TerminalJob} = {}
    BY <1>1, <1>2
  <1>4. LogFits(a, state2)
    BY <1>3 DEF LogFits
  <1>5. QED
    BY <1>4 DEF a

\* A stuck cleanup, which may be reported after the end
LEMMA AppendAttention ==
    ASSUME NEW s \in Seq(Event), NEW state, LogFits(s, state),
           NEW e \in Event, e.kind = "attention"
    PROVE  LogFits(Append(s, e), state)
  <1>0. "attention" \notin TerminalJob
    BY DEF TerminalJob
  <1>1. CASE state \notin TerminalJob
    BY <1>0, <1>1, AppendReport
  <1>2. CASE state \in TerminalJob
    <2> DEFINE a == Append(s, e)
               last == Len(s) + 1
    <2>1. /\ Len(s) \in Nat /\ DOMAIN s = 1..Len(s) /\ DOMAIN a = 1..last
          /\ a[last] = e /\ \A n \in 1..Len(s) : a[n] = s[n]
      BY AppendProperties, LenProperties
    <2>2. PICK n \in DOMAIN s :
            /\ {m \in DOMAIN s : s[m].kind \in TerminalJob} = {n}
            /\ s[n].kind = state
            /\ \A m \in DOMAIN s : m > n => s[m].kind = "attention"
      BY <1>2 DEF LogFits
    <2> HIDE DEF a
    <2>3. n \in DOMAIN a /\ a[n].kind = state
      BY <2>1, <2>2
    <2>4. {m \in DOMAIN a : a[m].kind \in TerminalJob} = {n}
      BY <1>0, <1>2, <2>1, <2>2, <2>3
    <2>5. \A m \in DOMAIN a : m > n => a[m].kind = "attention"
      BY <2>1, <2>2
    <2>6. LogFits(a, state)
      BY <1>2, <2>3, <2>4, <2>5 DEF LogFits
    <2>7. QED
      BY <2>6 DEF a
  <1>3. QED
    BY <1>1, <1>2

\* An event goes into the log of one job
LEMMA AppendedLog ==
    ASSUME events \in [Jobs -> Seq(Event)], NEW j \in Jobs, NEW kind \in EventKinds,
           NEW n \in 0..MaxRuns
    PROVE  \E e \in Event :
              /\ e.kind = kind
              /\ append_job_event(events, j, kind, n)[j] = Append(events[j], e)
              /\ \A k \in Jobs \ {j} : append_job_event(events, j, kind, n)[k] = events[k]
  <1> DEFINE e == [kind |-> kind, run |-> n]
  <1>1. e \in Event /\ e.kind = kind
    BY DEF Event
  <1>2. append_job_event(events, j, kind, n) = [events EXCEPT ![j] = Append(events[j], e)]
    BY DEF append_job_event
  <1> HIDE DEF e
  <1>3. QED
    BY <1>1, <1>2

\* A step that moves job j and no other: the other states are kept, and a
\* terminal row is kept as it is
LEMMA OthersOfStep ==
    ASSUME job \in [Jobs -> JobRow], Slotted(job), NEW j \in Jobs, OthersKept(job, j)
    PROVE  \A k \in Jobs \ {j} : /\ job'[k].state = job[k].state
                                 /\ job[k].state \in TerminalJob => job'[k] = job[k]
  <1> SUFFICES ASSUME NEW k \in Jobs \ {j}
               PROVE  /\ job'[k].state = job[k].state
                      /\ job[k].state \in TerminalJob => job'[k] = job[k]
    OBVIOUS
  <1>1. job[k] \in JobRow /\ Replaced(job[k], job'[k])
    BY DEF OthersKept
  <1>2. job'[k].state = job[k].state /\ (job[k].position = 0 => job'[k] = job[k])
    BY <1>1, ReplacedFields
  <1>3. job[k].state \in TerminalJob => job[k].position = 0
    BY DEF Slotted, TerminalJob
  <1>4. QED
    BY <1>2, <1>3

\* Where the end of a run leaves its job, and what it logs
LEMMA AfterRunLog ==
    ASSUME NEW rec \in RunRow, NEW move \in Moves \cup {"abandoned"}
    PROVE  \/ /\ AfterRun(rec, move).state \in TerminalJob
              /\ AfterRun(rec, move).event = AfterRun(rec, move).state
              /\ AfterRun(rec, move).step = rec.step
              /\ move = AfterRun(rec, move).state
           \/ /\ AfterRun(rec, move).state = "queued"
              /\ AfterRun(rec, move).event \in {"none", "preempted"}
              /\ \/ AfterRun(rec, move).step = rec.step /\ move # "next_step"
                 \/ AfterRun(rec, move).step = rec.step + 1 /\ move = "next_step"
  <1>1. CASE move \in TerminalJob
    <2>1. AfterRun(rec, move) = [state |-> move, step |-> rec.step,
                                 resume |-> FALSE, event |-> move]
      BY <1>1 DEF AfterRun, TerminalJob
    <2>2. QED
      BY <1>1, <2>1
  <1>2. CASE move = "next_step"
    BY <1>2 DEF AfterRun, TerminalJob
  <1>3. CASE move = "resume"
    BY <1>3 DEF AfterRun, TerminalJob
  <1>4. CASE move = "restart"
    BY <1>4 DEF AfterRun, TerminalJob
  <1>5. CASE move = "abandoned"
    BY <1>5 DEF AfterRun, TerminalJob
  <1>6. QED
    BY <1>1, <1>2, <1>3, <1>4, <1>5 DEF Moves

\* Every step keeps the logs and the rows of the jobs that ended
LEMMA LogsKept ==
    ASSUME Inv, Rows(job, run), OneTerminalEvent, Kinds
    PROVE  /\ \A j \in Jobs : LogFits(events'[j], job'[j].state)
           /\ \A j \in Jobs : job[j].state \in TerminalJob => job'[j] = job[j]
  <1> DEFINE Kept == /\ \A j \in Jobs : LogFits(events'[j], job'[j].state)
                     /\ \A j \in Jobs : job[j].state \in TerminalJob => job'[j] = job[j]
  <1> HIDE DEF Kept
  <1>0. /\ job \in [Jobs -> JobRow] /\ run \in [Resources -> RunRow]
        /\ Slotted(job) /\ Owned(run) /\ Held(job, run)
    BY DEF Inv, TypeOK, Consistent, Rows
  <1>a. /\ TypeOK /\ events \in [Jobs -> Seq(Event)]
        /\ \A j \in Jobs : LogFits(events[j], job[j].state)
    BY LogsFit DEF Inv, TypeOK
  <1>b. \A r \in Resources : run[r].task[2] \in 0..MaxRuns
    BY <1>0, TaskNumber DEF RunRow
  <1>c. TerminalJob \subseteq EventKinds /\ "queued" \notin TerminalJob
        /\ "active" \notin TerminalJob /\ "absent" \notin TerminalJob
    BY DEF TerminalJob, EventKinds
  <1>1. ASSUME NEW j \in Jobs, job[j].state \notin TerminalJob,
               job'[j].state \notin TerminalJob, OthersKept(job, j), events' = events
        PROVE  Kept
    <2>1. \A k \in Jobs \ {j} : /\ job'[k].state = job[k].state
                                /\ job[k].state \in TerminalJob => job'[k] = job[k]
      BY <1>0, <1>1, OthersOfStep
    <2>2. LogFits(events[j], job'[j].state)
      BY <1>a, <1>1 DEF LogFits
    <2>3. QED
      BY <1>a, <1>1, <2>1, <2>2 DEF Kept
  <1>2. ASSUME NEW j \in Jobs, job[j].state \notin TerminalJob,
               NEW kind \in EventKinds, NEW n \in 0..MaxRuns, OthersKept(job, j),
               events' = append_job_event(events, j, kind, n),
               \/ kind \in TerminalJob /\ job'[j].state = kind
               \/ kind \notin TerminalJob /\ job'[j].state \notin TerminalJob
        PROVE  Kept
    <2>1. \A k \in Jobs \ {j} : /\ job'[k].state = job[k].state
                                /\ job[k].state \in TerminalJob => job'[k] = job[k]
      BY <1>0, <1>2, OthersOfStep
    <2>2. PICK e \in Event :
              /\ e.kind = kind
              /\ events'[j] = Append(events[j], e)
              /\ \A k \in Jobs \ {j} : events'[k] = events[k]
      BY <1>a, <1>2, AppendedLog
    <2>3. events[j] \in Seq(Event) /\ LogFits(events[j], job[j].state)
      BY <1>a
    <2>4. LogFits(events'[j], job'[j].state)
      <3>1. CASE kind \in TerminalJob /\ job'[j].state = kind
        BY <1>2, <2>2, <2>3, <3>1, AppendEnd
      <3>2. CASE kind \notin TerminalJob /\ job'[j].state \notin TerminalJob
        BY <1>2, <2>2, <2>3, <3>2, AppendReport
      <3>3. QED
        BY <1>2, <3>1, <3>2
    <2>5. QED
      BY <1>a, <1>2, <2>1, <2>2, <2>4 DEF Kept
  <1>3. ASSUME job' = job, events' = events PROVE Kept
    BY <1>a, <1>3 DEF Kept
  <1>4. ASSUME NEW j \in Jobs, Accepts(j) PROVE Kept
    <2>1. OthersKept(job, j)
      BY <1>4 DEF Accepts, OthersKept, Replaced
    <2>2. QED
      BY <1>c, <1>1, <1>4, <2>1 DEF Accepts
  <1>5. ASSUME NEW j \in Jobs, Reorders(j) PROVE Kept
    <2>1. /\ job[j].state \in {"queued", "active"} /\ OthersKept(job, j)
          /\ events' = events
      BY <1>5 DEF Reorders
    <2>2. PICK p \in Priorities, n \in Nat :
                job'[j] = [job[j] EXCEPT !.priority = p, !.position = n + 1]
      BY <1>5 DEF Reorders
    <2>3. job'[j].state = job[j].state
      <3>1. job[j] \in JobRow
        BY <1>0
      <3>2. QED
        BY <2>2, <3>1 DEF JobRow
    <2>4. QED
      BY <1>c, <1>1, <2>1, <2>3
  <1>6. ASSUME NEW j \in Jobs, Withdraws(j) PROVE Kept
    <2>1. /\ job[j].state = "queued" /\ OthersKept(job, j)
          /\ events' = append_job_event(events, j, "cancelled", 0)
      BY <1>6 DEF Withdraws
    <2>2. job'[j].state = "cancelled"
      <3>1. job[j] \in JobRow
        BY <1>0
      <3>2. QED
        BY <1>6, <3>1 DEF JobRow, Withdraws
    <2>3. "cancelled" \in TerminalJob /\ 0 \in 0..MaxRuns
      BY StoreAssumption DEF TerminalJob, StoreAssumption
    <2>4. QED
      BY <1>c, <1>2, <2>1, <2>2, <2>3
  <1>7. ASSUME NEW j \in Jobs, NEW r \in Resources, Starts(j, r) PROVE Kept
    <2>1. MayReserve(j, r) /\ job' = ReservedJob(j, r) /\ events' = events
      BY <1>7 DEF Starts
    <2>2. job[j].state = "queued" /\ job'[j].state = "active"
      BY <1>a, <2>1, ReservedRows DEF MayReserve
    <2>3. \A k \in Jobs \ {j} : job'[k] = job[k]
      BY <1>0, <2>1 DEF ReservedJob
    <2>4. OthersKept(job, j)
      BY <2>3 DEF OthersKept, Replaced
    <2>5. QED
      BY <1>c, <1>1, <2>1, <2>2, <2>4
  <1>8. ASSUME NEW j \in Jobs, NEW r \in Resources, Fails(j, r) PROVE Kept
    <2> DEFINE jb == ReservedJob(j, r)
               rn == ReservedRun(j, r)
               after == AfterRun(rn[r], "failed")
    <2>1. MayReserve(j, r) /\ EndsIn(jb, rn, ReservedTask(j), r, "failed", "failed")
      BY <1>8 DEF Fails
    <2>2. jb \in [Jobs -> JobRow] /\ rn \in [Resources -> RunRow]
      BY <1>a, <2>1, ReservedType
    <2>3. rn[r].job = j
      BY <1>a, <2>1, ReservedRows
    <2>4. \A k \in Jobs \ {j} : jb[k] = job[k]
      BY <1>0 DEF ReservedJob
    <2> HIDE DEF jb, rn
    <2>5. rn[r] \in RunRow /\ rn[r].task[2] \in 0..MaxRuns
      BY <2>2, TaskNumber DEF RunRow
    <2>6. after = [state |-> "failed", step |-> rn[r].step, resume |-> FALSE,
                   event |-> "failed"]
      BY DEF AfterRun, TerminalJob
    <2>7. /\ job'[j] = EndedRow(jb[j], after) /\ OthersKept(jb, j)
          /\ Logged(j, after.event, rn[r].task[2])
      BY <2>1, <2>3 DEF EndsIn
    <2> HIDE DEF after
    <2>8. after.state = "failed" /\ after.step \in Nat /\ after.resume \in BOOLEAN
          /\ after.event = "failed"
      BY <2>5, <2>6 DEF RunRow
    <2>9. "failed" \in TerminalJob /\ "failed" # "none"
      BY DEF TerminalJob
    <2>10. job'[j].state = "failed"
      BY <2>2, <2>7, <2>8, <2>9, EndedRowFields
    <2>11. OthersKept(job, j)
      BY <2>4, <2>7 DEF OthersKept
    <2>12. events' = append_job_event(events, j, "failed", rn[r].task[2])
      BY <2>7, <2>8 DEF Logged
    <2>13. job[j].state = "queued"
      BY <2>1 DEF MayReserve
    <2>14. QED
      BY <1>c, <1>2, <2>5, <2>9, <2>10, <2>11, <2>12, <2>13
  <1>9. ASSUME NEW r \in Resources,
               Proceeds(r) \/ Reminds(r) \/ Sticks(r) \/ Frees(r)
        PROVE  Kept
    <2>1. CASE Proceeds(r)
      BY <1>3, <2>1 DEF Proceeds
    <2>2. CASE Reminds(r)
      <3>1. /\ HoldsJob(run[r]) /\ job' = job
            /\ events' = append_job_event(events, run[r].job, "check_due", run[r].task[2])
        BY <2>2 DEF Reminds
      <3>2. run[r].job \in Jobs /\ job[run[r].job].state = "active"
        BY <1>0, <3>1 DEF Owned, Held, HoldsJob, HoldingPhases
      <3>3. OthersKept(job, run[r].job)
        BY <3>1 DEF OthersKept, Replaced
      <3>4. "check_due" \in EventKinds /\ "check_due" \notin TerminalJob
        BY DEF EventKinds, TerminalJob
      <3>5. QED
        BY <1>b, <1>c, <1>2, <3>1, <3>2, <3>3, <3>4
    <2>3. CASE Sticks(r)
      <3>1. /\ run[r].phase = "cleaning" /\ job' = job
            /\ events' = append_job_event(events, run[r].job, "attention", run[r].task[2])
        BY <2>3 DEF Sticks
      <3> DEFINE j == run[r].job
      <3>2. j \in Jobs /\ "attention" \in EventKinds
        BY <1>0, <3>1 DEF Owned, EventKinds
      <3>3. PICK e \in Event :
              /\ e.kind = "attention"
              /\ events'[j] = Append(events[j], e)
              /\ \A k \in Jobs \ {j} : events'[k] = events[k]
        BY <1>a, <1>b, <3>1, <3>2, AppendedLog
      <3>4. events[j] \in Seq(Event) /\ LogFits(events[j], job[j].state)
        BY <1>a, <3>2
      <3>5. LogFits(events'[j], job[j].state)
        BY <3>3, <3>4, AppendAttention
      <3>6. QED
        BY <1>a, <3>1, <3>3, <3>5 DEF Kept
    <2>4. CASE Frees(r)
      BY <1>3, <2>4 DEF Frees
    <2>5. QED
      BY <1>9, <2>1, <2>2, <2>3, <2>4
  <1>10. ASSUME NEW r \in Resources, NEW move \in Moves \cup {"abandoned"},
                NEW outcome, Ends(r, move, outcome)
         PROVE  Kept
    <2> DEFINE j == run[r].job
               after == AfterRun(run[r], move)
    <2>1. /\ HoldsJob(run[r]) /\ job'[j] = EndedRow(job[j], after)
          /\ OthersKept(job, j) /\ Logged(j, after.event, run[r].task[2])
      BY <1>10 DEF Ends, EndsIn
    <2>2. j \in Jobs /\ run[r] \in RunRow /\ job[j].state = "active"
      BY <1>0, <2>1 DEF Owned, Held, HoldsJob, HoldingPhases
    <2>3. /\ after.state \in {"queued"} \cup TerminalJob /\ after.step \in Nat
          /\ after.resume \in BOOLEAN
      BY <2>2, AfterRunType
    <2>4. \/ after.state \in TerminalJob /\ after.event = after.state
          \/ after.state = "queued" /\ after.event \in {"none", "preempted"}
      BY <2>2, AfterRunLog
    <2> HIDE DEF after
    <2>5. job'[j].state = after.state
      BY <1>0, <2>1, <2>2, <2>3, EndedRowFields
    <2>6. CASE after.state = "queued" /\ after.event = "none"
      BY <1>c, <1>1, <2>1, <2>2, <2>5, <2>6 DEF Logged
    <2>7. CASE after.state = "queued" /\ after.event = "preempted"
      <3>1. "preempted" \in EventKinds /\ "preempted" \notin TerminalJob
        BY DEF EventKinds, TerminalJob
      <3>2. events' = append_job_event(events, j, "preempted", run[r].task[2])
        BY <2>1, <2>7 DEF Logged
      <3>3. QED
        BY <1>b, <1>c, <1>2, <2>1, <2>2, <2>5, <2>7, <3>1, <3>2
    <2>8. CASE after.state \in TerminalJob /\ after.event = after.state
      <3>1. events' = append_job_event(events, j, after.state, run[r].task[2])
        BY <2>1, <2>8 DEF Logged, TerminalJob
      <3>2. QED
        BY <1>b, <1>c, <1>2, <2>1, <2>2, <2>5, <2>8, <3>1
    <2>9. QED
      BY <2>4, <2>6, <2>7, <2>8
  <1>11. ASSUME UNCHANGED storeVars PROVE Kept
    BY <1>3, <1>11 DEF storeVars
  <1>12. Kept
    BY <1>4, <1>5, <1>6, <1>7, <1>8, <1>9, <1>10, <1>11 DEF Kinds
  <1>13. QED
    BY <1>12 DEF Kept

-----------------------------------------------------------------------------
(* A job ends once *)

StoreInv == Inv /\ Rows(job, run) /\ OneTerminalEvent

\* The tables are empty at first
LEMMA InitRows == Init => Rows(job, run) /\ OneTerminalEvent
  <1> SUFFICES ASSUME Init PROVE Rows(job, run) /\ OneTerminalEvent
    OBVIOUS
  <1>1. /\ \A j \in Jobs : job[j] = AbsentJob /\ events[j] = << >>
        /\ \A r \in Resources : run[r] = IdleRun
    BY DEF Init
  <1>2. AbsentJob.state = "absent" /\ AbsentJob.position = 0 /\ IdleRun.phase = "idle"
    BY DEF AbsentJob, IdleRun
  <1>3. Rows(job, run)
    BY <1>1, <1>2 DEF Rows, Slotted, Fresh, OnStep, HoldsJob, HoldingPhases
  <1>4. OneTerminalEvent
    BY <1>1, <1>2 DEF OneTerminalEvent, TerminalJob
  <1>5. QED
    BY <1>3, <1>4

\* The rows and logs of every reachable state
THEOREM StoreInvariance == Spec => []StoreInv
  <1>1. Init => StoreInv
    BY InitType, InitTies, InitRows DEF StoreInv, Inv
  <1>2. StoreInv /\ Inv' /\ [Next]_storeVars => StoreInv'
    <2> SUFFICES ASSUME StoreInv, Inv', [Next]_storeVars PROVE StoreInv'
      OBVIOUS
    <2>1. Kinds
      BY StepKinds DEF StoreInv, Rows
    <2>2. Rows(job', run')
      BY <2>1, RowsKept DEF StoreInv
    <2>3. Rows(job, run)'
      BY <2>2 DEF Rows, Slotted, Fresh, OnStep
    <2>4. \A j \in Jobs : LogFits(events'[j], job'[j].state)
      BY <2>1, LogsKept DEF StoreInv
    <2>5. OneTerminalEvent'
      BY <2>4 DEF LogFits, OneTerminalEvent
    <2>6. QED
      BY <2>3, <2>5 DEF StoreInv
  <1>3. QED
    BY <1>1, <1>2, Invariance, PTL DEF Spec

\* No event order gives a job two ends or changes it after its end
THEOREM EndsOnceCorrect == Spec => EndsOnce
  <1> DEFINE A == /\ OneTerminalEvent'
                  /\ \A j \in Jobs : job[j].state \in TerminalJob => job'[j] = job[j]
  <1>1. StoreInv /\ StoreInv' /\ [Next]_storeVars => [A]_storeVars
    <2> SUFFICES ASSUME StoreInv, StoreInv', [Next]_storeVars PROVE A
      OBVIOUS
    <2>1. Kinds
      BY StepKinds DEF StoreInv, Rows
    <2>2. \A j \in Jobs : job[j].state \in TerminalJob => job'[j] = job[j]
      BY <2>1, LogsKept DEF StoreInv
    <2>3. QED
      BY <2>2 DEF StoreInv
  <1>2. EndsOnce <=> [][A]_storeVars
    BY DEF EndsOnce
  <1> HIDE DEF A
  <1>3. QED
    BY <1>1, <1>2, StoreInvariance, PTL DEF Spec

-----------------------------------------------------------------------------
(* The store implements JobContract *)

\* The contract's view of the tables
LifeOf == [j \in Jobs |-> job[j].state]
DoneOf == [j \in Jobs |-> job[j].step]
LaneOf == [r \in Resources |-> LaneUse(r)]

\* The use of a resource depends on its run
LEMMA LaneUses ==
    ASSUME NEW r
    PROVE  /\ run[r].phase = "idle" => LaneUse(r) = [use |-> "free", job |-> run[r].job]
           /\ HoldsJob(run[r]) => LaneUse(r) = [use |-> "work", job |-> run[r].job]
           /\ run[r].phase # "idle" /\ ~HoldsJob(run[r]) =>
                LaneUse(r) = [use |-> "settle", job |-> run[r].job]
           /\ LaneUse(r).job = run[r].job
           /\ run'[r].phase = "idle" => LaneUse(r)' = [use |-> "free", job |-> run'[r].job]
           /\ HoldsJob(run'[r]) => LaneUse(r)' = [use |-> "work", job |-> run'[r].job]
           /\ run'[r].phase # "idle" /\ ~HoldsJob(run'[r]) =>
                LaneUse(r)' = [use |-> "settle", job |-> run'[r].job]
           /\ run'[r] = run[r] => LaneUse(r)' = LaneUse(r)
  BY DEF LaneUse, HoldsJob, HoldingPhases

\* A step changes the use of one resource at most
LEMMA LaneChange ==
    ASSUME NEW r \in Resources, NEW u, LaneUse(r)' = u,
           \A s \in Resources \ {r} : run'[s] = run[s]
    PROVE  LaneOf' = [LaneOf EXCEPT ![r] = u]
  <1>1. \A s \in Resources \ {r} : LaneUse(s)' = LaneUse(s)
    BY LaneUses
  <1>2. QED
    BY <1>1 DEF LaneOf

\* A step changes the state and step of one job at most
LEMMA LifeChange ==
    ASSUME job \in [Jobs -> JobRow], NEW j \in Jobs, OthersKept(job, j)
    PROVE  /\ LifeOf' = [LifeOf EXCEPT ![j] = job'[j].state]
           /\ DoneOf' = [DoneOf EXCEPT ![j] = job'[j].step]
  <1>1. \A k \in Jobs \ {j} : job'[k].state = job[k].state /\ job'[k].step = job[k].step
    BY ReplacedFields DEF OthersKept
  <1>2. QED
    BY <1>1 DEF LifeOf, DoneOf

\* The contract's actions in terms of that view: a job is accepted,
LEMMA AcceptStep ==
    ASSUME NEW j \in Jobs, LifeOf[j] = "absent",
           LifeOf' = [LifeOf EXCEPT ![j] = "queued"], DoneOf' = DoneOf, LaneOf' = LaneOf
    PROVE  Contract!Next
  BY DEF Contract!Next, Contract!Accept, LifeOf, DoneOf, LaneOf

\* it is withdrawn while it waits,
LEMMA WithdrawStep ==
    ASSUME NEW j \in Jobs, LifeOf[j] = "queued",
           LifeOf' = [LifeOf EXCEPT ![j] = "cancelled"], DoneOf' = DoneOf, LaneOf' = LaneOf
    PROVE  Contract!Next
  BY DEF Contract!Next, Contract!Withdraw, LifeOf, DoneOf, LaneOf

\* it starts on a free resource, or fails there at once,
LEMMA StartStep ==
    ASSUME NEW j \in Jobs, NEW r \in Resources, LifeOf[j] = "queued",
           LaneOf[r] = [use |-> "free", job |-> NoJob],
           \A s \in Resources : LaneOf[s].job # j, DoneOf' = DoneOf,
           \/ /\ LifeOf' = [LifeOf EXCEPT ![j] = "active"]
              /\ LaneOf' = [LaneOf EXCEPT ![r] = [use |-> "work", job |-> j]]
           \/ /\ LifeOf' = [LifeOf EXCEPT ![j] = "failed"]
              /\ LaneOf' = [LaneOf EXCEPT ![r] = [use |-> "settle", job |-> j]]
    PROVE  Contract!Next
  <1>1. CASE /\ LifeOf' = [LifeOf EXCEPT ![j] = "active"]
             /\ LaneOf' = [LaneOf EXCEPT ![r] = [use |-> "work", job |-> j]]
    <2>1. Contract!Start(j, r)
      BY <1>1 DEF Contract!Start, Contract!Unplaced, Contract!Lane,
                  Contract!FreeLane, LifeOf, DoneOf, LaneOf
    <2>2. QED
      BY <2>1 DEF Contract!Next
  <1>2. CASE /\ LifeOf' = [LifeOf EXCEPT ![j] = "failed"]
             /\ LaneOf' = [LaneOf EXCEPT ![r] = [use |-> "settle", job |-> j]]
    <2>1. Contract!FailAtOnce(j, r)
      BY <1>2 DEF Contract!FailAtOnce, Contract!Unplaced, Contract!Lane,
                  Contract!FreeLane, LifeOf, DoneOf, LaneOf
    <2>2. QED
      BY <2>1 DEF Contract!Next
  <1>3. QED
    BY <1>1, <1>2

\* its run ends,
LEMMA LeaveStep ==
    ASSUME NEW r \in Resources, NEW after \in {"queued"} \cup TerminalJob,
           NEW steps \in {0, 1}, LaneOf[r].use = "work", steps = 1 => after = "queued",
           LifeOf' = [LifeOf EXCEPT ![LaneOf[r].job] = after],
           DoneOf' = [DoneOf EXCEPT ![LaneOf[r].job] = @ + steps],
           LaneOf' = [LaneOf EXCEPT ![r] = [use |-> "settle", job |-> LaneOf[r].job]]
    PROVE  Contract!Next
  <1>1. Contract!Leave(r, after, steps)
    BY DEF Contract!Leave, Contract!Lane, LifeOf, DoneOf, LaneOf
  <1>2. after \in {"queued"} \cup Contract!Ended
    BY DEF Contract!Ended, TerminalJob
  <1>3. QED
    BY <1>1, <1>2 DEF Contract!Next

\* and its resource is free again
LEMMA FreeStep ==
    ASSUME NEW r \in Resources, LaneOf[r].use = "settle", LifeOf' = LifeOf,
           DoneOf' = DoneOf,
           LaneOf' = [LaneOf EXCEPT ![r] = [use |-> "free", job |-> NoJob]]
    PROVE  Contract!Next
  BY DEF Contract!Next, Contract!Free, Contract!FreeLane, LifeOf, DoneOf, LaneOf

\* Every step of the store is a step of the contract or none
LEMMA ContractKept ==
    ASSUME StoreInv, Kinds
    PROVE  Contract!Next \/ UNCHANGED <<LifeOf, DoneOf, LaneOf>>
  <1> DEFINE Goal == Contract!Next \/ UNCHANGED <<LifeOf, DoneOf, LaneOf>>
  <1> HIDE DEF Goal
  <1>0. /\ job \in [Jobs -> JobRow] /\ run \in [Resources -> RunRow]
        /\ Slotted(job) /\ Fresh(job) /\ OnStep(job, run) /\ Owned(run)
        /\ Single(run) /\ Held(job, run)
    BY DEF StoreInv, Inv, TypeOK, Consistent, Rows
  <1>a. TypeOK
    BY DEF StoreInv, Inv
  <1>b. /\ \A j \in Jobs : LifeOf[j] = job[j].state /\ DoneOf[j] = job[j].step
        /\ \A r \in Resources : LaneOf[r] = LaneUse(r) /\ LaneOf[r].job = run[r].job
    BY LaneUses DEF LifeOf, DoneOf, LaneOf
  <1>c. \A r \in Resources :
            run[r].phase = "idle" => LaneOf[r] = [use |-> "free", job |-> NoJob]
    BY <1>0, <1>b, LaneUses DEF Owned, IdleRun
  <1>1. ASSUME run' = run PROVE LaneOf' = LaneOf
    BY <1>1 DEF LaneOf, LaneUse
  <1>2. ASSUME job' = job PROVE LifeOf' = LifeOf /\ DoneOf' = DoneOf
    BY <1>2 DEF LifeOf, DoneOf
  <1>3. ASSUME NEW j \in Jobs, NEW x, OthersKept(job, j), job'[j].state = x,
               job'[j].step = job[j].step
        PROVE  LifeOf' = [LifeOf EXCEPT ![j] = x] /\ DoneOf' = DoneOf
    <2>1. /\ LifeOf' = [LifeOf EXCEPT ![j] = job'[j].state]
          /\ DoneOf' = [DoneOf EXCEPT ![j] = job'[j].step]
      BY <1>0, <1>3, LifeChange
    <2>2. [DoneOf EXCEPT ![j] = job[j].step] = DoneOf
      BY DEF DoneOf
    <2>3. QED
      BY <1>3, <2>1, <2>2
  <1>4. ASSUME NEW j \in Jobs, Accepts(j) PROVE Goal
    <2>1. OthersKept(job, j)
      BY <1>4 DEF Accepts, OthersKept, Replaced
    <2>2. job[j].step = 0
      BY <1>0, <1>4 DEF Accepts, Fresh, AbsentJob
    <2>3. LifeOf' = [LifeOf EXCEPT ![j] = "queued"] /\ DoneOf' = DoneOf
      BY <1>3, <1>4, <2>1, <2>2 DEF Accepts
    <2>4. Contract!Next
      BY <1>b, <1>1, <1>4, <2>3, AcceptStep DEF Accepts
    <2>5. QED
      BY <2>4 DEF Goal
  <1>5. ASSUME NEW j \in Jobs, Reorders(j) PROVE Goal
    <2>1. PICK p \in Priorities, n \in Nat :
                job'[j] = [job[j] EXCEPT !.priority = p, !.position = n + 1]
      BY <1>5 DEF Reorders
    <2>2. job'[j].state = job[j].state /\ job'[j].step = job[j].step
      <3>1. job[j] \in JobRow
        BY <1>0
      <3>2. QED
        BY <2>1, <3>1 DEF JobRow
    <2>3. OthersKept(job, j) /\ run' = run
      BY <1>5 DEF Reorders
    <2>4. LifeOf' = [LifeOf EXCEPT ![j] = job[j].state] /\ DoneOf' = DoneOf
      BY <1>3, <2>2, <2>3
    <2>5. [LifeOf EXCEPT ![j] = job[j].state] = LifeOf
      BY DEF LifeOf
    <2>6. QED
      BY <1>1, <2>3, <2>4, <2>5 DEF Goal
  <1>6. ASSUME NEW j \in Jobs, Withdraws(j) PROVE Goal
    <2>1. job'[j].state = "cancelled" /\ job'[j].step = job[j].step
      <3>1. job[j] \in JobRow
        BY <1>0
      <3>2. QED
        BY <1>6, <3>1 DEF Withdraws, JobRow
    <2>2. OthersKept(job, j) /\ run' = run /\ job[j].state = "queued"
      BY <1>6 DEF Withdraws
    <2>3. LifeOf' = [LifeOf EXCEPT ![j] = "cancelled"] /\ DoneOf' = DoneOf
      BY <1>3, <2>1, <2>2
    <2>4. Contract!Next
      BY <1>b, <1>1, <2>2, <2>3, WithdrawStep
    <2>5. QED
      BY <2>4 DEF Goal
  <1>7. ASSUME NEW j \in Jobs, NEW r \in Resources, MayReserve(j, r)
        PROVE  /\ LifeOf[j] = "queued" /\ LaneOf[r] = [use |-> "free", job |-> NoJob]
               /\ \A s \in Resources : LaneOf[s].job # j
    BY <1>b, <1>c, <1>7 DEF MayReserve
  <1>8. ASSUME NEW j \in Jobs, NEW r \in Resources, Starts(j, r) PROVE Goal
    <2>1. MayReserve(j, r) /\ job' = ReservedJob(j, r) /\ run' = ReservedRun(j, r)
      BY <1>8 DEF Starts
    <2>2. job'[j].state = "active" /\ job'[j].step = job[j].step
      BY <1>a, <2>1, ReservedRows
    <2>3. \A k \in Jobs \ {j} : job'[k] = job[k]
      BY <1>0, <2>1 DEF ReservedJob
    <2>4. OthersKept(job, j)
      BY <2>3 DEF OthersKept, Replaced
    <2>5. LifeOf' = [LifeOf EXCEPT ![j] = "active"] /\ DoneOf' = DoneOf
      BY <1>3, <2>2, <2>4
    <2>6. run'[r].phase = "launching" /\ run'[r].job = j
      BY <1>a, <2>1, ReservedRows
    <2>7. \A s \in Resources \ {r} : run'[s] = run[s]
      BY <1>0, <2>1 DEF ReservedRun
    <2>8. LaneUse(r)' = [use |-> "work", job |-> j]
      BY <2>6, LaneUses DEF HoldsJob, HoldingPhases
    <2>9. LaneOf' = [LaneOf EXCEPT ![r] = [use |-> "work", job |-> j]]
      BY <2>7, <2>8, LaneChange
    <2>10. Contract!Next
      BY <1>7, <2>1, <2>5, <2>9, StartStep
    <2>11. QED
      BY <2>10 DEF Goal
  <1>9. ASSUME NEW j \in Jobs, NEW r \in Resources, Fails(j, r) PROVE Goal
    <2> DEFINE jb == ReservedJob(j, r)
               rn == ReservedRun(j, r)
               after == AfterRun(rn[r], "failed")
    <2>1. MayReserve(j, r) /\ EndsIn(jb, rn, ReservedTask(j), r, "failed", "failed")
      BY <1>9 DEF Fails
    <2>2. jb \in [Jobs -> JobRow] /\ rn \in [Resources -> RunRow]
      BY <1>a, <2>1, ReservedType
    <2>3. rn[r].job = j /\ rn[r].step = job[j].step
      BY <1>a, <2>1, ReservedRows
    <2>4. /\ \A k \in Jobs \ {j} : jb[k] = job[k]
          /\ \A s \in Resources \ {r} : rn[s] = run[s]
      BY <1>0 DEF ReservedJob, ReservedRun
    <2> HIDE DEF jb, rn
    <2>5. after = [state |-> "failed", step |-> rn[r].step, resume |-> FALSE,
                   event |-> "failed"]
      BY DEF AfterRun, TerminalJob
    <2>6. /\ job'[j] = EndedRow(jb[j], after) /\ OthersKept(jb, j)
          /\ run'[r].phase = "cleaning" /\ run'[r].job = j
          /\ \A s \in Resources \ {r} : run'[s] = rn[s]
      BY <2>1, <2>3 DEF EndsIn
    <2> HIDE DEF after
    <2>7. /\ after.state = "failed" /\ after.step = job[j].step /\ after.step \in Nat
          /\ after.resume \in BOOLEAN
      BY <1>0, <2>3, <2>5 DEF JobRow
    <2>8. job'[j].state = "failed" /\ job'[j].step = job[j].step
      BY <2>2, <2>6, <2>7, EndedRowFields DEF TerminalJob
    <2>9. OthersKept(job, j)
      BY <2>4, <2>6 DEF OthersKept
    <2>10. LifeOf' = [LifeOf EXCEPT ![j] = "failed"] /\ DoneOf' = DoneOf
      BY <1>3, <2>8, <2>9
    <2>11. LaneUse(r)' = [use |-> "settle", job |-> j]
      BY <2>6, LaneUses DEF HoldsJob, HoldingPhases
    <2>12. LaneOf' = [LaneOf EXCEPT ![r] = [use |-> "settle", job |-> j]]
      BY <2>4, <2>6, <2>11, LaneChange
    <2>13. Contract!Next
      BY <1>7, <2>1, <2>10, <2>12, StartStep
    <2>14. QED
      BY <2>13 DEF Goal
  <1>10. ASSUME NEW r \in Resources, job' = job, LaneUse(r)' = LaneUse(r),
                \A s \in Resources \ {r} : run'[s] = run[s]
         PROVE  Goal
    <2>1. LaneOf' = [LaneOf EXCEPT ![r] = LaneUse(r)]
      BY <1>10, LaneChange
    <2>2. [LaneOf EXCEPT ![r] = LaneUse(r)] = LaneOf
      BY DEF LaneOf
    <2>3. QED
      BY <1>2, <1>10, <2>1, <2>2 DEF Goal
  <1>11. ASSUME NEW r \in Resources,
                Proceeds(r) \/ Reminds(r) \/ Sticks(r) \/ Frees(r)
         PROVE  Goal
    <2>1. CASE Proceeds(r)
      <3>1. LaneUse(r)' = LaneUse(r)
        BY <2>1 DEF LaneUse, Proceeds, HoldsJob
      <3>2. QED
        BY <1>10, <2>1, <3>1 DEF Proceeds
    <2>2. CASE Reminds(r)
      BY <1>1, <1>2, <2>2 DEF Reminds, Goal
    <2>3. CASE Sticks(r)
      <3>1. LaneUse(r)' = LaneUse(r)
        BY <2>3 DEF LaneUse, Sticks, HoldsJob, HoldingPhases
      <3>2. QED
        BY <1>10, <2>3, <3>1 DEF Sticks
    <2>4. CASE Frees(r)
      <3>1. /\ run'[r].phase = "idle" /\ run'[r].job = NoJob /\ job' = job
            /\ run[r].phase \in {"cleaning", "attention"}
            /\ \A s \in Resources \ {r} : run'[s] = run[s]
        BY <1>0, <2>4 DEF Frees, IdleRun
      <3>2. LaneUse(r)' = [use |-> "free", job |-> NoJob]
        BY <3>1, LaneUses
      <3>3. LaneOf' = [LaneOf EXCEPT ![r] = [use |-> "free", job |-> NoJob]]
        BY <3>1, <3>2, LaneChange
      <3>4. LaneUse(r) = [use |-> "settle", job |-> run[r].job]
        BY <3>1, LaneUses DEF HoldsJob, HoldingPhases
      <3>5. LaneOf[r].use = "settle"
        BY <1>b, <3>4
      <3>6. Contract!Next
        BY <1>2, <3>1, <3>3, <3>5, FreeStep
      <3>7. QED
        BY <3>6 DEF Goal
    <2>5. QED
      BY <1>11, <2>1, <2>2, <2>3, <2>4
  <1>12. ASSUME NEW r \in Resources, NEW move \in Moves \cup {"abandoned"},
                NEW outcome, Ends(r, move, outcome)
         PROVE  Goal
    <2> DEFINE j == run[r].job
               after == AfterRun(run[r], move)
    <2>1. /\ HoldsJob(run[r]) /\ job'[j] = EndedRow(job[j], after)
          /\ OthersKept(job, j) /\ run'[r].phase = "cleaning" /\ run'[r].job = j
          /\ \A s \in Resources \ {r} : run'[s] = run[s]
      BY <1>12 DEF Ends, EndsIn
    <2>2. j \in Jobs /\ run[r] \in RunRow /\ run[r].step = job[j].step
      BY <1>0, <2>1 DEF Owned, OnStep, HoldsJob, HoldingPhases
    <2>3. /\ after.state \in {"queued"} \cup TerminalJob /\ after.step \in Nat
          /\ after.resume \in BOOLEAN
      BY <2>2, AfterRunType
    <2>4. PICK steps \in {0, 1} : /\ after.step = job[j].step + steps
                                  /\ steps = 1 => after.state = "queued"
      <3>1. job[j].step \in Nat
        BY <1>0, <2>2 DEF JobRow
      <3>2. \/ after.step = job[j].step
            \/ after.step = job[j].step + 1 /\ after.state = "queued"
        BY <2>2, AfterRunLog
      <3>3. QED
        BY <3>1, <3>2
    <2> HIDE DEF after
    <2>5. job'[j].state = after.state /\ job'[j].step = after.step
      BY <1>0, <2>1, <2>2, <2>3, EndedRowFields
    <2>6. /\ LifeOf' = [LifeOf EXCEPT ![j] = after.state]
          /\ DoneOf' = [DoneOf EXCEPT ![j] = DoneOf[j] + steps]
      BY <1>0, <1>b, <2>1, <2>2, <2>4, <2>5, LifeChange
    <2>7. LaneUse(r)' = [use |-> "settle", job |-> j]
      BY <2>1, LaneUses DEF HoldsJob, HoldingPhases
    <2>8. LaneOf' = [LaneOf EXCEPT ![r] = [use |-> "settle", job |-> j]]
      BY <2>1, <2>7, LaneChange
    <2>9. LaneOf[r].use = "work" /\ LaneOf[r].job = j
      BY <1>b, <2>1, LaneUses
    <2>10. Contract!Next
      BY <2>3, <2>4, <2>6, <2>8, <2>9, LeaveStep
    <2>11. QED
      BY <2>10 DEF Goal
  <1>13. ASSUME UNCHANGED storeVars PROVE Goal
    BY <1>1, <1>2, <1>13 DEF storeVars, Goal
  <1>14. Goal
    BY <1>4, <1>5, <1>6, <1>8, <1>9, <1>11, <1>12, <1>13 DEF Kinds
  <1>15. QED
    BY <1>14 DEF Goal

\* The store implements the contract: a job runs its steps in order, on one
\* resource at a time, and ends once, and a resource is handed on only after
\* it was settled
THEOREM StoreImplementsContract == Spec => ContractSpec
  <1>1. Init => Contract!Init
    <2> SUFFICES ASSUME Init PROVE Contract!Init
      OBVIOUS
    <2>1. /\ job = [j \in Jobs |-> AbsentJob] /\ AbsentJob.state = "absent"
          /\ AbsentJob.step = 0
          /\ run = [r \in Resources |-> IdleRun] /\ IdleRun.phase = "idle"
          /\ IdleRun.job = NoJob
      BY DEF Init, AbsentJob, IdleRun
    <2>2. QED
      BY <2>1 DEF Contract!Init, Contract!FreeLane, LaneUse
  <1>2. StoreInv /\ [Next]_storeVars => [Contract!Next]_(Contract!contractVars)
    <2> SUFFICES ASSUME StoreInv, [Next]_storeVars
                 PROVE  [Contract!Next]_(Contract!contractVars)
      OBVIOUS
    <2>1. Kinds
      BY StepKinds DEF StoreInv, Rows
    <2>2. Contract!Next \/ UNCHANGED <<LifeOf, DoneOf, LaneOf>>
      BY <2>1, ContractKept
    <2>3. UNCHANGED <<LifeOf, DoneOf, LaneOf>> => UNCHANGED Contract!contractVars
      BY DEF Contract!contractVars, LifeOf, DoneOf, LaneOf
    <2>4. QED
      BY <2>2, <2>3
  <1>3. QED
    BY <1>1, <1>2, StoreInvariance, PTL DEF Spec, ContractSpec, Contract!Spec

-----------------------------------------------------------------------------
(* Ranks *)

\* In a finite total order, given by the set D[k] of members up to k, the
\* ranks of the members are 1..n
LEMMA RanksAreDense ==
    ASSUME NEW S, IsFiniteSet(S), NEW D \in [S -> SUBSET S],
           \A k \in S : k \in D[k],
           \A i, k \in S : i \in D[k] \/ k \in D[i],
           \A i, k \in S : i \in D[k] /\ k \in D[i] => i = k,
           \A i, k \in S : i \in D[k] => D[i] \subseteq D[k]
    PROVE  /\ \A k \in S : Cardinality(D[k]) \in 1..Cardinality(S)
           /\ \A n \in 1..Cardinality(S) : \E k \in S : Cardinality(D[k]) = n
  <1> DEFINE N == Cardinality(S)
             f == [k \in S |-> Cardinality(D[k])]
  <1>1. N \in Nat /\ IsFiniteSet(1..N) /\ Cardinality(1..N) = N
    <2>1. N \in Nat
      BY FS_CardinalityType
    <2>2. QED
      BY <2>1, FS_Interval
  <1>2. ASSUME NEW k \in S
        PROVE  Cardinality(D[k]) \in 1..N /\ IsFiniteSet(D[k])
    <2>1. D[k] \in SUBSET S
      OBVIOUS
    <2>2. IsFiniteSet(D[k]) /\ Cardinality(D[k]) <= N
      BY <2>1, FS_Subset
    <2>3. Cardinality(D[k]) \in Nat /\ Cardinality(D[k]) # 0
      BY <2>2, FS_CardinalityType, FS_EmptySet
    <2>4. QED
      BY <1>1, <2>2, <2>3
  <1>3. ASSUME NEW i \in S, NEW k \in S, Cardinality(D[i]) = Cardinality(D[k])
        PROVE  i = k
    <2>1. \A a, b \in S : a \in D[b] /\ Cardinality(D[a]) = Cardinality(D[b]) => D[b] = D[a]
      <3> SUFFICES ASSUME NEW a \in S, NEW b \in S, a \in D[b],
                          Cardinality(D[a]) = Cardinality(D[b])
                   PROVE  D[b] = D[a]
        OBVIOUS
      <3>1. D[a] \in SUBSET D[b] /\ IsFiniteSet(D[b])
        BY <1>2
      <3>2. QED
        BY <3>1, FS_Subset
    <2>2. D[i] = D[k]
      BY <1>3, <2>1
    <2>3. QED
      BY <2>2
  <1>4. f \in Injection(S, 1..N)
    BY <1>2, <1>3 DEF Injection, IsInjective
  <1> HIDE DEF N
  <1>5. f \in Surjection(S, 1..N)
    BY <1>1, <1>4, FS_Injection DEF N
  <1>6. \A n \in 1..N : \E k \in S : f[k] = n
    BY <1>5 DEF Surjection
  <1>7. QED
    BY <1>2, <1>6 DEF N

\* Positions that are exactly 1..n are distinct
LEMMA DenseIsDistinct ==
    ASSUME NEW S, IsFiniteSet(S), NEW f \in [S -> Nat],
           {f[k] : k \in S} = 1..Cardinality(S)
    PROVE  \A i, k \in S : f[i] = f[k] => i = k
  <1> DEFINE T == 1..Cardinality(S)
  <1>1. Cardinality(S) \in Nat
    BY FS_CardinalityType
  <1>2. Cardinality(T) = Cardinality(S)
    BY <1>1, FS_Interval
  <1>3. f \in Surjection(S, T)
    BY DEF Surjection
  <1> HIDE DEF T
  <1>4. f \in Injection(S, T)
    BY <1>2, <1>3, FS_SurjSameCardinalityImpliesInj
  <1>5. QED
    BY <1>4 DEF Injection, IsInjective

-----------------------------------------------------------------------------
(* Slots *)

\* The jobs of S have distinct positions
Apart(jb, S) == \A i, k \in S : jb[i].position = jb[k].position => i = k

\* The positions of S are 1..n
Packed(jb, S) == {jb[k].position : k \in S} = 1..Cardinality(S)

Dense(jb) == \A p \in Priorities : Packed(jb, level(jb, p))

LEMMA PackedIsApart ==
    ASSUME NEW jb \in [Jobs -> JobRow], NEW S \in SUBSET Jobs, Packed(jb, S)
    PROVE  Apart(jb, S)
  <1> DEFINE f == [k \in S |-> jb[k].position]
  <1>1. IsFiniteSet(S)
    BY RulesAssumption, FS_Subset DEF RulesAssumption
  <1>2. f \in [S -> Nat]
    BY DEF JobRow
  <1>3. {f[k] : k \in S} = 1..Cardinality(S)
    BY DEF Packed
  <1>4. \A k \in S : f[k] = jb[k].position
    OBVIOUS
  <1> HIDE DEF f
  <1>5. \A i, k \in S : f[i] = f[k] => i = k
    BY <1>1, <1>2, <1>3, DenseIsDistinct
  <1>6. QED
    BY <1>4, <1>5 DEF Apart

\* The places of jobs with distinct positions are 1..n
LEMMA PlacesAreDense ==
    ASSUME NEW jb \in [Jobs -> JobRow], NEW S \in SUBSET Jobs, Apart(jb, S)
    PROVE  /\ Cardinality(S) \in Nat
           /\ \A k \in S : Place(jb, S, k) \in 1..Cardinality(S)
           /\ \A n \in 1..Cardinality(S) : \E k \in S : Place(jb, S, k) = n
  <1> DEFINE D == [k \in S |-> {i \in S : jb[i].position <= jb[k].position}]
  <1>1. \A k \in S : jb[k].position \in Nat
    BY DEF JobRow
  <1>2. IsFiniteSet(S) /\ Cardinality(S) \in Nat
    BY RulesAssumption, FS_Subset, FiniteLevels DEF RulesAssumption
  <1>3. D \in [S -> SUBSET S]
    OBVIOUS
  <1>4. /\ \A i, k \in S : i \in D[k] <=> jb[i].position <= jb[k].position
        /\ \A k \in S : Place(jb, S, k) = Cardinality(D[k])
    BY DEF Place
  <1> HIDE DEF D
  <1>5. /\ \A k \in S : k \in D[k]
        /\ \A i, k \in S : i \in D[k] \/ k \in D[i]
        /\ \A i, k \in S : i \in D[k] /\ k \in D[i] => i = k
    BY <1>1, <1>4 DEF Apart
  <1>6. ASSUME NEW i \in S, NEW k \in S, i \in D[k] PROVE D[i] \subseteq D[k]
    BY <1>1, <1>3, <1>4, <1>6
  <1>7. /\ \A k \in S : Cardinality(D[k]) \in 1..Cardinality(S)
        /\ \A n \in 1..Cardinality(S) : \E k \in S : Cardinality(D[k]) = n
    BY <1>2, <1>3, <1>5, <1>6, RanksAreDense
  <1>8. QED
    BY <1>2, <1>4, <1>7

\* Levels with the same members and positions are packed alike
LEMMA SamePacked ==
    ASSUME NEW a, NEW b, NEW S, Packed(a, S),
           \A k \in S : b[k].position = a[k].position
    PROVE  Packed(b, S)
  <1>1. {b[k].position : k \in S} = {a[k].position : k \in S}
    OBVIOUS
  <1>2. QED
    BY <1>1 DEF Packed

\* Giving the members of S their places packs them
LEMMA PlacesPack ==
    ASSUME NEW jb \in [Jobs -> JobRow], NEW S \in SUBSET Jobs, Apart(jb, S),
           NEW new, \A k \in S : new[k].position = Place(jb, S, k)
    PROVE  Packed(new, S)
  <1>1. /\ \A k \in S : Place(jb, S, k) \in 1..Cardinality(S)
        /\ \A n \in 1..Cardinality(S) : \E k \in S : Place(jb, S, k) = n
    BY PlacesAreDense
  <1>2. {new[k].position : k \in S} = 1..Cardinality(S)
    BY <1>1
  <1>3. QED
    BY <1>2 DEF Packed

\* So does putting one more between them
LEMMA InsertPacks ==
    ASSUME NEW jb \in [Jobs -> JobRow], NEW S \in SUBSET Jobs, Apart(jb, S),
           NEW j \in Jobs \ S, NEW index \in Nat, index <= Cardinality(S),
           NEW new, new[j].position = index + 1,
           \A k \in S : new[k].position =
                IF Place(jb, S, k) <= index THEN Place(jb, S, k) ELSE Place(jb, S, k) + 1
    PROVE  Packed(new, S \cup {j})
  <1> DEFINE N == Cardinality(S)
             pos(k) == new[k].position
  <1>1. /\ N \in Nat
        /\ \A k \in S : Place(jb, S, k) \in 1..N
        /\ \A n \in 1..N : \E k \in S : Place(jb, S, k) = n
    BY PlacesAreDense
  <1>2. Cardinality(S \cup {j}) = N + 1
    <2>1. IsFiniteSet(S)
      BY RulesAssumption, FS_Subset DEF RulesAssumption
    <2>2. QED
      BY <2>1, FS_AddElement
  <1>3. /\ pos(j) = index + 1 /\ index <= N
        /\ \A k \in S : pos(k) = IF Place(jb, S, k) <= index THEN Place(jb, S, k)
                                 ELSE Place(jb, S, k) + 1
    OBVIOUS
  <1> HIDE DEF N, pos
  <1>4. \A k \in S \cup {j} : pos(k) \in 1..(N + 1)
    BY <1>1, <1>3
  <1>5. ASSUME NEW n \in 1..(N + 1) PROVE \E k \in S \cup {j} : pos(k) = n
    <2>1. CASE n <= index
      <3>1. PICK k \in S : Place(jb, S, k) = n
        BY <1>1, <1>3, <2>1
      <3>2. QED
        BY <1>3, <2>1, <3>1
    <2>2. CASE n = index + 1
      BY <1>3, <2>2
    <2>3. CASE n > index + 1
      <3>1. PICK k \in S : Place(jb, S, k) = n - 1
        BY <1>1, <1>3, <2>3
      <3>2. QED
        BY <1>3, <2>3, <3>1
    <2>4. QED
      BY <1>1, <2>1, <2>2, <2>3
  <1>6. {pos(k) : k \in S \cup {j}} = 1..(N + 1)
    BY <1>4, <1>5
  <1>7. QED
    BY <1>2, <1>6 DEF Packed, pos

\* A subset of jobs with distinct positions has distinct positions
LEMMA ApartSubset ==
    ASSUME NEW jb, NEW S, NEW T \in SUBSET S, Apart(jb, S)
    PROVE  Apart(jb, T)
  BY DEF Apart

LEMMA DenseIsApart ==
    ASSUME NEW jb \in [Jobs -> JobRow], Dense(jb), NEW p \in Priorities, NEW j
    PROVE  /\ level(jb, p) \ {j} \in SUBSET Jobs
           /\ Apart(jb, level(jb, p) \ {j})
  <1>1. level(jb, p) \in SUBSET Jobs
    BY DEF level
  <1>2. Packed(jb, level(jb, p))
    BY DEF Dense
  <1>3. Apart(jb, level(jb, p))
    BY <1>1, <1>2, PackedIsApart
  <1>4. QED
    BY <1>1, <1>3, ApartSubset

\* The levels of a step that keeps every other row up to its place
LEMMA LevelsOfStep ==
    ASSUME NEW jb \in [Jobs -> JobRow], NEW j \in Jobs, OthersKept(jb, j)
    PROVE  \A p : level(job', p) \ {j} = level(jb, p) \ {j}
  <1>1. ASSUME NEW k \in Jobs \ {j}
        PROVE  /\ job'[k].priority = jb[k].priority
               /\ job'[k].position # 0 <=> jb[k].position # 0
    <2>1. jb[k] \in JobRow /\ Replaced(jb[k], job'[k])
      BY DEF OthersKept
    <2>2. QED
      BY <2>1, ReplacedFields
  <1>2. QED
    BY <1>1 DEF level

\* A job that leaves the queue leaves its level packed
LEMMA ClosesDense ==
    ASSUME NEW jb \in [Jobs -> JobRow], NEW j \in Jobs, Dense(jb),
           OthersKept(jb, j), Closes(jb, j), job'[j].position = 0
    PROVE  Dense(job')
  <1> SUFFICES ASSUME NEW p \in Priorities PROVE Packed(job', level(job', p))
    BY DEF Dense
  <1> DEFINE rest == level(jb, p) \ {j}
  <1>1. level(job', p) = rest
    <2>1. level(job', p) \ {j} = rest
      BY LevelsOfStep
    <2>2. j \notin level(job', p)
      BY DEF level
    <2>3. QED
      BY <2>1, <2>2
  <1>2. rest \in SUBSET Jobs /\ Apart(jb, rest)
    BY DenseIsApart
  <1>3. CASE p = jb[j].priority
    <2>1. \A k \in rest : job'[k].position = Place(jb, rest, k)
      BY <1>2, <1>3 DEF Closes
    <2>2. QED
      BY <1>1, <1>2, <2>1, PlacesPack
  <1>4. CASE p # jb[j].priority
    <2>1. \A k \in rest : job'[k].position = jb[k].position
      BY <1>4 DEF Closes, level
    <2>2. rest = level(jb, p)
      BY <1>4 DEF level
    <2>3. Packed(jb, rest)
      BY <2>2 DEF Dense
    <2>4. QED
      BY <1>1, <2>1, <2>3, SamePacked
  <1>5. QED
    BY <1>3, <1>4

\* A job that moves leaves its old level and its new one packed
LEMMA InsertsDense ==
    ASSUME NEW jb \in [Jobs -> JobRow], NEW j \in Jobs, Dense(jb),
           NEW q \in Priorities, NEW index \in Nat,
           index <= Cardinality(level(jb, q) \ {j}),
           OthersKept(jb, j), Inserts(jb, j, q, index),
           job'[j].priority = q, job'[j].position = index + 1
    PROVE  Dense(job')
  <1> SUFFICES ASSUME NEW p \in Priorities PROVE Packed(job', level(job', p))
    BY DEF Dense
  <1> DEFINE rest == level(jb, p) \ {j}
  <1>1. level(job', p) \ {j} = rest
    BY LevelsOfStep
  <1>2. rest \in SUBSET Jobs /\ Apart(jb, rest) /\ j \notin rest
    BY DenseIsApart
  <1>3. CASE p = q
    <2>1. level(job', p) = rest \cup {j}
      BY <1>1, <1>3 DEF level
    <2>2. \A k \in rest : job'[k].position =
            IF Place(jb, rest, k) <= index THEN Place(jb, rest, k)
            ELSE Place(jb, rest, k) + 1
      BY <1>2, <1>3 DEF Inserts
    <2>3. j \in Jobs \ rest /\ index <= Cardinality(rest)
      BY <1>3
    <2> HIDE DEF rest
    <2>4. Packed(job', rest \cup {j})
      BY <1>2, <2>2, <2>3, InsertPacks
    <2>5. QED
      BY <2>1, <2>4
  <1>4. CASE p # q /\ p = jb[j].priority
    <2>1. level(job', p) = rest
      BY <1>1, <1>4 DEF level
    <2>2. \A k \in rest : job'[k].position = Place(jb, rest, k)
      BY <1>2, <1>4 DEF Inserts, level
    <2>3. QED
      BY <1>2, <2>1, <2>2, PlacesPack
  <1>5. CASE p # q /\ p # jb[j].priority
    <2>1. level(job', p) = rest /\ rest = level(jb, p)
      BY <1>1, <1>5 DEF level
    <2>2. \A k \in rest : job'[k].position = jb[k].position
      BY <1>2, <1>5 DEF Inserts, level
    <2>3. Packed(jb, rest)
      BY <2>1 DEF Dense
    <2>4. QED
      BY <2>1, <2>2, <2>3, SamePacked
  <1>6. QED
    BY <1>3, <1>4, <1>5

\* Nothing changes where positions and levels stay
LEMMA SameDense ==
    ASSUME NEW a, Dense(a), NEW b,
           \A k \in Jobs : b[k].position = a[k].position /\ b[k].priority = a[k].priority
    PROVE  Dense(b)
  <1>1. \A p : level(b, p) = level(a, p)
    BY DEF level
  <1>2. ASSUME NEW p \in Priorities PROVE Packed(b, level(b, p))
    <2>1. Packed(a, level(a, p)) /\ level(a, p) \subseteq Jobs
      BY DEF Dense, level
    <2>2. QED
      BY <1>1, <2>1, SamePacked
  <1>3. QED
    BY <1>2 DEF Dense

\* A job that joins the queue gets the next position of its level
LEMMA AcceptsDense ==
    ASSUME NEW j \in Jobs, job \in [Jobs -> JobRow], Dense(job),
           Slotted(job), job' \in [Jobs -> JobRow], Accepts(j)
    PROVE  Dense(job')
  <1> SUFFICES ASSUME NEW p \in Priorities PROVE Packed(job', level(job', p))
    BY DEF Dense
  <1> DEFINE S == level(job, p)
             N == Cardinality(S)
  <1>1. /\ job[j].position = 0
        /\ \A k \in Jobs \ {j} : job'[k] = job[k]
        /\ job'[j].position # 0
    BY DEF Accepts, Slotted
  <1>2. S \in SUBSET Jobs /\ j \notin S
    BY <1>1 DEF level
  <1>3. N \in Nat /\ IsFiniteSet(S) /\ Cardinality(S \cup {j}) = N + 1
    <2>1. IsFiniteSet(S)
      BY <1>2, RulesAssumption, FS_Subset DEF RulesAssumption
    <2>2. QED
      BY <1>2, <2>1, FS_AddElement, FiniteLevels
  <1>4. {job[k].position : k \in S} = 1..N
    BY DEF Dense, Packed
  <1>5. {job'[k].position : k \in S} = 1..N
    <2>1. \A k \in S : job'[k].position = job[k].position
      BY <1>1, <1>2
    <2>2. QED
      BY <1>4, <2>1
  <1>6. CASE p = job'[j].priority
    <2>1. level(job', p) = S \cup {j}
      BY <1>1, <1>6 DEF level
    <2>2. job'[j].position = N + 1
      BY <1>6 DEF Accepts
    <2> HIDE DEF S, N
    <2>3. {job'[k].position : k \in S \cup {j}} = 1..(N + 1)
      <3>1. {job'[k].position : k \in S \cup {j}} = {job'[k].position : k \in S} \cup {N + 1}
        BY <2>2
      <3>2. 1..(N + 1) = (1..N) \cup {N + 1}
        BY <1>3
      <3>3. QED
        BY <1>5, <3>1, <3>2
    <2>4. QED
      BY <1>3, <2>1, <2>3 DEF Packed
  <1>7. CASE p # job'[j].priority
    <2>1. level(job', p) = S
      BY <1>1, <1>2, <1>7 DEF level
    <2>2. QED
      BY <1>5, <2>1 DEF Packed
  <1>8. QED
    BY <1>6, <1>7

\* Every step keeps the levels packed
LEMMA DenseKept ==
    ASSUME Inv, Inv', Rows(job, run), Dense(job), Kinds
    PROVE  Dense(job')
  <1>0. /\ job \in [Jobs -> JobRow] /\ run \in [Resources -> RunRow]
        /\ job' \in [Jobs -> JobRow] /\ Slotted(job) /\ Owned(run)
    BY DEF Inv, TypeOK, Consistent, Rows
  <1>a. TypeOK
    BY DEF Inv
  <1>1. ASSUME NEW j \in Jobs, Accepts(j) PROVE Dense(job')
    BY <1>0, <1>1, AcceptsDense
  <1>2. ASSUME NEW j \in Jobs, Reorders(j) PROVE Dense(job')
    <2>1. PICK p \in Priorities, index \in Nat :
            /\ job'[j] = [job[j] EXCEPT !.priority = p, !.position = index + 1]
            /\ index <= Cardinality(level(job, p) \ {j})
            /\ Inserts(job, j, p, index)
      BY <1>2 DEF Reorders
    <2>2. job'[j].priority = p /\ job'[j].position = index + 1
      <3>1. job[j] \in JobRow
        BY <1>0
      <3>2. QED
        BY <2>1, <3>1 DEF JobRow
    <2>3. OthersKept(job, j)
      BY <1>2 DEF Reorders
    <2>4. QED
      BY <1>0, <2>1, <2>2, <2>3, InsertsDense
  <1>3. ASSUME NEW j \in Jobs, Withdraws(j) PROVE Dense(job')
    <2>1. job'[j].position = 0
      <3>1. job[j] \in JobRow
        BY <1>0
      <3>2. QED
        BY <1>3, <3>1 DEF Withdraws, JobRow
    <2>2. OthersKept(job, j) /\ Closes(job, j)
      BY <1>3 DEF Withdraws
    <2>3. QED
      BY <1>0, <2>1, <2>2, ClosesDense
  <1>4. ASSUME NEW j \in Jobs, NEW r \in Resources, MayReserve(j, r)
        PROVE  /\ ReservedJob(j, r) \in [Jobs -> JobRow]
               /\ Dense(ReservedJob(j, r))
    <2> DEFINE jb == ReservedJob(j, r)
    <2>1. jb \in [Jobs -> JobRow]
      BY <1>a, <1>4, ReservedType
    <2>2. \A k \in Jobs : jb[k].position = job[k].position /\ jb[k].priority = job[k].priority
      <3>1. /\ jb[j].position = job[j].position /\ jb[j].priority = job[j].priority
            /\ \A k \in Jobs \ {j} : jb[k] = job[k]
        BY <1>a, <1>4, ReservedRows
      <3> HIDE DEF jb
      <3>2. QED
        BY <3>1
    <2> HIDE DEF jb
    <2>3. Dense(jb)
      BY <2>2, SameDense
    <2>4. QED
      BY <2>1, <2>3 DEF jb
  <1>5. ASSUME NEW j \in Jobs, NEW r \in Resources, Starts(j, r) PROVE Dense(job')
    BY <1>4, <1>5 DEF Starts
  <1>6. ASSUME NEW j \in Jobs, NEW r \in Resources, Fails(j, r) PROVE Dense(job')
    <2> DEFINE jb == ReservedJob(j, r)
               rn == ReservedRun(j, r)
               after == AfterRun(rn[r], "failed")
    <2>1. MayReserve(j, r) /\ EndsIn(jb, rn, ReservedTask(j), r, "failed", "failed")
      BY <1>6 DEF Fails
    <2>2. jb \in [Jobs -> JobRow] /\ Dense(jb)
      BY <1>4, <2>1
    <2>3. rn[r] \in RunRow /\ rn[r].job = j
      <3>1. rn \in [Resources -> RunRow]
        BY <1>a, <2>1, ReservedType
      <3>2. rn[r].job = j
        BY <1>a, <2>1, ReservedRows
      <3>3. QED
        BY <3>1, <3>2
    <2> HIDE DEF jb, rn
    <2>4. after.state = "failed" /\ after.step \in Nat /\ after.resume \in BOOLEAN
      BY <2>3 DEF AfterRun, TerminalJob, RunRow
    <2>5. /\ job'[j] = EndedRow(jb[j], after) /\ OthersKept(jb, j)
          /\ Closes(jb, j)
      BY <2>1, <2>3, <2>4 DEF EndsIn, TerminalJob
    <2> HIDE DEF after
    <2>6. job'[j].position = 0
      BY <2>2, <2>4, <2>5, EndedRowFields DEF TerminalJob
    <2>7. QED
      BY <2>2, <2>5, <2>6, ClosesDense
  <1>7. ASSUME NEW r \in Resources, NEW move \in Moves \cup {"abandoned"},
               NEW outcome, Ends(r, move, outcome)
        PROVE  Dense(job')
    <2> DEFINE j == run[r].job
               after == AfterRun(run[r], move)
    <2>1. /\ HoldsJob(run[r]) /\ job'[j] = EndedRow(job[j], after)
          /\ OthersKept(job, j)
          /\ IF after.state \in TerminalJob THEN Closes(job, j)
             ELSE \A k \in Jobs \ {j} : job'[k] = job[k]
      BY <1>7 DEF Ends, EndsIn
    <2>2. j \in Jobs /\ run[r] \in RunRow
      BY <1>0, <2>1 DEF Owned, HoldsJob, HoldingPhases
    <2>3. /\ after.state \in {"queued"} \cup TerminalJob /\ after.step \in Nat
          /\ after.resume \in BOOLEAN
      BY <2>2, AfterRunType
    <2> HIDE DEF after
    <2>4. /\ job'[j].priority = job[j].priority
          /\ job'[j].position = IF after.state \in TerminalJob THEN 0
                                ELSE job[j].position
      BY <1>0, <2>1, <2>2, <2>3, EndedRowFields
    <2>5. CASE after.state \in TerminalJob
      BY <1>0, <2>1, <2>2, <2>4, <2>5, ClosesDense
    <2>6. CASE after.state \notin TerminalJob
      <3>1. \A k \in Jobs : job'[k].position = job[k].position
                            /\ job'[k].priority = job[k].priority
        BY <2>1, <2>4, <2>6
      <3>2. QED
        BY <3>1, SameDense
    <2>7. QED
      BY <2>5, <2>6
  <1>8. ASSUME NEW r \in Resources, Proceeds(r) \/ Reminds(r) \/ Sticks(r) \/ Frees(r)
        PROVE  Dense(job')
    BY <1>8 DEF Proceeds, Reminds, Sticks, Frees
  <1>9. CASE UNCHANGED storeVars
    BY <1>9 DEF storeVars
  <1>10. QED
    BY <1>1, <1>2, <1>3, <1>5, <1>6, <1>7, <1>8, <1>9 DEF Kinds

-----------------------------------------------------------------------------
(* Stops *)

Preempting(rec) == rec.phase = "stopping" /\ rec.cause \in {"yield", "restart"}

\* What a step other than a preemption does to the stop of one run
StopKept(rec, new) ==
    \/ new.phase = rec.phase /\ new.cause = rec.cause /\ new.task = rec.task
    \/ /\ new.phase # "stopping"
       /\ rec.phase = "stopping" => new.phase = "cleaning" /\ new.task = rec.task
    \/ new.phase = "stopping" /\ new.cause = "user_cancel" /\ new.task = rec.task

\* A step that commits no preemption keeps every stop, ends its run or raises
\* it to a person's cancel
LEMMA StopsKept ==
    ASSUME Inv, Kinds
    PROVE  Preempts \/ \A r \in Resources : StopKept(run[r], run'[r])
  <1> SUFFICES ASSUME ~Preempts, NEW s \in Resources PROVE StopKept(run[s], run'[s])
    OBVIOUS
  <1>0. run \in [Resources -> RunRow] /\ Owned(run)
    BY DEF Inv, TypeOK, Consistent
  <1>1. CASE run'[s] = run[s]
    BY <1>1 DEF StopKept
  <1>2. ASSUME NEW r \in Resources, Proceeds(r) PROVE StopKept(run[s], run'[s])
    BY <1>1, <1>2 DEF Proceeds, Undisturbed, StopKept
  <1>3. ASSUME NEW r \in Resources, Sticks(r) PROVE StopKept(run[s], run'[s])
    BY <1>1, <1>3 DEF Sticks, StopKept
  <1>4. ASSUME NEW r \in Resources, Frees(r) PROVE StopKept(run[s], run'[s])
    <2>1. run[r].phase \in {"cleaning", "attention"} /\ run'[r] = IdleRun
          /\ \A u \in Resources \ {r} : run'[u] = run[u]
      BY <1>0, <1>4 DEF Frees
    <2>2. QED
      BY <1>1, <2>1 DEF StopKept, IdleRun
  <1>5. ASSUME NEW j \in Jobs, NEW r \in Resources, MayReserve(j, r),
               \A u \in Resources \ {r} : run'[u] = ReservedRun(j, r)[u],
               run'[r].phase \in {"launching", "cleaning"}
        PROVE  StopKept(run[s], run'[s])
    <2>1. /\ run[r].phase = "idle"
          /\ \A u \in Resources \ {r} : ReservedRun(j, r)[u] = run[u]
      BY <1>0, <1>5 DEF MayReserve, ReservedRun
    <2>2. QED
      BY <1>1, <1>5, <2>1 DEF StopKept
  <1>6. ASSUME NEW j \in Jobs, NEW r \in Resources, Starts(j, r)
        PROVE  StopKept(run[s], run'[s])
    <2>1. MayReserve(j, r) /\ run' = ReservedRun(j, r)
      BY <1>6 DEF Starts
    <2>2. run'[r].phase = "launching"
      BY <1>0, <2>1 DEF ReservedRun, IdleRun
    <2>3. QED
      BY <1>5, <2>1, <2>2
  <1>7. ASSUME NEW j \in Jobs, NEW r \in Resources, Fails(j, r)
        PROVE  StopKept(run[s], run'[s])
    BY <1>5, <1>7 DEF Fails, EndsIn
  <1>8. ASSUME NEW r \in Resources, NEW move, NEW outcome, Ends(r, move, outcome)
        PROVE  StopKept(run[s], run'[s])
    <2>1. /\ run'[r].phase = "cleaning" /\ run'[r].task = run[r].task
          /\ \A u \in Resources \ {r} : run'[u] = run[u]
      BY <1>8 DEF Ends, EndsIn
    <2>2. QED
      BY <1>1, <2>1 DEF StopKept
  <1>9. CASE run' = run
    BY <1>1, <1>9
  <1>10. QED
    BY <1>2, <1>3, <1>4, <1>6, <1>7, <1>8, <1>9
       DEF Kinds, Accepts, Reorders, Withdraws, Reminds, storeVars

\* A preemption stops one executing run, when no other preemption is in flight
LEMMA PreemptsOne ==
    ASSUME Inv, Preempts
    PROVE  \E young : \E r \in Resources :
              /\ run[r].phase = "executing" /\ run'[r].phase = "stopping"
              /\ run'[r].task = run[r].task
              /\ \A s \in Resources \ {r} : run'[s] = run[s]
              /\ ~PreemptionInFlight(run)
              /\ decide(job, run, young).preemption # NoStop
              /\ decide(job, run, young).preemption.resource = r
  <1>1. PICK young, stop : commit_preemption(stop, young)
    BY DEF Preempts
  <1>2. run \in [Resources -> RunRow]
    BY DEF Inv, TypeOK
  <1>a. TypeOK /\ Owned(run)
    BY DEF Inv, Consistent
  <1>3. stop # NoStop /\ decide(job, run, young).preemption = stop
    BY <1>1 DEF commit_preemption
  <1> DEFINE r == stop.resource
  <1>4. stop.cause \in Causes /\ r \in Resources /\ run[r].phase = "executing"
    BY <1>a, <1>3, DecisionCause DEF Causes
  <1>5. run' = [run EXCEPT ![r] = request_stop(run[r], stop.cause)]
    BY <1>1 DEF commit_preemption
  <1> HIDE DEF r
  <1>6. /\ run'[r] = request_stop(run[r], stop.cause)
        /\ \A s \in Resources \ {r} : run'[s] = run[s]
    BY <1>2, <1>4, <1>5
  <1>7. run[r] \in RunRow
    BY <1>2, <1>4
  <1>8. run'[r].phase = "stopping" /\ run'[r].task = run[r].task
    BY <1>4, <1>6, <1>7, RequestStopType
  <1>9. ~PreemptionInFlight(run)
    BY <1>3 DEF decide
  <1>10. QED
    BY <1>3, <1>4, <1>6, <1>8, <1>9 DEF r

\* Every step keeps at most one preemption in flight
LEMMA OnePreemptionKept ==
    ASSUME Inv, Kinds, OnePreemption
    PROVE  OnePreemption'
  <1>1. CASE Preempts
    <2>1. PICK r \in Resources :
              /\ \A s \in Resources \ {r} : run'[s] = run[s]
              /\ ~PreemptionInFlight(run)
      BY <1>1, PreemptsOne
    <2>2. QED
      BY <2>1 DEF OnePreemption, PreemptionInFlight
  <1>2. CASE \A r \in Resources : StopKept(run[r], run'[r])
    BY <1>2 DEF OnePreemption, StopKept
  <1>3. QED
    BY <1>1, <1>2, StopsKept

-----------------------------------------------------------------------------
(* The queue is ordered *)

OrderInv == StoreInv /\ Dense(job) /\ OnePreemption

\* Nothing waits and nothing is stopped at first
LEMMA InitOrder == Init => Dense(job) /\ OnePreemption
  <1> SUFFICES ASSUME Init PROVE Dense(job) /\ OnePreemption
    OBVIOUS
  <1>1. /\ \A j \in Jobs : job[j].position = 0
        /\ \A r \in Resources : run[r].phase = "idle"
    BY DEF Init, AbsentJob, IdleRun
  <1>2. \A p : level(job, p) = {}
    BY <1>1 DEF level
  <1>3. Packed(job, {})
    BY FS_EmptySet DEF Packed
  <1>4. QED
    BY <1>1, <1>2, <1>3 DEF Dense, OnePreemption

\* Levels stay packed and one preemption at most is in flight, in every
\* reachable state
THEOREM OrderInvariance == Spec => []OrderInv
  <1>1. StoreInv /\ Init => OrderInv
    BY InitOrder DEF OrderInv
  <1>2. OrderInv /\ StoreInv' /\ [Next]_storeVars => OrderInv'
    <2> SUFFICES ASSUME OrderInv, StoreInv', [Next]_storeVars PROVE OrderInv'
      OBVIOUS
    <2>1. /\ Inv /\ Inv' /\ Rows(job, run) /\ Slotted(job) /\ Dense(job)
          /\ OnePreemption
      BY DEF OrderInv, StoreInv, Rows
    <2>2. Kinds
      BY <2>1, StepKinds
    <2>3. Dense(job')
      BY <2>1, <2>2, DenseKept
    <2>4. Dense(job)'
      BY <2>3 DEF Dense, Packed, level
    <2>5. OnePreemption'
      BY <2>1, <2>2, OnePreemptionKept
    <2>6. QED
      BY <2>4, <2>5 DEF OrderInv
  <1>3. QED
    BY <1>1, <1>2, StoreInvariance, PTL DEF Spec

\* store/queue.rs: the slots of a level are unique and dense, and at most one
\* run is being stopped for preemption, whatever moves, cancels and stale
\* decisions came before: the property that the runs check, for any instance
THEOREM QueueIsOrderedCorrect == Spec => []QueueIsOrdered
  <1>1. OrderInv => QueueIsOrdered
    BY DEF OrderInv, StoreInv, Rows, Slotted, Dense, Packed, QueueIsOrdered, DenseSlots
  <1>2. QED
    BY <1>1, OrderInvariance, PTL

-----------------------------------------------------------------------------
(* The decision *)

\* The serving order is total where levels are packed, so every entry of the
\* queue is a job of the queue
LEMMA QueueMembers ==
    ASSUME NEW jb \in [Jobs -> JobRow], Dense(jb)
    PROVE  /\ Cardinality(InQueue(jb)) \in Nat
           /\ machine_queue(jb) \in Seq(Jobs)
           /\ Len(machine_queue(jb)) = Cardinality(InQueue(jb))
  <1> DEFINE Q == InQueue(jb)
             N == Cardinality(Q)
             Ahead(j) == Cardinality({i \in Q : Precedes(jb, i, j)})
             D == [k \in Q |-> {i \in Q : Precedes(jb, i, k)} \cup {k}]
             q == machine_queue(jb)
  <1>1. Q \in SUBSET Jobs /\ \A j \in Q : jb[j].position # 0
    BY DEF InQueue
  <1>2. IsFiniteSet(Q) /\ N \in Nat
    BY <1>1, RulesAssumption, FS_Subset, FiniteLevels DEF RulesAssumption
  <1>3. \A j \in Q : jb[j].priority \in Nat /\ jb[j].position \in Nat
                     /\ jb[j].priority \in Priorities
    <2>1. \A j \in Jobs : jb[j].priority \in Priorities /\ jb[j].position \in Nat
      BY DEF JobRow
    <2>2. Priorities \subseteq Nat
      BY RulesAssumption DEF RulesAssumption
    <2>3. QED
      BY <1>1, <2>1, <2>2
  <1>4. ASSUME NEW i \in Q, NEW k \in Q, jb[i].priority = jb[k].priority,
               jb[i].position = jb[k].position
        PROVE  i = k
    <2> DEFINE S == level(jb, jb[i].priority)
    <2>1. i \in S /\ k \in S /\ S \in SUBSET Jobs
      BY <1>1, <1>4 DEF level
    <2>2. Packed(jb, S)
      BY <1>3 DEF Dense
    <2> HIDE DEF S
    <2>3. Apart(jb, S)
      BY <2>1, <2>2, PackedIsApart
    <2>4. QED
      BY <1>4, <2>1, <2>3 DEF Apart
  <1>5. /\ D \in [Q -> SUBSET Q]
        /\ \A i, k \in Q : i \in D[k] <=> Precedes(jb, i, k) \/ i = k
    OBVIOUS
  <1>6. ASSUME NEW k \in Q PROVE D[k] \ {k} = {i \in Q : Precedes(jb, i, k)}
    <2>1. ~Precedes(jb, k, k)
      BY <1>3 DEF Precedes
    <2>2. D[k] \subseteq Q /\ \A i \in Q : i \in D[k] <=> Precedes(jb, i, k) \/ i = k
      BY <1>5
    <2> HIDE DEF D, Q
    <2>3. QED
      BY <2>1, <2>2
  <1>7. q = [n \in 1..N |-> CHOOSE j \in Q : Ahead(j) = n - 1]
    BY DEF machine_queue
  <1> HIDE DEF Q, N, D, q
  <1>8. /\ \A k \in Q : k \in D[k]
        /\ \A i, k \in Q : i \in D[k] \/ k \in D[i]
        /\ \A i, k \in Q : i \in D[k] /\ k \in D[i] => i = k
    BY <1>3, <1>4, <1>5 DEF Precedes
  <1>9. ASSUME NEW i \in Q, NEW k \in Q, i \in D[k] PROVE D[i] \subseteq D[k]
    <2>1. ASSUME NEW m \in Q, m \in D[i] PROVE m \in D[k]
      BY <1>3, <1>5, <1>9, <2>1 DEF Precedes
    <2>2. QED
      BY <1>5, <2>1
  <1>10. \A n \in 1..N : \E k \in Q : Cardinality(D[k]) = n
    BY <1>2, <1>5, <1>8, <1>9, RanksAreDense DEF N
  <1>11. ASSUME NEW n \in 1..N PROVE \E j \in Q : Ahead(j) = n - 1
    <2>1. PICK k \in Q : Cardinality(D[k]) = n
      BY <1>10
    <2>2. IsFiniteSet(D[k]) /\ k \in D[k]
      <3>1. D[k] \in SUBSET Q
        BY <1>5
      <3>2. QED
        BY <1>2, <1>8, <3>1, FS_Subset
    <2>3. Cardinality(D[k] \ {k}) = n - 1
      BY <2>1, <2>2, FS_RemoveElement
    <2>4. QED
      BY <1>6, <2>3
  <1>12. \A n \in 1..N : q[n] \in Q
    <2> HIDE DEF Ahead
    <2> QED BY <1>7, <1>11
  <1>13. q \in Seq(Jobs) /\ Len(q) = N
    <2>1. q \in [1..N -> Jobs]
      BY <1>1, <1>7, <1>12
    <2>2. QED
      BY <1>2, <2>1
  <1>14. QED
    BY <1>2, <1>13 DEF Q, N, q

\* The walk over the first m entries of the queue q
IsWalk(jb, rn, q, m, f) ==
    f = [n \in 0..m |->
            IF n = 0
            THEN [free |-> Idle(rn), launches |-> <<>>, waiting |-> <<>>]
            ELSE Serve(jb, rn, q[n], f[n - 1])]

Walks(jb, rn, q, m) == \E f : IsWalk(jb, rn, q, m, f)

\* A walk goes one entry further
LEMMA WalkStep ==
    ASSUME NEW jb, NEW rn, NEW q, NEW m \in Nat, m # 0, Walks(jb, rn, q, m - 1)
    PROVE  Walks(jb, rn, q, m)
  <1> DEFINE start == [free |-> Idle(rn), launches |-> <<>>, waiting |-> <<>>]
             S(n, b) == Serve(jb, rn, q[n], b)
  <1> HIDE DEF start, S
  <1>1. PICK f : f = [n \in 0..(m - 1) |-> IF n = 0 THEN start ELSE S(n, f[n - 1])]
    BY DEF Walks, IsWalk, start, S
  <1> DEFINE g == [n \in 0..m |-> IF n = m THEN S(m, f[m - 1]) ELSE f[n]]
  <1>2. ASSUME NEW n \in 0..m
        PROVE  g[n] = IF n = 0 THEN start ELSE S(n, g[n - 1])
    <2>1. CASE n = m
      <3>1. n - 1 \in 0..m /\ n - 1 # m /\ n # 0
        BY <2>1
      <3>2. g[n] = S(m, f[m - 1]) /\ g[n - 1] = f[m - 1]
        BY <2>1, <3>1
      <3>3. QED
        BY <2>1, <3>1, <3>2
    <2>2. CASE n # m
      <3>1. n \in 0..(m - 1) /\ g[n] = f[n]
        BY <2>2
      <3>2. n # 0 => n - 1 \in 0..m /\ n - 1 # m
        BY <2>2
      <3>3. n # 0 => g[n - 1] = f[n - 1]
        BY <3>2
      <3>4. f[n] = IF n = 0 THEN start ELSE S(n, f[n - 1])
        BY <1>1, <3>1
      <3> HIDE DEF g
      <3>5. QED
        BY <3>1, <3>3, <3>4
    <2>3. QED
      BY <2>1, <2>2
  <1>3. g = [n \in 0..m |-> g[n]]
    OBVIOUS
  <1> HIDE DEF g
  <1>4. g = [n \in 0..m |-> IF n = 0 THEN start ELSE S(n, g[n - 1])]
    BY <1>2, <1>3
  <1>5. QED
    BY <1>4 DEF Walks, IsWalk, start, S

\* Every queue can be walked: there is no least length for which it cannot
LEMMA WalkExists ==
    ASSUME NEW jb, NEW rn, NEW q, NEW m \in Nat
    PROVE  Walks(jb, rn, q, m)
  <1> DEFINE Bad == {n \in Nat : ~Walks(jb, rn, q, n)}
  <1> SUFFICES ASSUME Bad # {} PROVE FALSE
    OBVIOUS
  <1>1. Bad \in SUBSET Nat
    OBVIOUS
  <1>2. PICK n \in Bad : \A k \in Bad : n <= k
    <2> HIDE DEF Bad
    <2> QED BY <1>1, NatMin
  <1>3. n \in Nat /\ ~Walks(jb, rn, q, n)
    OBVIOUS
  <1>4. n # 0
    <2> DEFINE start == [free |-> Idle(rn), launches |-> <<>>, waiting |-> <<>>]
               f == [k \in 0..0 |-> start]
    <2> HIDE DEF start
    <2>1. f = [k \in 0..0 |-> IF k = 0 THEN start ELSE Serve(jb, rn, q[k], f[k - 1])]
      OBVIOUS
    <2>2. Walks(jb, rn, q, 0)
      BY <2>1 DEF Walks, IsWalk, start
    <2>3. QED
      BY <1>3, <2>2
  <1>5. n - 1 \in Nat /\ ~(n <= n - 1)
    BY <1>3, <1>4
  <1>6. Walks(jb, rn, q, n - 1)
    BY <1>2, <1>5
  <1>7. QED
    BY <1>3, <1>4, <1>6, WalkStep

\* What a walk has found so far: free resources are idle, a launch gives a
\* startable job an idle resource it may use, and startable jobs wait
Startable(jb, rn) == {j \in Jobs : startable(jb, rn, j)}

Fits(jb, rn) ==
    {l \in [job : Startable(jb, rn), resource : Idle(rn)] :
        Allows(jb[l.job].spec.target, l.resource)}

Found(jb, rn) ==
    [ free : SUBSET Idle(rn), launches : Seq(Fits(jb, rn)),
      waiting : Seq(Startable(jb, rn)) ]

\* One more job keeps what the walk has found in shape
LEMMA ServeFinds ==
    ASSUME NEW jb, NEW rn, NEW j \in Jobs, NEW before \in Found(jb, rn)
    PROVE  Serve(jb, rn, j, before) \in Found(jb, rn)
  <1> DEFINE usable == {r \in before.free : Allows(jb[j].spec.target, r)}
             first  == CHOOSE r \in usable : \A s \in usable : r <= s
             W == Startable(jb, rn)
             F == Fits(jb, rn)
             I == Idle(rn)
             launch == [job |-> j, resource |-> first]
  <1>1. Serve(jb, rn, j, before) =
            IF ~startable(jb, rn, j) THEN before
            ELSE IF usable = {} THEN [before EXCEPT !.waiting = Append(before.waiting, j)]
            ELSE [before EXCEPT !.free = before.free \ {first},
                                !.launches = Append(before.launches, launch)]
    BY DEF Serve
  <1>2. before \in [free : SUBSET I, launches : Seq(F), waiting : Seq(W)]
    BY DEF Found
  <1>3. usable \in SUBSET I /\ \A r \in usable : Allows(jb[j].spec.target, r)
    BY <1>2
  <1>4. usable # {} => first \in usable
    <2> SUFFICES ASSUME usable # {} PROVE first \in usable
      OBVIOUS
    <2>1. usable \in SUBSET Nat
      BY <1>3, RulesAssumption DEF RulesAssumption, Idle
    <2> HIDE DEF usable
    <2>2. \E r \in usable : \A s \in usable : r <= s
      BY <2>1, NatMin
    <2>3. QED
      BY <2>2
  <1> HIDE DEF usable, first
  <1>5. CASE ~startable(jb, rn, j)
    BY <1>1, <1>5
  <1>6. CASE startable(jb, rn, j) /\ usable = {}
    <2>1. j \in W
      BY <1>6 DEF Startable
    <2> HIDE DEF W, F, I
    <2>2. Append(before.waiting, j) \in Seq(W)
      BY <1>2, <2>1
    <2>3. [before EXCEPT !.waiting = Append(before.waiting, j)]
            \in [free : SUBSET I, launches : Seq(F), waiting : Seq(W)]
      BY <1>2, <2>2
    <2>4. QED
      BY <1>1, <1>6, <2>3 DEF Found, W, F, I
  <1>7. CASE startable(jb, rn, j) /\ usable # {}
    <2>1. launch \in F
      <3>1. j \in W /\ first \in I /\ Allows(jb[j].spec.target, first)
        BY <1>3, <1>4, <1>7 DEF Startable
      <3>2. QED
        BY <3>1 DEF Fits
    <2> HIDE DEF W, F, I, launch
    <2>2. /\ Append(before.launches, launch) \in Seq(F)
          /\ before.free \ {first} \in SUBSET I
      BY <1>2, <2>1
    <2>3. [before EXCEPT !.free = before.free \ {first},
                         !.launches = Append(before.launches, launch)]
            \in [free : SUBSET I, launches : Seq(F), waiting : Seq(W)]
      BY <1>2, <2>2
    <2>4. QED
      BY <1>1, <1>7, <2>3 DEF Found, W, F, I
  <1>8. QED
    BY <1>5, <1>6, <1>7

\* The walk over the whole queue launches only startable jobs on idle
\* resources they may use, and only startable jobs wait (queue/schedule.rs)
LEMMA FillFinds ==
    ASSUME NEW jb \in [Jobs -> JobRow], NEW rn, Dense(jb)
    PROVE  Fill(jb, rn) \in Found(jb, rn)
  <1> DEFINE q == machine_queue(jb)
             L == Len(q)
             f == CHOOSE g : IsWalk(jb, rn, q, L, g)
  <1>1. L \in Nat /\ \A n \in 1..L : q[n] \in Jobs
    BY QueueMembers
  <1>2. Fill(jb, rn) = f[L]
    BY DEF Fill, IsWalk
  <1> HIDE DEF q, L
  <1>3. IsWalk(jb, rn, q, L, f)
    BY <1>1, WalkExists DEF Walks
  <1> HIDE DEF f
  <1>4. /\ f[0] = [free |-> Idle(rn), launches |-> <<>>, waiting |-> <<>>]
        /\ \A n \in 1..L : f[n] = Serve(jb, rn, q[n], f[n - 1])
    <2> DEFINE start == [free |-> Idle(rn), launches |-> <<>>, waiting |-> <<>>]
               S(n, b) == Serve(jb, rn, q[n], b)
    <2>1. f = [n \in 0..L |-> IF n = 0 THEN start ELSE S(n, f[n - 1])]
      BY <1>3 DEF IsWalk
    <2> HIDE DEF start, S
    <2>2. f[0] = start /\ \A n \in 1..L : f[n] = S(n, f[n - 1])
      BY <1>1, <2>1
    <2>3. QED
      BY <2>2 DEF start, S
  <1> DEFINE Bad == {n \in 0..L : f[n] \notin Found(jb, rn)}
  <1>5. ASSUME Bad # {} PROVE FALSE
    <2>1. PICK n \in Bad : \A k \in Bad : n <= k
      <3>1. Bad \in SUBSET Nat
        BY <1>1
      <3> HIDE DEF Bad
      <3>2. QED
        BY <1>5, <3>1, NatMin
    <2>2. n \in 0..L /\ f[n] \notin Found(jb, rn)
      OBVIOUS
    <2>3. n # 0
      <3>1. f[0] \in Found(jb, rn)
        BY <1>4 DEF Found
      <3>2. QED
        BY <2>2, <3>1
    <2>4. n \in 1..L /\ n - 1 \in 0..L /\ ~(n <= n - 1)
      BY <1>1, <2>2, <2>3
    <2>5. f[n - 1] \in Found(jb, rn)
      BY <2>1, <2>4
    <2>6. QED
      BY <1>1, <1>4, <2>2, <2>4, <2>5, ServeFinds
  <1>6. L \in 0..L
    BY <1>1
  <1>7. QED
    BY <1>2, <1>5, <1>6

\* A preemption is decided for a startable job of a higher level, which may
\* use the resource (queue/schedule.rs: preempt_for)
LEMMA StopIsForHigherLevel ==
    ASSUME Inv, Dense(job), NEW young, NEW stop, stop # NoStop,
           decide(job, run, young).preemption = stop
    PROVE  \E w \in Jobs :
              /\ startable(job, run, w)
              /\ job[w].priority > job[run[stop.resource].job].priority
              /\ Allows(job[w].spec.target, stop.resource)
  <1>a. TypeOK /\ Owned(run) /\ job \in [Jobs -> JobRow]
    BY DEF Inv, Consistent, TypeOK
  <1>b. job \in [Jobs -> JobRow]
    BY <1>a
  <1> DEFINE ws == Fill(job, run).waiting
             able == {n \in DOMAIN ws : Candidates(job, run, young, ws[n]) # {}}
             n == CHOOSE k \in able : \A m \in able : k <= m
  <1>1. able # {} /\ stop = preempt_for(job, run, young, ws[n])
    BY DEF decide
  <1>2. ws \in Seq(Startable(job, run))
    BY <1>b, FillFinds DEF Found
  <1>3. able \in SUBSET Nat
    BY <1>2
  <1> HIDE DEF ws
  <1>4. n \in able
    <2> HIDE DEF able
    <2>1. \E k \in able : \A m \in able : k <= m
      BY <1>1, <1>3, NatMin
    <2>2. QED
      BY <2>1
  <1> HIDE DEF n
  <1>5. ws[n] \in Startable(job, run)
    BY <1>2, <1>4
  <1> DEFINE w == ws[n]
             C == Candidates(job, run, young, w)
             r == CHOOSE x \in C : \A y \in C : PreferredVictim(job, run, young, x, y)
  <1>6. C # {}
    BY <1>4
  <1>7. C \in SUBSET Resources /\ \A x \in C : run[x].job \in Jobs
    BY <1>a DEF Candidates, Owned
  <1>8. r \in C
    <2> HIDE DEF C
    <2>1. \E x \in C : \A y \in C : PreferredVictim(job, run, young, x, y)
      BY <1>a, <1>6, <1>7, VictimExists
    <2>2. QED
      BY <2>1
  <1>9. stop.resource = r
    BY <1>1, <1>6 DEF preempt_for
  <1> HIDE DEF r
  <1>10. Allows(job[w].spec.target, r) /\ job[run[r].job].priority < job[w].priority
    BY <1>8 DEF Candidates
  <1>11. w \in Jobs /\ startable(job, run, w)
    BY <1>5 DEF Startable
  <1>12. job[w].priority \in Nat /\ job[run[r].job].priority \in Nat
    <2>1. \A j \in Jobs : job[j].priority \in Priorities
      BY <1>b DEF JobRow
    <2>2. Priorities \subseteq Nat
      BY RulesAssumption DEF RulesAssumption
    <2>3. QED
      BY <1>7, <1>8, <1>11, <2>1, <2>2
  <1>13. QED
    BY <1>9, <1>10, <1>11, <1>12

\* A stop that a step commits has a waiting job of a higher level, and a
\* committed stop stays until its run ends, with a cause that only grows
LEMMA StopsJustified ==
    ASSUME Inv, Dense(job), Kinds
    PROVE  /\ \A r \in Resources :
                run[r].phase = "executing" /\ run'[r].phase = "stopping"
                  /\ run'[r].cause \in {"yield", "restart"} =>
                \E w \in Jobs :
                    /\ startable(job, run, w)
                    /\ job[w].priority > job[run[r].job].priority
                    /\ Allows(job[w].spec.target, r)
           /\ \A r \in Resources : run[r].phase = "stopping" =>
                \/ run'[r].phase = "cleaning" /\ run'[r].task = run[r].task
                \/ /\ run'[r].phase = "stopping" /\ run'[r].task = run[r].task
                   /\ CauseRank(run'[r].cause) >= CauseRank(run[r].cause)
  <1>0. \A r \in Resources :
            /\ CauseRank(run[r].cause) \in 0..3
            /\ CauseRank("user_cancel") >= CauseRank(run[r].cause)
            /\ CauseRank(run[r].cause) >= CauseRank(run[r].cause)
    <2>1. \A r \in Resources : run[r].cause \in Causes \cup {NoCause}
      BY DEF Inv, TypeOK, RunRow
    <2>2. QED
      BY <2>1 DEF CauseRank, Causes, NoCause
  <1>1. CASE Preempts
    <2>1. PICK young, r :
              /\ r \in Resources
              /\ run[r].phase = "executing"
              /\ \A s \in Resources \ {r} : run'[s] = run[s]
              /\ decide(job, run, young).preemption # NoStop
              /\ decide(job, run, young).preemption.resource = r
      BY <1>1, PreemptsOne
    <2>2. \E w \in Jobs :
              /\ startable(job, run, w)
              /\ job[w].priority > job[run[r].job].priority
              /\ Allows(job[w].spec.target, r)
      BY <2>1, StopIsForHigherLevel
    <2>3. QED
      BY <1>0, <2>1, <2>2
  <1>2. CASE \A r \in Resources : StopKept(run[r], run'[r])
    BY <1>0, <1>2 DEF StopKept
  <1>3. QED
    BY <1>1, <1>2, StopsKept

\* docs/resource-queue.md: a run is preempted only for a job of a strictly
\* higher level, at the commit as at the decision, and a person's cancel is
\* never downgraded: the property that the runs check, for any instance
THEOREM StopsAreJustifiedCorrect == Spec => StopsAreJustified
  <1> DEFINE A == \A r \in Resources :
                    run[r].phase = "executing" /\ run'[r].phase = "stopping"
                      /\ run'[r].cause \in {"yield", "restart"} =>
                    \E w \in Jobs :
                        /\ startable(job, run, w)
                        /\ job[w].priority > job[run[r].job].priority
                        /\ Allows(job[w].spec.target, r)
             B == \A r \in Resources : run[r].phase = "stopping" =>
                    \/ run'[r].phase = "cleaning" /\ run'[r].task = run[r].task
                    \/ /\ run'[r].phase = "stopping" /\ run'[r].task = run[r].task
                       /\ CauseRank(run'[r].cause) >= CauseRank(run[r].cause)
  <1>1. OrderInv /\ [Next]_storeVars => [A]_storeVars /\ [B]_storeVars
    <2> SUFFICES ASSUME OrderInv, [Next]_storeVars PROVE A /\ B
      OBVIOUS
    <2>1. Inv /\ Slotted(job) /\ Dense(job)
      BY DEF OrderInv, StoreInv, Rows
    <2>2. Kinds
      BY <2>1, StepKinds
    <2>3. QED
      BY <2>1, <2>2, StopsJustified
  <1>2. StopsAreJustified <=> [][A]_storeVars /\ [][B]_storeVars
    BY DEF StopsAreJustified, PreemptOnlyForHigherLevel, StopOnlyEscalates
  <1> HIDE DEF A, B
  <1>3. QED
    BY <1>1, <1>2, OrderInvariance, PTL DEF Spec

-----------------------------------------------------------------------------
(* What the tasks of a job say about its work *)

\* The runs of j that succeeded
Done(tk, j) == {n \in 1..MaxRuns : tk[<<j, n>>].status = "succeeded"}

\* n successes fit the row of a job
StepFits(row, n) ==
    CASE row.state = "succeeded" -> n = row.spec.steps
      [] row.state = "cancelled" -> n \in {row.step, row.step + 1}
      [] OTHER -> n = row.step /\ n < row.spec.steps

\* The last run of j that got past its launch was preempted
Resumable(tk, j) ==
    \E n \in 1..MaxRuns :
        /\ tk[<<j, n>>].status = "preempted"
        /\ \A m \in (n + 1)..MaxRuns :
                tk[<<j, m>>].status \in {"absent", "queued", "running", "failed"}

\* j's next run, or its present one, resumes
Resuming(jb, rn, j) ==
    \/ jb[j].resume
    \/ \E r \in Resources : rn[r].job = j /\ rn[r].resume /\ HoldsJob(rn[r])

\* The work of one job: its successes fit its row, it resumes only from a
\* checkpoint, and its runs are numbered in order: a resource holds the last
\* one, and there is none after it
WorkOf(jb, rn, tk, j) ==
    /\ StepFits(jb[j], Cardinality(Done(tk, j)))
    /\ Resuming(jb, rn, j) => Resumable(tk, j)
    /\ \A n \in 1..MaxRuns : n > jb[j].runs => tk[<<j, n>>].status = "absent"
    /\ \A r \in Resources :
            HoldsJob(rn[r]) /\ rn[r].job = j => rn[r].task = <<j, jb[j].runs>>

Work(jb, rn, tk) == \A j \in Jobs : WorkOf(jb, rn, tk, j)

\* No task of j ends past its launch
Quiet(tk, j) ==
    \A n \in 1..MaxRuns :
        \/ task'[<<j, n>>].status = tk[<<j, n>>].status
        \/ /\ tk[<<j, n>>].status \in {"absent", "queued", "running"}
           /\ task'[<<j, n>>].status \in {"queued", "running", "failed"}

\* Then the successes of j and its checkpoint stay
LEMMA QuietKeeps ==
    ASSUME NEW tk, NEW j, Quiet(tk, j)
    PROVE  /\ Done(task', j) = Done(tk, j)
           /\ Resumable(tk, j) => Resumable(task', j)
  <1>1. Done(task', j) = Done(tk, j)
    BY DEF Quiet, Done
  <1>2. ASSUME Resumable(tk, j) PROVE Resumable(task', j)
    <2>1. PICK n \in 1..MaxRuns :
            /\ tk[<<j, n>>].status = "preempted"
            /\ \A m \in (n + 1)..MaxRuns :
                  tk[<<j, m>>].status \in {"absent", "queued", "running", "failed"}
      BY <1>2 DEF Resumable
    <2>2. task'[<<j, n>>].status = "preempted"
      BY <2>1 DEF Quiet
    <2>3. \A m \in (n + 1)..MaxRuns : m \in 1..MaxRuns
      BY StoreAssumption DEF StoreAssumption
    <2>4. \A m \in (n + 1)..MaxRuns :
            task'[<<j, m>>].status \in {"absent", "queued", "running", "failed"}
      BY <2>1, <2>3 DEF Quiet
    <2>5. QED
      BY <2>2, <2>4 DEF Resumable
  <1>3. QED
    BY <1>1, <1>2

\* Rows that agree on state, specification and step fit alike
LEMMA SameFits ==
    ASSUME NEW a, NEW b, NEW n, StepFits(a, n),
           b.state = a.state, b.spec = a.spec, b.step = a.step
    PROVE  StepFits(b, n)
  BY DEF StepFits

\* The number of successes is a number
LEMMA DoneFinite ==
    ASSUME NEW tk, NEW j
    PROVE  IsFiniteSet(Done(tk, j)) /\ Cardinality(Done(tk, j)) \in Nat
  <1>1. IsFiniteSet(1..MaxRuns)
    BY StoreAssumption, FS_Interval DEF StoreAssumption
  <1>2. Done(tk, j) \in SUBSET (1..MaxRuns)
    BY DEF Done
  <1>3. IsFiniteSet(Done(tk, j))
    BY <1>1, <1>2, FS_Subset
  <1>4. QED
    BY <1>3, FS_CardinalityType

\* What the outcome of an end says about the step (queue/classify.rs)
LEMMA ClassifyWork ==
    ASSUME NEW end \in RunEnds, NEW cause \in Causes \cup {NoCause}, NEW last \in BOOLEAN,
           NEW outcome, NEW move,
           outcome = classify(end, cause, last).outcome,
           move = classify(end, cause, last).move
    PROVE  /\ outcome = "succeeded" => \/ move = "succeeded" /\ last
                                       \/ move \in {"next_step", "cancelled"} /\ ~last
           /\ move \in {"succeeded", "next_step"} => outcome = "succeeded"
           /\ move = "resume" => outcome = "preempted"
  <1>1. CASE end = "exit0"
    BY <1>1, SMT DEF classify, Class
  <1>2. CASE end = "exit75"
    BY <1>2, SMT DEF classify, Class
  <1>3. CASE end = "cancelled"
    BY <1>3, SMT DEF classify, Class
  <1>4. CASE end = "other"
    BY <1>4, SMT DEF classify, Class
  <1>5. CASE end = "lost"
    BY <1>5, SMT DEF classify, Class
  <1>6. QED
    BY <1>1, <1>2, <1>3, <1>4, <1>5 DEF RunEnds

\* Where a run's end leaves the step of its job
LEMMA AfterRunWork ==
    ASSUME NEW rec \in RunRow, NEW move \in Moves \cup {"abandoned"}
    PROVE  /\ AfterRun(rec, move).state = IF move \in TerminalJob THEN move ELSE "queued"
           /\ AfterRun(rec, move).step = IF move = "next_step" THEN rec.step + 1 ELSE rec.step
           /\ AfterRun(rec, move).resume =
                IF move = "resume" THEN TRUE
                ELSE IF move = "abandoned" THEN rec.resume ELSE FALSE
  <1>1. CASE move \in TerminalJob
    <2>1. AfterRun(rec, move) = [state |-> move, step |-> rec.step,
                                 resume |-> FALSE, event |-> move]
      BY <1>1 DEF AfterRun, TerminalJob
    <2>2. move # "next_step" /\ move # "resume" /\ move # "abandoned"
      BY <1>1 DEF TerminalJob
    <2>3. QED
      BY <1>1, <2>1, <2>2
  <1>2. CASE move = "next_step"
    BY <1>2 DEF AfterRun, TerminalJob
  <1>3. CASE move = "resume"
    BY <1>3 DEF AfterRun, TerminalJob
  <1>4. CASE move = "restart"
    BY <1>4 DEF AfterRun, TerminalJob
  <1>5. CASE move = "abandoned"
    BY <1>5 DEF AfterRun, TerminalJob
  <1>6. QED
    BY <1>1, <1>2, <1>3, <1>4, <1>5 DEF Moves

-----------------------------------------------------------------------------
(* Steps *)

\* A job's work is kept if its row says the same and its tasks and runs go on
LEMMA SameWork ==
    ASSUME NEW j, WorkOf(job, run, task, j),
           job'[j].state = job[j].state, job'[j].spec = job[j].spec,
           job'[j].step = job[j].step, job'[j].runs = job[j].runs,
           job'[j].resume = job[j].resume,
           \A n \in 1..MaxRuns :
              \/ task'[<<j, n>>].status = task[<<j, n>>].status
              \/ /\ task[<<j, n>>].status = "queued"
                 /\ task'[<<j, n>>].status = "running",
           \A s \in Resources : HoldsJob(run'[s]) /\ run'[s].job = j =>
              /\ HoldsJob(run[s]) /\ run[s].job = j
              /\ run'[s].task = run[s].task /\ run'[s].resume = run[s].resume
    PROVE  WorkOf(job', run', task', j)
  <1>1. Quiet(task, j)
    BY DEF Quiet
  <1>2. /\ Done(task', j) = Done(task, j)
        /\ Resumable(task, j) => Resumable(task', j)
    BY <1>1, QuietKeeps
  <1>3. StepFits(job'[j], Cardinality(Done(task', j)))
    BY <1>2, SameFits DEF WorkOf
  <1>4. Resuming(job', run', j) => Resuming(job, run, j)
    BY DEF Resuming
  <1>5. \A n \in 1..MaxRuns : n > job'[j].runs => task'[<<j, n>>].status = "absent"
    BY DEF WorkOf
  <1>6. \A r \in Resources :
            HoldsJob(run'[r]) /\ run'[r].job = j => run'[r].task = <<j, job'[j].runs>>
    BY DEF WorkOf
  <1>7. QED
    BY <1>2, <1>3, <1>4, <1>5, <1>6 DEF WorkOf

\* A step that concerns job j only keeps the work of every other job
LEMMA OthersWork ==
    ASSUME job \in [Jobs -> JobRow], NEW j \in Jobs, NEW k \in Jobs, k # j,
           WorkOf(job, run, task, k), OthersKept(job, j),
           \A u \in Tasks : u[1] # j => task'[u] = task[u],
           \A s \in Resources : run'[s] = run[s] \/ ~HoldsJob(run'[s]) \/ run'[s].job = j
    PROVE  WorkOf(job', run', task', k)
  <1>1. job[k] \in JobRow /\ Replaced(job[k], job'[k])
    BY DEF OthersKept
  <1>2. /\ job'[k].state = job[k].state /\ job'[k].spec = job[k].spec
        /\ job'[k].step = job[k].step /\ job'[k].runs = job[k].runs
        /\ job'[k].resume = job[k].resume
    BY <1>1, ReplacedFields
  <1>3. \A n \in 1..MaxRuns : task'[<<k, n>>].status = task[<<k, n>>].status
    <2>1. \A n \in 1..MaxRuns : <<k, n>> \in Tasks /\ <<k, n>>[1] = k
      BY DEF Tasks
    <2>2. QED
      BY <2>1
  <1>4. QED
    BY <1>2, <1>3, SameWork

\* A job that starts no run and holds none has no run that resumes
LEMMA NotResuming ==
    ASSUME NEW jb, NEW rn, NEW j, jb[j].resume = FALSE,
           \A s \in Resources : rn[s].job = j => ~HoldsJob(rn[s])
    PROVE  ~Resuming(jb, rn, j)
  BY DEF Resuming

\* A new job has no work
LEMMA AcceptsWork ==
    ASSUME Inv, Inv', Rows(job, run), NEW j \in Jobs, WorkOf(job, run, task, j), Accepts(j)
    PROVE  WorkOf(job', run', task', j)
  <1>1. /\ job[j].state = "absent" /\ job'[j].state = "queued" /\ job'[j].step = 0
        /\ job'[j].resume = FALSE /\ job'[j].runs = 0 /\ run' = run /\ task' = task
    BY DEF Accepts
  <1>2. job[j] = AbsentJob /\ job[j].step = 0 /\ job[j].runs = 0
    <2>1. job[j] = AbsentJob
      BY <1>1 DEF Rows, Fresh
    <2>2. AbsentJob.step = 0 /\ AbsentJob.runs = 0
      BY DEF AbsentJob
    <2>3. QED
      BY <2>1, <2>2
  <1>3. \A s \in Resources : run[s].job = j => ~HoldsJob(run[s])
    BY <1>1 DEF Inv, Consistent, Held
  <1>4. Cardinality(Done(task, j)) = 0
    BY <1>1, <1>2 DEF WorkOf, StepFits
  <1>5. job'[j].spec.steps \in Nat \ {0}
    <2>1. job'[j].spec \in Specs
      BY DEF Inv, TypeOK, JobRow
    <2>2. QED
      BY <2>1, RulesAssumption DEF RulesAssumption, SpecType
  <1>6. StepFits(job'[j], Cardinality(Done(task', j)))
    BY <1>1, <1>4, <1>5 DEF StepFits
  <1>7. ~Resuming(job', run', j)
    BY <1>1, <1>3, NotResuming
  <1>8. QED
    BY <1>1, <1>2, <1>3, <1>6, <1>7 DEF WorkOf

\* A withdrawn job keeps the steps it did
LEMMA WithdrawsWork ==
    ASSUME Inv, NEW j \in Jobs, WorkOf(job, run, task, j), Withdraws(j)
    PROVE  WorkOf(job', run', task', j)
  <1>1. /\ job[j].state = "queued" /\ run' = run /\ task' = task
        /\ job'[j] = [job[j] EXCEPT !.state = "cancelled", !.resume = FALSE, !.position = 0]
    BY DEF Withdraws
  <1>2. /\ job'[j].state = "cancelled" /\ job'[j].step = job[j].step
        /\ job'[j].resume = FALSE /\ job'[j].runs = job[j].runs
    <2>1. job[j] \in JobRow
      BY DEF Inv, TypeOK
    <2>2. QED
      BY <1>1, <2>1 DEF JobRow
  <1>3. \A s \in Resources : run[s].job = j => ~HoldsJob(run[s])
    BY <1>1 DEF Inv, Consistent, Held
  <1>4. StepFits(job'[j], Cardinality(Done(task', j)))
    BY <1>1, <1>2 DEF WorkOf, StepFits
  <1>5. ~Resuming(job', run', j)
    BY <1>1, <1>2, <1>3, NotResuming
  <1>6. QED
    BY <1>1, <1>2, <1>3, <1>4, <1>5 DEF WorkOf

\* A reserved run has the next number and takes over the checkpoint; the
\* tables new, rn and tk stand for a reservation and for a failed one
LEMMA ReservedWork ==
    ASSUME Inv, NEW j \in Jobs, NEW r \in Resources, MayReserve(j, r),
           WorkOf(job, run, task, j),
           task'[<<j, job[j].runs + 1>>].status \in {"queued", "failed"},
           \A u \in Tasks \ {<<j, job[j].runs + 1>>} : task'[u] = task[u]
    PROVE  /\ Done(task', j) = Done(task, j)
           /\ Resumable(task, j) => Resumable(task', j)
           /\ \A n \in 1..MaxRuns : n > job[j].runs + 1 => task'[<<j, n>>].status = "absent"
  <1> DEFINE m == job[j].runs + 1
  <1>0. TypeOK
    BY DEF Inv
  <1>1. job[j].runs \in Nat /\ <<j, m>> \in Tasks
    <2>1. job[j].runs \in Nat
      BY <1>0 DEF TypeOK, JobRow
    <2>2. QED
      BY <1>0, <2>1, ReservedType
  <1>2. m \in 1..MaxRuns /\ m > job[j].runs
    BY <1>1 DEF Tasks
  <1>3. task[<<j, m>>].status = "absent"
    BY <1>2 DEF WorkOf
  <1> HIDE DEF m
  <1>4. ASSUME NEW n \in 1..MaxRuns, n # m PROVE task'[<<j, n>>] = task[<<j, n>>]
    <2>1. <<j, n>> \in Tasks \ {<<j, m>>}
      BY <1>4 DEF Tasks
    <2>2. QED
      BY <2>1 DEF m
  <1>5. Quiet(task, j)
    BY <1>3, <1>4 DEF Quiet, m
  <1>6. \A n \in 1..MaxRuns : n > m => task'[<<j, n>>].status = "absent"
    BY <1>1, <1>2, <1>4 DEF WorkOf, m
  <1>7. QED
    BY <1>5, <1>6, QuietKeeps DEF m

\* A reservation leaves the other resources and the other tasks alone
LEMMA ReservedOthers ==
    ASSUME TypeOK, NEW j \in Jobs, NEW r \in Resources
    PROVE  /\ \A s \in Resources \ {r} : ReservedRun(j, r)[s] = run[s]
           /\ \A u \in Tasks \ {<<j, job[j].runs + 1>>} : ReservedTask(j)[u] = task[u]
  BY DEF TypeOK, ReservedRun, ReservedTask

\* The row that a reservation makes active, and the run and the task it starts
LEMMA ReservedFields ==
    ASSUME TypeOK, NEW j \in Jobs, NEW r \in Resources, MayReserve(j, r)
    PROVE  /\ ReservedJob(j, r)[j].state = "active" /\ ReservedJob(j, r)[j].resume = FALSE
           /\ ReservedJob(j, r)[j].runs = job[j].runs + 1
           /\ ReservedJob(j, r)[j].step = job[j].step /\ ReservedJob(j, r)[j].spec = job[j].spec
           /\ ReservedRun(j, r)[r].job = j /\ ReservedRun(j, r)[r].task = <<j, job[j].runs + 1>>
           /\ ReservedRun(j, r)[r].step = job[j].step
           /\ ReservedRun(j, r)[r].resume = job[j].resume
           /\ ReservedTask(j)[<<j, job[j].runs + 1>>].status = "queued"
  <1>1. job \in [Jobs -> JobRow] /\ run \in [Resources -> RunRow] /\ task \in [Tasks -> TaskRow]
    BY DEF TypeOK
  <1>2. <<j, job[j].runs + 1>> \in Tasks
    BY ReservedType
  <1>3. /\ ReservedJob(j, r)[j].state = "active" /\ ReservedJob(j, r)[j].resume = FALSE
        /\ ReservedJob(j, r)[j].runs = job[j].runs + 1
        /\ ReservedJob(j, r)[j].step = job[j].step /\ ReservedJob(j, r)[j].spec = job[j].spec
    BY <1>1 DEF ReservedJob, JobRow
  <1>4. /\ ReservedRun(j, r)[r].job = j /\ ReservedRun(j, r)[r].task = <<j, job[j].runs + 1>>
        /\ ReservedRun(j, r)[r].step = job[j].step
        /\ ReservedRun(j, r)[r].resume = job[j].resume
    BY <1>1 DEF ReservedRun, IdleRun
  <1>5. ReservedTask(j)[<<j, job[j].runs + 1>>].status = "queued"
    BY <1>1, <1>2 DEF ReservedTask, AbsentTask
  <1>6. QED
    BY <1>3, <1>4, <1>5

LEMMA StartsWork ==
    ASSUME Inv, NEW j \in Jobs, NEW r \in Resources, WorkOf(job, run, task, j), Starts(j, r)
    PROVE  WorkOf(job', run', task', j)
  <1>0. TypeOK
    BY DEF Inv
  <1>1. /\ MayReserve(j, r) /\ job' = ReservedJob(j, r) /\ run' = ReservedRun(j, r)
        /\ task' = ReservedTask(j)
    BY DEF Starts
  <1>2. /\ job'[j].state = "active" /\ job'[j].resume = FALSE
        /\ job'[j].runs = job[j].runs + 1 /\ job'[j].step = job[j].step
        /\ job'[j].spec = job[j].spec
        /\ run'[r].job = j /\ run'[r].task = <<j, job[j].runs + 1>>
        /\ run'[r].resume = job[j].resume
        /\ \A s \in Resources \ {r} : run'[s] = run[s]
        /\ task'[<<j, job[j].runs + 1>>].status = "queued"
        /\ \A u \in Tasks \ {<<j, job[j].runs + 1>>} : task'[u] = task[u]
    <2> DEFINE jb == ReservedJob(j, r)
               rn == ReservedRun(j, r)
               tk == ReservedTask(j)
    <2>a. MayReserve(j, r)
      BY <1>1
    <2>0. /\ jb[j].state = "active" /\ jb[j].resume = FALSE
          /\ rn[r].resume = job[j].resume
          /\ tk[<<j, job[j].runs + 1>>].status = "queued"
      BY <1>0, <2>a, ReservedFields, Zenon
    <2>1. /\ jb[j].runs = job[j].runs + 1 /\ jb[j].step = job[j].step
          /\ jb[j].spec = job[j].spec
          /\ rn[r].job = j /\ rn[r].task = <<j, job[j].runs + 1>>
          /\ \A s \in Resources \ {r} : rn[s] = run[s]
          /\ \A u \in Tasks \ {<<j, job[j].runs + 1>>} : tk[u] = task[u]
      <3>1. /\ jb[j].runs = job[j].runs + 1 /\ jb[j].step = job[j].step
            /\ jb[j].spec = job[j].spec
        BY <1>0, <2>a, ReservedFields
      <3>2. rn[r].job = j /\ rn[r].task = <<j, job[j].runs + 1>>
        BY <1>0, <2>a, ReservedFields
      <3>3. /\ \A s \in Resources \ {r} : rn[s] = run[s]
            /\ \A u \in Tasks \ {<<j, job[j].runs + 1>>} : tk[u] = task[u]
        BY <1>0, ReservedOthers
      <3>4. QED
        BY <3>1, <3>2, <3>3
    <2>2. job' = jb /\ run' = rn /\ task' = tk
      BY <1>1
    <2> HIDE DEF jb, rn, tk
    <2>3. QED
      BY <2>0, <2>1, <2>2
  <1>3. /\ Done(task', j) = Done(task, j)
        /\ Resumable(task, j) => Resumable(task', j)
        /\ \A n \in 1..MaxRuns : n > job[j].runs + 1 => task'[<<j, n>>].status = "absent"
    BY <1>1, <1>2, ReservedWork
  <1>4. job[j].state = "queued" /\ \A s \in Resources : run[s].job # j
    BY <1>1 DEF MayReserve
  <1>5. StepFits(job'[j], Cardinality(Done(task', j)))
    BY <1>2, <1>3, <1>4 DEF WorkOf, StepFits
  <1>6. Resuming(job', run', j) => Resuming(job, run, j)
    BY <1>2, <1>4 DEF Resuming
  <1>7. \A s \in Resources :
            HoldsJob(run'[s]) /\ run'[s].job = j => run'[s].task = <<j, job'[j].runs>>
    BY <1>2, <1>4
  <1>8. QED
    BY <1>2, <1>3, <1>5, <1>6, <1>7 DEF WorkOf

\* A launch that fails with its reservation ends the job on its step
LEMMA FailsWork ==
    ASSUME Inv, NEW j \in Jobs, NEW r \in Resources, WorkOf(job, run, task, j), Fails(j, r)
    PROVE  WorkOf(job', run', task', j)
  <1>0. TypeOK
    BY DEF Inv
  <1> DEFINE jb == ReservedJob(j, r)
             rn == ReservedRun(j, r)
             tk == ReservedTask(j)
             t  == <<j, job[j].runs + 1>>
             after == AfterRun(rn[r], "failed")
  <1>1. MayReserve(j, r) /\ EndsIn(jb, rn, tk, r, "failed", "failed")
    BY DEF Fails
  <1>2. jb \in [Jobs -> JobRow] /\ rn[r] \in RunRow
    <2>1. jb \in [Jobs -> JobRow] /\ rn \in [Resources -> RunRow]
      BY <1>0, <1>1, ReservedType
    <2>2. QED
      BY <2>1
  <1>3. /\ jb[j].runs = job[j].runs + 1 /\ jb[j].spec = job[j].spec
        /\ rn[r].job = j /\ rn[r].task = t /\ rn[r].step = job[j].step
        /\ \A s \in Resources \ {r} : rn[s] = run[s]
        /\ \A u \in Tasks \ {t} : tk[u] = task[u]
    <2>1. jb[j].runs = job[j].runs + 1 /\ jb[j].spec = job[j].spec
      BY <1>0, <1>1, ReservedFields
    <2>2. rn[r].job = j /\ rn[r].task = t /\ rn[r].step = job[j].step
      BY <1>0, <1>1, ReservedFields
    <2>3. /\ \A s \in Resources \ {r} : rn[s] = run[s]
          /\ \A u \in Tasks \ {t} : tk[u] = task[u]
      BY <1>0, ReservedOthers
    <2>4. QED
      BY <2>1, <2>2, <2>3
  <1> HIDE DEF jb, rn, tk, t
  <1>4. after.state = "failed" /\ after.step = job[j].step /\ after.resume = FALSE
    <2>1. "failed" \in Moves \cup {"abandoned"} /\ "failed" \in TerminalJob
      BY DEF Moves, TerminalJob
    <2>2. QED
      BY <1>2, <1>3, <2>1, AfterRunWork
  <1>5. /\ job'[j] = EndedRow(jb[j], after) /\ run'[r].phase = "cleaning"
        /\ \A s \in Resources \ {r} : run'[s] = run[s]
        /\ task'[t].status = "failed" /\ \A u \in Tasks \ {t} : task'[u] = task[u]
    BY <1>1, <1>3 DEF EndsIn
  <1> HIDE DEF after
  <1>6. /\ job'[j].state = "failed" /\ job'[j].step = job[j].step
        /\ job'[j].resume = FALSE /\ job'[j].runs = job[j].runs + 1
        /\ job'[j].spec = job[j].spec
    <2>1. after.step \in Nat /\ jb[j] \in JobRow
      BY <1>0, <1>2, <1>4 DEF TypeOK, JobRow
    <2>2. after.state \in {"queued"} \cup TerminalJob /\ after.resume \in BOOLEAN
      BY <1>4 DEF TerminalJob
    <2>3. QED
      BY <1>3, <1>4, <1>5, <2>1, <2>2, EndedRowFields
  <1>7. /\ Done(task', j) = Done(task, j)
        /\ \A n \in 1..MaxRuns : n > job[j].runs + 1 => task'[<<j, n>>].status = "absent"
    BY <1>1, <1>5, ReservedWork DEF t
  <1>8. job[j].state = "queued" /\ \A s \in Resources : run[s].job # j
    BY <1>1 DEF MayReserve
  <1>9. StepFits(job'[j], Cardinality(Done(task', j)))
    BY <1>6, <1>7, <1>8 DEF WorkOf, StepFits
  <1>10. \A s \in Resources : run'[s].job = j => ~HoldsJob(run'[s])
    BY <1>5, <1>8 DEF HoldsJob, HoldingPhases
  <1>11. ~Resuming(job', run', j)
    BY <1>6, <1>10, NotResuming
  <1>12. QED
    BY <1>6, <1>7, <1>9, <1>10, <1>11 DEF WorkOf

\* What an end may be, and what it says about the step
LEMMA EndOfWork ==
    ASSUME NEW rec \in RunRow, NEW row, NEW status, NEW move, NEW outcome,
           EndOf(rec, row, status, move, outcome)
    PROVE  /\ status \in {"queued", "running"}
           /\ outcome = "succeeded" =>
                \/ move = "succeeded" /\ rec.step + 1 = row.spec.steps
                \/ move \in {"next_step", "cancelled"} /\ rec.step + 1 # row.spec.steps
           /\ move \in {"succeeded", "next_step"} => outcome = "succeeded"
           /\ move = "resume" => outcome = "preempted"
           /\ move = "abandoned" => status = "queued" /\ outcome = "failed"
  <1>1. CASE move = "abandoned" /\ outcome = "failed" /\ status = "queued"
    BY <1>1
  <1>2. CASE /\ StatusMayMove(status, outcome)
             /\ \E end \in RunEnds, cause \in Causes \cup {NoCause} :
                  /\ outcome = classify(end, cause, IsLast(row.spec, rec.step)).outcome
                  /\ move = classify(end, cause, IsLast(row.spec, rec.step)).move
    <2>1. PICK end \in RunEnds, cause \in Causes \cup {NoCause} :
                  /\ outcome = classify(end, cause, IsLast(row.spec, rec.step)).outcome
                  /\ move = classify(end, cause, IsLast(row.spec, rec.step)).move
      BY <1>2
    <2>2. IsLast(row.spec, rec.step) \in BOOLEAN
      BY DEF IsLast
    <2>3. /\ outcome = "succeeded" =>
                \/ move = "succeeded" /\ IsLast(row.spec, rec.step)
                \/ move \in {"next_step", "cancelled"} /\ ~IsLast(row.spec, rec.step)
          /\ move \in {"succeeded", "next_step"} => outcome = "succeeded"
          /\ move = "resume" => outcome = "preempted"
      BY <2>1, <2>2, ClassifyWork
    <2>4. move \in Moves
      BY <2>1, <2>2, ClassifyType
    <2>5. status \in {"queued", "running"}
      BY <1>2 DEF StatusMayMove
    <2>6. QED
      BY <2>3, <2>4, <2>5 DEF IsLast, Moves, TerminalJob
  <1>3. QED
    BY <1>1, <1>2 DEF EndOf

\* The end of a run counts its step if it succeeded, hands on its checkpoint
\* if it was preempted, and an abandoned launch hands on the one it had
LEMMA EndsWork ==
    ASSUME Inv, Rows(job, run), NEW r \in Resources,
           NEW move \in Moves \cup {"abandoned"}, NEW outcome \in TerminalStatus,
           WorkOf(job, run, task, run[r].job), Ends(r, move, outcome)
    PROVE  WorkOf(job', run', task', run[r].job)
  <1> DEFINE j == run[r].job
             t == run[r].task
             m == job[j].runs
             after == AfterRun(run[r], move)
             d == Cardinality(Done(task, j))
  <1>1. /\ HoldsJob(run[r]) /\ job'[j] = EndedRow(job[j], after)
        /\ run'[r].phase = "cleaning"
        /\ \A s \in Resources \ {r} : run'[s] = run[s]
        /\ task'[t].status = outcome /\ \A u \in Tasks \ {t} : task'[u] = task[u]
        /\ EndOf(run[r], job[j], task[t].status, move, outcome)
    BY DEF Ends, EndsIn
  <1>2. /\ j \in Jobs /\ run[r] \in RunRow /\ job[j] \in JobRow /\ t \in Tasks
        /\ job[j].state = "active"
        /\ \A s \in Resources \ {r} : run[s].job # j
    BY <1>1 DEF Inv, TypeOK, Consistent, Owned, Held, Single, HoldsJob, HoldingPhases
  <1>3. /\ run[r].step = job[j].step /\ t = <<j, m>>
    BY <1>1, <1>2 DEF Rows, OnStep, WorkOf
  <1>4. m \in 1..MaxRuns
    BY <1>2, <1>3 DEF Tasks
  <1>5. /\ after.state = IF move \in TerminalJob THEN move ELSE "queued"
        /\ after.step = IF move = "next_step" THEN run[r].step + 1 ELSE run[r].step
        /\ after.resume = IF move = "resume" THEN TRUE
                          ELSE IF move = "abandoned" THEN run[r].resume ELSE FALSE
    BY <1>2, AfterRunWork
  <1>6. /\ after.state \in {"queued"} \cup TerminalJob /\ after.step \in Nat
        /\ after.resume \in BOOLEAN
    BY <1>2, AfterRunType
  <1> HIDE DEF after
  <1>7. /\ job'[j].state = after.state /\ job'[j].step = after.step
        /\ job'[j].resume = after.resume /\ job'[j].spec = job[j].spec
        /\ job'[j].runs = m
    BY <1>1, <1>2, <1>6, EndedRowFields
  <1>8. /\ task[t].status \in {"queued", "running"}
        /\ outcome = "succeeded" =>
             \/ move = "succeeded" /\ run[r].step + 1 = job[j].spec.steps
             \/ move \in {"next_step", "cancelled"} /\ run[r].step + 1 # job[j].spec.steps
        /\ move \in {"succeeded", "next_step"} => outcome = "succeeded"
        /\ move = "resume" => outcome = "preempted"
        /\ move = "abandoned" => task[t].status = "queued" /\ outcome = "failed"
    BY <1>1, <1>2, EndOfWork
  <1>9. ASSUME NEW n \in 1..MaxRuns, n # m PROVE task'[<<j, n>>] = task[<<j, n>>]
    <2>1. <<j, n>> \in Tasks \ {t}
      BY <1>2, <1>3, <1>9 DEF Tasks
    <2>2. QED
      BY <1>1, <2>1
  <1>10. task'[<<j, m>>].status = outcome /\ task[<<j, m>>].status \in {"queued", "running"}
    BY <1>1, <1>3, <1>8
  <1>11. d = job[j].step /\ d < job[j].spec.steps /\ d \in Nat
    <2>1. d = job[j].step /\ d < job[j].spec.steps
      BY <1>2 DEF WorkOf, StepFits
    <2>2. QED
      BY <2>1, DoneFinite
  <1> HIDE DEF j, t, m
  <1>12. Cardinality(Done(task', j)) = IF outcome = "succeeded" THEN d + 1 ELSE d
    <2>1. m \notin Done(task, j)
      BY <1>10 DEF Done
    <2>2. Done(task', j) = IF outcome = "succeeded" THEN Done(task, j) \cup {m}
                           ELSE Done(task, j)
      <3>1. \A n \in 1..MaxRuns : n \in Done(task', j) <=>
                IF n = m THEN outcome = "succeeded" ELSE n \in Done(task, j)
        BY <1>9, <1>10 DEF Done
      <3>2. Done(task', j) \subseteq 1..MaxRuns /\ Done(task, j) \subseteq 1..MaxRuns
        BY DEF Done
      <3>3. QED
        BY <1>4, <2>1, <3>1, <3>2
    <2>3. IsFiniteSet(Done(task, j))
      BY DoneFinite
    <2>4. QED
      BY <2>1, <2>2, <2>3, FS_AddElement
  <1>13. job[j].spec.steps \in Nat
    <2>1. job[j].spec \in Specs
      BY <1>2 DEF JobRow
    <2>2. QED
      BY <2>1, RulesAssumption DEF RulesAssumption, SpecType
  <1>14. StepFits(job'[j], Cardinality(Done(task', j)))
    <2> DEFINE e == Cardinality(Done(task', j))
    <2>1. e = IF outcome = "succeeded" THEN d + 1 ELSE d
      BY <1>12
    <2> HIDE DEF e, d
    <2>2. CASE move = "succeeded"
      <3>1. job'[j].state = "succeeded" /\ e = d + 1 /\ d + 1 = job[j].spec.steps
        BY <1>3, <1>5, <1>7, <1>8, <1>11, <2>1, <2>2 DEF TerminalJob
      <3>2. QED
        BY <1>7, <3>1 DEF StepFits, e
    <2>3. CASE move = "cancelled"
      <3>1. job'[j].state = "cancelled" /\ e \in {job'[j].step, job'[j].step + 1}
        BY <1>3, <1>5, <1>7, <1>11, <2>1, <2>3 DEF TerminalJob
      <3>2. QED
        BY <3>1 DEF StepFits, e
    <2>4. CASE move = "next_step"
      <3>1. job'[j].state = "queued" /\ e = job'[j].step /\ e < job'[j].spec.steps
        BY <1>3, <1>5, <1>7, <1>8, <1>11, <1>13, <2>1, <2>4 DEF TerminalJob
      <3>2. QED
        BY <3>1 DEF StepFits, e
    <2>5. CASE move \notin {"succeeded", "cancelled", "next_step"}
      <3>1. outcome # "succeeded"
        BY <1>8, <2>5
      <3>2. /\ job'[j].state \notin {"succeeded", "cancelled"}
            /\ e = job'[j].step /\ e < job'[j].spec.steps
        BY <1>3, <1>5, <1>7, <1>11, <2>1, <2>5, <3>1 DEF TerminalJob
      <3>3. QED
        BY <3>2 DEF StepFits, e
    <2>6. QED
      BY <2>2, <2>3, <2>4, <2>5
  <1>15. \A s \in Resources : run'[s].job = j => ~HoldsJob(run'[s])
    BY <1>1, <1>2 DEF HoldsJob, HoldingPhases
  <1>16. \A n \in 1..MaxRuns : n > m => task'[<<j, n>>].status = "absent"
    <2>1. SUFFICES ASSUME NEW n \in 1..MaxRuns, n > m
                   PROVE  task'[<<j, n>>].status = "absent"
      OBVIOUS
    <2>2. task[<<j, n>>].status = "absent"
      BY <2>1 DEF WorkOf, j, m
    <2>3. n # m
      BY <1>4, <2>1
    <2>4. QED
      BY <1>9, <2>2, <2>3
  <1>17. Resuming(job', run', j) => Resumable(task', j)
    <2>1. CASE move = "resume"
      <3>1. task'[<<j, m>>].status = "preempted"
        BY <1>8, <1>10, <2>1
      <3>2. \A n \in (m + 1)..MaxRuns : n \in 1..MaxRuns /\ n > m
        BY <1>4, StoreAssumption DEF StoreAssumption
      <3>3. QED
        BY <1>4, <1>16, <3>1, <3>2 DEF Resumable
    <2>2. CASE move = "abandoned"
      <3>1. Quiet(task, j)
        BY <1>8, <1>9, <1>10, <2>2 DEF Quiet
      <3>2. Resuming(job', run', j) => run[r].resume
        BY <1>5, <1>7, <1>15, <2>2 DEF Resuming
      <3>3. run[r].resume => Resuming(job, run, j)
        BY <1>1 DEF Resuming, j
      <3>4. Resuming(job, run, j) => Resumable(task, j)
        BY DEF WorkOf, j
      <3>5. QED
        BY <3>1, <3>2, <3>3, <3>4, QuietKeeps
    <2>3. CASE move \notin {"resume", "abandoned"}
      <3>1. job'[j].resume = FALSE
        BY <1>5, <1>7, <2>3
      <3>2. QED
        BY <1>15, <3>1, NotResuming
    <2>4. QED
      BY <2>1, <2>2, <2>3
  <1>18. WorkOf(job', run', task', j)
    BY <1>7, <1>14, <1>15, <1>16, <1>17 DEF WorkOf
  <1>19. QED
    BY <1>18 DEF j

\* Every step keeps the work
LEMMA WorkKept ==
    ASSUME Inv, Inv', Rows(job, run), Work(job, run, task), Kinds, NEW k \in Jobs
    PROVE  WorkOf(job', run', task', k)
  <1>0. /\ job \in [Jobs -> JobRow] /\ run \in [Resources -> RunRow] /\ Owned(run)
    BY DEF Inv, TypeOK, Consistent
  <1>a. TypeOK
    BY DEF Inv
  <1>b. WorkOf(job, run, task, k) /\ \A j \in Jobs : WorkOf(job, run, task, j)
    BY DEF Work
  <1>1. ASSUME NEW j \in Jobs, Accepts(j) PROVE WorkOf(job', run', task', k)
    <2>1. CASE k = j
      BY <1>1, <1>b, <2>1, AcceptsWork
    <2>2. CASE k # j
      <3>1. OthersKept(job, j) /\ run' = run /\ task' = task
        BY <1>1 DEF Accepts, OthersKept, Replaced
      <3>2. QED
        BY <1>0, <1>b, <2>2, <3>1, OthersWork
    <2>3. QED
      BY <2>1, <2>2
  <1>2. ASSUME NEW j \in Jobs, Reorders(j) PROVE WorkOf(job', run', task', k)
    <2>0. OthersKept(job, j) /\ run' = run /\ task' = task
      BY <1>2 DEF Reorders
    <2>1. CASE k = j
      <3>1. PICK p \in Priorities, n \in Nat :
                job'[j] = [job[j] EXCEPT !.priority = p, !.position = n + 1]
        BY <1>2 DEF Reorders
      <3>2. /\ job'[j].state = job[j].state /\ job'[j].spec = job[j].spec
            /\ job'[j].step = job[j].step /\ job'[j].runs = job[j].runs
            /\ job'[j].resume = job[j].resume
        <4>1. job[j] \in JobRow
          BY <1>0
        <4>2. QED
          BY <3>1, <4>1 DEF JobRow
      <3>3. QED
        BY <1>b, <2>0, <2>1, <3>2, SameWork
    <2>2. CASE k # j
      BY <1>0, <1>b, <2>0, <2>2, OthersWork
    <2>3. QED
      BY <2>1, <2>2
  <1>3. ASSUME NEW j \in Jobs, Withdraws(j) PROVE WorkOf(job', run', task', k)
    <2>0. OthersKept(job, j) /\ run' = run /\ task' = task
      BY <1>3 DEF Withdraws
    <2>1. CASE k = j
      BY <1>3, <1>b, <2>1, WithdrawsWork
    <2>2. CASE k # j
      BY <1>0, <1>b, <2>0, <2>2, OthersWork
    <2>3. QED
      BY <2>1, <2>2
  <1>4. ASSUME NEW j \in Jobs, NEW r \in Resources, MayReserve(j, r)
        PROVE  /\ \A u \in Resources \ {r} : ReservedRun(j, r)[u] = run[u]
               /\ ReservedRun(j, r)[r].job = j
               /\ ReservedRun(j, r)[r].task = <<j, job[j].runs + 1>>
               /\ \A u \in Tasks \ {<<j, job[j].runs + 1>>} : ReservedTask(j)[u] = task[u]
               /\ \A i \in Jobs \ {j} : ReservedJob(j, r)[i] = job[i]
    <2>1. /\ ReservedRun(j, r)[r].job = j
          /\ ReservedRun(j, r)[r].task = <<j, job[j].runs + 1>>
      BY <1>a, <1>4, ReservedRows
    <2>2. \A u \in Resources \ {r} : ReservedRun(j, r)[u] = run[u]
      BY <1>a DEF ReservedRun, TypeOK
    <2>3. \A u \in Tasks \ {<<j, job[j].runs + 1>>} : ReservedTask(j)[u] = task[u]
      BY <1>a, <1>4, ReservedRows
    <2>4. \A i \in Jobs \ {j} : ReservedJob(j, r)[i] = job[i]
      BY <1>a DEF ReservedJob, TypeOK
    <2>5. QED
      BY <2>1, <2>2, <2>3, <2>4
  <1>5. ASSUME NEW j \in Jobs, NEW r \in Resources, Starts(j, r)
        PROVE  WorkOf(job', run', task', k)
    <2>1. CASE k = j
      BY <1>5, <1>b, <2>1, StartsWork
    <2>2. CASE k # j
      <3>1. /\ MayReserve(j, r) /\ job' = ReservedJob(j, r)
            /\ run' = ReservedRun(j, r) /\ task' = ReservedTask(j)
        BY <1>5 DEF Starts
      <3>2. OthersKept(job, j)
        BY <1>4, <3>1 DEF OthersKept, Replaced
      <3>3. \A u \in Tasks : u[1] # j => task'[u] = task[u]
        BY <1>4, <3>1
      <3>4. \A s \in Resources : run'[s] = run[s] \/ run'[s].job = j
        BY <1>4, <3>1
      <3>5. QED
        BY <1>0, <1>b, <2>2, <3>2, <3>3, <3>4, OthersWork
    <2>3. QED
      BY <2>1, <2>2
  <1>6. ASSUME NEW j \in Jobs, NEW r \in Resources, Fails(j, r)
        PROVE  WorkOf(job', run', task', k)
    <2>1. CASE k = j
      BY <1>6, <1>b, <2>1, FailsWork
    <2>2. CASE k # j
      <3>1. /\ MayReserve(j, r)
            /\ EndsIn(ReservedJob(j, r), ReservedRun(j, r), ReservedTask(j), r,
                      "failed", "failed")
        BY <1>6 DEF Fails
      <3>2. /\ OthersKept(ReservedJob(j, r), j) /\ run'[r].job = j
            /\ \A s \in Resources \ {r} : run'[s] = ReservedRun(j, r)[s]
            /\ \A u \in Tasks \ {<<j, job[j].runs + 1>>} : task'[u] = ReservedTask(j)[u]
        BY <1>4, <3>1 DEF EndsIn
      <3>3. OthersKept(job, j)
        BY <1>4, <3>1, <3>2 DEF OthersKept
      <3>4. \A u \in Tasks : u[1] # j => task'[u] = task[u]
        BY <1>4, <3>1, <3>2
      <3>5. \A s \in Resources : run'[s] = run[s] \/ run'[s].job = j
        BY <1>4, <3>1, <3>2
      <3>6. QED
        BY <1>0, <1>b, <2>2, <3>3, <3>4, <3>5, OthersWork
    <2>3. QED
      BY <2>1, <2>2
  <1>7. ASSUME NEW r \in Resources, NEW move \in Moves \cup {"abandoned"},
               NEW outcome \in TerminalStatus, Ends(r, move, outcome)
        PROVE  WorkOf(job', run', task', k)
    <2> DEFINE j == run[r].job
    <2>0. /\ HoldsJob(run[r]) /\ OthersKept(job, j) /\ run'[r].job = j
          /\ \A s \in Resources \ {r} : run'[s] = run[s]
          /\ \A u \in Tasks \ {run[r].task} : task'[u] = task[u]
      BY <1>7 DEF Ends, EndsIn
    <2>a. j \in Jobs /\ run[r].task[1] = j
      BY <1>0, <2>0 DEF Owned, HoldsJob, HoldingPhases
    <2>1. CASE k = j
      BY <1>7, <1>b, <2>1, <2>a, EndsWork
    <2>2. CASE k # j
      <3>1. \A u \in Tasks : u[1] # j => task'[u] = task[u]
        BY <2>0, <2>a
      <3>2. \A s \in Resources : run'[s] = run[s] \/ run'[s].job = j
        BY <2>0
      <3>3. QED
        BY <1>0, <1>b, <2>0, <2>2, <2>a, <3>1, <3>2, OthersWork
    <2>3. QED
      BY <2>1, <2>2
  <1>8. ASSUME job' = job,
               \A u \in Tasks : \/ task'[u].status = task[u].status
                                \/ /\ task[u].status = "queued"
                                   /\ task'[u].status = "running",
               \A s \in Resources : HoldsJob(run'[s]) =>
                    /\ HoldsJob(run[s]) /\ run'[s].job = run[s].job
                    /\ run'[s].task = run[s].task /\ run'[s].resume = run[s].resume
        PROVE  WorkOf(job', run', task', k)
    <2>1. \A n \in 1..MaxRuns : <<k, n>> \in Tasks
      BY DEF Tasks
    <2>2. \A n \in 1..MaxRuns :
              \/ task'[<<k, n>>].status = task[<<k, n>>].status
              \/ /\ task[<<k, n>>].status = "queued"
                 /\ task'[<<k, n>>].status = "running"
      BY <1>8, <2>1
    <2>3. QED
      BY <1>8, <1>b, <2>2, SameWork
  <1>9. ASSUME NEW r \in Resources, Proceeds(r) PROVE WorkOf(job', run', task', k)
    BY <1>8, <1>9 DEF Proceeds
  <1>10. ASSUME NEW r \in Resources, Reminds(r) PROVE WorkOf(job', run', task', k)
    BY <1>8, <1>10 DEF Reminds
  <1>11. ASSUME NEW r \in Resources, Sticks(r) PROVE WorkOf(job', run', task', k)
    BY <1>8, <1>11 DEF Sticks, HoldsJob, HoldingPhases
  <1>12. ASSUME NEW r \in Resources, Frees(r) PROVE WorkOf(job', run', task', k)
    <2>1. /\ run'[r] = IdleRun /\ job' = job /\ task' = task
          /\ \A s \in Resources \ {r} : run'[s] = run[s]
      BY <1>0, <1>12 DEF Frees
    <2>2. ~HoldsJob(IdleRun)
      BY DEF IdleRun, HoldsJob, HoldingPhases
    <2>3. QED
      BY <1>8, <2>1, <2>2
  <1>13. CASE UNCHANGED storeVars
    BY <1>8, <1>13 DEF storeVars
  <1>14. QED
    BY <1>1, <1>2, <1>3, <1>5, <1>6, <1>7, <1>9, <1>10, <1>11, <1>12, <1>13 DEF Kinds

-----------------------------------------------------------------------------
(* The theorems *)

\* No work was done and nothing was started at first
LEMMA InitWork == Init => Work(job, run, task)
  <1> SUFFICES ASSUME Init, NEW j \in Jobs PROVE WorkOf(job, run, task, j)
    BY DEF Work
  <1>1. /\ job[j] = AbsentJob /\ \A r \in Resources : run[r] = IdleRun
        /\ \A t \in Tasks : task[t] = AbsentTask
    BY DEF Init
  <1>2. /\ AbsentJob.state = "absent" /\ AbsentJob.step = 0 /\ AbsentJob.resume = FALSE
        /\ AbsentJob.spec = NoSpec /\ AbsentTask.status = "absent"
        /\ ~HoldsJob(IdleRun)
    BY DEF AbsentJob, AbsentTask, IdleRun, HoldsJob, HoldingPhases
  <1>3. NoSpec.steps \in Nat \ {0}
    <2>1. NoSpec \in Specs
      BY RulesAssumption DEF RulesAssumption, NoSpec
    <2>2. QED
      BY <2>1, RulesAssumption DEF RulesAssumption, SpecType
  <1>4. \A n \in 1..MaxRuns : task[<<j, n>>].status = "absent"
    <2>1. \A n \in 1..MaxRuns : <<j, n>> \in Tasks
      BY DEF Tasks
    <2>2. QED
      BY <1>1, <1>2, <2>1
  <1>5. Cardinality(Done(task, j)) = 0
    <2>1. Done(task, j) = {}
      BY <1>4 DEF Done
    <2>2. QED
      BY <2>1, FS_EmptySet
  <1>6. StepFits(job[j], Cardinality(Done(task, j)))
    BY <1>1, <1>2, <1>3, <1>5 DEF StepFits
  <1>7. ~Resuming(job, run, j)
    BY <1>1, <1>2 DEF Resuming
  <1>8. QED
    BY <1>1, <1>2, <1>4, <1>6, <1>7 DEF WorkOf

\* The work of every job fits its row in every reachable state
THEOREM WorkInvariance == Spec => []Work(job, run, task)
  <1>1. StoreInv /\ StoreInv' /\ Work(job, run, task) /\ [Next]_storeVars
            => Work(job, run, task)'
    <2> SUFFICES ASSUME StoreInv, StoreInv', Work(job, run, task), [Next]_storeVars
                 PROVE  Work(job, run, task)'
      OBVIOUS
    <2>1. Inv /\ Inv' /\ Rows(job, run) /\ Slotted(job)
      BY DEF StoreInv, Rows
    <2>2. Kinds
      BY <2>1, StepKinds
    <2>3. \A k \in Jobs : WorkOf(job', run', task', k)
      BY <2>1, <2>2, WorkKept
    <2>4. QED
      BY <2>3 DEF Work, WorkOf, StepFits, Done, Resuming, Resumable, HoldsJob
  <1>2. QED
    BY <1>1, InitWork, StoreInvariance, PTL DEF Spec

\* queue/classify.rs: "successful work is not repeated", nor skipped, and only
\* the checkpoint of the last run is resumed: the property that the runs
\* check, for any jobs, resources, numbers of steps and of runs
THEOREM WorkIsNotRepeatedCorrect == Spec => []WorkIsNotRepeated
  <1>1. Work(job, run, task) => WorkIsNotRepeated
    <2> SUFFICES ASSUME Work(job, run, task) PROVE WorkIsNotRepeated
      OBVIOUS
    <2>1. StepsCountSuccesses
      BY DEF Work, WorkOf, StepFits, Done, StepsCountSuccesses, Successes
    <2>2. ResumeOnlyAfterPreemption
      BY DEF Work, WorkOf, Resuming, Resumable, ResumeOnlyAfterPreemption
    <2>3. QED
      BY <2>1, <2>2 DEF WorkIsNotRepeated
  <1>2. QED
    BY <1>1, WorkInvariance, PTL

==============================================================================

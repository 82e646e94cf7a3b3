---------------------------- MODULE ProcessSweep ----------------------------
(***************************************************************************)
(* What is stopped when a run ends.  The worker ends the child's process   *)
(* group; an agent's worker then sweeps what it recorded or what carries   *)
(* the run's marker, and the daemon sweeps a queued run, or a lost one's    *)
(* group first.  Meanwhile processes fork, exec, exit and leave their PID   *)
(* to strangers, also between any two reads of the sweep.                   *)
(***************************************************************************)
EXTENDS Naturals, FiniteSets

CONSTANTS
    Pids,        \* process ids; the workload child starts as pid 1
    MaxStarts,   \* bound on processes ever started
    Rounds,      \* CleanupTiming::rounds
    BusyScans    \* BUSY_EMPTY_SCANS

OlderDaemon == 99 \* another user's daemon from before the run, such as sshd

ASSUME SweepAssumption ==
    /\ Pids \subseteq Nat \ {0, OlderDaemon} /\ 1 \in Pids /\ MaxStarts \in Nat \ {0, 1} /\ Rounds \in Nat \ {0}
    /\ BusyScans \in Nat /\ BusyScans > 2

VARIABLES
    table,      \* process at each pid
    starts,     \* processes started so far: the next kernel start time
    protected,  \* pids never signalled
    recorded,   \* descendants known to the tracker, until the sweep adopts them
    sweeper,    \* progress of the worker or daemon that cleans up
    exited,     \* history: the run lost a process during this scan
    replaced,   \* history: empty scans in a row during which it lost one
    taken,      \* history: the group's id has another owner since its last check
    wrong       \* history: a process that is not the run's was signalled

procVars == <<table, starts, recorded, protected>>
sweepVars == <<table, starts, protected, recorded, sweeper, exited, replaced, taken, wrong>>

LeaderStart == 1
Free == [start |-> 0, marked |-> FALSE, open |-> TRUE, run |-> FALSE, home |-> FALSE, astray |-> FALSE,
         parent |-> 0, group |-> 0]
Leader == [Free EXCEPT !.start = LeaderStart, !.marked = TRUE, !.run = TRUE, !.group = 1]
\* A worker that the run's tree holds; its environment may carry the marker.
TaskRun(marked) == [Free EXCEPT !.start = 2, !.marked = marked, !.home = TRUE, !.group = 2]

Alive(p) == table[p].start # 0
Identity(p) == [pid |-> p, start |-> table[p].start]
Living == {Identity(p): p \in {q \in Pids: Alive(q)}}
Members(g) == {p \in Pids: Alive(p) /\ table[p].group = g}
Is(phase) == sweeper.at = phase
NewSweeper == [at |-> "run", mode |-> "queue", killed |-> FALSE, adopted |-> {}, bound |-> FALSE,
          stage |-> "first", round |-> 1, begun |-> {}, todo |-> {}, info |-> {}, targets |-> {}, suspects |-> {},
          unsettled |-> FALSE, empties |-> 0, settled |-> 0, sent |-> {}, handle |-> {}, ok |-> FALSE, hits |-> FALSE]

SweepInit ==
    /\ protected \in {{}, {2}}
    /\ \E marked \in BOOLEAN, mode \in {"agent", "queue", "lost"}:
          /\ table = [p \in Pids |-> IF p = 1 THEN Leader ELSE IF p \in protected THEN TaskRun(marked) ELSE Free]
          /\ sweeper = [NewSweeper EXCEPT !.mode = mode, !.at = IF mode = "lost" THEN "attribute" ELSE "run"]
    /\ starts = 2 /\ recorded = {} /\ exited = FALSE /\ replaced = 0 /\ taken = FALSE /\ wrong = FALSE

-----------------------------------------------------------------------------
(* The processes of the machine.                                            *)

\* A pid is not handed out while a process group of that id has members.
Available(q) == ~Alive(q) /\ Members(q) = {} /\ starts < MaxStarts

Seat(q, process) ==
    /\ table' = [table EXCEPT ![q] = process] /\ starts' = starts + 1
    /\ taken' = (taken \/ q = 1)
    /\ UNCHANGED <<protected, recorded, sweeper, exited, replaced, wrong>>

\* A homebased process scrubs the marker from what it starts.  What it starts
\* after the tracker recorded it is astray, and so is all that follows.
Child(p, q) == [table[p] EXCEPT !.start = starts + 1, !.parent = p, !.group = q, !.marked = @ /\ ~table[p].home,
                                !.astray = @ \/ (table[p].home /\ Identity(p) \in recorded)]

\* A child in the same group, in a session of its own, without the marker (a
\* server with a scrubbed environment), one that denies reads at times (until it
\* execs, say), or a program that a homebased process starts.
Fork(p, q) ==
    /\ Alive(p) /\ Available(q)
    /\ \/ Seat(q, [Child(p, q) EXCEPT !.group = table[p].group])
       \/ Seat(q, Child(p, q))
       \/ Seat(q, [Child(p, q) EXCEPT !.marked = FALSE])
       \/ Seat(q, [Child(p, q) EXCEPT !.open = FALSE])
       \/ table[p].home /\ Seat(q, [Child(p, q) EXCEPT !.home = FALSE])

\* It is being adopted, or was verified and is about to be signalled.
Checked(p) == \/ Identity(p) \in sweeper.adopted
              \/ sweeper.ok /\ \E h \in sweeper.handle: h.pinned = Identity(p)

\* A child of the run, alone in a session of its own, becomes a homebased daemon,
\* which must outlive the run.  It keeps its identity.
Exec(p) ==
    /\ Alive(p) /\ table[p].run /\ table[p].start # LeaderStart /\ Members(p) = {p}
    /\ table' = [table EXCEPT ![p] = [@ EXCEPT !.marked = FALSE, !.open = TRUE, !.run = FALSE, !.home = TRUE,
                                              !.astray = table[p].astray \/ Checked(p)]]
    /\ exited' = TRUE /\ taken' = (taken \/ p = 1)
    /\ UNCHANGED <<starts, protected, recorded, sweeper, replaced, wrong>>

\* An unrelated process; a login's session process denies reads.
Stranger(q) ==
    /\ Available(q)
    /\ \/ Seat(q, [Free EXCEPT !.start = starts + 1, !.group = q])
       \/ Seat(q, [Free EXCEPT !.start = starts + 1, !.group = q, !.open = FALSE, !.parent = OlderDaemon])

Exit(p) ==
    /\ Alive(p)
    /\ table' = [q \in Pids |-> IF q = p THEN Free
                   ELSE IF table[q].parent = p THEN [table[q] EXCEPT !.parent = 0] ELSE table[q]]
    /\ exited' = (exited \/ table[p].run)
    /\ UNCHANGED <<starts, protected, recorded, sweeper, replaced, taken, wrong>>

-----------------------------------------------------------------------------
(* The agent worker's record of descendants.                                *)

\* A process that runs a homebased executable bounds the tree, and so does one
\* whose executable cannot be read.
is_boundary(p, unread) == table[p].home \/ p \in unread

Unreadable == {p \in Pids: ~table[p].open}

\* Children of a live recorded process, or of the live child, by ancestry.
Descends(known, unread) ==
    {Identity(p): p \in {q \in Pids: /\ Alive(q) /\ ~is_boundary(q, unread)
                                     /\ \E i \in known: /\ table[q].parent = i.pid /\ Identity(i.pid) = i
                                                        /\ table[q].start >= i.start}}

\* A recorded process stays recorded after its parent exits, or when it turned
\* homebased; the rounds of the loop end with the least set that has every child
\* of its processes.
try_observe(unread) ==
    LET kept == {i \in recorded: Identity(i.pid) = i}
        closed == {known \in SUBSET Living:
                     kept \cup Descends(known \cup {[pid |-> 1, start |-> LeaderStart]}, unread) \subseteq known}
    IN {i \in Living: \A known \in closed: i \in known}

\* The poll of the run's loop; only an agent's worker keeps a record.
observe_descendants ==
    /\ Is("run") /\ sweeper.mode = "agent"
    /\ \E unread \in SUBSET Unreadable: recorded' = try_observe(unread) /\ recorded' # recorded
    /\ UNCHANGED <<table, starts, protected, sweeper, exited, replaced, taken, wrong>>

Watches == UNCHANGED <<table, starts, protected>>
Ghosts == UNCHANGED <<exited, replaced, taken, wrong>>

-----------------------------------------------------------------------------
(* The worker ends the child's process group.                               *)

\* The child exited, or a cancel or SIGTERM stops it.
run_child ==
    /\ Is("run") /\ sweeper' = [sweeper EXCEPT !.at = "probe"]
    /\ \E unread \in SUBSET Unreadable:
          recorded' = IF sweeper.mode = "agent" THEN try_observe(unread) ELSE recorded
    /\ Watches /\ Ghosts

\* kill(-pgid, 0): a failed probe is no evidence of exit.
process_group_probe == IF Members(1) = {} THEN {"exited"} ELSE {"alive", "unknown"}

\* `into_adopted': what turned homebased since it was recorded is left out.
into_adopted(unread) == {i \in recorded: Alive(i.pid) /\ ~is_boundary(i.pid, unread)}

\* An agent's worker sweeps what it recorded and what is marked.  The daemon
\* sweeps a queued run by its marker, once the group's exit is confirmed.
stop_leftovers(evidence, unread) ==
    IF sweeper.mode = "agent" THEN [sweeper EXCEPT !.at = "list", !.adopted = into_adopted(unread)]
    ELSE [sweeper EXCEPT !.at = IF evidence THEN "list" ELSE "incomplete", !.bound = TRUE]

\* A group signal reaches every member of the group that has the id now.
SignalsGroup == wrong' = (wrong \/ (~taken /\ \E p \in Members(1): ~table[p].run))

\* SIGTERM, then SIGKILL, each with a grace of polls; after SIGKILL only a
\* probe within its grace confirms the exit.
cleanup_process_group ==
    /\ Is("probe")
    /\ \E result \in process_group_probe:
          \/ /\ recorded' = {} /\ UNCHANGED wrong
             /\ \E evidence \in BOOLEAN, unread \in SUBSET Unreadable:
                   /\ IF evidence THEN result = "exited" ELSE sweeper.killed
                   /\ sweeper' = stop_leftovers(evidence, unread)
          \/ /\ result # "exited" /\ ~sweeper.killed /\ SignalsGroup
             /\ UNCHANGED recorded
             /\ \E kill \in BOOLEAN: sweeper' = [sweeper EXCEPT !.killed = kill]
    /\ Watches /\ UNCHANGED <<exited, replaced, taken>>

-----------------------------------------------------------------------------
(* One observation of a process, in two reads.                              *)

\* still_same: the identity holds after the environment was read.
still_same(p, info) == Alive(p) /\ table[p].start = info.start

\* A same-user process of the run's time that denies reads, unless an older
\* daemon of another user started it.
note_refusal(p, info) ==
    sweeper.bound /\ still_same(p, info) /\ info.start >= LeaderStart /\ info.parent # OlderDaemon

\* Info, then environment and reread: the second read may meet another process,
\* and the environment may be denied.
ObservedBy(p, info, denied) ==
    IF info.start = 0 THEN "vanished"
    ELSE IF [pid |-> p, start |-> info.start] \in sweeper.adopted THEN "marked"
    ELSE IF ~Alive(p) THEN "vanished"
    ELSE IF ~table[p].open /\ denied THEN IF note_refusal(p, info) THEN "suspect" ELSE "none"
    ELSE IF ~still_same(p, info) THEN "vanished"
    ELSE IF table[p].marked THEN "marked" ELSE "none"

-----------------------------------------------------------------------------
(* A lost worker's group.                                                   *)

Ends(outcome) == sweeper' = [sweeper EXCEPT !.at = outcome]

SweepsMarker == [sweeper EXCEPT !.at = "list", !.bound = TRUE]

\* The leader keeps its identity, or a readable member carries the marker.
attribute_group(denied) ==
    IF Members(1) = {} THEN "gone"
    ELSE IF Members(1) \cap protected # {} THEN "protected"
    ELSE IF \/ Identity(1).start = LeaderStart
            \/ \E p \in Members(1): table[p].marked /\ (table[p].open \/ ~denied) THEN "run"
    ELSE "unattributed"

\* Checked before every signal; the wait after it ends when the group is gone.
lost_group ==
    /\ Is("attribute") /\ taken' = FALSE
    /\ \E denied \in BOOLEAN:
          sweeper' = CASE attribute_group(denied) = "gone" -> SweepsMarker
                       [] attribute_group(denied) = "run" -> [sweeper EXCEPT !.at = "send_group"]
                       [] OTHER -> [sweeper EXCEPT !.at = "incomplete"]
    /\ Watches /\ UNCHANGED <<recorded, exited, replaced, wrong>>

send_group ==
    /\ Is("send_group") /\ SignalsGroup
    /\ sweeper' = [sweeper EXCEPT !.at = "wait_group"]
    /\ Watches /\ UNCHANGED <<recorded, exited, replaced, taken>>

wait_group_gone ==
    /\ Is("wait_group")
    /\ \/ Members(1) = {} /\ sweeper' = SweepsMarker
       \/ Members(1) # {} /\ sweeper' = IF sweeper.killed THEN [sweeper EXCEPT !.at = "incomplete"]
                                        ELSE [sweeper EXCEPT !.at = "attribute", !.killed = TRUE]
    /\ Watches /\ Ghosts /\ UNCHANGED recorded

-----------------------------------------------------------------------------
(* The sweep.                                                               *)

\* The listing reads the table over a while: what lived throughout is listed.
list_begins ==
    /\ Is("list") /\ exited' = FALSE
    /\ sweeper' = [sweeper EXCEPT !.at = "listing", !.begun = Living,
                      !.targets = {}, !.suspects = {}, !.unsettled = FALSE]
    /\ Watches /\ UNCHANGED <<recorded, replaced, taken, wrong>>

list_ends ==
    /\ Is("listing")
    /\ LET before == {i.pid: i \in sweeper.begun}  now == {p \in Pids: Alive(p)}
           throughout == {i.pid: i \in {j \in sweeper.begun: Identity(j.pid) = j}}
       IN \E listed \in SUBSET (before \cup now):
             throughout \subseteq listed /\ sweeper' = [sweeper EXCEPT !.at = "scan", !.todo = listed, !.begun = {}]
    /\ Watches /\ Ghosts /\ UNCHANGED recorded

\* The first read of the next listed pid.
read_info ==
    /\ Is("scan") /\ sweeper.todo # {} /\ sweeper.info = {}
    /\ LET p == CHOOSE q \in sweeper.todo: \A r \in sweeper.todo: q <= r
       IN sweeper' = [sweeper EXCEPT !.info = {[pid |-> p, read |-> [start |-> table[p].start,
                                                                     parent |-> table[p].parent]]}]
    /\ Watches /\ Ghosts /\ UNCHANGED recorded

\* The second read files the process under what it showed.
observe ==
    /\ Is("scan") /\ \E i \in sweeper.info, denied \in BOOLEAN:
          LET shown == ObservedBy(i.pid, i.read, denied)
              identity == [pid |-> i.pid, start |-> i.read.start]
              target == shown = "marked" /\ i.pid \notin protected
          IN sweeper' = [sweeper EXCEPT !.info = {}, !.todo = @ \ {i.pid},
                            !.targets = IF target THEN @ \cup {identity} ELSE @,
                            !.suspects = IF shown = "suspect" THEN @ \cup {identity} ELSE @,
                            !.unsettled = @ \/ shown = "vanished",
                            !.hits = @ \/ (shown = "marked" /\ i.pid \in protected)]
    /\ Watches /\ Ghosts /\ UNCHANGED recorded

\* Mutated form: one settled empty scan is enough.
OneEmptyScan(empties, settled) == settled >= 1 \/ empties >= BusyScans

\* Two settled empty scans a poll apart, or a long run of empty ones.
confirmed_empty(empties, settled) == settled >= 2 \/ empties >= BusyScans

\* Marker found in a protected process: never a completed cleanup.
Completes == [sweeper EXCEPT !.at = IF sweeper.hits THEN "incomplete" ELSE "completed"]

\* The scan is over: finish, signal the targets, rescan, or go to the next stage.
scan_ends ==
    /\ Is("scan") /\ sweeper.todo = {}
    /\ LET empty == sweeper.targets = {} /\ sweeper.suspects = {}
           empties == IF empty THEN sweeper.empties + 1 ELSE 0
           settled == IF empty /\ ~sweeper.unsettled THEN sweeper.settled + 1 ELSE 0
           counted == [sweeper EXCEPT !.empties = empties, !.settled = settled]
           Signals(stage, sent) == [counted EXCEPT !.at = "signal", !.stage = stage, !.sent = sent]
       IN /\ replaced' = IF ~empty THEN 0 ELSE IF exited THEN replaced + 1 ELSE replaced
          /\ \/ confirmed_empty(empties, settled) /\ sweeper' = Completes
             \/ ~confirmed_empty(empties, settled) /\ sweeper' =
                   CASE sweeper.stage = "first" -> Signals("term", {})
                     [] sweeper.stage = "term" -> Signals("term", sweeper.sent)
                     [] OTHER -> [counted EXCEPT !.at = "list"]
             \/ \* the grace is over
                ~confirmed_empty(empties, settled) /\ sweeper.stage # "first" /\ sweeper' =
                   IF sweeper.stage = "term" THEN Signals("kill", {})
                   ELSE IF sweeper.round < Rounds THEN [Signals("term", {}) EXCEPT !.round = sweeper.round + 1]
                   ELSE [counted EXCEPT !.at = "incomplete"]
    /\ Watches /\ UNCHANGED <<recorded, exited, taken, wrong>>

\* The deadline ends the sweep at any scan.
Deadline ==
    /\ Is("scan") /\ sweeper.todo = {} /\ Ends("incomplete")
    /\ Watches /\ Ghosts /\ UNCHANGED recorded

\* pin: the handle is the process that has the pid now.
pin ==
    /\ Is("signal") /\ sweeper.handle = {}
    /\ IF sweeper.targets \subseteq sweeper.sent THEN Ends("list")
       ELSE LET t == CHOOSE i \in sweeper.targets \ sweeper.sent: \A j \in sweeper.targets \ sweeper.sent: i.pid <= j.pid
            IN sweeper' = [sweeper EXCEPT !.sent = @ \cup {t}, !.ok = FALSE,
                              !.handle = IF Alive(t.pid) THEN {[target |-> t, pinned |-> Identity(t.pid)]} ELSE {}]
    /\ Watches /\ Ghosts /\ UNCHANGED recorded

\* The reread before the signal: identity and marker must still hold.
signal_verified ==
    /\ Is("signal") /\ ~sweeper.ok /\ \E h \in sweeper.handle, denied \in BOOLEAN:
          LET p == h.target.pid
          IN sweeper' = IF Identity(p) = h.target /\ ObservedBy(p, table[p], denied) = "marked"
                        THEN [sweeper EXCEPT !.ok = TRUE] ELSE [sweeper EXCEPT !.handle = {}]
    /\ Watches /\ Ghosts /\ UNCHANGED recorded

\* Mutated form: kill by pid reaches whoever has it.
ByPid(h) == {h.target.pid} \cap {p \in Pids: Alive(p)}

\* pidfd_send_signal reaches the pinned process, if it still lives.
send(h) == {p \in Pids: Alive(p) /\ Identity(p) = h.pinned}

SendSignal ==
    /\ Is("signal") /\ sweeper.ok /\ \E h \in sweeper.handle:
          wrong' = (wrong \/ \E p \in send(h): ~table[p].run /\ ~table[p].astray)
    /\ sweeper' = [sweeper EXCEPT !.handle = {}, !.ok = FALSE]
    /\ Watches /\ UNCHANGED <<recorded, exited, replaced, taken>>

SweepNext ==
    \/ \E q \in Pids: Stranger(q) \/ Exit(q) \/ Exec(q) \/ \E p \in Pids: Fork(p, q)
    \/ observe_descendants \/ run_child \/ cleanup_process_group
    \/ lost_group \/ send_group \/ wait_group_gone
    \/ list_begins \/ list_ends \/ read_info \/ observe \/ scan_ends \/ Deadline
    \/ pin \/ signal_verified \/ SendSignal

SweepSpec == SweepInit /\ [][SweepNext]_sweepVars

-----------------------------------------------------------------------------
(* Properties.                                                              *)

SweepTypeOK ==
    /\ \A p \in Pids: table[p].start \in 0 .. MaxStarts /\ table[p].group \in Pids \cup {0}
    /\ starts \in 0 .. MaxStarts /\ \A i \in recorded: i.pid \in Pids
    /\ sweeper.round \in 1 .. Rounds /\ sweeper.empties \in 0 .. BusyScans

\* Whatever exits, forks, execs or takes over a pid between two reads, a signal
\* reaches only processes of the run: no stranger, no protected worker, no
\* homebased process the run started and nothing that one started.  The code
\* leaves two exceptions.  A group signal reaches whoever has the group's id: the
\* worker, after it reaped the child, and the daemon, after its check before
\* killpg, do not notice that another took it over.  And a process may turn
\* homebased after it was adopted or verified, or, with what it starts then,
\* after the tracker recorded it.
SignalsReachTheRun == ~wrong

\* Processes that a sweep can attribute to the run.
Leftovers ==
    {p \in Pids: /\ Alive(p) /\ table[p].run /\ p \notin protected
                 /\ \/ Identity(p) \in sweeper.adopted
                    \/ table[p].marked /\ (table[p].open \/ sweeper.bound)}

\* A completed cleanup left nothing of the run, unless the run's processes
\* exited or turned homebased, after they forked another, during every scan of
\* the confirming run, at least two.
CompletedIsClear == Is("completed") /\ Leftovers # {} => replaced >= 2 /\ replaced = sweeper.empties + 1

\* The same with the sweep's own state well formed.
SweepEndsClear == SweepTypeOK /\ CompletedIsClear

=============================================================================

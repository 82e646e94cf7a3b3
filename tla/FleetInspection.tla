-------------------------- MODULE FleetInspection --------------------------
(***************************************************************************)
(* `task show`, `task log`, `task cancel` and the message commands for a   *)
(* task of the fleet.  The caller's daemon asks every machine it knows for *)
(* three records - the execution row, the origin's route and the           *)
(* executor's identity - each with a request of its own that may fail, and *)
(* answers from what came back.  The task moves on all the while: its      *)
(* origin releases it, its executor accepts or refuses it and runs it, and *)
(* the origin learns of that later.                                        *)
(*                                                                         *)
(* The task runs on another machine than its origin, and lives as in       *)
(* RemoteTask, reduced to the three                                        *)
(* records.  Its id is known only once its route is saved, and a route or  *)
(* an identity is never removed.                                           *)
(***************************************************************************)
EXTENDS Naturals, FiniteSets

CONSTANTS
  Queries    \* the commands that are asked

ASSUME InspectionAssumption == Queries \subseteq {"show", "log", "worker", "thread", "cancel"}

VARIABLES
  reader,    \* the machine of the caller
  listed,    \* the peers its fleet directory knows
  holdable,  \* the task was submitted with `after` or `wait_for_machine`
  submission, \* submission state of the origin's route
  identity,  \* the executor's identity of the task
  taskRow,   \* the executor's task row
  learned,   \* last_execution_state of the route
  ask,       \* the command: what it asked, its next step, its answer
  reads,     \* requests to peers under way
  collected  \* what it has collected

inspectVars == <<reader, listed, holdable, submission, identity, taskRow, learned, ask, reads, collected>>
taskVars == <<submission, identity, taskRow, learned>>
worldVars == <<reader, listed, holdable>>

Holders == {"origin", "executor", "peer"}
Submissions == {"waiting", "launching", "unknown", "accepted", "rejected", "held_cancelled"}
\* An accepted identity keeps the process state of its task
IdentitySummary == {"live", "over", "rejected"}
Accepted == {"live", "over"}
RowStates == {"none", "live", "over"}
ReadKinds == {"execution", "route", "identity"}

\* Records: by machine, what it reported; unchecked machines failed a request
Nothing == [execution |-> [m \in Holders |-> "none"], route |-> [m \in Holders |-> "none"],
            identity |-> [m \in Holders |-> "none"], learned |-> "none", unchecked |-> {}]

InspectInit ==
  /\ reader \in Holders
  /\ listed \in SUBSET (Holders \ {reader})
  /\ holdable \in BOOLEAN
  /\ submission = IF holdable THEN "waiting" ELSE "unknown"
  /\ identity = "none" /\ taskRow = "none" /\ learned = "none"
  /\ ask = [what |-> "none", at |-> "idle", answer |-> "none", status |-> "none", before |-> "none"]
  /\ reads = {} /\ collected = Nothing

-----------------------------------------------------------------------------
(* The task *)

Release == /\ submission = "waiting" /\ submission' = "launching"
           /\ UNCHANGED <<identity, taskRow, learned>>
CancelHeld == /\ submission = "waiting" /\ submission' = "held_cancelled"
              /\ UNCHANGED <<identity, taskRow, learned>>

\* The executor decides once; acceptance saves the identity and the row together
Decide(verdict) ==
  /\ submission \in {"launching", "unknown"} /\ identity = "none"
  /\ identity' = verdict
  /\ taskRow' = IF verdict = "live" THEN "live" ELSE "none"
  /\ UNCHANGED <<submission, learned>>

\* The answer, or for an acceptance an event, reaches the origin
Learn ==
  /\ identity # "none"
  /\ submission' = IF identity = "rejected" THEN "rejected" ELSE "accepted"
  /\ learned' = taskRow
  /\ <<submission, learned>> # <<submission', learned'>>
  /\ UNCHANGED <<identity, taskRow>>

\* The row and the identity's state end in one commit
RowEnds == /\ taskRow = "live" /\ taskRow' = "over" /\ identity' = "over"
           /\ UNCHANGED <<submission, learned>>

TaskStep ==
  /\ Release \/ CancelHeld \/ Learn \/ RowEnds \/ \E verdict \in {"live", "rejected"} : Decide(verdict)
  /\ UNCHANGED <<worldVars, ask, reads, collected>>

-----------------------------------------------------------------------------
(* Answers *)

Answer(kind, status) == ask' = [ask EXCEPT !.at = "end", !.answer = kind, !.status = status]
Then(step) == ask' = [ask EXCEPT !.at = step]

Routes == {m \in Holders : collected.route[m] # "none"}
Executions == {m \in Holders : collected.execution[m] # "none"}
Identified == {m \in Holders : collected.identity[m] # "none"}
KnownRoute == collected.route[CHOOSE m \in Routes : TRUE]

\* Records of one task contradict each other.  Every route names the task's
\* origin and its executor
check_conflicts ==
  \/ \E m, n \in Routes : collected.route[m] # collected.route[n]
  \/ Cardinality(Executions) > 1
  \/ \E m \in Executions : Routes # {} /\ (m # "executor" \/ KnownRoute = "rejected")
  \/ \E m \in Identified :
       \/ m # "executor"
       \/ Routes # {} /\ KnownRoute = "rejected" /\ collected.identity[m] \in Accepted
       \/ Routes # {} /\ KnownRoute = "accepted" /\ collected.identity[m] = "rejected"
       \/ \E n \in Executions : n # "executor"
       \/ collected.identity[m] = "rejected" /\ m \in Executions
  \/ Cardinality(Identified) > 1

\* No record at all: a negative answer needs every machine's
absent == Answer(IF collected.unchecked = {} THEN "not_found" ELSE "incomplete", "none")

\* The process state a route vouches for
cached_process_status == IF KnownRoute = "accepted" THEN collected.learned ELSE "none"

\* What show prints of a route without its executor
CachedStatus ==
  CASE KnownRoute \in {"waiting", "launching"} -> "held"
    [] KnownRoute \in {"held_cancelled", "rejected"} -> "over"
    [] OTHER -> cached_process_status

cached_route == Answer("cached", CachedStatus)

\* An identity without its row: the executor's word alone, with the state it saved
compact_identity(m) ==
  Answer("compact", IF collected.identity[m] = "rejected" THEN "over" ELSE collected.identity[m])

execution_missing ==
  CASE Identified # {} ->
         Answer(IF \E m \in Identified : collected.identity[m] = "rejected" THEN "not_started" ELSE "unavailable", "none")
    [] Identified = {} /\ Routes # {} ->
         Answer(IF KnownRoute \in {"rejected", "waiting", "launching", "held_cancelled"}
                THEN "not_started" ELSE "unavailable", KnownRoute)
    [] OTHER -> absent

\* Why the worker of a task that never launched takes no message
unlaunched_worker_blocker ==
  CASE KnownRoute \in {"waiting", "launching"} -> "no_thread"
    [] KnownRoute = "held_cancelled" \/ (KnownRoute = "rejected" /\ holdable) -> "terminal"
    [] OTHER -> "none"

\* A worker is addressed only while it runs
worker_route(status) == IF status = "over" THEN Answer("terminal", "over") ELSE Answer("worker", status)

-----------------------------------------------------------------------------
(* The command *)

Begin(q) ==
  /\ ask.at = "idle"
  /\ ask' = [ask EXCEPT !.what = q, !.before = taskRow,
                        !.at = CASE q = "show" -> "unlaunched"
                                 [] q \in {"log", "worker", "cancel"} -> "local"
                                 [] OTHER -> "own"]
  /\ UNCHANGED <<taskVars, worldVars, reads, collected>>

IsUnlaunched == reader = "origin" /\ holdable /\ submission \in {"waiting", "launching", "held_cancelled", "rejected"}

\* show looks at the routes it holds first; a message does so after its own rows
unlaunched_detail ==
  /\ ask.at = "unlaunched"
  /\ IF IsUnlaunched
     THEN IF ask.what = "show"
          THEN Answer("detail", IF submission \in {"waiting", "launching"} THEN "held" ELSE "over")
          ELSE IF submission \in {"waiting", "launching"} THEN Answer("no_thread", "none") ELSE Answer("terminal", "over")
     ELSE Then(IF ask.what = "show" THEN "local" ELSE "own")
  /\ UNCHANGED <<taskVars, worldVars, reads, collected>>

\* GetTask: this machine is the executor and has the row.  A cancel asks the
\* fleet for the owner with the row too (check_local_cancellation_owner): the
\* executor has the identity and no route of a task from another machine
local_detail ==
  /\ ask.at = "local"
  /\ IF reader = "executor" /\ taskRow # "none" /\ ask.what # "cancel"
     THEN IF ask.what = "worker" THEN worker_route(taskRow) ELSE Answer("detail", taskRow)
     ELSE Then(IF ask.what = "worker" THEN "unlaunched" ELSE "own")
  /\ UNCHANGED <<taskVars, worldVars, reads, collected>>

Asks(ms) == ms \X ReadKinds

\* lookup: this machine's own route and identity, then every listed peer at once
lookup ==
  /\ ask.at = "own"
  /\ collected' = [Nothing EXCEPT
       !.route["origin"] = IF reader = "origin" THEN submission ELSE "none",
       !.learned = IF reader = "origin" THEN learned ELSE "none",
       !.identity["executor"] = IF reader = "executor" THEN identity ELSE "none"]
  /\ reads' = Asks(listed)
  /\ Then("peers")
  /\ UNCHANGED <<taskVars, worldVars>>

\* What machine m reports of the task now
execution_of(m) == IF m = "executor" THEN taskRow ELSE "none"
origin_summary(m) == IF m = "origin" THEN submission ELSE "none"
identity_summary(m) == IF m = "executor" THEN identity ELSE "none"

\* Mutated form: a request that fails is taken for an empty answer
FailsSilently(m) == collected' = collected

\* A peer that does not answer, or answers what cannot be read, is unchecked
Unchecks(m) == collected' = [collected EXCEPT !.unchecked = @ \cup {m}]

read_peer(m, k) ==
  /\ ask.at \in {"peers", "targets"} /\ <<m, k>> \in reads
  /\ reads' = reads \ {<<m, k>>}
  /\ \/ Unchecks(m)
     \/ collected' = CASE k = "execution" -> [collected EXCEPT !.execution[m] = execution_of(m)]
                     [] k = "route" -> [collected EXCEPT !.route[m] = origin_summary(m),
                                                                    !.learned = IF m = "origin" THEN learned ELSE @]
                     [] k = "identity" -> [collected EXCEPT !.identity[m] = identity_summary(m)]
  /\ UNCHANGED <<taskVars, worldVars, ask>>

\* A route may name an executor that discovery has not listed: it is asked
\* too, at the addresses the origin knows
AskTargets ==
  /\ ask.at = "peers" /\ reads = {}
  /\ reads' = Asks({m \in {"executor"} : Routes # {} /\ m # reader /\ m \notin listed})
  /\ Then("targets")
  /\ UNCHANGED <<taskVars, worldVars, collected>>

\* Every route of a task that is neither refused nor held has a cancellation owner
CancelRoute ==
  CASE KnownRoute \in {"rejected", "held_cancelled"} -> Answer("not_started", KnownRoute)
    [] KnownRoute = "waiting" -> Answer("held_on_origin", "none")
    [] OTHER -> IF collected.unchecked \ {"origin", "executor"} = {}
                THEN Answer("target", "none") ELSE Answer("incomplete", "none")

cancellation_owner ==
  CASE Routes # {} -> CancelRoute
    [] Routes = {} /\ Identified # {} ->
         Answer(IF "origin" \in collected.unchecked THEN "incomplete" ELSE "conflict", "none")
    [] Routes = {} /\ Identified = {} /\ Executions # {} -> Answer("incomplete", "none")
    [] OTHER -> absent

\* The origin and its thread, for a message to whoever submitted the task
message_origin_route ==
  CASE Routes # {} -> Answer("thread", "none")
    [] Routes = {} /\ collected.unchecked # {} -> Answer("incomplete", "none")
    [] Routes = {} /\ collected.unchecked = {} /\ Executions \cup Identified # {} -> Answer("no_route", "none")
    [] OTHER -> Answer("not_found", "none")

\* show prefers the executor's detail, then its identity, then the route
show_task ==
  CASE Executions # {} -> Then("detail")
    [] Executions = {} /\ Identified # {} -> compact_identity("executor")
    [] Executions = {} /\ Identified = {} /\ Routes # {} -> cached_route
    [] OTHER -> absent

\* The log and the worker's thread come from the executor only
log == IF Executions # {} THEN Then("detail") ELSE execution_missing

message_worker_route ==
  IF Executions = {} /\ Routes # {} /\ unlaunched_worker_blocker # "none"
  THEN Answer(unlaunched_worker_blocker, IF unlaunched_worker_blocker = "terminal" THEN "over" ELSE "none")
  ELSE log

\* The records are complete: a conflict, or what the command makes of them
Conclude ==
  /\ ask.at = "targets" /\ reads = {}
  /\ IF check_conflicts THEN Answer("conflict", "none")
     ELSE CASE ask.what = "cancel" -> cancellation_owner
            [] ask.what = "thread" -> message_origin_route
            [] ask.what = "show" -> show_task
            [] ask.what = "log" -> log
            [] ask.what = "worker" -> message_worker_route
  /\ UNCHANGED <<taskVars, worldVars, reads, collected>>

\* The detail or the log is read from the execution owner in another request
remote_read ==
  /\ ask.at = "detail"
  /\ \/ IF ask.what = "worker" THEN worker_route(taskRow) ELSE Answer("detail", taskRow)
     \/ IF ask.what = "show" /\ Routes # {} THEN cached_route ELSE Answer("unavailable", "none")
  /\ UNCHANGED <<taskVars, worldVars, reads, collected>>

InspectNext ==
  \/ TaskStep
  \/ \E q \in Queries : Begin(q)
  \/ unlaunched_detail \/ local_detail \/ lookup
  \/ \E m \in Holders, k \in ReadKinds : read_peer(m, k)
  \/ AskTargets \/ Conclude \/ remote_read

InspectSpec == InspectInit /\ [][InspectNext]_inspectVars

-----------------------------------------------------------------------------
(* Properties *)

\* Types.
InspectTypeOK ==
  /\ reader \in Holders /\ listed \subseteq Holders \ {reader}
  /\ submission \in Submissions /\ identity \in IdentitySummary \cup {"none"}
  /\ taskRow \in RowStates /\ learned \in RowStates
  /\ reads \subseteq Holders \X ReadKinds
  /\ collected.unchecked \subseteq Holders

\* The records are read at different moments, yet no lookup calls a sound
\* task a conflict: every pair of records it can collect agrees
\* (Records::check_conflicts).  Only `task cancel` does so, of a task whose
\* origin the caller does not know: it takes that origin for checked, even on
\* the executor that runs the task (check_local_cancellation_owner).
NoFalseConflict ==
  ask.answer = "conflict" => ask.what = "cancel" /\ "origin" \notin listed \cup {reader}

\* README: "the daemon only returns task_not_found after every machine in the
\* current known Fleet gives a definitive negative result".  The task exists,
\* so such an answer means that its origin is no machine the caller knows, and
\* neither was an executor that had accepted it.
NotFoundIsTrue ==
  ask.answer = "not_found" =>
    /\ "origin" \notin listed \cup {reader}
    /\ "executor" \in listed \cup {reader} => ask.before = "none"

\* An answer that the task is over is true: its row has ended, or it never
\* ran and never will.  "Not started" is true when the command began, except
\* of a held task whose launch is under way with its executor out of reach.
EndedIsTrue ==
  /\ ask.status = "over" => taskRow = "over" \/ identity = "rejected" \/ submission = "held_cancelled"
  /\ ask.answer = "not_started" /\ ask.status # "launching" => ask.before = "none" /\ (ask.what = "cancel" => taskRow = "none")

\* What a caller is told of a task in the fleet is true.
InspectionIsTrue == InspectTypeOK /\ NoFalseConflict /\ NotFoundIsTrue /\ EndedIsTrue

=============================================================================

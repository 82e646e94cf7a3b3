----------------------------- MODULE DaemonLife -----------------------------
(***************************************************************************)
(* The life of `homebased daemon serve` for one home, and the commands     *)
(* that install, restart, stop, uninstall and update it.                   *)
(*                                                                         *)
(* A daemon owns its home through two files: it takes daemon.lock, which   *)
(* the kernel frees when the process ends, and binds the socket, which a   *)
(* crash leaves behind.  Commands never see the lock.  They look at the    *)
(* host unit, the socket file, the answer of GET /v1/status and the store, *)
(* each at another moment, while a host supervisor restarts what fails     *)
(* and while other commands run.  The unit is systemd's.                   *)
(***************************************************************************)
EXTENDS Integers, FiniteSets

CONSTANTS
  Daemons,     \* process slots of serve: 1..n
  Commands,    \* commands that may run at the same time
  Works,       \* tasks that may be submitted
  MaxCrashes,  \* bound: daemon deaths
  Kinds        \* the commands that are run

ASSUME DaemonAssumption ==
  /\ Daemons \in SUBSET (Nat \ {0}) /\ IsFiniteSet(Daemons)
  /\ MaxCrashes \in Nat
  /\ Kinds \subseteq {"install", "stop", "uninstall", "restart", "update"}

VARIABLES
  daemon,   \* the serve processes: where each is and whether it failed
  lock,     \* the daemon that holds daemon.lock
  sock,     \* the daemon that bound the socket file, None without a file
  unit,     \* whose home the installed host unit names
  job,      \* the process the host supervisor runs for the unit
  work,     \* the task rows
  command,  \* the commands
  crashes

daemonVars == <<daemon, lock, sock, unit, job, work, command, crashes>>

None == 0
Other == -1    \* the other home's daemon, run by the same host unit

DaemonSteps == {"free", "lock", "clear", "bind", "start", "serve", "drain", "close", "gone"}
HostUnitState == {"absent", "mine", "other"}
CommandSteps ==
  {"ready", "fetch", "look", "ask", "check", "wait", "route", "halt", "absent", "remove", "spawn", "up", "end"}

Unborn == [at |-> "free", failed |-> FALSE]
NoCommand == [at |-> "ready", kind |-> "stop", yes |-> FALSE, saw |-> "absent", peer |-> None,
              held |-> {}, spawned |-> FALSE, gone |-> FALSE, result |-> "none"]

DaemonInit ==
  /\ daemon = [d \in Daemons |-> Unborn]
  /\ lock = None /\ sock = None
  /\ unit \in HostUnitState /\ job = None    \* the host has just booted
  /\ work = [w \in Works |-> "none"]
  /\ command = [c \in Commands |-> NoCommand]
  /\ crashes = 0

-----------------------------------------------------------------------------
(* serve *)

\* The process exists
Lives(d) == daemon[d].at \notin {"free", "gone"}
Serves(d) == d \in Daemons /\ daemon[d].at = "serve"

\* The next process slot; slots are used in order
Slot == CHOOSE d \in Daemons : daemon[d].at = "free" /\ \A e \in Daemons : e < d => daemon[e].at # "free"
HasSlot == \E d \in Daemons : daemon[d].at = "free"

\* `daemon serve` is executed from the installed binary
Execs == daemon' = [daemon EXCEPT ![Slot].at = "lock"]

Moves(d, from, to) == daemon[d].at = from /\ daemon' = [daemon EXCEPT ![d].at = to]

\* serve returns with an error, or the process dies: the kernel frees its lock
Dies(d) ==
  /\ daemon' = [daemon EXCEPT ![d].at = "gone", ![d].failed = TRUE]
  /\ lock' = IF lock = d THEN None ELSE lock

\* A user starts serve by hand
ServeByHand ==
  /\ HasSlot
  /\ Execs
  /\ UNCHANGED <<lock, sock, unit, job, work, command, crashes>>

\* acquire_daemon_lock: taken without waiting, or DAEMON_ALREADY_RUNNING
acquire_daemon_lock(d) ==
  /\ daemon[d].at = "lock"
  /\ IF lock = None
     THEN Moves(d, "lock", "clear") /\ lock' = d
     ELSE Dies(d)
  /\ UNCHANGED <<sock, unit, job, work, command, crashes>>

\* The socket of an earlier daemon is removed, whoever left it
ClearSocket(d) ==
  /\ Moves(d, "clear", "bind")
  /\ sock' = None
  /\ UNCHANGED <<lock, unit, job, work, command, crashes>>

\* bind fails on a socket file that is there
BindSocket(d) ==
  /\ daemon[d].at = "bind"
  /\ IF sock = None
     THEN Moves(d, "bind", "start") /\ sock' = d /\ UNCHANGED lock
     ELSE Dies(d) /\ UNCHANGED sock
  /\ UNCHANGED <<unit, job, work, command, crashes>>

\* The actors run, the signal handler is set and the socket is accepted on
Listen(d) ==
  /\ Moves(d, "start", "serve")
  /\ UNCHANGED <<lock, sock, unit, job, work, command, crashes>>

\* What SIGTERM does to a process: before the handler is set it just ends
Terminated(d) ==
  /\ daemon' = CASE daemon[d].at = "serve" -> [daemon EXCEPT ![d].at = "drain"]
                 [] daemon[d].at \in {"lock", "clear", "bind", "start"} ->
                      [daemon EXCEPT ![d].at = "gone"]
                 [] OTHER -> daemon
  /\ lock' = IF lock = d /\ daemon[d].at \in {"clear", "bind", "start"} THEN None ELSE lock

\* The supervisor actor ends on its own: serve stops and fails
SupervisorDies(d) ==
  /\ crashes < MaxCrashes /\ crashes' = crashes + 1
  /\ daemon[d].at = "serve"
  /\ daemon' = [daemon EXCEPT ![d].at = "drain", ![d].failed = TRUE]
  /\ UNCHANGED <<lock, sock, unit, job, work, command>>

\* The listeners and actors have stopped: whatever is at the socket path goes
CloseSocket(d) ==
  /\ Moves(d, "drain", "close")
  /\ sock' = None
  /\ UNCHANGED <<lock, unit, job, work, command, crashes>>

\* serve returns and drops the lock
ReleaseLock(d) ==
  /\ Moves(d, "close", "gone")
  /\ lock' = None
  /\ UNCHANGED <<sock, unit, job, work, command, crashes>>

\* A killed daemon frees the lock and leaves its socket file
DaemonCrashes(d) ==
  /\ crashes < MaxCrashes /\ crashes' = crashes + 1
  /\ Lives(d)
  /\ Dies(d)
  /\ UNCHANGED <<sock, unit, job, work, command>>

\* Restart=on-failure in the unit
UnitRestarts ==
  /\ unit = "mine" /\ HasSlot
  /\ job \in Daemons /\ daemon[job].at = "gone" /\ daemon[job].failed
  /\ Execs /\ job' = Slot
  /\ UNCHANGED <<lock, sock, unit, work, command, crashes>>

\* Another home's `daemon install` takes the unit file over; a service that
\* already runs stays as it is
OtherInstalls ==
  /\ unit' = "other"
  /\ job' = IF job \in Daemons /\ Lives(job) THEN job ELSE Other
  /\ UNCHANGED <<daemon, lock, sock, work, command, crashes>>

-----------------------------------------------------------------------------
(* Tasks: only what the commands look at *)

WorkSteps == {"none", "run", "stop", "ended", "sending", "waiting", "told", "failed", "elsewhere"}

in_flight == {w \in Works : work[w] \in {"run", "stop"}}

\* Callbacks that are pending or being sent.  One that waits for its thread, one
\* that failed and one that another machine owes are not among them
PendingCallbacks == {w \in Works : work[w] \in {"ended", "sending"}}

SubmitWork(w) ==
  /\ work[w] = "none"
  /\ \E d \in Daemons : Serves(d)
  /\ work' = [work EXCEPT ![w] = "run"]
  /\ UNCHANGED <<daemon, lock, sock, unit, job, command, crashes>>

\* The worker records the end of its run, with or without a daemon; the origin
\* of the task owes the callback
WorkEnds(w) ==
  /\ w \in in_flight
  /\ \E owed \in {"ended", "elsewhere"} : work' = [work EXCEPT ![w] = owed]
  /\ UNCHANGED <<daemon, lock, sock, unit, job, command, crashes>>

\* A daemon delivers the terminal callback, gives it up, or puts it off until its
\* thread can take it, and then sends it again
CallbackSettles(w) ==
  /\ \E d \in Daemons : Serves(d)
  /\ \/ w \in PendingCallbacks /\ \E to \in {"told", "failed", "waiting"} : work' = [work EXCEPT ![w] = to]
     \/ work[w] = "waiting" /\ work' = [work EXCEPT ![w] = "sending"]
  /\ UNCHANGED <<daemon, lock, sock, unit, job, command, crashes>>

-----------------------------------------------------------------------------
(* Commands.  `at` is the next thing the command does. *)

Its(c) == command[c]
Set(c, r) == command' = [command EXCEPT ![c] = r]
Goes(c, to) == Set(c, [Its(c) EXCEPT !.at = to])
Finishes(c, how) == Set(c, [Its(c) EXCEPT !.at = "end", !.result = how, !.saw = "absent", !.yes = FALSE])

BeginCommand(c, k, yes) ==
  /\ Its(c).at = "ready"
  /\ yes => k \in {"stop", "uninstall"}
  /\ Set(c, [NoCommand EXCEPT !.at = IF k \in {"install", "update"} THEN "fetch" ELSE "look",
                              !.kind = k, !.yes = yes])
  /\ UNCHANGED <<daemon, lock, sock, unit, job, work, crashes>>

\* `daemon install` writes the unit over whatever is there, verifies it, and
\* enables it; a verification that fails leaves the written file
install(c) ==
  /\ Its(c).at = "fetch" /\ Its(c).kind = "install"
  /\ unit' = "mine"
  /\ \/ Finishes(c, "failed") /\ UNCHANGED <<daemon, job>>
     \/ /\ Finishes(c, "done")
        /\ IF job = Other \/ (job \in Daemons /\ Lives(job))
           THEN UNCHANGED <<daemon, job>>
           ELSE HasSlot /\ Execs /\ job' = Slot
  /\ UNCHANGED <<lock, sock, work, crashes>>

\* The release is downloaded, staged beside the binary and renamed over it.
\* The file this command itself runs from is then a deleted one, unless --to
\* named another directory
replace_binary(c) ==
  /\ Its(c).at = "fetch" /\ Its(c).kind = "update"
  /\ \/ Finishes(c, "failed")
     \/ \E inPlace \in BOOLEAN : Set(c, [Its(c) EXCEPT !.at = "look", !.gone = inPlace])
  /\ UNCHANGED <<daemon, lock, sock, unit, job, work, crashes>>

\* uninstall refuses another home's unit before it stops anything
UninstallRefuses(c) == Its(c).kind = "uninstall" /\ unit = "other"

\* inspect_host_unit: the first look at the unit
inspect_host_unit(c) ==
  /\ Its(c).at = "look"
  /\ IF UninstallRefuses(c)
     THEN Finishes(c, "refused")
     ELSE Set(c, [Its(c) EXCEPT !.at = IF Its(c).kind \in {"stop", "uninstall"} THEN "ask" ELSE "route",
                                !.saw = unit])
  /\ UNCHANGED <<daemon, lock, sock, unit, job, work, crashes>>

\* The daemon that answers GET /v1/status, with its process id
Answering == IF Serves(sock) THEN sock ELSE None

\* Standalone restart signals the daemon that answered; stop first looks at the tasks
AskStatus(c) ==
  /\ Its(c).at = "ask"
  /\ LET peer == Answering
         next == IF Its(c).kind \in {"stop", "uninstall"} THEN "check"
                 ELSE IF peer = None THEN "spawn"
                 ELSE "absent"
     IN  /\ Set(c, [Its(c) EXCEPT !.at = next, !.peer = peer])
         /\ IF next = "absent"
            THEN Terminated(peer)
            ELSE UNCHANGED <<daemon, lock>>
  /\ UNCHANGED <<sock, unit, job, work, crashes>>

\* Tasks in flight refuse the stop, or with --yes are all cancelled: through
\* the socket when it answered, else in the store and by signalling the workers
ensure_idle_or_cancel(c) ==
  /\ Its(c).at = "check"
  /\ IF in_flight = {}
     THEN Goes(c, "route") /\ UNCHANGED work
     ELSE IF ~Its(c).yes
     THEN Finishes(c, "refused") /\ UNCHANGED work
     ELSE /\ Set(c, [Its(c) EXCEPT !.at = "wait", !.held = in_flight])
          /\ work' = IF Its(c).peer = None \/ Answering # None
                     THEN [w \in Works |-> IF w \in in_flight THEN "stop" ELSE work[w]]
                     ELSE work
  /\ UNCHANGED <<daemon, lock, sock, unit, job, crashes>>

\* What the wait of stop --yes still waits for
Busy(c) == in_flight # {} \/ (Its(c).peer # None /\ PendingCallbacks # {})

\* The wait ends when nothing is busy, or after a minute with an error
wait_terminal_and_callback(c) ==
  /\ Its(c).at = "wait"
  /\ IF Busy(c) THEN Finishes(c, "timeout") ELSE Goes(c, "route")
  /\ UNCHANGED <<daemon, lock, sock, unit, job, work, crashes>>

\* How a command reaches the daemon: through the host supervisor only when
\* the unit named this home before and still does
Route(c) == IF Its(c).saw = "mine" /\ unit = "mine" THEN "host" ELSE "standalone"

\* systemctl stop and restart signal the main process of the unit
HostSignals == IF job \in Daemons THEN Terminated(job) ELSE UNCHANGED <<daemon, lock>>

TakeRoute(c) ==
  /\ Its(c).at = "route"
  /\ LET stops == Its(c).kind \in {"stop", "uninstall"}
     IN  IF Route(c) = "host"
         THEN /\ HostSignals
              /\ Set(c, [Its(c) EXCEPT !.at = "halt", !.peer = IF stops THEN @ ELSE IF job = Other THEN None ELSE job])
         ELSE IF stops
         THEN /\ Goes(c, "absent")
              /\ IF Its(c).peer = None THEN UNCHANGED <<daemon, lock>> ELSE Terminated(Its(c).peer)
         ELSE Goes(c, "ask") /\ UNCHANGED <<daemon, lock>>
  /\ UNCHANGED <<sock, unit, job, work, crashes>>

\* systemctl returns once the main process has ended; restart then starts the
\* unit again, stop leaves it down
HostHalts(c) ==
  /\ Its(c).at = "halt"
  /\ job \in Daemons => ~Lives(job)
  /\ IF Its(c).kind \in {"stop", "uninstall"}
     THEN Goes(c, "absent") /\ job' = None /\ UNCHANGED daemon
     ELSE /\ HasSlot /\ Execs /\ job' = Slot
          /\ Set(c, [Its(c) EXCEPT !.at = "up", !.spawned = TRUE])
  /\ UNCHANGED <<lock, sock, unit, work, crashes>>

\* Mutated form: the file is not waited for
NeverWaits(c) == TRUE

SocketGone(c) == sock = None

\* wait_socket_gone: 15 seconds for the socket file to disappear
wait_socket_gone(c) ==
  /\ Its(c).at = "absent"
  /\ IF SocketGone(c)
     THEN CASE Its(c).kind = "stop" -> Finishes(c, "done")
            [] Its(c).kind = "uninstall" -> Goes(c, "remove")
            [] OTHER -> Goes(c, "spawn")
     ELSE Finishes(c, "timeout")
  /\ UNCHANGED <<daemon, lock, sock, unit, job, work, crashes>>

\* install::uninstall looks at the unit once more, then disables and removes it
uninstall(c) ==
  /\ Its(c).at = "remove"
  /\ IF unit = "other"
     THEN Finishes(c, "refused") /\ UNCHANGED <<daemon, lock, unit, job>>
     ELSE /\ Finishes(c, "done")
          /\ unit' = "absent"
          /\ IF unit = "mine" THEN HostSignals /\ job' = None ELSE UNCHANGED <<daemon, lock, job>>
  /\ UNCHANGED <<sock, work, crashes>>

\* Standalone restart spawns serve from its own executable.  After an update
\* replaced that file its path names a deleted one and the spawn fails
SpawnServe(c) ==
  /\ Its(c).at = "spawn"
  /\ IF Its(c).gone
     THEN Finishes(c, "failed") /\ UNCHANGED daemon
     ELSE HasSlot /\ Execs /\ Set(c, [Its(c) EXCEPT !.at = "up", !.spawned = TRUE])
  /\ UNCHANGED <<lock, sock, unit, job, work, crashes>>

\* wait_socket_up: any socket file will do
wait_socket_up(c) ==
  /\ Its(c).at = "up"
  /\ Finishes(c, IF sock # None THEN "done" ELSE "timeout")
  /\ UNCHANGED <<daemon, lock, sock, unit, job, work, crashes>>

-----------------------------------------------------------------------------
ServeStep(d) ==
  \/ acquire_daemon_lock(d) \/ ClearSocket(d)
  \/ BindSocket(d) \/ Listen(d) \/ CloseSocket(d) \/ ReleaseLock(d)

CommandStep(c) ==
  \/ install(c) \/ replace_binary(c) \/ inspect_host_unit(c) \/ AskStatus(c)
  \/ ensure_idle_or_cancel(c) \/ wait_terminal_and_callback(c) \/ TakeRoute(c)
  \/ HostHalts(c) \/ wait_socket_gone(c) \/ uninstall(c) \/ SpawnServe(c) \/ wait_socket_up(c)

DaemonNext ==
  \/ ServeByHand \/ UnitRestarts \/ OtherInstalls
  \/ \E d \in Daemons : ServeStep(d) \/ SupervisorDies(d) \/ DaemonCrashes(d)
  \/ \E w \in Works : SubmitWork(w) \/ WorkEnds(w) \/ CallbackSettles(w)
  \/ \E c \in Commands : CommandStep(c) \/ \E k \in Kinds, yes \in BOOLEAN : BeginCommand(c, k, yes)

DaemonSpec == DaemonInit /\ [][DaemonNext]_daemonVars

-----------------------------------------------------------------------------
(* Properties *)

\* Types.
DaemonTypeOK ==
  /\ daemon \in [Daemons -> [at : DaemonSteps, failed : BOOLEAN]]
  /\ {lock, sock} \subseteq Daemons \cup {None}
  /\ unit \in HostUnitState /\ job \in Daemons \cup {None, Other}
  /\ work \in [Works -> WorkSteps]
  /\ \A c \in Commands : Its(c).at \in CommandSteps
  /\ crashes \in 0 .. MaxCrashes

\* A daemon that serves is reachable: the socket file at the path is its own,
\* although every start removes whatever is there and every stop removes it
\* again (serve, daemon.rs:131 and :259).
ServingOwnsSocket == \A d \in Daemons : Serves(d) => sock = d /\ lock = d

\* A stop, uninstall or restart that reports success has ended the daemon it
\* addressed: the one that answered its status call, or the main process of
\* the unit it restarted.
ReportedIsEnded ==
  \A c \in Commands : Its(c).result = "done" /\ Its(c).peer # None => ~Serves(Its(c).peer)

\* A `stop --yes` that found a daemon and succeeded gave that daemon the time to
\* tell the callers: nothing it cancelled still runs, and no callback that this
\* machine owes for it is still to be tried.  Each was delivered, failed, or was
\* put off by its thread; the stop does not wait for those (they are kept for the
\* next daemon), nor for the callback of a task that came from another machine.
Tried == {"told", "failed", "waiting", "sending", "elsewhere"}
StopTriesCallbacks ==
  \A c \in Commands :
    Its(c).result = "done" /\ Its(c).peer # None =>
      \A w \in Its(c).held : work[w] \in Tried

\* README: an update replaces the binary "and restart[s] the daemon".  An
\* update that ended the daemon it found, without running out of time, has
\* started another one.
UpdateRestarts ==
  \A c \in Commands :
    Its(c).kind = "update" /\ Its(c).peer # None /\ Its(c).result \in {"done", "failed"} => Its(c).spawned

\* A daemon that serves can be reached, a command that ends one has ended it, and
\* the callbacks of the tasks it cancelled were tried.
StopIsTrue == DaemonTypeOK /\ ServingOwnsSocket /\ ReportedIsEnded /\ StopTriesCallbacks

=============================================================================

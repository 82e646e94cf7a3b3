---------------------------- MODULE CallbackRoute ----------------------------
(***************************************************************************)
(* One event on its way from the origin's inbox into the origin thread:     *)
(* through T3, the socket of a live Claude session, or `codex queue`.       *)
(*                                                                          *)
(* T3 drops a repeated command, the other routes repeat what they are       *)
(* given.  So a record is saved before T3 is asked, and while it stands     *)
(* only T3 may be tried.  The daemon may crash between any two steps, a     *)
(* reply of T3 may be lost, and the session may stop, start and change      *)
(* hands at any time.                                                       *)
(***************************************************************************)
EXTENDS Naturals

CONSTANT LineKinds   \* which lines are sent: task events, notices, messages

ASSUME LineAssumption == LineKinds \subseteq {"task", "notice", "message"}

VARIABLES
    line,        \* the line's kind
    world,       \* the Claude session, and whether T3's database maps the thread
    idle,        \* how long the session was idle: see IdleClasses
    compaction,  \* what started the compaction that T3 runs in the thread
    compacted,   \* T3 has a compaction command of this idle period
    record,      \* the file t3-pending-<seq>: the provider it names
    hold,        \* its .hold marker, and whether COMPACTION_HOLD_LIMIT passed
    attempt,     \* the attempt that runs
    claimed,     \* the thread was woken less than T3_WAKE_INTERVAL ago
    alerted,     \* the thread is in alerted_threads
    current,     \* the notice's episode is still open
    t3Took,       \* T3 took the line's command
    replied,     \* history: T3's answer that it took the line reached the daemon
    heard,       \* history: the line reached the agent by some route
    settled      \* how the event was settled

routeVars == <<line, world, idle, compaction, compacted, record, hold, attempt, claimed,
               alerted, current, t3Took, replied, heard, settled>>

----------------------------------------------------------------------------
(* The T3 client.  A call meets one condition of T3 and its host.           *)

\* Below 54 minutes, to 55 (QUEUE_MARGIN), to 60 (IDLE_COMPACTION_AFTER), and
\* beyond CACHE_LIFETIME.  A small context behaves like class 0.
IdleClasses == 0 .. 3

\* A registry entry of a live process, a transcript alone, or neither.
ClaudeSessions == {"live", "stopped", "unknown"}

T3Conditions == {"state_unreadable", "server_dead", "descriptor_down", "protocol_old",
                 "cli_missing", "token_failed", "token_changed", "ticket_down",
                 "ticket_denied", "refuses", "fails", "loses_reply", "answers"}

load_runtime(c)     == c # "server_dead"
require_protocol(c) == CASE c = "descriptor_down" -> "unavailable"
                         [] c = "protocol_old"    -> "api_changed"
                         [] OTHER                 -> "ok"
connect(c)          == IF load_runtime(c) THEN require_protocol(c) ELSE "unavailable"
resolve(c)          == IF c = "cli_missing" THEN "unavailable" ELSE "ok"
token_issued(c)      == CASE c = "token_failed"  -> "unavailable"
                         [] c = "token_changed" -> "api_changed"
                         [] OTHER               -> "ok"
issue_ticket(c)     == CASE c = "ticket_down"   -> "unavailable"
                         [] c = "ticket_denied" -> "api_changed"
                         [] OTHER               -> "ok"

\* What the answer to a request that left says: only T3's typed refusal proves
\* that it did not take the message.
dispatch_failure(c) == CASE c = "answers"     -> "woken"
                         [] c = "refuses"     -> "refused"
                         [] c = "fails"       -> "uncertain"
                         [] c = "loses_reply" -> "uncertain"

Sent(c) == c \in {"refuses", "fails", "loses_reply", "answers"}

\* `with_owner`: every step before the request, then the request itself.
with_owner(c) ==
    IF c = "state_unreadable" THEN "unavailable"
    ELSE IF ~world.mapped THEN "not_t3_thread"
    ELSE IF connect(c) # "ok" THEN connect(c)
    ELSE IF resolve(c) # "ok" THEN resolve(c)
    ELSE IF token_issued(c) # "ok" THEN token_issued(c)
    ELSE IF issue_ticket(c) # "ok" THEN issue_ticket(c)
    ELSE dispatch_failure(c)

\* Whether T3 may run the command: it answers so, or its answer says nothing.
Takes(c, took) == /\ world.mapped /\ Sent(c)
                  /\ took \in BOOLEAN
                  /\ c = "answers" => took
                  /\ c = "refuses" => ~took

WakeOutcomes == {"woken", "not_t3_thread", "unavailable", "refused", "uncertain", "api_changed"}

----------------------------------------------------------------------------
NoAttempt == [phase |-> "none", via |-> "none", was |-> FALSE, start |-> "auto", read |-> 0,
              outcome |-> "none", failed_wake |-> FALSE]

RouteTypeOK ==
    /\ line \in LineKinds
    /\ world \in [claude: ClaudeSessions, mapped: BOOLEAN]
    /\ idle \in IdleClasses
    /\ compaction \in {"none", "idle", "callback", "manual"}
    /\ compacted \in BOOLEAN
    /\ record \in {"none", "claude", "codex"}
    /\ hold \in {"none", "held", "expired"}
    /\ attempt \in [phase: {"none", "retry", "lookup", "save", "turn", "dispatch", "reply",
                            "socket", "queue", "settle"},
                    via: {"none", "pending", "t3claude", "stopped", "t3codex"},
                    was: BOOLEAN, start: {"auto", "after_active"}, read: IdleClasses,
                    outcome: WakeOutcomes \cup {"none", "delivered", "retryable", "deferred",
                                                "wake_failed", "suppressed"},
                    failed_wake: BOOLEAN]
    /\ {claimed, alerted, current, t3Took, replied, heard} \subseteq BOOLEAN
    /\ settled \in {"no", "delivered", "suppressed"}

RouteInit ==
    /\ line \in LineKinds
    /\ world \in [claude: ClaudeSessions, mapped: BOOLEAN]
    /\ idle \in IdleClasses
    /\ compaction = "none" /\ compacted = FALSE
    /\ record = "none" /\ hold = "none"
    /\ attempt = NoAttempt
    /\ claimed = FALSE /\ alerted = FALSE /\ current = TRUE
    /\ t3Took = FALSE /\ replied = FALSE /\ heard = FALSE
    /\ settled = "no"

\* What a step of an attempt leaves alone.
Environment == <<line, world, idle, current>>

Go(phase)   == attempt' = [attempt EXCEPT !.phase = phase]
End(o)      == attempt' = [attempt EXCEPT !.phase = "settle", !.outcome = o]

\* The check of a numbered notice at the last moment before a write.
check == line = "notice" => current

----------------------------------------------------------------------------
(* The attempt                                                              *)

\* No connected `homebased wait` took the line; see WaiterHandoff.
run ==
    /\ attempt.phase = "none" /\ settled = "no"
    /\ attempt' = [NoAttempt EXCEPT !.phase = "retry"]
    /\ UNCHANGED <<Environment, compaction, compacted, record, hold, claimed, alerted,
                   t3Took, replied, heard, settled>>

\* A record of an earlier attempt leaves only T3.
retry_pending_t3 ==
    /\ attempt.phase = "retry"
    /\ attempt' = IF record = "none" THEN [attempt EXCEPT !.phase = "lookup"]
                  ELSE [attempt EXCEPT !.phase = "save", !.via = "pending"]
    /\ UNCHANGED <<Environment, compaction, compacted, record, hold, claimed, alerted,
                   t3Took, replied, heard, settled>>

\* `find`: a live registry entry, else a transcript, else no Claude session.
find_saved_origin(owner) ==
    CASE world.claude = "live"    -> IF owner = "yes" THEN "t3claude" ELSE "reachable"
      [] world.claude = "stopped" -> "stopped"
      [] world.claude = "unknown" -> "codex"

\* T3 is tried when its database could not confirm that it does not own a thread.
find_saved_inbox_origin(owner) ==
    IF find_saved_origin(owner) = "codex" /\ owner # "no" THEN "t3codex"
    ELSE find_saved_origin(owner)

\* `owner` reads the database, and needs a server for a thread it maps.
Owner(answer) == answer \in IF world.mapped THEN {"yes", "error"} ELSE {"no", "error"}

\* One wake of a stopped session in T3_WAKE_INTERVAL; a message does not ask.
claim_wake == claimed' = (claimed \/ line # "message")

route(answer) ==
    /\ attempt.phase = "lookup" /\ Owner(answer)
    /\ LET origin == find_saved_inbox_origin(answer) IN
       CASE origin = "reachable" -> Go("socket") /\ UNCHANGED claimed
         [] origin = "codex"     -> Go("queue") /\ UNCHANGED claimed
         [] origin = "stopped" /\ claimed /\ line # "message"
                                 -> End("deferred") /\ UNCHANGED claimed
         [] origin = "stopped" /\ ~(claimed /\ line # "message")
                                 -> /\ claim_wake
                                    /\ attempt' = [attempt EXCEPT !.phase = "save", !.via = origin]
         [] origin \in {"t3claude", "t3codex"}
                                 -> /\ UNCHANGED claimed
                                    /\ attempt' = [attempt EXCEPT !.phase = "save", !.via = origin]
    /\ UNCHANGED <<Environment, compaction, compacted, record, hold, alerted,
                   t3Took, replied, heard, settled>>

\* An unsupported or unreadable registry entry ends the attempt.
lookup_fails ==
    /\ attempt.phase = "lookup" /\ world.claude = "live"
    /\ End("retryable")
    /\ UNCHANGED <<Environment, compaction, compacted, record, hold, claimed, alerted,
                   t3Took, replied, heard, settled>>

Provider == IF attempt.via = "pending" THEN record
            ELSE IF attempt.via = "t3codex" THEN "codex" ELSE "claude"

\* The record is durable before the request leaves.
save_record ==
    /\ attempt.phase = "save"
    /\ record' = Provider
    /\ attempt' = [attempt EXCEPT !.phase = "turn", !.was = (record # "none")]
    /\ UNCHANGED <<Environment, compaction, compacted, hold, claimed, alerted,
                   t3Took, replied, heard, settled>>

\* The save fails, before or after the rename.
save_fails ==
    /\ attempt.phase = "save"
    /\ record' \in {record, Provider}
    /\ End(IF attempt.via = "stopped" THEN "wake_failed" ELSE "retryable")
    /\ UNCHANGED <<Environment, compaction, compacted, hold, claimed, alerted,
                   t3Took, replied, heard, settled>>

cold_compaction_due == idle = 3
idle_compaction_due == idle = 2

turn_start == IF idle >= 1 THEN "after_active" ELSE "auto"

\* The line goes without a compaction of its own.
turn_starts ==
    /\ attempt.phase = "turn"
    /\ \/ Provider = "codex"
       \/ ~cold_compaction_due \/ ~check \/ hold = "expired"
    /\ attempt' = [attempt EXCEPT !.phase = "dispatch", !.read = idle,
                      !.start = IF Provider = "codex" THEN "auto" ELSE turn_start]
    /\ hold' = IF Provider = "claude" /\ ~cold_compaction_due THEN "none" ELSE hold
    /\ UNCHANGED <<Environment, compaction, compacted, record, claimed, alerted,
                   t3Took, replied, heard, settled>>

\* A compaction request: a repeat in one idle period is answered and dropped,
\* and T3 refuses one while another turn runs.
compact_thread(c, took, by) ==
    LET starts == Takes(c, took) /\ took /\ ~compacted /\ compaction = "none"
    IN  /\ compaction' = IF starts THEN by ELSE compaction
        /\ compacted' = (compacted \/ (Takes(c, took) /\ took))

\* A lapsed cache: compact first and hold the line, or send it behind.
compact_first(c, took) ==
    /\ attempt.phase = "turn" /\ Provider = "claude"
    /\ cold_compaction_due /\ check /\ hold # "expired"
    /\ Sent(c) /\ world.mapped => Takes(c, took)
    /\ compact_thread(c, took, "callback")
    /\ LET outcome    == with_owner(c)
           compacting == \/ outcome = "woken"
                         \/ outcome \in {"unavailable", "uncertain", "refused"} /\ hold = "held"
       IN  IF compacting /\ line # "message"
           THEN hold' = "held" /\ End("deferred")
           ELSE /\ UNCHANGED hold
                /\ attempt' = [attempt EXCEPT !.phase = "dispatch", !.read = idle,
                                              !.start = turn_start]
    /\ UNCHANGED <<Environment, record, claimed, alerted, t3Took, replied, heard, settled>>

\* A message that would steer into a compaction is refused.
Steers == attempt.start = "auto" /\ compaction # "none" /\ Provider = "claude"

\* The request leaves, or fails on the way to T3.
start_turn(c, took) ==
    /\ attempt.phase = "dispatch"
    /\ Sent(c) /\ world.mapped => /\ check /\ Takes(c, took)
                                  /\ Steers => c \in {"refuses", "loses_reply"} /\ ~took
    /\ t3Took' = (t3Took \/ (Takes(c, took) /\ took))
    /\ heard' = (heard \/ (Takes(c, took) /\ took))
    /\ attempt' = [attempt EXCEPT !.phase = "reply", !.outcome = with_owner(c)]
    /\ UNCHANGED <<Environment, compaction, compacted, record, hold, claimed, alerted,
                   replied, settled>>

\* The check before the write stops the attempt: the notice ended, or the
\* authority could not be asked.
CheckStops(o) == \/ o = "suppressed" /\ ~check
                 \/ o = "retryable" /\ line = "notice"

stop_wake(o) ==
    /\ attempt.phase = "dispatch" /\ world.mapped /\ CheckStops(o)
    /\ IF attempt.was THEN UNCHANGED <<record, hold>> ELSE record' = "none" /\ hold' = "none"
    /\ End(IF o = "retryable" /\ attempt.via = "stopped" THEN "wake_failed" ELSE o)
    /\ UNCHANGED <<Environment, compaction, compacted, claimed, alerted,
                   t3Took, replied, heard, settled>>

\* Mutated form: an uncertain outcome clears the record too
ClearsUnlessPending == attempt.outcome = "woken" \/ ~attempt.was

\* The record goes with success, or when this attempt wrote it and T3 surely
\* did not take the line.
Clears == \/ attempt.outcome = "woken"
          \/ ~attempt.was /\ attempt.outcome # "uncertain"

Settles(o) == [attempt EXCEPT !.phase = "settle", !.outcome = o]

\* Only T3 may be tried again, whatever it answers.
AfterPending ==
    CASE attempt.outcome = "woken"     -> Settles("delivered")
      [] attempt.outcome = "uncertain" -> Settles("retryable")
      [] OTHER                         -> Settles("wake_failed")

\* A live session that T3 owns: the socket is next when T3 did not take the line.
AfterT3Claude ==
    CASE attempt.outcome = "woken"     -> Settles("delivered")
      [] attempt.outcome = "uncertain" -> Settles("retryable")
      [] OTHER                         -> [attempt EXCEPT !.phase = "socket"]

AfterT3Codex ==
    CASE attempt.outcome = "woken"     -> Settles("delivered")
      [] attempt.outcome = "uncertain" -> Settles("retryable")
      [] OTHER -> [attempt EXCEPT !.phase = "queue", !.failed_wake = TRUE]

AfterStopped ==
    IF attempt.outcome = "woken" THEN Settles("delivered") ELSE Settles("wake_failed")

\* The settlement of an outcome that T3 gave, or the fallback it allows.
AfterWake == CASE attempt.via = "pending"  -> AfterPending
               [] attempt.via = "t3claude" -> AfterT3Claude
               [] attempt.via = "t3codex"  -> AfterT3Codex
               [] attempt.via = "stopped"  -> AfterStopped

wake_returns ==
    /\ attempt.phase = "reply"
    /\ IF Clears THEN record' = "none" /\ hold' = "none" ELSE UNCHANGED <<record, hold>>
    /\ replied' = (replied \/ (attempt.outcome = "woken"))
    /\ attempt' = AfterWake
    /\ UNCHANGED <<Environment, compaction, compacted, claimed, alerted,
                   t3Took, heard, settled>>

\* An error may come after the line arrived.
Writes(phase, arrives, ok) ==
    /\ attempt.phase = phase /\ check
    /\ ok => arrives
    /\ heard' = (heard \/ arrives)
    /\ End(IF ok THEN "delivered" ELSE "retryable")
    /\ UNCHANGED <<Environment, compaction, compacted, record, hold, claimed, alerted,
                   t3Took, replied, settled>>

\* The session's socket.
inbox_send(arrives, ok) == Writes("socket", arrives, ok)

\* A `codex queue` child with a deadline.
queue_command_once(arrives, ok) == Writes("queue", arrives, ok)

stop_write(o) ==
    /\ attempt.phase \in {"socket", "queue"} /\ CheckStops(o)
    /\ End(o)
    /\ UNCHANGED <<Environment, compaction, compacted, record, hold, claimed, alerted,
                   t3Took, replied, heard, settled>>

\* The event is settled, or waits for its next attempt; a failed wake alerts.
settle_callback ==
    /\ attempt.phase = "settle"
    /\ settled' = IF attempt.outcome \in {"delivered", "suppressed"} THEN attempt.outcome ELSE "no"
    /\ alerted' = CASE attempt.outcome = "wake_failed" /\ line = "task" -> TRUE
                    [] attempt.outcome = "delivered" -> attempt.failed_wake /\ line = "task"
                    [] OTHER -> alerted
    /\ attempt' = NoAttempt
    /\ UNCHANGED <<Environment, compaction, compacted, record, hold, claimed,
                   t3Took, replied, heard>>

----------------------------------------------------------------------------
(* The environment                                                          *)

daemon_crash ==
    /\ attempt' = NoAttempt
    /\ claimed' = FALSE /\ alerted' = FALSE
    /\ attempt # NoAttempt
    /\ UNCHANGED <<Environment, compaction, compacted, record, hold,
                   t3Took, replied, heard, settled>>

session_changes ==
    /\ world' \in [claude: ClaudeSessions, mapped: BOOLEAN]
    /\ settled = "no"
    /\ UNCHANGED <<line, idle, current, compaction, compacted, record, hold, attempt, claimed,
                   alerted, t3Took, replied, heard, settled>>

\* Time passes.  A line reaches T3 within QUEUE_MARGIN of the reading of the idle
\* time, so at most one class later.
InFlight == attempt.phase = "dispatch" /\ attempt.start = "auto" /\ Provider = "claude"

time_passes ==
    /\ settled = "no"
    /\ \/ idle < 3 /\ (InFlight => idle = attempt.read) /\ idle' = idle + 1 /\ UNCHANGED <<hold, claimed>>
       \/ hold = "held" /\ hold' = "expired" /\ UNCHANGED <<idle, claimed>>
       \/ claimed /\ claimed' = FALSE /\ UNCHANGED <<idle, hold>>
    /\ UNCHANGED <<line, world, current, compaction, compacted, record, attempt, alerted,
                   t3Took, replied, heard, settled>>

\* The scan of waiting threads, and the dashboard's button.
idle_scan(c, took) ==
    /\ idle_compaction_due /\ settled = "no"
    /\ Sent(c) /\ Takes(c, took)
    /\ compact_thread(c, took, "idle")
    /\ UNCHANGED <<Environment, record, hold, attempt, claimed, alerted,
                   t3Took, replied, heard, settled>>

compact_session(c, took) ==
    /\ Sent(c) /\ Takes(c, took) /\ settled = "no"
    /\ compact_thread(c, took, "manual")
    /\ UNCHANGED <<Environment, record, hold, attempt, claimed, alerted,
                   t3Took, replied, heard, settled>>

\* The compaction ends and the transcript shows it, or a restart of T3 loses it.
compaction_ends ==
    /\ compaction # "none"
    /\ compaction' = "none"
    /\ \/ idle' = 0 /\ compacted' = FALSE
       \/ UNCHANGED <<idle, compacted>>
    /\ UNCHANGED <<line, world, current, record, hold, attempt, claimed, alerted,
                   t3Took, replied, heard, settled>>

notice_ends ==
    /\ line = "notice" /\ current /\ settled = "no"
    /\ current' = FALSE
    /\ UNCHANGED <<line, world, idle, compaction, compacted, record, hold, attempt, claimed,
                   alerted, t3Took, replied, heard, settled>>

Attempt ==
    \/ run \/ retry_pending_t3 \/ lookup_fails
    \/ \E answer \in {"yes", "no", "error"} : route(answer)
    \/ save_record \/ save_fails \/ turn_starts
    \/ \E c \in T3Conditions, took \in BOOLEAN : compact_first(c, took) \/ start_turn(c, took)
    \/ \E o \in {"suppressed", "retryable"} : stop_wake(o) \/ stop_write(o)
    \/ wake_returns
    \/ \E arrives, ok \in BOOLEAN : inbox_send(arrives, ok) \/ queue_command_once(arrives, ok)
    \/ settle_callback

RouteNext ==
    \/ Attempt \/ daemon_crash \/ session_changes \/ time_passes
    \/ \E c \in T3Conditions, took \in BOOLEAN : idle_scan(c, took) \/ compact_session(c, took)
    \/ compaction_ends \/ notice_ends

RouteSpec == RouteInit /\ [][RouteNext]_routeVars

----------------------------------------------------------------------------
(* Properties                                                               *)

\* Once T3 took the line and its answer was lost, no attempt, also after a
\* crash and with another session, comes to write it to the socket or to
\* `codex queue`, which could start a second turn.
LostReplyLeavesOnlyT3 ==
    attempt.phase \in {"socket", "queue"} => (t3Took => replied)

\* An event is settled as delivered only when the line reached the agent.
NeverSwallowed == settled = "delivered" => heard

\* A line never steers into a compaction that a callback or the idle scan
\* started: it is held, or queued behind it.
NeverSteersIntoCompaction ==
    attempt.phase = "dispatch" /\ Steers => compaction = "manual"

\* A line is not lost, not written elsewhere after T3 took it and its answer was
\* lost, and not steered into a compaction.
LineArrivesOnce == RouteTypeOK /\ NeverSteersIntoCompaction /\ LostReplyLeavesOnlyT3 /\ NeverSwallowed

=============================================================================

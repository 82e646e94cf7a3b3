---------------------------- MODULE JobDelivery ----------------------------
(***************************************************************************)
(* One GPU queue job between its origin machine and its authority: the      *)
(* submission that is retried after a lost reply, the blocked notices the    *)
(* authority produces, its numbered events on their way to the origin's      *)
(* inbox, and the callbacks the origin sends in order.                       *)
(*                                                                          *)
(* Requests and replies are lost, a request may run after its sender gave    *)
(* up, both daemons crash, and the origin may come back from a backup.       *)
(***************************************************************************)
EXTENDS Integers, Sequences, FiniteSets

CONSTANTS
    MaxJobSeq,     \* bound on the job's events
    MaxEpisodes,   \* bound on blocked episodes
    MaxJobFaults   \* bound on crashes, lost replies, failed sends and restores

ASSUME JobDeliveryAssumption ==
    /\ MaxJobSeq \in Nat \ {0} /\ MaxEpisodes \in Nat /\ MaxJobFaults \in Nat

VARIABLES
    route,      \* the origin's route: submission, accepted and settled sequence
    submits,    \* the origin's submit handler and the requests that left
    fit,        \* the spec passes the authority's checks now
    stored,     \* the authority has the job
    head,       \* the job is the queue's blocked head, as `decide` sees it
    episodes,   \* the job's blocked episodes, oldest first
    reading,    \* the queue actor's pass: what it read
    log,        \* the job's events at the authority
    acked,      \* the last event the origin acknowledged
    outgoing,   \* the authority's sender
    incoming,   \* the origin's sender
    told,       \* history: the sequences that reached the thread, in order
    arrived,    \* history: the largest sequence the origin ever accepted
    jobFaults   \* faults so far

jobVars == <<route, submits, fit, stored, head, episodes, reading, log, acked, outgoing,
             incoming, told, arrived, jobFaults>>

RouteStates == {"none", "unknown", "accepted", "rejected"}
EventRow == [kind: {"blocked", "check_due", "final"}, episode: 0 .. MaxEpisodes,
             suppressed: BOOLEAN]
NotSending == [phase |-> "none", seq |-> 0, original |-> 0, requested |-> {}]
NotDelivering == [phase |-> "none", seq |-> 0, moved |-> FALSE]
NoReading == [head |-> FALSE, episode |-> 0, active |-> FALSE]

JobTypeOK ==
    /\ route \in [submission: RouteStates, accepted: 0 .. MaxJobSeq, settled: 0 .. MaxJobSeq]
    /\ submits \in [phase: {"idle", "waiting", "accepted", "refused"},
                    read: RouteStates, current: BOOLEAN, late: BOOLEAN]
    /\ {fit, stored, head} \subseteq BOOLEAN
    /\ \A i \in DOMAIN episodes :
          episodes[i] \in [open: BOOLEAN, due: BOOLEAN, notified: BOOLEAN]
    /\ Len(episodes) \in 0 .. MaxEpisodes
    /\ reading \in [head: BOOLEAN, episode: 0 .. MaxEpisodes, active: BOOLEAN]
    /\ Len(log) \in 0 .. MaxJobSeq /\ \A i \in DOMAIN log : log[i] \in EventRow
    /\ acked \in 0 .. Len(log)
    /\ outgoing \in [phase: {"none", "send", "acknowledged"}, seq: 0 .. MaxJobSeq,
                     original: 0 .. MaxJobSeq, requested: SUBSET (1 .. MaxJobSeq)]
    /\ incoming \in [phase: {"none", "check", "send", "line", "delivered", "suppressed"},
                     seq: 0 .. MaxJobSeq, moved: BOOLEAN]
    /\ arrived \in 0 .. MaxJobSeq /\ jobFaults \in 0 .. MaxJobFaults

JobInit ==
    /\ route = [submission |-> "none", accepted |-> 0, settled |-> 0]
    /\ submits = [phase |-> "idle", read |-> "none", current |-> FALSE, late |-> FALSE]
    /\ fit = TRUE /\ stored = FALSE
    /\ head = FALSE /\ episodes = <<>> /\ reading = NoReading
    /\ log = <<>> /\ acked = 0
    /\ outgoing = NotSending /\ incoming = NotDelivering
    /\ told = <<>> /\ arrived = 0 /\ jobFaults = 0

Fault == jobFaults < MaxJobFaults /\ jobFaults' = jobFaults + 1

Origin    == <<route, incoming, told, arrived>>
Submit    == <<submits, fit>>
Notices   == <<head, episodes, reading>>
Events    == <<log, acked, outgoing>>

----------------------------------------------------------------------------
(* Submission                                                               *)

\* `insert_job_route`: the route is saved before the request leaves, and a
\* retry keeps the saved one.
insert_job_route == [route EXCEPT !.submission = IF @ = "none" THEN "unknown" ELSE @]

\* A saved refusal answers a retry without a request.
submit ==
    /\ submits.phase = "idle" /\ route.submission \in {"none", "unknown"}
    /\ route' = insert_job_route
    /\ submits' = [submits EXCEPT !.phase = "waiting", !.read = insert_job_route.submission,
                                  !.current = TRUE]
    /\ UNCHANGED <<fit, stored, Notices, Events, incoming, told, arrived, jobFaults>>

\* `execute` on the authority: a stored job answers, a new one must pass the checks.
execute == /\ stored' = (stored \/ fit)
           /\ submits' = [submits EXCEPT !.current = FALSE,
                             !.phase = IF stored \/ fit THEN "accepted" ELSE "refused"]
           /\ submits.current
           /\ UNCHANGED <<route, fit, Notices, Events, incoming, told, arrived, jobFaults>>

\* A request whose sender gave up still runs.
execute_late ==
    /\ submits.late
    /\ stored' = (stored \/ fit)
    /\ submits' = [submits EXCEPT !.late = FALSE]
    /\ UNCHANGED <<route, fit, Notices, Events, incoming, told, arrived, jobFaults>>

\* Mutated form: a refusal overwrites acceptance that an event proved
ResolveAnything(answer) == [route EXCEPT !.submission = answer]

\* `resolve_job_route`: acceptance never regresses, and a refusal stays.
resolve_job_route(answer) ==
    [route EXCEPT !.submission = IF \/ @ = "accepted" /\ answer # "accepted"
                                    \/ @ = "rejected" /\ answer # "rejected"
                                 THEN @ ELSE answer]

\* Only a definite refusal of a submission that was unknown is saved.
submit_answered(definite) ==
    /\ submits.phase \in {"accepted", "refused"}
    /\ definite \in IF submits.phase = "accepted" THEN {TRUE} ELSE BOOLEAN
    /\ route' = CASE submits.phase = "accepted" -> resolve_job_route("accepted")
                  [] submits.phase = "refused" /\ definite /\ submits.read = "unknown"
                        -> resolve_job_route("rejected")
                  [] OTHER -> route
    /\ submits' = [submits EXCEPT !.phase = "idle"]
    /\ UNCHANGED <<fit, stored, Notices, Events, incoming, told, arrived, jobFaults>>

\* The reply is lost, or the deadline passes: the request may still run.
submit_lost ==
    /\ submits.phase # "idle" /\ Fault
    /\ submits' = [submits EXCEPT !.phase = "idle", !.current = FALSE,
                                  !.late = @ \/ submits.current]
    /\ UNCHANGED <<route, fit, stored, Notices, Events, incoming, told, arrived>>

\* Files on the authority come and go.
check_on_authority ==
    /\ fit' = ~fit /\ ~stored
    /\ UNCHANGED <<submits, stored, Origin, Notices, Events, jobFaults>>

----------------------------------------------------------------------------
(* Blocked notices at the authority                                         *)

Ended == \E i \in DOMAIN log : log[i].kind = "final"

Blocked(seq) == log[seq].kind = "blocked"

\* History: the queue moved while a notice that passed its last check is on its way.
OvertakeLine == incoming' = [incoming EXCEPT !.moved = @ \/ (incoming.phase = "line" /\ Blocked(incoming.seq))]

\* The queue moves: the job becomes its blocked head, or no longer is.
queue_moves ==
    /\ stored /\ ~Ended
    /\ head' = ~head
    /\ OvertakeLine
    /\ UNCHANGED <<Submit, stored, route, told, arrived, episodes, reading, Events, jobFaults>>

blocked_episode == {i \in DOMAIN episodes : episodes[i].open}
OpenEpisode == IF blocked_episode = {} THEN 0 ELSE CHOOSE i \in blocked_episode : TRUE

\* The threshold of the open episode passes.
threshold_passes ==
    /\ OpenEpisode # 0 /\ ~episodes[OpenEpisode].due
    /\ episodes' = [episodes EXCEPT ![OpenEpisode].due = TRUE]
    /\ UNCHANGED <<Submit, stored, Origin, head, reading, Events, jobFaults>>

\* A pass of the queue actor reads the snapshot; the queue may move before it
\* writes what it decided.
queue_snapshot ==
    /\ stored /\ ~reading.active
    /\ reading' = [head |-> head, episode |-> OpenEpisode, active |-> TRUE]
    /\ UNCHANGED <<Submit, stored, Origin, head, episodes, Events, jobFaults>>

EndOpen(es) == [i \in DOMAIN es |-> [es[i] EXCEPT !.open = FALSE]]

\* The same head keeps its open episode; another head, or none, ends it.
record_blocked_head(h) ==
    IF OpenEpisode # 0 /\ h THEN episodes
    ELSE IF ~h THEN EndOpen(episodes)
    ELSE Append(EndOpen(episodes), [open |-> TRUE, due |-> FALSE, notified |-> FALSE])

\* A pass that read the head of its open episode writes nothing.
record_head ==
    /\ reading.active
    /\ LET unchanged == reading.head = (reading.episode # 0)
           recorded  == IF unchanged THEN episodes ELSE record_blocked_head(reading.head)
       IN  /\ Len(recorded) <= MaxEpisodes
           /\ episodes' = recorded
    /\ reading' = NoReading
    /\ UNCHANGED <<Submit, stored, Origin, head, Events, jobFaults>>

\* What `produce_job_blocked` rereads: the open episode, due, not announced,
\* whose job is still the blocked head.
Announceable == {i \in DOMAIN episodes : /\ episodes[i].open /\ episodes[i].due
                                         /\ ~episodes[i].notified
                                         /\ head}

\* Event and flag commit together.
produce_job_blocked ==
    /\ Len(log) < MaxJobSeq - 1
    /\ \E i \in Announceable :
          /\ episodes' = [episodes EXCEPT ![i].notified = TRUE]
          /\ log' = Append(log, [kind |-> "blocked", episode |-> i, suppressed |-> FALSE])
    /\ UNCHANGED <<Submit, stored, Origin, head, reading, acked, outgoing, jobFaults>>

\* A run was inactive too long, or the job ended.
append_event(kind) ==
    /\ stored /\ ~Ended
    /\ Len(log) < IF kind = "final" THEN MaxJobSeq ELSE MaxJobSeq - 1
    /\ log' = Append(log, [kind |-> kind, episode |-> 0, suppressed |-> FALSE])
    /\ head' = (head /\ kind # "final")
    /\ IF kind = "final" THEN OvertakeLine ELSE UNCHANGED incoming
    /\ UNCHANGED <<Submit, stored, route, told, arrived, episodes, reading, acked, outgoing, jobFaults>>

\* Mutated form: a notice is current while its episode is open
CurrentWhileOpen(seq) == ~log[seq].suppressed /\ episodes[log[seq].episode].open

\* `job_notice_is_current`, asked by the origin before it sends.
job_notice_is_current(seq) ==
    /\ ~log[seq].suppressed
    /\ episodes[log[seq].episode].open
    /\ head

\* A stale notice ends its episode and keeps the evidence.
MarkStale(seq) ==
    IF job_notice_is_current(seq) THEN UNCHANGED <<episodes, log>>
    ELSE /\ episodes' = [episodes EXCEPT ![log[seq].episode].open = FALSE]
         /\ log' = [log EXCEPT ![seq].suppressed = TRUE]

----------------------------------------------------------------------------
(* Authority to origin                                                      *)

pending_job_outbox ==
    /\ outgoing.phase = "none" /\ acked < Len(log)
    /\ outgoing' = [phase |-> "send", seq |-> acked + 1, original |-> acked + 1,
                    requested |-> {}]
    /\ UNCHANGED <<Submit, stored, Origin, Notices, log, acked, jobFaults>>

\* What the origin makes of a sequence.
Sequence(seq) == IF seq <= route.accepted THEN "old"
                 ELSE IF seq = route.accepted + 1 THEN "next" ELSE "gap"

\* An event is refused when the route rejects it; the next one is stored with
\* the cursor, and proves that the job was accepted.
accept_job_event(seq) ==
    /\ route.submission \notin {"none", "rejected"}
    /\ route' = IF Sequence(seq) = "next"
                THEN [route EXCEPT !.accepted = seq, !.submission = "accepted"] ELSE route
    /\ arrived' = IF Sequence(seq) = "next" /\ seq > arrived THEN seq ELSE arrived

\* `deliver_authority` hands the event over and reads the answer: a gap sends the
\* sender back to what the origin expects.
deliver_authority ==
    /\ outgoing.phase = "send"
    /\ accept_job_event(outgoing.seq)
    /\ LET expected == route.accepted + 1 IN
       outgoing' = CASE Sequence(outgoing.seq) # "gap" -> [outgoing EXCEPT !.phase = "acknowledged"]
                     [] Sequence(outgoing.seq) = "gap" /\ expected \notin outgoing.requested
                           -> [outgoing EXCEPT !.seq = expected, !.requested = @ \cup {expected}]
                     [] OTHER -> NotSending
    /\ UNCHANGED <<Submit, stored, incoming, told, Notices, log, acked, jobFaults>>

acknowledge_job_event == IF outgoing.seq = acked + 1 THEN outgoing.seq ELSE acked

acknowledge ==
    /\ outgoing.phase = "acknowledged"
    /\ acked' = acknowledge_job_event
    /\ outgoing' = IF outgoing.seq = outgoing.original THEN NotSending
                   ELSE [outgoing EXCEPT !.phase = "send", !.seq = @ + 1]
    /\ UNCHANGED <<Submit, stored, Origin, Notices, log, jobFaults>>

\* The event arrives and the answer is lost, the send fails, the route refuses,
\* or the authority's daemon restarts.
delivery_fails(arrives) ==
    /\ outgoing.phase # "none"
    /\ IF route.submission \in {"none", "rejected"} THEN UNCHANGED jobFaults ELSE Fault
    /\ arrives => outgoing.phase = "send"
    /\ IF arrives THEN accept_job_event(outgoing.seq) ELSE UNCHANGED <<route, arrived>>
    /\ outgoing' = NotSending
    /\ UNCHANGED <<Submit, stored, incoming, told, Notices, log, acked>>

----------------------------------------------------------------------------
(* Origin to thread                                                         *)

pending_job_inbox ==
    /\ incoming.phase = "none" /\ route.settled < route.accepted
    /\ incoming' = [phase |-> IF Blocked(route.settled + 1) THEN "check" ELSE "send",
                    seq |-> route.settled + 1, moved |-> FALSE]
    /\ UNCHANGED <<Submit, stored, route, told, arrived, Notices, Events, jobFaults>>

\* The first check of a notice.
notice_current ==
    /\ incoming.phase = "check"
    /\ incoming' = [incoming EXCEPT !.phase =
                       IF job_notice_is_current(incoming.seq) THEN "send" ELSE "suppressed"]
    /\ MarkStale(incoming.seq)
    /\ UNCHANGED <<Submit, stored, route, told, arrived, head, reading, acked, outgoing, jobFaults>>

\* The check that the waiter and the sender both make at the last moment, again
\* at the authority: it stops the line or lets it go.
before_send ==
    /\ incoming.phase = "send"
    /\ IF Blocked(incoming.seq) /\ ~job_notice_is_current(incoming.seq)
       THEN /\ incoming' = [incoming EXCEPT !.phase = "suppressed"]
            /\ MarkStale(incoming.seq)
       ELSE /\ incoming' = [incoming EXCEPT !.phase = "line"]
            /\ UNCHANGED <<episodes, log>>
    /\ UNCHANGED <<Submit, stored, route, told, arrived, head, reading, acked, outgoing, jobFaults>>

\* The line reaches the thread or a waiter, some time after the authority answered
\* that check.  See CallbackRoute and WaitStream.
deliver_job_event ==
    /\ incoming.phase = "line"
    /\ incoming' = [phase |-> "delivered", seq |-> incoming.seq, moved |-> FALSE]
    /\ told' = Append(told, [seq |-> incoming.seq,
                             current |-> Blocked(incoming.seq) => head \/ incoming.moved])
    /\ UNCHANGED <<Submit, stored, route, arrived, Notices, Events, jobFaults>>

\* Mutated form: a suppressed notice is not settled
SettleOnlyDelivered(seq) ==
    IF route.settled = seq - 1 /\ route.accepted >= seq /\ ~log[seq].suppressed
    THEN [route EXCEPT !.settled = seq] ELSE route

\* Only the next event is settled, and only what arrived.
settle_job_event_inner(seq) ==
    IF route.settled = seq - 1 /\ route.accepted >= seq
    THEN [route EXCEPT !.settled = seq] ELSE route

settle_callback ==
    /\ incoming.phase \in {"delivered", "suppressed"}
    /\ route' = settle_job_event_inner(incoming.seq)
    /\ incoming' = NotDelivering
    /\ UNCHANGED <<Submit, stored, told, arrived, Notices, Events, jobFaults>>

\* The send fails or the origin's daemon restarts, possibly after the line
\* arrived and before it was settled.
origin_fails ==
    /\ incoming.phase # "none" /\ Fault
    /\ incoming' = NotDelivering
    /\ UNCHANGED <<Submit, stored, route, told, arrived, Notices, Events>>

\* The origin's database comes back from a backup.
job_origin_restored ==
    /\ \E n \in 0 .. route.accepted - 1 :
          route' = [route EXCEPT !.accepted = n, !.settled = IF @ > n THEN n ELSE @]
    /\ Fault
    /\ incoming' = NotDelivering
    /\ UNCHANGED <<Submit, stored, told, arrived, Notices, Events>>

----------------------------------------------------------------------------
JobNext ==
    \/ submit \/ execute \/ execute_late \/ submit_lost \/ check_on_authority
    \/ \E definite \in BOOLEAN : submit_answered(definite)
    \/ queue_moves \/ threshold_passes \/ queue_snapshot \/ record_head \/ produce_job_blocked
    \/ \E kind \in {"check_due", "final"} : append_event(kind)
    \/ pending_job_outbox \/ deliver_authority \/ acknowledge
    \/ \E arrives \in BOOLEAN : delivery_fails(arrives)
    \/ pending_job_inbox \/ notice_current \/ before_send \/ deliver_job_event
    \/ settle_callback
    \/ origin_fails \/ job_origin_restored

DeliverySpec == JobInit /\ [][JobNext]_jobVars

\* The scans run every 250 ms and each sender ends or is retried.
JobFairness ==
    /\ WF_jobVars(pending_job_outbox) /\ WF_jobVars(deliver_authority) /\ WF_jobVars(acknowledge)
    /\ WF_jobVars(delivery_fails(FALSE))
    /\ WF_jobVars(pending_job_inbox) /\ WF_jobVars(notice_current)
    /\ WF_jobVars(before_send) /\ WF_jobVars(deliver_job_event) /\ WF_jobVars(settle_callback)

JobFairSpec == DeliverySpec /\ JobFairness

----------------------------------------------------------------------------
(* Properties                                                               *)

Told(seq) == \E i \in DOMAIN told : told[i].seq = seq

\* An episode is announced once, however often the timer fires and the queue
\* moves between a reading and its write.
OneNoticePerEpisode ==
    \A i, j \in DOMAIN log :
        Blocked(i) /\ Blocked(j) /\ i # j => log[i].episode # log[j].episode

\* A notice reaches the thread only while the job is the blocked head, or when the
\* queue moved after the authority answered the last check and before the line
\* arrived: no older news gets through, however long the notice waited.
NoticesAreCurrent == \A i \in DOMAIN told : told[i].current

\* What the origin settled reached the thread, except stale notices; the first
\* copies arrive in order.
SettledWasTold ==
    /\ \A seq \in 1 .. route.settled : Told(seq) \/ log[seq].suppressed
    /\ \A i \in DOMAIN told : \A seq \in 1 .. told[i].seq - 1 :
          log[seq].suppressed \/ \E k \in 1 .. i : told[k].seq = seq

\* The authority counts an event as acknowledged only after the origin stored it.
AckedArrived == acked <= arrived

\* A submission that an event proved accepted is never answered as refused.
AcceptedStays == [][route.submission = "accepted" => route'.submission = "accepted"]_jobVars

\* The end of a job that its origin did not refuse reaches the thread; only a
\* backup older than the acknowledgement loses it, when no later event shows the gap.
EndIsTold ==
    Ended ~> (route.submission = "rejected" \/ Told(Len(log)) \/ route.accepted < acked)

\* The thread hears of its job what is true, in order and once per episode, and
\* no side takes an event for delivered before the other has it.
JobNewsIsTrue ==
    /\ JobTypeOK /\ OneNoticePerEpisode /\ NoticesAreCurrent
    /\ SettledWasTold /\ AckedArrived

=============================================================================

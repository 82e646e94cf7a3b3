---------------------------- MODULE EventDelivery ----------------------------
(***************************************************************************)
(* Events of one task, from the outbox of the machine that runs it to the   *)
(* inbox of its origin and from there to the origin thread.                 *)
(*                                                                          *)
(* Rows of different tasks share nothing, so one task is modelled.  A       *)
(* request between the machines may be lost, be repeated by a retry, and    *)
(* arrive after its sender gave up on it; either daemon may crash between   *)
(* two of its store calls.                                                  *)
(***************************************************************************)
EXTENDS Naturals, Sequences, FiniteSets

CONSTANTS
    Producible,    \* the payloads the task produces
    MaxSeq,        \* bound on the events a task produces
    MaxFaults,     \* bound on crashes, unseen answers, deferrals and restores
    MaxPerCycle,   \* MAX_EVENTS_PER_CYCLE
    MaxAttempts,   \* the three reserved attempts of an inbox event
    CanRestore      \* whether an older or new database may replace the origin's

ASSUME EventAssumption ==
    /\ Producible \subseteq {"queued", "state", "report", "reported", "terminal"}
    /\ MaxSeq \in Nat \ {0}
    /\ MaxFaults \in Nat
    /\ MaxPerCycle \in Nat \ {0}
    /\ MaxAttempts \in Nat \ {0}
    /\ CanRestore \in BOOLEAN

VARIABLES
    log,       \* payloads in the order produced; Len(log) is last_seq
    outbox,    \* executor_outbox and executor_event_receipts, by sequence
    orphaned,  \* executor_event_routes has the task
    send,      \* the delivery worker of the task in the event sender
    net,       \* requests that may still reach the origin
    route,     \* the task's row of origin_routes
    inbox,     \* origin_inbox and origin_event_receipts, by sequence
    worker,    \* the inbox worker of the task in the callback actor
    sends,     \* history: transmissions of each event to the thread
    unsure,    \* history: those whose attempt was given back, the reply being lost
    faults,    \* crashes, unseen answers, deferrals and restores so far
    restored   \* history: another database replaced the origin's

evars == <<log, outbox, orphaned, send, net>>
ovars == <<route, inbox, worker, sends, unsure>>
fvars == <<faults, restored>>
vars  == <<evars, ovars, fvars>>

\* One more event of the environment that the bound limits.
Fault == faults < MaxFaults /\ faults' = faults + 1

Seqs == 1 .. MaxSeq

\* What a payload says, as far as delivery depends on it.
Payloads == {"queued", "state", "report", "reported", "terminal"}

notification_required(p) == p \in {"reported", "terminal"}
process_state(p) == CASE p = "queued" -> "queued" [] p = "state" -> "running"
                      [] p = "terminal" -> "ended" [] OTHER -> "none"

Unsettled == {"pending_delivery", "awaiting_thread"}
Deliveries == Unsettled \cup {"not_required", "delivered", "delivery_failed"}
Absent == [kind |-> "none", payload |-> "none", attempts |-> 0, receipt |-> FALSE]

InboxRow == [kind: Deliveries \cup {"none"}, payload: Payloads \cup {"none"},
             attempts: 0 .. MaxAttempts, receipt: BOOLEAN]

NoAnswer   == <<"none", 0>>
IdleSend   == [phase |-> "idle", seq |-> 0, requested |-> {}, sent |-> 0,
               answer |-> NoAnswer]
IdleWorker == [phase |-> "idle", seq |-> 0, outcome |-> "none"]

TypeOK ==
    /\ log \in Seq(Payloads) /\ Len(log) <= MaxSeq
    /\ outbox \in [Seqs -> {"none", "pending", "acknowledged", "receipt"}]
    /\ orphaned \in BOOLEAN
    /\ send \in [phase: {"idle", "ready", "waiting", "answered"}, seq: 0 .. MaxSeq + 1,
                 requested: SUBSET Seqs, sent: 0 .. MaxPerCycle,
                 answer: {"none", "acknowledged", "expected", "refused", "not_found"}
                           \X (0 .. MaxSeq + 1)]
    /\ net \subseteq Seqs
    /\ route \in [known: BOOLEAN, submission: {"launching", "accepted"},
                  accepted: 0 .. MaxSeq, settled: 0 .. MaxSeq,
                  state: {"none", "queued", "running", "ended"}]
    /\ inbox \in [Seqs -> InboxRow]
    /\ worker \in [phase: {"idle", "ready", "reserved", "settle"}, seq: 0 .. MaxSeq,
                   outcome: {"none", "delivered", "deferred", "retryable", "permanent"}]
    /\ sends \in [Seqs -> Nat] /\ unsure \in [Seqs -> Nat]
    /\ faults \in 0 .. MaxFaults /\ restored \in BOOLEAN

Init ==
    /\ log = <<>>
    /\ outbox = [s \in Seqs |-> "none"]
    /\ orphaned = FALSE
    /\ send = IdleSend
    /\ net = {}
    /\ route = [known |-> TRUE, submission |-> "launching", accepted |-> 0, settled |-> 0,
                state |-> "none"]
    /\ inbox = [s \in Seqs |-> Absent]
    /\ worker = IdleWorker
    /\ sends = [s \in Seqs |-> 0] /\ unsure = [s \in Seqs |-> 0]
    /\ faults = 0 /\ restored = FALSE

----------------------------------------------------------------------------
(* The executor: outbox and sender                                          *)

\* A task's first event is its queued state, and the terminal callback its last.
MayProduce(p) ==
    /\ p \in Producible /\ Len(log) < MaxSeq
    /\ (p = "queued") <=> (log = <<>>)
    /\ log # <<>> => log[Len(log)] # "terminal"

append_outbound_event(p) ==
    /\ MayProduce(p)
    /\ log' = Append(log, p)
    /\ outbox' = [outbox EXCEPT ![Len(log) + 1] = "pending"]
    /\ UNCHANGED <<orphaned, send, net, ovars, fvars>>

PendingSeqs == {s \in Seqs : outbox[s] = "pending"}
first_pending_outbound == CHOOSE s \in PendingSeqs : \A r \in PendingSeqs : s <= r

\* Whether the row itself, and not a later one, is what the outbox returns for s.
outbound_event_at_or_after(s) == s \in Seqs /\ outbox[s] \in {"pending", "acknowledged"}

\* `schedule` starts one delivery for a task with pending events.
schedule ==
    /\ send.phase = "idle"
    /\ PendingSeqs # {} /\ ~orphaned
    /\ send' = [IdleSend EXCEPT !.phase = "ready", !.seq = first_pending_outbound]
    /\ UNCHANGED <<log, outbox, orphaned, net, ovars, fvars>>

\* The delivery ends: nothing left, the cycle's limit, or a hole in the outbox.
end_cycle ==
    /\ send.phase = "ready"
    /\ send.sent = MaxPerCycle \/ ~outbound_event_at_or_after(send.seq)
    /\ send' = IdleSend
    /\ UNCHANGED <<log, outbox, orphaned, net, ovars, fvars>>

post_event ==
    /\ send.phase = "ready"
    /\ send.sent < MaxPerCycle
    /\ outbound_event_at_or_after(send.seq)
    /\ net' = net \cup {send.seq}
    /\ send' = [send EXCEPT !.phase = "waiting"]
    /\ UNCHANGED <<log, outbox, orphaned, ovars, fvars>>

mark_outbound_acknowledged ==
    /\ send.phase = "answered" /\ send.answer = <<"acknowledged", send.seq>>
    /\ outbox' = [outbox EXCEPT ![send.seq] = IF @ = "receipt" THEN @ ELSE "acknowledged"]
    /\ send' = [send EXCEPT !.phase = "ready", !.seq = @ + 1, !.sent = @ + 1,
                            !.answer = NoAnswer]
    /\ UNCHANGED <<log, orphaned, net, ovars, fvars>>

\* The origin misses an earlier event: go back to it, once per sequence.
Rewinds == /\ send.answer[1] = "expected"
           /\ send.answer[2] \in 1 .. send.seq
           /\ send.answer[2] \notin send.requested

rewind ==
    /\ send.phase = "answered" /\ Rewinds
    /\ send' = [send EXCEPT !.phase = "ready", !.seq = send.answer[2],
                            !.requested = @ \cup {send.answer[2]}, !.answer = NoAnswer]
    /\ UNCHANGED <<log, outbox, orphaned, net, ovars, fvars>>

\* The verified origin has no route.  The route is given up only if the origin
\* has not restarted since it was verified; otherwise the delivery is retried.
orphan_outbound_route ==
    /\ send.phase = "answered" /\ send.answer[1] = "not_found"
    /\ orphaned' \in {TRUE, orphaned}
    /\ send' = IdleSend
    /\ UNCHANGED <<log, outbox, net, ovars, fvars>>

\* No answer, or one that does not fit: the task backs off and starts again.
Unusable == /\ send.phase = "answered"
            /\ send.answer # <<"acknowledged", send.seq>>
            /\ send.answer[1] # "not_found"
            /\ ~Rewinds

retry_later ==
    /\ Unusable
    /\ send' = IdleSend
    /\ UNCHANGED <<log, outbox, orphaned, net, ovars, fvars>>

request_times_out ==
    /\ send.phase = "waiting" /\ Fault
    /\ send' = IdleSend
    /\ UNCHANGED <<log, outbox, orphaned, net, ovars, restored>>

----------------------------------------------------------------------------
(* The origin: acceptance                                                   *)

NextSeq == route.accepted + 1

\* The first event of a released launch must be its queued state.
ProvesLaunch(s) == route.submission = "launching" => process_state(log[s]) = "queued"

\* What `accept_inbound_event` answers to the event with sequence s.
Acceptance(s) ==
    IF ~route.known THEN <<"not_found", 0>>
    ELSE IF s > NextSeq THEN <<"expected", NextSeq>>
    ELSE IF s < NextSeq THEN
        IF inbox[s].payload = log[s] THEN <<"acknowledged", s>> ELSE <<"refused", 0>>
    ELSE IF ProvesLaunch(s) THEN <<"acknowledged", s>> ELSE <<"refused", 0>>

NewRow(p) == [kind |-> IF notification_required(p) THEN "pending_delivery" ELSE "not_required",
              payload |-> p, attempts |-> 0, receipt |-> FALSE]

\* Mutated form: an event after a gap is stored
AcceptsAfterGap(s) == route.known /\ s >= NextSeq /\ ProvesLaunch(s)

Accepts(s) == route.known /\ s = NextSeq /\ ProvesLaunch(s)

\* The inbox row, the route's cursors and the submission state commit together.
accept_inbound_event(s) ==
    /\ inbox' = [inbox EXCEPT ![s] = NewRow(log[s])]
    /\ route' = [route EXCEPT
          !.accepted = s,
          !.submission = "accepted",
          !.state = IF process_state(log[s]) = "none" THEN @ ELSE process_state(log[s]),
          !.settled = IF ~notification_required(log[s]) /\ @ = s - 1 THEN s ELSE @]

\* The request arrives; its sender may have given up on it long ago.
receive_event(s) ==
    /\ s \in net
    /\ net' = net \ {s}
    /\ send' = IF send.phase = "waiting" /\ send.seq = s
               THEN [send EXCEPT !.phase = "answered", !.answer = Acceptance(s)]
               ELSE send
    /\ IF Accepts(s) THEN accept_inbound_event(s) ELSE UNCHANGED <<route, inbox>>
    /\ UNCHANGED <<log, outbox, orphaned, worker, sends, unsure, fvars>>

----------------------------------------------------------------------------
(* The origin: callback delivery                                            *)

\* The first row after the contiguous settled prefix.
Owed == {s \in Seqs : s > route.settled /\ inbox[s].kind # "none"}
earliest_unsettled_inbox == CHOOSE s \in Owed : \A r \in Owed : s <= r
HasOwed == Owed # {} /\ inbox[earliest_unsettled_inbox].kind \in Unsettled

start_inbox_worker ==
    /\ worker.phase = "idle" /\ HasOwed
    /\ worker' = [IdleWorker EXCEPT !.phase = "ready", !.seq = earliest_unsettled_inbox]
    /\ UNCHANGED <<evars, route, inbox, sends, unsure, fvars>>

\* The loop of `dispatch_inbox` reads the next owed event, or ends.
next_inbox_event ==
    /\ worker.phase = "ready" /\ worker.seq = 0
    /\ worker' = IF HasOwed THEN [worker EXCEPT !.seq = earliest_unsettled_inbox]
                 ELSE IdleWorker
    /\ UNCHANGED <<evars, route, inbox, sends, unsure, fvars>>

\* The budget is spent, perhaps by attempts a crash cut short.
budget_spent ==
    /\ worker.phase = "ready" /\ worker.seq # 0
    /\ inbox[worker.seq].attempts >= MaxAttempts
    /\ worker' = [worker EXCEPT !.phase = "settle", !.outcome = "permanent"]
    /\ UNCHANGED <<evars, route, inbox, sends, unsure, fvars>>

\* The saved directory or executable of the callback is gone.
check_saved_callback_fails ==
    /\ worker.phase = "ready" /\ worker.seq # 0
    /\ inbox[worker.seq].attempts < MaxAttempts
    /\ worker' = [worker EXCEPT !.phase = "settle", !.outcome = "permanent"]
    /\ UNCHANGED <<evars, route, inbox, sends, unsure, fvars>>

\* The attempt is counted before anything is sent.
reserve_inbox_attempt ==
    /\ worker.phase = "ready" /\ worker.seq # 0
    /\ HasOwed /\ worker.seq = earliest_unsettled_inbox
    /\ inbox[worker.seq].attempts < MaxAttempts
    /\ inbox' = [inbox EXCEPT ![worker.seq].attempts = @ + 1]
    /\ worker' = [worker EXCEPT !.phase = "reserved"]
    /\ UNCHANGED <<evars, route, sends, unsure, fvars>>

\* The histories count until the origin is restored.
Sent(history) == IF restored THEN history ELSE [history EXCEPT ![worker.seq] = @ + 1]

\* Bytes leave for the origin thread, and the attempt ends one way or the other.
\* (Of a detached task they go nowhere, and count as delivered.)
transmit(o) ==
    /\ worker.phase = "reserved"
    /\ o \in {"delivered", "retryable"}
    /\ sends' = Sent(sends)
    /\ worker' = [worker EXCEPT !.phase = "settle", !.outcome = o]
    /\ UNCHANGED <<evars, route, inbox, unsure, fvars>>

\* The thread's session is compacting, or stopped.  A compacting one is sent
\* nothing; T3 is asked to wake a stopped one, and a wake whose reply is lost may
\* have started the turn and is a deferral all the same.
defer(woken) ==
    /\ worker.phase = "reserved" /\ Fault
    /\ IF woken THEN sends' = Sent(sends) /\ unsure' = Sent(unsure)
       ELSE UNCHANGED <<sends, unsure>>
    /\ worker' = [worker EXCEPT !.phase = "settle", !.outcome = "deferred"]
    /\ UNCHANGED <<evars, route, inbox, restored>>

\* The row after the outcome; `expired` says that THREAD_WAIT_LIMIT has passed.
SettledRow(row, o, expired) ==
    CASE o = "delivered" -> [row EXCEPT !.kind = "delivered"]
      [] o = "deferred"  -> [row EXCEPT !.attempts = @ - 1,
                               !.kind = IF expired THEN "delivery_failed" ELSE "awaiting_thread"]
      [] o = "retryable" -> [row EXCEPT !.kind = IF row.attempts >= MaxAttempts
                               THEN "delivery_failed" ELSE "pending_delivery"]
      [] o = "permanent" -> [row EXCEPT !.kind = "delivery_failed"]

\* Mutated form: the cursor moves over one event only
SettledOne(rows) == route.settled + 1

\* The longest settled prefix that the new row makes contiguous.
SettledPrefix(rows) ==
    CHOOSE n \in route.settled .. MaxSeq :
        /\ \A s \in route.settled + 1 .. n : rows[s].kind \in Deliveries \ Unsettled
        /\ n < MaxSeq => rows[n + 1].kind \notin Deliveries \ Unsettled

settle_inbox_attempt(expired) ==
    /\ worker.phase = "settle"
    /\ worker.seq = route.settled + 1
    /\ inbox[worker.seq].kind \in Unsettled
    /\ inbox' = [inbox EXCEPT ![worker.seq] = SettledRow(@, worker.outcome, expired)]
    /\ route' = [route EXCEPT !.settled =
          IF inbox'[worker.seq].kind \in Unsettled THEN @ ELSE SettledPrefix(inbox')]
    /\ worker' = IF inbox'[worker.seq].kind = "awaiting_thread" THEN IdleWorker
                 ELSE [IdleWorker EXCEPT !.phase = "ready"]
    /\ UNCHANGED <<evars, sends, unsure, fvars>>

----------------------------------------------------------------------------
(* Retention and failures                                                   *)

CompactableOut == {s \in Seqs : outbox[s] = "acknowledged"}
CompactableIn  == {s \in Seqs : /\ inbox[s].kind \in {"not_required", "delivered"}
                                /\ ~inbox[s].receipt
                                /\ s <= route.settled}

\* Payloads older than the retention time become receipts, on the executor ...
compact_outbox(n) ==
    /\ n \in CompactableOut /\ ~orphaned
    /\ outbox' = [s \in Seqs |-> IF s \in CompactableOut /\ s <= n THEN "receipt" ELSE outbox[s]]
    /\ UNCHANGED <<log, orphaned, send, net, ovars, fvars>>

\* ... and on the origin, which keeps their digest and delivery state.
compact_inbox(n) ==
    /\ n \in CompactableIn
    /\ inbox' = [s \in Seqs |-> IF s \in CompactableIn /\ s <= n
                                THEN [inbox[s] EXCEPT !.receipt = TRUE] ELSE inbox[s]]
    /\ UNCHANGED <<evars, route, worker, sends, unsure, fvars>>

executor_crash ==
    /\ send # IdleSend /\ Fault
    /\ send' = IdleSend
    /\ UNCHANGED <<log, outbox, orphaned, net, ovars, restored>>

origin_crash ==
    /\ worker # IdleWorker /\ Fault
    /\ worker' = IdleWorker
    /\ UNCHANGED <<evars, route, inbox, sends, unsure, restored>>

\* The process state that the first n events told the origin.
StateUpTo(n) ==
    LET told == {s \in 1 .. n : process_state(log[s]) # "none"}
    IN  IF told = {} THEN "none"
        ELSE process_state(log[CHOOSE s \in told : \A r \in told : r <= s])

\* The origin comes back with a database that is older, or new and without routes.
origin_restored(n) ==
    /\ CanRestore /\ ~restored /\ Fault
    /\ n \in 0 .. route.accepted
    /\ \E known \in (IF n = 0 THEN BOOLEAN ELSE {TRUE}) :
        route' = [route EXCEPT !.known = known, !.accepted = n,
                               !.settled = IF @ < n THEN @ ELSE n,
                               !.state = StateUpTo(n)]
    /\ inbox' = [s \in Seqs |-> IF s <= n THEN inbox[s] ELSE Absent]
    /\ worker' = IdleWorker
    /\ restored' = TRUE
    /\ sends' = [s \in Seqs |-> 0] /\ unsure' = [s \in Seqs |-> 0]
    /\ UNCHANGED evars

----------------------------------------------------------------------------
Sender == \/ schedule \/ end_cycle \/ post_event \/ mark_outbound_acknowledged
          \/ rewind \/ orphan_outbound_route \/ retry_later
Receiver == \E s \in Seqs : receive_event(s)
Worker == \/ start_inbox_worker \/ next_inbox_event \/ reserve_inbox_attempt
          \/ budget_spent \/ check_saved_callback_fails
          \/ (\E o \in {"delivered", "retryable"} : transmit(o))
          \/ (\E expired \in BOOLEAN : settle_inbox_attempt(expired))

Next ==
    \/ \E p \in Payloads : append_outbound_event(p)
    \/ Sender \/ request_times_out \/ Receiver
    \/ Worker \/ \E woken \in BOOLEAN : defer(woken)
    \/ \E n \in Seqs : compact_outbox(n) \/ compact_inbox(n)
    \/ executor_crash \/ origin_crash
    \/ \E n \in 0 .. MaxSeq : origin_restored(n)

Spec == Init /\ [][Next]_vars

\* The event sender's loop and the callback actor's retry timer never stop, a
\* request that is retried arrives at last, and an attempt ends by its timeout.
FairSpec == Spec /\ WF_vars(Sender) /\ WF_vars(Receiver) /\ WF_vars(Worker)

----------------------------------------------------------------------------
(* Properties                                                               *)

\* The executor drops the payload of an event, or stops sending it, only when
\* the origin has stored it: no crash, lost answer or late request makes the
\* two cursors disagree in that direction.
AckedWasAccepted ==
    ~restored =>
        \A s \in Seqs : outbox[s] \in {"acknowledged", "receipt"} => s <= route.accepted

\* The origin holds, without a hole, exactly the events the executor produced,
\* up to its cursor, however requests were repeated and reordered.
AcceptedIsPrefix ==
    route.known =>
        /\ route.settled <= route.accepted /\ route.accepted <= Len(log)
        /\ \A s \in Seqs : inbox[s].payload = IF s <= route.accepted THEN log[s] ELSE "none"

\* An event leaves for the thread only after everything before it was settled.
CallbacksInOrder ==
    \A s \in Seqs : (~restored /\ sends[s] > 0) =>
        \A r \in 1 .. s - 1 : inbox[r].kind \in Deliveries \ Unsettled

\* The three attempts of an event hold across crashes of the origin, because an
\* attempt is counted before it sends.  What goes beyond them are wakes of a stopped
\* session whose reply was lost, each of which is given back.
SendBudget == ~restored => \A s \in Seqs : sends[s] <= MaxAttempts + unsure[s]

\* Every event is delivered, given up, or silent at last, whatever is appended
\* behind it, unless the origin's database was replaced.
EventsSettle == []<>(route.settled >= Len(log) \/ restored)

\* The two machines' logs agree, nothing is dropped before the other holds it, and
\* the thread hears each event in its order and within its budget.
EventsInOrder == TypeOK /\ AckedWasAccepted /\ AcceptedIsPrefix /\ CallbacksInOrder /\ SendBudget

=============================================================================

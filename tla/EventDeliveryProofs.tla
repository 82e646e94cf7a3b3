------------------------ MODULE EventDeliveryProofs ------------------------
(***************************************************************************)
(* Proofs about EventDelivery: for any number of events, faults and        *)
(* attempts, the origin holds a prefix of what the executor produced,      *)
(* nothing is dropped before it is held, and the origin thread hears the   *)
(* events in order and within their budget.  And about WaitStream: for any *)
(* number of connections and faults, a client that waits swallows no event *)
(* and does not end before its target.                                     *)
(***************************************************************************)
EXTENDS EventDelivery, WaitStream, WellFoundedInduction, SequenceTheorems, TLAPS

-----------------------------------------------------------------------------
(* The inductive invariant *)

Settled == Deliveries \ Unsettled

\* The outbox has a row for each event produced, and only those are sent
Produced ==
    /\ \A s \in Seqs : outbox[s] # "none" <=> s <= Len(log)
    /\ \A s \in net : s <= Len(log)

\* A delivery waits for, or has, the answer to a row; an acknowledgement in its
\* hands is of an event the origin holds
Sending ==
    /\ send.phase \in {"waiting", "answered"} =>
          send.seq \in Seqs /\ outbox[send.seq] # "none" /\ send.sent < MaxPerCycle
    /\ (~restored /\ send.phase = "answered" /\ send.answer[1] = "acknowledged") =>
          send.answer[2] <= route.accepted

\* The inbox is the accepted prefix of the log, settled up to its own cursor
Prefix ==
    /\ route.settled <= route.accepted /\ route.accepted <= Len(log)
    /\ \A s \in Seqs :
          /\ s <= route.accepted => inbox[s].kind # "none" /\ inbox[s].payload = log[s]
          /\ s > route.accepted => inbox[s] = Absent
          /\ s <= route.settled => inbox[s].kind \in Settled

\* An attempt that was counted and has neither sent nor been given back
Open(s) ==
    /\ worker.seq = s
    /\ \/ worker.phase = "reserved"
       \/ worker.phase = "settle" /\ worker.outcome = "deferred"

\* The worker is at the first event that is not settled
Working ==
    /\ worker.seq # 0 => /\ worker.seq = route.settled + 1 /\ worker.seq <= route.accepted
                         /\ inbox[worker.seq].kind \in Unsettled
    /\ worker.phase \in {"reserved", "settle"} => worker.seq # 0
    /\ worker.phase = "settle" => worker.outcome # "none"
    /\ (worker.seq # 0 /\ Open(worker.seq)) => inbox[worker.seq].attempts > 0

\* What was sent was counted, and only up to the first unsettled event
Counted ==
    ~restored => \A s \in Seqs :
        /\ sends[s] + (IF Open(s) THEN 1 ELSE 0) <= inbox[s].attempts + unsure[s]
        /\ sends[s] > 0 => s <= route.settled + 1

EventInv ==
    /\ TypeOK
    /\ Produced
    /\ Sending
    /\ AckedWasAccepted
    /\ Prefix
    /\ Working
    /\ Counted

-----------------------------------------------------------------------------
(* Names for the parts of the type invariant *)

Answers == {"none", "acknowledged", "expected", "refused", "not_found"} \X (0 .. MaxSeq + 1)
SendState == [phase: {"idle", "ready", "waiting", "answered"}, seq: 0 .. MaxSeq + 1,
              requested: SUBSET Seqs, sent: 0 .. MaxPerCycle, answer: Answers]
RouteRow == [known: BOOLEAN, submission: {"launching", "accepted"},
             accepted: 0 .. MaxSeq, settled: 0 .. MaxSeq,
             state: {"none", "queued", "running", "ended"}]
WorkerState == [phase: {"idle", "ready", "reserved", "settle"}, seq: 0 .. MaxSeq,
                outcome: {"none", "delivered", "deferred", "retryable", "permanent"}]

OutTypes ==
    /\ log \in Seq(Payloads) /\ Len(log) <= MaxSeq
    /\ outbox \in [Seqs -> {"none", "pending", "acknowledged", "receipt"}]
    /\ orphaned \in BOOLEAN
    /\ net \subseteq Seqs
SendTypes == send \in SendState
RouteTypes == route \in RouteRow /\ inbox \in [Seqs -> InboxRow]
WorkTypes == worker \in WorkerState /\ sends \in [Seqs -> Nat] /\ unsure \in [Seqs -> Nat]
FaultTypes == faults \in 0 .. MaxFaults /\ restored \in BOOLEAN

LEMMA EventTypes ==
    TypeOK <=> OutTypes /\ SendTypes /\ RouteTypes /\ WorkTypes /\ FaultTypes
  BY DEF TypeOK, OutTypes, SendTypes, RouteTypes, WorkTypes, FaultTypes,
         Answers, SendState, RouteRow, WorkerState

LEMMA TypesAfter ==
    ASSUME OutTypes', SendTypes', RouteTypes', WorkTypes', FaultTypes'
    PROVE  TypeOK'
  BY DEF TypeOK, OutTypes, SendTypes, RouteTypes, WorkTypes, FaultTypes,
         Answers, SendState, RouteRow, WorkerState

LEMMA FaultCounts ==
    ASSUME FaultTypes, Fault, restored' \in BOOLEAN
    PROVE  FaultTypes'
  BY EventAssumption DEF FaultTypes, Fault, EventAssumption

-----------------------------------------------------------------------------
(* Least and greatest sequence numbers, for the choices of the stores *)

\* A nonempty set of numbers has a least element
LEMMA NatMin ==
    ASSUME NEW S \in SUBSET Nat, S # {}
    PROVE  \E m \in S : \A n \in S : m <= n
  <1> DEFINE R == {ss \in Nat \X Nat : ss[1] < ss[2]}
  <1>1. IsWellFoundedOn(R, Nat)
    BY NatLessThanWellFounded DEF OpToRel
  <1> HIDE DEF R
  <1>2. PICK m \in S : \A n \in S : ~(<<n, m>> \in R)
    BY <1>1, WFMin
  <1>3. \A n \in S : ~(n < m)
    BY <1>2 DEF R
  <1>4. QED
    BY <1>3

\* A nonempty set of numbers up to b has a greatest element
LEMMA BoundedMax ==
    ASSUME NEW b \in Nat, NEW S \in SUBSET (0 .. b), S # {}
    PROVE  \E m \in S : \A n \in S : n <= m
  <1> DEFINE U == {u \in 0 .. b : b - u \in S}
  <1>1. U \in SUBSET Nat /\ U # {}
    <2>1. PICK n \in S : TRUE
      OBVIOUS
    <2>2. n \in 0 .. b /\ b - n \in 0 .. b /\ b - (b - n) = n
      OBVIOUS
    <2>3. QED
      BY <2>2
  <1> HIDE DEF U
  <1>2. PICK u \in U : \A v \in U : u <= v
    BY <1>1, NatMin
  <1>3. b - u \in S /\ u \in 0 .. b
    BY <1>2 DEF U
  <1>4. ASSUME NEW n \in S PROVE n <= b - u
    <2>1. n \in 0 .. b /\ b - n \in 0 .. b /\ b - (b - n) = n
      OBVIOUS
    <2>2. b - n \in U
      BY <2>1 DEF U
    <2>3. QED
      BY <1>2, <1>3, <2>1, <2>2
  <1>5. QED
    BY <1>3, <1>4

-----------------------------------------------------------------------------
(* The executor *)

\* A step of the executor's daemon about what it produced before
LEMMA SenderKeeps ==
    ASSUME EventInv, UNCHANGED <<log, ovars, restored>>,
           SendTypes', OutTypes', FaultTypes', Produced', Sending', AckedWasAccepted'
    PROVE  EventInv'
  <1>1. RouteTypes /\ WorkTypes
    BY EventTypes DEF EventInv
  <1>2. RouteTypes' /\ WorkTypes'
    BY <1>1 DEF RouteTypes, WorkTypes, ovars
  <1>3. TypeOK'
    BY <1>2, TypesAfter
  <1>4. Prefix' /\ Working' /\ Counted'
    BY DEF EventInv, Prefix, Working, Counted, Open, ovars
  <1>5. QED
    BY <1>3, <1>4 DEF EventInv

LEMMA KeepsByAppend ==
    ASSUME EventInv, NEW p \in Payloads, append_outbound_event(p)
    PROVE  EventInv'
  <1>1. OutTypes /\ SendTypes /\ RouteTypes /\ WorkTypes /\ FaultTypes
    BY EventTypes DEF EventInv
  <1>2. /\ UNCHANGED <<orphaned, send, net, ovars, fvars>> /\ Len(log) < MaxSeq
        /\ log' = Append(log, p)
        /\ outbox' = [outbox EXCEPT ![Len(log) + 1] = "pending"]
    BY DEF append_outbound_event, MayProduce
  <1>3. /\ Len(log) \in Nat /\ Len(log') = Len(log) + 1 /\ log' \in Seq(Payloads)
        /\ \A s \in 1 .. Len(log) : log'[s] = log[s]
    BY <1>1, <1>2 DEF OutTypes
  <1>4. Len(log) + 1 \in Seqs
    BY <1>2, <1>3, EventAssumption DEF Seqs, EventAssumption
  <1>5. /\ outbox' \in [Seqs -> {"none", "pending", "acknowledged", "receipt"}]
        /\ outbox'[Len(log) + 1] = "pending"
        /\ \A s \in Seqs : s # Len(log) + 1 => outbox'[s] = outbox[s]
    BY <1>1, <1>2, <1>4 DEF OutTypes
  <1>6. OutTypes'
    BY <1>1, <1>2, <1>3, <1>5, EventAssumption DEF OutTypes, EventAssumption
  <1>7. SendTypes' /\ RouteTypes' /\ WorkTypes' /\ FaultTypes'
    BY <1>1, <1>2 DEF SendTypes, RouteTypes, WorkTypes, FaultTypes, ovars, fvars
  <1>8. Produced'
    <2>1. \A s \in Seqs : s \in Nat
      BY DEF Seqs
    <2>2. QED
      BY <1>1, <1>2, <1>3, <1>5, <2>1 DEF EventInv, Produced, OutTypes
  <1>9. Sending'
    <2>1. \A s \in Seqs : outbox[s] # "none" => outbox'[s] # "none"
      BY <1>5
    <2>2. QED
      BY <1>2, <2>1 DEF EventInv, Sending, ovars, fvars
  <1>10. AckedWasAccepted'
    BY <1>2, <1>5 DEF EventInv, AckedWasAccepted, ovars, fvars
  <1>11. Prefix'
    <2>1. \A s \in Seqs : s <= route.accepted => s \in 1 .. Len(log)
      BY <1>1, <1>3 DEF EventInv, Prefix, Seqs, RouteTypes, RouteRow
    <2>2. route.accepted \in Nat
      BY <1>1 DEF RouteTypes, RouteRow
    <2>3. QED
      BY <1>2, <1>3, <2>1, <2>2 DEF EventInv, Prefix, ovars
  <1>12. Working' /\ Counted'
    BY <1>2 DEF EventInv, Working, Counted, Open, ovars, fvars
  <1>13. QED
    BY <1>6, <1>7, <1>8, <1>9, <1>10, <1>11, <1>12, TypesAfter DEF EventInv

\* An idle sender claims nothing
LEMMA IdleSendKeeps ==
    ASSUME EventInv, send' = IdleSend, orphaned' \in BOOLEAN,
           UNCHANGED <<log, outbox, net, ovars, restored>>, FaultTypes'
    PROVE  EventInv'
  <1>1. OutTypes /\ SendTypes /\ RouteTypes /\ WorkTypes /\ FaultTypes
    BY EventTypes DEF EventInv
  <1>2. SendTypes' /\ Sending'
    BY EventAssumption DEF SendTypes, SendState, Sending, IdleSend, NoAnswer, Answers, EventAssumption
  <1>3. OutTypes' /\ Produced' /\ AckedWasAccepted'
    BY <1>1 DEF OutTypes, Produced, AckedWasAccepted, EventInv, ovars
  <1>4. QED
    BY <1>2, <1>3, SenderKeeps

LEMMA KeepsByIdling ==
    ASSUME EventInv,
           end_cycle \/ orphan_outbound_route \/ retry_later \/ request_times_out \/ executor_crash
    PROVE  EventInv'
  <1>1. OutTypes /\ SendTypes /\ RouteTypes /\ WorkTypes /\ FaultTypes
    BY EventTypes DEF EventInv
  <1>2. /\ send' = IdleSend /\ orphaned' \in {TRUE, orphaned}
        /\ UNCHANGED <<log, outbox, net, ovars, restored>>
        /\ faults' = faults \/ Fault
    BY DEF end_cycle, orphan_outbound_route, retry_later, request_times_out, executor_crash, fvars
  <1>3. FaultTypes' /\ orphaned' \in BOOLEAN
    BY <1>1, <1>2, FaultCounts DEF FaultTypes, OutTypes
  <1>4. QED
    BY <1>2, <1>3, IdleSendKeeps

LEMMA KeepsBySchedule ==
    ASSUME EventInv, schedule
    PROVE  EventInv'
  <1>1. OutTypes /\ SendTypes /\ RouteTypes /\ WorkTypes /\ FaultTypes
    BY EventTypes DEF EventInv
  <1>2. /\ UNCHANGED <<log, outbox, orphaned, net, ovars, fvars>> /\ PendingSeqs # {}
        /\ send' = [IdleSend EXCEPT !.phase = "ready", !.seq = first_pending_outbound]
    BY DEF schedule
  <1>3. first_pending_outbound \in Seqs
    <2>1. PendingSeqs \in SUBSET Nat /\ PendingSeqs \subseteq Seqs
      BY DEF PendingSeqs, Seqs
    <2>2. \E m \in PendingSeqs : \A n \in PendingSeqs : m <= n
      BY <1>2, <2>1, NatMin
    <2>3. QED
      BY <2>1, <2>2 DEF first_pending_outbound
  <1>4. SendTypes' /\ Sending'
    <2>1. send' = [phase |-> "ready", seq |-> first_pending_outbound, requested |-> {}, sent |-> 0,
                   answer |-> NoAnswer]
      BY <1>2 DEF IdleSend
    <2>2. /\ first_pending_outbound \in 0 .. MaxSeq + 1 /\ 0 \in 0 .. MaxPerCycle
          /\ NoAnswer \in Answers
      BY <1>3, EventAssumption DEF NoAnswer, Answers, Seqs, EventAssumption
    <2>3. QED
      BY <2>1, <2>2 DEF SendTypes, SendState, Sending
  <1>5. OutTypes' /\ FaultTypes' /\ Produced' /\ AckedWasAccepted'
    BY <1>1, <1>2 DEF OutTypes, FaultTypes, Produced, AckedWasAccepted, EventInv, ovars, fvars
  <1>6. QED
    BY <1>2, <1>4, <1>5, SenderKeeps DEF fvars

LEMMA KeepsByPostEvent ==
    ASSUME EventInv, post_event
    PROVE  EventInv'
  <1>1. OutTypes /\ SendTypes /\ RouteTypes /\ WorkTypes /\ FaultTypes
    BY EventTypes DEF EventInv
  <1>2. /\ UNCHANGED <<log, outbox, orphaned, ovars, fvars>>
        /\ send.sent < MaxPerCycle
        /\ send.seq \in Seqs /\ outbox[send.seq] \in {"pending", "acknowledged"}
        /\ net' = net \cup {send.seq} /\ send' = [send EXCEPT !.phase = "waiting"]
    BY DEF post_event, outbound_event_at_or_after
  <1>3. send' \in SendState /\ send'.phase = "waiting" /\ send'.seq = send.seq /\ send'.sent = send.sent
    BY <1>1, <1>2 DEF SendTypes, SendState
  <1>4. SendTypes' /\ Sending'
    BY <1>2, <1>3 DEF SendTypes, Sending
  <1>5. send.seq <= Len(log)
    BY <1>2 DEF EventInv, Produced
  <1>6. OutTypes' /\ FaultTypes' /\ Produced' /\ AckedWasAccepted'
    BY <1>1, <1>2, <1>5 DEF OutTypes, FaultTypes, Produced, AckedWasAccepted, EventInv, ovars, fvars
  <1>7. QED
    BY <1>2, <1>4, <1>6, SenderKeeps DEF fvars

\* An event is marked only on the origin's word, and the origin keeps it
LEMMA KeepsByMarkAcknowledged ==
    ASSUME EventInv, mark_outbound_acknowledged
    PROVE  EventInv'
  <1>1. OutTypes /\ SendTypes /\ RouteTypes /\ WorkTypes /\ FaultTypes
    BY EventTypes DEF EventInv
  <1> DEFINE q == send.seq
  <1>2. /\ UNCHANGED <<log, orphaned, net, ovars, fvars>>
        /\ send.phase = "answered" /\ send.answer = <<"acknowledged", q>>
        /\ outbox' = [outbox EXCEPT ![q] = IF outbox[q] = "receipt" THEN outbox[q] ELSE "acknowledged"]
        /\ send' = [send EXCEPT !.phase = "ready", !.seq = send.seq + 1, !.sent = send.sent + 1,
                                !.answer = NoAnswer]
    BY DEF mark_outbound_acknowledged
  <1>3. /\ q \in Seqs /\ outbox[q] # "none" /\ send.sent < MaxPerCycle
        /\ ~restored => q <= route.accepted
    BY <1>2 DEF EventInv, Sending
  <1>4. /\ send.seq + 1 \in 0 .. MaxSeq + 1 /\ send.sent + 1 \in 0 .. MaxPerCycle
        /\ NoAnswer \in Answers
    BY <1>1, <1>3, EventAssumption
       DEF SendTypes, SendState, Seqs, NoAnswer, Answers, EventAssumption
  <1>5. send' \in SendState /\ send'.phase = "ready"
    BY <1>1, <1>2, <1>4 DEF SendTypes, SendState
  <1>6. SendTypes' /\ Sending'
    BY <1>5 DEF SendTypes, Sending
  <1>7. /\ outbox' \in [Seqs -> {"none", "pending", "acknowledged", "receipt"}]
        /\ outbox'[q] # "none" /\ \A s \in Seqs : s # q => outbox'[s] = outbox[s]
    BY <1>1, <1>2, <1>3 DEF OutTypes
  <1>8. OutTypes' /\ FaultTypes'
    BY <1>1, <1>2, <1>7 DEF OutTypes, FaultTypes, fvars
  <1>9. Produced' /\ AckedWasAccepted'
    BY <1>2, <1>3, <1>7 DEF Produced, AckedWasAccepted, EventInv, ovars, fvars
  <1>10. QED
    BY <1>2, <1>6, <1>8, <1>9, SenderKeeps DEF fvars

LEMMA KeepsByRewind ==
    ASSUME EventInv, rewind
    PROVE  EventInv'
  <1>1. OutTypes /\ SendTypes /\ RouteTypes /\ WorkTypes /\ FaultTypes
    BY EventTypes DEF EventInv
  <1>2. /\ UNCHANGED <<log, outbox, orphaned, net, ovars, fvars>>
        /\ send.phase = "answered" /\ send.answer[2] \in 1 .. send.seq
        /\ send' = [send EXCEPT !.phase = "ready", !.seq = send.answer[2],
                                !.requested = send.requested \cup {send.answer[2]},
                                !.answer = NoAnswer]
    BY DEF rewind, Rewinds
  <1>3. send.seq \in Seqs
    BY <1>2 DEF EventInv, Sending
  <1>4. /\ send.answer[2] \in 0 .. MaxSeq + 1 /\ send.answer[2] \in Seqs /\ NoAnswer \in Answers
    BY <1>2, <1>3, EventAssumption DEF Seqs, NoAnswer, Answers, EventAssumption
  <1>5. send' \in SendState /\ send'.phase = "ready"
    BY <1>1, <1>2, <1>4 DEF SendTypes, SendState
  <1>6. SendTypes' /\ Sending'
    BY <1>5 DEF SendTypes, Sending
  <1>7. OutTypes' /\ FaultTypes' /\ Produced' /\ AckedWasAccepted'
    BY <1>1, <1>2 DEF OutTypes, FaultTypes, Produced, AckedWasAccepted, EventInv, ovars, fvars
  <1>8. QED
    BY <1>2, <1>6, <1>7, SenderKeeps DEF fvars

LEMMA KeepsByCompactOutbox ==
    ASSUME EventInv, NEW n \in Seqs, compact_outbox(n)
    PROVE  EventInv'
  <1>1. OutTypes /\ SendTypes /\ RouteTypes /\ WorkTypes /\ FaultTypes
    BY EventTypes DEF EventInv
  <1>2. /\ UNCHANGED <<log, orphaned, send, net, ovars, fvars>>
        /\ outbox' = [s \in Seqs |-> IF s \in CompactableOut /\ s <= n THEN "receipt" ELSE outbox[s]]
    BY DEF compact_outbox
  <1>3. \A s \in Seqs : \/ outbox'[s] = outbox[s]
                        \/ outbox[s] = "acknowledged" /\ outbox'[s] = "receipt"
    BY <1>2 DEF CompactableOut
  <1>4. OutTypes' /\ SendTypes' /\ FaultTypes'
    BY <1>1, <1>2 DEF OutTypes, SendTypes, FaultTypes, fvars
  <1>5. Produced' /\ AckedWasAccepted' /\ Sending'
    BY <1>2, <1>3 DEF Produced, AckedWasAccepted, Sending, EventInv, ovars, fvars
  <1>6. QED
    BY <1>2, <1>4, <1>5, SenderKeeps DEF fvars

-----------------------------------------------------------------------------
(* The origin: acceptance *)

\* The cursors and the rows as numbers and records
LEMMA Cursors ==
    ASSUME EventInv
    PROVE  /\ route.accepted \in 0 .. MaxSeq /\ route.settled \in 0 .. MaxSeq
           /\ route.settled <= route.accepted /\ route.accepted <= Len(log)
           /\ Len(log) \in 0 .. MaxSeq /\ \A s \in 1 .. Len(log) : log[s] \in Payloads
           /\ MaxSeq \in Nat /\ MaxAttempts \in Nat \ {0}
           /\ \A s \in Seqs : s \in Nat /\ s > 0 /\ s <= MaxSeq /\ inbox[s] \in InboxRow
  <1>1. OutTypes /\ RouteTypes
    BY EventTypes DEF EventInv
  <1>2. MaxSeq \in Nat /\ MaxAttempts \in Nat \ {0}
    BY EventAssumption DEF EventAssumption
  <1>3. route.accepted \in 0 .. MaxSeq /\ route.settled \in 0 .. MaxSeq
    BY <1>1 DEF RouteTypes, RouteRow
  <1>4. route.settled <= route.accepted /\ route.accepted <= Len(log)
    BY DEF EventInv, Prefix
  <1>5. log \in Seq(Payloads) /\ Len(log) <= MaxSeq
    BY <1>1 DEF OutTypes
  <1>6. Len(log) \in 0 .. MaxSeq /\ \A s \in 1 .. Len(log) : log[s] \in Payloads
    BY <1>2, <1>5
  <1>7. \A s \in Seqs : s \in Nat /\ s > 0 /\ s <= MaxSeq
    BY <1>2 DEF Seqs
  <1>8. \A s \in Seqs : inbox[s] \in InboxRow
    BY <1>1 DEF RouteTypes
  <1>9. QED
    BY <1>2, <1>3, <1>4, <1>6, <1>7, <1>8

\* An acknowledgement is of an event that is held, or is accepted in the same
\* transaction
LEMMA AnswerFacts ==
    ASSUME EventInv, NEW s \in Seqs, s <= Len(log)
    PROVE  /\ Acceptance(s) \in Answers
           /\ Acceptance(s)[1] = "acknowledged" =>
                 Acceptance(s)[2] = s /\ (s <= route.accepted \/ Accepts(s))
  <1>1. route.accepted \in 0 .. MaxSeq /\ s \in 0 .. MaxSeq + 1 /\ s \in Nat /\ MaxSeq \in Nat
    BY Cursors
  <1>2. NextSeq \in 0 .. MaxSeq + 1
    BY <1>1 DEF NextSeq
  <1>3. \/ Acceptance(s) = <<"not_found", 0>>
        \/ Acceptance(s) = <<"expected", NextSeq>>
        \/ Acceptance(s) = <<"refused", 0>>
        \/ Acceptance(s) = <<"acknowledged", s>> /\ (s < NextSeq \/ Accepts(s))
    BY <1>1, <1>2 DEF Acceptance, Accepts
  <1>4. s < NextSeq => s <= route.accepted
    BY <1>1 DEF NextSeq
  <1>5. QED
    BY <1>1, <1>2, <1>3, <1>4 DEF Answers

\* The next event is stored behind the others, and the settled prefix grows
\* over it only when nothing before it is owed
LEMMA AcceptFacts ==
    ASSUME EventInv, NEW s \in Seqs, s <= Len(log), Accepts(s), accept_inbound_event(s)
    PROVE  /\ RouteTypes' /\ s = route.accepted + 1 /\ route'.accepted = s
           /\ \/ route'.settled = route.settled
              \/ route.settled = route.accepted /\ route'.settled = s
                 /\ inbox'[s].kind \in Settled
           /\ inbox'[s].kind # "none" /\ inbox'[s].payload = log[s] /\ inbox'[s].attempts = 0
           /\ \A r \in Seqs : r # s => inbox'[r] = inbox[r]
  <1>1. RouteTypes /\ route \in RouteRow /\ inbox \in [Seqs -> InboxRow]
    BY EventTypes DEF EventInv, RouteTypes
  <1>2. /\ s \in Nat /\ s <= MaxSeq /\ log[s] \in Payloads
        /\ route.accepted \in 0 .. MaxSeq /\ route.settled \in 0 .. MaxSeq
        /\ MaxSeq \in Nat /\ MaxAttempts \in Nat \ {0}
    BY Cursors DEF Seqs
  <1>3. s = route.accepted + 1
    BY DEF Accepts, NextSeq
  <1> DEFINE st == IF process_state(log[s]) = "none" THEN route.state ELSE process_state(log[s])
             up == IF ~notification_required(log[s]) /\ route.settled = s - 1 THEN s ELSE route.settled
  <1>4. /\ inbox' = [inbox EXCEPT ![s] = NewRow(log[s])]
        /\ route' = [route EXCEPT !.accepted = s, !.submission = "accepted", !.state = st, !.settled = up]
    BY DEF accept_inbound_event
  <1>5. st \in {"none", "queued", "running", "ended"}
    BY <1>1, <1>2 DEF RouteRow, process_state, Payloads
  <1>6. /\ up \in 0 .. MaxSeq
        /\ \/ up = route.settled
           \/ up = s /\ route.settled = route.accepted /\ ~notification_required(log[s])
    BY <1>2, <1>3
  <1> HIDE DEF st, up
  <1>7. /\ route' \in RouteRow /\ route'.accepted = s /\ route'.settled = up
    <2>1. s \in 0 .. MaxSeq
      BY <1>2
    <2>2. QED
      BY <1>1, <1>4, <1>5, <1>6, <2>1 DEF RouteRow
  <1>8. /\ NewRow(log[s]) \in InboxRow /\ NewRow(log[s]).kind # "none"
        /\ NewRow(log[s]).payload = log[s] /\ NewRow(log[s]).attempts = 0
        /\ ~notification_required(log[s]) => NewRow(log[s]).kind \in Settled
    BY <1>2 DEF NewRow, InboxRow, Deliveries, Unsettled, Settled
  <1>9. /\ inbox' \in [Seqs -> InboxRow] /\ inbox'[s] = NewRow(log[s])
        /\ \A r \in Seqs : r # s => inbox'[r] = inbox[r]
    BY <1>1, <1>4, <1>8
  <1>10. QED
    BY <1>3, <1>6, <1>7, <1>8, <1>9 DEF RouteTypes

LEMMA KeepsByReceive ==
    ASSUME EventInv, NEW s \in Seqs, receive_event(s)
    PROVE  EventInv'
  <1>1. OutTypes /\ SendTypes /\ RouteTypes /\ WorkTypes /\ FaultTypes
    BY EventTypes DEF EventInv
  <1>2. /\ UNCHANGED <<log, outbox, orphaned, worker, sends, unsure, fvars>>
        /\ s \in net /\ net' = net \ {s}
        /\ \/ send' = send
           \/ /\ send.phase = "waiting" /\ send.seq = s
              /\ send' = [send EXCEPT !.phase = "answered", !.answer = Acceptance(s)]
        /\ \/ Accepts(s) /\ accept_inbound_event(s)
           \/ ~Accepts(s) /\ route' = route /\ inbox' = inbox
    BY DEF receive_event
  <1>3. s <= Len(log)
    BY <1>2 DEF EventInv, Produced
  <1>4. /\ route.accepted \in Nat /\ route.settled \in Nat /\ route.settled <= route.accepted
        /\ route.accepted <= Len(log) /\ Len(log) \in Nat /\ s \in Nat
        /\ \A r \in Seqs : r \in Nat
    BY Cursors
  <1>5. /\ Accepts(s) => route'.accepted = s /\ s = route.accepted + 1
        /\ route'.accepted \in Nat /\ route'.accepted >= route.accepted
    BY <1>2, <1>3, <1>4, AcceptFacts
  <1>6. SendTypes' /\ Sending'
    <2>1. CASE send' = send
      BY <1>1, <1>2, <1>4, <1>5, <2>1 DEF SendTypes, SendState, Answers, EventInv, Sending, fvars
    <2>2. CASE /\ send.phase = "waiting" /\ send.seq = s
               /\ send' = [send EXCEPT !.phase = "answered", !.answer = Acceptance(s)]
      <3>1. /\ Acceptance(s) \in Answers
            /\ Acceptance(s)[1] = "acknowledged" =>
                  Acceptance(s)[2] = s /\ (s <= route.accepted \/ Accepts(s))
        BY <1>3, AnswerFacts
      <3>2. /\ send' \in SendState /\ send'.phase = "answered" /\ send'.answer = Acceptance(s)
            /\ send'.seq = send.seq /\ send'.sent = send.sent
        BY <1>1, <2>2, <3>1 DEF SendTypes, SendState
      <3>3. send.seq \in Seqs /\ outbox[send.seq] # "none" /\ send.sent < MaxPerCycle
        BY <2>2 DEF EventInv, Sending
      <3>4. Acceptance(s)[1] = "acknowledged" => Acceptance(s)[2] <= route'.accepted
        BY <1>4, <1>5, <3>1
      <3>5. QED
        BY <1>2, <3>2, <3>3, <3>4 DEF SendTypes, Sending
    <2>3. QED
      BY <1>2, <2>1, <2>2
  <1>7. OutTypes' /\ WorkTypes' /\ FaultTypes' /\ Produced'
    BY <1>1, <1>2 DEF OutTypes, WorkTypes, FaultTypes, fvars, EventInv, Produced
  <1>8. AckedWasAccepted'
    BY <1>2, <1>4, <1>5 DEF EventInv, AckedWasAccepted, fvars
  <1>9. CASE ~Accepts(s) /\ route' = route /\ inbox' = inbox
    <2>1. RouteTypes' /\ Prefix' /\ Working' /\ Counted'
      BY <1>1, <1>2, <1>9 DEF RouteTypes, EventInv, Prefix, Working, Counted, Open, fvars
    <2>2. QED
      BY <1>6, <1>7, <1>8, <2>1, TypesAfter DEF EventInv
  <1>10. CASE Accepts(s) /\ accept_inbound_event(s)
    <2>1. /\ RouteTypes' /\ s = route.accepted + 1 /\ route'.accepted = s
          /\ \/ route'.settled = route.settled
             \/ route.settled = route.accepted /\ route'.settled = s
                /\ inbox'[s].kind \in Settled
          /\ inbox'[s].kind # "none" /\ inbox'[s].payload = log[s] /\ inbox'[s].attempts = 0
          /\ \A r \in Seqs : r # s => inbox'[r] = inbox[r]
      BY <1>3, <1>10, AcceptFacts
    <2>2. Prefix'
      <3>1. route'.settled <= route'.accepted /\ route'.accepted <= Len(log)
        BY <1>3, <1>4, <2>1
      <3>2. ASSUME NEW r \in Seqs
            PROVE  /\ r <= route'.accepted => inbox'[r].kind # "none" /\ inbox'[r].payload = log[r]
                   /\ r > route'.accepted => inbox'[r] = Absent
                   /\ r <= route'.settled => inbox'[r].kind \in Settled
        BY <1>4, <2>1 DEF EventInv, Prefix
      <3>3. QED
        BY <1>2, <3>1, <3>2 DEF Prefix
    <2>3. Working'
      <3>1. worker.seq # 0 => /\ worker.seq = route.settled + 1 /\ worker.seq <= route.accepted
                              /\ worker.seq \in Seqs
        BY <1>1, <1>4 DEF EventInv, Working, WorkTypes, WorkerState, Seqs
      <3>2. worker.seq # 0 => /\ route'.settled = route.settled /\ worker.seq <= route'.accepted
                              /\ inbox'[worker.seq] = inbox[worker.seq]
        BY <1>4, <2>1, <3>1
      <3>3. QED
        BY <1>2, <3>1, <3>2 DEF EventInv, Working, Open
    <2>4. Counted'
      <3>1. ASSUME ~restored, NEW r \in Seqs
            PROVE  /\ sends[r] + (IF Open(r) THEN 1 ELSE 0) <= inbox'[r].attempts + unsure[r]
                   /\ sends[r] > 0 => r <= route'.settled + 1
        <4>1. inbox[s] = Absent /\ Absent.attempts = 0
          BY <1>4, <2>1 DEF EventInv, Prefix, Absent
        <4>2. inbox'[r].attempts = inbox[r].attempts
          BY <2>1, <4>1
        <4>3. /\ sends[r] + (IF Open(r) THEN 1 ELSE 0) <= inbox[r].attempts + unsure[r]
              /\ sends[r] > 0 => r <= route.settled + 1
          BY <3>1 DEF EventInv, Counted
        <4>4. r <= route.settled + 1 => r <= route'.settled + 1
          <5>1. r \in Nat /\ route.settled \in Nat
            BY <1>4
          <5>2. route'.settled = route.settled \/ route'.settled = route.settled + 1
            BY <2>1
          <5>3. QED
            BY <5>1, <5>2
        <4>5. QED
          BY <4>2, <4>3, <4>4
      <3>2. \A r \in Seqs : Open(r)' = Open(r)
        BY <1>2 DEF Open
      <3>3. QED
        BY <1>2, <3>1, <3>2 DEF Counted, fvars
    <2>5. QED
      BY <1>6, <1>7, <1>8, <2>1, <2>2, <2>3, <2>4, TypesAfter DEF EventInv
  <1>11. QED
    BY <1>2, <1>9, <1>10

-----------------------------------------------------------------------------
(* The origin: callbacks *)

\* A step of the origin's own daemon that keeps what was accepted
LEMMA WorkerKeeps ==
    ASSUME EventInv, UNCHANGED <<evars, restored>>, route'.accepted = route.accepted,
           RouteTypes', WorkTypes', FaultTypes', Prefix', Working', Counted'
    PROVE  EventInv'
  <1>1. OutTypes /\ SendTypes
    BY EventTypes DEF EventInv
  <1>2. OutTypes' /\ SendTypes'
    BY <1>1 DEF OutTypes, SendTypes, evars
  <1>3. Produced' /\ Sending' /\ AckedWasAccepted'
    BY DEF EventInv, Produced, Sending, AckedWasAccepted, evars
  <1>4. QED
    BY <1>2, <1>3, TypesAfter DEF EventInv

\* The same with a worker that only changes its own state, at the same event
\* or at the first one that is owed, and opens no attempt
LEMMA WorkerTurns ==
    ASSUME EventInv, UNCHANGED <<evars, route, inbox, sends, unsure, restored>>,
           worker' \in WorkerState, FaultTypes',
           worker'.seq # 0 => /\ worker'.seq = route.settled + 1 /\ worker'.seq <= route.accepted
                              /\ inbox[worker'.seq].kind \in Unsettled,
           worker'.phase \in {"reserved", "settle"} => worker'.seq # 0,
           worker'.phase = "settle" => worker'.outcome # "none",
           \A s \in Seqs \cup {0} : Open(s)' => Open(s)
    PROVE  EventInv'
  <1>1. OutTypes /\ SendTypes /\ RouteTypes /\ WorkTypes /\ FaultTypes
    BY EventTypes DEF EventInv
  <1>2. RouteTypes' /\ WorkTypes' /\ Prefix'
    BY <1>1 DEF RouteTypes, WorkTypes, EventInv, Prefix, evars
  <1>3. worker'.seq \in Seqs \cup {0}
    BY DEF WorkerState, Seqs
  <1>4. Working'
    <2>1. ASSUME worker'.seq # 0, Open(worker.seq)'
          PROVE  inbox'[worker'.seq].attempts > 0
      <3>1. PICK s \in Seqs \cup {0} : s = worker'.seq
        BY <1>3
      <3>2. Open(s)'
        BY <2>1, <3>1 DEF Open
      <3>3. Open(s) /\ worker.seq = s
        BY <3>2 DEF Open
      <3>4. QED
        BY <2>1, <3>1, <3>3 DEF EventInv, Working
    <2>2. QED
      BY <2>1 DEF Working
  <1>5. Counted'
    <2>1. ASSUME ~restored, NEW s \in Seqs
          PROVE  /\ sends[s] + (IF Open(s)' THEN 1 ELSE 0) <= inbox[s].attempts + unsure[s]
                 /\ sends[s] > 0 => s <= route.settled + 1
      <3>1. /\ sends[s] + (IF Open(s) THEN 1 ELSE 0) <= inbox[s].attempts + unsure[s]
            /\ sends[s] > 0 => s <= route.settled + 1
        BY <2>1 DEF EventInv, Counted
      <3>2. sends[s] \in Nat /\ unsure[s] \in Nat /\ inbox[s].attempts \in Nat
        BY <1>1, EventAssumption DEF WorkTypes, RouteTypes, InboxRow, EventAssumption
      <3>3. QED
        BY <3>1, <3>2
    <2>2. QED
      BY <2>1 DEF Counted
  <1>6. QED
    BY <1>2, <1>4, <1>5, WorkerKeeps

\* What is owed first is the event behind the settled prefix
LEMMA EarliestOwed ==
    ASSUME EventInv, HasOwed
    PROVE  LET s == earliest_unsettled_inbox
           IN  /\ s = route.settled + 1 /\ s <= route.accepted /\ s \in Seqs
               /\ inbox[s].kind \in Unsettled
  <1>1. /\ route.accepted \in 0 .. MaxSeq /\ route.settled \in 0 .. MaxSeq /\ MaxSeq \in Nat
        /\ \A s \in Seqs : s \in Nat /\ s > 0 /\ s <= MaxSeq
    BY Cursors
  <1>2. \A s \in Seqs : s \in Owed <=> s > route.settled /\ s <= route.accepted
    <2>1. Absent.kind = "none"
      BY DEF Absent
    <2>2. QED
      BY <1>1, <2>1 DEF Owed, EventInv, Prefix
  <1>3. PICK o \in Owed : TRUE
    BY DEF HasOwed
  <1>4. o \in Seqs
    BY DEF Owed
  <1>5. route.settled + 1 \in Seqs
    BY <1>1, <1>2, <1>4 DEF Seqs
  <1>6. route.settled + 1 \in Owed /\ \A s \in Owed : s \in Seqs /\ s >= route.settled + 1
    BY <1>1, <1>2, <1>3, <1>4, <1>5 DEF Owed
  <1>7. /\ earliest_unsettled_inbox \in Owed
        /\ \A r \in Owed : earliest_unsettled_inbox <= r
    BY <1>6 DEF earliest_unsettled_inbox
  <1>8. earliest_unsettled_inbox = route.settled + 1
    BY <1>1, <1>6, <1>7
  <1>9. QED
    BY <1>2, <1>5, <1>6, <1>8 DEF HasOwed

LEMMA KeepsByTakingUp ==
    ASSUME EventInv, start_inbox_worker \/ next_inbox_event
    PROVE  EventInv'
  <1>1. OutTypes /\ SendTypes /\ RouteTypes /\ WorkTypes /\ FaultTypes
    BY EventTypes DEF EventInv
  <1>2. /\ UNCHANGED <<evars, route, inbox, sends, unsure, fvars>>
        /\ \/ worker' = IdleWorker
           \/ HasOwed /\ worker' = [IdleWorker EXCEPT !.phase = "ready", !.seq = earliest_unsettled_inbox]
           \/ HasOwed /\ worker.phase = "ready"
              /\ worker' = [worker EXCEPT !.seq = earliest_unsettled_inbox]
    BY DEF start_inbox_worker, next_inbox_event
  <1>3. CASE worker' = IdleWorker
    <2>1. worker' \in WorkerState /\ worker'.seq = 0 /\ worker'.phase = "idle"
      BY <1>3, EventAssumption DEF IdleWorker, WorkerState, EventAssumption
    <2>2. FaultTypes' /\ \A s \in Seqs \cup {0} : Open(s)' => Open(s)
      BY <1>1, <1>2, <2>1 DEF FaultTypes, fvars, Open
    <2>3. QED
      BY <1>2, <2>1, <2>2, WorkerTurns DEF fvars
  <1>4. CASE HasOwed /\ worker' # IdleWorker
    <2> DEFINE e == earliest_unsettled_inbox
    <2>1. e = route.settled + 1 /\ e <= route.accepted /\ e \in Seqs /\ inbox[e].kind \in Unsettled
      BY <1>4, EarliestOwed
    <2> HIDE DEF e
    <2>2. worker' \in WorkerState /\ worker'.seq = e /\ worker'.phase = "ready"
      <3>1. e \in 0 .. MaxSeq
        BY <2>1, EventAssumption DEF Seqs, EventAssumption
      <3>2. QED
        BY <1>1, <1>2, <1>4, <3>1 DEF e, IdleWorker, WorkTypes, WorkerState
    <2>3. FaultTypes' /\ \A s \in Seqs \cup {0} : Open(s)' => Open(s)
      BY <1>1, <1>2, <2>2 DEF FaultTypes, fvars, Open
    <2>4. QED
      BY <1>2, <2>1, <2>2, <2>3, WorkerTurns DEF fvars
  <1>5. QED
    BY <1>2, <1>3, <1>4

\* An event that is given up before an attempt
LEMMA KeepsByGivingUp ==
    ASSUME EventInv, budget_spent \/ check_saved_callback_fails
    PROVE  EventInv'
  <1>1. OutTypes /\ SendTypes /\ RouteTypes /\ WorkTypes /\ FaultTypes
    BY EventTypes DEF EventInv
  <1>2. /\ UNCHANGED <<evars, route, inbox, sends, unsure, fvars>>
        /\ worker.seq # 0
        /\ worker' = [worker EXCEPT !.phase = "settle", !.outcome = "permanent"]
    BY DEF budget_spent, check_saved_callback_fails
  <1>3. /\ worker' \in WorkerState /\ worker'.seq = worker.seq
        /\ worker'.phase = "settle" /\ worker'.outcome = "permanent"
    BY <1>1, <1>2 DEF WorkTypes, WorkerState
  <1>4. FaultTypes' /\ \A s \in Seqs \cup {0} : Open(s)' => Open(s)
    BY <1>1, <1>2, <1>3 DEF FaultTypes, fvars, Open
  <1>5. /\ worker.seq = route.settled + 1 /\ worker.seq <= route.accepted
        /\ inbox[worker.seq].kind \in Unsettled
    BY <1>2 DEF EventInv, Working
  <1>6. QED
    BY <1>2, <1>3, <1>4, <1>5, WorkerTurns DEF fvars

\* A wake that nobody answered is counted as sent and as unsure, and the attempt is
\* still to be given back
LEMMA KeepsByWake ==
    ASSUME EventInv, defer(TRUE)
    PROVE  EventInv'
  <1>1. OutTypes /\ SendTypes /\ RouteTypes /\ WorkTypes /\ FaultTypes
    BY EventTypes DEF EventInv
  <1> DEFINE q == worker.seq
  <1>2. /\ UNCHANGED <<evars, route, inbox, restored>> /\ Fault /\ worker.phase = "reserved"
        /\ sends' = IF restored THEN sends ELSE [sends EXCEPT ![q] = sends[q] + 1]
        /\ unsure' = IF restored THEN unsure ELSE [unsure EXCEPT ![q] = unsure[q] + 1]
        /\ worker' = [worker EXCEPT !.phase = "settle", !.outcome = "deferred"]
    BY DEF defer, Sent
  <1>3. /\ q # 0 /\ q = route.settled + 1 /\ q <= route.accepted /\ q \in Seqs
        /\ inbox[q].kind \in Unsettled /\ inbox[q].attempts > 0
    BY <1>1, <1>2 DEF EventInv, Working, WorkTypes, WorkerState, Seqs, Open
  <1>4. worker' \in WorkerState /\ worker'.seq = q /\ worker'.phase = "settle"
        /\ worker'.outcome = "deferred"
    BY <1>1, <1>2 DEF WorkTypes, WorkerState
  <1>5. /\ sends' \in [Seqs -> Nat] /\ (~restored => sends'[q] = sends[q] + 1)
        /\ \A s \in Seqs : s # q => sends'[s] = sends[s]
        /\ unsure' \in [Seqs -> Nat] /\ (~restored => unsure'[q] = unsure[q] + 1)
        /\ \A s \in Seqs : s # q => unsure'[s] = unsure[s]
    BY <1>1, <1>2, <1>3 DEF WorkTypes
  <1>6. RouteTypes' /\ WorkTypes' /\ Prefix'
    BY <1>1, <1>2, <1>4, <1>5 DEF RouteTypes, WorkTypes, EventInv, Prefix, evars
  <1>a. FaultTypes'
    BY <1>1, <1>2, FaultCounts DEF FaultTypes
  <1>7. Working'
    BY <1>2, <1>3, <1>4 DEF Working, Open
  <1>8. Counted'
    <2>1. ASSUME ~restored, NEW s \in Seqs
          PROVE  /\ sends'[s] + (IF Open(s)' THEN 1 ELSE 0) <= inbox[s].attempts + unsure'[s]
                 /\ sends'[s] > 0 => s <= route.settled + 1
      <3>1. /\ sends[s] + (IF Open(s) THEN 1 ELSE 0) <= inbox[s].attempts + unsure[s]
            /\ sends[s] > 0 => s <= route.settled + 1
        BY <2>1 DEF EventInv, Counted
      <3>2. sends[s] \in Nat /\ unsure[s] \in Nat /\ inbox[s].attempts \in Nat /\ s \in Nat
        BY <1>1, EventAssumption DEF WorkTypes, RouteTypes, InboxRow, EventAssumption, Seqs
      <3>3. (s # q => ~Open(s)' /\ ~Open(s)) /\ (s = q => Open(s))
        BY <1>2, <1>4 DEF Open
      <3>4. CASE s = q
        BY <1>3, <1>5, <2>1, <3>1, <3>2, <3>3, <3>4
      <3>5. CASE s # q
        BY <1>5, <3>1, <3>2, <3>3, <3>5
      <3>6. QED
        BY <3>4, <3>5
    <2>2. QED
      BY <1>2, <2>1 DEF Counted
  <1>9. QED
    BY <1>2, <1>6, <1>a, <1>7, <1>8, WorkerKeeps

\* Nothing was sent, and the attempt is still to be given back
LEMMA KeepsByDefer ==
    ASSUME EventInv, defer(FALSE)
    PROVE  EventInv'
  <1>1. OutTypes /\ SendTypes /\ RouteTypes /\ WorkTypes /\ FaultTypes
    BY EventTypes DEF EventInv
  <1>2. /\ UNCHANGED <<evars, route, inbox, sends, unsure, restored>> /\ Fault
        /\ worker.phase = "reserved"
        /\ worker' = [worker EXCEPT !.phase = "settle", !.outcome = "deferred"]
    BY DEF defer
  <1>3. /\ worker' \in WorkerState /\ worker'.seq = worker.seq
        /\ worker'.phase = "settle" /\ worker'.outcome = "deferred"
    BY <1>1, <1>2 DEF WorkTypes, WorkerState
  <1>4. \A s \in Seqs \cup {0} : Open(s)' => Open(s)
    BY <1>2, <1>3 DEF Open
  <1>5. FaultTypes'
    BY <1>1, <1>2, FaultCounts DEF FaultTypes
  <1>6. /\ worker.seq # 0 /\ worker.seq = route.settled + 1 /\ worker.seq <= route.accepted
        /\ inbox[worker.seq].kind \in Unsettled
    BY <1>2 DEF EventInv, Working
  <1>7. QED
    BY <1>2, <1>3, <1>4, <1>5, <1>6, WorkerTurns

LEMMA KeepsByOriginCrash ==
    ASSUME EventInv, origin_crash
    PROVE  EventInv'
  <1>1. OutTypes /\ SendTypes /\ RouteTypes /\ WorkTypes /\ FaultTypes
    BY EventTypes DEF EventInv
  <1>2. UNCHANGED <<evars, route, inbox, sends, unsure, restored>> /\ Fault /\ worker' = IdleWorker
    BY DEF origin_crash
  <1>3. worker' \in WorkerState /\ worker'.seq = 0 /\ worker'.phase = "idle"
    BY <1>2, EventAssumption DEF IdleWorker, WorkerState, EventAssumption
  <1>4. FaultTypes' /\ \A s \in Seqs \cup {0} : Open(s)' => Open(s)
    BY <1>1, <1>2, <1>3, FaultCounts DEF FaultTypes, Open
  <1>5. QED
    BY <1>2, <1>3, <1>4, WorkerTurns

\* The attempt is counted first ...
LEMMA KeepsByReserve ==
    ASSUME EventInv, reserve_inbox_attempt
    PROVE  EventInv'
  <1>1. OutTypes /\ SendTypes /\ RouteTypes /\ WorkTypes /\ FaultTypes
    BY EventTypes DEF EventInv
  <1> DEFINE q == worker.seq
  <1>2. /\ UNCHANGED <<evars, route, sends, unsure, fvars>>
        /\ worker.phase = "ready" /\ q # 0 /\ inbox[q].attempts < MaxAttempts
        /\ inbox' = [inbox EXCEPT ![q] = [inbox[q] EXCEPT !.attempts = inbox[q].attempts + 1]]
        /\ worker' = [worker EXCEPT !.phase = "reserved"]
    BY DEF reserve_inbox_attempt
  <1>3. /\ q = route.settled + 1 /\ q <= route.accepted /\ q \in Seqs
        /\ inbox[q].kind \in Unsettled
    BY <1>1, <1>2 DEF EventInv, Working, WorkTypes, WorkerState, Seqs
  <1>4. inbox[q] \in InboxRow /\ inbox[q].attempts \in Nat /\ MaxAttempts \in Nat
    BY <1>1, <1>3, EventAssumption DEF RouteTypes, InboxRow, EventAssumption
  <1>5. /\ inbox' \in [Seqs -> InboxRow]
        /\ inbox'[q].attempts = inbox[q].attempts + 1 /\ inbox'[q].kind = inbox[q].kind
        /\ inbox'[q].payload = inbox[q].payload
        /\ \A s \in Seqs : s # q => inbox'[s] = inbox[s]
    <2> DEFINE row == [inbox[q] EXCEPT !.attempts = inbox[q].attempts + 1]
    <2>1. inbox[q].attempts + 1 \in 0 .. MaxAttempts
      BY <1>2, <1>4
    <2>2. /\ row \in InboxRow /\ row.attempts = inbox[q].attempts + 1
          /\ row.kind = inbox[q].kind /\ row.payload = inbox[q].payload
      BY <1>4, <2>1 DEF InboxRow
    <2> HIDE DEF row
    <2>3. inbox' = [inbox EXCEPT ![q] = row]
      BY <1>2 DEF row
    <2>4. QED
      BY <1>1, <1>3, <2>2, <2>3 DEF RouteTypes
  <1>6. worker' \in WorkerState /\ worker'.seq = q /\ worker'.phase = "reserved"
    BY <1>1, <1>2 DEF WorkTypes, WorkerState
  <1>7. RouteTypes' /\ WorkTypes' /\ FaultTypes'
    BY <1>1, <1>2, <1>5, <1>6 DEF RouteTypes, WorkTypes, FaultTypes, fvars
  <1>8. Prefix'
    <2>1. route.accepted \in Nat /\ route.settled \in Nat
      BY Cursors
    <2>2. QED
      BY <1>2, <1>3, <1>5, <2>1 DEF EventInv, Prefix, evars
  <1>9. Working'
    BY <1>2, <1>3, <1>4, <1>5, <1>6 DEF Working
  <1>10. Counted'
    <2>1. ASSUME ~restored, NEW s \in Seqs
          PROVE  /\ sends[s] + (IF Open(s)' THEN 1 ELSE 0) <= inbox'[s].attempts + unsure[s]
                 /\ sends[s] > 0 => s <= route.settled + 1
      <3>1. /\ sends[s] + (IF Open(s) THEN 1 ELSE 0) <= inbox[s].attempts + unsure[s]
            /\ sends[s] > 0 => s <= route.settled + 1
        BY <2>1 DEF EventInv, Counted
      <3>2. sends[s] \in Nat /\ unsure[s] \in Nat /\ inbox[s].attempts \in Nat
        BY <1>1, EventAssumption DEF WorkTypes, RouteTypes, InboxRow, EventAssumption
      <3>3. (s # q => ~Open(s)') /\ ~Open(s)
        BY <1>2, <1>6 DEF Open
      <3>4. CASE s = q
        BY <1>5, <3>1, <3>2, <3>3, <3>4
      <3>5. CASE s # q
        BY <1>5, <3>1, <3>2, <3>3, <3>5
      <3>6. QED
        BY <3>4, <3>5
    <2>2. QED
      BY <1>2, <2>1 DEF Counted, fvars
  <1>11. QED
    BY <1>2, <1>7, <1>8, <1>9, <1>10, WorkerKeeps DEF fvars

\* ... then it sends, at the first event that is not settled
LEMMA KeepsByTransmit ==
    ASSUME EventInv, NEW o \in {"delivered", "retryable"}, transmit(o)
    PROVE  EventInv'
  <1>1. OutTypes /\ SendTypes /\ RouteTypes /\ WorkTypes /\ FaultTypes
    BY EventTypes DEF EventInv
  <1> DEFINE q == worker.seq
  <1>2. /\ UNCHANGED <<evars, route, inbox, unsure, fvars>> /\ worker.phase = "reserved"
        /\ sends' = IF restored THEN sends ELSE [sends EXCEPT ![q] = sends[q] + 1]
        /\ worker' = [worker EXCEPT !.phase = "settle", !.outcome = o]
    BY DEF transmit, Sent
  <1>3. /\ q # 0 /\ q = route.settled + 1 /\ q <= route.accepted /\ q \in Seqs
        /\ inbox[q].kind \in Unsettled
    BY <1>1, <1>2 DEF EventInv, Working, WorkTypes, WorkerState, Seqs
  <1>4. worker' \in WorkerState /\ worker'.seq = q /\ worker'.phase = "settle" /\ worker'.outcome = o
    BY <1>1, <1>2 DEF WorkTypes, WorkerState
  <1>5. /\ sends' \in [Seqs -> Nat] /\ (~restored => sends'[q] = sends[q] + 1)
        /\ \A s \in Seqs : s # q => sends'[s] = sends[s]
    BY <1>1, <1>2, <1>3 DEF WorkTypes
  <1>6. RouteTypes' /\ WorkTypes' /\ FaultTypes' /\ Prefix'
    BY <1>1, <1>2, <1>4, <1>5 DEF RouteTypes, WorkTypes, FaultTypes, EventInv, Prefix, evars, fvars
  <1>7. Working'
    BY <1>2, <1>3, <1>4 DEF Working, Open
  <1>8. Counted'
    <2>1. ASSUME ~restored, NEW s \in Seqs
          PROVE  /\ sends'[s] + (IF Open(s)' THEN 1 ELSE 0) <= inbox[s].attempts + unsure[s]
                 /\ sends'[s] > 0 => s <= route.settled + 1
      <3>1. /\ sends[s] + (IF Open(s) THEN 1 ELSE 0) <= inbox[s].attempts + unsure[s]
            /\ sends[s] > 0 => s <= route.settled + 1
        BY <2>1 DEF EventInv, Counted
      <3>2. sends[s] \in Nat /\ unsure[s] \in Nat /\ inbox[s].attempts \in Nat /\ s \in Nat
        BY <1>1, EventAssumption DEF WorkTypes, RouteTypes, InboxRow, EventAssumption, Seqs
      <3>3. ~Open(s)' /\ (s = q => Open(s))
        BY <1>2, <1>4 DEF Open
      <3>4. CASE s = q
        BY <1>3, <1>5, <2>1, <3>1, <3>2, <3>3, <3>4
      <3>5. CASE s # q
        BY <1>5, <3>1, <3>2, <3>3, <3>5
      <3>6. QED
        BY <3>4, <3>5
    <2>2. QED
      BY <1>2, <2>1 DEF Counted, fvars
  <1>9. QED
    BY <1>2, <1>6, <1>7, <1>8, WorkerKeeps DEF fvars

\* The row after an outcome: only a deferred attempt is given back
LEMMA SettledRowFacts ==
    ASSUME NEW row \in InboxRow, NEW o \in {"delivered", "deferred", "retryable", "permanent"},
           NEW expired \in BOOLEAN, o = "deferred" => row.attempts > 0
    PROVE  /\ SettledRow(row, o, expired) \in InboxRow
           /\ SettledRow(row, o, expired).kind \in Deliveries
           /\ SettledRow(row, o, expired).payload = row.payload
           /\ SettledRow(row, o, expired).attempts =
                 IF o = "deferred" THEN row.attempts - 1 ELSE row.attempts
  <1>1. row.attempts \in 0 .. MaxAttempts /\ MaxAttempts \in Nat
    BY EventAssumption DEF InboxRow, EventAssumption
  <1>2. CASE o = "delivered"
    BY <1>2 DEF SettledRow, InboxRow, Deliveries, Unsettled
  <1>3. CASE o = "deferred"
    <2>1. row.attempts - 1 \in 0 .. MaxAttempts
      BY <1>1, <1>3
    <2>2. SettledRow(row, o, expired) =
              [row EXCEPT !.attempts = row.attempts - 1,
                          !.kind = IF expired THEN "delivery_failed" ELSE "awaiting_thread"]
      BY <1>3 DEF SettledRow
    <2>3. QED
      BY <1>3, <2>1, <2>2 DEF InboxRow, Deliveries, Unsettled
  <1>4. CASE o = "retryable"
    BY <1>4 DEF SettledRow, InboxRow, Deliveries, Unsettled
  <1>5. CASE o = "permanent"
    BY <1>5 DEF SettledRow, InboxRow, Deliveries, Unsettled
  <1>6. QED
    BY <1>2, <1>3, <1>4, <1>5

\* There is a longest settled prefix, and it is settled
LEMMA SettledPrefixFacts ==
    ASSUME EventInv, NEW rows \in [Seqs -> InboxRow]
    PROVE  /\ SettledPrefix(rows) \in route.settled .. MaxSeq
           /\ \A s \in route.settled + 1 .. SettledPrefix(rows) : rows[s].kind \in Settled
  <1>1. route.settled \in 0 .. MaxSeq /\ MaxSeq \in Nat
    BY Cursors
  <1> DEFINE Stops == {n \in route.settled .. MaxSeq :
                          n < MaxSeq => rows[n + 1].kind \notin Settled}
  <1>2. Stops \in SUBSET Nat /\ MaxSeq \in Stops
    BY <1>1
  <1> HIDE DEF Stops
  <1>3. PICK n \in Stops : \A k \in Stops : n <= k
    BY <1>2, NatMin
  <1>4. n \in route.settled .. MaxSeq /\ (n < MaxSeq => rows[n + 1].kind \notin Settled)
    BY <1>3 DEF Stops
  <1>5. ASSUME NEW s \in route.settled + 1 .. n PROVE rows[s].kind \in Settled
    <2>1. s - 1 \in route.settled .. MaxSeq /\ s - 1 < n /\ s - 1 < MaxSeq /\ s - 1 + 1 = s
      BY <1>1, <1>4
    <2>2. s - 1 \notin Stops
      BY <1>3, <1>4, <2>1
    <2>3. QED
      BY <2>1, <2>2 DEF Stops
  <1>6. \E m \in route.settled .. MaxSeq :
            /\ \A s \in route.settled + 1 .. m : rows[s].kind \in Settled
            /\ m < MaxSeq => rows[m + 1].kind \notin Settled
    BY <1>4, <1>5
  <1>7. QED
    BY <1>6 DEF SettledPrefix, Settled

LEMMA KeepsBySettle ==
    ASSUME EventInv, NEW expired \in BOOLEAN, settle_inbox_attempt(expired)
    PROVE  EventInv'
  <1>1. OutTypes /\ SendTypes /\ RouteTypes /\ WorkTypes /\ FaultTypes
    BY EventTypes DEF EventInv
  <1> DEFINE q == worker.seq
             row == SettledRow(inbox[q], worker.outcome, expired)
             up == IF inbox'[q].kind \in Unsettled THEN route.settled ELSE SettledPrefix(inbox')
  <1>2. /\ UNCHANGED <<evars, sends, unsure, fvars>> /\ worker.phase = "settle"
        /\ inbox' = [inbox EXCEPT ![q] = row]
        /\ route' = [route EXCEPT !.settled = up]
        /\ worker' \in {IdleWorker, [IdleWorker EXCEPT !.phase = "ready"]}
    BY DEF settle_inbox_attempt
  <1>3. /\ q # 0 /\ q = route.settled + 1 /\ q <= route.accepted /\ q \in Seqs
        /\ worker.outcome \in {"delivered", "deferred", "retryable", "permanent"}
        /\ worker.outcome = "deferred" <=> Open(q)
        /\ Open(q) => inbox[q].attempts > 0
    BY <1>1, <1>2 DEF EventInv, Working, Open, WorkTypes, WorkerState, Seqs
  <1>4. /\ route.accepted \in 0 .. MaxSeq /\ route.settled \in 0 .. MaxSeq /\ MaxSeq \in Nat
        /\ route.settled <= route.accepted /\ \A s \in Seqs : s \in Nat /\ s > 0
    BY Cursors
  <1>5. /\ row \in InboxRow /\ row.kind \in Deliveries /\ row.payload = inbox[q].payload
        /\ row.attempts = IF worker.outcome = "deferred" THEN inbox[q].attempts - 1
                          ELSE inbox[q].attempts
    <2>1. inbox[q] \in InboxRow
      BY <1>1, <1>3 DEF RouteTypes
    <2>2. QED
      BY <1>3, <2>1, SettledRowFacts
  <1> HIDE DEF row
  <1>6. /\ inbox' \in [Seqs -> InboxRow] /\ inbox'[q] = row
        /\ \A s \in Seqs : s # q => inbox'[s] = inbox[s]
    BY <1>1, <1>2, <1>3, <1>5 DEF RouteTypes
  <1>7. /\ up \in route.settled .. MaxSeq
        /\ \A s \in route.settled + 1 .. up : inbox'[s].kind \in Settled
    <2>1. CASE inbox'[q].kind \in Unsettled
      BY <1>4, <2>1
    <2>2. CASE inbox'[q].kind \notin Unsettled
      BY <1>6, <2>2, SettledPrefixFacts
    <2>3. QED
      BY <2>1, <2>2
  <1> HIDE DEF up
  <1>8. /\ route' \in RouteRow /\ route'.settled = up /\ route'.accepted = route.accepted
    <2>1. up \in 0 .. MaxSeq
      BY <1>4, <1>7
    <2>2. QED
      BY <1>1, <1>2, <2>1 DEF RouteTypes, RouteRow
  <1>9. worker' \in WorkerState /\ worker'.seq = 0 /\ worker'.phase \in {"idle", "ready"}
    BY <1>2, <1>4 DEF IdleWorker, WorkerState
  <1>10. RouteTypes' /\ WorkTypes' /\ FaultTypes'
    BY <1>1, <1>2, <1>6, <1>8, <1>9 DEF RouteTypes, WorkTypes, FaultTypes, fvars
  <1>11. Absent.kind \notin Settled /\ "none" \notin Deliveries
    BY DEF Absent, Settled, Deliveries, Unsettled
  <1>12. up <= route.accepted
    <2>1. SUFFICES ASSUME up > route.accepted PROVE FALSE
      BY <1>4, <1>7
    <2>2. up \in route.settled + 1 .. up /\ up \in Seqs /\ up # q
      BY <1>3, <1>4, <1>7, <2>1 DEF Seqs
    <2>3. inbox'[up] = Absent
      BY <1>6, <2>1, <2>2 DEF EventInv, Prefix
    <2>4. QED
      BY <1>7, <1>11, <2>2, <2>3
  <1>13. Prefix'
    <2>1. route.accepted <= Len(log)
      BY Cursors
    <2>2. ASSUME NEW s \in Seqs
          PROVE  /\ s <= route.accepted => inbox'[s].kind # "none" /\ inbox'[s].payload = log[s]
                 /\ s > route.accepted => inbox'[s] = Absent
      <3>1. CASE s = q
        BY <1>3, <1>4, <1>5, <1>6, <1>11, <3>1 DEF EventInv, Prefix
      <3>2. CASE s # q
        BY <1>6, <3>2 DEF EventInv, Prefix
      <3>3. QED
        BY <3>1, <3>2
    <2>3. ASSUME NEW s \in Seqs, s <= up PROVE inbox'[s].kind \in Settled
      <3>1. CASE s <= route.settled
        <4>1. s # q
          BY <1>3, <1>4, <3>1
        <4>2. QED
          BY <1>6, <3>1, <4>1 DEF EventInv, Prefix
      <3>2. CASE s > route.settled
        <4>1. s \in route.settled + 1 .. up
          BY <1>4, <1>7, <2>3, <3>2
        <4>2. QED
          BY <1>7, <4>1
      <3>3. QED
        BY <1>4, <3>1, <3>2
    <2>4. QED
      BY <1>2, <1>8, <1>12, <2>1, <2>2, <2>3 DEF Prefix, evars
  <1>14. Working'
    BY <1>9 DEF Working
  <1>15. Counted'
    <2>1. ASSUME ~restored, NEW s \in Seqs
          PROVE  /\ sends[s] + (IF Open(s)' THEN 1 ELSE 0) <= inbox'[s].attempts + unsure[s]
                 /\ sends[s] > 0 => s <= up + 1
      <3>1. /\ sends[s] + (IF Open(s) THEN 1 ELSE 0) <= inbox[s].attempts + unsure[s]
            /\ sends[s] > 0 => s <= route.settled + 1
        BY <2>1 DEF EventInv, Counted
      <3>2. sends[s] \in Nat /\ unsure[s] \in Nat /\ inbox[s].attempts \in Nat
        BY <1>1, EventAssumption DEF WorkTypes, RouteTypes, InboxRow, EventAssumption
      <3>3. ~Open(s)' /\ (s # q => ~Open(s))
        BY <1>9, <1>4 DEF Open
      <3>4. sends[s] <= inbox'[s].attempts + unsure[s]
        <4>1. CASE s = q
          BY <1>3, <1>5, <1>6, <3>1, <3>2, <4>1
        <4>2. CASE s # q
          BY <1>6, <3>1, <3>2, <3>3, <4>2
        <4>3. QED
          BY <4>1, <4>2
      <3>5. sends[s] > 0 => s <= up + 1
        BY <1>4, <1>7, <3>1
      <3>6. sends[s] + (IF Open(s)' THEN 1 ELSE 0) = sends[s]
        BY <3>2, <3>3
      <3>7. QED
        BY <3>4, <3>5, <3>6
    <2>2. QED
      BY <1>2, <1>8, <2>1 DEF Counted, fvars
  <1>16. QED
    BY <1>2, <1>8, <1>10, <1>13, <1>14, <1>15, WorkerKeeps DEF fvars

LEMMA KeepsByCompactInbox ==
    ASSUME EventInv, NEW n \in Seqs, compact_inbox(n)
    PROVE  EventInv'
  <1>1. OutTypes /\ SendTypes /\ RouteTypes /\ WorkTypes /\ FaultTypes
    BY EventTypes DEF EventInv
  <1>2. /\ UNCHANGED <<evars, route, worker, sends, unsure, fvars>>
        /\ inbox' = [s \in Seqs |-> IF s \in CompactableIn /\ s <= n
                                    THEN [inbox[s] EXCEPT !.receipt = TRUE] ELSE inbox[s]]
    BY DEF compact_inbox
  <1>3. ASSUME NEW s \in Seqs
        PROVE  /\ inbox'[s] \in InboxRow
               /\ inbox'[s].kind = inbox[s].kind /\ inbox'[s].payload = inbox[s].payload
               /\ inbox'[s].attempts = inbox[s].attempts
               /\ inbox'[s] = inbox[s] \/ s <= route.settled
    <2>1. inbox[s] \in InboxRow
      BY <1>1 DEF RouteTypes
    <2>2. QED
      BY <1>2, <2>1 DEF InboxRow, CompactableIn
  <1>4. RouteTypes' /\ WorkTypes' /\ FaultTypes'
    BY <1>1, <1>2, <1>3 DEF RouteTypes, WorkTypes, FaultTypes, fvars
  <1>5. /\ route.accepted \in Nat /\ route.settled \in Nat /\ route.settled <= route.accepted
        /\ \A s \in Seqs : s \in Nat
    BY Cursors
  <1>6. Prefix'
    BY <1>2, <1>3, <1>5 DEF EventInv, Prefix, evars
  <1>7. Working'
    <2>1. worker.seq # 0 => worker.seq \in Seqs
      BY <1>1 DEF WorkTypes, WorkerState, Seqs
    <2>2. QED
      BY <1>2, <1>3, <2>1 DEF EventInv, Working, Open
  <1>8. Counted'
    BY <1>2, <1>3 DEF EventInv, Counted, Open, fvars
  <1>9. QED
    BY <1>2, <1>4, <1>6, <1>7, <1>8, WorkerKeeps DEF fvars

\* What the first n events said of the process is a state
LEMMA StateUpToType ==
    ASSUME EventInv, NEW n \in 0 .. Len(log)
    PROVE  StateUpTo(n) \in {"none", "queued", "running", "ended"}
  <1> DEFINE told == {s \in 1 .. n : process_state(log[s]) # "none"}
  <1>1. Len(log) \in Nat /\ \A s \in 1 .. Len(log) : log[s] \in Payloads
    BY Cursors
  <1>2. CASE told = {}
    BY <1>2 DEF StateUpTo
  <1>3. CASE told # {}
    <2>1. told \in SUBSET (0 .. n) /\ n \in Nat
      BY <1>1
    <2>2. \E m \in told : \A r \in told : r <= m
      <3> HIDE DEF told
      <3> QED BY <1>3, <2>1, BoundedMax
    <2>3. PICK m \in told : StateUpTo(n) = process_state(log[m])
      BY <1>3, <2>2 DEF StateUpTo
    <2>4. log[m] \in Payloads
      BY <1>1, <2>3
    <2>5. QED
      BY <2>3, <2>4 DEF process_state, Payloads
  <1>4. QED
    BY <1>2, <1>3

\* An older database is a shorter prefix of the same log
LEMMA KeepsByRestore ==
    ASSUME EventInv, NEW n \in 0 .. MaxSeq, origin_restored(n)
    PROVE  EventInv'
  <1>1. OutTypes /\ SendTypes /\ RouteTypes /\ WorkTypes /\ FaultTypes
    BY EventTypes DEF EventInv
  <1>2. /\ UNCHANGED evars /\ sends' \in [Seqs -> Nat] /\ unsure' \in [Seqs -> Nat] /\ Fault /\ n \in 0 .. route.accepted
        /\ inbox' = [s \in Seqs |-> IF s <= n THEN inbox[s] ELSE Absent]
        /\ worker' = IdleWorker /\ restored' = TRUE
    BY DEF origin_restored
  <1>3. /\ route.accepted \in 0 .. MaxSeq /\ route.settled \in 0 .. MaxSeq /\ MaxSeq \in Nat
        /\ route.accepted <= Len(log) /\ Len(log) \in Nat /\ MaxAttempts \in Nat
        /\ route.settled <= route.accepted /\ \A s \in Seqs : s \in Nat
    BY Cursors
  <1> DEFINE low == IF route.settled < n THEN route.settled ELSE n
  <1>4. PICK known \in BOOLEAN :
            route' = [route EXCEPT !.known = known, !.accepted = n, !.settled = low,
                                   !.state = StateUpTo(n)]
    BY DEF origin_restored
  <1>5. StateUpTo(n) \in {"none", "queued", "running", "ended"}
    BY <1>2, <1>3, StateUpToType
  <1>6. low \in 0 .. MaxSeq /\ low <= n /\ low <= route.settled /\ n <= Len(log) /\ n <= route.accepted
    BY <1>2, <1>3
  <1> HIDE DEF low
  <1>7. route' \in RouteRow /\ route'.accepted = n /\ route'.settled = low
    BY <1>1, <1>4, <1>5, <1>6 DEF RouteTypes, RouteRow
  <1>8. Absent \in InboxRow
    BY <1>3 DEF Absent, InboxRow
  <1>9. RouteTypes'
    BY <1>1, <1>2, <1>7, <1>8 DEF RouteTypes
  <1>10. OutTypes' /\ SendTypes' /\ FaultTypes'
    BY <1>1, <1>2, FaultCounts DEF OutTypes, SendTypes, FaultTypes, evars
  <1>11. worker' \in WorkerState /\ worker'.seq = 0 /\ worker'.phase = "idle"
    BY <1>2, <1>3 DEF IdleWorker, WorkerState
  <1>12. WorkTypes' /\ Working' /\ Counted' /\ AckedWasAccepted'
    BY <1>1, <1>2, <1>11 DEF WorkTypes, Working, Counted, AckedWasAccepted
  <1>13. Produced' /\ Sending'
    BY <1>2 DEF EventInv, Produced, Sending, evars
  <1>14. Prefix'
    <2>1. ASSUME NEW s \in Seqs
          PROVE  /\ s <= n => inbox'[s].kind # "none" /\ inbox'[s].payload = log[s]
                 /\ s > n => inbox'[s] = Absent
                 /\ s <= low => inbox'[s].kind \in Settled
      BY <1>2, <1>3, <1>6 DEF EventInv, Prefix
    <2>2. QED
      BY <1>2, <1>6, <1>7, <2>1 DEF Prefix, evars
  <1>15. QED
    BY <1>9, <1>10, <1>12, <1>13, <1>14, TypesAfter DEF EventInv

-----------------------------------------------------------------------------
(* The theorems *)

LEMMA EventStart == Init => EventInv
  <1> SUFFICES ASSUME Init PROVE EventInv
    OBVIOUS
  <1>1. OutTypes /\ FaultTypes
    <2>1. log \in Seq(Payloads) /\ Len(log) = 0
      BY DEF Init
    <2>2. Len(log) <= MaxSeq /\ faults \in 0 .. MaxFaults
      BY <2>1, EventAssumption DEF Init, EventAssumption
    <2>3. /\ outbox \in [Seqs -> {"none", "pending", "acknowledged", "receipt"}]
          /\ orphaned \in BOOLEAN /\ net \subseteq Seqs /\ restored \in BOOLEAN
      BY DEF Init
    <2>4. QED
      BY <2>1, <2>2, <2>3 DEF OutTypes, FaultTypes
  <1>2. SendTypes /\ Sending
    BY EventAssumption
       DEF Init, SendTypes, SendState, Sending, IdleSend, NoAnswer, Answers, EventAssumption
  <1>3. RouteTypes
    BY EventAssumption DEF Init, RouteTypes, RouteRow, InboxRow, Absent, EventAssumption
  <1>4. WorkTypes /\ Working
    BY EventAssumption DEF Init, WorkTypes, WorkerState, Working, IdleWorker, EventAssumption
  <1>5. Produced /\ AckedWasAccepted
    BY DEF Init, Produced, AckedWasAccepted, Seqs
  <1>6. Prefix
    BY DEF Init, Prefix, Seqs
  <1>7. Counted
    BY DEF Init, Counted, Open, Absent, IdleWorker, Seqs
  <1>8. QED
    BY <1>1, <1>2, <1>3, <1>4, <1>5, <1>6, <1>7, EventTypes DEF EventInv

LEMMA EventStep == EventInv /\ [Next]_vars => EventInv'
  <1> SUFFICES ASSUME EventInv, [Next]_vars PROVE EventInv'
    OBVIOUS
  <1>1. CASE Sender \/ request_times_out \/ executor_crash
    BY <1>1, KeepsBySchedule, KeepsByIdling, KeepsByPostEvent, KeepsByMarkAcknowledged, KeepsByRewind
       DEF Sender
  <1>2. CASE Receiver
    BY <1>2, KeepsByReceive DEF Receiver
  <1>3. CASE Worker \/ (\E woken \in BOOLEAN : defer(woken)) \/ origin_crash
    BY <1>3, KeepsByTakingUp, KeepsByGivingUp, KeepsByReserve, KeepsByTransmit, KeepsBySettle,
       KeepsByDefer, KeepsByWake, KeepsByOriginCrash DEF Worker
  <1>4. CASE \E p \in Payloads : append_outbound_event(p)
    BY <1>4, KeepsByAppend
  <1>5. CASE \E n \in Seqs : compact_outbox(n) \/ compact_inbox(n)
    BY <1>5, KeepsByCompactOutbox, KeepsByCompactInbox
  <1>6. CASE \E n \in 0 .. MaxSeq : origin_restored(n)
    BY <1>6, KeepsByRestore
  <1>7. CASE UNCHANGED vars
    <2>1. UNCHANGED <<log, outbox, orphaned, send, net, ovars, restored, faults>>
      BY <1>7 DEF vars, evars, fvars
    <2>2. OutTypes /\ SendTypes /\ FaultTypes
      BY EventTypes DEF EventInv
    <2>3. OutTypes' /\ SendTypes' /\ FaultTypes'
      BY <2>1, <2>2 DEF OutTypes, SendTypes, FaultTypes
    <2>4. Produced' /\ Sending' /\ AckedWasAccepted'
      BY <2>1 DEF EventInv, Produced, Sending, AckedWasAccepted, ovars
    <2>5. QED
      BY <2>1, <2>3, <2>4, SenderKeeps
  <1>8. QED
    BY <1>1, <1>2, <1>3, <1>4, <1>5, <1>6, <1>7 DEF Next

\* The inductive invariant holds in every reachable state, for any number of
\* events, attempts and faults, and with an origin restored from a backup.
THEOREM EventInvariance == Spec => []EventInv
  BY EventStart, EventStep, PTL DEF Spec

\* The origin's inbox is a prefix of the executor's log, an event is dropped or
\* no longer sent only when the origin holds it, and the thread hears the events
\* in order and at most three times each (outbox, inbox and attempts across lost
\* answers, late requests and crashes).
THEOREM EventsInOrderCorrect == Spec => []EventsInOrder
  <1>1. EventInv => EventsInOrder
    <2> SUFFICES ASSUME EventInv PROVE EventsInOrder
      OBVIOUS
    <2>1. /\ route.accepted \in Nat /\ route.settled \in Nat
          /\ \A s \in Seqs : s \in Nat /\ s > 0 /\ s <= MaxSeq /\ inbox[s] \in InboxRow
      BY Cursors
    <2>2. AcceptedIsPrefix
      BY <2>1 DEF EventInv, Prefix, AcceptedIsPrefix, Absent
    <2>3. CallbacksInOrder
      <3> SUFFICES ASSUME NEW s \in Seqs, ~restored, sends[s] > 0, NEW r \in 1 .. s - 1
                   PROVE  inbox[r].kind \in Deliveries \ Unsettled
        BY DEF CallbacksInOrder
      <3>1. s <= route.settled + 1
        BY DEF EventInv, Counted
      <3>2. r \in Seqs /\ r <= route.settled
        BY <2>1, <3>1, EventAssumption DEF Seqs, EventAssumption
      <3>3. QED
        BY <3>2 DEF EventInv, Prefix, Settled
    <2>4. SendBudget
      <3> SUFFICES ASSUME ~restored, NEW s \in Seqs PROVE sends[s] <= MaxAttempts + unsure[s]
        BY DEF SendBudget
      <3>1. sends[s] + (IF Open(s) THEN 1 ELSE 0) <= inbox[s].attempts + unsure[s]
        BY DEF EventInv, Counted
      <3>2. WorkTypes /\ inbox[s].attempts \in 0 .. MaxAttempts /\ MaxAttempts \in Nat
        BY <2>1, EventTypes, EventAssumption DEF EventInv, InboxRow, EventAssumption
      <3>3. QED
        BY <3>1, <3>2 DEF WorkTypes
    <2>5. QED
      BY <2>2, <2>3, <2>4 DEF EventInv, EventsInOrder
  <1>2. QED
    BY <1>1, EventInvariance, PTL

-----------------------------------------------------------------------------
(* A client that waits: the inductive invariant *)

ValidOffers == {o \in [key: AllKeys, seq: 1 .. 2] : o.seq <= Len(Log(o.key))}
EventFrames == {f \in [type: {"event"}, key: AllKeys, seq: 1 .. 2] : f.seq <= Len(Log(f.key))}
DoneFrame == [type |-> "done", key |-> "task", seq |-> 1]
EventFrame(e) == [type |-> "event", key |-> e.key, seq |-> e.seq]

PumpType == [up: BOOLEAN, set: SUBSET AllKeys, floor: [AllKeys -> 0 .. 2], fresh: SUBSET AllKeys,
             replay: [key: AllKeys \cup {"none"}, upto: 0 .. 2], queue: Seq(ValidOffers),
             frames: Seq(EventFrames \cup {DoneFrame})]
HandoffType == [phase: {"none", "offer", "await", "normal"}, seq: 0 .. 2, waiter: 0 .. streams,
                tried: SUBSET (1 .. streams)]
ClientType == [phase: {"connect", "open", "done", "dead"}, set: SUBSET AllKeys, next: BOOLEAN, woke: BOOLEAN]

GivenUp == [key: AllKeys \ {"job"}, seq: 1 .. 2]

InboxTypes ==
    /\ follows \in Follows /\ produced \in [AllKeys -> 0 .. 2] /\ settled \in [AllKeys -> 0 .. 2]
    /\ unheard \subseteq GivenUp
RegistryTypes ==
    /\ handoff \in [AllKeys -> HandoffType] /\ watched \in [AllKeys -> Seq(1 .. streams)]
    /\ expects \subseteq [waiter: 1 .. streams, key: AllKeys, seq: 1 .. 2]
StreamTypes ==
    /\ streams \in 0 .. MaxStreams /\ pump \in [1 .. MaxStreams -> PumpType]
    /\ client \in ClientType /\ waitFaults \in 0 .. MaxWaitFaults

\* A worker hands off the first event that is not settled
Settling ==
    \A k \in AllKeys :
        /\ settled[k] <= produced[k] /\ produced[k] <= Len(Log(k))
        /\ handoff[k].phase # "none" => settled[k] < produced[k]
        /\ handoff[k].phase \in {"await", "normal"} => handoff[k].seq = settled[k] + 1

\* A confirmation is of a line that was printed
AcksArePrinted == \A ack \in acks : /\ ack.key \in AllKeys
                                    /\ [key |-> ack.key, seq |-> ack.seq] \in printed

\* The event that ends what the client follows
End(f) == CASE f = "task"  -> [key |-> "task", seq |-> 2]
            [] f = "chain" -> [key |-> "next", seq |-> 1]
            [] f = "job"   -> [key |-> "job", seq |-> 1]
EndReached == End(follows) \in notified \cup printed \cup unheard

\* The client has nothing left to follow only after the end
Following ==
    /\ client.set \subseteq Keys(follows) /\ (client.set = {} => EndReached)
    /\ client.phase = "done" /\ ~client.woke => EndReached
    /\ client.phase = "open" => streams > 0

\* A stream was opened for what the client follows, replays only what is settled,
\* and says done once, as the last it says and with nothing left to follow
StreamFits(w) ==
    /\ pump[w].up => w <= streams
    /\ pump[w].set \subseteq Keys(follows)
    /\ pump[w].replay.key # "none" => pump[w].replay.upto <= settled[pump[w].replay.key]
    /\ \A i \in 1 .. Len(pump[w].frames) : pump[w].frames[i] = DoneFrame =>
          i = Len(pump[w].frames) /\ ~pump[w].up /\ pump[w].set = {}

\* A stream with nothing left has told its client the end, or is about to
OnItsWay(w) == \E i \in 1 .. Len(pump[w].frames) : pump[w].frames[i] = EventFrame(End(follows))
EndIsPassedOn == client.phase = "open" /\ pump[streams].set = {} => EndReached \/ OnItsWay(streams)

Streaming == (\A w \in 1 .. MaxStreams : StreamFits(w)) /\ EndIsPassedOn

WaitInv ==
    /\ InboxTypes /\ RegistryTypes /\ StreamTypes
    /\ Settling /\ AcksArePrinted /\ SettledReached /\ Following /\ Streaming


-----------------------------------------------------------------------------
(* Logs, waits and the registry's sequences *)

\* What the logs hold
LEMMA LogFacts ==
    /\ Log("task") = <<"TASK_REPORTED", "TASK_SUCCEEDED">> /\ Log("parks") = <<"TASK_WAITING">>
    /\ Log("next") = <<"TASK_SUCCEEDED">> /\ Log("job") = <<"JOB_SUCCEEDED", "JOB_ATTENTION">>
    /\ Len(Log("task")) = 2 /\ Len(Log("parks")) = 1 /\ Len(Log("next")) = 1 /\ Len(Log("job")) = 2
  <1>1. Log("task") = <<"TASK_REPORTED", "TASK_SUCCEEDED">>
    BY DEF Log
  <1>2. Log("parks") = <<"TASK_WAITING">>
    BY DEF Log
  <1>3. Log("next") = <<"TASK_SUCCEEDED">>
    BY DEF Log
  <1>4. Log("job") = <<"JOB_SUCCEEDED", "JOB_ATTENTION">>
    BY DEF Log
  <1>5. QED
    BY <1>1, <1>2, <1>3, <1>4

LEMMA LogLengths == \A k \in AllKeys : Len(Log(k)) \in 1 .. 2
  BY LogFacts DEF AllKeys

\* What the client follows
LEMMA FollowFacts ==
    ASSUME InboxTypes
    PROVE  follows \in {"task", "chain", "job"}
  BY WaitAssumption DEF InboxTypes, WaitAssumption

LEMMA KeyFacts ==
    /\ Keys("task") = {"task"} /\ Keys("chain") = {"parks", "next"} /\ Keys("job") = {"job"}
    /\ End("task") = [key |-> "task", seq |-> 2] /\ End("chain") = [key |-> "next", seq |-> 1]
    /\ End("job") = [key |-> "job", seq |-> 1]
  <1>1. Keys("task") = {"task"} /\ End("task") = [key |-> "task", seq |-> 2]
    BY DEF Keys, End
  <1>2. Keys("chain") = {"parks", "next"} /\ End("chain") = [key |-> "next", seq |-> 1]
    BY DEF Keys, End
  <1>3. Keys("job") = {"job"} /\ End("job") = [key |-> "job", seq |-> 1]
    BY DEF Keys, End
  <1>4. QED
    BY <1>1, <1>2, <1>3

\* A wait for f, and the event that ends it
Waits(f) == SUBSET Keys(f)
EndsWith(f, S, key, seq) ==
    S # {} /\ apply(S, key, seq) = {} => [key |-> key, seq |-> seq] = End(f)
Happens(key, seq) == seq \in 1 .. 2 /\ seq <= Len(Log(key))
Targets == {"task", "chain", "job"}

\* A wait goes on to the targets of what it follows, and ends with the event
\* that ends it
LEMMA ApplyFacts ==
    ASSUME NEW f \in Targets, NEW S \in Waits(f), NEW key \in AllKeys, NEW seq, Happens(key, seq)
    PROVE  apply(S, key, seq) \in Waits(f) /\ EndsWith(f, S, key, seq)
  <1> f \in {"task", "chain", "job"} /\ S \in SUBSET Keys(f) /\ seq \in 1 .. 2 /\ seq <= Len(Log(key))
    BY DEF Targets, Waits, Happens
  <1> SUFFICES /\ apply(S, key, seq) \in SUBSET Keys(f)
               /\ (S # {} /\ apply(S, key, seq) = {} => [key |-> key, seq |-> seq] = End(f))
    BY DEF Waits, EndsWith
  <1>1. CASE key \notin S
    BY <1>1 DEF apply
  <1>2. CASE key \in S /\ key = "task"
    <2>1. f = "task"
      BY <1>2, KeyFacts
    <2>2. CASE seq = 1
      <3>1. Log(key)[seq] = "TASK_REPORTED"
        BY <1>2, <2>2, LogFacts
      <3>2. apply(S, key, seq) = S
        BY <1>2, <3>1 DEF apply, ends_wait, job_ends_wait
      <3>3. QED
        BY <3>2
    <2>3. CASE seq = 2
      <3>1. Log(key)[seq] = "TASK_SUCCEEDED"
        BY <1>2, <2>3, LogFacts
      <3>2. apply(S, key, seq) = S \ {key}
        BY <1>2, <3>1 DEF apply, ends_wait, job_ends_wait
      <3>3. QED
        BY <1>2, <2>1, <2>3, <3>2, KeyFacts
    <2>4. QED
      BY <2>2, <2>3
  <1>3. CASE key \in S /\ key = "parks"
    <2>1. f = "chain" /\ seq = 1
      BY <1>3, KeyFacts, LogFacts
    <2>2. Log(key)[seq] = "TASK_WAITING"
      BY <1>3, <2>1, LogFacts
    <2>3. apply(S, key, seq) = (S \ {key}) \cup {"next"}
      BY <1>3, <2>2 DEF apply
    <2>4. QED
      BY <2>1, <2>3, KeyFacts
  <1>4. CASE key \in S /\ key = "next"
    <2>1. f = "chain" /\ seq = 1
      BY <1>4, KeyFacts, LogFacts
    <2>2. Log(key)[seq] = "TASK_SUCCEEDED"
      BY <1>4, <2>1, LogFacts
    <2>3. apply(S, key, seq) = S \ {key}
      BY <1>4, <2>2 DEF apply, ends_wait, job_ends_wait
    <2>4. QED
      BY <1>4, <2>1, <2>3, KeyFacts
  <1>5. CASE key \in S /\ key = "job"
    <2>1. f = "job"
      BY <1>5, KeyFacts
    <2>2. CASE seq = 1
      <3>1. Log(key)[seq] = "JOB_SUCCEEDED"
        BY <1>5, <2>2, LogFacts
      <3>2. apply(S, key, seq) = S \ {key}
        BY <1>5, <3>1 DEF apply, ends_wait, job_ends_wait
      <3>3. QED
        BY <1>5, <2>1, <2>2, <3>2, KeyFacts
    <2>3. CASE seq = 2
      <3>1. Log(key)[seq] = "JOB_ATTENTION"
        BY <1>5, <2>3, LogFacts
      <3>2. apply(S, key, seq) = S
        BY <1>5, <3>1 DEF apply, ends_wait, job_ends_wait
      <3>3. QED
        BY <3>2
    <2>4. QED
      BY <2>2, <2>3
  <1>6. QED
    BY <1>1, <1>2, <1>3, <1>4, <1>5 DEF AllKeys

LEMMA KeysAreKeys == \A f \in {"task", "chain", "job"} : Keys(f) \in SUBSET AllKeys
  BY KeyFacts DEF AllKeys

\* A sequence without the first of an element is of the same elements
LEMMA RemovedType ==
    ASSUME NEW T, NEW s \in Seq(T), NEW e
    PROVE  RemoveFirst(s, e) \in Seq(T)
  <1>1. CASE ~(\E i \in 1 .. Len(s) : s[i] = e)
    BY <1>1 DEF RemoveFirst
  <1>2. CASE \E i \in 1 .. Len(s) : s[i] = e
    <2> DEFINE I == {i \in 1 .. Len(s) : s[i] = e}
    <2>1. I \in SUBSET Nat /\ I # {}
      BY <1>2
    <2>2. SelectInSeq(s, LAMBDA v : v = e) = Min(I)
      BY <2>1 DEF SelectInSeq
    <2>3. Min(I) \in I
      <3> HIDE DEF I
      <3>1. \E m \in I : \A n \in I : m <= n
        BY <2>1, NatMin
      <3>2. QED
        BY <3>1 DEF Min
    <2>4. PICK m \in 1 .. Len(s) : m = SelectInSeq(s, LAMBDA v : v = e)
      BY <2>2, <2>3
    <2>5. RemoveFirst(s, e) = SubSeq(s, 1, m - 1) \o SubSeq(s, m + 1, Len(s))
      BY <1>2, <2>4 DEF RemoveFirst, RemoveAt
    <2>6. SubSeq(s, 1, m - 1) \in Seq(T) /\ SubSeq(s, m + 1, Len(s)) \in Seq(T)
      OBVIOUS
    <2>7. QED
      BY <2>5, <2>6
  <1>3. QED
    BY <1>1, <1>2

\* The stream that an event is offered to is one that was opened
LEMMA MostRecentIs ==
    ASSUME NEW key \in AllKeys, RegistryTypes, StreamTypes, candidate(key) # {}
    PROVE  MostRecent(key) \in 1 .. streams
  <1> DEFINE s == watched[key]
             I == {i \in 1 .. Len(s) : s[i] \in candidate(key)}
  <1>1. s \in Seq(1 .. streams) /\ Len(s) \in Nat /\ DOMAIN s = 1 .. Len(s)
    BY DEF RegistryTypes
  <1>2. I \in SUBSET (0 .. Len(s)) /\ I # {}
    BY <1>1 DEF candidate, Range
  <1>3. MostRecent(key) = s[Max(I)]
    BY <1>2 DEF MostRecent, SelectLastInSeq
  <1>4. Max(I) \in I
    <2> HIDE DEF I, s
    <2>1. \E m \in I : \A n \in I : n <= m
      BY <1>1, <1>2, BoundedMax
    <2>2. PICK m \in I : \A n \in I : n <= m
      BY <2>1
    <2>3. m \in I /\ \A n \in I : m >= n
      BY <1>1, <1>2, <2>2
    <2>4. QED
      BY <2>3 DEF Max
  <1>5. PICK m \in 1 .. Len(s) : m = Max(I)
    BY <1>4
  <1> HIDE DEF I, s
  <1>6. s[m] \in 1 .. streams
    BY <1>1, <1>5, ElementOfSeq
  <1>7. QED
    BY <1>3, <1>5, <1>6


-----------------------------------------------------------------------------
(* The inbox workers *)

\* What keeps a part: the variables it reads
LEMMA InboxRests ==
    ASSUME InboxTypes, UNCHANGED <<follows, produced, settled, unheard>>
    PROVE  InboxTypes'
  BY DEF InboxTypes

LEMMA RegistryRests ==
    ASSUME RegistryTypes, UNCHANGED <<handoff, watched, expects, streams>>
    PROVE  RegistryTypes'
  BY DEF RegistryTypes, HandoffType

LEMMA StreamTypesRest ==
    ASSUME StreamTypes, UNCHANGED <<streams, pump, client, waitFaults>>
    PROVE  StreamTypes'
  BY DEF StreamTypes

LEMMA SettlingRests ==
    ASSUME Settling, UNCHANGED <<settled, produced, handoff>>
    PROVE  Settling'
  BY DEF Settling

LEMMA AcksRest ==
    ASSUME AcksArePrinted, UNCHANGED printed, acks' \subseteq acks
    PROVE  AcksArePrinted'
  BY DEF AcksArePrinted

\* What the agent has heard is not unheard
LEMMA ReachedRests ==
    ASSUME SettledReached, UNCHANGED settled, notified \cup printed \cup unheard \subseteq notified' \cup printed' \cup unheard'
    PROVE  SettledReached'
  BY DEF SettledReached, Reached

LEMMA FollowingRests ==
    ASSUME Following, UNCHANGED <<follows, client, streams>>,
           notified \cup printed \cup unheard \subseteq notified' \cup printed' \cup unheard'
    PROVE  Following'
  <1>1. EndReached => EndReached'
    BY DEF EndReached
  <1>2. QED
    BY <1>1 DEF Following

\* Streams that tell the same, while more is settled or heard
LEMMA StreamingRests ==
    ASSUME InboxTypes, InboxTypes', StreamTypes, Streaming, UNCHANGED <<follows, client, streams>>,
           notified \cup printed \cup unheard \subseteq notified' \cup printed' \cup unheard',
           \A k \in AllKeys : settled[k] <= settled'[k],
           \A w \in 1 .. MaxStreams :
             /\ pump'[w].set = pump[w].set /\ pump'[w].replay = pump[w].replay
             /\ pump'[w].frames = pump[w].frames /\ pump'[w].up = pump[w].up,
           client.phase = "open" => streams > 0
    PROVE  Streaming'
  <1>1. EndReached => EndReached'
    BY DEF EndReached
  <1>2. ASSUME NEW w \in 1 .. MaxStreams PROVE StreamFits(w)'
    <2>1. StreamFits(w)
      BY DEF Streaming
    <2>2. pump[w] \in PumpType
      BY DEF StreamTypes
    <2>3. (pump[w].replay.key # "none" => pump[w].replay.upto <= settled[pump[w].replay.key])'
      <3>1. SUFFICES ASSUME pump[w].replay.key # "none"
                     PROVE  pump[w].replay.upto <= settled'[pump[w].replay.key]
        OBVIOUS
      <3>2. PICK k \in AllKeys : k = pump[w].replay.key
        BY <2>2, <3>1 DEF PumpType
      <3>3. pump[w].replay.upto \in 0 .. 2
        BY <2>2 DEF PumpType
      <3>4. settled[k] \in 0 .. 2 /\ settled'[k] \in 0 .. 2
        BY DEF InboxTypes
      <3>5. QED
        BY <2>1, <3>1, <3>2, <3>3, <3>4 DEF StreamFits
    <2>4. QED
      BY <2>1, <2>3 DEF StreamFits
  <1>3. EndIsPassedOn'
    <2>1. SUFFICES ASSUME client.phase = "open" PROVE EndIsPassedOn'
      BY DEF EndIsPassedOn
    <2>2. streams \in 1 .. MaxStreams
      BY <2>1 DEF StreamTypes
    <2>3. OnItsWay(streams)' <=> OnItsWay(streams)
      BY <2>2 DEF OnItsWay
    <2>4. QED
      BY <1>1, <2>2, <2>3 DEF EndIsPassedOn, Streaming
  <1>4. QED
    BY <1>2, <1>3 DEF Streaming

LEMMA StreamsRest ==
    ASSUME InboxTypes, StreamTypes, Streaming, Following, UNCHANGED <<follows, settled, client, streams, pump>>,
           notified \cup printed \cup unheard \subseteq notified' \cup printed' \cup unheard'
    PROVE  Streaming'
  <1>1. EndReached => EndReached'
    BY DEF EndReached
  <1>2. \A w \in 1 .. MaxStreams : StreamFits(w)'
    BY DEF Streaming, StreamFits
  <1>3. OnItsWay(streams)' <=> OnItsWay(streams)
    BY DEF OnItsWay
  <1>4. QED
    BY <1>1, <1>2, <1>3 DEF Streaming, EndIsPassedOn

LEMMA WaitFaultCounts ==
    ASSUME WaitFault, waitFaults \in 0 .. MaxWaitFaults
    PROVE  waitFaults' \in 0 .. MaxWaitFaults
  BY WaitAssumption DEF WaitFault, WaitAssumption

LEMMA KeepsByAcceptEvent ==
    ASSUME WaitInv, NEW key \in AllKeys, accept_event(key)
    PROVE  WaitInv'
  <1>1. InboxTypes /\ RegistryTypes /\ StreamTypes /\ Settling /\ AcksArePrinted /\ SettledReached
        /\ Following /\ Streaming
    BY DEF WaitInv
  <1>2. UNCHANGED <<follows, settled, handoff, watched, expects, pump, streams, client, acks, notified,
                    unheard, printed, waitFaults>>
    BY DEF accept_event, Registry
  <1>3. produced' = [produced EXCEPT ![key] = @ + 1] /\ produced[key] < Len(Log(key))
    BY DEF accept_event
  <1>4. Len(Log(key)) \in 1 .. 2 /\ produced[key] \in 0 .. 2
    BY <1>1, LogLengths DEF InboxTypes
  <1>5. produced[key] + 1 \in 0 .. 2
    <2>1. \A n \in 0 .. 2 : \A m \in 1 .. 2 : n < m => n + 1 \in 0 .. 2
      OBVIOUS
    <2>2. QED
      BY <1>3, <1>4, <2>1
  <1>6. InboxTypes'
    BY <1>1, <1>2, <1>3, <1>5 DEF InboxTypes
  <1>7. Settling'
    <2>1. ASSUME NEW k \in AllKeys
          PROVE  produced[k] <= produced'[k] /\ produced'[k] <= Len(Log(k))
      <3>1. produced[k] \in 0 .. 2 /\ produced[k] <= Len(Log(k))
        BY <1>1 DEF InboxTypes, Settling
      <3>2. DOMAIN produced = AllKeys
        BY <1>1 DEF InboxTypes
      <3>3. QED
        BY <1>3, <1>4, <3>1, <3>2
    <2>2. ASSUME NEW k \in AllKeys
          PROVE  settled[k] \in 0 .. 2 /\ produced[k] \in 0 .. 2 /\ produced'[k] \in 0 .. 2
      BY <1>1, <1>6 DEF InboxTypes
    <2>3. QED
      BY <1>1, <1>2, <2>1, <2>2 DEF Settling
  <1>8. RegistryTypes' /\ StreamTypes' /\ AcksArePrinted' /\ SettledReached' /\ Following'
    BY <1>1, <1>2, RegistryRests, StreamTypesRest, AcksRest, ReachedRests, FollowingRests
  <1>9. Streaming'
    BY <1>1, <1>2, StreamsRest
  <1>10. QED
    BY <1>6, <1>7, <1>8, <1>9 DEF WaitInv

\* An offer is of the first event that is not settled
LEMMA OfferFacts ==
    ASSUME InboxTypes, Settling, NEW key \in AllKeys, Offering(key)
    PROVE  /\ settled[key] < produced[key] /\ settled[key] + 1 \in 1 .. 2
           /\ settled[key] + 1 <= Len(Log(key))
  <1>1. settled[key] < produced[key]
    BY DEF Offering, Settling
  <1>2. settled[key] \in 0 .. 2 /\ produced[key] \in 0 .. 2 /\ produced[key] <= Len(Log(key))
    BY DEF InboxTypes, Settling
  <1>3. QED
    BY <1>1, <1>2, LogLengths

LEMMA KeepsByOffer ==
    ASSUME WaitInv, NEW key \in AllKeys, offer(key)
    PROVE  WaitInv'
  <1>1. InboxTypes /\ RegistryTypes /\ StreamTypes /\ Settling /\ AcksArePrinted /\ SettledReached
        /\ Following /\ Streaming
    BY DEF WaitInv
  <1>2. UNCHANGED <<follows, produced, settled, notified, unheard, watched, streams, client, acks, printed, waitFaults>>
    BY DEF offer, Inbox
  <1>3. PICK w \in 1 .. streams : w = MostRecent(key)
    BY <1>1, MostRecentIs DEF offer
  <1>4. PICK seq \in 1 .. 2 : seq = settled[key] + 1
    BY <1>1, OfferFacts DEF offer
  <1>5. settled[key] < produced[key] /\ seq <= Len(Log(key))
    BY <1>1, <1>4, OfferFacts DEF offer
  <1>6. /\ expects' = expects \cup {[waiter |-> w, key |-> key, seq |-> seq]}
        /\ pump' = [pump EXCEPT ![w].queue = Append(@, [key |-> key, seq |-> seq])]
        /\ handoff' = [handoff EXCEPT ![key] = [phase |-> "await", seq |-> seq, waiter |-> w,
                                                tried |-> handoff[key].tried \cup {w}]]
    BY <1>1, <1>3, <1>4 DEF offer, Expect, RegistryTypes
  <1>7. w \in 1 .. MaxStreams /\ pump[w] \in PumpType /\ streams \in Nat
    <2>1. streams \in Nat /\ MaxStreams \in Nat /\ streams <= MaxStreams
      BY <1>1, WaitAssumption DEF StreamTypes, WaitAssumption
    <2>2. w \in 1 .. MaxStreams
      BY <2>1
    <2>3. QED
      BY <1>1, <2>1, <2>2 DEF StreamTypes
  <1>8. [key |-> key, seq |-> seq] \in ValidOffers
    BY <1>5 DEF ValidOffers
  <1>9. pump' \in [1 .. MaxStreams -> PumpType]
    <2>1. Append(pump[w].queue, [key |-> key, seq |-> seq]) \in Seq(ValidOffers)
      BY <1>7, <1>8 DEF PumpType
    <2>2. PICK q \in Seq(ValidOffers) : q = Append(pump[w].queue, [key |-> key, seq |-> seq])
      BY <2>1
    <2>3. [pump[w] EXCEPT !.queue = q] \in PumpType
      BY <1>7 DEF PumpType
    <2>4. pump' = [pump EXCEPT ![w] = [pump[w] EXCEPT !.queue = q]]
      BY <1>6, <2>2
    <2>5. pump \in [1 .. MaxStreams -> PumpType]
      BY <1>1 DEF StreamTypes
    <2>6. QED
      BY <1>7, <2>3, <2>4, <2>5
  <1>10. StreamTypes'
    BY <1>1, <1>2, <1>9 DEF StreamTypes
  <1>11. RegistryTypes'
    <2>1. handoff[key].tried \cup {w} \in SUBSET (1 .. streams)
      BY <1>1 DEF RegistryTypes, HandoffType
    <2>2. PICK h \in HandoffType : h = [phase |-> "await", seq |-> seq, waiter |-> w,
                                        tried |-> handoff[key].tried \cup {w}]
      <3>1. w \in 0 .. streams /\ seq \in 0 .. 2
        BY <1>7
      <3>2. QED
        BY <2>1, <3>1 DEF HandoffType
    <2>3. handoff' \in [AllKeys -> HandoffType]
      BY <1>1, <1>6, <2>2 DEF RegistryTypes
    <2>4. HandoffType' = HandoffType
      BY <1>2 DEF HandoffType
    <2>5. expects' \subseteq [waiter: 1 .. streams, key: AllKeys, seq: 1 .. 2]
      BY <1>1, <1>6 DEF RegistryTypes
    <2>6. QED
      BY <1>1, <1>2, <2>3, <2>4, <2>5 DEF RegistryTypes
  <1>12. Settling'
    <2>1. DOMAIN handoff = AllKeys
      BY <1>1 DEF RegistryTypes
    <2>2. QED
      BY <1>1, <1>2, <1>4, <1>5, <1>6, <2>1 DEF Settling
  <1>13. InboxTypes' /\ AcksArePrinted' /\ SettledReached' /\ Following'
    BY <1>1, <1>2, InboxRests, AcksRest, ReachedRests, FollowingRests
  <1>14. Streaming'
    <2>1. \A v \in 1 .. MaxStreams :
             /\ pump'[v].set = pump[v].set /\ pump'[v].replay = pump[v].replay
             /\ pump'[v].frames = pump[v].frames /\ pump'[v].up = pump[v].up
      BY <1>1, <1>6 DEF StreamTypes, PumpType
    <2>2. \A k \in AllKeys : settled[k] <= settled'[k]
      BY <1>1, <1>2 DEF InboxTypes
    <2>3. client.phase = "open" => streams > 0
      BY <1>1 DEF Following
    <2>4. QED
      BY <1>1, <1>2, <1>13, <2>1, <2>2, <2>3, StreamingRests
  <1>15. QED
    BY <1>10, <1>11, <1>12, <1>13, <1>14 DEF WaitInv


LEMMA KeepsByOfferFails ==
    ASSUME WaitInv, NEW key \in AllKeys, offer_fails(key)
    PROVE  WaitInv'
  <1>1. InboxTypes /\ RegistryTypes /\ StreamTypes /\ Settling /\ AcksArePrinted /\ SettledReached
        /\ Following /\ Streaming
    BY DEF WaitInv
  <1>2. UNCHANGED <<follows, produced, settled, notified, unheard, watched, pump, streams, client, acks, printed,
                    waitFaults>>
    BY DEF offer_fails, Inbox
  <1>3. /\ handoff[key].phase = "await" /\ expects' \subseteq expects
        /\ handoff' = [handoff EXCEPT ![key] = [handoff[key] EXCEPT !.phase = "offer"]]
    BY DEF offer_fails
  <1>4. RegistryTypes'
    <2>1. PICK h \in HandoffType : h = [handoff[key] EXCEPT !.phase = "offer"]
      BY <1>1 DEF RegistryTypes, HandoffType
    <2>2. handoff' \in [AllKeys -> HandoffType]
      BY <1>1, <1>3, <2>1 DEF RegistryTypes
    <2>3. HandoffType' = HandoffType
      BY <1>2 DEF HandoffType
    <2>4. QED
      BY <1>1, <1>2, <1>3, <2>2, <2>3 DEF RegistryTypes
  <1>5. Settling'
    <2>1. DOMAIN handoff = AllKeys /\ \A k \in AllKeys : handoff[k] \in HandoffType
      BY <1>1 DEF RegistryTypes
    <2>2. handoff'[key].phase = "offer"
      BY <1>3, <2>1 DEF HandoffType
    <2>3. \A k \in AllKeys : k # key => handoff'[k] = handoff[k]
      BY <1>3, <2>1
    <2>4. QED
      BY <1>1, <1>2, <1>3, <2>2, <2>3 DEF Settling
  <1>6. InboxTypes' /\ StreamTypes' /\ AcksArePrinted' /\ SettledReached' /\ Following'
    BY <1>1, <1>2, InboxRests, StreamTypesRest, AcksRest, ReachedRests, FollowingRests
  <1>7. Streaming'
    BY <1>1, <1>2, StreamsRest
  <1>8. QED
    BY <1>4, <1>5, <1>6, <1>7 DEF WaitInv

\* An event that reached the agent or was given up is settled as the next
LEMMA SettleKeeps ==
    ASSUME WaitInv, NEW key \in AllKeys, Settle(key), handoff[key].phase \in {"await", "normal"},
           [key |-> key, seq |-> handoff[key].seq] \in notified' \cup printed' \cup unheard',
           notified \cup printed \cup unheard \subseteq notified' \cup printed' \cup unheard',
           unheard' \subseteq GivenUp, waitFaults' \in 0 .. MaxWaitFaults,
           UNCHANGED <<follows, produced, watched, pump, streams, client, printed>>,
           expects' \subseteq expects, acks' \subseteq acks
    PROVE  WaitInv'
  <1>1. InboxTypes /\ RegistryTypes /\ StreamTypes /\ Settling /\ AcksArePrinted /\ SettledReached
        /\ Following /\ Streaming
    BY DEF WaitInv
  <1>2. /\ settled' = [settled EXCEPT ![key] = handoff[key].seq]
        /\ handoff' = [handoff EXCEPT ![key] = NoOffer]
    BY DEF Settle
  <1>3. handoff[key].seq = settled[key] + 1 /\ settled[key] < produced[key]
    BY <1>1 DEF Settling
  <1>4. ASSUME NEW k \in AllKeys
        PROVE  settled[k] \in 0 .. 2 /\ produced[k] \in 0 .. 2 /\ produced[k] <= Len(Log(k))
               /\ settled[k] <= produced[k] /\ Len(Log(k)) \in Nat
    <2>1. Len(Log(k)) \in Nat
      BY LogLengths
    <2>2. settled[k] \in 0 .. 2 /\ produced[k] \in 0 .. 2
      BY <1>1 DEF InboxTypes
    <2>3. QED
      BY <1>1, <2>1, <2>2 DEF Settling
  <1>5. settled[key] + 1 \in 0 .. 2 /\ settled[key] + 1 <= produced[key]
    BY <1>3, <1>4
  <1>6. InboxTypes'
    BY <1>1, <1>2, <1>3, <1>5 DEF InboxTypes
  <1>7. /\ settled'[key] = settled[key] + 1
        /\ \A k \in AllKeys : k # key => settled'[k] = settled[k]
    BY <1>1, <1>2, <1>3 DEF InboxTypes
  <1>8. RegistryTypes'
    <2>1. NoOffer \in HandoffType
      <3>1. streams \in Nat
        BY <1>1 DEF StreamTypes
      <3>2. 0 \in 0 .. streams
        BY <3>1
      <3>3. QED
        BY <3>2 DEF NoOffer, HandoffType
    <2>2. handoff' \in [AllKeys -> HandoffType]
      BY <1>1, <1>2, <2>1 DEF RegistryTypes
    <2>3. HandoffType' = HandoffType
      BY DEF HandoffType
    <2>4. QED
      BY <1>1, <2>2, <2>3 DEF RegistryTypes
  <1>9. Settling'
    <2>1. DOMAIN handoff = AllKeys
      BY <1>1 DEF RegistryTypes
    <2>2. handoff'[key].phase = "none" /\ \A k \in AllKeys : k # key => handoff'[k] = handoff[k]
      BY <1>2, <2>1 DEF NoOffer
    <2>3. QED
      BY <1>1, <1>4, <1>5, <1>7, <2>2 DEF Settling
  <1>10. SettledReached'
    <2>1. ASSUME NEW k \in AllKeys, NEW n \in 1 .. settled'[k]
          PROVE  [key |-> k, seq |-> n] \in notified' \cup printed' \cup unheard'
      <3>1. CASE k # key \/ n # settled[key] + 1
        <4>1. n \in 1 .. settled[k]
          BY <1>4, <1>7, <3>1
        <4>2. [key |-> k, seq |-> n] \in notified \cup printed \cup unheard
          BY <1>1, <4>1 DEF SettledReached, Reached
        <4>3. QED
          BY <4>2
      <3>2. CASE k = key /\ n = settled[key] + 1
        BY <1>3, <3>2
      <3>3. QED
        BY <3>1, <3>2
    <2>2. QED
      BY <2>1 DEF SettledReached, Reached
  <1>11. StreamTypes' /\ AcksArePrinted' /\ Following'
    BY <1>1, AcksRest, FollowingRests DEF StreamTypes
  <1>12. Streaming'
    <2>1. \A k \in AllKeys : settled[k] <= settled'[k]
      BY <1>4, <1>7
    <2>2. client.phase = "open" => streams > 0
      BY <1>1 DEF Following
    <2>3. QED
      BY <1>1, <1>6, <2>1, <2>2, StreamingRests
  <1>13. QED
    BY <1>6, <1>8, <1>9, <1>10, <1>11, <1>12 DEF WaitInv

LEMMA KeepsByConfirm ==
    ASSUME WaitInv, NEW ack \in acks, confirm(ack)
    PROVE  WaitInv'
  <1>1. InboxTypes /\ RegistryTypes /\ StreamTypes /\ Settling /\ AcksArePrinted /\ SettledReached
        /\ Following /\ Streaming
    BY DEF WaitInv
  <1>2. /\ UNCHANGED <<follows, produced, notified, unheard, watched, pump, streams, client, printed, waitFaults>>
        /\ expects' \subseteq expects /\ acks' \subseteq acks
    BY DEF confirm
  <1>3. ack.key \in AllKeys /\ [key |-> ack.key, seq |-> ack.seq] \in printed
    BY <1>1 DEF AcksArePrinted
  <1>4. CASE handoff[ack.key].phase = "await" /\ Confirms(ack, ack.key)
    <2>1. ack.seq = handoff[ack.key].seq
      BY <1>4 DEF Confirms, Awaited
    <2>2. Settle(ack.key)
      BY <1>4 DEF confirm
    <2>3. unheard' \subseteq GivenUp /\ waitFaults' \in 0 .. MaxWaitFaults
      BY <1>1, <1>2 DEF InboxTypes, StreamTypes
    <2>4. QED
      BY <1>2, <1>3, <1>4, <2>1, <2>2, <2>3, SettleKeeps
  <1>5. CASE ~(handoff[ack.key].phase = "await" /\ Confirms(ack, ack.key))
    <2>1. UNCHANGED <<handoff, settled>>
      BY <1>5 DEF confirm
    <2>2. RegistryTypes'
      BY <1>1, <1>2, <2>1 DEF RegistryTypes, HandoffType
    <2>3. InboxTypes' /\ StreamTypes' /\ Settling' /\ AcksArePrinted' /\ SettledReached' /\ Following'
      BY <1>1, <1>2, <2>1, InboxRests, StreamTypesRest, SettlingRests, AcksRest, ReachedRests, FollowingRests
    <2>4. Streaming'
      BY <1>1, <1>2, <2>1, StreamsRest
    <2>5. QED
      BY <2>2, <2>3, <2>4 DEF WaitInv
  <1>6. QED
    BY <1>4, <1>5

LEMMA KeepsBySettleLine ==
    ASSUME WaitInv, NEW key \in AllKeys, settle(key)
    PROVE  WaitInv'
  <1>1. unheard \subseteq GivenUp /\ waitFaults \in 0 .. MaxWaitFaults
    BY DEF WaitInv, InboxTypes, StreamTypes
  <1>2. Settle(key) /\ handoff[key].phase = "normal"
    BY DEF settle
  <1>3. /\ UNCHANGED <<follows, produced, unheard, watched, pump, streams, client, printed, waitFaults>>
        /\ expects' \subseteq expects /\ acks' \subseteq acks
    BY DEF settle, Registry
  <1>4. notified' = notified \cup {[key |-> key, seq |-> handoff[key].seq]}
    BY DEF settle, Delivering
  <1>5. QED
    BY <1>1, <1>2, <1>3, <1>4, SettleKeeps

LEMMA KeepsBySettleUnheard ==
    ASSUME WaitInv, NEW key \in AllKeys, settle_unheard(key)
    PROVE  WaitInv'
  <1>1. InboxTypes /\ Settling
    BY DEF WaitInv
  <1>2. Settle(key) /\ handoff[key].phase = "normal" /\ key # "job"
    BY DEF settle_unheard
  <1>3. /\ UNCHANGED <<follows, produced, notified, watched, pump, streams, client, printed>> /\ WaitFault
        /\ expects' \subseteq expects /\ acks' \subseteq acks
    BY DEF settle_unheard, Registry
  <1>4. unheard' = unheard \cup {[key |-> key, seq |-> handoff[key].seq]}
    BY DEF settle_unheard, Delivering
  <1>5. handoff[key].seq \in 1 .. 2
    <2>1. settled[key] \in 0 .. 2 /\ produced[key] \in 0 .. 2
      BY <1>1 DEF InboxTypes
    <2>2. handoff[key].seq = settled[key] + 1 /\ settled[key] < produced[key]
      BY <1>1, <1>2 DEF Settling
    <2>3. QED
      BY <2>1, <2>2
  <1>6. unheard' \subseteq GivenUp /\ waitFaults' \in 0 .. MaxWaitFaults
    <2>1. waitFaults \in 0 .. MaxWaitFaults
      BY DEF WaitInv, StreamTypes
    <2>2. waitFaults' \in 0 .. MaxWaitFaults
      BY <1>3, <2>1, WaitFaultCounts
    <2>3. QED
      BY <1>1, <1>2, <1>4, <1>5, <2>2 DEF InboxTypes, GivenUp
  <1>7. QED
    BY <1>2, <1>3, <1>4, <1>6, SettleKeeps

\* A failed attempt is forgotten by its worker; the thread may have the line
LEMMA KeepsByRetry ==
    ASSUME WaitInv, NEW key \in AllKeys, NEW taken \in BOOLEAN, retry(key, taken)
    PROVE  WaitInv'
  <1>1. InboxTypes /\ RegistryTypes /\ StreamTypes /\ Settling /\ AcksArePrinted /\ SettledReached
        /\ Following /\ Streaming
    BY DEF WaitInv
  <1>2. UNCHANGED <<follows, produced, settled, unheard, watched, expects, pump, streams, client, acks, printed>>
    BY DEF retry, Registry
  <1>3. handoff' = [handoff EXCEPT ![key] = NoOffer] /\ WaitFault
    BY DEF retry
  <1>4. notified \cup printed \cup unheard \subseteq notified' \cup printed' \cup unheard'
    <2>1. notified \subseteq notified'
      BY DEF retry
    <2>2. QED
      BY <1>2, <2>1
  <1>5. RegistryTypes'
    <2>1. streams \in Nat /\ 0 \in 0 .. streams
      BY <1>1 DEF StreamTypes
    <2>2. NoOffer \in HandoffType
      BY <2>1 DEF NoOffer, HandoffType
    <2>3. handoff' \in [AllKeys -> HandoffType]
      BY <1>1, <1>3, <2>2 DEF RegistryTypes
    <2>4. HandoffType' = HandoffType
      BY <1>2 DEF HandoffType
    <2>5. QED
      BY <1>1, <1>2, <2>3, <2>4 DEF RegistryTypes
  <1>6. StreamTypes'
    <2>1. waitFaults' \in 0 .. MaxWaitFaults
      BY <1>1, <1>3, WaitFaultCounts DEF StreamTypes
    <2>2. QED
      BY <1>1, <1>2, <2>1 DEF StreamTypes
  <1>7. Settling'
    <2>1. DOMAIN handoff = AllKeys
      BY <1>1 DEF RegistryTypes
    <2>2. handoff'[key].phase = "none" /\ \A k \in AllKeys : k # key => handoff'[k] = handoff[k]
      BY <1>3, <2>1 DEF NoOffer
    <2>3. QED
      BY <1>1, <1>2, <2>2 DEF Settling
  <1>8. InboxTypes' /\ AcksArePrinted' /\ SettledReached' /\ Following'
    BY <1>1, <1>2, <1>4, InboxRests, AcksRest, ReachedRests, FollowingRests
  <1>9. Streaming'
    BY <1>1, <1>2, <1>4, StreamsRest
  <1>10. QED
    BY <1>5, <1>6, <1>7, <1>8, <1>9 DEF WaitInv

LEMMA KeepsByDecline ==
    ASSUME WaitInv, NEW key \in AllKeys, decline(key)
    PROVE  WaitInv'
  <1>1. InboxTypes /\ RegistryTypes /\ StreamTypes /\ Settling /\ AcksArePrinted /\ SettledReached
        /\ Following /\ Streaming
    BY DEF WaitInv
  <1>2. UNCHANGED <<follows, produced, settled, notified, unheard, watched, expects, pump, streams, client,
                    acks, printed, waitFaults>>
    BY DEF decline, Inbox, Registry
  <1>3. PICK seq \in 1 .. 2 : seq = settled[key] + 1
    BY <1>1, OfferFacts DEF decline
  <1>4. settled[key] < produced[key]
    BY <1>1, OfferFacts DEF decline
  <1>5. handoff' = [handoff EXCEPT ![key] = [NoOffer EXCEPT !.phase = "normal", !.seq = seq]]
    BY <1>3 DEF decline
  <1>6. streams \in Nat /\ 0 \in 0 .. streams
    BY <1>1 DEF StreamTypes
  <1>7. PICK h \in HandoffType : /\ h = [NoOffer EXCEPT !.phase = "normal", !.seq = seq]
                                 /\ h.phase = "normal" /\ h.seq = seq
    <2>1. NoOffer \in HandoffType
      BY <1>6 DEF NoOffer, HandoffType
    <2>2. seq \in 0 .. 2
      OBVIOUS
    <2>3. /\ [NoOffer EXCEPT !.phase = "normal", !.seq = seq] \in HandoffType
          /\ [NoOffer EXCEPT !.phase = "normal", !.seq = seq].phase = "normal"
          /\ [NoOffer EXCEPT !.phase = "normal", !.seq = seq].seq = seq
      BY <2>1, <2>2 DEF HandoffType
    <2>4. QED
      BY <2>3
  <1>8. RegistryTypes'
    <2>1. handoff' \in [AllKeys -> HandoffType]
      BY <1>1, <1>5, <1>7 DEF RegistryTypes
    <2>2. HandoffType' = HandoffType
      BY <1>2 DEF HandoffType
    <2>3. QED
      BY <1>1, <1>2, <2>1, <2>2 DEF RegistryTypes
  <1>9. Settling'
    <2>1. DOMAIN handoff = AllKeys
      BY <1>1 DEF RegistryTypes
    <2>2. handoff'[key] = h /\ \A k \in AllKeys : k # key => handoff'[k] = handoff[k]
      BY <1>5, <1>7, <2>1
    <2>3. ASSUME NEW k \in AllKeys
          PROVE  /\ settled'[k] <= produced'[k] /\ produced'[k] <= Len(Log(k))
                 /\ handoff'[k].phase # "none" => settled'[k] < produced'[k]
                 /\ handoff'[k].phase \in {"await", "normal"} => handoff'[k].seq = settled'[k] + 1
      <3>1. CASE k = key
        BY <1>1, <1>2, <1>3, <1>4, <1>7, <2>2, <3>1 DEF Settling
      <3>2. CASE k # key
        BY <1>1, <1>2, <2>2, <3>2 DEF Settling
      <3>3. QED
        BY <3>1, <3>2
    <2>4. QED
      BY <2>3 DEF Settling
  <1>10. InboxTypes' /\ StreamTypes' /\ AcksArePrinted' /\ SettledReached' /\ Following'
    BY <1>1, <1>2, InboxRests, StreamTypesRest, AcksRest, ReachedRests, FollowingRests
  <1>11. Streaming'
    BY <1>1, <1>2, StreamsRest
  <1>12. QED
    BY <1>8, <1>9, <1>10, <1>11 DEF WaitInv


-----------------------------------------------------------------------------
(* The client *)

LEMMA KeepsByLeave ==
    ASSUME WaitInv, leave
    PROVE  WaitInv'
  <1>1. InboxTypes /\ RegistryTypes /\ StreamTypes /\ Settling /\ AcksArePrinted /\ SettledReached
        /\ Following /\ Streaming
    BY DEF WaitInv
  <1>2. UNCHANGED <<follows, produced, settled, notified, unheard, handoff, watched, expects, pump, streams, acks,
                    printed, waitFaults>>
    BY DEF leave, Inbox, Registry
  <1>3. client \in ClientType /\ client' = [client EXCEPT !.phase = "done"] /\ client.woke
    BY <1>1 DEF leave, StreamTypes
  <1>4. client' \in ClientType /\ client'.phase = "done" /\ client'.set = client.set
        /\ client'.woke = client.woke
    BY <1>3 DEF ClientType
  <1>5. StreamTypes'
    BY <1>1, <1>2, <1>4 DEF StreamTypes
  <1>6. Following'
    BY <1>1, <1>2, <1>3, <1>4 DEF Following, EndReached
  <1>7. Streaming'
    <2>1. \A w \in 1 .. MaxStreams : StreamFits(w)'
      BY <1>1, <1>2 DEF Streaming, StreamFits
    <2>2. QED
      BY <1>4, <2>1 DEF Streaming, EndIsPassedOn
  <1>8. InboxTypes' /\ RegistryTypes' /\ Settling' /\ AcksArePrinted' /\ SettledReached'
    BY <1>1, <1>2, InboxRests, RegistryRests, SettlingRests, AcksRest, ReachedRests
  <1>9. QED
    BY <1>5, <1>6, <1>7, <1>8 DEF WaitInv

\* The client stops reading: it is over only with an event, or asks again
LEMMA KeepsByStopping ==
    ASSUME WaitInv, WaitFault, NEW ph \in {"connect", "done", "dead"}, ph = "done" => client.woke,
           client' = [client EXCEPT !.phase = ph],
           UNCHANGED <<follows, produced, settled, notified, unheard, handoff, watched, expects, pump, streams, acks,
                       printed>>
    PROVE  WaitInv'
  <1>1. InboxTypes /\ RegistryTypes /\ StreamTypes /\ Settling /\ AcksArePrinted /\ SettledReached
        /\ Following /\ Streaming
    BY DEF WaitInv
  <1>2. client \in ClientType
    BY <1>1 DEF StreamTypes
  <1>3. client' \in ClientType /\ client'.phase = ph /\ client'.set = client.set
        /\ client'.woke = client.woke
    BY <1>2 DEF ClientType
  <1>4. StreamTypes'
    BY <1>1, <1>3, WaitFaultCounts DEF StreamTypes
  <1>5. Following'
    BY <1>1, <1>3 DEF Following, EndReached
  <1>6. Streaming'
    <2>1. \A w \in 1 .. MaxStreams : StreamFits(w)'
      BY <1>1 DEF Streaming, StreamFits
    <2>2. QED
      BY <1>3, <2>1 DEF Streaming, EndIsPassedOn
  <1>7. InboxTypes' /\ RegistryTypes' /\ Settling' /\ AcksArePrinted' /\ SettledReached'
    BY <1>1, InboxRests, RegistryRests, SettlingRests, AcksRest, ReachedRests
  <1>8. QED
    BY <1>4, <1>5, <1>6, <1>7 DEF WaitInv

LEMMA KeepsByLoseStream ==
    ASSUME WaitInv, lose_stream
    PROVE  WaitInv'
  <1>1. PICK ph \in {"connect", "done", "dead"} :
          ph = (IF client.next /\ client.woke THEN "done" ELSE "connect")
    OBVIOUS
  <1>2. ph = "done" => client.woke
    BY <1>1
  <1>3. client' = [client EXCEPT !.phase = ph]
    BY <1>1 DEF lose_stream
  <1>4. QED
    BY <1>2, <1>3, KeepsByStopping DEF lose_stream, Inbox, Registry

LEMMA KeepsByClientDies ==
    ASSUME WaitInv, client_dies
    PROVE  WaitInv'
  BY KeepsByStopping DEF client_dies, Inbox, Registry

LEMMA NoStreamType == NoStream \in PumpType
  <1>1. <<>> \in Seq(ValidOffers) /\ <<>> \in Seq(EventFrames \cup {DoneFrame})
    OBVIOUS
  <1>2. [k \in AllKeys |-> 0] \in [AllKeys -> 0 .. 2]
    OBVIOUS
  <1>3. QED
    BY <1>1, <1>2 DEF NoStream, PumpType

LEMMA KeepsByDaemonRestarts ==
    ASSUME WaitInv, daemon_restarts
    PROVE  WaitInv'
  <1>1. InboxTypes /\ RegistryTypes /\ StreamTypes /\ Settling /\ AcksArePrinted /\ SettledReached
        /\ Following /\ Streaming
    BY DEF WaitInv
  <1>2. UNCHANGED <<follows, produced, settled, notified, unheard, streams, printed>>
    BY DEF daemon_restarts, Inbox
  <1>3. /\ handoff' = [k \in AllKeys |-> NoOffer]
        /\ watched' = [k \in AllKeys |-> <<>>] /\ expects' = {}
        /\ pump' = [w \in 1 .. MaxStreams |-> NoStream] /\ acks' = {}
        /\ client' = [client EXCEPT !.phase = IF client.phase = "open" THEN "connect" ELSE client.phase]
    BY DEF daemon_restarts
  <1>4. client \in ClientType
    BY <1>1 DEF StreamTypes
  <1>5. PICK ph \in {"connect", "done", "dead"} :
          ph = IF client.phase = "open" THEN "connect" ELSE client.phase
    BY <1>4 DEF ClientType
  <1>6. client' \in ClientType /\ client'.phase = ph /\ client'.set = client.set
        /\ client'.woke = client.woke /\ (ph = "done" => client.phase = "done")
    BY <1>3, <1>4, <1>5 DEF ClientType
  <1>7. StreamTypes'
    BY <1>1, <1>2, <1>3, <1>6, NoStreamType, WaitFaultCounts DEF StreamTypes, daemon_restarts
  <1>8. RegistryTypes'
    <2>1. streams' \in Nat /\ 0 \in 0 .. streams'
      BY <1>1, <1>2 DEF StreamTypes
    <2>2. NoOffer \in HandoffType'
      BY <2>1 DEF NoOffer, HandoffType
    <2>3. QED
      BY <1>3, <2>2 DEF RegistryTypes
  <1>9. Settling'
    BY <1>1, <1>2, <1>3 DEF Settling, NoOffer
  <1>10. Following'
    BY <1>1, <1>2, <1>6 DEF Following, EndReached
  <1>11. Streaming'
    <2>1. \A w \in 1 .. MaxStreams : /\ pump'[w].set = {} /\ pump'[w].replay.key = "none"
                                     /\ pump'[w].frames = <<>> /\ ~pump'[w].up
      BY <1>3 DEF NoStream
    <2>2. \A w \in 1 .. MaxStreams : StreamFits(w)'
      BY <2>1 DEF StreamFits
    <2>3. QED
      BY <1>6, <2>2 DEF Streaming, EndIsPassedOn
  <1>12. InboxTypes' /\ AcksArePrinted' /\ SettledReached'
    BY <1>1, <1>2, <1>3, InboxRests, AcksRest, ReachedRests
  <1>13. QED
    BY <1>7, <1>8, <1>9, <1>10, <1>11, <1>12 DEF WaitInv


\* An event frame stands for a valid event, and is no word that the stream is done
LEMMA FrameFacts ==
    ASSUME NEW f \in EventFrames \cup {DoneFrame}
    PROVE  /\ f.type = "event" => /\ f.key \in AllKeys /\ f.seq \in 1 .. 2 /\ f.seq <= Len(Log(f.key))
                                  /\ f = EventFrame([key |-> f.key, seq |-> f.seq])
           /\ f.type # "event" => f = DoneFrame
  BY DEF EventFrames, DoneFrame, EventFrame

LEMMA EventIsNotDone == \A e : EventFrame(e) # DoneFrame
  BY DEF EventFrame, DoneFrame

LEMMA EndKey == \A f \in {"task", "chain", "job"} : End(f) = [key |-> End(f).key, seq |-> End(f).seq]
  BY KeyFacts

\* The frames that the client has not read
LEMMA TailFacts ==
    ASSUME NEW T, NEW s \in Seq(T), s # <<>>
    PROVE  /\ Tail(s) \in Seq(T) /\ Len(Tail(s)) = Len(s) - 1 /\ Len(s) \in Nat \ {0}
           /\ \A i \in 1 .. Len(Tail(s)) : Tail(s)[i] = s[i + 1] /\ i + 1 \in 1 .. Len(s)
           /\ Head(s) = s[1] /\ s[1] \in T
  OBVIOUS

LEMMA KeepsByFollow ==
    ASSUME WaitInv, NEW sent \in BOOLEAN, follow(sent)
    PROVE  WaitInv'
  <1>1. InboxTypes /\ RegistryTypes /\ StreamTypes /\ Settling /\ AcksArePrinted /\ SettledReached
        /\ Following /\ Streaming
    BY DEF WaitInv
  <1>2. UNCHANGED <<follows, produced, settled, notified, unheard, handoff, watched, expects, streams>>
    BY DEF follow, Inbox, Registry
  <1>3. streams \in 1 .. MaxStreams /\ client.phase = "open" /\ client \in ClientType
    BY <1>1 DEF follow, Following, StreamTypes
  <1> DEFINE fs == pump[streams].frames
             f == Head(fs)
  <1>4. pump[streams] \in PumpType /\ StreamFits(streams) /\ fs \in Seq(EventFrames \cup {DoneFrame}) /\ fs # <<>>
    BY <1>1, <1>3 DEF StreamTypes, PumpType, Streaming, follow
  <1>5. /\ Tail(fs) \in Seq(EventFrames \cup {DoneFrame}) /\ Len(Tail(fs)) = Len(fs) - 1 /\ Len(fs) \in Nat \ {0}
        /\ \A i \in 1 .. Len(Tail(fs)) : Tail(fs)[i] = fs[i + 1] /\ i + 1 \in 1 .. Len(fs)
        /\ f = fs[1] /\ fs[1] \in EventFrames \cup {DoneFrame}
    BY <1>4, TailFacts
  <1>6. pump' = [pump EXCEPT ![streams] = [pump[streams] EXCEPT !.frames = Tail(fs)]]
    BY <1>3 DEF follow
  <1>7. pump' \in [1 .. MaxStreams -> PumpType]
    <2>1. PICK t \in Seq(EventFrames \cup {DoneFrame}) : t = Tail(fs)
      BY <1>5
    <2>2. [pump[streams] EXCEPT !.frames = t] \in PumpType
      BY <1>4 DEF PumpType
    <2>3. QED
      BY <1>1, <1>3, <1>6, <2>1, <2>2 DEF StreamTypes
  <1>8. /\ \A w \in 1 .. MaxStreams : w # streams => pump'[w] = pump[w]
        /\ pump'[streams].frames = Tail(fs) /\ pump'[streams].set = pump[streams].set
        /\ pump'[streams].up = pump[streams].up /\ pump'[streams].replay = pump[streams].replay
    BY <1>1, <1>3, <1>4, <1>6 DEF StreamTypes, PumpType
  <1>9. \A w \in 1 .. MaxStreams : StreamFits(w)'
    <2>1. ASSUME NEW w \in 1 .. MaxStreams, w # streams PROVE StreamFits(w)'
      BY <1>1, <1>2, <1>8, <2>1 DEF Streaming, StreamFits
    <2>2. \A i \in 1 .. Len(Tail(fs)) : Tail(fs)[i] = DoneFrame =>
              i = Len(Tail(fs)) /\ ~pump[streams].up /\ pump[streams].set = {}
      <3>1. ASSUME NEW i \in 1 .. Len(Tail(fs)), Tail(fs)[i] = DoneFrame
            PROVE  i = Len(Tail(fs)) /\ ~pump[streams].up /\ pump[streams].set = {}
        <4>1. fs[i + 1] = DoneFrame /\ i + 1 \in 1 .. Len(fs)
          BY <1>5, <3>1
        <4>2. i + 1 = Len(fs) /\ ~pump[streams].up /\ pump[streams].set = {}
          BY <1>4, <4>1 DEF StreamFits
        <4>3. QED
          BY <1>5, <4>2
      <3>2. QED
        BY <3>1
    <2>3. StreamFits(streams)'
      BY <1>2, <1>4, <1>8, <2>2 DEF StreamFits
    <2>4. QED
      BY <1>2, <2>1, <2>3
  <1>10. InboxTypes' /\ RegistryTypes' /\ Settling'
    BY <1>1, <1>2, InboxRests, RegistryRests, SettlingRests
  <1>11. CASE f.type = "event"
    <2>1. /\ f.key \in AllKeys /\ f.seq \in 1 .. 2 /\ f.seq <= Len(Log(f.key))
          /\ f = EventFrame([key |-> f.key, seq |-> f.seq])
      BY <1>5, <1>11, FrameFacts
    <2>2. /\ printed' = printed \cup {[key |-> f.key, seq |-> f.seq]}
          /\ acks' \subseteq acks \cup {[waiter |-> streams, key |-> f.key, seq |-> f.seq]}
          /\ waitFaults' = waitFaults \/ WaitFault
      BY <1>11 DEF follow
    <2> DEFINE set == apply(client.set, f.key, f.seq)
    <2>3. client' = [client EXCEPT !.set = set, !.woke = client.next,
                                   !.phase = IF set = {} THEN "done" ELSE client.phase]
      BY <1>11 DEF follow
    <2>4. follows \in {"task", "chain", "job"} /\ client.set \in SUBSET Keys(follows)
          /\ Keys(follows) \in SUBSET AllKeys
      BY <1>1, FollowFacts, KeysAreKeys DEF Following
    <2>5. /\ set \in SUBSET Keys(follows)
          /\ (client.set # {} /\ set = {} => [key |-> f.key, seq |-> f.seq] = End(follows))
      <3>1. PICK k \in AllKeys, q \in 1 .. 2 : k = f.key /\ q = f.seq /\ q <= Len(Log(k))
        BY <2>1
      <3>2. PICK S \in SUBSET Keys(follows) : S = client.set
        BY <2>4
      <3>3. /\ apply(S, k, q) \in SUBSET Keys(follows)
            /\ (S # {} /\ apply(S, k, q) = {} => [key |-> k, seq |-> q] = End(follows))
        <4>1. follows \in Targets /\ S \in Waits(follows) /\ Happens(k, q)
          BY <2>4, <3>1 DEF Targets, Waits, Happens
        <4>2. apply(S, k, q) \in Waits(follows) /\ EndsWith(follows, S, k, q)
          BY <4>1, ApplyFacts
        <4>3. QED
          BY <4>2 DEF Waits, EndsWith
      <3>4. QED
        BY <3>1, <3>2, <3>3
    <2>6. PICK ph \in {"open", "done"} : ph = IF set = {} THEN "done" ELSE client.phase
      BY <1>3
    <2>7. /\ client' \in ClientType /\ client'.set = set /\ client'.phase = ph
      <3>1. set \in SUBSET AllKeys
        BY <2>4, <2>5
      <3> HIDE DEF set
      <3>2. client' = [client EXCEPT !.set = set, !.woke = client.next, !.phase = ph]
        BY <2>3, <2>6
      <3>3. QED
        BY <1>3, <3>1, <3>2 DEF ClientType
    <2>8. StreamTypes'
      BY <1>1, <1>2, <1>7, <2>2, <2>7, WaitFaultCounts DEF StreamTypes
    <2>9. AcksArePrinted'
      <3>1. ASSUME NEW ack \in acks'
            PROVE  ack.key \in AllKeys /\ [key |-> ack.key, seq |-> ack.seq] \in printed'
        <4>1. CASE ack \in acks
          BY <1>1, <2>2, <4>1 DEF AcksArePrinted
        <4>2. CASE ack = [waiter |-> streams, key |-> f.key, seq |-> f.seq]
          <5>1. ack.key = f.key /\ ack.seq = f.seq
            BY <4>2
          <5>2. QED
            BY <2>1, <2>2, <5>1
        <4>3. QED
          BY <2>2, <4>1, <4>2
      <3>2. QED
        BY <3>1 DEF AcksArePrinted
    <2>10. SettledReached'
      BY <1>1, <1>2, <2>2, ReachedRests
    <2>11. EndReached => EndReached'
      BY <1>2, <2>2 DEF EndReached
    <2>12. set = {} => EndReached'
      <3>1. CASE client.set = {}
        BY <1>1, <2>11, <3>1 DEF Following
      <3>2. CASE client.set # {}
        BY <1>2, <2>2, <2>5, <3>2 DEF EndReached
      <3>3. QED
        BY <3>1, <3>2
    <2>13. Following'
      <3> HIDE DEF set
      <3>1. ph = "done" => set = {}
        BY <1>3, <2>6
      <3>2. streams > 0
        BY <1>1, <1>3 DEF Following
      <3>3. QED
        BY <1>2, <2>5, <2>7, <2>12, <3>1, <3>2 DEF Following
    <2>14. EndIsPassedOn'
      <3>1. SUFFICES ASSUME pump[streams].set = {}, ~EndReached'
                     PROVE  \E i \in 1 .. Len(Tail(fs)) : Tail(fs)[i] = EventFrame(End(follows))
        BY <1>2, <1>8 DEF EndIsPassedOn, OnItsWay
      <3>2. ~EndReached
        BY <2>11, <3>1
      <3>3. PICK i \in 1 .. Len(fs) : fs[i] = EventFrame(End(follows))
        BY <1>1, <1>3, <3>1, <3>2 DEF Streaming, EndIsPassedOn, OnItsWay
      <3>4. i # 1
        <4>1. SUFFICES ASSUME i = 1 PROVE FALSE
          OBVIOUS
        <4>2. f.key = End(follows).key /\ f.seq = End(follows).seq
          BY <1>5, <3>3, <4>1 DEF EventFrame
        <4>3. End(follows) \in printed'
          BY <2>2, <2>4, <4>2, EndKey
        <4>4. QED
          BY <1>2, <3>1, <4>3 DEF EndReached
      <3>5. i - 1 \in 1 .. Len(Tail(fs))
        BY <1>5, <3>4
      <3>6. Tail(fs)[i - 1] = fs[(i - 1) + 1] /\ (i - 1) + 1 = i
        BY <1>5, <3>5
      <3>7. QED
        BY <3>3, <3>5, <3>6
    <2>15. QED
      BY <1>9, <1>10, <2>8, <2>9, <2>10, <2>13, <2>14 DEF WaitInv, Streaming
  <1>12. CASE f.type # "event"
    <2>1. fs[1] = DoneFrame
      BY <1>5, <1>12, FrameFacts
    <2>2. client' = [client EXCEPT !.phase = "done"] /\ UNCHANGED <<printed, acks, waitFaults>>
      BY <1>12 DEF follow
    <2>3. client' \in ClientType /\ client'.phase = "done" /\ client'.set = client.set
      BY <1>3, <2>2 DEF ClientType
    <2>4. Len(fs) = 1 /\ pump[streams].set = {}
      <3>1. 1 \in 1 .. Len(fs)
        BY <1>5
      <3>2. QED
        BY <1>4, <2>1, <3>1 DEF StreamFits
    <2>5. ~OnItsWay(streams)
      BY <2>1, <2>4, EventIsNotDone DEF OnItsWay
    <2>6. EndReached
      BY <1>1, <1>3, <2>4, <2>5 DEF Streaming, EndIsPassedOn
    <2>7. EndReached'
      BY <1>2, <2>2, <2>6 DEF EndReached
    <2>8. StreamTypes'
      BY <1>1, <1>2, <1>7, <2>2, <2>3 DEF StreamTypes
    <2>9. AcksArePrinted' /\ SettledReached'
      BY <1>1, <1>2, <2>2, AcksRest, ReachedRests
    <2>10. Following'
      BY <1>1, <1>2, <2>3, <2>7 DEF Following
    <2>11. EndIsPassedOn'
      BY <2>3 DEF EndIsPassedOn
    <2>12. QED
      BY <1>9, <1>10, <2>8, <2>9, <2>10, <2>11 DEF WaitInv, Streaming
  <1>13. QED
    BY <1>11, <1>12


-----------------------------------------------------------------------------
(* The streams *)

\* A stream that counts an event changes what is left, and no more that matters
Counts(f, p, q, key, seq) ==
    /\ q \in PumpType /\ q.set \in Waits(f) /\ q.up = p.up /\ q.replay = p.replay
    /\ q.queue = p.queue /\ q.frames = p.frames
    /\ p.set # {} /\ q.set = {} => [key |-> key, seq |-> seq] = End(f)

LEMMA AccountedFacts ==
    ASSUME NEW f \in Targets, NEW p \in PumpType, p.set \in Waits(f),
           NEW key \in AllKeys, NEW seq, Happens(key, seq)
    PROVE  Counts(f, p, Accounted(p, key, seq), key, seq)
  <1> f \in {"task", "chain", "job"} /\ p.set \in SUBSET Keys(f) /\ seq \in 1 .. 2 /\ seq <= Len(Log(key))
    BY DEF Targets, Waits, Happens
  <1>1. PICK S \in SUBSET Keys(f) : S = p.set
    OBVIOUS
  <1>2. /\ apply(S, key, seq) \in SUBSET Keys(f)
        /\ (S # {} /\ apply(S, key, seq) = {} => [key |-> key, seq |-> seq] = End(f))
    <2>1. f \in Targets /\ S \in Waits(f) /\ Happens(key, seq)
      BY DEF Targets, Waits, Happens
    <2>2. apply(S, key, seq) \in Waits(f) /\ EndsWith(f, S, key, seq)
      BY <2>1, ApplyFacts
    <2>3. QED
      BY <2>2 DEF Waits, EndsWith
  <1>3. Keys(f) \in SUBSET AllKeys
    BY KeysAreKeys
  <1>4. PICK T \in SUBSET AllKeys : T = apply(p.set, key, seq)
    BY <1>1, <1>2, <1>3
  <1>5. PICK n \in 0 .. 2 : n = IF p.floor[key] < seq THEN seq ELSE p.floor[key]
    BY DEF PumpType
  <1>6. PICK g \in [AllKeys -> 0 .. 2] : g = [p.floor EXCEPT ![key] = n]
    BY DEF PumpType
  <1>7. PICK F \in SUBSET AllKeys : F = p.fresh \cup (T \ p.set)
    BY DEF PumpType
  <1>8. Accounted(p, key, seq) = [p EXCEPT !.set = T, !.floor = g, !.fresh = F]
    BY <1>4, <1>5, <1>6, <1>7 DEF Accounted
  <1>9. [p EXCEPT !.set = T, !.floor = g, !.fresh = F] \in PumpType
    BY DEF PumpType
  <1>10. /\ Accounted(p, key, seq) \in PumpType /\ Accounted(p, key, seq).set = T
         /\ Accounted(p, key, seq).up = p.up /\ Accounted(p, key, seq).replay = p.replay
         /\ Accounted(p, key, seq).queue = p.queue /\ Accounted(p, key, seq).frames = p.frames
    BY <1>8, <1>9 DEF PumpType
  <1>11. QED
    BY <1>1, <1>2, <1>4, <1>10 DEF Counts, Waits

\* A stream that goes on to other targets stays registered as one that was opened
LEMMA RewatchedType ==
    ASSUME RegistryTypes, NEW w \in 1 .. streams, NEW old, NEW new
    PROVE  Rewatched(w, old, new) \in [AllKeys -> Seq(1 .. streams)]
  <1>1. ASSUME NEW k \in AllKeys
        PROVE  /\ Append(watched[k], w) \in Seq(1 .. streams)
               /\ RemoveFirst(watched[k], w) \in Seq(1 .. streams) /\ watched[k] \in Seq(1 .. streams)
    <2>1. watched[k] \in Seq(1 .. streams)
      BY DEF RegistryTypes
    <2>2. QED
      BY <2>1, RemovedType
  <1>2. QED
    BY <1>1 DEF Rewatched

\* One stream changes
LEMMA OneStream ==
    ASSUME WaitInv, NEW w \in 1 .. MaxStreams, NEW p \in PumpType, pump' = [pump EXCEPT ![w] = p],
           watched' \in [AllKeys -> Seq(1 .. streams)], expects' \subseteq expects,
           UNCHANGED <<follows, produced, settled, notified, unheard, handoff, streams, client, acks, printed, waitFaults>>,
           p.set \subseteq Keys(follows), p.up => w <= streams,
           p.replay.key # "none" => p.replay.upto <= settled[p.replay.key],
           \A i \in 1 .. Len(p.frames) : p.frames[i] = DoneFrame =>
              i = Len(p.frames) /\ ~p.up /\ p.set = {},
           w = streams /\ client.phase = "open" /\ p.set = {} =>
              EndReached \/ \E i \in 1 .. Len(p.frames) : p.frames[i] = EventFrame(End(follows))
    PROVE  WaitInv'
  <1>1. InboxTypes /\ RegistryTypes /\ StreamTypes /\ Settling /\ AcksArePrinted /\ SettledReached
        /\ Following /\ Streaming
    BY DEF WaitInv
  <1>2. pump'[w] = p /\ \A v \in 1 .. MaxStreams : v # w => pump'[v] = pump[v]
    BY <1>1 DEF StreamTypes
  <1>3. StreamTypes'
    BY <1>1 DEF StreamTypes
  <1>4. RegistryTypes'
    BY <1>1 DEF RegistryTypes, HandoffType
  <1>5. EndReached' <=> EndReached
    BY DEF EndReached
  <1>6. \A v \in 1 .. MaxStreams : StreamFits(v)'
    <2>1. ASSUME NEW v \in 1 .. MaxStreams, v # w PROVE StreamFits(v)'
      BY <1>1, <1>2, <2>1 DEF Streaming, StreamFits
    <2>2. StreamFits(w)'
      BY <1>2 DEF StreamFits
    <2>3. QED
      BY <2>1, <2>2
  <1>7. EndIsPassedOn'
    <2>1. CASE w = streams
      BY <1>2, <1>5, <2>1 DEF EndIsPassedOn, OnItsWay
    <2>2. CASE w # streams
      <3>1. client.phase = "open" => pump'[streams] = pump[streams]
        BY <1>1, <1>2, <2>2 DEF Following, StreamTypes
      <3>2. QED
        BY <1>1, <1>5, <3>1 DEF EndIsPassedOn, OnItsWay, Streaming
    <2>3. QED
      BY <2>1, <2>2
  <1>8. InboxTypes' /\ Settling' /\ AcksArePrinted' /\ SettledReached' /\ Following'
    BY <1>1, InboxRests, SettlingRests, AcksRest, ReachedRests, FollowingRests
  <1>9. QED
    BY <1>3, <1>4, <1>6, <1>7, <1>8 DEF WaitInv, Streaming


LEMMA KeepsByLive ==
    ASSUME WaitInv, NEW w \in 1 .. MaxStreams, live(w)
    PROVE  WaitInv'
  <1>1. InboxTypes /\ RegistryTypes /\ StreamTypes /\ Following /\ Streaming
    BY DEF WaitInv
  <1>2. /\ UNCHANGED <<follows, produced, settled, notified, unheard, handoff, expects, streams, client, acks, printed,
                       waitFaults>>
        /\ w = streams /\ pump[w].up /\ client.phase = "open"
    BY DEF live, Inbox, Connected
  <1>3. pump[w] \in PumpType /\ StreamFits(w) /\ follows \in Targets
    BY <1>1, FollowFacts DEF StreamTypes, Streaming, Targets
  <1>4. pump[w].queue \in Seq(ValidOffers) /\ pump[w].queue # <<>>
    BY <1>3 DEF PumpType, live
  <1>5. PICK e \in ValidOffers : e = Head(pump[w].queue)
    BY <1>4
  <1>6. PICK key \in AllKeys, seq \in 1 .. 2 : key = e.key /\ seq = e.seq /\ seq <= Len(Log(key))
    BY <1>5 DEF ValidOffers
  <1>7. pump[w].set \in SUBSET Keys(follows)
    BY <1>3 DEF StreamFits
  <1>8. PICK p : p = Accounted(pump[w], key, seq)
    OBVIOUS
  <1>9. /\ p \in PumpType /\ p.up = pump[w].up
        /\ p.replay = pump[w].replay /\ p.queue = pump[w].queue /\ p.frames = pump[w].frames
        /\ p.set \in SUBSET Keys(follows)
        /\ (pump[w].set # {} /\ p.set = {} => [key |-> key, seq |-> seq] = End(follows))
    <2>1. pump[w].set \in Waits(follows) /\ Happens(key, seq)
      BY <1>6, <1>7 DEF Waits, Happens
    <2>2. Counts(follows, pump[w], p, key, seq)
      BY <1>3, <1>8, <2>1, AccountedFacts
    <2>3. QED
      BY <2>2 DEF Counts, Waits
  <1>10. PICK fr \in EventFrames : fr = [type |-> "event", key |-> key, seq |-> seq]
    BY <1>6 DEF EventFrames
  <1>11. fr = EventFrame([key |-> key, seq |-> seq]) /\ fr # DoneFrame
    BY <1>10 DEF EventFrame, DoneFrame
  <1> DEFINE fs == pump[w].frames
             gs == Append(fs, fr)
             q  == [p EXCEPT !.queue = Tail(p.queue), !.frames = gs]
  <1>12. fs \in Seq(EventFrames \cup {DoneFrame})
    BY <1>3 DEF PumpType
  <1>13. /\ gs \in Seq(EventFrames \cup {DoneFrame}) /\ Len(gs) = Len(fs) + 1 /\ gs[Len(gs)] = fr
         /\ Len(fs) \in Nat /\ \A i \in 1 .. Len(fs) : gs[i] = fs[i]
    BY <1>12
  <1>14. pump' = [pump EXCEPT ![w] = q] /\ watched' = Rewatched(w, pump[w].set, p.set)
    BY <1>5, <1>6, <1>8, <1>9, <1>10 DEF live
  <1>15. q \in PumpType /\ q.set = p.set /\ q.up = p.up /\ q.replay = p.replay /\ q.frames = gs
    <2>1. PICK t \in Seq(ValidOffers) : t = Tail(p.queue)
      <3>1. Tail(pump[w].queue) \in Seq(ValidOffers)
        BY <1>4, TailFacts
      <3>2. QED
        BY <1>9, <3>1
    <2>2. PICK g \in Seq(EventFrames \cup {DoneFrame}) : g = gs
      BY <1>13
    <2>3. q = [p EXCEPT !.queue = t, !.frames = g]
      BY <2>1, <2>2
    <2> HIDE DEF gs, fs, q
    <2>4. QED
      BY <1>9, <2>2, <2>3 DEF PumpType
  <1>16. watched' \in [AllKeys -> Seq(1 .. streams)]
    <2>1. w \in 1 .. streams
      BY <1>2
    <2>2. QED
      BY <1>1, <1>14, <2>1, RewatchedType
  <1> HIDE DEF q, gs
  <1>17. \A i \in 1 .. Len(gs) : gs[i] # DoneFrame
    <2>1. ASSUME NEW i \in 1 .. Len(gs) PROVE gs[i] # DoneFrame
      <3>1. CASE i \in 1 .. Len(fs)
        BY <1>2, <1>3, <1>13, <3>1 DEF StreamFits
      <3>2. CASE i = Len(gs)
        BY <1>11, <1>13, <3>2
      <3>3. QED
        BY <1>13, <3>1, <3>2
    <2>2. QED
      BY <2>1
  <1>18. p.set = {} => EndReached \/ \E i \in 1 .. Len(gs) : gs[i] = EventFrame(End(follows))
    <2>1. CASE pump[w].set = {}
      <3>1. EndReached \/ \E i \in 1 .. Len(fs) : fs[i] = EventFrame(End(follows))
        BY <1>1, <1>2, <2>1 DEF Streaming, EndIsPassedOn, OnItsWay
      <3>2. \A i \in 1 .. Len(fs) : i \in 1 .. Len(gs)
        BY <1>13
      <3>3. QED
        BY <1>13, <3>1, <3>2
    <2>2. CASE pump[w].set # {} /\ p.set = {}
      <3>1. fr = EventFrame(End(follows))
        BY <1>9, <1>11, <2>2
      <3>2. Len(gs) \in 1 .. Len(gs)
        BY <1>13
      <3>3. QED
        BY <1>13, <3>1, <3>2
    <2>3. QED
      BY <2>1, <2>2
  <1>19. q.replay.key # "none" => q.replay.upto <= settled[q.replay.key]
    BY <1>3, <1>9, <1>15 DEF StreamFits
  <1>20. q.set \subseteq Keys(follows) /\ (q.up => w <= streams)
    BY <1>3, <1>9, <1>15 DEF StreamFits
  <1>21. expects' \subseteq expects
    BY <1>2
  <1>22. QED
    BY <1>2, <1>14, <1>15, <1>16, <1>17, <1>18, <1>19, <1>20, <1>21, OneStream

LEMMA KeepsByReconcile ==
    ASSUME WaitInv, NEW w \in 1 .. MaxStreams, NEW key \in AllKeys, reconcile(w, key)
    PROVE  WaitInv'
  <1>1. InboxTypes /\ RegistryTypes /\ StreamTypes /\ Following /\ Streaming
    BY DEF WaitInv
  <1>2. UNCHANGED <<follows, produced, settled, notified, unheard, handoff, watched, expects, streams, client, acks,
                    printed, waitFaults>>
    BY DEF reconcile, Inbox, Registry
  <1>3. pump[w] \in PumpType /\ StreamFits(w)
    BY <1>1 DEF StreamTypes, Streaming
  <1>4. PICK r \in [key: AllKeys \cup {"none"}, upto: 0 .. 2] :
          /\ r = IF key \in pump[w].set THEN [key |-> key, upto |-> settled[key]] ELSE pump[w].replay
          /\ (r.key # "none" => r.upto <= settled[r.key])
    <2>1. CASE key \in pump[w].set
      <3>1. settled[key] \in 0 .. 2 /\ settled[key] <= settled[key]
        BY <1>1 DEF InboxTypes
      <3>2. PICK r \in [key: AllKeys \cup {"none"}, upto: 0 .. 2] : r = [key |-> key, upto |-> settled[key]]
        BY <3>1
      <3>3. r.key = key /\ r.upto = settled[key]
        BY <3>2
      <3>4. QED
        BY <2>1, <3>1, <3>2, <3>3
    <2>2. CASE key \notin pump[w].set
      BY <1>3, <2>2 DEF PumpType, StreamFits
    <2>3. QED
      BY <2>1, <2>2
  <1>5. PICK F \in SUBSET AllKeys : F = pump[w].fresh \ {key}
    BY <1>3 DEF PumpType
  <1> DEFINE q == [pump[w] EXCEPT !.fresh = F, !.replay = r]
  <1>6. pump' = [pump EXCEPT ![w] = q]
    BY <1>4, <1>5 DEF reconcile
  <1>7. q \in PumpType /\ q.set = pump[w].set /\ q.up = pump[w].up /\ q.replay = r /\ q.frames = pump[w].frames
    BY <1>3 DEF PumpType
  <1> HIDE DEF q
  <1>8. /\ q.set \subseteq Keys(follows) /\ (q.up => w <= streams)
        /\ (q.replay.key # "none" => q.replay.upto <= settled[q.replay.key])
        /\ \A i \in 1 .. Len(q.frames) : q.frames[i] = DoneFrame => i = Len(q.frames) /\ ~q.up /\ q.set = {}
    BY <1>3, <1>4, <1>7 DEF StreamFits
  <1>9. w = streams /\ client.phase = "open" /\ q.set = {} =>
              EndReached \/ \E i \in 1 .. Len(q.frames) : q.frames[i] = EventFrame(End(follows))
    BY <1>1, <1>7 DEF Streaming, EndIsPassedOn, OnItsWay
  <1>10. watched' \in [AllKeys -> Seq(1 .. streams)] /\ expects' \subseteq expects
    BY <1>1, <1>2 DEF RegistryTypes
  <1>11. QED
    BY <1>2, <1>6, <1>7, <1>8, <1>9, <1>10, OneStream

LEMMA KeepsByPing ==
    ASSUME WaitInv, NEW w \in 1 .. MaxStreams, ping(w)
    PROVE  WaitInv'
  <1>1. InboxTypes /\ RegistryTypes /\ StreamTypes /\ Following /\ Streaming
    BY DEF WaitInv
  <1>2. UNCHANGED <<follows, produced, settled, notified, unheard, handoff, watched, expects, streams, client, acks,
                    printed, waitFaults>>
    BY DEF ping, Inbox, Registry
  <1>3. pump[w] \in PumpType /\ StreamFits(w)
    BY <1>1 DEF StreamTypes, Streaming
  <1> DEFINE q == [pump[w] EXCEPT !.fresh = pump[w].set]
  <1>4. pump' = [pump EXCEPT ![w] = q]
    BY DEF ping, PingReads
  <1>5. q \in PumpType /\ q.set = pump[w].set /\ q.up = pump[w].up /\ q.replay = pump[w].replay
        /\ q.frames = pump[w].frames
    BY <1>3 DEF PumpType
  <1> HIDE DEF q
  <1>6. /\ q.set \subseteq Keys(follows) /\ (q.up => w <= streams)
        /\ (q.replay.key # "none" => q.replay.upto <= settled[q.replay.key])
        /\ \A i \in 1 .. Len(q.frames) : q.frames[i] = DoneFrame => i = Len(q.frames) /\ ~q.up /\ q.set = {}
    BY <1>3, <1>5 DEF StreamFits
  <1>7. w = streams /\ client.phase = "open" /\ q.set = {} =>
              EndReached \/ \E i \in 1 .. Len(q.frames) : q.frames[i] = EventFrame(End(follows))
    BY <1>1, <1>5 DEF Streaming, EndIsPassedOn, OnItsWay
  <1>8. watched' \in [AllKeys -> Seq(1 .. streams)] /\ expects' \subseteq expects
    BY <1>1, <1>2 DEF RegistryTypes
  <1>9. QED
    BY <1>2, <1>4, <1>5, <1>6, <1>7, <1>8, OneStream


LEMMA KeepsByStopStream ==
    ASSUME WaitInv, NEW w \in 1 .. MaxStreams, stop(w)
    PROVE  WaitInv'
  <1>1. InboxTypes /\ RegistryTypes /\ StreamTypes /\ Following /\ Streaming
    BY DEF WaitInv
  <1>2. /\ UNCHANGED <<follows, produced, settled, notified, unheard, handoff, streams, client, acks, printed, waitFaults>>
        /\ pump[w].up /\ expects' \subseteq expects
    BY DEF stop, Inbox
  <1>3. pump[w] \in PumpType /\ StreamFits(w)
    BY <1>1 DEF StreamTypes, Streaming
  <1> DEFINE fs == pump[w].frames
  <1>4. fs \in Seq(EventFrames \cup {DoneFrame}) /\ Len(fs) \in Nat
    BY <1>3 DEF PumpType
  <1>5. \A i \in 1 .. Len(fs) : fs[i] # DoneFrame
    BY <1>2, <1>3 DEF StreamFits
  <1>6. PICK gs \in Seq(EventFrames \cup {DoneFrame}) :
          gs = IF pump[w].set = {} /\ Connected(w) THEN Append(fs, DoneFrame) ELSE fs
    <2>1. Append(fs, DoneFrame) \in Seq(EventFrames \cup {DoneFrame})
      BY <1>4
    <2>2. QED
      BY <1>4, <2>1
  <1>7. /\ \A i \in 1 .. Len(gs) : gs[i] = DoneFrame => i = Len(gs) /\ pump[w].set = {}
        /\ \A i \in 1 .. Len(fs) : i \in 1 .. Len(gs) /\ gs[i] = fs[i]
    <2>1. CASE gs = fs
      BY <1>5, <2>1
    <2>2. CASE gs = Append(fs, DoneFrame) /\ pump[w].set = {}
      <3>1. Len(gs) = Len(fs) + 1 /\ \A i \in 1 .. Len(fs) : gs[i] = fs[i]
        BY <1>4, <2>2
      <3>2. ASSUME NEW i \in 1 .. Len(gs), gs[i] = DoneFrame PROVE i = Len(gs)
        <4>1. i \notin 1 .. Len(fs)
          BY <1>5, <3>1, <3>2
        <4>2. QED
          BY <1>4, <3>1, <4>1
      <3>3. \A i \in 1 .. Len(fs) : i \in 1 .. Len(gs)
        BY <1>4, <3>1
      <3>4. QED
        BY <2>2, <3>1, <3>2, <3>3
    <2>3. QED
      BY <1>6, <2>1, <2>2
  <1> DEFINE q == [pump[w] EXCEPT !.up = FALSE, !.frames = gs]
  <1>8. pump' = [pump EXCEPT ![w] = q] /\ watched' = Closed(w)
    BY <1>6 DEF stop, DoneFrame
  <1>9. q \in PumpType /\ q.set = pump[w].set /\ q.replay = pump[w].replay /\ q.frames = gs
    BY <1>3 DEF PumpType
  <1>10. ~q.up
    BY <1>3 DEF PumpType
  <1> HIDE DEF q
  <1>11. /\ q.set \subseteq Keys(follows) /\ (q.replay.key # "none" => q.replay.upto <= settled[q.replay.key])
         /\ \A i \in 1 .. Len(q.frames) : q.frames[i] = DoneFrame => i = Len(q.frames) /\ ~q.up /\ q.set = {}
    <2>1. \A i \in 1 .. Len(q.frames) : q.frames[i] = DoneFrame => i = Len(q.frames) /\ q.set = {}
      BY <1>7, <1>9
    <2>2. q.set \subseteq Keys(follows) /\ (q.replay.key # "none" => q.replay.upto <= settled[q.replay.key])
      BY <1>3, <1>9 DEF StreamFits
    <2>3. QED
      BY <1>10, <2>1, <2>2
  <1>12. w = streams /\ client.phase = "open" /\ q.set = {} =>
              EndReached \/ \E i \in 1 .. Len(q.frames) : q.frames[i] = EventFrame(End(follows))
    <2>1. SUFFICES ASSUME w = streams, client.phase = "open", pump[w].set = {}, ~EndReached
                   PROVE  \E i \in 1 .. Len(gs) : gs[i] = EventFrame(End(follows))
      BY <1>9
    <2>2. PICK i \in 1 .. Len(fs) : fs[i] = EventFrame(End(follows))
      BY <1>1, <2>1 DEF Streaming, EndIsPassedOn, OnItsWay
    <2>3. QED
      BY <1>7, <2>2
  <1>13. watched' \in [AllKeys -> Seq(1 .. streams)]
    <2>1. ASSUME NEW k \in AllKeys PROVE RemoveFirst(watched[k], w) \in Seq(1 .. streams)
      <3>1. watched[k] \in Seq(1 .. streams)
        BY <1>1 DEF RegistryTypes
      <3>2. QED
        BY <3>1, RemovedType
    <2>2. QED
      BY <1>8, <2>1 DEF Closed
  <1>14. QED
    BY <1>2, <1>8, <1>9, <1>10, <1>11, <1>12, <1>13, OneStream

\* A replay counts settled events, which the agent has heard
LEMMA ReplayedFacts ==
    ASSUME WaitInv, NEW w \in 1 .. MaxStreams, pump[w].replay.key # "none"
    PROVE  LET q == Replayed(pump[w])
           IN  /\ q \in PumpType /\ q.set \in Waits(follows) /\ q.up = pump[w].up /\ q.frames = pump[w].frames
               /\ q.replay.key = "none"
               /\ pump[w].set # {} /\ q.set = {} => EndReached
  <1>1. InboxTypes /\ StreamTypes /\ SettledReached /\ Streaming /\ Settling
    BY DEF WaitInv
  <1>2. PICK p \in PumpType : p = pump[w]
    BY <1>1 DEF StreamTypes
  <1>3. StreamFits(w) /\ p.set \in Waits(follows) /\ follows \in Targets
    BY <1>1, <1>2, FollowFacts DEF Streaming, StreamFits, Waits, Targets
  <1>4. PICK key \in AllKeys, upto \in 0 .. 2 : key = p.replay.key /\ upto = p.replay.upto
    BY <1>2 DEF PumpType
  <1>5. upto <= settled[key] /\ settled[key] \in 0 .. 2 /\ settled[key] <= produced[key]
        /\ produced[key] <= Len(Log(key)) /\ produced[key] \in 0 .. 2 /\ Len(Log(key)) \in Nat
    <2>1. upto <= settled[key]
      BY <1>2, <1>3, <1>4 DEF StreamFits
    <2>2. settled[key] \in 0 .. 2 /\ produced[key] \in 0 .. 2
      BY <1>1 DEF InboxTypes
    <2>3. settled[key] <= produced[key] /\ produced[key] <= Len(Log(key))
      BY <1>1 DEF Settling
    <2>4. Len(Log(key)) \in Nat
      BY LogLengths
    <2>5. QED
      BY <2>1, <2>2, <2>3, <2>4
  <1>6. ASSUME NEW n \in 1 .. 2, n <= upto
        PROVE  Happens(key, n) /\ [key |-> key, seq |-> n] \in notified \cup printed \cup unheard
    <2>1. n \in 1 .. settled[key] /\ n <= Len(Log(key))
      BY <1>5, <1>6
    <2>2. QED
      BY <1>1, <2>1 DEF Happens, SettledReached, Reached
  <1> DEFINE step == IF key = "job" THEN 1 ELSE p.floor[key] + 1
             p1 == IF step <= 1 /\ 1 <= upto THEN Accounted(p, key, 1) ELSE p
             p2 == IF step <= 2 /\ 2 <= upto THEN Accounted(p1, key, 2) ELSE p1
             Good(r, o) == /\ r \in PumpType /\ r.set \in Waits(follows) /\ r.up = o.up /\ r.replay = o.replay
                           /\ r.queue = o.queue /\ r.frames = o.frames
                           /\ (o.set # {} /\ r.set = {} => EndReached)
  <1>7. Replayed(pump[w]) = [p2 EXCEPT !.replay = NoStream.replay]
    BY <1>2, <1>4 DEF Replayed
  <1> HIDE DEF step
  <1>8. Good(p1, p)
    <2>1. CASE step <= 1 /\ 1 <= upto
      <3>1. Happens(key, 1) /\ [key |-> key, seq |-> 1] \in notified \cup printed \cup unheard
        BY <1>6, <2>1
      <3>2. Counts(follows, p, Accounted(p, key, 1), key, 1)
        BY <1>3, <3>1, AccountedFacts
      <3>3. QED
        BY <2>1, <3>1, <3>2 DEF Counts, EndReached
    <2>2. CASE ~(step <= 1 /\ 1 <= upto)
      BY <1>3, <2>2
    <2>3. QED
      BY <2>1, <2>2
  <1> HIDE DEF p1
  <1>9. Good(p2, p1)
    <2>1. CASE step <= 2 /\ 2 <= upto
      <3>1. Happens(key, 2) /\ [key |-> key, seq |-> 2] \in notified \cup printed \cup unheard
        BY <1>6, <2>1
      <3>2. Counts(follows, p1, Accounted(p1, key, 2), key, 2)
        BY <1>3, <1>8, <3>1, AccountedFacts
      <3>3. QED
        BY <2>1, <3>1, <3>2 DEF Counts, EndReached
    <2>2. CASE ~(step <= 2 /\ 2 <= upto)
      BY <1>8, <2>2
    <2>3. QED
      BY <2>1, <2>2
  <1> HIDE DEF p2
  <1>10. /\ p2 \in PumpType /\ p2.set \in Waits(follows) /\ p2.up = p.up /\ p2.frames = p.frames
         /\ (p.set # {} /\ p2.set = {} => EndReached)
    BY <1>8, <1>9
  <1>11. PICK r \in [key: AllKeys \cup {"none"}, upto: 0 .. 2] : r = NoStream.replay /\ r.key = "none"
    <2>1. NoStream.replay = [key |-> "none", upto |-> 0]
      BY DEF NoStream
    <2>2. QED
      BY <2>1
  <1>12. LET q == [p2 EXCEPT !.replay = r]
         IN  q \in PumpType /\ q.set = p2.set /\ q.up = p2.up /\ q.frames = p2.frames /\ q.replay = r
    BY <1>10 DEF PumpType
  <1>13. QED
    BY <1>2, <1>7, <1>10, <1>11, <1>12

LEMMA KeepsByReplay ==
    ASSUME WaitInv, NEW w \in 1 .. MaxStreams, replay(w)
    PROVE  WaitInv'
  <1>1. InboxTypes /\ RegistryTypes /\ StreamTypes /\ Following /\ Streaming
    BY DEF WaitInv
  <1>2. UNCHANGED <<follows, produced, settled, notified, unheard, handoff, expects, streams, client, acks, printed,
                    waitFaults>>
    BY DEF replay, Inbox
  <1>3. pump[w] \in PumpType /\ StreamFits(w) /\ pump[w].up
    BY <1>1 DEF StreamTypes, Streaming, replay
  <1>4. PICK q : q = Replayed(pump[w])
    OBVIOUS
  <1>5. /\ q \in PumpType /\ q.set \in Waits(follows) /\ q.up = pump[w].up /\ q.frames = pump[w].frames
        /\ q.replay.key = "none"
        /\ (pump[w].set # {} /\ q.set = {} => EndReached)
    BY <1>4, ReplayedFacts DEF replay
  <1>6. pump' = [pump EXCEPT ![w] = q] /\ watched' = Rewatched(w, pump[w].set, q.set)
    BY <1>4 DEF replay
  <1>7. \A i \in 1 .. Len(q.frames) : q.frames[i] # DoneFrame
    BY <1>3, <1>5 DEF StreamFits
  <1>8. w = streams /\ client.phase = "open" /\ q.set = {} =>
              EndReached \/ \E i \in 1 .. Len(q.frames) : q.frames[i] = EventFrame(End(follows))
    BY <1>1, <1>5 DEF Streaming, EndIsPassedOn, OnItsWay
  <1>9. watched' \in [AllKeys -> Seq(1 .. streams)]
    <2>1. w \in 1 .. streams
      BY <1>1, <1>3 DEF StreamFits, StreamTypes
    <2>2. QED
      BY <1>1, <1>6, <2>1, RewatchedType
  <1>10. q.set \subseteq Keys(follows) /\ expects' \subseteq expects /\ (q.up => w <= streams)
    BY <1>2, <1>3, <1>5 DEF Waits, StreamFits
  <1>11. QED
    BY <1>2, <1>5, <1>6, <1>7, <1>8, <1>9, <1>10, OneStream


\* A new stream follows what the client has left
LEMMA KeepsByServe ==
    ASSUME WaitInv, serve
    PROVE  WaitInv'
  <1>1. InboxTypes /\ RegistryTypes /\ StreamTypes /\ Settling /\ AcksArePrinted /\ SettledReached
        /\ Following /\ Streaming
    BY DEF WaitInv
  <1>2. UNCHANGED <<follows, produced, settled, notified, unheard, handoff, expects, acks, printed, waitFaults>>
    BY DEF serve, Inbox
  <1>3. PICK n \in 1 .. MaxStreams : n = streams + 1 /\ streams' = n /\ n \in Nat /\ streams \in Nat
    BY <1>1, WaitAssumption DEF serve, StreamTypes, WaitAssumption
  <1>4. client \in ClientType /\ client' = [client EXCEPT !.phase = "open"] /\ client.phase = "connect"
    BY <1>1 DEF serve, StreamTypes
  <1>5. client' \in ClientType /\ client'.set = client.set /\ client'.phase = "open"
    BY <1>4 DEF ClientType
  <1> DEFINE q == [NoStream EXCEPT !.up = TRUE, !.set = client.set, !.fresh = client.set]
  <1>6. pump' = [pump EXCEPT ![n] = q]
    BY <1>3 DEF serve
  <1>7. /\ q \in PumpType /\ q.set = client.set /\ q.replay = NoStream.replay /\ q.frames = NoStream.frames
    <2>1. client.set \in SUBSET AllKeys
      BY <1>4 DEF ClientType
    <2>2. QED
      BY <2>1, NoStreamType DEF PumpType
  <1>8. q.replay.key = "none" /\ q.frames = <<>>
    BY <1>7 DEF NoStream
  <1> HIDE DEF q
  <1>9. StreamTypes'
    BY <1>1, <1>2, <1>3, <1>5, <1>6, <1>7 DEF StreamTypes
  <1>10. pump'[n] = q /\ \A w \in 1 .. MaxStreams : w # n => pump'[w] = pump[w]
    BY <1>1, <1>6 DEF StreamTypes
  <1>11. RegistryTypes'
    <2>1. 1 .. streams \subseteq 1 .. n /\ 0 .. streams \subseteq 0 .. n /\ n \in 1 .. n
      BY <1>3
    <2>2. HandoffType \subseteq HandoffType'
      BY <1>3, <2>1 DEF HandoffType
    <2>3. handoff' \in [AllKeys -> HandoffType']
      BY <1>1, <1>2, <2>2 DEF RegistryTypes
    <2>4. expects' \subseteq [waiter: 1 .. n, key: AllKeys, seq: 1 .. 2]
      BY <1>1, <1>2, <2>1 DEF RegistryTypes
    <2>5. ASSUME NEW k \in AllKeys
          PROVE  watched[k] \in Seq(1 .. n) /\ Append(watched[k], n) \in Seq(1 .. n)
      <3>1. watched[k] \in Seq(1 .. streams)
        BY <1>1 DEF RegistryTypes
      <3>2. watched[k] \in Seq(1 .. n)
        BY <2>1, <3>1, SeqMonotonic
      <3>3. QED
        BY <2>1, <3>2
    <2>6. watched' = [k \in AllKeys |-> IF k \in client.set THEN Append(watched[k], n) ELSE watched[k]]
      BY <1>3 DEF serve
    <2>7. watched' \in [AllKeys -> Seq(1 .. n)]
      BY <2>5, <2>6
    <2>8. QED
      BY <1>3, <2>3, <2>4, <2>7 DEF RegistryTypes
  <1>12. EndReached' <=> EndReached
    BY <1>2 DEF EndReached
  <1>13. Following'
    BY <1>1, <1>2, <1>3, <1>5, <1>12 DEF Following
  <1>14. \A w \in 1 .. MaxStreams : StreamFits(w)'
    <2>1. ASSUME NEW w \in 1 .. MaxStreams, w # n PROVE StreamFits(w)'
      <3>1. StreamFits(w) /\ pump'[w] = pump[w]
        BY <1>1, <1>10, <2>1 DEF Streaming
      <3>2. pump[w].up => w <= n
        BY <1>3, <3>1 DEF StreamFits
      <3>3. QED
        BY <1>2, <1>3, <3>1, <3>2 DEF StreamFits
    <2>2. StreamFits(n)'
      <3>1. q.set \subseteq Keys(follows)
        BY <1>1, <1>7 DEF Following
      <3>2. QED
        BY <1>2, <1>3, <1>8, <1>10, <3>1 DEF StreamFits
    <2>3. QED
      BY <2>1, <2>2
  <1>15. EndIsPassedOn'
    <2>1. q.set = {} => EndReached
      BY <1>1, <1>7 DEF Following
    <2>2. QED
      BY <1>3, <1>10, <1>12, <2>1 DEF EndIsPassedOn
  <1>16. InboxTypes' /\ Settling' /\ AcksArePrinted' /\ SettledReached'
    BY <1>1, <1>2, InboxRests, SettlingRests, AcksRest, ReachedRests
  <1>17. QED
    BY <1>9, <1>11, <1>13, <1>14, <1>15, <1>16 DEF WaitInv, Streaming

-----------------------------------------------------------------------------
(* The theorem *)

LEMMA WaitStart == WaitInit => WaitInv
  <1> SUFFICES ASSUME WaitInit PROVE WaitInv
    OBVIOUS
  <1>1. InboxTypes
    BY DEF WaitInit, InboxTypes
  <1>2. follows \in {"task", "chain", "job"} /\ MaxStreams \in Nat /\ MaxWaitFaults \in Nat /\ streams = 0
    BY <1>1, FollowFacts, WaitAssumption DEF WaitAssumption, WaitInit
  <1>3. RegistryTypes
    <2>1. NoOffer \in HandoffType
      BY <1>2 DEF NoOffer, HandoffType
    <2>2. QED
      BY <2>1 DEF WaitInit, RegistryTypes
  <1>4. /\ client = [phase |-> "connect", set |-> {First(follows)}, next |-> follows = "task", woke |-> FALSE]
        /\ First(follows) \in Keys(follows) /\ Keys(follows) \in SUBSET AllKeys
    BY <1>2, KeyFacts, KeysAreKeys DEF WaitInit, First
  <1>5. client \in ClientType /\ client.set = {First(follows)} /\ client.phase = "connect"
    <2>1. PICK b \in BOOLEAN : b = (follows = "task")
      OBVIOUS
    <2>2. {First(follows)} \in SUBSET AllKeys
      BY <1>4
    <2>3. client = [phase |-> "connect", set |-> {First(follows)}, next |-> b, woke |-> FALSE]
      BY <1>4, <2>1
    <2>4. QED
      BY <2>2, <2>3 DEF ClientType
  <1>6. StreamTypes
    BY <1>2, <1>5, NoStreamType DEF WaitInit, StreamTypes
  <1>7. Settling
    <2>1. ASSUME NEW k \in AllKeys PROVE settled[k] = 0 /\ produced[k] = 0 /\ handoff[k].phase = "none"
      BY DEF WaitInit, NoOffer
    <2>2. \A k \in AllKeys : 0 <= Len(Log(k))
      BY LogLengths
    <2>3. QED
      BY <2>1, <2>2 DEF Settling
  <1>8. AcksArePrinted /\ SettledReached
    BY DEF WaitInit, AcksArePrinted, SettledReached
  <1>9. Following
    BY <1>4, <1>5 DEF Following
  <1>10. Streaming
    <2>1. \A w \in 1 .. MaxStreams : /\ pump[w].set = {} /\ pump[w].replay.key = "none"
                                     /\ pump[w].frames = <<>> /\ ~pump[w].up
      BY DEF WaitInit, NoStream
    <2>2. \A w \in 1 .. MaxStreams : StreamFits(w)
      BY <2>1 DEF StreamFits
    <2>3. QED
      BY <1>5, <2>2 DEF Streaming, EndIsPassedOn
  <1>11. QED
    BY <1>1, <1>3, <1>6, <1>7, <1>8, <1>9, <1>10 DEF WaitInv

LEMMA WaitRests ==
    ASSUME WaitInv, UNCHANGED waitVars
    PROVE  WaitInv'
  <1>1. InboxTypes /\ RegistryTypes /\ StreamTypes /\ Settling /\ AcksArePrinted /\ SettledReached
        /\ Following /\ Streaming
    BY DEF WaitInv
  <1>2. UNCHANGED <<follows, produced, settled, handoff, watched, expects, pump, streams, client, acks,
                    notified, unheard, printed, waitFaults>>
    BY DEF waitVars
  <1>3. InboxTypes' /\ RegistryTypes' /\ StreamTypes' /\ Settling' /\ AcksArePrinted' /\ SettledReached'
        /\ Following'
    BY <1>1, <1>2, InboxRests, RegistryRests, StreamTypesRest, SettlingRests, AcksRest, ReachedRests,
       FollowingRests
  <1>4. Streaming'
    BY <1>1, <1>2, StreamsRest
  <1>5. QED
    BY <1>3, <1>4 DEF WaitInv

LEMMA WaitStep == WaitInv /\ [WaitNext]_waitVars => WaitInv'
  <1> SUFFICES ASSUME WaitInv, [WaitNext]_waitVars PROVE WaitInv'
    OBVIOUS
  <1>1. ASSUME NEW key \in AllKeys, accept_event(key) \/ Deliverer(key) \/ settle_unheard(key) PROVE WaitInv'
    BY <1>1, KeepsByAcceptEvent, KeepsByOffer, KeepsByOfferFails, KeepsByDecline, KeepsBySettleLine,
       KeepsBySettleUnheard DEF Deliverer
  <1>2. ASSUME NEW ack \in acks, confirm(ack) PROVE WaitInv'
    BY <1>2, KeepsByConfirm
  <1>3. ASSUME NEW w \in 1 .. MaxStreams, Stream(w) PROVE WaitInv'
    BY <1>3, KeepsByLive, KeepsByReplay, KeepsByPing, KeepsByStopStream, KeepsByReconcile DEF Stream
  <1>4. ASSUME serve \/ leave \/ lose_stream \/ client_dies \/ daemon_restarts PROVE WaitInv'
    BY <1>4, KeepsByServe, KeepsByLeave, KeepsByLoseStream, KeepsByClientDies, KeepsByDaemonRestarts
  <1>5. ASSUME NEW sent \in BOOLEAN, follow(sent) PROVE WaitInv'
    BY <1>5, KeepsByFollow
  <1>6. ASSUME NEW key \in AllKeys, NEW taken \in BOOLEAN, retry(key, taken) PROVE WaitInv'
    BY <1>6, KeepsByRetry
  <1>7. CASE UNCHANGED waitVars
    BY <1>7, WaitRests
  <1>8. QED
    BY <1>1, <1>2, <1>3, <1>4, <1>5, <1>6, <1>7 DEF WaitNext

\* The inductive invariant of `homebased wait`, the streams and the hand-off of
\* events: every state that clients, streams and inbox workers reach fits together.
THEOREM WaitInvariance == WaitSpec => []WaitInv
  BY WaitStart, WaitStep, PTL DEF WaitSpec

\* For any number of connections and faults, a wait swallows no event: a settled
\* one reached the thread, was printed, or (of a task only) was given up by the
\* normal delivery, and the wait ends with success only after that holds of the
\* end of the task, of the chain or of the job.
THEOREM WaitIsTrueCorrect == WaitSpec => []WaitIsTrue
  <1>1. WaitInv => WaitIsTrue
    <2> SUFFICES ASSUME WaitInv PROVE WaitIsTrue
      OBVIOUS
    <2>1. InboxTypes /\ RegistryTypes /\ StreamTypes /\ Settling /\ SettledReached /\ Following
      BY DEF WaitInv
    <2>2. ASSUME NEW k \in AllKeys
          PROVE  /\ settled[k] <= produced[k] /\ produced[k] <= Len(Log(k))
                 /\ handoff[k].phase \in {"none", "offer", "await", "normal"}
                 /\ handoff[k].tried \subseteq 1 .. streams
                 /\ Range(watched[k]) \subseteq 1 .. streams
      <3>1. handoff[k] \in HandoffType /\ watched[k] \in Seq(1 .. streams)
        BY <2>1 DEF RegistryTypes
      <3>2. handoff[k].phase \in {"none", "offer", "await", "normal"} /\ handoff[k].tried \subseteq 1 .. streams
        BY <3>1 DEF HandoffType
      <3>3. Range(watched[k]) \subseteq 1 .. streams
        <4>1. DOMAIN watched[k] = 1 .. Len(watched[k]) /\ \A i \in 1 .. Len(watched[k]) : watched[k][i] \in 1 .. streams
          BY <3>1, ElementOfSeq, LenProperties
        <4>2. QED
          BY <4>1 DEF Range
      <3>4. settled[k] <= produced[k] /\ produced[k] <= Len(Log(k))
        BY <2>1 DEF Settling
      <3>5. QED
        BY <3>2, <3>3, <3>4
    <2>3. WaitTypeOK
      BY <2>1, <2>2 DEF WaitTypeOK, InboxTypes, GivenUp, RegistryTypes, StreamTypes, ClientType
    <2>4. WaitEndsWithTarget
      <3>1. SUFFICES ASSUME client.phase = "done" /\ ~client.woke PROVE WaitEndsWithTarget
        BY DEF WaitEndsWithTarget
      <3>2. End(follows) \in notified \cup printed \cup unheard
        BY <2>1, <3>1 DEF Following, EndReached
      <3>3. CASE follows = "task"
        <4>1. Reached("task", 2)
          BY <3>2, <3>3, KeyFacts DEF Reached
        <4>2. QED
          BY <3>3, <4>1 DEF WaitEndsWithTarget
      <3>4. CASE follows = "chain"
        <4>1. Reached("next", 1)
          BY <3>2, <3>4, KeyFacts DEF Reached
        <4>2. QED
          BY <3>4, <4>1 DEF WaitEndsWithTarget
      <3>5. CASE follows = "job"
        <4>1. Reached("job", 1)
          BY <3>2, <3>5, KeyFacts DEF Reached
        <4>2. QED
          BY <3>5, <4>1 DEF WaitEndsWithTarget
      <3>6. QED
        BY <2>1, <3>3, <3>4, <3>5, FollowFacts
    <2>5. QED
      BY <2>1, <2>3, <2>4 DEF WaitIsTrue
  <1>2. QED
    BY <1>1, WaitInvariance, PTL

=============================================================================

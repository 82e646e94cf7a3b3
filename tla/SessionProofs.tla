---------------------------- MODULE SessionProofs ----------------------------
(***************************************************************************)
(* What the daemon promises about agents' sessions, for any number of      *)
(* callers, machines, projects, sessions and mishaps: a repeated message is *)
(* one line (DirectMessage), a callback arrives by one route               *)
(* (CallbackRoute), and a repeated launch is one thread (T3Launch).        *)
(***************************************************************************)
EXTENDS DirectMessage, CallbackRoute, T3Launch, FiniteSetTheorems, SequenceTheorems, TLAPS

-----------------------------------------------------------------------------
(* One message UUID is one line in one thread.  A line cannot be traced back *)
(* to its call once the call ended, so the count of lines is kept against    *)
(* what every call left behind: a receipt, a mishap, or a call that ended    *)
(* without having waited.                                                    *)

Addressed == {"bound", "waiting", "permitted", "delivering", "delivered", "sent"}
Holding == {"permitted", "delivering", "delivered"}
Over == {"delivered", "sent", "failed"}

Line == [machine: Peers, body: Contents, thread: Sessions]
TheLine == [machine |-> bound, body |-> reserved, thread |-> tries[bound]]

\* The request and the destination that were saved first stand for every call
\* that got past them
OneRequest ==
    \A c \in SendCalls :
        /\ send[c].at \notin {"idle", "failed"} => send[c].body = reserved /\ reserved # "none"
        /\ send[c].at = "resolved" => send[c].to # "none"
        /\ send[c].at \in Addressed => send[c].to = bound /\ bound # "none"

\* A permit is held by the one call that is past it
OnePermit ==
    /\ \A c \in SendCalls : send[c].at \in Holding => permit[send[c].to] = c
    /\ \A m \in Peers : permit[m] # "free" =>
          send[permit[m]].at \in Holding /\ send[permit[m]].to = m

ReceiptsOfBound == receipts \subseteq {bound}

\* A line follows a saved thread and precedes a receipt
OneThread ==
    /\ \A c \in SendCalls :
          /\ send[c].at \in {"delivering", "delivered"} => tries[bound] # "none"
          /\ send[c].at = "delivering" => receipts = {}
          /\ send[c].at \in {"delivered", "sent"} => lines # <<>>
    /\ receipts # {} => lines # <<>>
    /\ lines # <<>> => bound # "none" /\ reserved # "none" /\ tries[bound] # "none"
    /\ \A i \in DOMAIN lines : lines[i] = TheLine

Answered == receipts # {} \/ \E c \in SendCalls : send[c].at = "delivered"
Finished == {c \in SendCalls : ~send[c].contended /\ send[c].at \in Over}

\* A line without a receipt to come cost a mishap, and each line has a call
\* that ended without having waited for another
LinesArePaid ==
    /\ Len(lines) <= mishaps + (IF Answered THEN 1 ELSE 0)
    /\ Len(lines) <= Cardinality(Finished)

Waited ==
    /\ \A c \in SendCalls : send[c].contended /\ send[c].at = "delivering" => lines = <<>>
    /\ (\E c \in SendCalls : send[c].contended) =>
          \E d \in SendCalls : ~send[d].contended
                               /\ send[d].at \in {"permitted", "delivering"} \cup Over

MessageInv ==
    /\ MessageTypeOK /\ lines \in Seq(Line)
    /\ OneRequest /\ OnePermit /\ ReceiptsOfBound /\ OneThread /\ LinesArePaid /\ Waited

-----------------------------------------------------------------------------

LEMMA FinishedCounts ==
    ASSUME NEW S \in SUBSET SendCalls, NEW T \in SUBSET SendCalls, S \subseteq T
    PROVE  /\ IsFiniteSet(S) /\ Cardinality(S) \in Nat /\ Cardinality(T) \in Nat
           /\ Cardinality(S) <= Cardinality(T)
<1>1. IsFiniteSet(S) /\ IsFiniteSet(T)
  BY MessageAssumption, FS_Subset
<1> QED BY <1>1, FS_Subset, FS_CardinalityType

LEMMA NonEmptyLines ==
    ASSUME lines \in Seq(Line)
    PROVE  /\ Len(lines) \in Nat
           /\ lines # <<>> => 1 \in DOMAIN lines
BY LenProperties, EmptySeq

\* The properties of the run follow from the invariant
LEMMA InvIsOneMessage == MessageInv => OneMessage
<1> SUFFICES ASSUME MessageInv PROVE OneMessage
  OBVIOUS
<1>1. OneDestination
  <2>1. \A c \in SendCalls : send[c].at = "sent" =>
           \E i \in DOMAIN lines : lines[i].machine = send[c].to /\ lines[i].body = send[c].body
    <3> SUFFICES ASSUME NEW c \in SendCalls, send[c].at = "sent"
                 PROVE  lines[1].machine = send[c].to /\ lines[1].body = send[c].body
                        /\ 1 \in DOMAIN lines
      OBVIOUS
    <3>1. 1 \in DOMAIN lines
      BY NonEmptyLines DEF MessageInv, OneThread
    <3>2. lines[1] = TheLine
      BY <3>1 DEF MessageInv, OneThread
    <3>3. send[c].to = bound /\ send[c].body = reserved
      BY DEF MessageInv, OneRequest, Addressed
    <3> QED BY <3>1, <3>2, <3>3 DEF TheLine
  <2> QED BY <2>1 DEF OneDestination, MessageInv, OneThread
<1>2. DuplicateNeedsMishap
  <2> DEFINE Asked == {c \in SendCalls : send[c].at # "idle" /\ ~send[c].contended}
  <2>1. Finished \subseteq Asked
    BY DEF Finished, Over
  <2>2. Cardinality(Finished) <= Cardinality(Asked) /\ Cardinality(Asked) \in Nat
        /\ Cardinality(Finished) \in Nat
    BY <2>1, FinishedCounts DEF Finished
  <2>3. Len(lines) \in Nat /\ mishaps \in Nat
    BY NonEmptyLines, MessageAssumption DEF MessageInv, MessageTypeOK
  <2> QED BY <2>2, <2>3 DEF DuplicateNeedsMishap, MessageInv, LinesArePaid
<1> QED BY <1>1, <1>2 DEF OneMessage, MessageInv

LEMMA MessageInitially == MessageInit => MessageInv
<1> SUFFICES ASSUME MessageInit PROVE MessageInv
  OBVIOUS
<1>1. MessageTypeOK
  BY MessageAssumption DEF MessageInit, MessageTypeOK, NotCalled, Phases
<1>2. lines \in Seq(Line) /\ Len(lines) = 0 /\ DOMAIN lines = {}
  BY EmptySeq, LenProperties DEF MessageInit
<1>3. \A c \in SendCalls : send[c].at = "idle" /\ send[c].contended = FALSE
  BY DEF MessageInit, NotCalled
<1>4. OneRequest /\ OnePermit /\ ReceiptsOfBound /\ OneThread /\ Waited
  BY <1>2, <1>3 DEF MessageInit, ReceiptsOfBound, OneRequest, OnePermit, OneThread, Waited, Addressed, Holding
<1>5. LinesArePaid
  <2>1. Cardinality(Finished) \in Nat
    BY FinishedCounts DEF Finished
  <2> QED BY <1>2, <2>1, MessageAssumption DEF LinesArePaid, MessageInit
<1> QED BY <1>1, <1>2, <1>4, <1>5 DEF MessageInv

\* A step that queues no line keeps the count if it forgets neither a receipt
\* nor a finished call without paying for it
LEMMA PaidStays ==
    ASSUME MessageInv, lines' = lines, mishaps' \in {mishaps, mishaps + 1},
           Finished \subseteq Finished',
           mishaps' = mishaps => (Answered => Answered')
    PROVE  LinesArePaid'
<1>1. Cardinality(Finished) <= Cardinality(Finished')
      /\ Cardinality(Finished) \in Nat /\ Cardinality(Finished') \in Nat
  BY FinishedCounts DEF Finished
<1>2. Len(lines) \in Nat /\ mishaps \in Nat
  BY NonEmptyLines, MessageAssumption DEF MessageInv, MessageTypeOK
<1> QED BY <1>1, <1>2 DEF LinesArePaid, MessageInv

CallRow == [at: Phases, body: Contents \cup {"none"}, to: Peers \cup {"none"}, contended: BOOLEAN]

LEMMA Landed ==
    ASSUME MessageTypeOK, NEW c \in SendCalls, NEW phase \in Phases, Lands(c, phase)
    PROVE  /\ send' \in [SendCalls -> CallRow]
           /\ send'[c].at = phase /\ send'[c].to = send[c].to /\ send'[c].body = send[c].body
           /\ send'[c].contended = send[c].contended
           /\ \A d \in SendCalls \ {c} : send'[d] = send[d]
<1>1. send \in [SendCalls -> CallRow]
  BY DEF MessageTypeOK, CallRow
<1> QED BY <1>1 DEF Lands, CallRow

\* The sender only moves its own call and fixes what was not yet fixed
LEMMA SenderKeepsInv ==
    ASSUME MessageInv, NEW c \in SendCalls,
           (\E body \in Contents : begin_outbound_message(c, body))
              \/ resolve_target(c) \/ Bind(c)
    PROVE  MessageInv'
<1> USE DEF MessageInv
<1>1. /\ send[c].at \in {"idle", "begun", "resolved"}
      /\ UNCHANGED <<named, newest, permit, tries, receipts, lines, moves, mishaps>>
  BY DEF begin_outbound_message, resolve_target, Bind
<1>2. /\ MessageTypeOK'
      /\ send'[c].at \in {"begun", "resolved", "bound", "failed"}
      /\ send'[c].contended = send[c].contended
      /\ \A d \in SendCalls \ {c} : send'[d] = send[d]
      /\ reserved # "none" => reserved' = reserved
      /\ bound # "none" => bound' = bound
      /\ send'[c].at # "failed" => send'[c].body = reserved' /\ reserved' # "none"
      /\ send'[c].at = "resolved" => send'[c].to # "none"
      /\ send'[c].at = "bound" => send'[c].to = bound' /\ bound' # "none"
  <2>1. ASSUME NEW body \in Contents, begin_outbound_message(c, body) PROVE <1>2
    <3> DEFINE phase == IF reserved' # body THEN "failed"
                        ELSE IF bound # "none" THEN "bound" ELSE "begun"
    <3>1. /\ reserved' = IF reserved = "none" THEN body ELSE reserved
          /\ bound' = bound
      BY <2>1 DEF begin_outbound_message
    <3>2. send' = [send EXCEPT ![c] = [send[c] EXCEPT !.body = body, !.to = bound, !.at = phase]]
      BY <2>1, Zenon DEF begin_outbound_message
    <3>3. phase \in {"begun", "bound", "failed"} /\ reserved' \in Contents
      BY <3>1 DEF MessageTypeOK
    <3>4. MessageTypeOK'
      <4> HIDE DEF phase
      <4> QED BY <1>1, <3>1, <3>2, <3>3 DEF MessageTypeOK, Phases
    <3> QED BY <3>1, <3>2, <3>3, <3>4, MessageAssumption DEF MessageTypeOK
  <2>2. CASE resolve_target(c)
    BY <2>2, MessageAssumption DEF resolve_target, MessageTypeOK, Phases, OneRequest
  <2>3. CASE Bind(c)
    BY <2>3, MessageAssumption DEF Bind, bind_outbound_message, MessageTypeOK, Phases, OneRequest
  <2> QED BY <2>1, <2>2, <2>3
<1>3. OneRequest'
  BY <1>2 DEF OneRequest, Addressed
<1>4. OnePermit'
  <2>1. permit \in [Peers -> SendCalls \cup {"free"}]
    BY DEF MessageTypeOK
  <2> QED BY <1>1, <1>2, <2>1 DEF OnePermit, Holding
<1>5. OneThread'
  <2>1. lines # <<>> => TheLine' = TheLine
    BY <1>1, <1>2 DEF OneThread, TheLine
  <2>2. \A d \in SendCalls : send'[d].at \in {"delivering", "delivered", "sent"} => send'[d] = send[d] /\ bound' = bound
    BY <1>2 DEF OneRequest, Addressed
  <2>3. DOMAIN lines # {} => lines # <<>>
    OBVIOUS
  <2> QED BY <1>1, <1>2, <2>1, <2>2, <2>3 DEF OneThread
<1>6. Finished \subseteq Finished' /\ (Answered => Answered')
  BY <1>1, <1>2 DEF Finished, Answered, Over
<1>7. LinesArePaid'
  BY <1>1, <1>6, PaidStays
<1>8. Waited'
  BY <1>1, <1>2 DEF Waited, Over
<1>9. ReceiptsOfBound'
  BY <1>1, <1>2 DEF ReceiptsOfBound, OneThread
<1> QED BY <1>1, <1>2, <1>3, <1>4, <1>5, <1>7, <1>8, <1>9

\* A call that meets a held permit waits; the holder, or the call that the
\* holder itself once waited for, did not
LEMMA PermitKeepsInv ==
    ASSUME MessageInv, NEW c \in SendCalls, attempt_permit(c)
    PROVE  MessageInv'
<1> USE DEF MessageInv
<1> DEFINE m == send[c].to
<1>1. /\ send[c].at \in {"bound", "waiting"} /\ m = bound /\ m \in Peers
      /\ UNCHANGED <<named, newest, reserved, bound, tries, receipts, lines, moves, mishaps>>
  BY MessageAssumption DEF attempt_permit, OneRequest, Addressed, MessageTypeOK
<1>2. /\ permit \in [Peers -> SendCalls \cup {"free"}]
      /\ send \in [SendCalls -> CallRow]
  BY DEF MessageTypeOK, CallRow
<1>3. /\ send' \in [SendCalls -> CallRow]
      /\ \A d \in SendCalls \ {c} : send'[d] = send[d]
      /\ send'[c].to = m /\ send'[c].body = send[c].body
      /\ \/ /\ permit[m] = "free" /\ permit' = [permit EXCEPT ![m] = c]
            /\ send'[c].at = "permitted" /\ send'[c].contended = send[c].contended
         \/ /\ permit[m] # "free" /\ permit' = permit
            /\ send'[c].at = "waiting" /\ send'[c].contended = TRUE
  <2>1. CASE Lands(c, "permitted") /\ permit[m] = "free" /\ permit' = [permit EXCEPT ![m] = c]
    BY <2>1, Landed DEF Phases
  <2>2. CASE /\ send' = [send EXCEPT ![c] = [@ EXCEPT !.at = "waiting", !.contended = TRUE]]
             /\ permit[m] # "free" /\ UNCHANGED permit
    BY <1>2, <2>2 DEF CallRow, Phases
  <2> QED BY <2>1, <2>2 DEF attempt_permit
<1>4. MessageTypeOK'
  BY <1>1, <1>2, <1>3 DEF MessageTypeOK, CallRow
<1>5. OneRequest'
  BY <1>1, <1>3 DEF OneRequest, Addressed
<1>6. OnePermit'
  <2>1. \A d \in SendCalls \ {c} : send'[d].at \in Holding =>
           permit[send[d].to] = d /\ permit'[send'[d].to] = d
    BY <1>1, <1>2, <1>3, MessageAssumption DEF OnePermit, OneRequest, Addressed, Holding
  <2>2. send'[c].at \in Holding => permit'[send'[c].to] = c
    BY <1>1, <1>2, <1>3 DEF Holding
  <2>3. ASSUME NEW n \in Peers, permit'[n] # "free"
        PROVE  send'[permit'[n]].at \in Holding /\ send'[permit'[n]].to = n
    <3>1. CASE n = m /\ permit[m] = "free"
      BY <1>1, <1>2, <1>3, <3>1 DEF Holding
    <3>2. CASE ~(n = m /\ permit[m] = "free")
      <4>1. permit'[n] = permit[n]
        BY <1>2, <1>3, <3>2
      <4>2. permit[n] \in SendCalls \ {c}
        BY <1>1, <1>2, <2>3, <4>1 DEF OnePermit, Holding
      <4> QED BY <1>3, <2>3, <4>1, <4>2 DEF OnePermit
    <3> QED BY <3>1, <3>2
  <2> QED BY <2>1, <2>2, <2>3 DEF OnePermit
<1>7. OneThread'
  BY <1>1, <1>3 DEF OneThread, TheLine
<1>8. Finished \subseteq Finished' /\ (Answered => Answered')
  BY <1>1, <1>3 DEF Finished, Answered, Over
<1>9. LinesArePaid'
  BY <1>1, <1>8, PaidStays
<1>10. Waited'
  <2>1. CASE permit[m] = "free"
    BY <1>1, <1>2, <1>3, <2>1 DEF Waited, Over
  <2>2. CASE permit[m] # "free"
    <3>1. permit[m] \in SendCalls /\ send[permit[m]].at \in Holding /\ permit[m] # c
      BY <1>1, <2>2 DEF OnePermit, MessageTypeOK, Holding
    <3>2. \E d \in SendCalls \ {c} : ~send[d].contended
                                   /\ send[d].at \in {"permitted", "delivering"} \cup Over
      BY <1>1, <3>1 DEF Waited, Holding, Over
    <3> QED BY <1>1, <1>2, <1>3, <2>2, <3>2 DEF Waited, Over
  <2> QED BY <2>1, <2>2
<1>11. ReceiptsOfBound'
  BY <1>1 DEF ReceiptsOfBound
<1> QED BY <1>1, <1>4, <1>5, <1>6, <1>7, <1>9, <1>10, <1>11

\* What a call that holds the permit finds decides whether it delivers; only a
\* call that did not wait repeats an attempt
LEMMA ReceiveKeepsInv ==
    ASSUME MessageInv, NEW c \in SendCalls, receive(c)
    PROVE  MessageInv'
<1> USE DEF MessageInv
<1> DEFINE m == send[c].to
<1>1. /\ send[c].at = "permitted" /\ m = bound /\ m \in Peers /\ m # "none" /\ permit[m] = c
      /\ UNCHANGED <<named, newest, reserved, bound, receipts, lines, moves, mishaps>>
  BY DEF receive, OneRequest, OnePermit, Addressed, Holding, MessageTypeOK
<1>2. /\ permit \in [Peers -> SendCalls \cup {"free"}]
      /\ \A d \in SendCalls \ {c} : send[d].at \notin Holding
  BY <1>1 DEF OnePermit, OneRequest, Addressed, Holding, MessageTypeOK
<1>3. /\ send' \in [SendCalls -> CallRow] /\ \A d \in SendCalls \ {c} : send'[d] = send[d]
      /\ send'[c].to = m /\ send'[c].body = send[c].body /\ send'[c].contended = send[c].contended
      /\ \/ /\ send'[c].at = "delivering" /\ permit' = permit
            /\ \/ tries[m] = "none" /\ tries' = [tries EXCEPT ![m] = newest[m]]
               \/ tries[m] # "none" /\ m \notin receipts /\ ~send[c].contended /\ tries' = tries
         \/ /\ send'[c].at \in {"failed", "sent"} /\ permit' = [permit EXCEPT ![m] = "free"]
            /\ tries' = tries /\ (send'[c].at = "sent" => m \in receipts)
  <2>1. CASE FirstAttempt(c)
    BY <2>1, Landed DEF FirstAttempt, bind_message_attempt, Phases
  <2>2. CASE NoDestination(c)
    BY <2>2, Landed DEF NoDestination, Phases
  <2>3. CASE RepeatAttempt(c)
    BY <2>3, Landed DEF RepeatAttempt, Phases
  <2>4. CASE AlreadyDelivered(c)
    BY <2>4, Landed DEF AlreadyDelivered, Phases
  <2> QED BY <2>1, <2>2, <2>3, <2>4 DEF receive
<1>4. MessageTypeOK'
  <2>1. newest[m] \in Sessions
    BY <1>1 DEF MessageTypeOK
  <2> QED BY <1>1, <1>3, <2>1 DEF MessageTypeOK, CallRow
<1>5. OneRequest'
  BY <1>1, <1>2, <1>3 DEF OneRequest, Addressed
<1>6. OnePermit'
  BY <1>1, <1>2, <1>3, MessageAssumption DEF OnePermit, Holding
<1>7. OneThread' /\ (tries[m] = "none" => lines = <<>>)
  <2>1. tries[m] = "none" => lines = <<>> /\ receipts = {}
    BY <1>1 DEF OneThread
  <2>2. newest[m] # "none"
    BY <1>1, MessageAssumption DEF MessageTypeOK
  <2>3. receipts # {} => send'[c].at # "delivering"
    BY <1>1, <1>3, <2>1 DEF ReceiptsOfBound
  <2>4. \A i \in DOMAIN lines : lines[i] = TheLine'
    <3>1. tries' = tries \/ lines = <<>>
      BY <1>3, <2>1
    <3> QED BY <1>1, <3>1 DEF OneThread, TheLine
  <2> QED BY <1>1, <1>2, <1>3, <2>1, <2>2, <2>3, <2>4 DEF OneThread, Holding, MessageTypeOK
<1>8. Finished \subseteq Finished' /\ (Answered => Answered')
  BY <1>1, <1>3 DEF Finished, Answered, Over
<1>9. LinesArePaid'
  BY <1>1, <1>8, PaidStays
<1>10. Waited'
  BY <1>1, <1>2, <1>3, <1>7 DEF Waited, Over
<1>11. ReceiptsOfBound'
  BY <1>1 DEF ReceiptsOfBound
<1> QED BY <1>1, <1>4, <1>5, <1>6, <1>7, <1>9, <1>10, <1>11

\* The one call that may deliver finds no receipt, so its line is the first
\* that is answered, or pays with a mishap
LEMMA DeliverKeepsInv ==
    ASSUME MessageInv, NEW c \in SendCalls, deliver_message(c)
    PROVE  MessageInv'
<1> USE DEF MessageInv
<1> DEFINE m == send[c].to
<1>1. /\ send[c].at = "delivering" /\ m = bound /\ m \in Peers /\ m # "none" /\ permit[m] = c
      /\ tries[m] # "none" /\ receipts = {} /\ send[c].body = reserved /\ reserved # "none"
      /\ UNCHANGED <<named, newest, reserved, bound, tries, receipts, moves>>
  BY DEF deliver_message, OneRequest, OnePermit, OneThread, Addressed, Holding, MessageTypeOK
<1>2. /\ permit \in [Peers -> SendCalls \cup {"free"}]
      /\ \A d \in SendCalls \ {c} : send[d].at \notin Holding
  BY <1>1 DEF OnePermit, OneRequest, Addressed, Holding, MessageTypeOK
<1>3. PICK ok \in BOOLEAN, arrived \in BOOLEAN :
         /\ ok => arrived
         /\ lines' = IF arrived THEN Append(lines, TheLine) ELSE lines
         /\ ok \/ mishaps < MaxMishaps
         /\ mishaps' = IF ok THEN mishaps ELSE mishaps + 1
         /\ Lands(c, IF ok THEN "delivered" ELSE "failed")
         /\ permit' = IF ok THEN permit ELSE [permit EXCEPT ![m] = "free"]
  BY <1>1 DEF deliver_message, bind_message_attempt, TheLine
<1>4. /\ send' \in [SendCalls -> CallRow] /\ \A d \in SendCalls \ {c} : send'[d] = send[d]
      /\ send'[c].to = m /\ send'[c].body = send[c].body /\ send'[c].contended = send[c].contended
      /\ send'[c].at = IF ok THEN "delivered" ELSE "failed"
  BY <1>3, Landed DEF Phases
<1>5. MessageTypeOK'
  BY <1>1, <1>3, <1>4, MessageAssumption DEF MessageTypeOK, CallRow
<1>6. /\ TheLine \in Line /\ TheLine' = TheLine /\ Len(lines) \in Nat
      /\ lines' \in Seq(Line) /\ Len(lines') = IF arrived THEN Len(lines) + 1 ELSE Len(lines)
      /\ \A i \in DOMAIN lines' : lines'[i] = TheLine
      /\ arrived => lines' # <<>>
      /\ lines # <<>> => lines' # <<>>
  <2>1. TheLine \in Line /\ TheLine' = TheLine
    BY <1>1 DEF TheLine, Line, MessageTypeOK
  <2>2. \A i \in DOMAIN lines : lines[i] = TheLine
    BY DEF OneThread
  <2> QED BY <1>3, <2>1, <2>2, AppendProperties, LenProperties, EmptySeq
<1>7. OneRequest'
  BY <1>1, <1>4 DEF OneRequest, Addressed
<1>8. OnePermit'
  BY <1>1, <1>2, <1>3, <1>4, MessageAssumption DEF OnePermit, Holding
<1>9. ReceiptsOfBound'
  BY <1>1 DEF ReceiptsOfBound
<1>10. OneThread'
  BY <1>1, <1>2, <1>3, <1>4, <1>6 DEF OneThread, Holding
<1>11. LinesArePaid'
  <2>1. ~Answered /\ (ok => Answered')
    BY <1>1, <1>2, <1>4 DEF Answered, Holding
  <2>2. mishaps \in Nat
    BY MessageAssumption DEF MessageTypeOK
  <2>3. Len(lines') <= mishaps' + (IF Answered' THEN 1 ELSE 0)
    BY <1>3, <1>6, <2>1, <2>2 DEF LinesArePaid
  <2>4. Cardinality(Finished) \in Nat /\ Cardinality(Finished') \in Nat
        /\ Cardinality(Finished) <= Cardinality(Finished')
    <3>1. Finished \subseteq Finished'
      BY <1>1, <1>4 DEF Finished, Over
    <3> QED BY <3>1, FinishedCounts DEF Finished
  <2>5. Len(lines') <= Cardinality(Finished')
    <3>1. CASE send[c].contended
      <4>1. lines = <<>> /\ Len(lines) = 0
        BY <1>1, <3>1, EmptySeq DEF Waited
      <4>2. PICK d \in SendCalls : ~send[d].contended
                                /\ send[d].at \in {"permitted", "delivering"} \cup Over
        BY <3>1 DEF Waited
      <4>3. d \in Finished
        BY <1>2, <3>1, <4>2 DEF Finished, Holding
      <4>4. Cardinality(Finished) # 0
        <5>1. IsFiniteSet(Finished)
          BY FinishedCounts DEF Finished
        <5> QED BY <4>3, <5>1, FS_EmptySet
      <4> QED BY <1>6, <2>4, <4>1, <4>4
    <3>2. CASE ~send[c].contended
      <4>1. Finished' = Finished \cup {c} /\ c \notin Finished
        BY <1>1, <1>4, <3>2 DEF Finished, Over
      <4>2. IsFiniteSet(Finished)
        BY FinishedCounts DEF Finished
      <4>3. Cardinality(Finished') = Cardinality(Finished) + 1
        BY <4>1, <4>2, FS_AddElement
      <4> QED BY <1>6, <2>4, <4>3 DEF LinesArePaid
    <3> QED BY <3>1, <3>2
  <2> QED BY <2>3, <2>5 DEF LinesArePaid
<1>12. Waited'
  BY <1>1, <1>2, <1>4 DEF Waited, Over, Holding
<1> QED BY <1>5, <1>6, <1>7, <1>8, <1>9, <1>10, <1>11, <1>12

LEMMA ReceiptKeepsInv ==
    ASSUME MessageInv, NEW c \in SendCalls, commit_message_receipt(c)
    PROVE  MessageInv'
<1> USE DEF MessageInv
<1> DEFINE m == send[c].to
<1>1. /\ send[c].at = "delivered" /\ m = bound /\ m \in Peers /\ m # "none" /\ permit[m] = c
      /\ lines # <<>> /\ receipts' = receipts \cup {m} /\ permit' = [permit EXCEPT ![m] = "free"]
      /\ UNCHANGED <<named, newest, reserved, bound, tries, lines, moves, mishaps>>
  BY DEF commit_message_receipt, OneRequest, OnePermit, OneThread, Addressed, Holding, MessageTypeOK
<1>2. /\ permit \in [Peers -> SendCalls \cup {"free"}]
      /\ \A d \in SendCalls \ {c} : send[d].at \notin Holding
  BY <1>1 DEF OnePermit, OneRequest, Addressed, Holding, MessageTypeOK
<1>3. /\ send' \in [SendCalls -> CallRow] /\ \A d \in SendCalls \ {c} : send'[d] = send[d]
      /\ send'[c].to = m /\ send'[c].body = send[c].body /\ send'[c].contended = send[c].contended
      /\ send'[c].at = "sent"
  BY Landed DEF commit_message_receipt, Phases
<1>4. MessageTypeOK'
  BY <1>1, <1>3 DEF MessageTypeOK, CallRow
<1>5. OneRequest'
  BY <1>1, <1>3 DEF OneRequest, Addressed
<1>6. OnePermit'
  BY <1>1, <1>2, <1>3, MessageAssumption DEF OnePermit, Holding
<1>7. OneThread'
  BY <1>1, <1>2, <1>3 DEF OneThread, Holding, TheLine
<1>8. Finished \subseteq Finished' /\ Answered'
  BY <1>1, <1>3 DEF Finished, Answered, Over
<1>9. LinesArePaid'
  BY <1>1, <1>8, PaidStays
<1>10. Waited'
  BY <1>1, <1>3 DEF Waited, Over
<1>11. ReceiptsOfBound'
  BY <1>1 DEF ReceiptsOfBound
<1> QED BY <1>1, <1>4, <1>5, <1>6, <1>7, <1>9, <1>10, <1>11

\* A receiver that stops forgets its permit and fails all who are past it
LEMMA StopKeepsInv ==
    ASSUME MessageInv, NEW m \in Peers, ReceiverStops(m)
    PROVE  MessageInv'
<1> USE DEF MessageInv
<1>1. /\ mishaps' = mishaps + 1 /\ mishaps < MaxMishaps /\ permit' = [permit EXCEPT ![m] = "free"]
      /\ UNCHANGED <<named, newest, reserved, bound, tries, receipts, lines, moves>>
  BY DEF ReceiverStops
<1>2. /\ permit \in [Peers -> SendCalls \cup {"free"}]
      /\ send \in [SendCalls -> CallRow]
  BY DEF MessageTypeOK, CallRow
<1>3. /\ send' \in [SendCalls -> CallRow]
      /\ \A d \in SendCalls :
            /\ send'[d].contended = send[d].contended /\ send'[d].to = send[d].to
            /\ send'[d].body = send[d].body
            /\ send'[d].at = IF send[d].at \in Receiving /\ send[d].to = m THEN "failed" ELSE send[d].at
  BY <1>2 DEF ReceiverStops, CallRow, Phases
<1>4. MessageTypeOK'
  BY <1>1, <1>3, MessageAssumption DEF MessageTypeOK, CallRow
<1>5. OneRequest'
  BY <1>1, <1>3 DEF OneRequest, Addressed
<1>6. OnePermit'
  BY <1>1, <1>2, <1>3, MessageAssumption DEF OnePermit, Holding, Receiving
<1>7. OneThread'
  BY <1>1, <1>3 DEF OneThread, TheLine
<1>8. Finished \subseteq Finished'
  BY <1>3 DEF Finished, Over
<1>9. LinesArePaid'
  <2>1. mishaps' # mishaps
    BY <1>1, MessageAssumption DEF MessageTypeOK
  <2> QED BY <1>1, <1>8, <2>1, PaidStays
<1>10. Waited'
  BY <1>1, <1>3 DEF Waited, Over
<1>11. ReceiptsOfBound'
  BY <1>1 DEF ReceiptsOfBound
<1> QED BY <1>1, <1>4, <1>5, <1>6, <1>7, <1>9, <1>10, <1>11

LEMMA MessageStep == MessageInv /\ [MessageNext]_messageVars => MessageInv'
<1> SUFFICES ASSUME MessageInv, [MessageNext]_messageVars PROVE MessageInv'
  OBVIOUS
<1>1. ASSUME UNCHANGED <<reserved, bound, send, permit, tries, receipts, lines, mishaps>>,
             MessageTypeOK'
      PROVE  MessageInv'
  BY <1>1 DEF MessageInv, OneRequest, OnePermit, ReceiptsOfBound, OneThread, TheLine,
              LinesArePaid, Answered, Finished, Waited
<1>2. CASE WorldMoves
  <2>1. MessageTypeOK'
    BY <1>2, MessageAssumption DEF WorldMoves, MessageInv, MessageTypeOK
  <2> QED BY <1>1, <1>2, <2>1 DEF WorldMoves
<1>3. CASE UNCHANGED messageVars
  <2>1. MessageTypeOK'
    BY <1>3 DEF messageVars, MessageInv, MessageTypeOK
  <2> QED BY <1>1, <1>3, <2>1 DEF messageVars
<1> QED BY <1>2, <1>3, SenderKeepsInv, PermitKeepsInv, ReceiveKeepsInv, DeliverKeepsInv,
           ReceiptKeepsInv, StopKeepsInv DEF MessageNext

\* daemon/message_sender.rs and message_receiver.rs: every line queued for one
\* UUID has one text and one thread, a call that reports success reports a
\* line that is there, and a line is queued again only after a mishap and by a
\* call that did not wait for the one that failed
THEOREM OneMessageCorrect == MessageSpec => []OneMessage
BY InvIsOneMessage, MessageInitially, MessageStep, PTL DEF MessageSpec

-----------------------------------------------------------------------------
(* A callback's route.  The record is the daemon's only memory of a request  *)
(* that T3 may have taken, so the invariant ties every phase of an attempt   *)
(* to it.                                                                    *)

AttemptRecord ==
    [phase: {"none", "retry", "lookup", "save", "turn", "dispatch", "reply", "socket", "queue", "settle"},
     via: {"none", "pending", "t3claude", "stopped", "t3codex"},
     was: BOOLEAN, start: {"auto", "after_active"}, read: IdleClasses,
     outcome: WakeOutcomes \cup {"none", "delivered", "retryable", "deferred", "wake_failed", "suppressed"},
     failed_wake: BOOLEAN]

\* From the save to T3's answer the record stands, and only a retry finds one
RecordOfAttempt ==
    /\ attempt.phase \in {"save", "turn", "dispatch", "reply"} => attempt.via # "none"
    /\ attempt.phase \in {"turn", "dispatch", "reply"} => record # "none"
    /\ attempt.via = "pending" /\ attempt.phase = "save" => record # "none"
    /\ attempt.via = "pending" /\ attempt.phase \in {"turn", "dispatch", "reply"} => attempt.was

\* While T3 may have taken the line unheard of, the record stands and the attempt
\* is a retry through T3, or about to learn the outcome
DoubtIsRecorded ==
    t3Took /\ ~replied =>
        /\ record # "none" /\ attempt.phase \notin {"lookup", "socket", "queue"}
        /\ attempt.phase \in {"save", "turn", "dispatch"} => attempt.via = "pending"
        /\ attempt.phase = "reply" => attempt.via = "pending" \/ attempt.outcome \in {"woken", "uncertain"}

\* Success is reported of a line that arrived
SuccessWasHeard ==
    /\ attempt.phase = "reply" /\ attempt.outcome = "woken" => heard
    /\ attempt.phase = "settle" /\ attempt.outcome = "delivered" => heard
    /\ settled = "delivered" => heard

\* A compaction that a callback or the scan started finds an idle session, and a
\* line that steers was read as active a moment ago
CompactionIsIdle ==
    /\ compaction \in {"idle", "callback"} => idle >= 2
    /\ InFlight => attempt.read = 0 /\ idle <= 1

\* RouteTypeOK, one variable at a time
RouteTypes ==
    /\ line \in LineKinds /\ world \in [claude: ClaudeSessions, mapped: BOOLEAN] /\ idle \in IdleClasses
    /\ compaction \in {"none", "idle", "callback", "manual"} /\ compacted \in BOOLEAN
    /\ record \in {"none", "claude", "codex"} /\ hold \in {"none", "held", "expired"}
    /\ attempt \in AttemptRecord
    /\ claimed \in BOOLEAN /\ alerted \in BOOLEAN /\ current \in BOOLEAN
    /\ t3Took \in BOOLEAN /\ replied \in BOOLEAN /\ heard \in BOOLEAN
    /\ settled \in {"no", "delivered", "suppressed"}

RouteInv ==
    /\ RouteTypes /\ RecordOfAttempt /\ DoubtIsRecorded /\ SuccessWasHeard /\ CompactionIsIdle

LEMMA NoAttemptTyped == NoAttempt \in AttemptRecord
BY DEF NoAttempt, AttemptRecord, IdleClasses

LEMMA OwnerOutcome ==
    ASSUME NEW c \in T3Conditions, world \in [claude: ClaudeSessions, mapped: BOOLEAN]
    PROVE  /\ with_owner(c) \in WakeOutcomes
           /\ Sent(c) /\ world.mapped => with_owner(c) = dispatch_failure(c)
           /\ with_owner(c) = "woken" => c = "answers" /\ world.mapped
BY DEF T3Conditions, with_owner, connect, load_runtime, require_protocol, resolve, token_issued,
       issue_ticket, dispatch_failure, WakeOutcomes, Sent

LEMMA runKeeps ==
    ASSUME RouteInv, run
    PROVE  RouteInv'
<1> USE DEF RouteInv, Environment, run, NoAttempt
<1>1. RouteTypes'
  <2>1. attempt' \in AttemptRecord
    BY NoAttemptTyped DEF RouteTypes, AttemptRecord, WakeOutcomes, IdleClasses
  <2>3. /\ idle' \in IdleClasses /\ record' \in {"none", "claude", "codex"}
        /\ hold' \in {"none", "held", "expired"} /\ settled' \in {"no", "delivered", "suppressed"}
        /\ compaction' \in {"none", "idle", "callback", "manual"}
    BY DEF RouteTypes, IdleClasses
  <2>4. /\ compacted' \in BOOLEAN /\ claimed' \in BOOLEAN /\ alerted' \in BOOLEAN
        /\ t3Took' \in BOOLEAN /\ replied' \in BOOLEAN /\ heard' \in BOOLEAN /\ current' \in BOOLEAN
        /\ line' \in LineKinds /\ world' \in [claude: ClaudeSessions, mapped: BOOLEAN]
    BY DEF RouteTypes
  <2> QED BY <2>1, <2>3, <2>4 DEF RouteTypes
<1>2. RecordOfAttempt'
  BY DEF RecordOfAttempt, AttemptRecord, RouteTypes
<1>3. DoubtIsRecorded'
  BY DEF RecordOfAttempt, DoubtIsRecorded, AttemptRecord, RouteTypes
<1>4. SuccessWasHeard'
  BY DEF SuccessWasHeard, AttemptRecord, RouteTypes
<1>5. CompactionIsIdle'
  BY DEF CompactionIsIdle, InFlight, Provider, IdleClasses, AttemptRecord, RouteTypes
<1> QED BY <1>1, <1>2, <1>3, <1>4, <1>5

LEMMA retry_pending_t3Keeps ==
    ASSUME RouteInv, retry_pending_t3
    PROVE  RouteInv'
<1> USE DEF RouteInv, Environment, retry_pending_t3
<1>1. RouteTypes'
  <2>1. attempt' \in AttemptRecord
    BY DEF RouteTypes, AttemptRecord, WakeOutcomes, IdleClasses
  <2>3. /\ idle' \in IdleClasses /\ record' \in {"none", "claude", "codex"}
        /\ hold' \in {"none", "held", "expired"} /\ settled' \in {"no", "delivered", "suppressed"}
        /\ compaction' \in {"none", "idle", "callback", "manual"}
    BY DEF RouteTypes, IdleClasses
  <2>4. /\ compacted' \in BOOLEAN /\ claimed' \in BOOLEAN /\ alerted' \in BOOLEAN
        /\ t3Took' \in BOOLEAN /\ replied' \in BOOLEAN /\ heard' \in BOOLEAN /\ current' \in BOOLEAN
        /\ line' \in LineKinds /\ world' \in [claude: ClaudeSessions, mapped: BOOLEAN]
    BY DEF RouteTypes
  <2> QED BY <2>1, <2>3, <2>4 DEF RouteTypes
<1>2. RecordOfAttempt'
  BY DEF RecordOfAttempt, AttemptRecord, RouteTypes
<1>3. DoubtIsRecorded'
  BY DEF RecordOfAttempt, DoubtIsRecorded, AttemptRecord, RouteTypes
<1>4. SuccessWasHeard'
  BY DEF SuccessWasHeard, AttemptRecord, RouteTypes
<1>5. CompactionIsIdle'
  BY DEF CompactionIsIdle, InFlight, Provider, IdleClasses, AttemptRecord, RouteTypes
<1> QED BY <1>1, <1>2, <1>3, <1>4, <1>5

LEMMA lookup_failsKeeps ==
    ASSUME RouteInv, lookup_fails
    PROVE  RouteInv'
<1> USE DEF RouteInv, Environment, lookup_fails, End
<1>1. RouteTypes'
  <2>1. attempt' \in AttemptRecord
    BY DEF RouteTypes, AttemptRecord, WakeOutcomes, IdleClasses
  <2>3. /\ idle' \in IdleClasses /\ record' \in {"none", "claude", "codex"}
        /\ hold' \in {"none", "held", "expired"} /\ settled' \in {"no", "delivered", "suppressed"}
        /\ compaction' \in {"none", "idle", "callback", "manual"}
    BY DEF RouteTypes, IdleClasses
  <2>4. /\ compacted' \in BOOLEAN /\ claimed' \in BOOLEAN /\ alerted' \in BOOLEAN
        /\ t3Took' \in BOOLEAN /\ replied' \in BOOLEAN /\ heard' \in BOOLEAN /\ current' \in BOOLEAN
        /\ line' \in LineKinds /\ world' \in [claude: ClaudeSessions, mapped: BOOLEAN]
    BY DEF RouteTypes
  <2> QED BY <2>1, <2>3, <2>4 DEF RouteTypes
<1>2. RecordOfAttempt'
  BY DEF RecordOfAttempt, AttemptRecord, RouteTypes
<1>3. DoubtIsRecorded'
  BY DEF RecordOfAttempt, DoubtIsRecorded, AttemptRecord, RouteTypes
<1>4. SuccessWasHeard'
  BY DEF SuccessWasHeard, AttemptRecord, RouteTypes
<1>5. CompactionIsIdle'
  BY DEF CompactionIsIdle, InFlight, Provider, IdleClasses, AttemptRecord, RouteTypes
<1> QED BY <1>1, <1>2, <1>3, <1>4, <1>5

LEMMA routeKeeps ==
    ASSUME RouteInv, NEW answer \in {"yes", "no", "error"}, route(answer)
    PROVE  RouteInv'
<1> DEFINE saves(via) == attempt' = [attempt EXCEPT !.phase = "save", !.via = via]
<1> USE DEF RouteInv, RouteTypes
<1>1. /\ attempt.phase = "lookup" /\ UNCHANGED <<line, world, idle, current, compaction, compacted>>
      /\ UNCHANGED <<record, hold, alerted, t3Took, replied, heard, settled>>
  BY DEF route, Environment
<1>2. find_saved_inbox_origin(answer) \in {"t3claude", "reachable", "stopped", "codex", "t3codex"}
  BY DEF find_saved_inbox_origin, find_saved_origin, ClaudeSessions
<1>3. \/ Go("socket") /\ UNCHANGED claimed
      \/ Go("queue") /\ UNCHANGED claimed
      \/ End("deferred") /\ UNCHANGED claimed
      \/ claim_wake /\ saves("stopped")
      \/ UNCHANGED claimed /\ saves("t3claude")
      \/ UNCHANGED claimed /\ saves("t3codex")
  BY <1>2, Zenon DEF route
<1>4. claimed' \in BOOLEAN
  BY <1>3 DEF claim_wake
<1>5. /\ attempt' \in AttemptRecord
      /\ \/ attempt'.phase \in {"socket", "queue"}
         \/ attempt'.phase = "settle" /\ attempt'.outcome = "deferred"
         \/ attempt'.phase = "save" /\ attempt'.via \notin {"none", "pending"}
  BY <1>3 DEF Go, End, AttemptRecord
<1>6. RouteTypes'
  BY <1>1, <1>4, <1>5
<1>7. RecordOfAttempt'
  BY <1>5 DEF RecordOfAttempt
<1>8. DoubtIsRecorded'
  BY <1>1 DEF DoubtIsRecorded
<1>9. SuccessWasHeard'
  BY <1>1, <1>5 DEF SuccessWasHeard
<1>10. CompactionIsIdle'
  BY <1>1, <1>5 DEF CompactionIsIdle, InFlight
<1> QED BY <1>6, <1>7, <1>8, <1>9, <1>10

LEMMA save_recordKeeps ==
    ASSUME RouteInv, save_record
    PROVE  RouteInv'
<1> USE DEF RouteInv, Environment, save_record, Provider
<1>1. RouteTypes'
  <2>1. attempt' \in AttemptRecord
    BY DEF RouteTypes, AttemptRecord, WakeOutcomes, IdleClasses
  <2>3. /\ idle' \in IdleClasses /\ record' \in {"none", "claude", "codex"}
        /\ hold' \in {"none", "held", "expired"} /\ settled' \in {"no", "delivered", "suppressed"}
        /\ compaction' \in {"none", "idle", "callback", "manual"}
    BY DEF RouteTypes, IdleClasses
  <2>4. /\ compacted' \in BOOLEAN /\ claimed' \in BOOLEAN /\ alerted' \in BOOLEAN
        /\ t3Took' \in BOOLEAN /\ replied' \in BOOLEAN /\ heard' \in BOOLEAN /\ current' \in BOOLEAN
        /\ line' \in LineKinds /\ world' \in [claude: ClaudeSessions, mapped: BOOLEAN]
    BY DEF RouteTypes
  <2> QED BY <2>1, <2>3, <2>4 DEF RouteTypes
<1>2. RecordOfAttempt'
  BY DEF RecordOfAttempt, AttemptRecord, RouteTypes
<1>3. DoubtIsRecorded'
  BY DEF RecordOfAttempt, DoubtIsRecorded, AttemptRecord, RouteTypes
<1>4. SuccessWasHeard'
  BY DEF SuccessWasHeard, AttemptRecord, RouteTypes
<1>5. CompactionIsIdle'
  BY DEF CompactionIsIdle, InFlight, IdleClasses, AttemptRecord, RouteTypes
<1> QED BY <1>1, <1>2, <1>3, <1>4, <1>5

LEMMA save_failsKeeps ==
    ASSUME RouteInv, save_fails
    PROVE  RouteInv'
<1> USE DEF RouteInv, Environment, save_fails, Provider, End
<1>1. RouteTypes'
  <2>1. attempt' \in AttemptRecord
    BY DEF RouteTypes, AttemptRecord, WakeOutcomes, IdleClasses
  <2>3. /\ idle' \in IdleClasses /\ record' \in {"none", "claude", "codex"}
        /\ hold' \in {"none", "held", "expired"} /\ settled' \in {"no", "delivered", "suppressed"}
        /\ compaction' \in {"none", "idle", "callback", "manual"}
    BY DEF RouteTypes, IdleClasses
  <2>4. /\ compacted' \in BOOLEAN /\ claimed' \in BOOLEAN /\ alerted' \in BOOLEAN
        /\ t3Took' \in BOOLEAN /\ replied' \in BOOLEAN /\ heard' \in BOOLEAN /\ current' \in BOOLEAN
        /\ line' \in LineKinds /\ world' \in [claude: ClaudeSessions, mapped: BOOLEAN]
    BY DEF RouteTypes
  <2> QED BY <2>1, <2>3, <2>4 DEF RouteTypes
<1>2. RecordOfAttempt'
  BY DEF RecordOfAttempt, AttemptRecord, RouteTypes
<1>3. DoubtIsRecorded'
  BY DEF RecordOfAttempt, DoubtIsRecorded, AttemptRecord, RouteTypes
<1>4. SuccessWasHeard'
  BY DEF SuccessWasHeard, AttemptRecord, RouteTypes
<1>5. CompactionIsIdle'
  BY DEF CompactionIsIdle, InFlight, IdleClasses, AttemptRecord, RouteTypes
<1> QED BY <1>1, <1>2, <1>3, <1>4, <1>5

LEMMA turn_startsKeeps ==
    ASSUME RouteInv, turn_starts
    PROVE  RouteInv'
<1> USE DEF RouteInv, Environment, turn_starts, cold_compaction_due, turn_start, Provider
<1>1. RouteTypes'
  <2>1. attempt' \in AttemptRecord
    BY DEF RouteTypes, AttemptRecord, WakeOutcomes, IdleClasses
  <2>3. /\ idle' \in IdleClasses /\ record' \in {"none", "claude", "codex"}
        /\ hold' \in {"none", "held", "expired"} /\ settled' \in {"no", "delivered", "suppressed"}
        /\ compaction' \in {"none", "idle", "callback", "manual"}
    BY DEF RouteTypes, IdleClasses
  <2>4. /\ compacted' \in BOOLEAN /\ claimed' \in BOOLEAN /\ alerted' \in BOOLEAN
        /\ t3Took' \in BOOLEAN /\ replied' \in BOOLEAN /\ heard' \in BOOLEAN /\ current' \in BOOLEAN
        /\ line' \in LineKinds /\ world' \in [claude: ClaudeSessions, mapped: BOOLEAN]
    BY DEF RouteTypes
  <2> QED BY <2>1, <2>3, <2>4 DEF RouteTypes
<1>2. RecordOfAttempt'
  BY DEF RecordOfAttempt, AttemptRecord, RouteTypes
<1>3. DoubtIsRecorded'
  BY DEF RecordOfAttempt, DoubtIsRecorded, AttemptRecord, RouteTypes
<1>4. SuccessWasHeard'
  BY DEF SuccessWasHeard, AttemptRecord, RouteTypes
<1>5. CompactionIsIdle'
  BY DEF CompactionIsIdle, InFlight, IdleClasses, AttemptRecord, RouteTypes
<1> QED BY <1>1, <1>2, <1>3, <1>4, <1>5

LEMMA compact_firstKeeps ==
    ASSUME RouteInv, NEW c \in T3Conditions, NEW took \in BOOLEAN, compact_first(c, took)
    PROVE  RouteInv'
<1> USE DEF RouteInv, RouteTypes
<1>1. /\ attempt.phase = "turn" /\ idle = 3 /\ compact_thread(c, took, "callback")
      /\ UNCHANGED <<line, world, idle, current, record, claimed, alerted, t3Took, replied, heard, settled>>
  BY DEF compact_first, cold_compaction_due, Environment
<1>2. \/ hold' = "held" /\ End("deferred")
      \/ /\ UNCHANGED hold
         /\ attempt' = [attempt EXCEPT !.phase = "dispatch", !.read = idle, !.start = turn_start]
  BY DEF compact_first
<1>3. turn_start = "after_active"
  BY <1>1 DEF turn_start
<1>4. /\ attempt' \in AttemptRecord /\ attempt'.via = attempt.via /\ attempt'.was = attempt.was
      /\ \/ attempt'.phase = "settle" /\ attempt'.outcome = "deferred"
         \/ attempt'.phase = "dispatch" /\ attempt'.start = "after_active"
  BY <1>1, <1>2, <1>3 DEF End, AttemptRecord
<1>5. compaction' \in {"none", "idle", "callback", "manual"} /\ compacted' \in BOOLEAN
  BY <1>1 DEF compact_thread
<1>6. RouteTypes'
  BY <1>1, <1>2, <1>4, <1>5
<1>7. RecordOfAttempt'
  BY <1>1, <1>4 DEF RecordOfAttempt
<1>8. DoubtIsRecorded'
  BY <1>1, <1>4 DEF DoubtIsRecorded
<1>9. SuccessWasHeard'
  BY <1>1, <1>4 DEF SuccessWasHeard
<1>10. CompactionIsIdle'
  BY <1>1, <1>4 DEF CompactionIsIdle, InFlight
<1> QED BY <1>6, <1>7, <1>8, <1>9, <1>10

LEMMA start_turnKeeps ==
    ASSUME RouteInv, NEW c \in T3Conditions, NEW took \in BOOLEAN, start_turn(c, took)
    PROVE  RouteInv'
<1> USE DEF RouteInv, Environment, start_turn, Provider, Takes, Sent, dispatch_failure
<1>1. RouteTypes'
  <2>1. attempt' \in AttemptRecord
    BY OwnerOutcome DEF RouteTypes, AttemptRecord, WakeOutcomes, IdleClasses
  <2>3. /\ idle' \in IdleClasses /\ record' \in {"none", "claude", "codex"}
        /\ hold' \in {"none", "held", "expired"} /\ settled' \in {"no", "delivered", "suppressed"}
        /\ compaction' \in {"none", "idle", "callback", "manual"}
    BY DEF RouteTypes, IdleClasses
  <2>4. /\ compacted' \in BOOLEAN /\ claimed' \in BOOLEAN /\ alerted' \in BOOLEAN
        /\ t3Took' \in BOOLEAN /\ replied' \in BOOLEAN /\ heard' \in BOOLEAN /\ current' \in BOOLEAN
        /\ line' \in LineKinds /\ world' \in [claude: ClaudeSessions, mapped: BOOLEAN]
    BY DEF RouteTypes
  <2> QED BY <2>1, <2>3, <2>4 DEF RouteTypes
<1>2. RecordOfAttempt'
  BY OwnerOutcome DEF RecordOfAttempt, AttemptRecord, RouteTypes
<1>3. DoubtIsRecorded'
  BY OwnerOutcome DEF RecordOfAttempt, DoubtIsRecorded, AttemptRecord, RouteTypes
<1>4. SuccessWasHeard'
  BY OwnerOutcome DEF SuccessWasHeard, AttemptRecord, RouteTypes
<1>5. CompactionIsIdle'
  BY OwnerOutcome DEF CompactionIsIdle, InFlight, IdleClasses, AttemptRecord, RouteTypes
<1> QED BY <1>1, <1>2, <1>3, <1>4, <1>5

LEMMA stop_wakeKeeps ==
    ASSUME RouteInv, NEW o \in {"suppressed", "retryable"}, stop_wake(o)
    PROVE  RouteInv'
<1> USE DEF RouteInv, Environment, stop_wake, CheckStops, End
<1>1. RouteTypes'
  <2>1. attempt' \in AttemptRecord
    BY DEF RouteTypes, AttemptRecord, WakeOutcomes, IdleClasses
  <2>3. /\ idle' \in IdleClasses /\ record' \in {"none", "claude", "codex"}
        /\ hold' \in {"none", "held", "expired"} /\ settled' \in {"no", "delivered", "suppressed"}
        /\ compaction' \in {"none", "idle", "callback", "manual"}
    BY DEF RouteTypes, IdleClasses
  <2>4. /\ compacted' \in BOOLEAN /\ claimed' \in BOOLEAN /\ alerted' \in BOOLEAN
        /\ t3Took' \in BOOLEAN /\ replied' \in BOOLEAN /\ heard' \in BOOLEAN /\ current' \in BOOLEAN
        /\ line' \in LineKinds /\ world' \in [claude: ClaudeSessions, mapped: BOOLEAN]
    BY DEF RouteTypes
  <2> QED BY <2>1, <2>3, <2>4 DEF RouteTypes
<1>2. RecordOfAttempt'
  BY DEF RecordOfAttempt, AttemptRecord, RouteTypes
<1>3. DoubtIsRecorded'
  BY DEF RecordOfAttempt, DoubtIsRecorded, AttemptRecord, RouteTypes
<1>4. SuccessWasHeard'
  BY DEF SuccessWasHeard, AttemptRecord, RouteTypes
<1>5. CompactionIsIdle'
  BY DEF CompactionIsIdle, InFlight, Provider, IdleClasses, AttemptRecord, RouteTypes
<1> QED BY <1>1, <1>2, <1>3, <1>4, <1>5

LEMMA stop_writeKeeps ==
    ASSUME RouteInv, NEW o \in {"suppressed", "retryable"}, stop_write(o)
    PROVE  RouteInv'
<1> USE DEF RouteInv, Environment, stop_write, CheckStops, End
<1>1. RouteTypes'
  <2>1. attempt' \in AttemptRecord
    BY DEF RouteTypes, AttemptRecord, WakeOutcomes, IdleClasses
  <2>3. /\ idle' \in IdleClasses /\ record' \in {"none", "claude", "codex"}
        /\ hold' \in {"none", "held", "expired"} /\ settled' \in {"no", "delivered", "suppressed"}
        /\ compaction' \in {"none", "idle", "callback", "manual"}
    BY DEF RouteTypes, IdleClasses
  <2>4. /\ compacted' \in BOOLEAN /\ claimed' \in BOOLEAN /\ alerted' \in BOOLEAN
        /\ t3Took' \in BOOLEAN /\ replied' \in BOOLEAN /\ heard' \in BOOLEAN /\ current' \in BOOLEAN
        /\ line' \in LineKinds /\ world' \in [claude: ClaudeSessions, mapped: BOOLEAN]
    BY DEF RouteTypes
  <2> QED BY <2>1, <2>3, <2>4 DEF RouteTypes
<1>2. RecordOfAttempt'
  BY DEF RecordOfAttempt, AttemptRecord, RouteTypes
<1>3. DoubtIsRecorded'
  BY DEF RecordOfAttempt, DoubtIsRecorded, AttemptRecord, RouteTypes
<1>4. SuccessWasHeard'
  BY DEF SuccessWasHeard, AttemptRecord, RouteTypes
<1>5. CompactionIsIdle'
  BY DEF CompactionIsIdle, InFlight, Provider, IdleClasses, AttemptRecord, RouteTypes
<1> QED BY <1>1, <1>2, <1>3, <1>4, <1>5

LEMMA wake_returnsKeeps ==
    ASSUME RouteInv, wake_returns
    PROVE  RouteInv'
<1> USE DEF RouteInv, RouteTypes
<1>1. /\ attempt.phase = "reply" /\ UNCHANGED <<line, world, idle, current, compaction, compacted>>
      /\ UNCHANGED <<claimed, alerted, t3Took, heard, settled>>
      /\ replied' = (replied \/ attempt.outcome = "woken") /\ attempt' = AfterWake
      /\ IF Clears THEN record' = "none" /\ hold' = "none" ELSE UNCHANGED <<record, hold>>
  BY DEF wake_returns, Environment
<1>2. \/ attempt' = Settles("delivered") /\ attempt.outcome = "woken"
      \/ \E o \in {"retryable", "wake_failed"} : attempt' = Settles(o) /\ attempt.outcome # "woken"
      \/ /\ attempt' = [attempt EXCEPT !.phase = "socket"]
         /\ attempt.via # "pending" /\ attempt.outcome \notin {"woken", "uncertain"}
      \/ /\ attempt' = [attempt EXCEPT !.phase = "queue", !.failed_wake = TRUE]
         /\ attempt.via # "pending" /\ attempt.outcome \notin {"woken", "uncertain"}
  <2>1. attempt.via \in {"pending", "t3claude", "t3codex", "stopped"}
    BY <1>1 DEF RecordOfAttempt, AttemptRecord
  <2>2. CASE attempt.via = "pending"
    BY <1>1, <2>2 DEF AfterWake, AfterPending
  <2>3. CASE attempt.via = "t3claude"
    BY <1>1, <2>3 DEF AfterWake, AfterT3Claude
  <2>4. CASE attempt.via = "t3codex"
    BY <1>1, <2>4 DEF AfterWake, AfterT3Codex
  <2>5. CASE attempt.via = "stopped"
    BY <1>1, <2>5 DEF AfterWake, AfterStopped
  <2> QED BY <2>1, <2>2, <2>3, <2>4, <2>5
<1>3. /\ attempt' \in AttemptRecord
      /\ attempt'.phase \in {"settle", "socket", "queue"}
      /\ attempt'.phase = "settle" /\ attempt'.outcome = "delivered" => attempt.outcome = "woken"
      /\ attempt'.phase \in {"socket", "queue"} =>
            attempt.via # "pending" /\ attempt.outcome \notin {"woken", "uncertain"}
  BY <1>2 DEF Settles, AttemptRecord
<1>4. replied' \in BOOLEAN /\ record' \in {"none", "claude", "codex"} /\ hold' \in {"none", "held", "expired"}
  BY <1>1
<1>5. RouteTypes'
  BY <1>1, <1>3, <1>4
<1>6. RecordOfAttempt'
  BY <1>3 DEF RecordOfAttempt
<1>7. DoubtIsRecorded'
  <2>1. CASE t3Took /\ ~replied /\ ~replied'
    <3>1. /\ record # "none" /\ attempt.outcome # "woken"
          /\ attempt.via = "pending" \/ attempt.outcome = "uncertain"
      BY <1>1, <2>1 DEF DoubtIsRecorded
    <3>2. ~Clears
      BY <1>1, <3>1 DEF Clears, RecordOfAttempt
    <3> QED BY <1>1, <1>3, <3>1, <3>2 DEF DoubtIsRecorded
  <2> QED BY <1>1, <2>1 DEF DoubtIsRecorded
<1>8. SuccessWasHeard'
  BY <1>1, <1>3 DEF SuccessWasHeard
<1>9. CompactionIsIdle'
  BY <1>1, <1>3 DEF CompactionIsIdle, InFlight
<1> QED BY <1>5, <1>6, <1>7, <1>8, <1>9

LEMMA inbox_sendKeeps ==
    ASSUME RouteInv, NEW arrives \in BOOLEAN, NEW ok \in BOOLEAN, inbox_send(arrives, ok)
    PROVE  RouteInv'
<1> USE DEF RouteInv, Environment, inbox_send, Writes, End
<1>1. RouteTypes'
  <2>1. attempt' \in AttemptRecord
    BY DEF RouteTypes, AttemptRecord, WakeOutcomes, IdleClasses
  <2>3. /\ idle' \in IdleClasses /\ record' \in {"none", "claude", "codex"}
        /\ hold' \in {"none", "held", "expired"} /\ settled' \in {"no", "delivered", "suppressed"}
        /\ compaction' \in {"none", "idle", "callback", "manual"}
    BY DEF RouteTypes, IdleClasses
  <2>4. /\ compacted' \in BOOLEAN /\ claimed' \in BOOLEAN /\ alerted' \in BOOLEAN
        /\ t3Took' \in BOOLEAN /\ replied' \in BOOLEAN /\ heard' \in BOOLEAN /\ current' \in BOOLEAN
        /\ line' \in LineKinds /\ world' \in [claude: ClaudeSessions, mapped: BOOLEAN]
    BY DEF RouteTypes
  <2> QED BY <2>1, <2>3, <2>4 DEF RouteTypes
<1>2. RecordOfAttempt'
  BY DEF RecordOfAttempt, AttemptRecord, RouteTypes
<1>3. DoubtIsRecorded'
  BY DEF RecordOfAttempt, DoubtIsRecorded, AttemptRecord, RouteTypes
<1>4. SuccessWasHeard'
  BY DEF SuccessWasHeard, AttemptRecord, RouteTypes
<1>5. CompactionIsIdle'
  BY DEF CompactionIsIdle, InFlight, Provider, IdleClasses, AttemptRecord, RouteTypes
<1> QED BY <1>1, <1>2, <1>3, <1>4, <1>5

LEMMA queue_command_onceKeeps ==
    ASSUME RouteInv, NEW arrives \in BOOLEAN, NEW ok \in BOOLEAN, queue_command_once(arrives, ok)
    PROVE  RouteInv'
<1> USE DEF RouteInv, Environment, queue_command_once, Writes, End
<1>1. RouteTypes'
  <2>1. attempt' \in AttemptRecord
    BY DEF RouteTypes, AttemptRecord, WakeOutcomes, IdleClasses
  <2>3. /\ idle' \in IdleClasses /\ record' \in {"none", "claude", "codex"}
        /\ hold' \in {"none", "held", "expired"} /\ settled' \in {"no", "delivered", "suppressed"}
        /\ compaction' \in {"none", "idle", "callback", "manual"}
    BY DEF RouteTypes, IdleClasses
  <2>4. /\ compacted' \in BOOLEAN /\ claimed' \in BOOLEAN /\ alerted' \in BOOLEAN
        /\ t3Took' \in BOOLEAN /\ replied' \in BOOLEAN /\ heard' \in BOOLEAN /\ current' \in BOOLEAN
        /\ line' \in LineKinds /\ world' \in [claude: ClaudeSessions, mapped: BOOLEAN]
    BY DEF RouteTypes
  <2> QED BY <2>1, <2>3, <2>4 DEF RouteTypes
<1>2. RecordOfAttempt'
  BY DEF RecordOfAttempt, AttemptRecord, RouteTypes
<1>3. DoubtIsRecorded'
  BY DEF RecordOfAttempt, DoubtIsRecorded, AttemptRecord, RouteTypes
<1>4. SuccessWasHeard'
  BY DEF SuccessWasHeard, AttemptRecord, RouteTypes
<1>5. CompactionIsIdle'
  BY DEF CompactionIsIdle, InFlight, Provider, IdleClasses, AttemptRecord, RouteTypes
<1> QED BY <1>1, <1>2, <1>3, <1>4, <1>5

LEMMA settle_callbackKeeps ==
    ASSUME RouteInv, settle_callback
    PROVE  RouteInv'
<1> USE DEF RouteInv, Environment, settle_callback, NoAttempt
<1>1. RouteTypes'
  <2>1. attempt' \in AttemptRecord
    BY DEF RouteTypes, AttemptRecord, WakeOutcomes, IdleClasses
  <2>3. /\ idle' \in IdleClasses /\ record' \in {"none", "claude", "codex"}
        /\ hold' \in {"none", "held", "expired"} /\ settled' \in {"no", "delivered", "suppressed"}
        /\ compaction' \in {"none", "idle", "callback", "manual"}
    BY DEF RouteTypes, IdleClasses
  <2>4. /\ compacted' \in BOOLEAN /\ claimed' \in BOOLEAN /\ alerted' \in BOOLEAN
        /\ t3Took' \in BOOLEAN /\ replied' \in BOOLEAN /\ heard' \in BOOLEAN /\ current' \in BOOLEAN
        /\ line' \in LineKinds /\ world' \in [claude: ClaudeSessions, mapped: BOOLEAN]
    BY DEF RouteTypes
  <2> QED BY <2>1, <2>3, <2>4 DEF RouteTypes
<1>2. RecordOfAttempt'
  BY DEF RecordOfAttempt, AttemptRecord, RouteTypes
<1>3. DoubtIsRecorded'
  BY DEF RecordOfAttempt, DoubtIsRecorded, AttemptRecord, RouteTypes
<1>4. SuccessWasHeard'
  BY DEF SuccessWasHeard, AttemptRecord, RouteTypes
<1>5. CompactionIsIdle'
  BY DEF CompactionIsIdle, InFlight, Provider, IdleClasses, AttemptRecord, RouteTypes
<1> QED BY <1>1, <1>2, <1>3, <1>4, <1>5

LEMMA daemon_crashKeeps ==
    ASSUME RouteInv, daemon_crash
    PROVE  RouteInv'
<1> USE DEF RouteInv, Environment, daemon_crash, NoAttempt
<1>1. RouteTypes'
  <2>1. attempt' \in AttemptRecord
    BY DEF RouteTypes, AttemptRecord, WakeOutcomes, IdleClasses
  <2>3. /\ idle' \in IdleClasses /\ record' \in {"none", "claude", "codex"}
        /\ hold' \in {"none", "held", "expired"} /\ settled' \in {"no", "delivered", "suppressed"}
        /\ compaction' \in {"none", "idle", "callback", "manual"}
    BY DEF RouteTypes, IdleClasses
  <2>4. /\ compacted' \in BOOLEAN /\ claimed' \in BOOLEAN /\ alerted' \in BOOLEAN
        /\ t3Took' \in BOOLEAN /\ replied' \in BOOLEAN /\ heard' \in BOOLEAN /\ current' \in BOOLEAN
        /\ line' \in LineKinds /\ world' \in [claude: ClaudeSessions, mapped: BOOLEAN]
    BY DEF RouteTypes
  <2> QED BY <2>1, <2>3, <2>4 DEF RouteTypes
<1>2. RecordOfAttempt'
  BY DEF RecordOfAttempt, AttemptRecord, RouteTypes
<1>3. DoubtIsRecorded'
  BY DEF RecordOfAttempt, DoubtIsRecorded, AttemptRecord, RouteTypes
<1>4. SuccessWasHeard'
  BY DEF SuccessWasHeard, AttemptRecord, RouteTypes
<1>5. CompactionIsIdle'
  BY DEF CompactionIsIdle, InFlight, Provider, IdleClasses, AttemptRecord, RouteTypes
<1> QED BY <1>1, <1>2, <1>3, <1>4, <1>5

LEMMA session_changesKeeps ==
    ASSUME RouteInv, session_changes
    PROVE  RouteInv'
<1> USE DEF RouteInv, Environment, session_changes
<1>1. RouteTypes'
  <2>1. attempt' \in AttemptRecord
    BY DEF RouteTypes, AttemptRecord, WakeOutcomes, IdleClasses
  <2>3. /\ idle' \in IdleClasses /\ record' \in {"none", "claude", "codex"}
        /\ hold' \in {"none", "held", "expired"} /\ settled' \in {"no", "delivered", "suppressed"}
        /\ compaction' \in {"none", "idle", "callback", "manual"}
    BY DEF RouteTypes, IdleClasses
  <2>4. /\ compacted' \in BOOLEAN /\ claimed' \in BOOLEAN /\ alerted' \in BOOLEAN
        /\ t3Took' \in BOOLEAN /\ replied' \in BOOLEAN /\ heard' \in BOOLEAN /\ current' \in BOOLEAN
        /\ line' \in LineKinds /\ world' \in [claude: ClaudeSessions, mapped: BOOLEAN]
    BY DEF RouteTypes
  <2> QED BY <2>1, <2>3, <2>4 DEF RouteTypes
<1>2. RecordOfAttempt'
  BY DEF RecordOfAttempt, AttemptRecord, RouteTypes
<1>3. DoubtIsRecorded'
  BY DEF RecordOfAttempt, DoubtIsRecorded, AttemptRecord, RouteTypes
<1>4. SuccessWasHeard'
  BY DEF SuccessWasHeard, AttemptRecord, RouteTypes
<1>5. CompactionIsIdle'
  BY DEF CompactionIsIdle, InFlight, Provider, IdleClasses, AttemptRecord, RouteTypes
<1> QED BY <1>1, <1>2, <1>3, <1>4, <1>5

LEMMA time_passesKeeps ==
    ASSUME RouteInv, time_passes
    PROVE  RouteInv'
<1> USE DEF RouteInv, Environment, time_passes
<1>1. RouteTypes'
  <2>1. attempt' \in AttemptRecord
    BY DEF RouteTypes, AttemptRecord, WakeOutcomes, IdleClasses
  <2>3. /\ idle' \in IdleClasses /\ record' \in {"none", "claude", "codex"}
        /\ hold' \in {"none", "held", "expired"} /\ settled' \in {"no", "delivered", "suppressed"}
        /\ compaction' \in {"none", "idle", "callback", "manual"}
    BY DEF RouteTypes, IdleClasses
  <2>4. /\ compacted' \in BOOLEAN /\ claimed' \in BOOLEAN /\ alerted' \in BOOLEAN
        /\ t3Took' \in BOOLEAN /\ replied' \in BOOLEAN /\ heard' \in BOOLEAN /\ current' \in BOOLEAN
        /\ line' \in LineKinds /\ world' \in [claude: ClaudeSessions, mapped: BOOLEAN]
    BY DEF RouteTypes
  <2> QED BY <2>1, <2>3, <2>4 DEF RouteTypes
<1>2. RecordOfAttempt'
  BY DEF RecordOfAttempt, AttemptRecord, RouteTypes
<1>3. DoubtIsRecorded'
  BY DEF RecordOfAttempt, DoubtIsRecorded, AttemptRecord, RouteTypes
<1>4. SuccessWasHeard'
  BY DEF SuccessWasHeard, AttemptRecord, RouteTypes
<1>5. CompactionIsIdle'
  BY DEF CompactionIsIdle, InFlight, Provider, IdleClasses, AttemptRecord, RouteTypes
<1> QED BY <1>1, <1>2, <1>3, <1>4, <1>5

LEMMA idle_scanKeeps ==
    ASSUME RouteInv, NEW c \in T3Conditions, NEW took \in BOOLEAN, idle_scan(c, took)
    PROVE  RouteInv'
<1> USE DEF RouteInv, Environment, idle_scan, idle_compaction_due, compact_thread
<1>1. RouteTypes'
  <2>1. attempt' \in AttemptRecord
    BY DEF RouteTypes, AttemptRecord, WakeOutcomes, IdleClasses
  <2>3. /\ idle' \in IdleClasses /\ record' \in {"none", "claude", "codex"}
        /\ hold' \in {"none", "held", "expired"} /\ settled' \in {"no", "delivered", "suppressed"}
        /\ compaction' \in {"none", "idle", "callback", "manual"}
    BY DEF RouteTypes, IdleClasses
  <2>4. /\ compacted' \in BOOLEAN /\ claimed' \in BOOLEAN /\ alerted' \in BOOLEAN
        /\ t3Took' \in BOOLEAN /\ replied' \in BOOLEAN /\ heard' \in BOOLEAN /\ current' \in BOOLEAN
        /\ line' \in LineKinds /\ world' \in [claude: ClaudeSessions, mapped: BOOLEAN]
    BY DEF RouteTypes
  <2> QED BY <2>1, <2>3, <2>4 DEF RouteTypes
<1>2. RecordOfAttempt'
  BY DEF RecordOfAttempt, AttemptRecord, RouteTypes
<1>3. DoubtIsRecorded'
  BY DEF RecordOfAttempt, DoubtIsRecorded, AttemptRecord, RouteTypes
<1>4. SuccessWasHeard'
  BY DEF SuccessWasHeard, AttemptRecord, RouteTypes
<1>5. CompactionIsIdle'
  BY DEF CompactionIsIdle, InFlight, Provider, IdleClasses, AttemptRecord, RouteTypes
<1> QED BY <1>1, <1>2, <1>3, <1>4, <1>5

LEMMA compact_sessionKeeps ==
    ASSUME RouteInv, NEW c \in T3Conditions, NEW took \in BOOLEAN, compact_session(c, took)
    PROVE  RouteInv'
<1> USE DEF RouteInv, Environment, compact_session, compact_thread
<1>1. RouteTypes'
  <2>1. attempt' \in AttemptRecord
    BY DEF RouteTypes, AttemptRecord, WakeOutcomes, IdleClasses
  <2>3. /\ idle' \in IdleClasses /\ record' \in {"none", "claude", "codex"}
        /\ hold' \in {"none", "held", "expired"} /\ settled' \in {"no", "delivered", "suppressed"}
        /\ compaction' \in {"none", "idle", "callback", "manual"}
    BY DEF RouteTypes, IdleClasses
  <2>4. /\ compacted' \in BOOLEAN /\ claimed' \in BOOLEAN /\ alerted' \in BOOLEAN
        /\ t3Took' \in BOOLEAN /\ replied' \in BOOLEAN /\ heard' \in BOOLEAN /\ current' \in BOOLEAN
        /\ line' \in LineKinds /\ world' \in [claude: ClaudeSessions, mapped: BOOLEAN]
    BY DEF RouteTypes
  <2> QED BY <2>1, <2>3, <2>4 DEF RouteTypes
<1>2. RecordOfAttempt'
  BY DEF RecordOfAttempt, AttemptRecord, RouteTypes
<1>3. DoubtIsRecorded'
  BY DEF RecordOfAttempt, DoubtIsRecorded, AttemptRecord, RouteTypes
<1>4. SuccessWasHeard'
  BY DEF SuccessWasHeard, AttemptRecord, RouteTypes
<1>5. CompactionIsIdle'
  BY DEF CompactionIsIdle, InFlight, Provider, IdleClasses, AttemptRecord, RouteTypes
<1> QED BY <1>1, <1>2, <1>3, <1>4, <1>5

LEMMA compaction_endsKeeps ==
    ASSUME RouteInv, compaction_ends
    PROVE  RouteInv'
<1> USE DEF RouteInv, Environment, compaction_ends
<1>1. RouteTypes'
  <2>1. attempt' \in AttemptRecord
    BY DEF RouteTypes, AttemptRecord, WakeOutcomes, IdleClasses
  <2>3. /\ idle' \in IdleClasses /\ record' \in {"none", "claude", "codex"}
        /\ hold' \in {"none", "held", "expired"} /\ settled' \in {"no", "delivered", "suppressed"}
        /\ compaction' \in {"none", "idle", "callback", "manual"}
    BY DEF RouteTypes, IdleClasses
  <2>4. /\ compacted' \in BOOLEAN /\ claimed' \in BOOLEAN /\ alerted' \in BOOLEAN
        /\ t3Took' \in BOOLEAN /\ replied' \in BOOLEAN /\ heard' \in BOOLEAN /\ current' \in BOOLEAN
        /\ line' \in LineKinds /\ world' \in [claude: ClaudeSessions, mapped: BOOLEAN]
    BY DEF RouteTypes
  <2> QED BY <2>1, <2>3, <2>4 DEF RouteTypes
<1>2. RecordOfAttempt'
  BY DEF RecordOfAttempt, AttemptRecord, RouteTypes
<1>3. DoubtIsRecorded'
  BY DEF RecordOfAttempt, DoubtIsRecorded, AttemptRecord, RouteTypes
<1>4. SuccessWasHeard'
  BY DEF SuccessWasHeard, AttemptRecord, RouteTypes
<1>5. CompactionIsIdle'
  BY DEF CompactionIsIdle, InFlight, Provider, IdleClasses, AttemptRecord, RouteTypes
<1> QED BY <1>1, <1>2, <1>3, <1>4, <1>5

LEMMA notice_endsKeeps ==
    ASSUME RouteInv, notice_ends
    PROVE  RouteInv'
<1> USE DEF RouteInv, Environment, notice_ends
<1>1. RouteTypes'
  <2>1. attempt' \in AttemptRecord
    BY DEF RouteTypes, AttemptRecord, WakeOutcomes, IdleClasses
  <2>3. /\ idle' \in IdleClasses /\ record' \in {"none", "claude", "codex"}
        /\ hold' \in {"none", "held", "expired"} /\ settled' \in {"no", "delivered", "suppressed"}
        /\ compaction' \in {"none", "idle", "callback", "manual"}
    BY DEF RouteTypes, IdleClasses
  <2>4. /\ compacted' \in BOOLEAN /\ claimed' \in BOOLEAN /\ alerted' \in BOOLEAN
        /\ t3Took' \in BOOLEAN /\ replied' \in BOOLEAN /\ heard' \in BOOLEAN /\ current' \in BOOLEAN
        /\ line' \in LineKinds /\ world' \in [claude: ClaudeSessions, mapped: BOOLEAN]
    BY DEF RouteTypes
  <2> QED BY <2>1, <2>3, <2>4 DEF RouteTypes
<1>2. RecordOfAttempt'
  BY DEF RecordOfAttempt, AttemptRecord, RouteTypes
<1>3. DoubtIsRecorded'
  BY DEF RecordOfAttempt, DoubtIsRecorded, AttemptRecord, RouteTypes
<1>4. SuccessWasHeard'
  BY DEF SuccessWasHeard, AttemptRecord, RouteTypes
<1>5. CompactionIsIdle'
  BY DEF CompactionIsIdle, InFlight, Provider, IdleClasses, AttemptRecord, RouteTypes
<1> QED BY <1>1, <1>2, <1>3, <1>4, <1>5

LEMMA RouteStarts == RouteInit => RouteInv
<1> SUFFICES ASSUME RouteInit PROVE RouteInv
  OBVIOUS
<1>1. RouteTypes
  BY NoAttemptTyped DEF RouteInit, RouteTypes
<1>2. RecordOfAttempt /\ DoubtIsRecorded /\ SuccessWasHeard /\ CompactionIsIdle
  BY DEF RouteInit, NoAttempt, RecordOfAttempt, DoubtIsRecorded, SuccessWasHeard, CompactionIsIdle, InFlight
<1> QED BY <1>1, <1>2 DEF RouteInv

LEMMA RouteImplies == RouteInv => LineArrivesOnce
<1> SUFFICES ASSUME RouteInv PROVE LineArrivesOnce
  OBVIOUS
<1> USE DEF RouteInv
<1>1. RouteTypeOK
  BY DEF RouteTypes, RouteTypeOK, AttemptRecord
<1>2. NeverSteersIntoCompaction
  BY DEF RouteTypes, CompactionIsIdle, InFlight, Steers, NeverSteersIntoCompaction, IdleClasses
<1>3. LostReplyLeavesOnlyT3
  BY DEF DoubtIsRecorded, LostReplyLeavesOnlyT3, RouteTypes
<1>4. NeverSwallowed
  BY DEF SuccessWasHeard, NeverSwallowed
<1> QED BY <1>1, <1>2, <1>3, <1>4 DEF LineArrivesOnce

\* A line whose reply was lost is left to T3, one settled as delivered arrived,
\* and none steers into a compaction that the daemon started, whatever the order
\* of crashes, lost replies, session changes and idle times (`record_wake',
\* `retry_pending_t3', `settle_callback').
THEOREM LineArrivesOnceCorrect == RouteSpec => []LineArrivesOnce
<1>1. RouteInv /\ [RouteNext]_routeVars => RouteInv'
  <2> SUFFICES ASSUME RouteInv, [RouteNext]_routeVars PROVE RouteInv'
    OBVIOUS
  <2>1. CASE UNCHANGED routeVars
    BY <2>1 DEF routeVars, RouteInv, RouteTypes, RecordOfAttempt, DoubtIsRecorded, SuccessWasHeard,
                CompactionIsIdle, InFlight, Provider
  <2>2. CASE Attempt
    BY <2>2, runKeeps, retry_pending_t3Keeps, lookup_failsKeeps, routeKeeps, save_recordKeeps,
       save_failsKeeps, turn_startsKeeps, compact_firstKeeps, start_turnKeeps, stop_wakeKeeps,
       stop_writeKeeps, wake_returnsKeeps, inbox_sendKeeps, queue_command_onceKeeps,
       settle_callbackKeeps DEF Attempt
  <2>3. CASE RouteNext /\ ~Attempt
    BY <2>3, daemon_crashKeeps, session_changesKeeps, time_passesKeeps, idle_scanKeeps,
       compact_sessionKeeps, compaction_endsKeeps, notice_endsKeeps DEF RouteNext
  <2> QED BY <2>1, <2>2, <2>3
<1> QED BY <1>1, RouteStarts, RouteImplies, PTL DEF RouteSpec

-----------------------------------------------------------------------------
(* A T3 launch.  A call that failed cannot be told from one whose request T3 *)
(* still works on by its answer alone, so effects are tied to the answer     *)
(* from the moment the request leaves.                                       *)

T3Thread == [command: {"request"}, project: Projects]
Failures == {"refused", "not_found", "unavailable"}
Asking == {"sent", "resolving", "issuing", "calling", "adding", "reading", "icon"}

\* T3 counts the one thread it holds on a machine
OneT3Thread ==
    /\ threads \in [Hosts -> SUBSET T3Thread] /\ launches \in [Hosts -> Nat]
    /\ \A h \in Hosts : launches[h] = IF threads[h] = {} THEN 0 ELSE 1

\* A call past its start names a machine and a project; the phases that talk to
\* T3 belong to one kind of call
CallIsAddressed ==
    \A c \in LaunchCalls : LET s == callState[c] IN
        /\ s.at # "idle" => s.kind # "none" /\ s.host \in Hosts /\ s.project \in Projects
        /\ s.at = "calling" => s.kind = "launch"
        /\ s.at \in {"adding", "reading", "icon"} => s.kind = "add"
        /\ s.kind = "add" /\ (s.at \in {"reading", "icon", "issuing"}) => s.project \in listed[s.host]

\* Only a launch whose call left reaches T3, and it is not told of as a failure
EffectIsNotDenied ==
    \A c \in LaunchCalls : LET s == callState[c] IN
        /\ s.at \in Asking \cup {"idle"} => s.answer = "none"
        /\ s.applied \/ c \in lateFor =>
              /\ s.kind = "launch" /\ s.at \in {"ending", "answering", "done"}
              /\ s.answer \notin Failures

\* ReportsWhatT3Holds, from the moment the answer is known
AnswerIsHeld ==
    \A c \in LaunchCalls : LET s == callState[c] IN
        s.answer = "ok" =>
           IF s.kind = "launch"
           THEN \E t \in threads[s.host] : t.project \in {s.reports} \cup (Projects \ s.seen)
           ELSE s.reports \in listed[s.host] /\ (s.icon => s.reports \in icons[s.host])

\* A session that T3 accepts belongs to a call that talks to T3
TokenInUse ==
    \A c \in tokens : callState[c].at \in {"calling", "icon", "ending"} \/ c \in unrevoked

T3Inv == T3TypeOK /\ OneT3Thread /\ CallIsAddressed /\ EffectIsNotDenied /\ AnswerIsHeld /\ TokenInUse

\* What a call's record holds
CallRecord ==
    [at: CallPhases, kind: {"none", "launch", "add"}, host: Hosts \cup {"none"},
     project: Projects \cup {"none"}, existing: BOOLEAN, icon: BOOLEAN,
     seen: SUBSET Projects, answer: Answers, reports: Projects \cup {"none"}, applied: BOOLEAN]

LEMMA RecordAt ==
    ASSUME callState \in [LaunchCalls -> CallRecord], NEW c \in LaunchCalls, NEW phase \in CallPhases
    PROVE  [callState EXCEPT ![c].at = phase] \in [LaunchCalls -> CallRecord]
BY DEF CallRecord

LEMMA RecordAnswer ==
    ASSUME callState \in [LaunchCalls -> CallRecord], NEW c \in LaunchCalls, NEW phase \in CallPhases,
           NEW answer \in Answers
    PROVE  [callState EXCEPT ![c].at = phase, ![c].answer = answer] \in [LaunchCalls -> CallRecord]
<1> DEFINE r == [callState[c] EXCEPT !.at = phase, !.answer = answer]
<1>1. r \in CallRecord
  BY DEF CallRecord
<1>2. [callState EXCEPT ![c].at = phase, ![c].answer = answer] = [callState EXCEPT ![c] = r]
  BY DEF CallRecord
<1> QED BY <1>1, <1>2

LEMMA RecordReport ==
    ASSUME callState \in [LaunchCalls -> CallRecord], NEW c \in LaunchCalls, NEW phase \in CallPhases,
           NEW answer \in Answers, NEW p \in Projects \cup {"none"}
    PROVE  [callState EXCEPT ![c].at = phase, ![c].answer = answer, ![c].reports = p]
                 \in [LaunchCalls -> CallRecord]
<1> DEFINE r == [callState[c] EXCEPT !.at = phase, !.answer = answer, !.reports = p]
<1>1. r \in CallRecord
  BY DEF CallRecord
<1>2. [callState EXCEPT ![c].at = phase, ![c].answer = answer, ![c].reports = p]
        = [callState EXCEPT ![c] = r]
  BY DEF CallRecord
<1> QED BY <1>1, <1>2

LEMMA RequestLaunchKeeps ==
    ASSUME T3Inv, NEW c \in LaunchCalls, NEW host \in Hosts, NEW project \in Projects, RequestLaunch(c, host, project)
    PROVE  T3Inv'
<1> USE DEF T3Inv, Stands, T3Same, TokensSame, RequestLaunch, Destination, NotYet
<1>1. T3TypeOK'
  BY T3Assumption DEF T3TypeOK, Answers, CallPhases
<1>2. OneT3Thread'
  BY T3Assumption DEF T3TypeOK, OneT3Thread
<1>3. CallIsAddressed'
  BY T3Assumption DEF T3TypeOK, CallIsAddressed
<1>4. EffectIsNotDenied'
  BY T3Assumption DEF T3TypeOK, CallIsAddressed, EffectIsNotDenied, Asking, Failures
<1>5. AnswerIsHeld'
  BY T3Assumption DEF T3TypeOK, CallIsAddressed, EffectIsNotDenied, AnswerIsHeld, Asking
<1>6. TokenInUse'
  BY T3Assumption DEF T3TypeOK, TokenInUse
<1> QED BY <1>1, <1>2, <1>3, <1>4, <1>5, <1>6

LEMMA RequestAddKeeps ==
    ASSUME T3Inv, NEW c \in LaunchCalls, NEW host \in Hosts, NEW project \in Projects, NEW existing \in BOOLEAN, NEW icon \in BOOLEAN, RequestAdd(c, host, project, existing, icon)
    PROVE  T3Inv'
<1> USE DEF T3Inv, Stands, T3Same, TokensSame, RequestAdd, Destination, NotYet
<1>1. T3TypeOK'
  BY T3Assumption DEF T3TypeOK, Answers, CallPhases
<1>2. OneT3Thread'
  BY T3Assumption DEF T3TypeOK, OneT3Thread
<1>3. CallIsAddressed'
  BY T3Assumption DEF T3TypeOK, CallIsAddressed
<1>4. EffectIsNotDenied'
  BY T3Assumption DEF T3TypeOK, CallIsAddressed, EffectIsNotDenied, Asking, Failures
<1>5. AnswerIsHeld'
  BY T3Assumption DEF T3TypeOK, CallIsAddressed, EffectIsNotDenied, AnswerIsHeld, Asking
<1>6. TokenInUse'
  BY T3Assumption DEF T3TypeOK, TokenInUse
<1> QED BY <1>1, <1>2, <1>3, <1>4, <1>5, <1>6

LEMMA ForwardKeeps ==
    ASSUME T3Inv, NEW c \in LaunchCalls, Forward(c)
    PROVE  T3Inv'
<1> USE DEF T3Inv, Stands, T3Same, TokensSame, Forward, Step, Lose
<1>1. T3TypeOK'
  BY T3Assumption DEF T3TypeOK, Answers, CallPhases
<1>2. OneT3Thread'
  BY T3Assumption DEF T3TypeOK, OneT3Thread
<1>3. CallIsAddressed'
  BY T3Assumption DEF T3TypeOK, CallIsAddressed
<1>4. EffectIsNotDenied'
  BY T3Assumption DEF T3TypeOK, CallIsAddressed, EffectIsNotDenied, Asking, Failures
<1>5. AnswerIsHeld'
  BY T3Assumption DEF T3TypeOK, CallIsAddressed, EffectIsNotDenied, AnswerIsHeld, Asking
<1>6. TokenInUse'
  BY T3Assumption DEF T3TypeOK, TokenInUse
<1> QED BY <1>1, <1>2, <1>3, <1>4, <1>5, <1>6

LEMMA find_projectKeeps ==
    ASSUME T3Inv, NEW c \in LaunchCalls, find_project(c)
    PROVE  T3Inv'
<1> USE DEF T3Inv, Stands, T3Same, TokensSame, find_project, Fails
<1>1. T3TypeOK'
  BY T3Assumption DEF T3TypeOK, Answers, CallPhases
<1>2. OneT3Thread'
  BY T3Assumption DEF T3TypeOK, OneT3Thread
<1>3. CallIsAddressed'
  BY T3Assumption DEF T3TypeOK, CallIsAddressed
<1>4. EffectIsNotDenied'
  BY T3Assumption DEF T3TypeOK, CallIsAddressed, EffectIsNotDenied, Asking, Failures
<1>5. AnswerIsHeld'
  BY T3Assumption DEF T3TypeOK, CallIsAddressed, EffectIsNotDenied, AnswerIsHeld, Asking
<1>6. TokenInUse'
  BY T3Assumption DEF T3TypeOK, TokenInUse
<1> QED BY <1>1, <1>2, <1>3, <1>4, <1>5, <1>6

LEMMA look_for_rootKeeps ==
    ASSUME T3Inv, NEW c \in LaunchCalls, look_for_root(c)
    PROVE  T3Inv'
<1> USE DEF T3Inv, Stands, T3Same, TokensSame, look_for_root, Found, Step, Fails
<1>1. T3TypeOK'
  BY T3Assumption DEF T3TypeOK, Answers, CallPhases
<1>2. OneT3Thread'
  BY T3Assumption DEF T3TypeOK, OneT3Thread
<1>3. CallIsAddressed'
  BY T3Assumption DEF T3TypeOK, CallIsAddressed
<1>4. EffectIsNotDenied'
  BY T3Assumption DEF T3TypeOK, CallIsAddressed, EffectIsNotDenied, Asking, Failures
<1>5. AnswerIsHeld'
  BY T3Assumption DEF T3TypeOK, CallIsAddressed, EffectIsNotDenied, AnswerIsHeld, Asking
<1>6. TokenInUse'
  BY T3Assumption DEF T3TypeOK, TokenInUse
<1> QED BY <1>1, <1>2, <1>3, <1>4, <1>5, <1>6

LEMMA add_projectKeeps ==
    ASSUME T3Inv, NEW c \in LaunchCalls, add_project(c)
    PROVE  T3Inv'
<1> USE DEF T3Inv, Stands, T3Same, TokensSame, add_project, Fails, Step, Lose
<1>1. T3TypeOK'
  <2>1. callState \in [LaunchCalls -> CallRecord]
    BY DEF T3TypeOK, CallRecord
  <2>2. /\ {"ending", "reading", "calling", "icon", "done"} \subseteq CallPhases
        /\ {"refused", "unavailable", "unknown", "ok"} \subseteq Answers
        /\ callState[c].project \in Projects \cup {"none"}
    BY <2>1 DEF CallPhases, Answers, CallRecord
  <2>3. callState' \in [LaunchCalls -> CallRecord]
    <3>1. [callState EXCEPT ![c].at = "reading"] \in [LaunchCalls -> CallRecord]
      BY <2>1, <2>2, RecordAt
    <3>2. [callState EXCEPT ![c].at = "ending", ![c].answer = "refused"] \in [LaunchCalls -> CallRecord]
      BY <2>1, <2>2, RecordAnswer
    <3>3. [callState EXCEPT ![c].at = "ending", ![c].answer = "unavailable"] \in [LaunchCalls -> CallRecord]
      BY <2>1, <2>2, RecordAnswer
    <3> QED BY <3>1, <3>2, <3>3
  <2>4. /\ listed' \in [Hosts -> SUBSET Projects] /\ icons' \in [Hosts -> SUBSET Projects]
    BY DEF T3TypeOK, CallIsAddressed
  <2>5. /\ tokens' \subseteq LaunchCalls /\ unrevoked' \subseteq LaunchCalls /\ lateFor' \subseteq LaunchCalls
        /\ lostCount' \in 0 .. MaxLost
    BY T3Assumption DEF T3TypeOK
  <2> QED BY <2>3, <2>4, <2>5 DEF T3TypeOK, CallRecord
<1>2. OneT3Thread'
  BY T3Assumption DEF T3TypeOK, OneT3Thread
<1>3. CallIsAddressed'
  BY T3Assumption DEF T3TypeOK, CallIsAddressed
<1>4. EffectIsNotDenied'
  BY T3Assumption DEF T3TypeOK, CallIsAddressed, EffectIsNotDenied, Asking, Failures
<1>5. AnswerIsHeld'
  <2>1. \A h \in Hosts : listed[h] \subseteq listed'[h]
    BY DEF T3TypeOK, CallIsAddressed
  <2>2. callState'[c].answer # "ok"
    BY DEF T3TypeOK, EffectIsNotDenied, Asking
  <2>3. \A d \in LaunchCalls \ {c} : callState'[d] = callState[d]
    BY DEF T3TypeOK
  <2>4. UNCHANGED <<threads, icons>>
    OBVIOUS
  <2>5. \A d \in LaunchCalls : callState[d].host \in Hosts \/ callState[d].answer # "ok" 
    BY DEF CallIsAddressed, EffectIsNotDenied
  <2> QED BY <2>1, <2>2, <2>3, <2>4, <2>5 DEF T3TypeOK, AnswerIsHeld
<1>6. TokenInUse'
  BY T3Assumption DEF T3TypeOK, TokenInUse
<1> QED BY <1>1, <1>2, <1>3, <1>4, <1>5, <1>6

LEMMA ReadBackKeeps ==
    ASSUME T3Inv, NEW c \in LaunchCalls, ReadBack(c)
    PROVE  T3Inv'
<1> USE DEF T3Inv, Stands, T3Same, TokensSame, ReadBack, Found, Step
<1>1. T3TypeOK'
  BY T3Assumption DEF T3TypeOK, Answers, CallPhases
<1>2. OneT3Thread'
  BY T3Assumption DEF T3TypeOK, OneT3Thread
<1>3. CallIsAddressed'
  BY T3Assumption DEF T3TypeOK, CallIsAddressed
<1>4. EffectIsNotDenied'
  BY T3Assumption DEF T3TypeOK, CallIsAddressed, EffectIsNotDenied, Asking, Failures
<1>5. AnswerIsHeld'
  BY T3Assumption DEF T3TypeOK, CallIsAddressed, EffectIsNotDenied, AnswerIsHeld, Asking
<1>6. TokenInUse'
  BY T3Assumption DEF T3TypeOK, TokenInUse
<1> QED BY <1>1, <1>2, <1>3, <1>4, <1>5, <1>6

LEMMA issue_tokenKeeps ==
    ASSUME T3Inv, NEW c \in LaunchCalls, issue_token(c)
    PROVE  T3Inv'
<1> USE DEF T3Inv, Stands, T3Same, TokensSame, issue_token, Step, Fails, Lose
<1>1. T3TypeOK'
  <2>1. callState \in [LaunchCalls -> CallRecord]
    BY DEF T3TypeOK, CallRecord
  <2>2. /\ {"ending", "reading", "calling", "icon", "done"} \subseteq CallPhases
        /\ {"refused", "unavailable", "unknown", "ok"} \subseteq Answers
        /\ callState[c].project \in Projects \cup {"none"}
    BY <2>1 DEF CallPhases, Answers, CallRecord
  <2>3. callState' \in [LaunchCalls -> CallRecord]
    <3>1. [callState EXCEPT ![c].at = "calling"] \in [LaunchCalls -> CallRecord]
      BY <2>1, <2>2, RecordAt
    <3>2. [callState EXCEPT ![c].at = "icon"] \in [LaunchCalls -> CallRecord]
      BY <2>1, <2>2, RecordAt
    <3>3. [callState EXCEPT ![c].at = "ending", ![c].answer = "unavailable"] \in [LaunchCalls -> CallRecord]
      BY <2>1, <2>2, RecordAnswer
    <3> QED BY <3>1, <3>2, <3>3
  <2>4. /\ listed' \in [Hosts -> SUBSET Projects] /\ icons' \in [Hosts -> SUBSET Projects]
    BY DEF T3TypeOK, CallIsAddressed
  <2>5. /\ tokens' \subseteq LaunchCalls /\ unrevoked' \subseteq LaunchCalls /\ lateFor' \subseteq LaunchCalls
        /\ lostCount' \in 0 .. MaxLost
    BY T3Assumption DEF T3TypeOK
  <2> QED BY <2>3, <2>4, <2>5 DEF T3TypeOK, CallRecord
<1>2. OneT3Thread'
  BY T3Assumption DEF T3TypeOK, OneT3Thread
<1>3. CallIsAddressed'
  BY T3Assumption DEF T3TypeOK, CallIsAddressed
<1>4. EffectIsNotDenied'
  BY T3Assumption DEF T3TypeOK, CallIsAddressed, EffectIsNotDenied, Asking, Failures
<1>5. AnswerIsHeld'
  BY T3Assumption DEF T3TypeOK, CallIsAddressed, EffectIsNotDenied, AnswerIsHeld, Asking
<1>6. TokenInUse'
  BY T3Assumption DEF T3TypeOK, TokenInUse
<1> QED BY <1>1, <1>2, <1>3, <1>4, <1>5, <1>6

LEMMA set_iconKeeps ==
    ASSUME T3Inv, NEW c \in LaunchCalls, set_icon(c)
    PROVE  T3Inv'
<1> USE DEF T3Inv, Stands, T3Same, TokensSame, set_icon, Fails, Lose
<1>1. T3TypeOK'
  <2>1. callState \in [LaunchCalls -> CallRecord]
    BY DEF T3TypeOK, CallRecord
  <2>2. /\ {"ending", "reading", "calling", "icon", "done"} \subseteq CallPhases
        /\ {"refused", "unavailable", "unknown", "ok"} \subseteq Answers
        /\ callState[c].project \in Projects \cup {"none"}
    BY <2>1 DEF CallPhases, Answers, CallRecord
  <2>3. callState' \in [LaunchCalls -> CallRecord]
    <3>1. [callState EXCEPT ![c].at = "ending", ![c].answer = "ok", ![c].reports = callState[c].project] \in [LaunchCalls -> CallRecord]
      BY <2>1, <2>2, RecordReport
    <3>2. [callState EXCEPT ![c].at = "ending", ![c].answer = "unavailable"] \in [LaunchCalls -> CallRecord]
      BY <2>1, <2>2, RecordAnswer
    <3>3. [callState EXCEPT ![c].at = "ending", ![c].answer = "refused"] \in [LaunchCalls -> CallRecord]
      BY <2>1, <2>2, RecordAnswer
    <3> QED BY <3>1, <3>2, <3>3
  <2>4. /\ listed' \in [Hosts -> SUBSET Projects] /\ icons' \in [Hosts -> SUBSET Projects]
    BY DEF T3TypeOK, CallIsAddressed
  <2>5. /\ tokens' \subseteq LaunchCalls /\ unrevoked' \subseteq LaunchCalls /\ lateFor' \subseteq LaunchCalls
        /\ lostCount' \in 0 .. MaxLost
    BY T3Assumption DEF T3TypeOK
  <2> QED BY <2>3, <2>4, <2>5 DEF T3TypeOK, CallRecord
<1>2. OneT3Thread'
  BY T3Assumption DEF T3TypeOK, OneT3Thread
<1>3. CallIsAddressed'
  BY T3Assumption DEF T3TypeOK, CallIsAddressed
<1>4. EffectIsNotDenied'
  BY T3Assumption DEF T3TypeOK, CallIsAddressed, EffectIsNotDenied, Asking, Failures
<1>5. AnswerIsHeld'
  BY T3Assumption DEF T3TypeOK, CallIsAddressed, EffectIsNotDenied, AnswerIsHeld, Asking
<1>6. TokenInUse'
  <2>1. \A d \in LaunchCalls : callState'[d].at = IF d = c THEN "ending" ELSE callState[d].at
    BY DEF T3TypeOK
  <2> QED BY <2>1 DEF T3TypeOK, TokenInUse
<1> QED BY <1>1, <1>2, <1>3, <1>4, <1>5, <1>6

LEMMA EndCallKeeps ==
    ASSUME T3Inv, NEW c \in LaunchCalls, EndCall(c)
    PROVE  T3Inv'
<1> USE DEF T3Inv, Stands, T3Same, TokensSame, EndCall, Step, Lose, TokenRevoker
<1>1. T3TypeOK'
  BY T3Assumption DEF T3TypeOK, Answers, CallPhases
<1>2. OneT3Thread'
  BY T3Assumption DEF T3TypeOK, OneT3Thread
<1>3. CallIsAddressed'
  BY T3Assumption DEF T3TypeOK, CallIsAddressed
<1>4. EffectIsNotDenied'
  BY T3Assumption DEF T3TypeOK, CallIsAddressed, EffectIsNotDenied, Asking, Failures
<1>5. AnswerIsHeld'
  BY T3Assumption DEF T3TypeOK, CallIsAddressed, EffectIsNotDenied, AnswerIsHeld, Asking
<1>6. TokenInUse'
  BY T3Assumption DEF T3TypeOK, TokenInUse
<1> QED BY <1>1, <1>2, <1>3, <1>4, <1>5, <1>6

LEMMA peer_bodyKeeps ==
    ASSUME T3Inv, NEW c \in LaunchCalls, peer_body(c)
    PROVE  T3Inv'
<1> USE DEF T3Inv, Stands, T3Same, TokensSame, peer_body, Step, Lose
<1>1. T3TypeOK'
  BY T3Assumption DEF T3TypeOK, Answers, CallPhases
<1>2. OneT3Thread'
  BY T3Assumption DEF T3TypeOK, OneT3Thread
<1>3. CallIsAddressed'
  BY T3Assumption DEF T3TypeOK, CallIsAddressed
<1>4. EffectIsNotDenied'
  BY T3Assumption DEF T3TypeOK, CallIsAddressed, EffectIsNotDenied, Asking, Failures
<1>5. AnswerIsHeld'
  BY T3Assumption DEF T3TypeOK, CallIsAddressed, EffectIsNotDenied, AnswerIsHeld, Asking
<1>6. TokenInUse'
  BY T3Assumption DEF T3TypeOK, TokenInUse
<1> QED BY <1>1, <1>2, <1>3, <1>4, <1>5, <1>6

LEMMA HostDiesKeeps ==
    ASSUME T3Inv, NEW c \in LaunchCalls, HostDies(c)
    PROVE  T3Inv'
<1> USE DEF T3Inv, Stands, T3Same, TokensSame, HostDies, Lose
<1>1. T3TypeOK'
  <2>1. callState \in [LaunchCalls -> CallRecord]
    BY DEF T3TypeOK, CallRecord
  <2>2. /\ {"ending", "reading", "calling", "icon", "done"} \subseteq CallPhases
        /\ {"refused", "unavailable", "unknown", "ok"} \subseteq Answers
        /\ callState[c].project \in Projects \cup {"none"}
    BY <2>1 DEF CallPhases, Answers, CallRecord
  <2>3. callState' \in [LaunchCalls -> CallRecord]
    <3>1. [callState EXCEPT ![c].at = "done", ![c].answer = "unknown", ![c].reports = "none"] \in [LaunchCalls -> CallRecord]
      BY <2>1, <2>2, RecordReport
    <3> QED BY <3>1
  <2>4. /\ listed' \in [Hosts -> SUBSET Projects] /\ icons' \in [Hosts -> SUBSET Projects]
    BY DEF T3TypeOK, CallIsAddressed
  <2>5. /\ tokens' \subseteq LaunchCalls /\ unrevoked' \subseteq LaunchCalls /\ lateFor' \subseteq LaunchCalls
        /\ lostCount' \in 0 .. MaxLost
    BY T3Assumption DEF T3TypeOK
  <2> QED BY <2>3, <2>4, <2>5 DEF T3TypeOK, CallRecord
<1>2. OneT3Thread'
  BY T3Assumption DEF T3TypeOK, OneT3Thread
<1>3. CallIsAddressed'
  BY T3Assumption DEF T3TypeOK, CallIsAddressed
<1>4. EffectIsNotDenied'
  BY T3Assumption DEF T3TypeOK, CallIsAddressed, EffectIsNotDenied, Asking, Failures
<1>5. AnswerIsHeld'
  BY T3Assumption DEF T3TypeOK, CallIsAddressed, EffectIsNotDenied, AnswerIsHeld, Asking
<1>6. TokenInUse'
  BY T3Assumption DEF T3TypeOK, TokenInUse
<1> QED BY <1>1, <1>2, <1>3, <1>4, <1>5, <1>6

LEMMA T3LaunchesOnce ==
    ASSUME T3Inv, NEW c \in LaunchCalls, callState[c].host \in Hosts, callState[c].project \in Projects,
           T3Launches(c)
    PROVE  /\ OneT3Thread'
           /\ \A h \in Hosts : threads[h] \subseteq threads'[h]
           /\ HeldProject(c) \in Projects
           /\ \E t \in threads'[callState[c].host] : t.project = HeldProject(c)
<1> DEFINE h == callState[c].host
           new == [command |-> "request", project |-> callState[c].project]
<1>1. threads \in [Hosts -> SUBSET T3Thread] /\ launches \in [Hosts -> Nat] /\ new \in T3Thread
  BY DEF T3Inv, OneT3Thread, T3Thread
<1>2. CASE threads[h] # {}
  <2>1. PICK t \in threads[h] : t \in T3Thread
    BY <1>1, <1>2
  <2>2. t.command = LaunchIds(c)
    BY <2>1 DEF T3Thread, LaunchIds
  <2>3. UNCHANGED <<threads, launches>>
    BY <2>1, <2>2 DEF T3Launches
  <2>4. \E u \in threads'[h] : u.command = LaunchIds(c)
    BY <2>1, <2>2, <2>3
  <2> DEFINE v == CHOOSE u \in threads'[h] : u.command = LaunchIds(c)
  <2>5. v \in threads'[h] /\ v \in T3Thread
    BY <1>1, <2>3, <2>4
  <2>6. HeldProject(c) = v.project
    BY DEF HeldProject
  <2> HIDE DEF v
  <2>7. v.project \in Projects
    BY <2>5 DEF T3Thread
  <2> QED BY <2>3, <2>5, <2>6, <2>7 DEF T3Inv, OneT3Thread
<1>3. CASE threads[h] = {}
  <2>1. /\ threads' = [threads EXCEPT ![h] = {new}]
        /\ launches' = [launches EXCEPT ![h] = @ + 1]
    BY <1>1, <1>3 DEF T3Launches, LaunchIds
  <2>2. threads'[h] = {new}
    BY <1>1, <2>1
  <2>3. new.command = LaunchIds(c)
    BY DEF LaunchIds
  <2> DEFINE v == CHOOSE u \in threads'[h] : u.command = LaunchIds(c)
  <2>4. v = new
    BY <2>2, <2>3
  <2>5. HeldProject(c) = v.project
    BY DEF HeldProject
  <2> HIDE DEF v
  <2>6. HeldProject(c) = callState[c].project
    BY <2>4, <2>5
  <2>7. launches[h] = 0
    BY <1>3 DEF T3Inv, OneT3Thread
  <2>8. OneT3Thread'
    <3>1. threads' \in [Hosts -> SUBSET T3Thread] /\ launches' \in [Hosts -> Nat]
      BY <1>1, <2>1
    <3>2. \A g \in Hosts : launches'[g] = IF threads'[g] = {} THEN 0 ELSE 1
      BY <1>1, <2>1, <2>7 DEF T3Inv, OneT3Thread
    <3> QED BY <3>1, <3>2 DEF OneT3Thread
  <2> QED BY <1>1, <1>3, <2>1, <2>2, <2>6, <2>8
<1> QED BY <1>2, <1>3

LEMMA launch_threadKeeps ==
    ASSUME T3Inv, NEW c \in LaunchCalls, launch_thread(c)
    PROVE  T3Inv'
<1> USE DEF T3Inv, Stands, TokensSame
<1>1. /\ callState[c].host \in Hosts /\ callState[c].project \in Projects /\ callState[c].kind = "launch"
      /\ callState[c].at = "calling"
  BY DEF launch_thread, CallIsAddressed
<1>2. CASE /\ T3Launches(c) /\ UNCHANGED <<lostCount, lateFor, tokens, unrevoked, listed, icons>>
           /\ callState' = [callState EXCEPT ![c] = [@ EXCEPT !.at = "ending", !.answer = "ok",
                              !.reports = ReportedProject(c), !.applied = TRUE]]
  <2>1. /\ OneT3Thread' /\ HeldProject(c) \in Projects
        /\ \A h \in Hosts : threads[h] \subseteq threads'[h]
    BY <1>1, <1>2, T3LaunchesOnce
  <2>2. PICK t \in threads'[callState[c].host] : t.project = HeldProject(c)
    BY <1>1, <1>2, T3LaunchesOnce
  <2>3. ReportedProject(c) \in Projects
    BY <1>1, <2>1 DEF ReportedProject
  <2>4. t.project \in {ReportedProject(c)} \cup (Projects \ callState[c].seen)
    BY <2>1, <2>2 DEF ReportedProject
  <2> DEFINE r == [callState[c] EXCEPT !.at = "ending", !.answer = "ok", !.reports = ReportedProject(c),
                                       !.applied = TRUE]
  <2>5. /\ r \in CallRecord /\ r.at = "ending" /\ r.answer = "ok" /\ r.kind = "launch"
        /\ r.host = callState[c].host /\ r.project = callState[c].project
        /\ r.seen = callState[c].seen /\ r.reports = ReportedProject(c)
    BY <1>1, <2>3 DEF T3TypeOK, CallRecord, CallPhases, Answers
  <2>6. callState' = [callState EXCEPT ![c] = r]
    BY <1>2
  <2> HIDE DEF r
  <2>7. T3TypeOK'
    BY <1>2, <2>5, <2>6 DEF T3TypeOK, CallRecord
  <2>8. CallIsAddressed'
    BY <1>1, <1>2, <2>5, <2>6 DEF T3TypeOK, CallIsAddressed
  <2>9. EffectIsNotDenied'
    <3>1. callState'[c] = r /\ \A d \in LaunchCalls \ {c} : callState'[d] = callState[d]
      BY <2>6 DEF T3TypeOK
    <3>2. r.at \notin Asking \cup {"idle"} /\ r.answer \notin Failures
      BY <2>5 DEF Asking, Failures
    <3>3. \A d \in LaunchCalls \ {c} : d \in lateFor' => d \in lateFor
      BY <1>2
    <3>4. ASSUME NEW d \in LaunchCalls
          PROVE  /\ callState'[d].at \in Asking \cup {"idle"} => callState'[d].answer = "none"
                 /\ callState'[d].applied \/ d \in lateFor' =>
                       /\ callState'[d].kind = "launch"
                       /\ callState'[d].at \in {"ending", "answering", "done"}
                       /\ callState'[d].answer \notin Failures
      <4>1. CASE d = c
        BY <2>5, <3>1, <3>2, <4>1
      <4>2. CASE d # c
        BY <3>1, <3>3, <4>2 DEF EffectIsNotDenied
      <4> QED BY <4>1, <4>2
    <3> QED BY <3>4 DEF EffectIsNotDenied
  <2>10. AnswerIsHeld'
    <3>1. ASSUME NEW d \in LaunchCalls, d # c, callState'[d].answer = "ok"
          PROVE  IF callState'[d].kind = "launch"
                 THEN \E u \in threads'[callState'[d].host] :
                         u.project \in {callState'[d].reports} \cup (Projects \ callState'[d].seen)
                 ELSE /\ callState'[d].reports \in listed'[callState'[d].host]
                      /\ callState'[d].icon => callState'[d].reports \in icons'[callState'[d].host]
      <4>1. callState'[d] = callState[d]
        BY <2>6, <3>1 DEF T3TypeOK
      <4>2. callState[d].host \in Hosts
        BY <3>1, <4>1 DEF EffectIsNotDenied, CallIsAddressed
      <4> QED BY <1>2, <2>1, <3>1, <4>1, <4>2 DEF AnswerIsHeld
    <3>2. callState'[c] = r
      BY <2>6 DEF T3TypeOK
    <3> QED BY <2>2, <2>4, <2>5, <3>1, <3>2 DEF AnswerIsHeld
  <2>11. TokenInUse'
    BY <1>2, <2>5, <2>6 DEF T3TypeOK, TokenInUse
  <2> QED BY <2>1, <2>7, <2>8, <2>9, <2>10, <2>11
<1>3. ASSUME NEW answer \in Failures \cup {"unknown"},
             callState' = [callState EXCEPT ![c].at = "ending", ![c].answer = answer],
             lateFor' \in {lateFor, lateFor \cup {c}}, answer # "unknown" => lateFor' = lateFor,
             UNCHANGED <<threads, launches, tokens, unrevoked, listed, icons>>, lostCount' \in 0 .. MaxLost
      PROVE  T3Inv'
  <2>1. T3TypeOK'
    <3>1. callState \in [LaunchCalls -> CallRecord] /\ "ending" \in CallPhases /\ answer \in Answers
      BY <1>3 DEF T3TypeOK, CallRecord, CallPhases, Answers, Failures
    <3>2. callState' \in [LaunchCalls -> CallRecord]
      BY <1>3, <3>1, RecordAnswer
    <3> QED BY <1>3, <3>2 DEF T3TypeOK, CallRecord
  <2>2. OneT3Thread'
    BY <1>3 DEF OneT3Thread
  <2>3. CallIsAddressed'
    <3>1. /\ \A d \in LaunchCalls \ {c} : callState'[d] = callState[d]
          /\ callState'[c].at = "ending" /\ callState'[c].kind = callState[c].kind
          /\ callState'[c].host = callState[c].host /\ callState'[c].project = callState[c].project
      BY <1>3 DEF T3TypeOK
    <3> QED BY <1>1, <1>3, <3>1 DEF CallIsAddressed
  <2>4. EffectIsNotDenied'
    BY <1>1, <1>3 DEF T3TypeOK, EffectIsNotDenied, Asking, Failures
  <2>5. AnswerIsHeld'
    BY <1>3 DEF T3TypeOK, AnswerIsHeld, Failures
  <2>6. TokenInUse'
    BY <1>3 DEF T3TypeOK, TokenInUse
  <2> QED BY <2>1, <2>2, <2>3, <2>4, <2>5, <2>6
<1>4. /\ lostCount \in 0 .. MaxLost
      /\ Lose => lostCount' \in 0 .. MaxLost
  BY T3Assumption DEF T3TypeOK, Lose
<1>5. {"refused", "unavailable", "unknown"} \subseteq Failures \cup {"unknown"}
  BY DEF Failures
<1> QED BY <1>2, <1>3, <1>4, <1>5 DEF launch_thread, Fails, LostReply

LEMMA T3FinishesKeeps ==
    ASSUME T3Inv, NEW c \in LaunchCalls, T3Finishes(c)
    PROVE  T3Inv'
<1> USE DEF T3Inv, TokensSame
<1>1. /\ callState[c].host \in Hosts /\ callState[c].project \in Projects /\ callState[c].kind = "launch"
      /\ callState[c].at \in {"ending", "answering", "done"} /\ callState[c].answer \notin Failures
      /\ lateFor' = lateFor \ {c} /\ UNCHANGED <<tokens, unrevoked, listed, icons, lostCount>>
  BY DEF T3Finishes, CallIsAddressed, EffectIsNotDenied
<1>2. CASE UNCHANGED <<threads, launches, callState>>
  BY <1>1, <1>2 DEF T3TypeOK, OneT3Thread, CallIsAddressed, EffectIsNotDenied, AnswerIsHeld, TokenInUse
<1>3. CASE T3Launches(c) /\ callState' = [callState EXCEPT ![c].applied = TRUE]
  <2>1. OneT3Thread' /\ \A h \in Hosts : threads[h] \subseteq threads'[h]
    BY <1>1, <1>3, T3LaunchesOnce
  <2>2. T3TypeOK'
    <3>1. callState \in [LaunchCalls -> CallRecord]
      BY DEF T3TypeOK, CallRecord
    <3>2. callState' \in [LaunchCalls -> CallRecord]
      <4>1. [callState[c] EXCEPT !.applied = TRUE] \in CallRecord
        BY <3>1 DEF CallRecord
      <4>2. callState' = [callState EXCEPT ![c] = [callState[c] EXCEPT !.applied = TRUE]]
        BY <1>3
      <4> QED BY <3>1, <4>1, <4>2
    <3>3. /\ lateFor' \subseteq LaunchCalls
          /\ UNCHANGED <<listed, icons, tokens, unrevoked, lostCount>>
      BY <1>1 DEF T3TypeOK
    <3> QED BY <3>2, <3>3 DEF T3TypeOK, CallRecord
  <2>3. CallIsAddressed'
    BY <1>1, <1>3 DEF T3TypeOK, CallIsAddressed
  <2>4. EffectIsNotDenied'
    BY <1>1, <1>3 DEF T3TypeOK, EffectIsNotDenied, Asking
  <2>5. TokenInUse'
    BY <1>1, <1>3 DEF T3TypeOK, TokenInUse
  <2>6. AnswerIsHeld'
    <3>1. ASSUME NEW d \in LaunchCalls
          PROVE  /\ callState'[d].answer = callState[d].answer /\ callState'[d].kind = callState[d].kind
                 /\ callState'[d].host = callState[d].host /\ callState'[d].reports = callState[d].reports
                 /\ callState'[d].seen = callState[d].seen /\ callState'[d].icon = callState[d].icon
                 /\ callState[d].answer = "ok" => callState[d].host \in Hosts
      BY <1>3 DEF T3TypeOK, CallIsAddressed, EffectIsNotDenied
    <3> QED BY <1>1, <2>1, <3>1 DEF AnswerIsHeld
  <2> QED BY <2>1, <2>2, <2>3, <2>4, <2>5, <2>6
<1> QED BY <1>2, <1>3 DEF T3Finishes

LEMMA TokenExpiresKeeps ==
    ASSUME T3Inv, NEW c \in LaunchCalls, TokenExpires(c)
    PROVE  T3Inv'
BY DEF TokenExpires, T3Same, T3Inv, T3TypeOK, OneT3Thread, CallIsAddressed, EffectIsNotDenied,
       AnswerIsHeld, TokenInUse

LEMMA T3Starts == T3Init => T3Inv
<1> SUFFICES ASSUME T3Init PROVE T3Inv
  OBVIOUS
<1>1. T3TypeOK
  BY T3Assumption DEF T3Init, T3TypeOK, NotYet, CallPhases, Answers
<1>2. OneT3Thread
  BY DEF T3Init, OneT3Thread
<1>3. CallIsAddressed /\ EffectIsNotDenied /\ AnswerIsHeld /\ TokenInUse
  BY DEF T3Init, NotYet, CallIsAddressed, EffectIsNotDenied, AnswerIsHeld, TokenInUse, Asking, Failures
<1> QED BY <1>1, <1>2, <1>3 DEF T3Inv

LEMMA T3Implies == T3Inv => LaunchReportIsTrue
<1> SUFFICES ASSUME T3Inv PROVE LaunchReportIsTrue
  OBVIOUS
<1> USE DEF T3Inv
<1>1. LaunchedOnce
  BY DEF OneT3Thread, LaunchedOnce
<1>2. FailureLaunchedNothing
  BY DEF EffectIsNotDenied, FailureLaunchedNothing, Failures, T3TypeOK
<1>3. ReportsWhatT3Holds
  BY DEF AnswerIsHeld, ReportsWhatT3Holds, Stands
<1>4. SessionsEnd
  BY DEF TokenInUse, SessionsEnd
<1> QED BY <1>1, <1>2, <1>3, <1>4 DEF LaunchReportIsTrue

\* A repeated launch starts one thread, a call told that it failed reaches none,
\* a finished call reports what T3 holds and leaves no usable session, for any
\* machines, projects and calls and any number of lost replies and dead daemons
\* (`launch', `add_project', `TokenRevoker').
THEOREM LaunchReportCorrect == T3Spec => []LaunchReportIsTrue
<1>1. T3Inv /\ [T3Next]_t3Vars => T3Inv'
  <2> SUFFICES ASSUME T3Inv, [T3Next]_t3Vars PROVE T3Inv'
    OBVIOUS
  <2>1. CASE UNCHANGED t3Vars
    BY <2>1 DEF t3Vars, T3Inv, T3TypeOK, OneT3Thread, CallIsAddressed, EffectIsNotDenied,
                AnswerIsHeld, TokenInUse
  <2>2. CASE T3Next
    BY <2>2, RequestLaunchKeeps, RequestAddKeeps, ForwardKeeps, find_projectKeeps, look_for_rootKeeps,
       add_projectKeeps, ReadBackKeeps, issue_tokenKeeps, set_iconKeeps, launch_threadKeeps,
       T3FinishesKeeps, EndCallKeeps, peer_bodyKeeps, HostDiesKeeps, TokenExpiresKeeps DEF T3Next
  <2> QED BY <2>1, <2>2
<1> QED BY <1>1, T3Starts, T3Implies, PTL DEF T3Spec

=============================================================================

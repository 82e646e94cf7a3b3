----------------------------- MODULE TaskProofs -----------------------------
(***************************************************************************)
(* A task, remote and local.  RemoteTask: what the origin says about a     *)
(* task agrees with what the executor does, and a cancel that is           *)
(* acknowledged holds.  TaskChains: a task launches once or never and not  *)
(* before those it is held after, a Codex thread has one live owner, a     *)
(* cancel of a chain stops the run that owns the work, and no task waits   *)
(* for itself through others.                                              *)
(***************************************************************************)
EXTENDS RemoteTask, TaskChains, FiniteSetTheorems, WellFoundedInduction, TLAPS

-----------------------------------------------------------------------------
(* RemoteTask, for any number of tasks, retries, requests given up and       *)
(* restarts: the inductive invariant                                         *)

\* Routes of which nothing was ever sent to the executor
Unsent == {"none", "waiting", "held cancelled"}

\* What an answer says for good
Definite == {"accepted"} \cup Tombstones

\* The executor has a row exactly for an accepted task, and starts it at most
\* once: a queued row was never started, and no row becomes queued again
RowOf(t) ==
    /\ process[t] # "none" <=> identity[t] = "accepted"
    /\ starts[t] <= 1
    /\ process[t] \in {"none", "queued"} => starts[t] = 0

\* The executor hears of a task only after its route left the held states
SilentOf(t) ==
    submission[t] \in Unsent =>
        /\ identity[t] = "none"
        /\ t \notin recovering
        /\ \A m \in wire : m.task # t
        /\ \A c \in Callers : calls[<<t, c>>] = NoRequest
        /\ \A r \in Requesters : intent[<<r, t>>] = "none"

\* Definite answers on their way to a caller, and the results the origin saved,
\* are the identity that the executor keeps
TruthOf(t) ==
    /\ \A c \in Callers :
          calls[<<t, c>>].answer \in Definite => identity[t] = calls[<<t, c>>].answer
    /\ submission[t] \in Definite => identity[t] = submission[t]

\* A receipt says what the executor's rows say, and a requester keeps a final
\* receipt as it was written
ReceiptOf(r, t) ==
    /\ receipt[<<r, t>>] \in {"prevented", "rejected"} => identity[t] \in Tombstones
    /\ receipt[<<r, t>>] = "pending" => identity[t] = "accepted"
    /\ receipt[<<r, t>>] \in {"applied", "terminal"} => process[t] \in Through \cup {"stopping"}
    /\ intent[<<r, t>>] \in {"prevented", "rejected", "applied", "terminal"} =>
            receipt[<<r, t>>] = intent[<<r, t>>]

FactsOf(t) ==
    /\ RowOf(t)
    /\ SilentOf(t)
    /\ TruthOf(t)
    /\ \A r \in Requesters : ReceiptOf(r, t)

\* A UUID that nobody used has no route
Unused == \A t \in RemoteTasks : terms[t] = "none" => submission[t] = "none"

RemoteInv ==
    /\ RemoteTypeOK
    /\ Unused
    /\ NewestSurvives
    /\ \A t \in RemoteTasks : FactsOf(t)

-----------------------------------------------------------------------------
(* Names for the parts of the type invariant *)

Submissions == {"none", "unknown", "waiting", "launching", "accepted", "held cancelled"}
               \cup Tombstones
Call == [doing: {"nothing", "submit", "identity", "abandon"},
         answer: {"none", "error", "absent"} \cup (Identities \ {"none"})]
Message == [kind: {"submit", "identity", "abandon"}, task: RemoteTasks,
            from: Callers \cup {"gone"}]
Processes == {"none", "queued", "running", "stopping"} \cup Through
Intents == {"none", "saved"} \cup Receipts

OriginTypes ==
    /\ terms \in [RemoteTasks -> {"none", "direct", "wait"}]
    /\ submission \in [RemoteTasks -> Submissions]
    /\ by \in [RemoteTasks -> RemoteTasks \cup {0}]
    /\ coalesce \subseteq RemoteTasks /\ recovering \subseteq RemoteTasks

CallTypes ==
    /\ calls \in [RemoteTasks \X Callers -> Call]
    /\ wire \subseteq Message

ExecutorTypes ==
    /\ identity \in [RemoteTasks -> Identities]
    /\ process \in [RemoteTasks -> Processes]
    /\ starts \in [RemoteTasks -> Nat]

CancelTypes ==
    /\ intent \in [Requesters \X RemoteTasks -> Intents]
    /\ receipt \in [Requesters \X RemoteTasks -> Receipts]

CountTypes ==
    gaveUp \in 0 .. MaxGaveUp /\ retries \in 0 .. MaxRetries /\ intents \in 0 .. MaxIntents

LEMMA RemoteTypes ==
    RemoteTypeOK <=> OriginTypes /\ CallTypes /\ ExecutorTypes /\ CancelTypes /\ CountTypes
  BY DEF RemoteTypeOK, OriginTypes, CallTypes, ExecutorTypes, CancelTypes, CountTypes,
         Submissions, Call, Message, Processes, Intents

\* The parts of the invariant after a step
LEMMA InvAfter ==
    ASSUME OriginTypes', CallTypes', ExecutorTypes', CancelTypes', CountTypes',
           Unused', NewestSurvives', \A u \in RemoteTasks : FactsOf(u)'
    PROVE  RemoteInv'
  <1>1. RemoteTypeOK'
    BY DEF RemoteTypeOK, OriginTypes, CallTypes, ExecutorTypes, CancelTypes, CountTypes,
           Submissions, Call, Message, Processes, Intents
  <1>2. QED
    BY <1>1 DEF RemoteInv

-----------------------------------------------------------------------------
(* Steps of the origin about a task u: the executor's rows and the cancels  *)
(* of u stay, an answer or result that is new is indefinite or is the       *)
(* identity, and a route that stays unsent is not spoken about              *)

SameExecutor(u) ==
    /\ identity'[u] = identity[u] /\ process'[u] = process[u] /\ starts'[u] = starts[u]
    /\ \A r \in Requesters : receipt'[<<r, u>>] = receipt[<<r, u>>]
                             /\ intent'[<<r, u>>] = intent[<<r, u>>]

StaysUnsent(u) ==
    /\ submission[u] \in Unsent
    /\ u \in recovering' => u \in recovering
    /\ \A m \in wire' : m.task = u => \E n \in wire : n.task = u
    /\ \A c \in Callers : calls'[<<u, c>>] \in {calls[<<u, c>>], NoRequest}

OriginStep(u) ==
    /\ SameExecutor(u)
    /\ submission'[u] \in Definite => submission'[u] \in {submission[u], identity[u]}
    /\ \A c \in Callers :
          calls'[<<u, c>>] = calls[<<u, c>>] \/ calls'[<<u, c>>].answer \notin Definite
    /\ submission'[u] \in Unsent => StaysUnsent(u)

LEMMA OriginFacts ==
    ASSUME NEW u \in RemoteTasks, FactsOf(u), OriginStep(u)
    PROVE  FactsOf(u)'
  <1>1. RowOf(u)'
    BY DEF FactsOf, RowOf, OriginStep, SameExecutor
  <1>2. SilentOf(u)'
    BY DEF FactsOf, SilentOf, OriginStep, SameExecutor, StaysUnsent
  <1>3. TruthOf(u)'
    BY DEF FactsOf, TruthOf, OriginStep, SameExecutor
  <1>4. ASSUME NEW r \in Requesters PROVE ReceiptOf(r, u)'
    BY DEF FactsOf, ReceiptOf, OriginStep, SameExecutor
  <1>5. QED
    BY <1>1, <1>2, <1>3, <1>4 DEF FactsOf

\* A caller that sends, or whose exchange is over, has no answer yet
LEMMA SendFacts ==
    ASSUME CallTypes, NEW t \in RemoteTasks, NEW c \in Callers,
           NEW kind \in {"submit", "identity", "abandon"}, Send(t, c, kind)
    PROVE  /\ CallTypes'
           /\ \A m \in wire' : m \in wire \/ m.task = t
           /\ calls'[<<t, c>>].answer = "none"
           /\ \A u \in RemoteTasks, d \in Callers :
                 u # t \/ d # c => calls'[<<u, d>>] = calls[<<u, d>>]
  <1>1. [doing |-> kind, answer |-> "none"] \in Call
    BY DEF Call
  <1>2. [kind |-> kind, task |-> t, from |-> c] \in Message
    BY DEF Message
  <1>3. wire' \subseteq Message /\ \A m \in wire' : m \in wire \/ m.task = t
    BY <1>2 DEF Send, CallTypes
  <1>4. calls' \in [RemoteTasks \X Callers -> Call]
    BY <1>1 DEF Send, CallTypes
  <1>5. /\ calls'[<<t, c>>].answer = "none"
        /\ \A u \in RemoteTasks, d \in Callers :
              u # t \/ d # c => calls'[<<u, d>>] = calls[<<u, d>>]
    BY DEF Send, CallTypes
  <1>6. QED
    BY <1>3, <1>4, <1>5 DEF CallTypes

LEMMA HangUpFacts ==
    ASSUME CallTypes, NEW t \in RemoteTasks, NEW c \in Callers,
           calls' = [calls EXCEPT ![<<t, c>>] = NoRequest]
    PROVE  /\ calls' \in [RemoteTasks \X Callers -> Call]
           /\ calls'[<<t, c>>] = NoRequest
           /\ \A u \in RemoteTasks, d \in Callers :
                 u # t \/ d # c => calls'[<<u, d>>] = calls[<<u, d>>]
  <1>1. NoRequest \in Call
    BY DEF NoRequest, Call
  <1>2. QED
    BY <1>1 DEF CallTypes

\* A step that only sends about a route that is, or becomes, unknown or launching
LEMMA SendStep ==
    ASSUME CallTypes, NEW t \in RemoteTasks, NEW c \in Callers,
           NEW kind \in {"submit", "identity", "abandon"}, Send(t, c, kind),
           NEW u \in RemoteTasks, SameExecutor(u),
           u # t => submission'[u] = submission[u] /\ (u \in recovering' => u \in recovering),
           submission'[t] \notin Unsent,
           submission'[t] \in {"unknown", "launching", submission[t]}
    PROVE  OriginStep(u)
  <1>1. /\ \A m \in wire' : m \in wire \/ m.task = t
        /\ calls'[<<t, c>>].answer = "none"
        /\ \A v \in RemoteTasks, d \in Callers :
              v # t \/ d # c => calls'[<<v, d>>] = calls[<<v, d>>]
    BY SendFacts
  <1>2. CASE u = t
    BY <1>1, <1>2 DEF OriginStep, Definite, Tombstones
  <1>3. CASE u # t
    BY <1>1, <1>3 DEF OriginStep, StaysUnsent, Definite, Tombstones
  <1>4. QED
    BY <1>2, <1>3

-----------------------------------------------------------------------------
(* Each operation keeps the invariant *)

LEMMA KeepsBySubmit ==
    ASSUME RemoteInv, NEW t \in RemoteTasks, NEW how \in {"direct", "wait"}, submit(t, how)
    PROVE  RemoteInv'
  <1>1. OriginTypes /\ CallTypes /\ ExecutorTypes /\ CancelTypes /\ CountTypes
    BY RemoteTypes DEF RemoteInv
  <1>2. /\ terms[t] = "none" /\ terms' = [terms EXCEPT ![t] = how]
        /\ UNCHANGED <<by, recovering, ExecutorVars, CancelVars, gaveUp, retries>>
    BY DEF submit
  <1>3. \A u \in RemoteTasks : SameExecutor(u)
    BY <1>2 DEF SameExecutor, ExecutorVars, CancelVars
  <1>4. ExecutorTypes' /\ CancelTypes' /\ CountTypes'
    BY <1>1, <1>2 DEF ExecutorTypes, CancelTypes, CountTypes, ExecutorVars, CancelVars
  <1>5. NewestSurvives'
    BY <1>2 DEF RemoteInv, NewestSurvives
  <1>6. CASE how = "direct"
    <2>1. submission' = [submission EXCEPT ![t] = "unknown"] /\ Send(t, "locked", "submit")
          /\ coalesce' = coalesce
      BY <1>6 DEF submit
    <2>2. OriginTypes' /\ Unused'
      BY <1>1, <1>2, <1>6, <2>1 DEF OriginTypes, Submissions, RemoteInv, Unused
    <2>3. "locked" \in Callers /\ CallTypes'
      BY <1>1, <2>1, SendFacts DEF Callers
    <2>4. /\ submission'[t] = "unknown"
          /\ \A u \in RemoteTasks \ {t} : submission'[u] = submission[u]
      BY <1>1, <2>1 DEF OriginTypes
    <2>5. \A u \in RemoteTasks : OriginStep(u)
      BY <1>1, <1>2, <1>3, <2>1, <2>3, <2>4, SendStep DEF Unsent
    <2>6. \A u \in RemoteTasks : FactsOf(u)'
      BY <2>5, OriginFacts DEF RemoteInv
    <2>7. QED
      BY <1>4, <1>5, <2>2, <2>3, <2>6, InvAfter
  <1>7. CASE how = "wait"
    <2>1. submission' = [submission EXCEPT ![t] = "waiting"]
          /\ coalesce' = coalesce \cup {t} /\ calls' = calls /\ wire' = wire
      BY <1>7 DEF submit
    <2>2. OriginTypes' /\ CallTypes' /\ Unused'
      BY <1>1, <1>2, <1>7, <2>1 DEF OriginTypes, CallTypes, Submissions, RemoteInv, Unused
    <2>3. submission[t] = "none"
      BY <1>2 DEF RemoteInv, Unused
    <2>4. /\ submission'[t] = "waiting"
          /\ \A u \in RemoteTasks \ {t} : submission'[u] = submission[u]
      BY <1>1, <2>1 DEF OriginTypes
    <2>5. \A u \in RemoteTasks : OriginStep(u)
      BY <1>2, <1>3, <2>1, <2>3, <2>4 DEF OriginStep, StaysUnsent, Unsent, Definite, Tombstones
    <2>6. \A u \in RemoteTasks : FactsOf(u)'
      BY <2>5, OriginFacts DEF RemoteInv
    <2>7. QED
      BY <1>4, <1>5, <2>2, <2>6, InvAfter
  <1>8. QED
    BY <1>6, <1>7

\* finish_saved only asks for the identity of an unknown route
LEMMA KeepsByFinishSaved ==
    ASSUME RemoteInv, NEW t \in RemoteTasks, finish_saved(t)
    PROVE  RemoteInv'
  <1>1. OriginTypes /\ CallTypes /\ ExecutorTypes /\ CancelTypes /\ CountTypes
    BY RemoteTypes DEF RemoteInv
  <1>2. /\ UNCHANGED <<terms, submission, by, recovering, ExecutorVars, CancelVars, gaveUp>>
        /\ retries < MaxRetries /\ retries' = retries + 1
        /\ coalesce' \subseteq coalesce \cup {t}
    BY DEF finish_saved
  <1>3. \A u \in RemoteTasks : SameExecutor(u)
    BY <1>2 DEF SameExecutor, ExecutorVars, CancelVars
  <1>4. OriginTypes' /\ ExecutorTypes' /\ CancelTypes' /\ Unused' /\ NewestSurvives'
    BY <1>1, <1>2 DEF OriginTypes, ExecutorTypes, CancelTypes, ExecutorVars, CancelVars,
                      RemoteInv, Unused, NewestSurvives
  <1>5. CountTypes'
    BY <1>1, <1>2, RemoteAssumption DEF CountTypes, CancelVars, RemoteAssumption
  <1>6. CallTypes' /\ \A u \in RemoteTasks : OriginStep(u)
    <2>1. CASE submission[t] = "unknown"
      <3>1. Send(t, "locked", "identity") /\ "locked" \in Callers
        BY <2>1 DEF finish_saved, Callers
      <3>2. CallTypes'
        BY <1>1, <3>1, SendFacts
      <3>3. \A u \in RemoteTasks : OriginStep(u)
        BY <1>1, <1>2, <1>3, <2>1, <3>1, SendStep DEF Unsent
      <3>4. QED
        BY <3>2, <3>3
    <2>2. CASE submission[t] # "unknown"
      <3>1. calls' = calls /\ wire' = wire
        BY <2>2 DEF finish_saved
      <3>2. QED
        BY <1>1, <1>2, <1>3, <3>1 DEF CallTypes, OriginStep, StaysUnsent
    <2>3. QED
      BY <2>1, <2>2
  <1>7. \A u \in RemoteTasks : FactsOf(u)'
    BY <1>6, OriginFacts DEF RemoteInv
  <1>8. QED
    BY <1>4, <1>5, <1>6, <1>7, InvAfter

\* Only a waiting route is cancelled by its origin, and nothing was sent of it
LEMMA HeldCancel ==
    ASSUME OriginTypes, NEW t \in RemoteTasks, NEW cause, cancel_origin_route(t, cause),
           calls' = calls, wire' = wire, recovering' = recovering,
           NEW u \in RemoteTasks, SameExecutor(u)
    PROVE  OriginStep(u)
  <1>1. /\ submission[t] = "waiting" /\ submission'[t] = "held cancelled"
        /\ u # t => submission'[u] = submission[u]
    BY DEF cancel_origin_route, OriginTypes
  <1>2. QED
    BY <1>1 DEF OriginStep, StaysUnsent, Unsent, Definite, Tombstones

LEMMA KeepsByTrySupersede ==
    ASSUME RemoteInv, NEW v \in RemoteTasks, try_supersede(v)
    PROVE  RemoteInv'
  <1>1. OriginTypes /\ CallTypes /\ ExecutorTypes /\ CancelTypes /\ CountTypes
    BY RemoteTypes DEF RemoteInv
  <1>2. UNCHANGED <<terms, calls, wire, recovering, ExecutorVars, CancelVars, gaveUp, retries>>
    BY DEF try_supersede
  <1>3. \A u \in RemoteTasks : SameExecutor(u)
    BY <1>2 DEF SameExecutor, ExecutorVars, CancelVars
  <1>4. CallTypes' /\ ExecutorTypes' /\ CancelTypes' /\ CountTypes'
    BY <1>1, <1>2 DEF CallTypes, ExecutorTypes, CancelTypes, CountTypes,
                      ExecutorVars, CancelVars
  <1>5. CASE \E t \in coalesced_waiting_routes(v) :
                Free(t) /\ cancel_origin_route(t, v) /\ UNCHANGED coalesce
    <2>1. PICK t \in RemoteTasks : t < v /\ cancel_origin_route(t, v) /\ UNCHANGED coalesce
      BY <1>5 DEF coalesced_waiting_routes
    <2>2. OriginTypes' /\ Unused'
      BY <1>1, <1>2, <2>1 DEF cancel_origin_route, OriginTypes, Submissions, RemoteInv, Unused
    <2>3. NewestSurvives'
      BY <1>1, <2>1, RemoteAssumption
         DEF cancel_origin_route, OriginTypes, RemoteInv, NewestSurvives, RemoteAssumption
    <2>4. \A u \in RemoteTasks : OriginStep(u)
      BY <1>1, <1>2, <1>3, <2>1, HeldCancel
    <2>5. \A u \in RemoteTasks : FactsOf(u)'
      BY <2>4, OriginFacts DEF RemoteInv
    <2>6. QED
      BY <1>4, <2>2, <2>3, <2>5, InvAfter
  <1>6. CASE coalesce' = coalesce \ {v} /\ UNCHANGED <<submission, by>>
    <2>1. OriginTypes' /\ Unused' /\ NewestSurvives'
      BY <1>1, <1>2, <1>6 DEF OriginTypes, RemoteInv, Unused, NewestSurvives
    <2>2. \A u \in RemoteTasks : OriginStep(u)
      BY <1>2, <1>3, <1>6 DEF OriginStep, StaysUnsent
    <2>3. \A u \in RemoteTasks : FactsOf(u)'
      BY <2>2, OriginFacts DEF RemoteInv
    <2>4. QED
      BY <1>4, <2>1, <2>3, InvAfter
  <1>7. QED
    BY <1>5, <1>6 DEF try_supersede

LEMMA KeepsByRelease ==
    ASSUME RemoteInv, NEW t \in RemoteTasks, release(t)
    PROVE  RemoteInv'
  <1>1. OriginTypes /\ CallTypes /\ ExecutorTypes /\ CancelTypes /\ CountTypes
    BY RemoteTypes DEF RemoteInv
  <1>2. /\ UNCHANGED <<terms, by, coalesce, recovering, ExecutorVars, CancelVars, gaveUp, retries>>
        /\ submission[t] \in {"waiting", "launching"}
        /\ submission' = [submission EXCEPT ![t] = "launching"]
        /\ Send(t, "locked", "submit") /\ "locked" \in Callers
    BY DEF release, Callers
  <1>3. \A u \in RemoteTasks : SameExecutor(u)
    BY <1>2 DEF SameExecutor, ExecutorVars, CancelVars
  <1>4. /\ OriginTypes' /\ ExecutorTypes' /\ CancelTypes' /\ CountTypes'
        /\ Unused' /\ NewestSurvives'
    BY <1>1, <1>2 DEF OriginTypes, Submissions, ExecutorTypes, CancelTypes, CountTypes,
                      ExecutorVars, CancelVars, RemoteInv, Unused, NewestSurvives
  <1>5. CallTypes'
    BY <1>1, <1>2, SendFacts
  <1>6. submission'[t] = "launching" /\ \A u \in RemoteTasks \ {t} : submission'[u] = submission[u]
    BY <1>1, <1>2 DEF OriginTypes
  <1>7. \A u \in RemoteTasks : OriginStep(u)
    BY <1>1, <1>2, <1>3, <1>6, SendStep DEF Unsent
  <1>8. \A u \in RemoteTasks : FactsOf(u)'
    BY <1>7, OriginFacts DEF RemoteInv
  <1>9. QED
    BY <1>4, <1>5, <1>8, InvAfter

LEMMA KeepsByRecover ==
    ASSUME RemoteInv, NEW t \in RemoteTasks, recover(t)
    PROVE  RemoteInv'
  <1>1. OriginTypes /\ CallTypes /\ ExecutorTypes /\ CancelTypes /\ CountTypes
    BY RemoteTypes DEF RemoteInv
  <1>2. /\ UNCHANGED <<terms, submission, by, coalesce, ExecutorVars, CancelVars, gaveUp, retries>>
        /\ t \in recovering /\ recovering' = recovering \ {t}
        /\ Send(t, "recover", "identity") /\ "recover" \in Callers
    BY DEF recover, Callers
  <1>3. \A u \in RemoteTasks : SameExecutor(u)
    BY <1>2 DEF SameExecutor, ExecutorVars, CancelVars
  <1>4. /\ OriginTypes' /\ ExecutorTypes' /\ CancelTypes' /\ CountTypes'
        /\ Unused' /\ NewestSurvives'
    BY <1>1, <1>2 DEF OriginTypes, ExecutorTypes, CancelTypes, CountTypes,
                      ExecutorVars, CancelVars, RemoteInv, Unused, NewestSurvives
  <1>5. CallTypes'
    BY <1>1, <1>2, SendFacts
  <1>6. submission[t] \notin Unsent
    BY <1>2 DEF RemoteInv, FactsOf, SilentOf
  <1>7. \A u \in RemoteTasks : OriginStep(u)
    BY <1>1, <1>2, <1>3, <1>6, SendStep
  <1>8. \A u \in RemoteTasks : FactsOf(u)'
    BY <1>7, OriginFacts DEF RemoteInv
  <1>9. QED
    BY <1>4, <1>5, <1>8, InvAfter

LEMMA KeepsByAcceptHeldLaunch ==
    ASSUME RemoteInv, NEW t \in RemoteTasks, accept_held_launch(t)
    PROVE  RemoteInv'
  <1>1. OriginTypes /\ CallTypes /\ ExecutorTypes /\ CancelTypes /\ CountTypes
    BY RemoteTypes DEF RemoteInv
  <1>2. /\ UNCHANGED <<terms, by, calls, wire, coalesce, recovering, ExecutorVars, CancelVars,
                        gaveUp, retries>>
        /\ submission[t] = "launching" /\ identity[t] = "accepted"
        /\ submission' = [submission EXCEPT ![t] = "accepted"]
    BY DEF accept_held_launch
  <1>3. \A u \in RemoteTasks : SameExecutor(u)
    BY <1>2 DEF SameExecutor, ExecutorVars, CancelVars
  <1>4. /\ OriginTypes' /\ CallTypes' /\ ExecutorTypes' /\ CancelTypes' /\ CountTypes'
        /\ Unused' /\ NewestSurvives'
    BY <1>1, <1>2 DEF OriginTypes, Submissions, CallTypes, ExecutorTypes, CancelTypes, CountTypes,
                      ExecutorVars, CancelVars, RemoteInv, Unused, NewestSurvives
  <1>5. submission'[t] = "accepted" /\ \A u \in RemoteTasks \ {t} : submission'[u] = submission[u]
    BY <1>1, <1>2 DEF OriginTypes
  <1>6. \A u \in RemoteTasks : OriginStep(u)
    BY <1>2, <1>3, <1>5 DEF OriginStep, StaysUnsent, Unsent
  <1>7. \A u \in RemoteTasks : FactsOf(u)'
    BY <1>6, OriginFacts DEF RemoteInv
  <1>8. QED
    BY <1>4, <1>7, InvAfter

\* An answer is used once; a definite one is what the executor saved
LEMMA KeepsByAnswered ==
    ASSUME RemoteInv, NEW t \in RemoteTasks, NEW c \in Callers, Answered(t, c)
    PROVE  RemoteInv'
  <1>1. OriginTypes /\ CallTypes /\ ExecutorTypes /\ CancelTypes /\ CountTypes
    BY RemoteTypes DEF RemoteInv
  <1>2. UNCHANGED <<terms, by, coalesce, recovering, ExecutorVars, CancelVars, gaveUp, retries>>
    BY DEF Answered
  <1>3. \A u \in RemoteTasks : SameExecutor(u)
    BY <1>2 DEF SameExecutor, ExecutorVars, CancelVars
  <1>4. ExecutorTypes' /\ CancelTypes' /\ CountTypes' /\ NewestSurvives'
    BY <1>1, <1>2 DEF ExecutorTypes, CancelTypes, CountTypes,
                      ExecutorVars, CancelVars, RemoteInv, NewestSurvives
  <1>5. FactsOf(t)
    BY DEF RemoteInv
  <1>6. CASE AbandonCall(t, c)
    <2>1. /\ calls[<<t, c>>].doing = "identity" /\ Send(t, c, "abandon")
          /\ submission' = submission
      BY <1>6 DEF AbandonCall
    <2>2. submission[t] \notin Unsent
      BY <1>5, <2>1 DEF FactsOf, SilentOf, NoRequest
    <2>3. CallTypes'
      BY <1>1, <2>1, SendFacts
    <2>4. OriginTypes' /\ Unused'
      BY <1>1, <1>2, <2>1 DEF OriginTypes, RemoteInv, Unused
    <2>5. \A u \in RemoteTasks : OriginStep(u)
      BY <1>1, <1>2, <1>3, <2>1, <2>2, SendStep
    <2>6. \A u \in RemoteTasks : FactsOf(u)'
      BY <2>5, OriginFacts DEF RemoteInv
    <2>7. QED
      BY <1>4, <2>3, <2>4, <2>6, InvAfter
  <1>7. CASE Resolve(t, c)
    <2> DEFINE answer == calls[<<t, c>>].answer
    <2>1. /\ answer \in Definite \cup {"error"}
          /\ calls' = [calls EXCEPT ![<<t, c>>] = NoRequest] /\ wire' = wire
          /\ \/ submission' = submission
             \/ /\ answer \in Definite
                /\ submission[t] \in {"unknown", "launching"}
                /\ submission' = [submission EXCEPT ![t] = answer]
      BY <1>7 DEF Resolve, resolve_origin_route, Identities, Definite
    <2>2. answer \in Definite => answer = identity[t]
      BY <1>5 DEF FactsOf, TruthOf
    <2> HIDE DEF answer
    <2>3. /\ calls' \in [RemoteTasks \X Callers -> Call]
          /\ calls'[<<t, c>>] = NoRequest
          /\ \A u \in RemoteTasks, d \in Callers :
                u # t \/ d # c => calls'[<<u, d>>] = calls[<<u, d>>]
      BY <1>1, <2>1, HangUpFacts
    <2>4. CallTypes'
      BY <1>1, <2>1, <2>3 DEF CallTypes
    <2>5. OriginTypes' /\ Unused'
      BY <1>1, <1>2, <2>1 DEF OriginTypes, Submissions, Definite, RemoteInv, Unused
    <2>6. /\ \A u \in RemoteTasks \ {t} : submission'[u] = submission[u]
          /\ \/ submission'[t] = submission[t]
             \/ submission'[t] = identity[t] /\ submission'[t] \in Definite
      BY <1>1, <2>1, <2>2 DEF OriginTypes
    <2>7. ASSUME NEW u \in RemoteTasks PROVE OriginStep(u)
      <3>1. submission'[u] \in Definite => submission'[u] \in {submission[u], identity[u]}
        BY <2>6
      <3>2. submission'[u] \in Unsent => submission'[u] = submission[u]
        BY <2>6 DEF Unsent, Definite, Tombstones
      <3>3. \A d \in Callers : calls'[<<u, d>>] \in {calls[<<u, d>>], NoRequest}
        BY <2>3
      <3>4. NoRequest.answer \notin Definite
        BY DEF NoRequest, Definite, Tombstones
      <3>5. QED
        BY <1>2, <1>3, <2>1, <3>1, <3>2, <3>3, <3>4 DEF OriginStep, StaysUnsent
    <2>8. \A u \in RemoteTasks : FactsOf(u)'
      BY <2>7, OriginFacts DEF RemoteInv
    <2>9. QED
      BY <1>4, <2>4, <2>5, <2>8, InvAfter
  <1>8. QED
    BY <1>6, <1>7 DEF Answered

\* A message whose caller is gone is about the same task
LEMMA OrphanedFacts ==
    ASSUME NEW m \in Message
    PROVE  Orphaned(m) \in Message /\ Orphaned(m).task = m.task
  BY DEF Orphaned, Message

\* A step after which some callers have hung up and their requests are orphans
LEMMA HangUpStep ==
    ASSUME NEW u \in RemoteTasks, SameExecutor(u), submission' = submission,
           u \in recovering' => u \in recovering \/ submission[u] = "unknown",
           \A m \in wire' : \E n \in wire : n.task = m.task,
           \A d \in Callers : calls'[<<u, d>>] \in {calls[<<u, d>>], NoRequest}
    PROVE  OriginStep(u)
  <1>1. NoRequest.answer \notin Definite
    BY DEF NoRequest, Definite, Tombstones
  <1>2. QED
    BY <1>1 DEF OriginStep, StaysUnsent, Unsent

LEMMA KeepsByGiveUp ==
    ASSUME RemoteInv, NEW t \in RemoteTasks, NEW c \in Callers, GiveUp(t, c)
    PROVE  RemoteInv'
  <1>1. OriginTypes /\ CallTypes /\ ExecutorTypes /\ CancelTypes /\ CountTypes
    BY RemoteTypes DEF RemoteInv
  <1>2. /\ UNCHANGED <<terms, submission, by, coalesce, recovering, ExecutorVars, CancelVars, retries>>
        /\ gaveUp < MaxGaveUp /\ gaveUp' = gaveUp + 1
        /\ calls' = [calls EXCEPT ![<<t, c>>] = NoRequest]
        /\ wire' = {IF m.task = t /\ m.from = c THEN Orphaned(m) ELSE m : m \in wire}
    BY DEF GiveUp
  <1>3. \A u \in RemoteTasks : SameExecutor(u)
    BY <1>2 DEF SameExecutor, ExecutorVars, CancelVars
  <1>4. OriginTypes' /\ ExecutorTypes' /\ CancelTypes' /\ Unused' /\ NewestSurvives'
    BY <1>1, <1>2 DEF OriginTypes, ExecutorTypes, CancelTypes, ExecutorVars, CancelVars,
                      RemoteInv, Unused, NewestSurvives
  <1>5. CountTypes'
    BY <1>1, <1>2, RemoteAssumption DEF CountTypes, CancelVars, RemoteAssumption
  <1>6. /\ calls' \in [RemoteTasks \X Callers -> Call]
        /\ \A u \in RemoteTasks, d \in Callers :
              calls'[<<u, d>>] \in {calls[<<u, d>>], NoRequest}
    BY <1>1, <1>2, HangUpFacts
  <1>7. wire' \subseteq Message /\ \A m \in wire' : \E n \in wire : n.task = m.task
    <2>1. \A m \in wire : Orphaned(m) \in Message /\ Orphaned(m).task = m.task /\ m \in Message
      BY <1>1, OrphanedFacts DEF CallTypes
    <2>2. QED
      BY <1>2, <2>1
  <1>8. \A u \in RemoteTasks : OriginStep(u)
    BY <1>2, <1>3, <1>6, <1>7, HangUpStep
  <1>9. \A u \in RemoteTasks : FactsOf(u)'
    BY <1>8, OriginFacts DEF RemoteInv
  <1>10. QED
    BY <1>4, <1>5, <1>6, <1>7, <1>9, InvAfter DEF CallTypes

LEMMA KeepsByRestart ==
    ASSUME RemoteInv, Restart
    PROVE  RemoteInv'
  <1>1. OriginTypes /\ CallTypes /\ ExecutorTypes /\ CancelTypes /\ CountTypes
    BY RemoteTypes DEF RemoteInv
  <1>2. /\ UNCHANGED <<terms, submission, by, ExecutorVars, CancelVars, retries>>
        /\ gaveUp < MaxGaveUp /\ gaveUp' = gaveUp + 1
        /\ calls' = [d \in RemoteTasks \X Callers |-> NoRequest]
        /\ wire' = {Orphaned(m) : m \in wire}
        /\ coalesce' = {} /\ recovering' = {t \in RemoteTasks : submission[t] = "unknown"}
    BY DEF Restart
  <1>3. \A u \in RemoteTasks : SameExecutor(u)
    BY <1>2 DEF SameExecutor, ExecutorVars, CancelVars
  <1>4. OriginTypes' /\ ExecutorTypes' /\ CancelTypes' /\ Unused' /\ NewestSurvives'
    BY <1>1, <1>2 DEF OriginTypes, ExecutorTypes, CancelTypes, ExecutorVars, CancelVars,
                      RemoteInv, Unused, NewestSurvives
  <1>5. CountTypes'
    BY <1>1, <1>2, RemoteAssumption DEF CountTypes, CancelVars, RemoteAssumption
  <1>6. /\ calls' \in [RemoteTasks \X Callers -> Call]
        /\ \A u \in RemoteTasks, d \in Callers :
              calls'[<<u, d>>] \in {calls[<<u, d>>], NoRequest}
    <2>1. NoRequest \in Call
      BY DEF NoRequest, Call
    <2>2. QED
      BY <1>2, <2>1
  <1>7. wire' \subseteq Message /\ \A m \in wire' : \E n \in wire : n.task = m.task
    <2>1. \A m \in wire : Orphaned(m) \in Message /\ Orphaned(m).task = m.task
      BY <1>1, OrphanedFacts DEF CallTypes
    <2>2. QED
      BY <1>2, <2>1
  <1>8. \A u \in RemoteTasks : OriginStep(u)
    BY <1>2, <1>3, <1>6, <1>7, HangUpStep
  <1>9. \A u \in RemoteTasks : FactsOf(u)'
    BY <1>8, OriginFacts DEF RemoteInv
  <1>10. QED
    BY <1>4, <1>5, <1>6, <1>7, <1>9, InvAfter DEF CallTypes

\* The executor saves an identity for a task it did not know, and keeps one it has
LEMMA IdentityStep ==
    ASSUME NEW t \in RemoteTasks, FactsOf(t), submission[t] \notin Unsent,
           submission'[t] = submission[t], starts'[t] = starts[t],
           \A r \in Requesters : receipt'[<<r, t>>] = receipt[<<r, t>>]
                                 /\ intent'[<<r, t>>] = intent[<<r, t>>],
           \/ identity'[t] = identity[t] /\ process'[t] = process[t]
           \/ /\ identity[t] = "none"
              /\ \/ identity'[t] = "accepted" /\ process'[t] = "queued"
                 \/ identity'[t] \in Tombstones /\ process'[t] = process[t],
           \A c \in Callers : calls'[<<t, c>>].answer \in Definite =>
                calls'[<<t, c>>] = calls[<<t, c>>] \/ identity'[t] = calls'[<<t, c>>].answer
    PROVE  FactsOf(t)'
  <1>1. RowOf(t)'
    BY DEF FactsOf, RowOf, Tombstones
  <1>2. SilentOf(t)'
    BY DEF SilentOf
  <1>3. TruthOf(t)'
    BY DEF FactsOf, TruthOf, Definite, Tombstones
  <1>4. ASSUME NEW r \in Requesters PROVE ReceiptOf(r, t)'
    BY DEF FactsOf, RowOf, ReceiptOf, Tombstones, Through
  <1>5. QED
    BY <1>1, <1>2, <1>3, <1>4 DEF FactsOf

LEMMA KeepsByArrive ==
    ASSUME RemoteInv, NEW m \in wire, Arrive(m)
    PROVE  RemoteInv'
  <1>1. OriginTypes /\ CallTypes /\ ExecutorTypes /\ CancelTypes /\ CountTypes
    BY RemoteTypes DEF RemoteInv
  <1> DEFINE t == m.task
  <1>2. /\ m \in Message /\ t \in RemoteTasks /\ m.from \in Callers \cup {"gone"}
        /\ m.kind \in {"submit", "identity", "abandon"}
    BY <1>1 DEF CallTypes, Message
  <1>3. /\ wire' = wire \ {m}
        /\ UNCHANGED <<terms, submission, by, coalesce, recovering, starts, receipt, CancelVars, retries>>
    BY DEF Arrive
  <1>4. PICK found \in {"accepted", "error", "absent"} \cup Tombstones :
          /\ CASE m.kind = "submit"   -> submit_execution(t, found)
               [] m.kind = "identity" -> executor_identity(t, found)
               [] m.kind = "abandon"  -> reject_execution(t, "abandoned", found) /\ UNCHANGED process
          /\ calls' = IF m.from = "gone" THEN calls
                      ELSE [calls EXCEPT ![<<t, m.from>>].answer = found]
          /\ found = "error" => gaveUp < MaxGaveUp
          /\ gaveUp' = IF found = "error" THEN gaveUp + 1 ELSE gaveUp
    BY DEF Arrive
  <1>5. /\ \/ identity' = identity /\ process' = process
           \/ /\ identity[t] = "none"
              /\ identity' = [identity EXCEPT ![t] = found]
              /\ \/ found = "accepted" /\ process' = [process EXCEPT ![t] = "queued"]
                 \/ found \in Tombstones /\ process' = process
        /\ found \in Definite => identity'[t] = found
    <2>1. identity[t] \in Identities
      BY <1>1, <1>2 DEF ExecutorTypes
    <2>2. CASE m.kind = "submit"
      <3>1. submit_execution(t, found)
        BY <1>4, <2>2
      <3>2. QED
        BY <1>1, <1>2, <2>1, <3>1 DEF submit_execution, ExecutorTypes, Definite, Tombstones
    <2>3. CASE m.kind = "identity"
      <3>1. executor_identity(t, found)
        BY <1>4, <2>3
      <3>2. QED
        BY <1>1, <1>2, <2>1, <3>1 DEF executor_identity, ExecutorTypes, Definite, Tombstones
    <2>4. CASE m.kind = "abandon"
      <3>1. reject_execution(t, "abandoned", found) /\ process' = process
        BY <1>4, <2>4
      <3>2. QED
        BY <1>1, <1>2, <2>1, <3>1 DEF reject_execution, ExecutorTypes, Definite, Tombstones
    <2>5. QED
      BY <1>2, <2>2, <2>3, <2>4
  <1>6. /\ calls' \in [RemoteTasks \X Callers -> Call]
        /\ \A u \in RemoteTasks \ {t}, d \in Callers : calls'[<<u, d>>] = calls[<<u, d>>]
        /\ \A d \in Callers : \/ calls'[<<t, d>>] = calls[<<t, d>>]
                              \/ calls'[<<t, d>>].answer = found
    <2>1. CASE m.from = "gone"
      BY <1>1, <1>4, <2>1 DEF CallTypes
    <2>2. CASE m.from \in Callers /\ m.from # "gone"
      <3>1. calls' = [calls EXCEPT ![<<t, m.from>>].answer = found] /\ <<t, m.from>> \in RemoteTasks \X Callers
        BY <1>2, <1>4, <2>2
      <3>2. [calls[<<t, m.from>>] EXCEPT !.answer = found] \in Call
            /\ [calls[<<t, m.from>>] EXCEPT !.answer = found].answer = found
        <4>1. calls[<<t, m.from>>] \in Call
          BY <1>1, <3>1 DEF CallTypes
        <4>2. QED
          BY <4>1 DEF Call, Identities, Tombstones
      <3>3. QED
        BY <1>1, <2>2, <3>1, <3>2 DEF CallTypes
    <2>3. QED
      BY <1>2, <2>1, <2>2
  <1>7. OriginTypes' /\ CancelTypes' /\ Unused' /\ NewestSurvives'
    BY <1>1, <1>3 DEF OriginTypes, CancelTypes, CancelVars, RemoteInv, Unused, NewestSurvives
  <1>8. CallTypes' /\ ExecutorTypes'
    BY <1>1, <1>3, <1>5, <1>6 DEF CallTypes, ExecutorTypes, Identities, Tombstones, Processes
  <1>9. CountTypes'
    BY <1>1, <1>3, <1>4, RemoteAssumption DEF CountTypes, CancelVars, RemoteAssumption
  <1>10. ASSUME NEW u \in RemoteTasks \ {t} PROVE FactsOf(u)'
    <2>1. SameExecutor(u)
      BY <1>1, <1>3, <1>5 DEF SameExecutor, CancelVars, ExecutorTypes
    <2>2. OriginStep(u)
      BY <1>3, <1>6, <2>1 DEF OriginStep, StaysUnsent
    <2>3. QED
      BY <2>2, OriginFacts DEF RemoteInv
  <1>11. FactsOf(t)'
    <2>1. FactsOf(t) /\ submission[t] \notin Unsent
      BY <1>2 DEF RemoteInv, FactsOf, SilentOf
    <2>2. \/ identity'[t] = identity[t] /\ process'[t] = process[t]
          \/ /\ identity[t] = "none"
             /\ \/ identity'[t] = "accepted" /\ process'[t] = "queued"
                \/ identity'[t] \in Tombstones /\ process'[t] = process[t]
      BY <1>1, <1>2, <1>5 DEF ExecutorTypes
    <2>3. \A c \in Callers : calls'[<<t, c>>].answer \in Definite =>
                calls'[<<t, c>>] = calls[<<t, c>>] \/ identity'[t] = calls'[<<t, c>>].answer
      BY <1>5, <1>6
    <2>4. /\ submission'[t] = submission[t] /\ starts'[t] = starts[t]
          /\ \A r \in Requesters : receipt'[<<r, t>>] = receipt[<<r, t>>]
                                   /\ intent'[<<r, t>>] = intent[<<r, t>>]
      BY <1>3 DEF CancelVars
    <2>5. QED
      BY <1>2, <2>1, <2>2, <2>3, <2>4, IdentityStep
  <1>12. QED
    BY <1>7, <1>8, <1>9, <1>10, <1>11, InvAfter

\* The executor or a canceller moves on with task t alone: nothing about the
\* routes, the exchanges and the other tasks changes
LEMMA OneTaskMoves ==
    ASSUME RemoteInv, NEW t \in RemoteTasks,
           UNCHANGED <<terms, submission, by, calls, wire, coalesce, recovering, gaveUp, retries>>,
           ExecutorTypes', CancelTypes', intents' \in 0 .. MaxIntents,
           \A u \in RemoteTasks \ {t} : SameExecutor(u),
           FactsOf(t)'
    PROVE  RemoteInv'
  <1>1. OriginTypes /\ CallTypes /\ CountTypes
    BY RemoteTypes DEF RemoteInv
  <1>2. OriginTypes' /\ CallTypes' /\ CountTypes' /\ Unused' /\ NewestSurvives'
    BY <1>1 DEF OriginTypes, CallTypes, CountTypes, RemoteInv, Unused, NewestSurvives
  <1>3. ASSUME NEW u \in RemoteTasks \ {t} PROVE FactsOf(u)'
    <2>1. OriginStep(u)
      BY DEF OriginStep, StaysUnsent
    <2>2. QED
      BY <2>1, OriginFacts DEF RemoteInv
  <1>4. QED
    BY <1>2, <1>3, InvAfter

\* A row moves on and its identity stays; an end or a stop stays one
RowMoves(t) ==
    /\ process[t] # "none" /\ process'[t] \in {"running", "stopping"} \cup Through
    /\ process[t] \in Through \cup {"stopping"} => process'[t] \in Through \cup {"stopping"}
    /\ starts[t] \in Nat
    /\ \/ starts'[t] = starts[t]
       \/ process[t] = "queued" /\ process'[t] = "running" /\ starts'[t] = starts[t] + 1
    /\ identity'[t] = identity[t] /\ submission'[t] = submission[t]
    /\ calls' = calls /\ intent' = intent
    /\ \A r \in Requesters :
          \/ receipt'[<<r, t>>] = receipt[<<r, t>>]
          \/ /\ receipt[<<r, t>>] = "pending"
             /\ receipt'[<<r, t>>] \in {"applied", "terminal"}
             /\ process'[t] \in Through \cup {"stopping"}

LEMMA RowStep ==
    ASSUME NEW t \in RemoteTasks, FactsOf(t), RowMoves(t)
    PROVE  FactsOf(t)'
  <1>1. RowOf(t) /\ identity[t] = "accepted"
    BY DEF FactsOf, RowOf, RowMoves
  <1>2. RowOf(t)'
    BY <1>1 DEF RowOf, Through, RowMoves
  <1>3. SilentOf(t)'
    BY <1>1 DEF FactsOf, SilentOf, RowMoves
  <1>4. TruthOf(t)'
    BY DEF FactsOf, TruthOf, RowMoves
  <1>5. ASSUME NEW r \in Requesters PROVE ReceiptOf(r, t)'
    BY <1>1 DEF FactsOf, ReceiptOf, Tombstones, RowMoves
  <1>6. QED
    BY <1>2, <1>3, <1>4, <1>5 DEF FactsOf

LEMMA KeepsByWorker ==
    ASSUME RemoteInv, NEW t \in RemoteTasks, StartWorker(t) \/ EndWorker(t)
    PROVE  RemoteInv'
  <1>1. OriginTypes /\ CallTypes /\ ExecutorTypes /\ CancelTypes /\ CountTypes
    BY RemoteTypes DEF RemoteInv
  <1>2. /\ UNCHANGED <<terms, submission, by, calls, wire, coalesce, recovering, identity, receipt,
                        intent, intents, gaveUp, retries>>
        /\ \/ /\ process[t] = "queued" /\ process' = [process EXCEPT ![t] = "running"]
              /\ starts' = [starts EXCEPT ![t] = @ + 1]
           \/ /\ process[t] = "running" /\ process' = [process EXCEPT ![t] = "ended"]
              /\ starts' = starts
           \/ /\ process[t] = "stopping" /\ process' = [process EXCEPT ![t] = "cancelled"]
              /\ starts' = starts
    BY DEF StartWorker, EndWorker, CancelVars
  <1>3. /\ ExecutorTypes' /\ CancelTypes' /\ intents' \in 0 .. MaxIntents
        /\ \A u \in RemoteTasks \ {t} : SameExecutor(u)
    BY <1>1, <1>2 DEF ExecutorTypes, CancelTypes, CountTypes, SameExecutor, Processes, Through
  <1>4. /\ process[t] # "none" /\ process'[t] \in {"running", "stopping"} \cup Through
        /\ process[t] \in Through \cup {"stopping"} => process'[t] \in Through \cup {"stopping"}
        /\ \/ starts'[t] = starts[t]
           \/ process[t] = "queued" /\ process'[t] = "running" /\ starts'[t] = starts[t] + 1
        /\ starts[t] \in Nat
    BY <1>1, <1>2 DEF ExecutorTypes, Through
  <1>5. FactsOf(t)'
    <2>1. FactsOf(t)
      BY DEF RemoteInv
    <2>2. /\ identity'[t] = identity[t] /\ submission'[t] = submission[t]
          /\ calls' = calls /\ intent' = intent
          /\ \A r \in Requesters : receipt'[<<r, t>>] = receipt[<<r, t>>]
      BY <1>2
    <2>3. QED
      BY <1>4, <2>1, <2>2, RowStep DEF RowMoves
  <1>6. QED
    BY <1>2, <1>3, <1>5, OneTaskMoves

LEMMA KeepsByCancel ==
    ASSUME RemoteInv, NEW r \in Requesters, NEW t \in RemoteTasks, cancel(r, t)
    PROVE  RemoteInv'
  <1>1. OriginTypes /\ CallTypes /\ ExecutorTypes /\ CancelTypes /\ CountTypes
    BY RemoteTypes DEF RemoteInv
  <1>2. /\ UNCHANGED <<terms, calls, wire, coalesce, recovering, identity, process, starts, receipt,
                        gaveUp, retries>>
        /\ intents < MaxIntents /\ intents' = intents + 1 /\ intent[<<r, t>>] = "none"
    BY DEF cancel, ExecutorVars
  <1>3. CallTypes' /\ ExecutorTypes'
    BY <1>1, <1>2 DEF CallTypes, ExecutorTypes
  <1>4. CountTypes' /\ intents' \in 0 .. MaxIntents
    BY <1>1, <1>2, RemoteAssumption DEF CountTypes, RemoteAssumption
  <1>5. CASE cancel_origin_route(t, 0) /\ intent' = intent
    <2>1. OriginTypes' /\ Unused' /\ CancelTypes'
      BY <1>1, <1>2, <1>5 DEF cancel_origin_route, OriginTypes, CancelTypes, Submissions,
                              RemoteInv, Unused
    <2>2. NewestSurvives'
      BY <1>1, <1>5 DEF cancel_origin_route, OriginTypes, RemoteInv, NewestSurvives
    <2>3. \A u \in RemoteTasks : SameExecutor(u)
      BY <1>2, <1>5 DEF SameExecutor
    <2>4. \A u \in RemoteTasks : OriginStep(u)
      BY <1>1, <1>2, <1>5, <2>3, HeldCancel
    <2>5. \A u \in RemoteTasks : FactsOf(u)'
      BY <2>4, OriginFacts DEF RemoteInv
    <2>6. QED
      BY <1>3, <1>4, <2>1, <2>2, <2>5, InvAfter
  <1>6. CASE from_route(t) /\ SavesIntent(r, t)
    <2>1. /\ submission[t] \in {"unknown", "launching", "accepted"}
          /\ intent' = [intent EXCEPT ![<<r, t>>] = "saved"]
          /\ submission' = submission /\ by' = by
      BY <1>6 DEF from_route, SavesIntent
    <2>2. CancelTypes' /\ \A u \in RemoteTasks \ {t} : SameExecutor(u)
      BY <1>1, <1>2, <2>1 DEF CancelTypes, Intents, SameExecutor
    <2>3. FactsOf(t)
      BY DEF RemoteInv
    <2>4. \A q \in Requesters : intent'[<<q, t>>] \in {intent[<<q, t>>], "saved"}
      BY <1>1, <2>1 DEF CancelTypes
    <2>5. RowOf(t)' /\ TruthOf(t)' /\ SilentOf(t)'
      BY <1>2, <2>1, <2>3 DEF FactsOf, RowOf, TruthOf, SilentOf, Unsent
    <2>6. ASSUME NEW q \in Requesters PROVE ReceiptOf(q, t)'
      BY <1>2, <2>3, <2>4 DEF FactsOf, ReceiptOf
    <2>7. FactsOf(t)'
      BY <2>5, <2>6 DEF FactsOf
    <2>8. QED
      BY <1>2, <1>3, <1>4, <2>1, <2>2, <2>7, OneTaskMoves
  <1>7. QED
    BY <1>5, <1>6 DEF cancel

LEMMA KeepsByDeliverCancel ==
    ASSUME RemoteInv, NEW r \in Requesters, NEW t \in RemoteTasks, deliver_cancel(r, t)
    PROVE  RemoteInv'
  <1>1. OriginTypes /\ CallTypes /\ ExecutorTypes /\ CancelTypes /\ CountTypes
    BY RemoteTypes DEF RemoteInv
  <1> DEFINE answer ==
          CASE identity[t] \in {"none", "cancelled"}                -> "prevented"
            [] identity[t] = "accepted" /\ process[t] \in Through    -> "terminal"
            [] identity[t] = "accepted" /\ process[t] \notin Through -> "pending"
            [] OTHER                                                -> "rejected"
  <1>2. /\ UNCHANGED <<terms, submission, by, calls, wire, coalesce, recovering, process, starts,
                        intent, intents, gaveUp, retries>>
        /\ intent[<<r, t>>] = "saved" /\ receipt[<<r, t>>] = "none"
        /\ receipt' = [receipt EXCEPT ![<<r, t>>] = answer]
        /\ identity' = [identity EXCEPT ![t] = IF identity[t] = "none" THEN "cancelled" ELSE identity[t]]
    BY DEF deliver_cancel, receive_cancellation
  <1>3. identity[t] \in Identities
    BY <1>1 DEF ExecutorTypes
  <1>4. /\ answer \in Receipts
        /\ answer \in {"prevented", "rejected"} => identity[t] \in Tombstones \cup {"none"}
        /\ answer = "pending" => identity[t] = "accepted"
        /\ answer = "terminal" => process[t] \in Through
        /\ answer # "applied"
    BY <1>3 DEF Receipts, Identities, Tombstones
  <1> HIDE DEF answer
  <1>5. /\ identity'[t] = IF identity[t] = "none" THEN "cancelled" ELSE identity[t]
        /\ receipt'[<<r, t>>] = answer
        /\ \A q \in Requesters \ {r} : receipt'[<<q, t>>] = receipt[<<q, t>>]
    BY <1>1, <1>2 DEF ExecutorTypes, CancelTypes
  <1>6. /\ ExecutorTypes' /\ CancelTypes' /\ intents' \in 0 .. MaxIntents
        /\ \A u \in RemoteTasks \ {t} : SameExecutor(u)
    BY <1>1, <1>2, <1>4 DEF ExecutorTypes, CancelTypes, CountTypes, SameExecutor,
                            Identities, Tombstones
  <1>7. FactsOf(t) /\ submission[t] \notin Unsent
    BY <1>2 DEF RemoteInv, FactsOf, SilentOf
  <1>8. RowOf(t)' /\ SilentOf(t)'
    BY <1>2, <1>5, <1>7 DEF FactsOf, RowOf, SilentOf
  <1>9. TruthOf(t)'
    BY <1>2, <1>5, <1>7 DEF FactsOf, TruthOf, Definite, Tombstones
  <1>10. ASSUME NEW q \in Requesters PROVE ReceiptOf(q, t)'
    <2>1. CASE q = r
      BY <1>2, <1>4, <1>5, <1>7, <2>1 DEF FactsOf, ReceiptOf, Tombstones
    <2>2. CASE q # r
      BY <1>2, <1>5, <1>7, <2>2 DEF FactsOf, ReceiptOf, Tombstones
    <2>3. QED
      BY <2>1, <2>2
  <1>11. QED
    BY <1>2, <1>6, <1>8, <1>9, <1>10, OneTaskMoves DEF FactsOf

LEMMA KeepsByApplyExecutor ==
    ASSUME RemoteInv, NEW r \in Requesters, NEW t \in RemoteTasks, apply_executor(r, t)
    PROVE  RemoteInv'
  <1>1. OriginTypes /\ CallTypes /\ ExecutorTypes /\ CancelTypes /\ CountTypes
    BY RemoteTypes DEF RemoteInv
  <1> DEFINE told == IF process[t] \in Through THEN "terminal" ELSE "applied"
             next == CASE process[t] = "queued" -> "cancelled"
                       [] process[t] = "running" -> "stopping" [] OTHER -> process[t]
  <1>2. /\ UNCHANGED <<terms, submission, by, calls, wire, coalesce, recovering, identity, starts,
                        intent, intents, gaveUp, retries>>
        /\ receipt[<<r, t>>] = "pending"
        /\ receipt' = [receipt EXCEPT ![<<r, t>>] = told]
        /\ process' = [process EXCEPT ![t] = next]
    BY DEF apply_executor, pending_executor_cancellations, CancelVars
  <1>3. FactsOf(t) /\ process[t] # "none" /\ process[t] \in Processes
    BY <1>1, <1>2 DEF RemoteInv, FactsOf, RowOf, ReceiptOf, ExecutorTypes
  <1>4. told \in {"applied", "terminal"} /\ next \in Through \cup {"stopping"}
    BY <1>3 DEF Processes, Through
  <1> HIDE DEF told, next
  <1>5. /\ ExecutorTypes' /\ CancelTypes' /\ intents' \in 0 .. MaxIntents
        /\ \A u \in RemoteTasks \ {t} : SameExecutor(u)
    BY <1>1, <1>2, <1>4 DEF ExecutorTypes, CancelTypes, CountTypes, SameExecutor,
                            Processes, Through, Receipts
  <1>6. /\ process'[t] = next /\ receipt'[<<r, t>>] = told /\ starts[t] \in Nat
        /\ \A q \in Requesters \ {r} : receipt'[<<q, t>>] = receipt[<<q, t>>]
    BY <1>1, <1>2 DEF ExecutorTypes, CancelTypes
  <1>7. FactsOf(t)'
    <2>1. /\ identity'[t] = identity[t] /\ submission'[t] = submission[t]
          /\ calls' = calls /\ intent' = intent /\ starts'[t] = starts[t]
      BY <1>2
    <2>2. process'[t] \in Through \cup {"stopping"}
      BY <1>4, <1>6
    <2>3. \A q \in Requesters :
              \/ receipt'[<<q, t>>] = receipt[<<q, t>>]
              \/ /\ receipt[<<q, t>>] = "pending"
                 /\ receipt'[<<q, t>>] \in {"applied", "terminal"}
                 /\ process'[t] \in Through \cup {"stopping"}
      BY <1>2, <1>4, <1>6, <2>2
    <2>4. QED
      BY <1>3, <1>6, <2>1, <2>2, <2>3, RowStep DEF RowMoves
  <1>8. QED
    BY <1>2, <1>5, <1>7, OneTaskMoves

LEMMA KeepsByAcknowledge ==
    ASSUME RemoteInv, NEW r \in Requesters, NEW t \in RemoteTasks, acknowledge_cancellation(r, t)
    PROVE  RemoteInv'
  <1>1. OriginTypes /\ CallTypes /\ ExecutorTypes /\ CancelTypes /\ CountTypes
    BY RemoteTypes DEF RemoteInv
  <1>2. /\ UNCHANGED <<terms, submission, by, calls, wire, coalesce, recovering, identity, process,
                        starts, receipt, intents, gaveUp, retries>>
        /\ intent[<<r, t>>] = "saved"
        /\ intent' = [intent EXCEPT ![<<r, t>>] = receipt[<<r, t>>]]
    BY DEF acknowledge_cancellation, ExecutorVars
  <1>3. /\ ExecutorTypes' /\ CancelTypes' /\ intents' \in 0 .. MaxIntents
        /\ \A u \in RemoteTasks \ {t} : SameExecutor(u)
    BY <1>1, <1>2 DEF ExecutorTypes, CancelTypes, CountTypes, SameExecutor, Intents
  <1>4. FactsOf(t) /\ submission[t] \notin Unsent
    BY <1>2 DEF RemoteInv, FactsOf, SilentOf
  <1>5. /\ intent'[<<r, t>>] = receipt[<<r, t>>]
        /\ \A q \in Requesters \ {r} : intent'[<<q, t>>] = intent[<<q, t>>]
    BY <1>1, <1>2 DEF CancelTypes
  <1>6. RowOf(t)' /\ SilentOf(t)' /\ TruthOf(t)'
    BY <1>2, <1>4 DEF FactsOf, RowOf, SilentOf, TruthOf
  <1>7. ASSUME NEW q \in Requesters PROVE ReceiptOf(q, t)'
    BY <1>2, <1>4, <1>5 DEF FactsOf, ReceiptOf
  <1>8. QED
    BY <1>2, <1>3, <1>6, <1>7, OneTaskMoves DEF FactsOf

-----------------------------------------------------------------------------
(* The theorems *)

LEMMA RemoteStart == RemoteInit => RemoteInv
  <1> SUFFICES ASSUME RemoteInit PROVE RemoteInv
    OBVIOUS
  <1>1. OriginTypes /\ ExecutorTypes /\ CancelTypes /\ CountTypes
    BY RemoteAssumption DEF RemoteInit, OriginTypes, ExecutorTypes, CancelTypes, CountTypes,
        Submissions, Identities, Processes, Intents, Receipts, RemoteAssumption
  <1>2. CallTypes
    BY DEF RemoteInit, CallTypes, Call, NoRequest
  <1>3. Unused /\ NewestSurvives
    BY DEF RemoteInit, Unused, NewestSurvives
  <1>4. ASSUME NEW t \in RemoteTasks PROVE FactsOf(t)
    <2>1. RowOf(t) /\ SilentOf(t)
      BY DEF RemoteInit, RowOf, SilentOf
    <2>2. TruthOf(t)
      BY DEF RemoteInit, TruthOf, NoRequest, Definite, Tombstones
    <2>3. \A r \in Requesters : ReceiptOf(r, t)
      BY DEF RemoteInit, ReceiptOf
    <2>4. QED
      BY <2>1, <2>2, <2>3 DEF FactsOf
  <1>5. QED
    BY <1>1, <1>2, <1>3, <1>4, RemoteTypes DEF RemoteInv

LEMMA RemoteStep == RemoteInv /\ [RemoteNext]_remoteVars => RemoteInv'
  <1> SUFFICES ASSUME RemoteInv, [RemoteNext]_remoteVars PROVE RemoteInv'
    OBVIOUS
  <1>1. CASE RemoteNext
    BY <1>1, KeepsBySubmit, KeepsByFinishSaved, KeepsByTrySupersede, KeepsByRelease,
       KeepsByRecover, KeepsByAcceptHeldLaunch, KeepsByWorker, KeepsByAnswered, KeepsByGiveUp,
       KeepsByRestart, KeepsByArrive, KeepsByCancel, KeepsByDeliverCancel,
       KeepsByApplyExecutor, KeepsByAcknowledge DEF RemoteNext
  <1>2. CASE UNCHANGED remoteVars
    <2>1. \A u \in RemoteTasks : OriginStep(u)
      BY <1>2 DEF remoteVars, OriginStep, SameExecutor, StaysUnsent
    <2>2. \A u \in RemoteTasks : FactsOf(u)'
      BY <2>1, OriginFacts DEF RemoteInv
    <2>3. /\ OriginTypes' /\ CallTypes' /\ ExecutorTypes' /\ CancelTypes' /\ CountTypes'
          /\ Unused' /\ NewestSurvives'
      BY <1>2, RemoteTypes DEF remoteVars, RemoteInv, OriginTypes, CallTypes, ExecutorTypes,
                               CancelTypes, CountTypes, Unused, NewestSurvives
    <2>4. QED
      BY <2>2, <2>3, InvAfter
  <1>3. QED
    BY <1>1, <1>2

\* The inductive invariant holds in every reachable state, for any set of task
\* ids and any bounds on retries, cancels, lost calls and restarts.
THEOREM RemoteInvariance == RemoteSpec => []RemoteInv
  BY RemoteStart, RemoteStep, PTL DEF RemoteSpec

\* What the origin's route says and what the executor did agree: a rejected,
\* superseded or cancelled route never starts a worker, an accepted one is
\* known to the executor, no retry starts a second worker, and the newest of
\* the submits that share a coalesce key survives (remote submit, held release
\* and recovery against the executor's identities).
THEOREM RoutesAgreeCorrect == RemoteSpec => []RoutesAgree
  <1>1. RemoteInv => RoutesAgree
    <2> SUFFICES ASSUME RemoteInv PROVE RoutesAgree
      OBVIOUS
    <2>1. ASSUME NEW t \in RemoteTasks
          PROVE  /\ submission[t] \in Tombstones \cup {"held cancelled"} => process[t] = "none"
                 /\ submission[t] = "accepted" => identity[t] = "accepted"
                 /\ starts[t] <= 1
      BY DEF RemoteInv, FactsOf, RowOf, SilentOf, TruthOf, Unsent, Definite, Tombstones
    <2>2. QED
      BY <2>1 DEF RoutesAgree, RouteAgrees, RemoteInv
  <1>2. QED
    BY <1>1, RemoteInvariance, PTL

\* A requester that was told that its cancel took effect is right: the task
\* never starts, is stopping or has ended (the receipts of executor_cancellations).
THEOREM CancelTakesEffectCorrect == RemoteSpec => []CancelTakesEffect
  <1>1. RemoteInv => CancelTakesEffect
    <2> SUFFICES ASSUME RemoteInv, NEW r \in Requesters, NEW t \in RemoteTasks
                 PROVE  /\ intent[<<r, t>>] \in {"prevented", "rejected"} => process[t] = "none"
                        /\ intent[<<r, t>>] \in {"applied", "terminal"} =>
                               process[t] \in Through \cup {"stopping"}
      BY DEF CancelTakesEffect
    <2>1. QED
      BY DEF RemoteInv, FactsOf, RowOf, ReceiptOf, Tombstones
  <1>2. QED
    BY <1>1, RemoteInvariance, PTL

-----------------------------------------------------------------------------
(* TaskChains, for any number of tasks, runs in a chain, cancels and faults  *)

Launch == [task : Tasks, released : BOOLEAN, live : BOOLEAN]
BodyRow == [after : SUBSET Tasks, rule : {"succeeded", "ended"}, resume : 0 .. MaxTasks,
            request : 0 .. MaxTasks]
RouteStatus == {"none", "held", "accepted", "cancelled", "rejected"}
RowStatus == {"none"} \cup Live \cup Ended
EndingKinds == {"none", "waiting"} \cup Ended
Outcomes == {"none"} \cup Ended
ChainRow == [state : {"none", "running", "waiting", "ended"}, current : 0 .. MaxTasks,
             on : SUBSET Tasks, next : 0 .. MaxTasks, runs : 0 .. MaxRuns, outcome : Outcomes]
CancelRecord == [phase : {"none", "chain", "held", "row", "again"}, task : 0 .. MaxTasks,
                 current : 0 .. MaxTasks, chained : BOOLEAN, tries : Nat]

\* TaskTypeOK, with the mailbox as a sequence and the canceller
ChainTypes ==
    /\ body \in [Tasks -> BodyRow] /\ fresh \in 0 .. MaxTasks
    /\ route \in [Tasks -> RouteStatus] /\ row \in [Tasks -> RowStatus]
    /\ stopping \subseteq Tasks /\ report \in [Tasks -> SUBSET Tasks]
    /\ thread \in [Tasks -> 0 .. MaxTasks]
    /\ ending \in [Tasks -> EndingKinds] /\ outcome \in [Tasks -> Outcomes]
    /\ chainOf \in [Tasks -> 0 .. MaxTasks] /\ chain \in [Tasks -> ChainRow]
    /\ mailbox \in Seq(Launch) /\ launching \in 0 .. MaxTasks
    /\ canceller \in CancelRecord /\ answered \subseteq [task : 0 .. MaxTasks, chained : BOOLEAN]
    /\ cancels \in 0 .. MaxCancels /\ taskFaults \in 0 .. MaxTaskFaults

\* An id that was not given out is nowhere
Ids ==
    /\ \A t \in Tasks : t > fresh => /\ body[t] = NoBody /\ route[t] = "none" /\ row[t] = "none"
                                     /\ outcome[t] = "none" /\ ending[t] = "none"
                                     /\ chainOf[t] = 0 /\ chain[t].state = "none"
    /\ \A t \in Tasks : /\ body[t].after \subseteq 1 .. fresh /\ report[t] \subseteq 1 .. fresh
                        /\ body[t].request <= fresh
                        /\ t <= fresh => body[t].request # 0
    /\ \A i \in 1 .. Len(mailbox) : mailbox[i].task <= fresh

\* A row is the launch of a route, and a request has one route
Routes ==
    /\ \A t \in Tasks : (row[t] # "none") = (route[t] = "accepted")
    /\ \A t, u \in Tasks :
          route[t] # "none" /\ route[u] # "none" /\ body[t].request = body[u].request => t = u
    /\ \A t \in stopping : row[t] = "running"

\* What is known of the end of a run, and a waiting report
Endings ==
    \A t \in Tasks :
        /\ ending[t] # "none" => row[t] \in Ended
        /\ ending[t] = "waiting" => chainOf[t] # 0
        /\ outcome[t] # "none" => row[t] \in Ended \/ route[t] \in {"cancelled", "rejected"}
        /\ row[t] \in Ended /\ ending[t] = "none" => outcome[t] # "none" \/ chainOf[t] # 0
        /\ report[t] # {} => /\ row[t] = "running" /\ MaxRuns > 1
                             /\ chainOf[t] # 0 => chain[chainOf[t]].runs < MaxRuns

\* A chain is at one of its runs: the live one, or the held one
ChainsFit ==
    /\ \A c \in Tasks :
          /\ chain[c].state # "none" => chainOf[c] = c
          /\ chain[c].state = "running" => chain[c].current # 0 /\ chainOf[chain[c].current] = c
          /\ chain[c].state = "waiting" => /\ chain[c].next # 0 /\ chainOf[chain[c].next] = c
                                           /\ route[chain[c].next] = "held"
          /\ chain[c].state = "ended" => chain[c].outcome # "none"
    /\ \A t \in Tasks : chainOf[t] # 0 =>
          LET c == chain[chainOf[t]]
          IN  /\ c.state # "none" /\ route[t] # "none"
              /\ row[t] \in Live => c.state = "running" /\ c.current = t
              /\ route[t] = "held" => c.state = "waiting" /\ c.next = t
              /\ route[t] \in {"cancelled", "rejected"} => c.state = "ended"

\* All that a task is held after has ended, as its rule asks
Ready(t) ==
    \A d \in body[t].after :
        /\ dependency_state(d) \in Ended
        /\ chainOf[d] # 0 => chain[chainOf[d]].state = "ended"
        /\ body[t].rule = "succeeded" => dependency_state(d) = "succeeded"

Releases ==
    /\ \A t \in Tasks : row[t] # "none" => Ready(t)
    /\ \A i \in 1 .. Len(mailbox) : Ready(mailbox[i].task)

\* The run that parked a chain is one of its runs
ParkedRuns ==
    \A c \in Tasks : chain[c].state = "waiting" =>
        chain[c].current # 0 /\ chainOf[chain[c].current] = c

\* The chain is over, or its run is over or being stopped
ChainStopped(c) ==
    \/ chain[c].state = "ended"
    \/ /\ chain[c].state = "running"
       /\ chain[c].current \in stopping \/ row[chain[c].current] \in Ended

\* What `task cancel` knows when it acts, and what it did
Cancelling ==
    /\ canceller.phase # "none" => canceller.task # 0 /\ route[canceller.task] # "none"
    /\ canceller.chained => canceller.task # 0 /\ chainOf[canceller.task] # 0
    /\ canceller.phase \in {"held", "row", "again"} =>
          /\ canceller.current # 0 /\ route[canceller.current] # "none"
          /\ canceller.chained => chainOf[canceller.current] = chainOf[canceller.task]
    /\ canceller.phase = "row" => route[canceller.current] \in {"accepted", "rejected"}
    /\ canceller.phase = "again" => row[canceller.current] \in Ended
    /\ \A a \in answered : a.chained =>
          a.task # 0 /\ chainOf[a.task] # 0 /\ ChainStopped(chainOf[a.task])

ChainInv ==
    /\ ChainTypes /\ Ids /\ Routes /\ Endings /\ ChainsFit
    /\ Releases /\ ParkedRuns /\ OneResumerPerThread /\ Cancelling

-----------------------------------------------------------------------------
(* What a step leaves *)

LEMMA TaskFacts ==
    /\ MaxTasks \in Nat /\ 1 \in Tasks /\ 0 \notin Tasks
    /\ \A t \in Tasks : t \in Nat /\ t >= 1 /\ t <= MaxTasks /\ t \in 0 .. MaxTasks
    /\ \A x \in 0 .. MaxTasks : x # 0 => x \in Tasks
    /\ \A n \in 0 .. MaxTasks : 1 .. n \subseteq Tasks
  BY ChainAssumption DEF Tasks

LEMMA FreshType ==
    ASSUME ChainTypes
    PROVE  fresh \in Nat /\ 1 .. fresh \subseteq Tasks /\ fresh \in 0 .. MaxTasks
  BY TaskFacts DEF ChainTypes

LEMMA KnownId ==
    ASSUME ChainTypes, Ids, NEW t \in Tasks, route[t] # "none" \/ row[t] # "none" \/ chainOf[t] # 0
    PROVE  t \in 1 .. fresh
<1>1. fresh \in Nat /\ t \in Nat /\ t >= 1
  BY FreshType, TaskFacts
<1>2. ~(t > fresh)
  BY DEF Ids
<1> QED BY <1>1, <1>2

LEMMA StatusFacts ==
    /\ \A x \in Ended : x \notin Live /\ x # "none" /\ x # "waiting" /\ x # "pending" /\ x # "unknown"
    /\ \A x \in Live : x \notin Ended /\ x # "none" /\ x \in {"queued", "running"}
    /\ "none" \notin Ended /\ "none" \notin Live /\ "running" \in Live /\ "queued" \in Live
    /\ RowStatus = {"none"} \cup Live \cup Ended
  BY DEF Live, Ended, RowStatus

\* What a dependency ended with is not changed
DepsKept ==
    \A d \in 1 .. fresh :
        /\ chainOf[d] # 0 \/ outcome[d] # "none" => chainOf'[d] = chainOf[d]
        /\ outcome[d] # "none" => outcome'[d] = outcome[d]
        /\ chainOf[d] # 0 /\ chain[chainOf[d]].state = "ended"
              => chain'[chainOf[d]] = chain[chainOf[d]]

LEMMA DependencyStays ==
    ASSUME ChainTypes, DepsKept, NEW d \in 1 .. fresh, dependency_state(d) \in Ended,
           chainOf[d] # 0 => chain[chainOf[d]].state = "ended"
    PROVE  /\ dependency_state(d)' = dependency_state(d)
           /\ chainOf'[d] # 0 => chain'[chainOf'[d]].state = "ended"
<1>0. d \in Tasks
  BY TaskFacts DEF ChainTypes
<1>1. CASE chainOf[d] # 0
  <2>1. chainOf'[d] = chainOf[d] /\ chain'[chainOf[d]] = chain[chainOf[d]]
    BY <1>1 DEF DepsKept
  <2> QED BY <1>1, <2>1 DEF dependency_state
<1>2. CASE chainOf[d] = 0
  <2>1. outcome[d] # "none"
    BY <1>2, StatusFacts DEF dependency_state
  <2>2. chainOf'[d] = chainOf[d] /\ outcome'[d] = outcome[d]
    BY <2>1 DEF DepsKept
  <2> QED BY <1>2, <2>1, <2>2 DEF dependency_state
<1> QED BY <1>1, <1>2

LEMMA ReadyStays ==
    ASSUME ChainTypes, DepsKept, NEW t \in Tasks, body[t].after \subseteq 1 .. fresh,
           body'[t].after = body[t].after, body'[t].rule = body[t].rule, Ready(t)
    PROVE  Ready(t)'
<1> SUFFICES ASSUME NEW d \in body[t].after
             PROVE  /\ dependency_state(d)' \in Ended
                    /\ chainOf'[d] # 0 => chain'[chainOf'[d]].state = "ended"
                    /\ body'[t].rule = "succeeded" => dependency_state(d)' = "succeeded"
  BY DEF Ready, Ended
<1>1. /\ dependency_state(d) \in Ended
      /\ chainOf[d] # 0 => chain[chainOf[d]].state = "ended"
      /\ body[t].rule = "succeeded" => dependency_state(d) = "succeeded"
  BY DEF Ready
<1>2. /\ dependency_state(d)' = dependency_state(d)
      /\ chainOf'[d] # 0 => chain'[chainOf'[d]].state = "ended"
  BY <1>1, DependencyStays
<1> QED BY <1>1, <1>2

LEMMA ReleasesStay ==
    ASSUME ChainTypes, Ids, Releases, DepsKept,
           \A t \in Tasks : row'[t] # "none" => row[t] # "none" \/ Ready(t),
           \A t \in 1 .. fresh : body'[t] = body[t],
           \A t \in Tasks : row'[t] # "none" => t \in 1 .. fresh,
           \A i \in 1 .. Len(mailbox') : mailbox'[i].task \in 1 .. fresh /\ Ready(mailbox'[i].task)
    PROVE  Releases'
<1>0. 1 .. fresh \subseteq Tasks
  BY TaskFacts DEF ChainTypes
<1>1. ASSUME NEW t \in 1 .. fresh, Ready(t) PROVE Ready(t)'
  <2>1. t \in Tasks /\ body[t].after \subseteq 1 .. fresh /\ body'[t] = body[t]
    BY <1>0 DEF Ids
  <2> QED BY <1>1, <2>1, ReadyStays
<1>2. ASSUME NEW t \in Tasks, row'[t] # "none" PROVE Ready(t)'
  <2>1. Ready(t)
    BY <1>2 DEF Releases
  <2> QED BY <1>1, <1>2, <2>1
<1>3. ASSUME NEW i \in 1 .. Len(mailbox') PROVE Ready(mailbox[i].task)'
  <2>1. PICK t \in 1 .. fresh : t = mailbox'[i].task
    OBVIOUS
  <2>2. Ready(t)'
    BY <1>1, <2>1
  <2> QED BY <2>1, <2>2 DEF Ready
<1> QED BY <1>2, <1>3 DEF Releases

\* What is known of a task stays so
Monotone ==
    \A t \in Tasks :
        /\ route[t] # "none" => route'[t] # "none"
        /\ route[t] \in {"accepted", "rejected"} => route'[t] = route[t]
        /\ row[t] \in Ended => row'[t] \in Ended
        /\ chainOf[t] # 0 => chainOf'[t] = chainOf[t]

StopsStay == \A c \in Tasks : ChainStopped(c) => ChainStopped(c)'

LEMMA AnsweredStay ==
    ASSUME ChainTypes, Cancelling, Monotone, StopsStay
    PROVE  \A a \in answered : a.chained =>
               a.task # 0 /\ chainOf'[a.task] # 0 /\ ChainStopped(chainOf[a.task])'
<1> SUFFICES ASSUME NEW a \in answered, a.chained
             PROVE  a.task # 0 /\ chainOf'[a.task] # 0 /\ ChainStopped(chainOf[a.task])'
  OBVIOUS
<1>1. a.task # 0 /\ chainOf[a.task] # 0 /\ ChainStopped(chainOf[a.task])
  BY DEF Cancelling
<1>2. a.task \in Tasks
  <2>1. a.task \in 0 .. MaxTasks
    BY DEF ChainTypes
  <2> QED BY <1>1, <2>1, TaskFacts
<1>3. chainOf[a.task] \in Tasks /\ chainOf'[a.task] = chainOf[a.task]
  BY <1>1, <1>2, TaskFacts DEF ChainTypes, Monotone
<1>4. ChainStopped(chainOf[a.task])'
  <2>1. PICK c \in Tasks : c = chainOf[a.task] /\ c = chainOf'[a.task]
    BY <1>3
  <2>2. ChainStopped(c)'
    BY <1>1, <2>1 DEF StopsStay
  <2> QED BY <2>1, <2>2 DEF ChainStopped
<1> QED BY <1>1, <1>3, <1>4

LEMMA CancellingStays ==
    ASSUME ChainTypes, Cancelling, Monotone, StopsStay, answered' = answered,
           canceller' = canceller \/ canceller' = NoCancel
    PROVE  Cancelling'
<1>1. \A a \in answered' : a.chained =>
          a.task # 0 /\ chainOf'[a.task] # 0 /\ ChainStopped(chainOf[a.task])'
  BY AnsweredStay
<1>2. CASE canceller' = NoCancel
  <2>1. canceller'.phase = "none" /\ ~canceller'.chained
    BY <1>2 DEF NoCancel
  <2> QED BY <1>1, <2>1 DEF Cancelling, ChainStopped
<1>3. CASE canceller' = canceller
  <2>1. canceller.task \in 0 .. MaxTasks /\ canceller.current \in 0 .. MaxTasks
    BY DEF ChainTypes, CancelRecord
  <2>2. /\ canceller.phase # "none" => canceller.task # 0 /\ route'[canceller.task] # "none"
        /\ canceller.chained => canceller.task # 0 /\ chainOf'[canceller.task] # 0
    BY <2>1, TaskFacts DEF Cancelling, Monotone
  <2>3. canceller.phase \in {"held", "row", "again"} =>
          /\ canceller.current # 0 /\ route'[canceller.current] # "none"
          /\ canceller.chained => chainOf'[canceller.current] = chainOf'[canceller.task]
    BY <2>1, TaskFacts DEF Cancelling, Monotone
  <2>4. /\ canceller.phase = "row" => route'[canceller.current] \in {"accepted", "rejected"}
        /\ canceller.phase = "again" => row'[canceller.current] \in Ended
    BY <2>1, TaskFacts DEF Cancelling, Monotone
  <2> QED BY <1>1, <1>3, <2>2, <2>3, <2>4 DEF Cancelling, ChainStopped, Ended
<1> QED BY <1>2, <1>3

-----------------------------------------------------------------------------
(* Rows, reports and launches move; routes, outcomes and chains stay *)

RowsStep ==
    \A t \in Tasks :
        \/ row'[t] = row[t] /\ ending'[t] = ending[t]
        \/ row[t] \in Live /\ row'[t] = "running" /\ ending'[t] = ending[t]
        \/ row[t] \in Live /\ row'[t] \in Ended /\ ending'[t] \in Ended

LEMMA RowsMove ==
    ASSUME ChainInv, ChainTypes', RowsStep,
           UNCHANGED <<body, fresh, route, outcome, chainOf, chain>>,
           \A t \in stopping' : row'[t] = "running",
           \A t \in Tasks : /\ report'[t] \subseteq 1 .. fresh
                            /\ report'[t] # {} => /\ row'[t] = "running" /\ MaxRuns > 1
                                                  /\ chainOf[t] # 0 => chain[chainOf[t]].runs < MaxRuns,
           \A i \in 1 .. Len(mailbox') : mailbox'[i].task \in 1 .. fresh /\ Ready(mailbox'[i].task),
           Cancelling'
    PROVE  ChainInv'
<1>0. /\ ChainTypes /\ Ids /\ Routes /\ Endings /\ ChainsFit /\ Releases /\ ParkedRuns
      /\ OneResumerPerThread
  BY DEF ChainInv
<1>1. ASSUME NEW t \in Tasks
      PROVE  /\ (row'[t] # "none") = (row[t] # "none")
             /\ row'[t] \in Live => row[t] \in Live
             /\ row[t] \in Ended => row'[t] \in Ended
             /\ ending'[t] # "none" => row'[t] \in Ended
             /\ ending'[t] = "waiting" => chainOf[t] # 0
             /\ row'[t] \in Ended /\ ending'[t] = "none" => outcome[t] # "none" \/ chainOf[t] # 0
  BY <1>0, StatusFacts DEF RowsStep, Endings
<1>2. Ids'
  <2>1. fresh \in Nat
    BY <1>0, TaskFacts DEF ChainTypes
  <2>2. \A t \in Tasks : t > fresh => row'[t] = "none" /\ ending'[t] = "none"
    BY <1>0, StatusFacts DEF Ids, RowsStep
  <2>3. \A i \in 1 .. Len(mailbox') : mailbox'[i].task <= fresh
    BY <2>1
  <2> QED BY <1>0, <2>2, <2>3 DEF Ids
<1>3. Routes'
  BY <1>0, <1>1 DEF Routes
<1>4. Endings'
  <2> SUFFICES ASSUME NEW t \in Tasks
               PROVE  outcome[t] # "none" => row'[t] \in Ended \/ route[t] \in {"cancelled", "rejected"}
    BY <1>1 DEF Endings, Ended
  <2> QED BY <1>0, <1>1 DEF Endings
<1>5. ChainsFit'
  <2>1. \A t \in Tasks : chainOf[t] # 0 /\ row'[t] \in Live =>
            chain[chainOf[t]].state = "running" /\ chain[chainOf[t]].current = t
    BY <1>0, <1>1 DEF ChainsFit
  <2> QED BY <1>0, <2>1 DEF ChainsFit, Live
<1>6. Releases'
  <2>1. DepsKept
    BY DEF DepsKept
  <2>2. \A t \in Tasks : row'[t] # "none" => t \in 1 .. fresh
    <3>1. fresh \in Nat /\ \A t \in Tasks : t \in Nat /\ t >= 1
      BY <1>0, TaskFacts DEF ChainTypes
    <3>2. \A t \in Tasks : t > fresh => row'[t] = "none"
      BY <1>0, <1>1 DEF Ids
    <3> QED BY <3>1, <3>2
  <2> QED BY <1>0, <1>1, <2>1, <2>2, ReleasesStay, TaskFacts DEF ChainTypes
<1>7. ParkedRuns'
  BY <1>0 DEF ParkedRuns
<1>8. OneResumerPerThread'
  <2>1. \A t \in Tasks : row'[t] \in Live => row[t] \in Live
    BY <1>1
  <2>2. Live' = Live
    BY DEF Live
  <2> QED BY <1>0, <2>1, <2>2 DEF OneResumerPerThread
<1> QED BY <1>2, <1>3, <1>4, <1>5, <1>6, <1>7, <1>8 DEF ChainInv

LEMMA RowsKeepStops ==
    ASSUME ChainTypes, ChainsFit, RowsStep, chain' = chain,
           \A t \in stopping : t \in stopping' \/ row'[t] \in Ended
    PROVE  StopsStay
<1> SUFFICES ASSUME NEW c \in Tasks, ChainStopped(c) PROVE ChainStopped(c)'
  BY DEF StopsStay
<1>1. CASE chain[c].state = "ended"
  BY <1>1 DEF ChainStopped
<1>2. CASE chain[c].state = "running"
  <2>1. chain[c].current \in Tasks
    <3>1. chain[c].current \in 0 .. MaxTasks /\ chain[c].current # 0
      BY <1>2 DEF ChainTypes, ChainRow, ChainsFit
    <3> QED BY <3>1, TaskFacts
  <2>2. chain[c].current \in stopping \/ row[chain[c].current] \in Ended
    BY <1>2 DEF ChainStopped
  <2>3. row[chain[c].current] \in Ended => row'[chain[c].current] \in Ended
    BY <2>1, StatusFacts DEF RowsStep
  <2> QED BY <1>2, <2>2, <2>3 DEF ChainStopped, Ended
<1> QED BY <1>1, <1>2 DEF ChainStopped

LEMMA RowsMoveQuietly ==
    ASSUME ChainInv, ChainTypes', RowsStep,
           UNCHANGED <<body, fresh, route, outcome, chainOf, chain, answered>>,
           \A t \in stopping' : row'[t] = "running",
           \A t \in stopping : t \in stopping' \/ row'[t] \in Ended,
           \A t \in Tasks : /\ report'[t] \subseteq 1 .. fresh
                            /\ report'[t] # {} => /\ row'[t] = "running" /\ MaxRuns > 1
                                                  /\ chainOf[t] # 0 => chain[chainOf[t]].runs < MaxRuns,
           \A i \in 1 .. Len(mailbox') : mailbox'[i].task \in 1 .. fresh /\ Ready(mailbox'[i].task),
           canceller' = canceller \/ canceller' = NoCancel
    PROVE  ChainInv'
<1>0. ChainTypes /\ ChainsFit /\ Cancelling
  BY DEF ChainInv
<1>1. StopsStay
  BY <1>0, RowsKeepStops
<1>2. Monotone
  BY StatusFacts DEF Monotone, RowsStep
<1>3. Cancelling'
  BY <1>0, <1>1, <1>2, CancellingStays
<1> QED BY <1>3, RowsMove

\* What stays when a step leaves reports and threads
LEMMA ReportsStay ==
    ASSUME ChainInv, report' = report, \A t \in Tasks : row[t] = "running" => row'[t] = "running"
    PROVE  \A t \in Tasks : /\ report'[t] \subseteq 1 .. fresh
                            /\ report'[t] # {} => /\ row'[t] = "running" /\ MaxRuns > 1
                                                  /\ chainOf[t] # 0 => chain[chainOf[t]].runs < MaxRuns
  BY DEF ChainInv, Ids, Endings

\* The launches of a mailbox that were there before
LEMMA MailboxKept ==
    ASSUME ChainInv,
           \A i \in 1 .. Len(mailbox') : \E k \in 1 .. Len(mailbox) : mailbox'[i].task = mailbox[k].task
    PROVE  \A i \in 1 .. Len(mailbox') : mailbox'[i].task \in 1 .. fresh /\ Ready(mailbox'[i].task)
<1> SUFFICES ASSUME NEW i \in 1 .. Len(mailbox')
             PROVE  mailbox'[i].task \in 1 .. fresh /\ Ready(mailbox'[i].task)
  OBVIOUS
<1>0. ChainTypes /\ Ids /\ Releases
  BY DEF ChainInv
<1>1. PICK k \in 1 .. Len(mailbox) : mailbox'[i].task = mailbox[k].task
  OBVIOUS
<1>2. mailbox[k] \in Launch
  BY <1>0 DEF ChainTypes
<1>3. mailbox[k].task \in Tasks /\ mailbox[k].task <= fresh /\ fresh \in Nat
  BY <1>0, <1>2, FreshType DEF Launch, Ids
<1>4. mailbox[k].task \in 1 .. fresh
  BY <1>3, TaskFacts
<1>5. Ready(mailbox[k].task)
  BY <1>0 DEF Releases
<1> QED BY <1>1, <1>4, <1>5

LEMMA MailboxStays ==
    ASSUME ChainInv, mailbox' = mailbox
    PROVE  \A i \in 1 .. Len(mailbox') : mailbox'[i].task \in 1 .. fresh /\ Ready(mailbox'[i].task)
  BY MailboxKept

LEMMA MailboxTail ==
    ASSUME ChainInv, mailbox # <<>>, mailbox' = Tail(mailbox)
    PROVE  /\ mailbox' \in Seq(Launch) /\ Head(mailbox) \in Launch
           /\ Head(mailbox).task \in 1 .. fresh /\ Ready(Head(mailbox).task)
           /\ \A i \in 1 .. Len(mailbox') : mailbox'[i].task \in 1 .. fresh /\ Ready(mailbox'[i].task)
<1>0. ChainTypes /\ Ids /\ Releases
  BY DEF ChainInv
<1>1. mailbox \in Seq(Launch)
  BY <1>0 DEF ChainTypes
<1>2. /\ mailbox' \in Seq(Launch) /\ Head(mailbox) \in Launch /\ Head(mailbox) = mailbox[1]
      /\ 1 \in 1 .. Len(mailbox) /\ Len(mailbox') = Len(mailbox) - 1
      /\ \A i \in 1 .. Len(mailbox') : i + 1 \in 1 .. Len(mailbox) /\ mailbox'[i] = mailbox[i + 1]
  BY <1>1
<1>3. \A i \in 1 .. Len(mailbox') : mailbox'[i].task \in 1 .. fresh /\ Ready(mailbox'[i].task)
  BY <1>2, MailboxKept
<1>4. Head(mailbox).task \in 1 .. fresh
  <2>1. fresh \in Nat /\ Head(mailbox).task \in Tasks /\ Head(mailbox).task <= fresh
    BY <1>0, <1>2, TaskFacts DEF ChainTypes, Launch, Ids
  <2> QED BY <2>1, TaskFacts
<1>5. Ready(Head(mailbox).task)
  BY <1>0, <1>2 DEF Releases
<1> QED BY <1>2, <1>3, <1>4, <1>5

\* A decision to release is based on ends that are known
LEMMA DecidedRelease ==
    ASSUME ChainInv, NEW after \in SUBSET Tasks, NEW rule, decide(after, rule) = "release",
           NEW d \in after
    PROVE  /\ dependency_state(d) \in Ended
           /\ chainOf[d] # 0 => chain[chainOf[d]].state = "ended"
           /\ rule = "succeeded" => dependency_state(d) = "succeeded"
<1>0. ChainTypes /\ ChainsFit /\ Endings
  BY DEF ChainInv
<1>1. dependency_state(d) # "pending" /\ (rule = "succeeded" => dependency_state(d) = "succeeded")
  BY DEF decide
<1>2. d \in Tasks /\ outcome[d] \in Outcomes
  BY <1>0 DEF ChainTypes
<1>3. CASE chainOf[d] # 0
  <2>1. chainOf[d] \in Tasks
    <3>1. chainOf[d] \in 0 .. MaxTasks
      BY <1>0, <1>2 DEF ChainTypes
    <3> QED BY <1>3, <3>1, TaskFacts
  <2>2. chain[chainOf[d]].state = "ended" /\ dependency_state(d) = chain[chainOf[d]].outcome
    BY <1>1, <1>3 DEF dependency_state
  <2>3. chain[chainOf[d]].outcome \in Outcomes /\ chain[chainOf[d]].outcome # "none"
    BY <1>0, <2>1, <2>2 DEF ChainTypes, ChainRow, ChainsFit
  <2> QED BY <1>1, <2>2, <2>3 DEF Outcomes
<1>4. CASE chainOf[d] = 0
  <2>1. outcome[d] # "none"
    BY <1>0, <1>1, <1>2, <1>4 DEF dependency_state, Endings
  <2>2. dependency_state(d) = outcome[d]
    BY <1>4, <2>1 DEF dependency_state
  <2> QED BY <1>1, <1>2, <1>4, <2>1, <2>2 DEF Outcomes
<1> QED BY <1>3, <1>4

LEMMA ReleaseIsReady ==
    ASSUME ChainInv, NEW t \in Tasks, decide(body[t].after, body[t].rule) = "release"
    PROVE  Ready(t)
<1>1. body[t].after \in SUBSET Tasks
  BY DEF ChainInv, ChainTypes, BodyRow
<1> QED BY <1>1, DecidedRelease DEF Ready

-----------------------------------------------------------------------------
(* The actions of this kind *)

LEMMA SettleReleaseKeeps ==
    ASSUME ChainInv, NEW t \in Tasks, SettleRelease(t)
    PROVE  ChainInv'
<1>0. ChainTypes /\ Ids /\ Routes /\ Endings
  BY DEF ChainInv
<1> DEFINE m == [task |-> t, released |-> TRUE, live |-> TRUE]
<1>1. /\ route[t] = "held" /\ decide(body[t].after, body[t].rule) = "release"
      /\ mailbox' = Append(mailbox, m)
      /\ UNCHANGED <<body, fresh, route, row, stopping, report, thread, ending, outcome, chainOf, chain,
                     launching, canceller, cancels, answered, taskFaults>>
  BY DEF SettleRelease, Enqueue, TasksRest
<1>2. Ready(t) /\ t \in 1 .. fresh
  BY <1>0, <1>1, KnownId, ReleaseIsReady
<1>3. m \in Launch /\ m.task = t
  BY DEF Launch
<1> HIDE DEF m
<1>4. mailbox \in Seq(Launch)
  BY <1>0 DEF ChainTypes
<1>5. /\ mailbox' \in Seq(Launch) /\ Len(mailbox') = Len(mailbox) + 1 /\ mailbox'[Len(mailbox) + 1] = m
      /\ \A i \in 1 .. Len(mailbox) : mailbox'[i] = mailbox[i]
  BY <1>1, <1>3, <1>4
<1>6. \A i \in 1 .. Len(mailbox') : mailbox'[i].task \in 1 .. fresh /\ Ready(mailbox'[i].task)
  <2>1. \A i \in 1 .. Len(mailbox) : mailbox[i].task \in 1 .. fresh /\ Ready(mailbox[i].task)
    <3>1. \A i \in 1 .. Len(mailbox) : mailbox[i] \in Launch
      BY <1>4
    <3>2. fresh \in Nat
      BY <1>0, TaskFacts DEF ChainTypes
    <3> QED BY <1>0, <3>1, <3>2, TaskFacts DEF ChainInv, Releases, Ids, Launch
  <2> QED BY <1>2, <1>3, <1>4, <1>5, <2>1
<1>7. ChainTypes'
  BY <1>0, <1>1, <1>5 DEF ChainTypes
<1>8. RowsStep /\ (\A s \in stopping' : row'[s] = "running")
  BY <1>0, <1>1 DEF RowsStep, Routes
<1>9. \A s \in Tasks : /\ report'[s] \subseteq 1 .. fresh
                       /\ report'[s] # {} => /\ row'[s] = "running" /\ MaxRuns > 1
                                             /\ chainOf[s] # 0 => chain[chainOf[s]].runs < MaxRuns
  BY <1>1, ReportsStay
<1> QED BY <1>1, <1>6, <1>7, <1>8, <1>9, RowsMoveQuietly

LEMMA CallerTimeoutKeeps ==
    ASSUME ChainInv, NEW i \in DOMAIN mailbox, CallerTimeout(i)
    PROVE  ChainInv'
<1>0. ChainTypes /\ Routes
  BY DEF ChainInv
<1> DEFINE m == [mailbox[i] EXCEPT !.live = FALSE]
<1>1. /\ taskFaults < MaxTaskFaults /\ taskFaults' = taskFaults + 1
      /\ mailbox' = [mailbox EXCEPT ![i] = m]
      /\ UNCHANGED <<body, fresh, route, row, stopping, report, thread, ending, outcome,
                     chainOf, chain, launching, canceller, cancels, answered>>
  BY DEF CallerTimeout
<1>2. mailbox \in Seq(Launch) /\ mailbox[i] \in Launch
  BY <1>0 DEF ChainTypes
<1>3. m \in Launch /\ m.task = mailbox[i].task
  BY <1>2 DEF Launch
<1> HIDE DEF m
<1>4. /\ mailbox' \in Seq(Launch) /\ Len(mailbox') = Len(mailbox)
      /\ \A k \in 1 .. Len(mailbox) : mailbox'[k].task = mailbox[k].task
  BY <1>1, <1>2, <1>3
<1>5. \A k \in 1 .. Len(mailbox') : mailbox'[k].task \in 1 .. fresh /\ Ready(mailbox'[k].task)
  BY <1>4, MailboxKept
<1>6. ChainTypes'
  <2>1. taskFaults' \in 0 .. MaxTaskFaults
    BY <1>0, <1>1, ChainAssumption DEF ChainTypes
  <2> QED BY <1>0, <1>1, <1>4, <2>1 DEF ChainTypes
<1>7. RowsStep /\ (\A s \in stopping' : row'[s] = "running")
  BY <1>0, <1>1 DEF RowsStep, Routes
<1>8. \A s \in Tasks : /\ report'[s] \subseteq 1 .. fresh
                       /\ report'[s] # {} => /\ row'[s] = "running" /\ MaxRuns > 1
                                             /\ chainOf[s] # 0 => chain[chainOf[s]].runs < MaxRuns
  BY <1>1, ReportsStay
<1> QED BY <1>1, <1>5, <1>6, <1>7, <1>8, RowsMoveQuietly

\* A queued row becomes running, or nothing of the rows changes
LEMMA RowRuns ==
    ASSUME ChainInv, NEW t \in Tasks,
           row' = [row EXCEPT ![t] = IF @ = "queued" THEN "running" ELSE @] \/ row' = row,
           mailbox' \in Seq(Launch), launching' \in 0 .. MaxTasks,
           \A i \in 1 .. Len(mailbox') : mailbox'[i].task \in 1 .. fresh /\ Ready(mailbox'[i].task),
           UNCHANGED <<body, fresh, route, stopping, report, thread, ending, outcome, chainOf, chain,
                       canceller, cancels, answered, taskFaults>>
    PROVE  ChainInv'
<1>0. ChainTypes /\ Routes
  BY DEF ChainInv
<1>1. row \in [Tasks -> RowStatus]
  BY <1>0 DEF ChainTypes
<1>2. row' \in [Tasks -> RowStatus]
  BY <1>1, StatusFacts
<1>3. ChainTypes'
  BY <1>0, <1>2 DEF ChainTypes
<1>4. RowsStep /\ (\A s \in stopping : row'[s] = "running") /\ \A s \in Tasks : row[s] = "running" => row'[s] = "running"
  <2>1. \A s \in Tasks : row'[s] = row[s] \/ (row[s] = "queued" /\ row'[s] = "running")
    BY <1>1
  <2> QED BY <1>0, <2>1, StatusFacts DEF RowsStep, Routes, ChainTypes
<1>5. \A s \in Tasks : /\ report'[s] \subseteq 1 .. fresh
                       /\ report'[s] # {} => /\ row'[s] = "running" /\ MaxRuns > 1
                                             /\ chainOf[s] # 0 => chain[chainOf[s]].runs < MaxRuns
  BY <1>4, ReportsStay
<1> QED BY <1>3, <1>4, <1>5, RowsMoveQuietly

\* Or the spawn fails and ends it
LEMMA RowFails ==
    ASSUME ChainInv, NEW t \in Tasks, row[t] = "queued",
           row' = [row EXCEPT ![t] = "failed"], ending' = [ending EXCEPT ![t] = "failed"],
           mailbox' \in Seq(Launch), launching' \in 0 .. MaxTasks,
           \A i \in 1 .. Len(mailbox') : mailbox'[i].task \in 1 .. fresh /\ Ready(mailbox'[i].task),
           UNCHANGED <<body, fresh, route, stopping, report, thread, outcome, chainOf, chain,
                       canceller, cancels, answered, taskFaults>>
    PROVE  ChainInv'
<1>0. ChainTypes /\ Routes
  BY DEF ChainInv
<1>1. row \in [Tasks -> RowStatus] /\ ending \in [Tasks -> EndingKinds] /\ "failed" \in Ended
      /\ "failed" \in RowStatus /\ "failed" \in EndingKinds
  BY <1>0 DEF ChainTypes, RowStatus, EndingKinds, Ended
<1>2. row' \in [Tasks -> RowStatus] /\ ending' \in [Tasks -> EndingKinds]
  BY <1>1
<1>3. ChainTypes'
  BY <1>0, <1>2 DEF ChainTypes
<1>4. \A s \in Tasks : /\ s # t => row'[s] = row[s] /\ ending'[s] = ending[s]
                       /\ s = t => row'[s] = "failed" /\ ending'[s] = "failed"
  BY <1>1
<1>5. RowsStep
  BY <1>1, <1>4, StatusFacts DEF RowsStep
<1>6. (\A s \in stopping : row'[s] = "running") /\ \A s \in Tasks : row[s] = "running" => row'[s] = "running"
  BY <1>0, <1>4 DEF Routes, ChainTypes
<1>7. \A s \in Tasks : /\ report'[s] \subseteq 1 .. fresh
                       /\ report'[s] # {} => /\ row'[s] = "running" /\ MaxRuns > 1
                                             /\ chainOf[s] # 0 => chain[chainOf[s]].runs < MaxRuns
  BY <1>6, ReportsStay
<1> QED BY <1>3, <1>5, <1>6, <1>7, RowsMoveQuietly

LEMMA spawn_task_runKeeps ==
    ASSUME ChainInv, spawn_task_run
    PROVE  ChainInv'
<1>0. ChainTypes /\ Routes
  BY DEF ChainInv
<1>1. /\ launching # 0 /\ launching' = 0 /\ launching \in Tasks
      /\ UNCHANGED <<body, fresh, route, stopping, report, thread, outcome, chainOf, chain, mailbox,
                     canceller, cancels, answered, taskFaults>>
  BY <1>0, TaskFacts DEF spawn_task_run, ChainTypes
<1>2. mailbox' \in Seq(Launch) /\ launching' \in 0 .. MaxTasks
  BY <1>0, <1>1, TaskFacts DEF ChainTypes
<1>3. CASE /\ row' = [row EXCEPT ![launching] = IF @ = "queued" THEN "running" ELSE @]
           /\ UNCHANGED ending
  BY <1>1, <1>2, <1>3, RowRuns, MailboxStays
<1>4. CASE /\ row[launching] = "queued"
           /\ row' = [row EXCEPT ![launching] = "failed"]
           /\ ending' = [ending EXCEPT ![launching] = "failed"]
  BY <1>1, <1>2, <1>4, RowFails, MailboxStays
<1> QED BY <1>3, <1>4 DEF spawn_task_run

LEMMA RecoverKeeps ==
    ASSUME ChainInv, Recover
    PROVE  ChainInv'
<1>0. ChainTypes /\ Routes
  BY DEF ChainInv
<1> DEFINE queued == {t \in Tasks : row[t] = "queued"}
           lost == {t \in queued : body[t].after = {}}
<1>1. /\ taskFaults < MaxTaskFaults /\ taskFaults' = taskFaults + 1
      /\ mailbox' = <<>> /\ launching' = 0 /\ canceller' = NoCancel
      /\ row' = [t \in Tasks |-> IF t \in lost THEN "lost" ELSE IF t \in queued THEN "running" ELSE row[t]]
      /\ ending' = [t \in Tasks |-> IF t \in lost THEN "lost" ELSE ending[t]]
      /\ UNCHANGED <<body, fresh, route, stopping, report, thread, outcome, chainOf, chain,
                     cancels, answered>>
  BY DEF Recover
<1>2. row \in [Tasks -> RowStatus] /\ ending \in [Tasks -> EndingKinds] /\ "lost" \in Ended
      /\ "lost" \in RowStatus /\ "running" \in RowStatus /\ "lost" \in EndingKinds
  BY <1>0 DEF ChainTypes, RowStatus, EndingKinds, Ended, Live
<1>3. \A s \in Tasks : /\ s \in lost => row'[s] = "lost" /\ ending'[s] = "lost" /\ row[s] = "queued"
                       /\ s \notin lost => ending'[s] = ending[s]
                       /\ s \in queued \ lost => row'[s] = "running" /\ row[s] = "queued"
                       /\ s \notin queued => row'[s] = row[s] /\ s \notin lost /\ row[s] # "queued"
  BY <1>1
<1> HIDE DEF queued, lost
<1>4. row' \in [Tasks -> RowStatus] /\ ending' \in [Tasks -> EndingKinds]
  BY <1>1, <1>2
<1>5. ChainTypes'
  <2>1. taskFaults' \in 0 .. MaxTaskFaults
    BY <1>0, <1>1, ChainAssumption DEF ChainTypes
  <2>2. mailbox' \in Seq(Launch) /\ launching' \in 0 .. MaxTasks
    BY <1>1, TaskFacts
  <2>3. canceller' \in CancelRecord
    BY <1>1, TaskFacts DEF NoCancel, CancelRecord
  <2> QED BY <1>0, <1>1, <1>4, <2>1, <2>2, <2>3 DEF ChainTypes
<1>6. RowsStep
  BY <1>2, <1>3, StatusFacts DEF RowsStep
<1>7. (\A s \in stopping : row'[s] = "running") /\ \A s \in Tasks : row[s] = "running" => row'[s] = "running"
  BY <1>0, <1>3 DEF Routes, ChainTypes
<1>8. \A s \in Tasks : /\ report'[s] \subseteq 1 .. fresh
                       /\ report'[s] # {} => /\ row'[s] = "running" /\ MaxRuns > 1
                                             /\ chainOf[s] # 0 => chain[chainOf[s]].runs < MaxRuns
  BY <1>1, <1>7, ReportsStay
<1>9. \A i \in 1 .. Len(mailbox') : mailbox'[i].task \in 1 .. fresh /\ Ready(mailbox'[i].task)
  BY <1>1
<1> QED BY <1>1, <1>5, <1>6, <1>7, <1>8, <1>9, RowsMoveQuietly

LEMMA append_reportKeeps ==
    ASSUME ChainInv, NEW t \in Tasks, append_report(t)
    PROVE  ChainInv'
<1>0. ChainTypes /\ Routes
  BY DEF ChainInv
<1>1. PICK on \in SUBSET (1 .. fresh) : /\ on # {} => check_waiting_on(t, on)
                                        /\ report' = [report EXCEPT ![t] = on]
  BY DEF append_report
<1>2. /\ row[t] = "running"
      /\ UNCHANGED <<body, fresh, route, row, stopping, thread, ending, outcome, chainOf, chain, mailbox,
                     launching, canceller, cancels, answered, taskFaults>>
  BY DEF append_report, WorkerRest
<1>3. report \in [Tasks -> SUBSET Tasks] /\ on \in SUBSET Tasks
  BY <1>0, FreshType DEF ChainTypes
<1>4. report' \in [Tasks -> SUBSET Tasks]
  BY <1>1, <1>3
<1>5. ChainTypes'
  BY <1>0, <1>2, <1>4 DEF ChainTypes
<1>6. RowsStep /\ (\A s \in stopping : row'[s] = "running")
  BY <1>0, <1>2 DEF RowsStep, Routes
<1>7. \A s \in Tasks : /\ report'[s] \subseteq 1 .. fresh
                       /\ report'[s] # {} => /\ row'[s] = "running" /\ MaxRuns > 1
                                             /\ chainOf[s] # 0 => chain[chainOf[s]].runs < MaxRuns
  <2> SUFFICES ASSUME NEW s \in Tasks
               PROVE  /\ report'[s] \subseteq 1 .. fresh
                      /\ report'[s] # {} => /\ row'[s] = "running" /\ MaxRuns > 1
                                            /\ chainOf[s] # 0 => chain[chainOf[s]].runs < MaxRuns
    OBVIOUS
  <2>1. CASE s = t
    BY <1>1, <1>2, <1>3, <2>1 DEF check_waiting_on
  <2>2. CASE s # t
    <3>1. report'[s] = report[s]
      BY <1>1, <1>3, <2>2
    <3> QED BY <1>2, <3>1 DEF ChainInv, Ids, Endings
  <2> QED BY <2>1, <2>2
<1> QED BY <1>2, <1>5, <1>6, <1>7, RowsMoveQuietly, MailboxStays

\* A run that does not park ends
LEMMA ExitEndsKeeps ==
    ASSUME ChainInv, NEW t \in Tasks, NEW how \in {"exit_0", "exit_1", "cancelled", "lost"},
           Exit(t, how), classify_exit(t, how) # "waiting"
    PROVE  ChainInv'
<1>0. ChainTypes /\ Routes
  BY DEF ChainInv
<1> DEFINE class == classify_exit(t, how)
           status == CASE how = "exit_0" -> "succeeded" [] how = "exit_1" -> "failed"
                       [] OTHER -> how
<1>1. class \in Ended /\ status \in Ended
  BY DEF classify_exit, Ended
<1>2. PICK th \in 0 .. MaxTasks : /\ thread' = [thread EXCEPT ![t] = th]
                                  /\ (th = body[t].resume \/ th \in {0, t})
  <2>1. body[t].resume \in 0 .. MaxTasks /\ t \in 0 .. MaxTasks /\ 0 \in 0 .. MaxTasks
    BY <1>0, TaskFacts DEF ChainTypes, BodyRow
  <2> QED BY <2>1 DEF Exit
<1>3. /\ row[t] = "running" /\ row' = [row EXCEPT ![t] = status] /\ ending' = [ending EXCEPT ![t] = class]
      /\ report' = [report EXCEPT ![t] = {}] /\ stopping' = stopping \ {t}
      /\ taskFaults' = (IF how = "lost" THEN taskFaults + 1 ELSE taskFaults) /\ taskFaults' <= MaxTaskFaults
      /\ UNCHANGED <<body, fresh, route, outcome, chainOf, chain, mailbox, launching, canceller, cancels,
                     answered>>
  BY DEF Exit
<1> HIDE DEF class, status
<1>4. row \in [Tasks -> RowStatus] /\ ending \in [Tasks -> EndingKinds] /\ report \in [Tasks -> SUBSET Tasks]
      /\ thread \in [Tasks -> 0 .. MaxTasks] /\ body[t].resume \in 0 .. MaxTasks
  BY <1>0 DEF ChainTypes, BodyRow
<1>6. /\ row' \in [Tasks -> RowStatus] /\ ending' \in [Tasks -> EndingKinds]
      /\ report' \in [Tasks -> SUBSET Tasks] /\ thread' \in [Tasks -> 0 .. MaxTasks]
  <2>1. status \in RowStatus /\ class \in EndingKinds
    BY <1>1 DEF RowStatus, EndingKinds
  <2>2. row' \in [Tasks -> RowStatus]
    BY <1>3, <1>4, <2>1
  <2>3. ending' \in [Tasks -> EndingKinds]
    BY <1>3, <1>4, <2>1
  <2>4. report' \in [Tasks -> SUBSET Tasks]
    BY <1>3, <1>4
  <2>5. thread' \in [Tasks -> 0 .. MaxTasks]
    BY <1>2, <1>4
  <2> QED BY <2>2, <2>3, <2>4, <2>5
<1>7. ChainTypes'
  <2>1. taskFaults' \in 0 .. MaxTaskFaults
    <3>1. taskFaults \in Nat /\ MaxTaskFaults \in Nat
      BY <1>0, ChainAssumption DEF ChainTypes
    <3>2. taskFaults' \in Nat /\ taskFaults' <= MaxTaskFaults
      BY <1>3, <3>1
    <3> QED BY <3>1, <3>2
  <2> QED BY <1>0, <1>3, <1>6, <2>1 DEF ChainTypes
<1>8. \A s \in Tasks : /\ s # t => row'[s] = row[s] /\ ending'[s] = ending[s] /\ report'[s] = report[s]
                                   /\ thread'[s] = thread[s]
                       /\ s = t => /\ row'[s] = status /\ ending'[s] = class /\ report'[s] = {}
                                   /\ thread'[s] = th
  <2>1. \A s \in Tasks : (s # t => row'[s] = row[s]) /\ (s = t => row'[s] = status)
    BY <1>3, <1>4
  <2>2. \A s \in Tasks : (s # t => ending'[s] = ending[s]) /\ (s = t => ending'[s] = class)
    BY <1>3, <1>4
  <2>3. \A s \in Tasks : (s # t => report'[s] = report[s]) /\ (s = t => report'[s] = {})
    BY <1>3, <1>4
  <2>4. \A s \in Tasks : (s # t => thread'[s] = thread[s]) /\ (s = t => thread'[s] = th)
    BY <1>2, <1>4
  <2> QED BY <2>1, <2>2, <2>3, <2>4
<1>9. RowsStep
  BY <1>1, <1>3, <1>8, StatusFacts DEF RowsStep
<1>10. (\A s \in stopping' : row'[s] = "running") /\ \A s \in stopping : s \in stopping' \/ row'[s] \in Ended
  BY <1>0, <1>1, <1>3, <1>8 DEF Routes, ChainTypes
<1>11. \A s \in Tasks : /\ report'[s] \subseteq 1 .. fresh
                        /\ report'[s] # {} => /\ row'[s] = "running" /\ MaxRuns > 1
                                              /\ chainOf[s] # 0 => chain[chainOf[s]].runs < MaxRuns
  BY <1>8 DEF ChainInv, Ids, Endings
<1> QED BY <1>3, <1>7, <1>9, <1>10, <1>11, RowsMoveQuietly, MailboxStays

\* A saved row without a worker is taken up: by a repeated request, by the release
\* loop, or by a second launch of a released task
LEMMA resume_localKeeps ==
    ASSUME ChainInv, NEW t \in Tasks, resume_local(t), mailbox' \in Seq(Launch),
           \A i \in 1 .. Len(mailbox') : mailbox'[i].task \in 1 .. fresh /\ Ready(mailbox'[i].task),
           UNCHANGED <<body, fresh, route, stopping, report, thread, outcome, chainOf, chain,
                       launching, canceller, cancels, answered, taskFaults>>
    PROVE  ChainInv'
<1>1. launching' \in 0 .. MaxTasks
  BY DEF ChainInv, ChainTypes
<1>2. CASE /\ row' = [row EXCEPT ![t] = IF @ = "queued" THEN "running" ELSE @]
           /\ UNCHANGED ending
  BY <1>1, <1>2, RowRuns
<1>3. CASE /\ row[t] = "queued" /\ row' = [row EXCEPT ![t] = "failed"]
           /\ ending' = [ending EXCEPT ![t] = "failed"]
  BY <1>1, <1>3, RowFails
<1> QED BY <1>2, <1>3 DEF resume_local

LEMMA SavedResumesKeeps ==
    ASSUME ChainInv, NEW t \in Tasks, resume_local(t),
           UNCHANGED <<body, fresh, route, stopping, report, thread, outcome, chainOf, chain, mailbox,
                       launching, canceller, cancels, answered, taskFaults>>
    PROVE  ChainInv'
<1>1. mailbox' \in Seq(Launch)
  BY DEF ChainInv, ChainTypes
<1> QED BY <1>1, resume_localKeeps, MailboxStays

\* `launch' of a message that the store refuses
LEMMA LaunchRefusedKeeps ==
    ASSUME ChainInv, mailbox # <<>>, mailbox' = Tail(mailbox),
           UNCHANGED <<body, fresh, route, row, stopping, report, thread, ending, outcome, chainOf, chain,
                       launching, canceller, cancels, answered, taskFaults>>
    PROVE  ChainInv'
<1>1. /\ mailbox' \in Seq(Launch) /\ launching' \in 0 .. MaxTasks
      /\ \A i \in 1 .. Len(mailbox') : mailbox'[i].task \in 1 .. fresh /\ Ready(mailbox'[i].task)
  BY MailboxTail DEF ChainInv, ChainTypes
<1> QED BY <1>1, RowRuns, TaskFacts

-----------------------------------------------------------------------------
(* `task cancel' *)

\* An answer says of a chain that it is stopped
LEMMA AnswerCounts ==
    ASSUME ChainTypes, Cancelling, Monotone, StopsStay, Answer,
           canceller.chained => \E c \in Tasks : c = chainOf[canceller.task] /\ ChainStopped(c)'
    PROVE  Cancelling'
<1>0. PICK k \in 0 .. MaxTasks, b \in BOOLEAN : k = canceller.task /\ b = canceller.chained
  BY DEF ChainTypes, CancelRecord
<1> DEFINE new == [task |-> k, chained |-> b]
<1>1. answered' = answered \cup {new} /\ canceller' = NoCancel
  BY <1>0 DEF Answer
<1>2. canceller'.phase = "none" /\ ~canceller'.chained
  BY <1>1 DEF NoCancel
<1>3. \A a \in answered : a.chained =>
          a.task # 0 /\ chainOf'[a.task] # 0 /\ ChainStopped(chainOf[a.task])'
  BY AnsweredStay
<1>4. b => k # 0 /\ chainOf'[k] # 0 /\ ChainStopped(chainOf[k])'
  <2> SUFFICES ASSUME b PROVE k # 0 /\ chainOf'[k] # 0 /\ ChainStopped(chainOf[k])'
    OBVIOUS
  <2>1. k # 0 /\ chainOf[k] # 0
    BY <1>0 DEF Cancelling
  <2>2. chainOf'[k] = chainOf[k]
    BY <2>1, TaskFacts DEF Monotone
  <2>3. PICK c \in Tasks : c = chainOf[k] /\ ChainStopped(c)'
    BY <1>0
  <2> QED BY <2>1, <2>2, <2>3 DEF ChainStopped
<1>5. new.task = k /\ new.chained = b
  OBVIOUS
<1> HIDE DEF new
<1>6. \A a \in answered' : a.chained =>
          a.task # 0 /\ chainOf'[a.task] # 0 /\ ChainStopped(chainOf[a.task])'
  BY <1>1, <1>3, <1>4, <1>5 DEF ChainStopped
<1> QED BY <1>2, <1>6 DEF Cancelling

LEMMA CancellerMoves ==
    ASSUME ChainInv,
           UNCHANGED <<body, fresh, route, row, stopping, report, thread, ending, outcome, chainOf,
                       chain, mailbox, launching, taskFaults>>,
           cancels' \in 0 .. MaxCancels, canceller' \in CancelRecord,
           answered' \subseteq [task : 0 .. MaxTasks, chained : BOOLEAN], Cancelling'
    PROVE  ChainInv'
<1>0. ChainTypes /\ Routes
  BY DEF ChainInv
<1>1. ChainTypes'
  BY <1>0 DEF ChainTypes
<1>2. RowsStep /\ (\A s \in stopping' : row'[s] = "running")
  BY <1>0 DEF RowsStep, Routes
<1>3. \A s \in Tasks : /\ report'[s] \subseteq 1 .. fresh
                       /\ report'[s] # {} => /\ row'[s] = "running" /\ MaxRuns > 1
                                             /\ chainOf[s] # 0 => chain[chainOf[s]].runs < MaxRuns
  BY ReportsStay
<1> QED BY <1>1, <1>2, <1>3, RowsMove, MailboxStays

LEMMA NothingMoves ==
    ASSUME UNCHANGED <<route, row, stopping, chainOf, chain>>
    PROVE  Monotone /\ StopsStay
  BY DEF Monotone, StopsStay, ChainStopped, Ended

LEMMA AnswerType ==
    ASSUME ChainTypes, Answer
    PROVE  canceller' \in CancelRecord /\ answered' \subseteq [task : 0 .. MaxTasks, chained : BOOLEAN]
<1>1. canceller.task \in 0 .. MaxTasks /\ canceller.chained \in BOOLEAN
  BY DEF ChainTypes, CancelRecord
<1>2. canceller' \in CancelRecord
  BY TaskFacts DEF Answer, NoCancel, CancelRecord
<1> QED BY <1>1, <1>2 DEF Answer, ChainTypes

\* The task of a call in progress, and the run it is at
LEMMA CancellerKnows ==
    ASSUME ChainInv
    PROVE  /\ canceller \in CancelRecord
           /\ canceller.phase # "none" => canceller.task \in Tasks
           /\ canceller.phase \in {"held", "row", "again"} => canceller.current \in Tasks
           /\ canceller.chained => canceller.task \in Tasks /\ chainOf[canceller.task] \in Tasks
<1>1. ChainTypes /\ Cancelling
  BY DEF ChainInv
<1>2. canceller \in CancelRecord
  BY <1>1 DEF ChainTypes
<1>3. canceller.task \in 0 .. MaxTasks /\ canceller.current \in 0 .. MaxTasks
  BY <1>2 DEF CancelRecord
<1>4. canceller.chained => canceller.task \in Tasks /\ chainOf[canceller.task] # 0
  BY <1>1, <1>3, TaskFacts DEF Cancelling
<1> QED BY <1>1, <1>2, <1>3, <1>4, TaskFacts DEF Cancelling, ChainTypes

LEMMA CancelStartKeeps ==
    ASSUME ChainInv, CancelStart
    PROVE  ChainInv'
<1>0. ChainTypes /\ Cancelling
  BY DEF ChainInv
<1>1. PICK t \in 1 .. fresh :
        /\ cancels < MaxCancels /\ route[t] # "none"
        /\ canceller' = [NoCancel EXCEPT !.phase = "chain", !.task = t] /\ cancels' = cancels + 1
        /\ UNCHANGED <<body, fresh, route, row, stopping, report, thread, ending, outcome,
                       chainOf, chain, mailbox, launching, answered, taskFaults>>
  BY DEF CancelStart
<1>2. t \in Tasks /\ t # 0
  BY <1>0, FreshType, TaskFacts
<1>3. /\ canceller' \in CancelRecord /\ canceller'.phase = "chain" /\ canceller'.task = t
      /\ canceller'.chained = FALSE
  <2>1. 0 \in 0 .. MaxTasks /\ t \in 0 .. MaxTasks
    BY <1>2, TaskFacts
  <2>2. NoCancel \in CancelRecord /\ NoCancel.chained = FALSE
    BY <2>1 DEF NoCancel, CancelRecord
  <2> QED BY <1>1, <2>1, <2>2 DEF CancelRecord
<1>4. cancels' \in 0 .. MaxCancels
  BY <1>0, <1>1, ChainAssumption DEF ChainTypes
<1>5. \A a \in answered' : a.chained =>
          a.task # 0 /\ chainOf'[a.task] # 0 /\ ChainStopped(chainOf[a.task])'
  BY <1>0, <1>1, AnsweredStay, NothingMoves
<1>6. Cancelling'
  BY <1>1, <1>2, <1>3, <1>5 DEF Cancelling, ChainStopped
<1>7. answered' \subseteq [task : 0 .. MaxTasks, chained : BOOLEAN]
  BY <1>0, <1>1 DEF ChainTypes
<1> QED BY <1>1, <1>3, <1>4, <1>6, <1>7, CancellerMoves

\* The run a chain is at belongs to the chain
LEMMA CurrentRun ==
    ASSUME ChainInv, NEW t \in Tasks, chain_current_run(t) # 0
    PROVE  /\ chain_current_run(t) \in Tasks /\ chainOf[t] \in Tasks
           /\ chainOf[chain_current_run(t)] = chainOf[t]
           /\ route[chain_current_run(t)] # "none"
           /\ \/ chain[chainOf[t]].state = "running" /\ chain_current_run(t) = chain[chainOf[t]].current
              \/ /\ chain[chainOf[t]].state = "waiting" /\ chain_current_run(t) = chain[chainOf[t]].next
                 /\ route[chain_current_run(t)] = "held"
<1>0. ChainTypes /\ ChainsFit
  BY DEF ChainInv
<1>1. chainOf[t] # 0
  BY DEF chain_current_run
<1>2. chainOf[t] \in Tasks
  BY <1>0, <1>1, TaskFacts DEF ChainTypes
<1>3. \/ chain[chainOf[t]].state = "running" /\ chain_current_run(t) = chain[chainOf[t]].current
      \/ chain[chainOf[t]].state = "waiting" /\ chain_current_run(t) = chain[chainOf[t]].next
  BY <1>1 DEF chain_current_run
<1>4. chain[chainOf[t]].current \in 0 .. MaxTasks /\ chain[chainOf[t]].next \in 0 .. MaxTasks
  BY <1>0, <1>2 DEF ChainTypes, ChainRow
<1>5. chain_current_run(t) \in Tasks
  BY <1>3, <1>4, TaskFacts
<1>6. chainOf[chain_current_run(t)] = chainOf[t]
  BY <1>0, <1>2, <1>3 DEF ChainsFit
<1> QED BY <1>0, <1>1, <1>2, <1>3, <1>5, <1>6 DEF ChainsFit

LEMMA CancelReadsChainKeeps ==
    ASSUME ChainInv, CancelReadsChain
    PROVE  ChainInv'
<1>0. ChainTypes /\ Cancelling
  BY DEF ChainInv
<1>1. PICK t \in Tasks : t = canceller.task
  BY CancellerKnows DEF CancelReadsChain
<1> DEFINE current == chain_current_run(t)
<1>2. /\ canceller.phase = "chain"
      /\ canceller' = IF current = 0
                      THEN [canceller EXCEPT !.phase = "held", !.current = t]
                      ELSE [canceller EXCEPT !.phase = "held", !.current = current,
                                             !.chained = TRUE, !.tries = @ + 1]
      /\ UNCHANGED <<body, fresh, route, row, stopping, report, thread, ending, outcome,
                     chainOf, chain, mailbox, launching, cancels, answered, taskFaults>>
  BY <1>1 DEF CancelReadsChain, CancelRest
<1>3. t # 0 /\ route[t] # "none" /\ (canceller.chained => chainOf[t] # 0)
  BY <1>0, <1>1, <1>2, TaskFacts DEF Cancelling
<1>4. \A a \in answered' : a.chained =>
          a.task # 0 /\ chainOf'[a.task] # 0 /\ ChainStopped(chainOf[a.task])'
  BY <1>0, <1>2, AnsweredStay, NothingMoves
<1>5. current # 0 => current \in Tasks /\ chainOf[current] = chainOf[t] /\ route[current] # "none" /\ chainOf[t] # 0
  BY CurrentRun, TaskFacts
<1> HIDE DEF current
<1>6. canceller \in CancelRecord
  BY <1>0 DEF ChainTypes
<1>7. /\ canceller' \in CancelRecord /\ canceller'.phase = "held" /\ canceller'.task = t
      /\ \/ canceller'.current = t /\ canceller'.chained = canceller.chained
         \/ current # 0 /\ canceller'.current = current
  <2>1. t \in 0 .. MaxTasks /\ (current # 0 => current \in 0 .. MaxTasks)
    BY <1>5, TaskFacts
  <2>2. CASE current = 0
    BY <1>1, <1>2, <1>6, <2>1, <2>2 DEF CancelRecord
  <2>3. CASE current # 0
    <3>1. canceller' = [canceller EXCEPT !.phase = "held", !.current = current,
                                         !.chained = TRUE, !.tries = canceller.tries + 1]
      BY <1>2, <2>3
    <3>2. canceller.tries + 1 \in Nat
      BY <1>6 DEF CancelRecord
    <3>3. PICK n \in Nat : n = canceller.tries + 1
      BY <3>2
    <3>4. canceller' = [canceller EXCEPT !.phase = "held", !.current = current,
                                         !.chained = TRUE, !.tries = n]
      BY <3>1, <3>3
    <3> QED BY <1>1, <1>6, <2>1, <2>3, <3>4 DEF CancelRecord
  <2> QED BY <2>2, <2>3
<1>8. Cancelling'
  BY <1>2, <1>3, <1>4, <1>5, <1>7, TaskFacts DEF Cancelling, ChainStopped
<1> QED BY <1>0, <1>2, <1>7, <1>8, CancellerMoves DEF ChainTypes

LEMMA CancelHeldQuietKeeps ==
    ASSUME ChainInv, canceller.phase = "held",
           \/ route[canceller.current] = "cancelled" /\ Answer
           \/ /\ route[canceller.current] \notin {"held", "cancelled"}
              /\ canceller' = [canceller EXCEPT !.phase = "row"] /\ answered' = answered,
           UNCHANGED <<body, fresh, route, row, stopping, report, thread, ending, outcome,
                       chainOf, chain, mailbox, launching, cancels, taskFaults>>
    PROVE  ChainInv'
<1>0. ChainTypes /\ Cancelling /\ ChainsFit
  BY DEF ChainInv
<1>1. PICK k \in Tasks, t \in Tasks : k = canceller.task /\ t = canceller.current
  BY CancellerKnows
<1>2. Monotone /\ StopsStay
  BY NothingMoves
<1>3. CASE route[t] = "cancelled" /\ Answer
  <2>1. canceller.chained => \E c \in Tasks : c = chainOf[canceller.task] /\ ChainStopped(c)'
    <3> SUFFICES ASSUME canceller.chained
                 PROVE  \E c \in Tasks : c = chainOf[canceller.task] /\ ChainStopped(c)'
      OBVIOUS
    <3>1. chainOf[t] = chainOf[k] /\ chainOf[t] # 0 /\ chainOf[k] \in Tasks
      BY <1>0, <1>1, CancellerKnows, TaskFacts DEF Cancelling
    <3>2. PICK c \in Tasks : c = chainOf[k]
      BY <3>1
    <3>3. chain[c].state = "ended"
      BY <1>0, <1>3, <3>1, <3>2 DEF ChainsFit
    <3>4. ChainStopped(c)'
      BY <3>3 DEF ChainStopped
    <3> QED BY <1>1, <3>2, <3>4
  <2>2. Cancelling'
    BY <1>0, <1>2, <1>3, <2>1, AnswerCounts
  <2> QED BY <1>0, <1>3, <2>2, AnswerType, CancellerMoves DEF ChainTypes
<1>4. CASE /\ route[t] \notin {"held", "cancelled"}
           /\ canceller' = [canceller EXCEPT !.phase = "row"] /\ answered' = answered
  <2>1. canceller \in CancelRecord
    BY <1>0 DEF ChainTypes
  <2>2. /\ canceller' \in CancelRecord /\ canceller'.phase = "row" /\ canceller'.task = k
        /\ canceller'.current = t /\ canceller'.chained = canceller.chained
    BY <1>1, <1>4, <2>1 DEF CancelRecord
  <2>3. \A a \in answered' : a.chained =>
          a.task # 0 /\ chainOf'[a.task] # 0 /\ ChainStopped(chainOf[a.task])'
    BY <1>0, <1>2, <1>4, AnsweredStay
  <2>4. /\ k # 0 /\ route[k] # "none" /\ t # 0 /\ route[t] # "none"
        /\ canceller.chained => chainOf[k] # 0 /\ chainOf[t] = chainOf[k]
    BY <1>0, <1>1 DEF Cancelling
  <2>5. route[t] \in {"accepted", "rejected"}
    <3>1. route[t] \in RouteStatus
      BY <1>0 DEF ChainTypes
    <3> QED BY <1>4, <2>4, <3>1 DEF RouteStatus
  <2>6. Cancelling'
    BY <2>2, <2>3, <2>4, <2>5 DEF Cancelling, ChainStopped
  <2> QED BY <1>0, <1>4, <2>2, <2>6, CancellerMoves DEF ChainTypes
<1> QED BY <1>1, <1>3, <1>4

LEMMA CancelReadsAgainKeeps ==
    ASSUME ChainInv, CancelReadsAgain
    PROVE  ChainInv'
<1>0. ChainTypes /\ Cancelling /\ ChainsFit /\ Routes
  BY DEF ChainInv
<1>1. PICK k \in Tasks, t \in Tasks : k = canceller.task /\ t = canceller.current
  BY CancellerKnows DEF CancelReadsAgain
<1>2. /\ canceller.phase = "again"
      /\ UNCHANGED <<body, fresh, route, row, stopping, report, thread, ending, outcome,
                     chainOf, chain, mailbox, launching, cancels, taskFaults>>
  BY DEF CancelReadsAgain, CancelRest
<1>3. Monotone /\ StopsStay
  BY <1>2, NothingMoves
<1>4. row[t] \in Ended /\ t # 0
  BY <1>0, <1>1, <1>2 DEF Cancelling
<1>5. CASE chain_current_run(k) = t /\ Answer
  <2>1. /\ chainOf[k] \in Tasks
        /\ \/ chain[chainOf[k]].state = "running" /\ t = chain[chainOf[k]].current
           \/ route[t] = "held"
    BY <1>4, <1>5, CurrentRun
  <2>2. route[t] # "held"
    BY <1>0, <1>4, StatusFacts DEF Routes
  <2>3. PICK c \in Tasks : c = chainOf[k]
    BY <2>1
  <2>4. ChainStopped(c)'
    BY <1>2, <1>4, <2>1, <2>2, <2>3 DEF ChainStopped, Ended
  <2>5. \E x \in Tasks : x = chainOf[canceller.task] /\ ChainStopped(x)'
    BY <1>1, <2>3, <2>4
  <2>6. Cancelling'
    BY <1>0, <1>3, <1>5, <2>5, AnswerCounts
  <2> QED BY <1>0, <1>2, <1>5, <2>6, AnswerType, CancellerMoves DEF ChainTypes
<1>6. CASE canceller' = [canceller EXCEPT !.phase = "chain"] /\ answered' = answered
  <2>1. canceller \in CancelRecord
    BY <1>0 DEF ChainTypes
  <2>2. /\ canceller' \in CancelRecord /\ canceller'.phase = "chain" /\ canceller'.task = k
        /\ canceller'.chained = canceller.chained
    BY <1>1, <1>6, <2>1 DEF CancelRecord
  <2>3. \A a \in answered' : a.chained =>
          a.task # 0 /\ chainOf'[a.task] # 0 /\ ChainStopped(chainOf[a.task])'
    BY <1>0, <1>3, <1>6, AnsweredStay
  <2>4. k # 0 /\ route[k] # "none" /\ (canceller.chained => chainOf[k] # 0)
    BY <1>0, <1>1, <1>2 DEF Cancelling
  <2>6. Cancelling'
    BY <1>2, <2>2, <2>3, <2>4 DEF Cancelling, ChainStopped
  <2> QED BY <1>0, <1>2, <1>6, <2>2, <2>6, CancellerMoves DEF ChainTypes
<1> QED BY <1>1, <1>5, <1>6 DEF CancelReadsAgain

LEMMA CancelRowKeeps ==
    ASSUME ChainInv, CancelRow
    PROVE  ChainInv'
<1>0. ChainTypes /\ Cancelling /\ ChainsFit /\ Routes
  BY DEF ChainInv
<1>1. PICK k \in Tasks, t \in Tasks : k = canceller.task /\ t = canceller.current
  BY CancellerKnows DEF CancelRow
<1>2. /\ canceller.phase = "row"
      /\ stopping' = (IF row[t] = "running" THEN stopping \cup {t} ELSE stopping)
      /\ row' = (IF row[t] = "queued" THEN [row EXCEPT ![t] = "cancelled"] ELSE row)
      /\ ending' = (IF row[t] = "queued" THEN [ending EXCEPT ![t] = "cancelled"] ELSE ending)
      /\ UNCHANGED <<body, fresh, route, report, thread, outcome,
                     chainOf, chain, mailbox, launching, cancels, taskFaults>>
  BY <1>1 DEF CancelRow, CancelRest
<1>3. /\ \/ /\ canceller.chained /\ row[t] \in Ended
            /\ canceller' = [canceller EXCEPT !.phase = "again"] /\ answered' = answered
         \/ ~(canceller.chained /\ row[t] \in Ended) /\ Answer
  BY <1>1 DEF CancelRow
<1>4. row \in [Tasks -> RowStatus] /\ ending \in [Tasks -> EndingKinds] /\ stopping \subseteq Tasks
      /\ "cancelled" \in RowStatus /\ "cancelled" \in EndingKinds /\ "cancelled" \in Ended
  BY <1>0 DEF ChainTypes, RowStatus, EndingKinds, Ended
<1>5. /\ row' \in [Tasks -> RowStatus]
      /\ \A s \in Tasks : /\ (s # t \/ row[t] # "queued") => row'[s] = row[s]
                          /\ (s = t /\ row[t] = "queued") => row'[s] = "cancelled"
  BY <1>2, <1>4
<1>6. /\ ending' \in [Tasks -> EndingKinds]
      /\ \A s \in Tasks : /\ s # t \/ row[t] # "queued" => ending'[s] = ending[s]
                          /\ s = t /\ row[t] = "queued" => ending'[s] = "cancelled"
  BY <1>2, <1>4
<1>7. stopping \subseteq stopping' /\ stopping' \subseteq Tasks /\ (row[t] = "running" => t \in stopping')
      /\ \A s \in stopping' : s \in stopping \/ (s = t /\ row[t] = "running")
  BY <1>2, <1>4
<1>8. RowsStep
  BY <1>4, <1>5, <1>6, StatusFacts DEF RowsStep
<1>9. \A s \in Tasks : row[s] = "running" => row'[s] = "running"
  BY <1>5
<1>10. \A s \in stopping' : row'[s] = "running"
  BY <1>0, <1>4, <1>7, <1>9 DEF Routes
<1>11. Monotone
  BY <1>2, <1>8, StatusFacts DEF Monotone, RowsStep
<1>12. StopsStay
  BY <1>0, <1>2, <1>7, <1>8, RowsKeepStops
<1>13. canceller \in CancelRecord /\ (canceller.chained => chainOf[t] = chainOf[k] /\ chainOf[k] \in Tasks)
       /\ route[t] \in {"accepted", "rejected"} /\ route[k] # "none"
  BY <1>0, <1>1, <1>2, CancellerKnows DEF Cancelling
<1>14. CASE /\ canceller.chained /\ row[t] \in Ended
            /\ canceller' = [canceller EXCEPT !.phase = "again"] /\ answered' = answered
  <2>1. /\ canceller' \in CancelRecord /\ canceller'.phase = "again" /\ canceller'.task = k
        /\ canceller'.current = t /\ canceller'.chained = canceller.chained
    BY <1>1, <1>13, <1>14 DEF CancelRecord
  <2>2. \A a \in answered' : a.chained =>
          a.task # 0 /\ chainOf'[a.task] # 0 /\ ChainStopped(chainOf[a.task])'
    BY <1>0, <1>11, <1>12, <1>14, AnsweredStay
  <2>3. row'[t] \in Ended /\ k # 0 /\ t # 0 /\ chainOf[k] # 0
    BY <1>11, <1>13, <1>14, TaskFacts DEF Monotone
  <2>4. Cancelling'
    BY <1>2, <1>13, <1>14, <2>1, <2>2, <2>3 DEF Cancelling, ChainStopped, Ended
  <2>5. ChainTypes'
    BY <1>0, <1>2, <1>5, <1>6, <1>7, <1>14, <2>1 DEF ChainTypes
  <2> QED BY <1>2, <1>8, <1>9, <1>10, <2>4, <2>5, RowsMove, ReportsStay, MailboxStays
<1>15. CASE ~(canceller.chained /\ row[t] \in Ended) /\ Answer
  <2>1. canceller.chained => \E c \in Tasks : c = chainOf[canceller.task] /\ ChainStopped(c)'
    <3> SUFFICES ASSUME canceller.chained
                 PROVE  \E c \in Tasks : c = chainOf[canceller.task] /\ ChainStopped(c)'
      OBVIOUS
    <3>1. PICK c \in Tasks : c = chainOf[k] /\ c = chainOf[t]
      BY <1>13
    <3>2. chainOf[t] # 0
      BY <3>1, TaskFacts
    <3>3. CASE row[t] \in Live
      <4>1. chain[c].state = "running" /\ chain[c].current = t
        BY <1>0, <3>1, <3>2, <3>3 DEF ChainsFit
      <4>2. t \in stopping' \/ row'[t] = "cancelled"
        BY <1>5, <1>7, <3>3, StatusFacts
      <4>3. ChainStopped(c)'
        BY <1>2, <4>1, <4>2 DEF ChainStopped, Ended
      <4> QED BY <1>1, <3>1, <4>3
    <3>4. CASE row[t] = "none"
      <4>1. route[t] = "rejected"
        BY <1>0, <1>13, <3>4 DEF Routes
      <4>2. chain[c].state = "ended"
        BY <1>0, <3>1, <3>2, <4>1 DEF ChainsFit
      <4>3. ChainStopped(c)'
        BY <1>2, <4>2 DEF ChainStopped
      <4> QED BY <1>1, <3>1, <4>3
    <3> QED BY <1>4, <1>15, <3>3, <3>4, StatusFacts
  <2>2. Cancelling'
    BY <1>0, <1>11, <1>12, <1>15, <2>1, AnswerCounts
  <2>3. canceller' \in CancelRecord /\ answered' \subseteq [task : 0 .. MaxTasks, chained : BOOLEAN]
    BY <1>0, <1>15, AnswerType
  <2>4. ChainTypes'
    BY <1>0, <1>2, <1>5, <1>6, <1>7, <2>3 DEF ChainTypes
  <2> QED BY <1>2, <1>8, <1>9, <1>10, <2>2, <2>4, RowsMove, ReportsStay, MailboxStays
<1> QED BY <1>3, <1>14, <1>15

-----------------------------------------------------------------------------
(* The work of a task ends: before its launch, or with its event *)

LEMMA EndChain ==
    ASSUME ChainInv, NEW t \in Tasks, NEW result \in Ended, end_chain_on(t, result)
    PROVE  /\ chain' \in [Tasks -> ChainRow]
           /\ \A c \in Tasks :
                 \/ chain'[c] = chain[c] /\ ~(Owner(t) /\ chainOf[t] = c)
                 \/ /\ Owner(t) /\ chainOf[t] = c /\ chain[c].state \in {"running", "waiting"}
                    /\ chain'[c].state = "ended" /\ chain'[c].outcome = result
                    /\ chain'[c].runs = chain[c].runs
<1>0. ChainTypes
  BY DEF ChainInv
<1>1. chain \in [Tasks -> ChainRow]
  BY <1>0 DEF ChainTypes
<1>2. CASE ~Owner(t)
  BY <1>1, <1>2 DEF end_chain_on
<1>3. CASE Owner(t)
  <2>1. chainOf[t] \in Tasks /\ chain[chainOf[t]].state \in {"running", "waiting"}
    BY <1>3, CurrentRun, TaskFacts DEF Owner
  <2>2. PICK e \in Tasks : e = chainOf[t]
    BY <2>1
  <2> DEFINE r == [NoChain EXCEPT !.state = "ended", !.runs = chain[e].runs, !.outcome = result]
  <2>3. chain' = [chain EXCEPT ![e] = r]
    BY <1>3, <2>2 DEF end_chain_on
  <2>4. r \in ChainRow /\ r.state = "ended" /\ r.outcome = result /\ r.runs = chain[e].runs
    <3>1. chain[e].runs \in 0 .. MaxRuns /\ 0 \in 0 .. MaxTasks /\ result \in Outcomes
      BY <1>1, TaskFacts DEF ChainRow, Outcomes
    <3> QED BY <3>1 DEF NoChain, ChainRow
  <2> HIDE DEF r
  <2> QED BY <1>1, <1>3, <2>1, <2>2, <2>3, <2>4
<1> QED BY <1>2, <1>3

\* How the work of `t' ends: its route was held, or its row had ended
WorkEnd(t, result) ==
    /\ UNCHANGED <<body, fresh, row, stopping, report, thread, chainOf, mailbox>>
    /\ \A s \in Tasks \ {t} : /\ route'[s] = route[s] /\ outcome'[s] = outcome[s]
                              /\ ending'[s] = ending[s]
    /\ outcome[t] # "none" => outcome'[t] = outcome[t]
    /\ \/ /\ route[t] = "held" /\ route'[t] \in {"cancelled", "rejected"} /\ ending'[t] = ending[t]
          /\ end_chain_on(t, result)
       \/ /\ row[t] \in Ended /\ route'[t] = route[t] /\ ending'[t] = "none"
          /\ outcome'[t] # "none" \/ chainOf[t] # 0
          /\ end_chain_on(t, result) \/ chain' = chain

LEMMA WorkEndChains ==
    ASSUME ChainInv, NEW t \in Tasks, NEW result \in Ended, WorkEnd(t, result)
    PROVE  /\ row[t] \notin Live /\ t \in 1 .. fresh
           /\ route[t] = "held" => row[t] = "none"
           /\ \A c \in Tasks :
                 \/ chain'[c] = chain[c]
                 \/ /\ Owner(t) /\ chainOf[t] = c /\ chain[c].state \in {"running", "waiting"}
                    /\ chain'[c].state = "ended" /\ chain'[c].outcome = result
                    /\ chain'[c].runs = chain[c].runs
           /\ route[t] = "held" /\ chainOf[t] # 0 => chain'[chainOf[t]].state = "ended"
<1>0. ChainTypes /\ Ids /\ Routes /\ ChainsFit
  BY DEF ChainInv
<1>1. route[t] # "none" /\ (route[t] = "held" => row[t] = "none") /\ row[t] \notin Live
  BY <1>0, StatusFacts DEF Routes, WorkEnd
<1>2. t \in 1 .. fresh
  BY <1>0, <1>1, KnownId
<1>3. \A c \in Tasks :
         \/ chain'[c] = chain[c] /\ (~(Owner(t) /\ chainOf[t] = c) \/ row[t] \in Ended)
         \/ /\ Owner(t) /\ chainOf[t] = c /\ chain[c].state \in {"running", "waiting"}
            /\ chain'[c].state = "ended" /\ chain'[c].outcome = result
            /\ chain'[c].runs = chain[c].runs
  BY EndChain DEF WorkEnd
<1>4. ASSUME route[t] = "held", chainOf[t] # 0
      PROVE  chain'[chainOf[t]].state = "ended"
  <2>1. chainOf[t] \in Tasks
    BY <1>0, <1>4, TaskFacts DEF ChainTypes
  <2>2. Owner(t)
    BY <1>0, <1>4 DEF ChainsFit, Owner, chain_current_run
  <2>3. row[t] \notin Ended
    BY <1>1, <1>4, StatusFacts
  <2> QED BY <1>3, <2>1, <2>2, <2>3
<1> QED BY <1>1, <1>2, <1>3, <1>4

LEMMA WorkEndStops ==
    ASSUME ChainInv, NEW t \in Tasks, NEW result \in Ended, WorkEnd(t, result)
    PROVE  Monotone /\ StopsStay
<1>1. /\ UNCHANGED <<row, stopping, chainOf>>
      /\ \A s \in Tasks \ {t} : route'[s] = route[s]
      /\ route'[t] = route[t] \/ (route[t] = "held" /\ route'[t] \in {"cancelled", "rejected"})
  BY DEF WorkEnd
<1>2. Monotone
  BY <1>1 DEF Monotone, Ended
<1>3. \A c \in Tasks : chain'[c] = chain[c] \/ chain'[c].state = "ended"
  BY WorkEndChains
<1>4. StopsStay
  BY <1>1, <1>3 DEF StopsStay, ChainStopped, Ended
<1> QED BY <1>2, <1>4

LEMMA WorkEnds ==
    ASSUME ChainInv, ChainTypes', NEW t \in Tasks, NEW result \in Ended, WorkEnd(t, result), Cancelling'
    PROVE  ChainInv'
<1>0. /\ ChainTypes /\ Ids /\ Routes /\ Endings /\ ChainsFit /\ Releases /\ ParkedRuns
      /\ OneResumerPerThread
  BY DEF ChainInv
<1>1. /\ UNCHANGED <<body, fresh, row, stopping, report, thread, chainOf, mailbox>>
      /\ \A s \in Tasks : s # t => route'[s] = route[s] /\ outcome'[s] = outcome[s] /\ ending'[s] = ending[s]
      /\ outcome[t] # "none" => outcome'[t] = outcome[t]
      /\ \/ route[t] = "held" /\ route'[t] \in {"cancelled", "rejected"} /\ ending'[t] = ending[t]
         \/ /\ row[t] \in Ended /\ route'[t] = route[t] /\ ending'[t] = "none"
            /\ outcome'[t] # "none" \/ chainOf[t] # 0
  BY DEF WorkEnd
<1>2. /\ row[t] \notin Live /\ t \in 1 .. fresh /\ (route[t] = "held" => row[t] = "none")
      /\ route[t] = "held" /\ chainOf[t] # 0 => chain'[chainOf[t]].state = "ended"
  BY WorkEndChains
<1>3. \A c \in Tasks :
         \/ chain'[c] = chain[c]
         \/ /\ Owner(t) /\ chainOf[t] = c /\ chain[c].state \in {"running", "waiting"}
            /\ chain'[c].state = "ended" /\ chain'[c].outcome = result
            /\ chain'[c].runs = chain[c].runs
  BY WorkEndChains
<1>4. /\ fresh \in Nat /\ t <= fresh /\ \A s \in Tasks : s \in Nat
  BY <1>0, <1>2, TaskFacts, FreshType
<1>5. \A c \in Tasks : chainOf[c] # 0 => chainOf[c] \in Tasks
  BY <1>0, TaskFacts DEF ChainTypes
<1>6. Ids'
  <2>1. \A s \in Tasks : s > fresh => s # t
    BY <1>4
  <2>2. \A c \in Tasks : chain[c].state = "none" => chain'[c].state = "none"
    BY <1>3
  <2>3. \A s \in Tasks : s > fresh => /\ body[s] = NoBody /\ route'[s] = "none" /\ row[s] = "none"
                                      /\ outcome'[s] = "none" /\ ending'[s] = "none"
                                      /\ chainOf[s] = 0 /\ chain'[s].state = "none"
    BY <1>0, <1>1, <2>1, <2>2 DEF Ids
  <2> QED BY <1>0, <1>1, <2>3 DEF Ids
<1>7. Routes'
  <2>1. \A s \in Tasks : /\ (route'[s] = "accepted") = (route[s] = "accepted")
                         /\ (route'[s] = "none") = (route[s] = "none")
    BY <1>1
  <2> QED BY <1>0, <1>1, <2>1 DEF Routes
<1>8. Endings'
  <2>1. \A c \in Tasks : chain'[c].runs = chain[c].runs
    BY <1>3
  <2>2. ASSUME NEW s \in Tasks
        PROVE  /\ ending'[s] # "none" => row[s] \in Ended
               /\ ending'[s] = "waiting" => chainOf[s] # 0
    BY <1>0, <1>1 DEF Endings
  <2>3. ASSUME NEW s \in Tasks
        PROVE  /\ outcome'[s] # "none" => row[s] \in Ended \/ route'[s] \in {"cancelled", "rejected"}
               /\ row[s] \in Ended /\ ending'[s] = "none" => outcome'[s] # "none" \/ chainOf[s] # 0
    <3>1. CASE s # t
      BY <1>0, <1>1, <3>1 DEF Endings
    <3>2. CASE s = t
      BY <1>1, <1>2, <3>2, StatusFacts
    <3> QED BY <3>1, <3>2
  <2>4. ASSUME NEW s \in Tasks, report[s] # {}
        PROVE  row[s] = "running" /\ MaxRuns > 1 /\ (chainOf[s] # 0 => chain'[chainOf[s]].runs < MaxRuns)
    BY <1>0, <1>5, <2>1, <2>4 DEF Endings
  <2> QED BY <1>1, <2>2, <2>3, <2>4 DEF Endings, Ended
<1>9. ChainsFit'
  <2>0. \A c \in Tasks : /\ chain[c].state = "running" => chain[c].current # 0 /\ chainOf[chain[c].current] = c
                         /\ chain[c].state = "waiting" => chain[c].next # 0 /\ chainOf[chain[c].next] = c
                                                          /\ route[chain[c].next] = "held" /\ chain[c].next \in Tasks
    <3>1. \A c \in Tasks : chain[c].next \in 0 .. MaxTasks
      BY <1>0 DEF ChainTypes, ChainRow
    <3> QED BY <1>0, <3>1, TaskFacts DEF ChainsFit
  <2>1. ASSUME NEW c \in Tasks
        PROVE  /\ chain'[c].state # "none" => chainOf[c] = c
               /\ chain'[c].state = "running" => chain'[c].current # 0 /\ chainOf[chain'[c].current] = c
               /\ chain'[c].state = "ended" => chain'[c].outcome # "none"
    BY <1>0, <1>3, <2>0, StatusFacts DEF ChainsFit
  <2>2. ASSUME NEW c \in Tasks, chain'[c].state = "waiting"
        PROVE  chain'[c].next # 0 /\ chainOf[chain'[c].next] = c /\ route'[chain'[c].next] = "held"
    <3>1. chain'[c] = chain[c]
      BY <1>3, <2>2
    <3>2. chain[c].next # t
      BY <1>1, <1>2, <2>0, <2>2, <3>1, TaskFacts
    <3> QED BY <1>1, <2>0, <2>2, <3>1, <3>2
  <2>3. ASSUME NEW s \in Tasks, chainOf[s] # 0
        PROVE  LET c == chain'[chainOf[s]]
               IN  /\ c.state # "none" /\ route'[s] # "none"
                   /\ row[s] \in Live => c.state = "running" /\ c.current = s
                   /\ route'[s] = "held" => c.state = "waiting" /\ c.next = s
                   /\ route'[s] \in {"cancelled", "rejected"} => c.state = "ended"
    <3>1. PICK e \in Tasks : e = chainOf[s]
      BY <1>5, <2>3
    <3>2. /\ chain[e].state # "none" /\ route[s] # "none"
          /\ row[s] \in Live => chain[e].state = "running" /\ chain[e].current = s
          /\ route[s] = "held" => chain[e].state = "waiting" /\ chain[e].next = s
          /\ route[s] \in {"cancelled", "rejected"} => chain[e].state = "ended"
      BY <1>0, <2>3, <3>1 DEF ChainsFit
    <3>3. CASE chain'[e] = chain[e]
      <4>1. CASE s # t
        BY <1>1, <3>1, <3>2, <3>3, <4>1
      <4>2. CASE s = t /\ route'[t] = route[t]
        BY <3>1, <3>2, <3>3, <4>2
      <4>3. CASE s = t /\ route[t] = "held" /\ route'[t] \in {"cancelled", "rejected"}
        <5>1. chain'[e].state = "ended"
          BY <1>2, <2>3, <3>1, <4>3
        <5> QED BY <1>2, <3>1, <3>2, <4>3, <5>1
      <4> QED BY <1>1, <4>1, <4>2, <4>3
    <3>4. CASE /\ Owner(t) /\ chainOf[t] = e /\ chain[e].state \in {"running", "waiting"}
               /\ chain'[e].state = "ended"
      <4>1. (chain[e].state = "running" /\ chain[e].current = t) \/ (chain[e].state = "waiting" /\ chain[e].next = t)
        BY <2>3, <3>1, <3>4, TaskFacts DEF Owner, chain_current_run
      <4>2. row[s] \notin Live
        BY <1>2, <2>0, <3>2, <4>1, StatusFacts
      <4>3. route'[s] # "held"
        BY <1>1, <3>2, <4>1, <1>2, StatusFacts
      <4>4. route'[s] # "none"
        BY <1>1, <3>2
      <4> QED BY <3>1, <3>4, <4>2, <4>3, <4>4
    <3> QED BY <1>3, <3>3, <3>4
  <2> QED BY <1>1, <2>1, <2>2, <2>3 DEF ChainsFit, Live
<1>10. Releases'
  <2>1. DepsKept
    <3>1. 1 .. fresh \subseteq Tasks
      BY <1>0, FreshType
    <3>2. \A d \in 1 .. fresh : outcome[d] # "none" => outcome'[d] = outcome[d]
      BY <1>1, <3>1
    <3>3. \A c \in Tasks : chain[c].state = "ended" => chain'[c] = chain[c]
      BY <1>3
    <3> QED BY <1>1, <1>5, <3>1, <3>2, <3>3 DEF DepsKept
  <2>2. \A s \in Tasks : row'[s] # "none" => s \in 1 .. fresh
    BY <1>0, <1>1, KnownId
  <2> QED BY <1>0, <1>1, <2>1, <2>2, ReleasesStay, MailboxStays
<1>11. ParkedRuns' /\ OneResumerPerThread'
  <2>1. \A c \in Tasks : chain'[c].state = "waiting" => chain'[c] = chain[c]
    BY <1>3
  <2>2. ParkedRuns'
    BY <1>0, <1>1, <2>1 DEF ParkedRuns
  <2>3. Live' = Live
    BY DEF Live
  <2>4. OneResumerPerThread'
    BY <1>0, <1>1, <2>1, <2>3 DEF OneResumerPerThread
  <2> QED BY <2>2, <2>4
<1> QED BY <1>6, <1>7, <1>8, <1>9, <1>10, <1>11 DEF ChainInv

LEMMA EndUnlaunchedWorks ==
    ASSUME ChainInv, NEW t \in Tasks, NEW sub \in {"cancelled", "rejected"}, NEW result \in Ended,
           route[t] = "held", EndUnlaunched(t, sub, result),
           UNCHANGED <<body, fresh, row, stopping, report, thread, ending, chainOf, mailbox>>
    PROVE  /\ WorkEnd(t, result)
           /\ route' \in [Tasks -> RouteStatus] /\ outcome' \in [Tasks -> Outcomes]
           /\ chain' \in [Tasks -> ChainRow]
<1>0. ChainTypes
  BY DEF ChainInv
<1>1. route \in [Tasks -> RouteStatus] /\ outcome \in [Tasks -> Outcomes] /\ result \in Outcomes
      /\ sub \in RouteStatus
  BY <1>0 DEF ChainTypes, Outcomes, RouteStatus
<1>2. /\ route' = [route EXCEPT ![t] = sub] /\ end_chain_on(t, result)
      /\ outcome' = [outcome EXCEPT ![t] = IF outcome[t] = "none" THEN result ELSE outcome[t]]
  BY DEF EndUnlaunched
<1>3. chain' \in [Tasks -> ChainRow]
  BY <1>2, EndChain
<1>4. route' \in [Tasks -> RouteStatus] /\ outcome' \in [Tasks -> Outcomes]
  BY <1>1, <1>2
<1>5. WorkEnd(t, result)
  BY <1>1, <1>2 DEF WorkEnd
<1> QED BY <1>3, <1>4, <1>5

LEMMA SettleEndsKeeps ==
    ASSUME ChainInv, NEW t \in Tasks, NEW sub \in {"cancelled", "rejected"}, NEW result \in Ended,
           route[t] = "held", EndUnlaunched(t, sub, result),
           UNCHANGED <<body, fresh, row, stopping, report, thread, ending, chainOf, mailbox,
                       launching, canceller, cancels, answered, taskFaults>>
    PROVE  ChainInv'
<1>0. ChainTypes /\ Cancelling
  BY DEF ChainInv
<1>1. /\ WorkEnd(t, result)
      /\ route' \in [Tasks -> RouteStatus] /\ outcome' \in [Tasks -> Outcomes]
      /\ chain' \in [Tasks -> ChainRow]
  BY EndUnlaunchedWorks
<1>2. ChainTypes'
  BY <1>0, <1>1 DEF ChainTypes
<1>3. Cancelling'
  BY <1>0, <1>1, WorkEndStops, CancellingStays
<1> QED BY <1>1, <1>2, <1>3, WorkEnds

LEMMA CancelHeldKeeps ==
    ASSUME ChainInv, CancelHeld
    PROVE  ChainInv'
<1>0. ChainTypes /\ Cancelling
  BY DEF ChainInv
<1>1. PICK k \in Tasks, t \in Tasks : k = canceller.task /\ t = canceller.current
  BY CancellerKnows DEF CancelHeld
<1>2. /\ canceller.phase = "held"
      /\ UNCHANGED <<body, fresh, row, stopping, report, thread, ending,
                     chainOf, mailbox, launching, cancels, taskFaults>>
  BY DEF CancelHeld, CancelRest
<1>3. CASE route[t] = "held" /\ EndUnlaunched(t, "cancelled", "cancelled") /\ Answer
  <2>1. /\ WorkEnd(t, "cancelled")
        /\ route' \in [Tasks -> RouteStatus] /\ outcome' \in [Tasks -> Outcomes]
        /\ chain' \in [Tasks -> ChainRow] /\ "cancelled" \in Ended
    BY <1>2, <1>3, EndUnlaunchedWorks DEF Ended
  <2>2. ChainTypes'
    BY <1>0, <1>2, <1>3, <2>1, AnswerType DEF ChainTypes
  <2>3. Monotone /\ StopsStay
    BY <2>1, WorkEndStops
  <2>4. canceller.chained => \E c \in Tasks : c = chainOf[canceller.task] /\ ChainStopped(c)'
    <3> SUFFICES ASSUME canceller.chained
                 PROVE  \E c \in Tasks : c = chainOf[canceller.task] /\ ChainStopped(c)'
      OBVIOUS
    <3>1. chainOf[k] \in Tasks /\ chainOf[t] = chainOf[k]
      BY <1>0, <1>1, <1>2, CancellerKnows DEF Cancelling
    <3>2. PICK c \in Tasks : c = chainOf[t] /\ c = chainOf[k]
      BY <3>1
    <3>3. chain'[c].state = "ended"
      <4>1. route[t] = "held" /\ chainOf[t] # 0 => chain'[chainOf[t]].state = "ended"
        BY <2>1, WorkEndChains
      <4> QED BY <1>3, <3>2, <4>1, TaskFacts
    <3>4. ChainStopped(c)'
      BY <3>3 DEF ChainStopped
    <3> QED BY <1>1, <3>2, <3>4
  <2>5. Cancelling'
    BY <1>0, <1>3, <2>3, <2>4, AnswerCounts
  <2> QED BY <2>1, <2>2, <2>5, WorkEnds
<1>4. CASE \/ route[t] = "cancelled" /\ Answer
           \/ /\ route[t] \notin {"held", "cancelled"}
              /\ canceller' = [canceller EXCEPT !.phase = "row"] /\ answered' = answered
  <2>1. UNCHANGED <<route, outcome, chain>>
    BY <1>1, <1>4 DEF CancelHeld
  <2> QED BY <1>1, <1>2, <1>4, <2>1, CancelHeldQuietKeeps
<1>5. \/ route[t] = "held" /\ EndUnlaunched(t, "cancelled", "cancelled") /\ Answer
      \/ route[t] = "cancelled" /\ Answer
      \/ /\ route[t] \notin {"held", "cancelled"}
         /\ canceller' = [canceller EXCEPT !.phase = "row"] /\ answered' = answered
  BY <1>1 DEF CancelHeld, cancel_held_route
<1> QED BY <1>3, <1>4, <1>5

LEMMA accept_eventKeeps ==
    ASSUME ChainInv, NEW t \in Tasks, accept_event(t)
    PROVE  ChainInv'
<1>0. ChainTypes /\ Endings /\ Cancelling
  BY DEF ChainInv
<1>1. /\ ending[t] # "none" /\ ending' = [ending EXCEPT ![t] = "none"] /\ record_outcome_on(t)
      /\ UNCHANGED <<body, fresh, route, row, stopping, report, thread, chainOf, mailbox,
                     launching, canceller, cancels, answered, taskFaults>>
  BY DEF accept_event
<1>2. /\ ending \in [Tasks -> EndingKinds] /\ outcome \in [Tasks -> Outcomes]
      /\ chain \in [Tasks -> ChainRow] /\ "none" \in EndingKinds /\ "lost" \in Ended
  BY <1>0 DEF ChainTypes, EndingKinds, Ended
<1>3. ending' \in [Tasks -> EndingKinds] /\ (\A s \in Tasks : s # t => ending'[s] = ending[s]) /\ ending'[t] = "none"
  BY <1>1, <1>2
<1>4. row[t] \in Ended /\ (ending[t] = "waiting" => chainOf[t] # 0)
  BY <1>0, <1>1 DEF Endings
<1>5. \E result \in Ended : /\ WorkEnd(t, result)
                            /\ outcome' \in [Tasks -> Outcomes] /\ chain' \in [Tasks -> ChainRow]
  <2>1. CASE ending[t] = "waiting"
    <3>1. UNCHANGED <<outcome, chain>>
      BY <1>1, <2>1 DEF record_outcome_on
    <3>2. WorkEnd(t, "lost")
      BY <1>1, <1>3, <1>4, <2>1, <3>1 DEF WorkEnd
    <3> QED BY <1>2, <3>1, <3>2
  <2>2. CASE ending[t] # "waiting"
    <3>1. ending[t] \in Ended /\ ending[t] \in Outcomes
      BY <1>1, <1>2, <2>2 DEF EndingKinds, Outcomes
    <3>2. /\ outcome' = [outcome EXCEPT ![t] = IF outcome[t] = "none" THEN ending[t] ELSE outcome[t]]
          /\ end_chain_on(t, ending[t])
      BY <1>1, <2>2 DEF record_outcome_on
    <3>3. /\ outcome' \in [Tasks -> Outcomes] /\ (\A s \in Tasks : s # t => outcome'[s] = outcome[s])
          /\ (outcome[t] # "none" => outcome'[t] = outcome[t]) /\ outcome'[t] # "none"
      BY <1>1, <1>2, <3>1, <3>2
    <3>4. WorkEnd(t, ending[t])
      BY <1>1, <1>3, <1>4, <3>2, <3>3 DEF WorkEnd
    <3>5. chain' \in [Tasks -> ChainRow]
      BY <3>1, <3>2, EndChain
    <3> QED BY <3>1, <3>3, <3>4, <3>5
  <2> QED BY <2>1, <2>2
<1>6. PICK result \in Ended : /\ WorkEnd(t, result)
                              /\ outcome' \in [Tasks -> Outcomes] /\ chain' \in [Tasks -> ChainRow]
  BY <1>5
<1>7. ChainTypes'
  BY <1>0, <1>1, <1>3, <1>6 DEF ChainTypes
<1>8. Cancelling'
  BY <1>0, <1>1, <1>6, WorkEndStops, CancellingStays
<1> QED BY <1>6, <1>7, <1>8, WorkEnds

-----------------------------------------------------------------------------
(* A launch commits *)

LEMMA StartContinuation ==
    ASSUME ChainInv, NEW t \in Tasks, route[t] \in {"none", "held"}, start_continuation_on(t)
    PROVE  /\ chain' \in [Tasks -> ChainRow]
           /\ \A c \in Tasks :
                 \/ chain'[c] = chain[c] /\ c # chainOf[t]
                 \/ /\ c = chainOf[t] /\ chain[c].state = "waiting" /\ chain[c].next = t
                    /\ chain'[c].state = "running" /\ chain'[c].current = t
                    /\ chain'[c].runs = chain[c].runs
<1>0. ChainTypes /\ ChainsFit
  BY DEF ChainInv
<1>1. chain \in [Tasks -> ChainRow]
  BY <1>0 DEF ChainTypes
<1>2. CASE chainOf[t] = 0
  BY <1>1, <1>2, TaskFacts DEF start_continuation_on
<1>3. CASE chainOf[t] # 0
  <2>1. PICK e \in Tasks : e = chainOf[t]
    BY <1>0, <1>3, TaskFacts DEF ChainTypes
  <2>2. chain[e].state = "waiting" /\ chain[e].next = t
    BY <1>0, <1>3, <2>1 DEF ChainsFit
  <2> DEFINE r == [NoChain EXCEPT !.state = "running", !.current = t, !.runs = chain[e].runs]
  <2>3. chain' = [chain EXCEPT ![e] = r]
    BY <1>3, <2>1, <2>2 DEF start_continuation_on
  <2>4. r \in ChainRow /\ r.state = "running" /\ r.current = t /\ r.runs = chain[e].runs
    <3>1. chain[e].runs \in 0 .. MaxRuns /\ 0 \in 0 .. MaxTasks /\ t \in 0 .. MaxTasks /\ "none" \in Outcomes
      BY <1>1, TaskFacts DEF ChainRow, Outcomes
    <3> QED BY <3>1 DEF NoChain, ChainRow
  <2> HIDE DEF r
  <2> QED BY <1>1, <2>1, <2>2, <2>3, <2>4
<1> QED BY <1>2, <1>3

\* What commits: a route that was held, or a request without a route
LEMMA AdmitsFacts ==
    ASSUME ChainInv, NEW m \in Launch, Admits(m), ~(m.released /\ row[m.task] # "none")
    PROVE  /\ route[m.task] \in {"none", "held"} /\ row[m.task] = "none"
           /\ route[m.task] = "none" =>
                 \A u \in Tasks : route[u] # "none" => body[u].request # body[m.task].request
           /\ body[m.task].resume # 0 => \A u \in Tasks \ {m.task} :
                 /\ ~(row[u] \in Live /\ body[u].resume = body[m.task].resume)
                 /\ ~(route[u] = "held" /\ body[u].resume = body[m.task].resume /\ chainOf[u] # 0)
<1>0. ChainTypes /\ Routes /\ ChainsFit /\ m.task \in Tasks
  BY DEF ChainInv, Launch
<1>1. /\ route[m.task] \in {"none", "held"}
      /\ route[m.task] = "none" =>
            \A u \in Tasks : route[u] # "none" => body[u].request # body[m.task].request
  BY <1>0 DEF Admits, Saved
<1>2. row[m.task] = "none"
  BY <1>0, <1>1 DEF Routes
<1>3. ASSUME body[m.task].resume # 0, NEW u \in Tasks \ {m.task}
      PROVE  /\ ~(row[u] \in Live /\ body[u].resume = body[m.task].resume)
             /\ ~(route[u] = "held" /\ body[u].resume = body[m.task].resume /\ chainOf[u] # 0)
  <2>1. ~(row[u] \in Live /\ body[u].resume = body[m.task].resume)
        /\ ~thread_reserved_by_on(m.task, body[m.task].resume)
    BY <1>3 DEF Admits, reject_busy_resume_thread_on
  <2>2. ASSUME route[u] = "held", body[u].resume = body[m.task].resume, chainOf[u] # 0
        PROVE  FALSE
    <3>1. PICK c \in Tasks : c = chainOf[u]
      BY <1>0, <2>2, TaskFacts DEF ChainTypes
    <3>2. chain[c].state = "waiting" /\ chain[c].next = u
      BY <1>0, <2>2, <3>1 DEF ChainsFit
    <3> QED BY <2>1, <2>2, <3>2 DEF thread_reserved_by_on
  <2> QED BY <2>1, <2>2
<1> QED BY <1>1, <1>2, <1>3

LEMMA LaunchCommitsKeeps ==
    ASSUME ChainInv, NEW t \in Tasks, mailbox # <<>>, Head(mailbox).task = t,
           ~(Head(mailbox).released /\ row[t] # "none"), Admits(Head(mailbox)),
           row' = [row EXCEPT ![t] = "queued"], route' = [route EXCEPT ![t] = "accepted"],
           start_continuation_on(t), mailbox' = Tail(mailbox),
           launching' \in 0 .. MaxTasks, taskFaults' \in 0 .. MaxTaskFaults,
           UNCHANGED <<body, fresh, stopping, report, thread, ending, outcome, chainOf, canceller,
                       cancels, answered>>
    PROVE  ChainInv'
<1>0. /\ ChainTypes /\ Ids /\ Routes /\ Endings /\ ChainsFit /\ Releases /\ ParkedRuns
      /\ OneResumerPerThread /\ Cancelling
  BY DEF ChainInv
<1>1. /\ mailbox' \in Seq(Launch) /\ Head(mailbox) \in Launch /\ t \in 1 .. fresh /\ Ready(t)
      /\ \A i \in 1 .. Len(mailbox') : mailbox'[i].task \in 1 .. fresh /\ Ready(mailbox'[i].task)
  BY MailboxTail
<1>2. /\ route[t] \in {"none", "held"} /\ row[t] = "none"
      /\ route[t] = "none" => \A u \in Tasks : route[u] # "none" => body[u].request # body[t].request
      /\ body[t].resume # 0 => \A u \in Tasks \ {t} :
            /\ ~(row[u] \in Live /\ body[u].resume = body[t].resume)
            /\ ~(route[u] = "held" /\ body[u].resume = body[t].resume /\ chainOf[u] # 0)
  BY <1>1, AdmitsFacts
<1>3. chain' \in [Tasks -> ChainRow]
  BY <1>2, StartContinuation
<1>4. \A c \in Tasks :
         \/ chain'[c] = chain[c] /\ c # chainOf[t]
         \/ /\ c = chainOf[t] /\ chain[c].state = "waiting" /\ chain[c].next = t
            /\ chain'[c].state = "running" /\ chain'[c].current = t
            /\ chain'[c].runs = chain[c].runs
  BY <1>2, StartContinuation
<1>5. /\ row \in [Tasks -> RowStatus] /\ route \in [Tasks -> RouteStatus]
      /\ "queued" \in RowStatus /\ "accepted" \in RouteStatus
  BY <1>0 DEF ChainTypes, RowStatus, RouteStatus, Live
<1>6. /\ row' \in [Tasks -> RowStatus] /\ row'[t] = "queued" /\ \A s \in Tasks : s # t => row'[s] = row[s]
  BY <1>5
<1>7. /\ route' \in [Tasks -> RouteStatus] /\ route'[t] = "accepted" /\ \A s \in Tasks : s # t => route'[s] = route[s]
  BY <1>5
<1>8. ChainTypes'
  BY <1>0, <1>1, <1>3, <1>6, <1>7 DEF ChainTypes
<1>9. \A c \in Tasks : chainOf[c] # 0 => chainOf[c] \in Tasks
  BY <1>0, TaskFacts DEF ChainTypes
<1>10. fresh \in Nat /\ t <= fresh /\ \A s \in Tasks : s \in Nat
  BY <1>0, <1>1, TaskFacts, FreshType
<1>11. Ids'
  <2>1. \A s \in Tasks : s > fresh => s # t
    BY <1>10
  <2>2. \A c \in Tasks : chain[c].state = "none" => chain'[c].state = "none"
    BY <1>4
  <2>3. \A s \in Tasks : s > fresh => /\ body[s] = NoBody /\ route'[s] = "none" /\ row'[s] = "none"
                                      /\ outcome[s] = "none" /\ ending[s] = "none"
                                      /\ chainOf[s] = 0 /\ chain'[s].state = "none"
    BY <1>0, <1>6, <1>7, <2>1, <2>2 DEF Ids
  <2>4. \A i \in 1 .. Len(mailbox') : mailbox'[i].task <= fresh
    <3>1. \A x \in 1 .. fresh : x <= fresh
      BY <1>10
    <3> QED BY <1>1, <3>1
  <2> QED BY <1>0, <2>3, <2>4 DEF Ids
<1>12. Routes'
  <2>1. \A s \in Tasks : (row'[s] # "none") = (route'[s] = "accepted")
    BY <1>0, <1>6, <1>7 DEF Routes
  <2>2. ASSUME NEW s \in Tasks, NEW u \in Tasks, route'[s] # "none", route'[u] # "none",
               body[s].request = body[u].request
        PROVE  s = u
    BY <1>0, <1>2, <1>7, <2>2 DEF Routes
  <2>3. \A s \in stopping : row'[s] = "running"
    BY <1>0, <1>2, <1>6 DEF Routes, ChainTypes
  <2> QED BY <2>1, <2>2, <2>3 DEF Routes
<1>13. Endings'
  <2>1. \A c \in Tasks : chain'[c].runs = chain[c].runs
    BY <1>4
  <2>2. ending[t] = "none" /\ outcome[t] = "none" /\ report[t] = {}
    BY <1>0, <1>2, StatusFacts DEF Endings
  <2>3. ASSUME NEW s \in Tasks
        PROVE  /\ ending[s] # "none" => row'[s] \in Ended
               /\ ending[s] = "waiting" => chainOf[s] # 0
               /\ outcome[s] # "none" => row'[s] \in Ended \/ route'[s] \in {"cancelled", "rejected"}
               /\ row'[s] \in Ended /\ ending[s] = "none" => outcome[s] # "none" \/ chainOf[s] # 0
    BY <1>0, <1>6, <1>7, <2>2, StatusFacts DEF Endings
  <2>4. ASSUME NEW s \in Tasks, report[s] # {}
        PROVE  row'[s] = "running" /\ MaxRuns > 1 /\ (chainOf[s] # 0 => chain'[chainOf[s]].runs < MaxRuns)
    BY <1>0, <1>6, <1>9, <2>1, <2>2, <2>4 DEF Endings
  <2> QED BY <2>3, <2>4 DEF Endings, Ended
<1>14. ChainsFit'
  <2>0. \A c \in Tasks : /\ chain[c].state = "running" => chain[c].current # 0 /\ chainOf[chain[c].current] = c
                         /\ chain[c].state = "waiting" => chain[c].next # 0 /\ chainOf[chain[c].next] = c
                                                          /\ route[chain[c].next] = "held" /\ chain[c].next \in Tasks
    <3>1. \A c \in Tasks : chain[c].next \in 0 .. MaxTasks
      BY <1>0 DEF ChainTypes, ChainRow
    <3> QED BY <1>0, <3>1, TaskFacts DEF ChainsFit
  <2>1. ASSUME NEW c \in Tasks
        PROVE  /\ chain'[c].state # "none" => chainOf[c] = c
               /\ chain'[c].state = "running" => chain'[c].current # 0 /\ chainOf[chain'[c].current] = c
               /\ chain'[c].state = "waiting" => /\ chain'[c].next # 0 /\ chainOf[chain'[c].next] = c
                                                 /\ route'[chain'[c].next] = "held"
               /\ chain'[c].state = "ended" => chain'[c].outcome # "none"
    <3>1. CASE chain'[c] = chain[c] /\ c # chainOf[t]
      BY <1>0, <1>7, <2>0, <3>1 DEF ChainsFit
    <3>2. CASE /\ c = chainOf[t] /\ chain[c].state = "waiting"
               /\ chain'[c].state = "running" /\ chain'[c].current = t
      BY <1>0, <3>2, TaskFacts DEF ChainsFit
    <3> QED BY <1>4, <3>1, <3>2
  <2>2. ASSUME NEW s \in Tasks, chainOf[s] # 0
        PROVE  LET c == chain'[chainOf[s]]
               IN  /\ c.state # "none" /\ route'[s] # "none"
                   /\ row'[s] \in Live => c.state = "running" /\ c.current = s
                   /\ route'[s] = "held" => c.state = "waiting" /\ c.next = s
                   /\ route'[s] \in {"cancelled", "rejected"} => c.state = "ended"
    <3>1. PICK e \in Tasks : e = chainOf[s]
      BY <1>9, <2>2
    <3>2. /\ chain[e].state # "none" /\ route[s] # "none"
          /\ row[s] \in Live => chain[e].state = "running" /\ chain[e].current = s
          /\ route[s] = "held" => chain[e].state = "waiting" /\ chain[e].next = s
          /\ route[s] \in {"cancelled", "rejected"} => chain[e].state = "ended"
      BY <1>0, <2>2, <3>1 DEF ChainsFit
    <3>3. CASE chain'[e] = chain[e] /\ e # chainOf[t]
      <4>1. s # t
        BY <3>1, <3>3
      <4> QED BY <1>6, <1>7, <3>1, <3>2, <3>3, <4>1
    <3>4. CASE /\ e = chainOf[t] /\ chain[e].state = "waiting" /\ chain[e].next = t
               /\ chain'[e].state = "running" /\ chain'[e].current = t
      <4>1. CASE s = t
        BY <1>7, <3>1, <3>4, <4>1
      <4>2. CASE s # t
        BY <1>6, <1>7, <3>1, <3>2, <3>4, <4>2
      <4> QED BY <4>1, <4>2
    <3> QED BY <1>4, <3>3, <3>4
  <2> QED BY <2>1, <2>2 DEF ChainsFit, Live
<1>15. Releases'
  <2>1. DepsKept
    <3>1. \A c \in Tasks : chain[c].state = "ended" => chain'[c] = chain[c]
      BY <1>4
    <3>2. 1 .. fresh \subseteq Tasks
      BY <1>0, FreshType
    <3> QED BY <1>9, <3>1, <3>2 DEF DepsKept
  <2>2. \A s \in Tasks : row'[s] # "none" => s \in 1 .. fresh
    <3>1. \A s \in Tasks : row[s] # "none" => s \in 1 .. fresh
      BY <1>0, KnownId
    <3> QED BY <1>1, <1>6, <3>1
  <2>3. \A s \in Tasks : row'[s] # "none" => row[s] # "none" \/ Ready(s)
    BY <1>1, <1>6
  <2> QED BY <1>0, <1>1, <2>1, <2>2, <2>3, ReleasesStay
<1>16. \A x \in 0 .. MaxTasks : x # 0 /\ row[x] \in Ended => row'[x] \in Ended
  BY <1>2, <1>6, TaskFacts, StatusFacts
<1>17. ParkedRuns'
  <2>1. \A c \in Tasks : chain'[c].state = "waiting" => chain'[c] = chain[c]
    BY <1>4
  <2> QED BY <1>0, <2>1 DEF ParkedRuns
<1>18. OneResumerPerThread'
  <2>1. ASSUME NEW s \in Tasks, row'[s] \in Live, body[s].resume # 0, NEW u \in Tasks \ {s}
        PROVE  ~(row'[u] \in Live /\ body[u].resume = body[s].resume)
    <3>1. CASE s = t
      BY <1>2, <1>6, <2>1, <3>1
    <3>2. CASE s # t /\ u = t
      BY <1>2, <1>6, <2>1, <3>2
    <3>3. CASE s # t /\ u # t
      BY <1>0, <1>6, <2>1, <3>3 DEF OneResumerPerThread
    <3> QED BY <3>1, <3>2, <3>3
  <2>2. ASSUME NEW s \in Tasks, row'[s] \in Live, body[s].resume # 0,
               NEW c \in Tasks, chain'[c].state = "waiting", body[chain'[c].current].resume # 0
        PROVE  body[chain'[c].next].resume # body[s].resume
    <3>1. chain'[c] = chain[c] /\ c # chainOf[t]
      BY <1>4, <2>2
    <3>2. PICK u \in Tasks : u = chain[c].next /\ u = chain'[c].next /\ chainOf[u] = c /\ route[u] = "held"
      <4>1. chain[c].next \in 0 .. MaxTasks
        BY <1>0 DEF ChainTypes, ChainRow
      <4> QED BY <1>0, <2>2, <3>1, <4>1, TaskFacts DEF ChainsFit
    <3>3. u # t /\ chainOf[u] # 0
      BY <3>1, <3>2, TaskFacts
    <3>4. CASE s = t
      BY <1>2, <2>2, <3>2, <3>3, <3>4
    <3>5. CASE s # t
      BY <1>0, <1>6, <2>2, <3>1, <3>5 DEF OneResumerPerThread
    <3> QED BY <3>4, <3>5
  <2> QED BY <2>1, <2>2 DEF OneResumerPerThread, Live
<1>19. Monotone
  BY <1>2, <1>6, <1>7, StatusFacts DEF Monotone
<1>20. StopsStay
  <2> SUFFICES ASSUME NEW c \in Tasks, ChainStopped(c) PROVE ChainStopped(c)'
    BY DEF StopsStay
  <2>1. chain'[c] = chain[c]
    BY <1>4 DEF ChainStopped
  <2>2. chain[c].current \in 0 .. MaxTasks
    BY <1>0 DEF ChainTypes, ChainRow
  <2>3. chain[c].state = "running" => chain[c].current # 0
    BY <1>0 DEF ChainsFit
  <2> QED BY <1>16, <2>1, <2>2, <2>3 DEF ChainStopped, Ended
<1>21. Cancelling'
  BY <1>0, <1>19, <1>20, CancellingStays
<1> QED BY <1>8, <1>11, <1>12, <1>13, <1>14, <1>15, <1>17, <1>18, <1>21 DEF ChainInv

LEMMA launchKeeps ==
    ASSUME ChainInv, launch
    PROVE  ChainInv'
<1>0. ChainTypes
  BY DEF ChainInv
<1>1. /\ mailbox # <<>> /\ mailbox' = Tail(mailbox)
      /\ UNCHANGED <<body, fresh, stopping, report, thread, outcome, chainOf, canceller,
                     cancels, answered>>
  BY DEF launch
<1>2. PICK t \in Tasks : t = Head(mailbox).task
  BY <1>1, MailboxTail, FreshType DEF ChainInv
<1>3. CASE resume_local(t) /\ UNCHANGED <<route, chain, launching, taskFaults>>
  BY <1>1, <1>2, <1>3, resume_localKeeps, MailboxTail
<1>4. CASE /\ ~(Head(mailbox).released /\ row[t] # "none") /\ Admits(Head(mailbox))
           /\ row' = [row EXCEPT ![t] = "queued"] /\ route' = [route EXCEPT ![t] = "accepted"]
           /\ start_continuation_on(t) /\ UNCHANGED ending
           /\ \/ launching' = t /\ UNCHANGED taskFaults
              \/ taskFaults < MaxTaskFaults /\ taskFaults' = taskFaults + 1 /\ UNCHANGED launching
  <2>1. launching' \in 0 .. MaxTasks
    BY <1>0, <1>4, TaskFacts DEF ChainTypes
  <2>2. taskFaults' \in 0 .. MaxTaskFaults
    BY <1>0, <1>4, ChainAssumption DEF ChainTypes
  <2> QED BY <1>1, <1>2, <1>4, <2>1, <2>2, LaunchCommitsKeeps
<1>5. CASE UNCHANGED <<route, row, ending, chain, launching, taskFaults>>
  BY <1>1, <1>5, LaunchRefusedKeeps
<1> QED BY <1>2, <1>3, <1>4, <1>5 DEF launch

-----------------------------------------------------------------------------
(* A new id *)

\* The ids that were given out keep what they have
OldKept ==
    /\ fresh < MaxTasks /\ fresh' = fresh + 1
    /\ \A s \in 1 .. fresh : body'[s] = body[s]
    /\ \A s \in Tasks : s # fresh + 1 => body'[s] = body[s]

LEMMA NextId ==
    ASSUME ChainInv, fresh < MaxTasks, fresh' = fresh + 1
    PROVE  /\ fresh + 1 \in Tasks /\ fresh + 1 \in 0 .. MaxTasks /\ fresh' \in 0 .. MaxTasks
           /\ fresh \in Nat /\ fresh + 1 > fresh /\ fresh + 1 \notin 1 .. fresh
           /\ 1 .. fresh \subseteq 1 .. fresh' /\ fresh + 1 \in 1 .. fresh'
           /\ \A s \in Tasks : (s \in 1 .. fresh) = ~(s > fresh)
           /\ \A s \in Tasks : s > fresh' => s > fresh /\ s # fresh + 1
           /\ \A s \in 1 .. fresh : s \in Tasks /\ s <= fresh /\ s <= fresh' /\ s # fresh + 1
           /\ \A s \in Tasks : s > fresh /\ s # fresh + 1 => s > fresh'
           /\ \A s \in Nat : s <= fresh => s <= fresh' /\ s # fresh + 1
<1>1. fresh \in Nat /\ fresh \in 0 .. MaxTasks
  BY FreshType DEF ChainInv
<1> QED BY <1>1, TaskFacts, ChainAssumption DEF Tasks

\* The two runs of a parked chain were given out
LEMMA ParkedFacts ==
    ASSUME ChainTypes, ChainsFit, ParkedRuns, NEW c \in Tasks, chain[c].state = "waiting"
    PROVE  /\ chain[c].current \in Tasks /\ chainOf[chain[c].current] = c
           /\ chain[c].next \in Tasks /\ chainOf[chain[c].next] = c /\ c # 0
           /\ \A t \in Tasks : chainOf[t] = 0 => t # chain[c].current /\ t # chain[c].next
<1>1. chain[c].current \in 0 .. MaxTasks /\ chain[c].next \in 0 .. MaxTasks
  BY DEF ChainTypes, ChainRow
<1> QED BY <1>1, TaskFacts DEF ChainsFit, ParkedRuns

LEMMA NewIsNowhere ==
    ASSUME ChainInv, fresh < MaxTasks, fresh' = fresh + 1, NEW t \in Tasks, t = fresh + 1
    PROVE  /\ body[t] = NoBody /\ route[t] = "none" /\ row[t] = "none" /\ outcome[t] = "none"
           /\ ending[t] = "none" /\ chainOf[t] = 0 /\ chain[t].state = "none"
           /\ report[t] = {} /\ t \notin stopping
           /\ \A s \in Tasks : /\ body[s].request # t /\ chainOf[s] # t
                               /\ chain[s].state = "running" => chain[s].current # t
                               /\ chain[s].state = "waiting" => chain[s].next # t
<1>0. ChainTypes /\ Ids /\ Routes /\ Endings /\ ChainsFit
  BY DEF ChainInv
<1>1. t > fresh
  BY NextId
<1>2. /\ body[t] = NoBody /\ route[t] = "none" /\ row[t] = "none" /\ outcome[t] = "none"
      /\ ending[t] = "none" /\ chainOf[t] = 0 /\ chain[t].state = "none"
  BY <1>0, <1>1 DEF Ids
<1>3. report[t] = {} /\ t \notin stopping
  BY <1>0, <1>2 DEF Endings, Routes
<1>4. ASSUME NEW s \in Tasks
      PROVE  /\ body[s].request # t /\ chainOf[s] # t
             /\ chain[s].state = "running" => chain[s].current # t
             /\ chain[s].state = "waiting" => chain[s].next # t
  <2>1. body[s].request # t
    <3>1. body[s].request \in 0 .. MaxTasks /\ body[s].request <= fresh
      BY <1>0 DEF ChainTypes, BodyRow, Ids
    <3> QED BY <3>1, NextId
  <2>2. chainOf[s] # t
    BY <1>0, <1>2, TaskFacts DEF ChainsFit
  <2>3. /\ chain[s].state = "running" => chainOf[chain[s].current] = s
        /\ chain[s].state = "waiting" => chainOf[chain[s].next] = s
    BY <1>0 DEF ChainsFit
  <2> QED BY <1>2, <2>1, <2>2, <2>3, TaskFacts
<1> QED BY <1>2, <1>3, <1>4

\* The launches that were there stay ready, and so do the rows
LEMMA OldReady ==
    ASSUME ChainInv, DepsKept, OldKept, NEW t \in 1 .. fresh, Ready(t)
    PROVE  Ready(t)'
<1>1. t \in Tasks /\ body[t].after \subseteq 1 .. fresh /\ body'[t] = body[t]
  BY FreshType DEF ChainInv, Ids, OldKept
<1> QED BY <1>1, ReadyStays DEF ChainInv

\* An id is given to a submit: held, or in the mailbox
LEMMA admit_or_holdKeeps ==
    ASSUME ChainInv, NEW b \in BodyRow, admit_or_hold(b), b.rule = "succeeded",
           b.after \subseteq 1 .. fresh,
           b.request # 0 => b.request <= fresh /\ Saved(b.request) = {}
    PROVE  ChainInv'
<1>0. /\ ChainTypes /\ Ids /\ Routes /\ Endings /\ ChainsFit /\ Releases /\ ParkedRuns
      /\ OneResumerPerThread /\ Cancelling
  BY DEF ChainInv
<1>1. /\ fresh < MaxTasks /\ fresh' = fresh + 1 /\ body' = [body EXCEPT ![fresh + 1] =
            [b EXCEPT !.request = IF b.request = 0 THEN fresh + 1 ELSE b.request]]
      /\ \/ route' = [route EXCEPT ![fresh + 1] = "held"] /\ mailbox' = mailbox
         \/ /\ decide(b.after, "succeeded") = "release" /\ route' = route
            /\ mailbox' = Append(mailbox, [task |-> fresh + 1, released |-> FALSE, live |-> TRUE])
      /\ UNCHANGED <<row, stopping, report, thread, ending, outcome, chainOf, chain, launching,
                     canceller, cancels, answered, taskFaults>>
  BY DEF admit_or_hold, TasksRest, Enqueue
<1>2. PICK t \in Tasks : t = fresh + 1
  BY <1>1, NextId
<1>3. PICK nb \in BodyRow : /\ body' = [body EXCEPT ![t] = nb]
                            /\ nb.after = b.after /\ nb.rule = "succeeded" /\ nb.resume = b.resume
                            /\ nb.request = IF b.request = 0 THEN t ELSE b.request
  <2> DEFINE nb == [b EXCEPT !.request = IF b.request = 0 THEN t ELSE b.request]
  <2>1. nb \in BodyRow
    BY <1>2, TaskFacts DEF BodyRow
  <2>2. nb.after = b.after /\ nb.rule = "succeeded" /\ nb.resume = b.resume
        /\ nb.request = IF b.request = 0 THEN t ELSE b.request
    BY DEF BodyRow
  <2> QED BY <1>1, <1>2, <2>1, <2>2
<1>4. /\ body[t] = NoBody /\ route[t] = "none" /\ row[t] = "none" /\ outcome[t] = "none"
      /\ ending[t] = "none" /\ chainOf[t] = 0 /\ chain[t].state = "none" /\ report[t] = {}
      /\ \A s \in Tasks : /\ body[s].request # t
                          /\ chain[s].state = "waiting" => chain[s].next # t
  BY <1>1, <1>2, NewIsNowhere
<1>5. /\ t \in 0 .. MaxTasks /\ fresh' \in 0 .. MaxTasks
      /\ fresh \in Nat /\ t > fresh /\ t \notin 1 .. fresh
      /\ 1 .. fresh \subseteq 1 .. fresh' /\ t \in 1 .. fresh'
      /\ \A s \in Tasks : s > fresh' => s > fresh /\ s # t
      /\ \A s \in 1 .. fresh : s \in Tasks /\ s <= fresh /\ s <= fresh' /\ s # t
      /\ \A s \in Tasks : s > fresh /\ s # t => s > fresh'
      /\ \A s \in Nat : s <= fresh => s <= fresh' /\ s # t
  BY <1>1, <1>2, NextId
<1>6. body \in [Tasks -> BodyRow] /\ route \in [Tasks -> RouteStatus] /\ mailbox \in Seq(Launch)
  BY <1>0 DEF ChainTypes
<1>7. body' \in [Tasks -> BodyRow] /\ body'[t] = nb /\ \A s \in Tasks : s # t => body'[s] = body[s]
  BY <1>3, <1>6
<1>8. /\ route' \in [Tasks -> RouteStatus] /\ (\A s \in Tasks : s # t => route'[s] = route[s])
      /\ route'[t] \in {"none", "held"}
  BY <1>1, <1>2, <1>4, <1>6 DEF RouteStatus
<1>9. /\ mailbox' \in Seq(Launch)
      /\ \A i \in 1 .. Len(mailbox') :
            \/ i \in 1 .. Len(mailbox) /\ mailbox'[i] = mailbox[i]
            \/ mailbox'[i].task = t /\ decide(b.after, "succeeded") = "release"
  <2>1. CASE mailbox' = mailbox
    BY <1>6, <2>1
  <2>2. CASE /\ decide(b.after, "succeeded") = "release"
             /\ mailbox' = Append(mailbox, [task |-> fresh + 1, released |-> FALSE, live |-> TRUE])
    <3> DEFINE m == [task |-> t, released |-> FALSE, live |-> TRUE]
    <3>1. m \in Launch /\ m.task = t /\ mailbox' = Append(mailbox, m)
      BY <1>2, <2>2 DEF Launch
    <3> HIDE DEF m
    <3>2. /\ mailbox' \in Seq(Launch) /\ Len(mailbox') = Len(mailbox) + 1
          /\ mailbox'[Len(mailbox) + 1] = m /\ Len(mailbox) \in Nat
          /\ \A i \in 1 .. Len(mailbox) : mailbox'[i] = mailbox[i]
      BY <1>6, <3>1
    <3>3. \A i \in 1 .. Len(mailbox') : i \in 1 .. Len(mailbox) \/ i = Len(mailbox) + 1
      BY <3>2
    <3> QED BY <2>2, <3>1, <3>2, <3>3
  <2> QED BY <1>1, <2>1, <2>2
<1>10. ChainTypes'
  BY <1>0, <1>1, <1>5, <1>7, <1>8, <1>9 DEF ChainTypes
<1>11. OldKept /\ DepsKept
  BY <1>1, <1>2, <1>5, <1>7 DEF OldKept, DepsKept
<1>12. \A i \in 1 .. Len(mailbox) : mailbox[i].task \in 1 .. fresh /\ Ready(mailbox[i].task)
  <2>1. \A i \in 1 .. Len(mailbox) : mailbox[i] \in Launch
    BY <1>6
  <2>2. \A i \in 1 .. Len(mailbox) : mailbox[i].task \in Nat /\ mailbox[i].task >= 1 /\ mailbox[i].task <= fresh
    BY <1>0, <2>1, TaskFacts DEF Ids, Launch
  <2>3. \A i \in 1 .. Len(mailbox) : Ready(mailbox[i].task)
    BY <1>0 DEF Releases
  <2>4. \A x \in Nat : x >= 1 /\ x <= fresh => x \in 1 .. fresh
    BY <1>5
  <2> QED BY <2>2, <2>3, <2>4
<1>13. Ids'
  <2>1. \A s \in Tasks : s > fresh' => /\ body'[s] = NoBody /\ route'[s] = "none" /\ row[s] = "none"
                                       /\ outcome[s] = "none" /\ ending[s] = "none"
                                       /\ chainOf[s] = 0 /\ chain[s].state = "none"
    BY <1>0, <1>5, <1>7, <1>8 DEF Ids
  <2>2. ASSUME NEW s \in Tasks
        PROVE  /\ body'[s].after \subseteq 1 .. fresh' /\ report[s] \subseteq 1 .. fresh'
               /\ body'[s].request <= fresh' /\ (s <= fresh' => body'[s].request # 0)
    <3>1. report[s] \subseteq 1 .. fresh'
      BY <1>0, <1>5 DEF Ids
    <3>2. CASE s = t
      <4>1. b.request \in Nat /\ t <= fresh' /\ t # 0
        BY <1>5, TaskFacts DEF BodyRow
      <4> QED BY <1>3, <1>5, <1>7, <3>1, <3>2, <4>1
    <3>3. CASE s # t
      <4>1. body[s].request \in Nat
        BY <1>6 DEF BodyRow
      <4>2. s <= fresh' => s <= fresh
        BY <1>5, <3>3, TaskFacts
      <4> QED BY <1>0, <1>5, <1>7, <3>1, <3>3, <4>1, <4>2 DEF Ids
    <3> QED BY <3>2, <3>3
  <2>3. \A i \in 1 .. Len(mailbox') : mailbox'[i].task <= fresh'
    BY <1>5, <1>9, <1>12
  <2> QED BY <1>1, <2>1, <2>2, <2>3 DEF Ids
<1>14. Routes'
  <2>1. \A s \in Tasks : (row[s] # "none") = (route'[s] = "accepted")
    BY <1>0, <1>4, <1>8 DEF Routes
  <2>2. ASSUME NEW s \in Tasks, s # t, route'[s] # "none", route'[t] # "none" PROVE body'[s].request # body'[t].request
    <3>1. route[s] # "none" /\ body'[s] = body[s]
      BY <1>7, <1>8, <2>2
    <3>2. CASE b.request = 0
      BY <1>3, <1>4, <1>7, <3>1, <3>2
    <3>3. CASE b.request # 0
      BY <1>3, <1>7, <3>1, <3>3 DEF Saved
    <3> QED BY <3>2, <3>3
  <2>3. ASSUME NEW s \in Tasks, NEW u \in Tasks, route'[s] # "none", route'[u] # "none",
               body'[s].request = body'[u].request
        PROVE  s = u
    BY <1>0, <1>7, <1>8, <2>2, <2>3 DEF Routes
  <2> QED BY <1>0, <1>1, <2>1, <2>3 DEF Routes
<1>15. Endings'
  <2>1. \A s \in Tasks : outcome[s] # "none" => row[s] \in Ended \/ route'[s] \in {"cancelled", "rejected"}
    BY <1>0, <1>4, <1>8 DEF Endings
  <2> QED BY <1>0, <1>1, <2>1 DEF Endings, Ended
<1>16. ChainsFit'
  <2>1. \A c \in Tasks : chain[c].next \in 0 .. MaxTasks
    BY <1>0 DEF ChainTypes, ChainRow
  <2>2. ASSUME NEW c \in Tasks, chain[c].state = "waiting"
        PROVE  route'[chain[c].next] = "held"
    BY <1>0, <1>4, <1>8, <2>1, <2>2, TaskFacts DEF ChainsFit
  <2>3. \A s \in Tasks : chainOf[s] # 0 => route'[s] = route[s]
    BY <1>4, <1>8
  <2> QED BY <1>0, <1>1, <2>2, <2>3 DEF ChainsFit, Live
<1>17. Releases'
  <2>1. ASSUME NEW s \in Tasks, row[s] # "none" PROVE Ready(s)'
    <3>1. s \in 1 .. fresh /\ Ready(s)
      BY <1>0, <2>1, KnownId DEF Releases
    <3> QED BY <1>11, <3>1, OldReady
  <2>2. ASSUME decide(b.after, "succeeded") = "release" PROVE Ready(t)'
    <3> SUFFICES ASSUME NEW d \in b.after
                 PROVE  /\ dependency_state(d)' = "succeeded"
                        /\ chainOf'[d] # 0 => chain'[chainOf'[d]].state = "ended"
      BY <1>3, <1>7 DEF Ready, Ended
    <3>1. b.after \in SUBSET Tasks /\ d \in 1 .. fresh
      BY DEF BodyRow
    <3>2. /\ dependency_state(d) \in Ended /\ dependency_state(d) = "succeeded"
          /\ chainOf[d] # 0 => chain[chainOf[d]].state = "ended"
      BY <2>2, <3>1, DecidedRelease
    <3> QED BY <1>0, <1>11, <3>1, <3>2, DependencyStays
  <2>3. ASSUME NEW i \in 1 .. Len(mailbox') PROVE Ready(mailbox[i].task)'
    <3>1. CASE i \in 1 .. Len(mailbox) /\ mailbox'[i] = mailbox[i]
      <4>1. PICK s \in 1 .. fresh : s = mailbox'[i].task /\ Ready(s)
        BY <1>12, <3>1
      <4>2. Ready(s)'
        BY <1>11, <4>1, OldReady
      <4> QED BY <4>1, <4>2 DEF Ready
    <3>2. CASE mailbox'[i].task = t /\ decide(b.after, "succeeded") = "release"
      BY <2>2, <3>2 DEF Ready
    <3> QED BY <1>9, <3>1, <3>2
  <2> QED BY <1>1, <2>1, <2>3 DEF Releases
<1>18. ParkedRuns'
  BY <1>0, <1>1 DEF ParkedRuns
<1>19. OneResumerPerThread'
  <2>1. \A s \in Tasks : row[s] \in Live => s # t
    BY <1>4, StatusFacts
  <2>2. ASSUME NEW c \in Tasks, chain[c].state = "waiting"
        PROVE  body'[chain[c].current] = body[chain[c].current] /\ body'[chain[c].next] = body[chain[c].next]
    <3>1. chain[c].current \in Tasks /\ chain[c].current # t /\ chain[c].next \in Tasks /\ chain[c].next # t
      BY <1>0, <1>4, <2>2, ParkedFacts
    <3> QED BY <1>7, <3>1
  <2>3. Live' = Live
    BY DEF Live
  <2>4. ASSUME NEW s \in Tasks, row'[s] \in Live', body'[s].resume # 0
        PROVE  /\ \A u \in Tasks \ {s} : ~(row'[u] \in Live' /\ body'[u].resume = body'[s].resume)
               /\ \A c \in Tasks : chain'[c].state = "waiting" /\ body'[chain'[c].current].resume # 0 =>
                     body'[chain'[c].next].resume # body'[s].resume
    <3>1. row[s] \in Live /\ s # t /\ body'[s] = body[s]
      BY <1>1, <1>7, <2>1, <2>3, <2>4
    <3>2. ASSUME NEW u \in Tasks \ {s}, row'[u] \in Live', body'[u].resume = body'[s].resume
          PROVE  FALSE
      <4>1. row[u] \in Live
        BY <1>1, <2>3, <3>2
      <4>2. body'[u] = body[u]
        BY <1>7, <2>1, <4>1
      <4>3. body[s].resume # 0 /\ body[u].resume = body[s].resume
        BY <2>4, <3>1, <3>2, <4>2
      <4> QED BY <1>0, <3>1, <4>1, <4>3 DEF OneResumerPerThread
    <3>3. ASSUME NEW c \in Tasks, chain'[c].state = "waiting", body'[chain'[c].current].resume # 0
          PROVE  body'[chain'[c].next].resume # body'[s].resume
      <4>1. chain'[c] = chain[c]
        BY <1>1
      <4>2. body'[chain[c].current] = body[chain[c].current] /\ body'[chain[c].next] = body[chain[c].next]
        BY <2>2, <3>3, <4>1
      <4> QED BY <1>0, <2>4, <3>1, <3>3, <4>1, <4>2 DEF OneResumerPerThread
    <3> QED BY <3>2, <3>3
  <2> QED BY <2>4 DEF OneResumerPerThread
<1>20. Monotone /\ StopsStay
  <2>1. Monotone
    BY <1>1, <1>4, <1>8 DEF Monotone, Ended
  <2>2. StopsStay
    BY <1>1 DEF StopsStay, ChainStopped, Ended
  <2> QED BY <2>1, <2>2
<1>21. Cancelling'
  BY <1>0, <1>1, <1>20, CancellingStays
<1> QED BY <1>10, <1>13, <1>14, <1>15, <1>16, <1>17, <1>18, <1>19, <1>21 DEF ChainInv

LEMMA SubmitKeeps ==
    ASSUME ChainInv, Submit
    PROVE  ChainInv'
<1>0. ChainTypes
  BY DEF ChainInv
<1>1. PICK after \in SUBSET (1 .. fresh), resume \in 0 .. fresh :
        admit_or_hold([after |-> after, rule |-> "succeeded", resume |-> resume, request |-> 0])
  BY DEF Submit
<1>2. resume \in 0 .. MaxTasks /\ 0 \in 0 .. MaxTasks
  BY <1>0, TaskFacts DEF ChainTypes
<1>3. after \in SUBSET Tasks
  BY <1>0, FreshType
<1> DEFINE b == [after |-> after, rule |-> "succeeded", resume |-> resume, request |-> 0]
<1>4. b \in BodyRow /\ b.after = after /\ b.rule = "succeeded" /\ b.resume = resume /\ b.request = 0
  BY <1>2, <1>3 DEF BodyRow
<1>5. admit_or_hold(b)
  BY <1>1
<1> HIDE DEF b
<1> QED BY <1>2, <1>4, <1>5, admit_or_holdKeeps

LEMMA ResubmitKeeps ==
    ASSUME ChainInv, NEW t \in Tasks, Resubmit(t)
    PROVE  ChainInv'
<1>0. ChainTypes /\ Ids
  BY DEF ChainInv
<1>1. CASE t <= fresh /\ body[t].request = t /\ body[t].rule = "succeeded" /\ Saved(t) = {} /\ admit_or_hold(body[t])
  <2>1. body[t] \in BodyRow /\ body[t].after \subseteq 1 .. fresh
    BY <1>0 DEF ChainTypes, Ids
  <2>2. PICK b \in BodyRow : b = body[t]
    BY <2>1
  <2> QED BY <1>1, <2>1, <2>2, admit_or_holdKeeps
<1>2. ASSUME NEW s \in Saved(t), resume_local(s),
             UNCHANGED <<body, fresh, route, stopping, report, thread, outcome, chainOf, chain, mailbox,
                         launching, canceller, cancels, answered, taskFaults>>
      PROVE  ChainInv'
  <2>1. s \in Tasks
    BY DEF Saved
  <2> QED BY <1>2, <2>1, SavedResumesKeeps
<1> QED BY <1>1, <1>2 DEF Resubmit

-----------------------------------------------------------------------------
(* A run parks *)

\* What a chain says of a run in it
LEMMA RunFits ==
    ASSUME ChainsFit, NEW s \in Tasks, NEW e \in Tasks, e = chainOf[s]
    PROVE  /\ chain[e].state # "none" /\ route[s] # "none"
           /\ row[s] \in Live => chain[e].state = "running" /\ chain[e].current = s
           /\ route[s] = "held" => chain[e].state = "waiting" /\ chain[e].next = s
           /\ route[s] \in {"cancelled", "rejected"} => chain[e].state = "ended"
<1>1. chainOf[s] # 0
  BY TaskFacts
<1> QED BY <1>1 DEF ChainsFit

LEMMA ParkKeeps ==
    ASSUME ChainInv, NEW t \in Tasks, NEW how \in {"exit_0", "exit_1", "cancelled", "lost"},
           Exit(t, how), classify_exit(t, how) = "waiting"
    PROVE  ChainInv'
<1>0. /\ ChainTypes /\ Ids /\ Routes /\ Endings /\ ChainsFit /\ Releases /\ ParkedRuns
      /\ OneResumerPerThread /\ Cancelling
  BY DEF ChainInv
<1>1. how = "exit_0" /\ report[t] # {} /\ t \notin stopping
  BY DEF classify_exit
<1>2. PICK th \in 0 .. MaxTasks : /\ thread' = [thread EXCEPT ![t] = th]
                                  /\ (th = body[t].resume \/ (body[t].resume = 0 /\ th \in {0, t}))
                                  /\ park_on(t, th)
  <2>1. body[t].resume \in 0 .. MaxTasks /\ t \in 0 .. MaxTasks /\ 0 \in 0 .. MaxTasks
    BY <1>0, TaskFacts DEF ChainTypes, BodyRow
  <2> QED BY <2>1 DEF Exit
<1>3. /\ row[t] = "running" /\ row' = [row EXCEPT ![t] = "succeeded"] /\ ending' = [ending EXCEPT ![t] = "waiting"]
      /\ report' = [report EXCEPT ![t] = {}] /\ stopping' = stopping /\ taskFaults' = taskFaults
      /\ UNCHANGED <<outcome, mailbox, launching, canceller, cancels, answered>>
  BY <1>1 DEF Exit
<1>4. fresh < MaxTasks /\ fresh' = fresh + 1
  BY <1>2 DEF park_on
<1>5. PICK n \in Tasks : n = fresh + 1
  BY <1>4, NextId
<1>6. PICK c \in Tasks : c = IF chainOf[t] # 0 THEN chainOf[t] ELSE t
  BY <1>0, TaskFacts DEF ChainTypes
<1>7. PICK y \in 0 .. MaxTasks : y = IF th # 0 THEN th ELSE body[t].resume
  BY <1>0 DEF ChainTypes, BodyRow
<1>8. PICK runs \in 0 .. MaxRuns : runs = IF chainOf[t] # 0 THEN chain[c].runs + 1 ELSE 2
  <2>1. MaxRuns \in Nat /\ MaxRuns > 1 /\ chain[c].runs \in 0 .. MaxRuns /\ (chainOf[t] # 0 => chain[c].runs < MaxRuns)
    BY <1>0, <1>1, <1>6, ChainAssumption DEF ChainTypes, ChainRow, Endings
  <2> QED BY <2>1
<1> DEFINE nb == [after |-> report[t], rule |-> "ended", resume |-> y, request |-> n]
           r == [state |-> "waiting", current |-> t, on |-> report[t], next |-> n, runs |-> runs,
                 outcome |-> "none"]
<1>9. /\ body' = [body EXCEPT ![n] = nb] /\ route' = [route EXCEPT ![n] = "held"]
      /\ chainOf' = [chainOf EXCEPT ![t] = c, ![n] = c] /\ chain' = [chain EXCEPT ![c] = r]
  BY <1>2, <1>5, <1>6, <1>7, <1>8 DEF park_on
<1>10. /\ body[n] = NoBody /\ route[n] = "none" /\ row[n] = "none" /\ outcome[n] = "none"
       /\ ending[n] = "none" /\ chainOf[n] = 0 /\ chain[n].state = "none" /\ report[n] = {}
       /\ n \notin stopping
       /\ \A s \in Tasks : /\ body[s].request # n /\ chainOf[s] # n
                           /\ chain[s].state = "running" => chain[s].current # n
                           /\ chain[s].state = "waiting" => chain[s].next # n
  BY <1>4, <1>5, NewIsNowhere
<1>11. n # t /\ n # c /\ c # 0 /\ t # 0 /\ n # 0
  BY <1>3, <1>6, <1>10, TaskFacts
<1>12. /\ n \in 0 .. MaxTasks /\ fresh' \in 0 .. MaxTasks
       /\ fresh \in Nat /\ n > fresh /\ n \notin 1 .. fresh
       /\ 1 .. fresh \subseteq 1 .. fresh' /\ n \in 1 .. fresh'
       /\ \A s \in Tasks : s > fresh' => s > fresh /\ s # n
       /\ \A s \in 1 .. fresh : s \in Tasks /\ s <= fresh /\ s <= fresh' /\ s # n
       /\ \A s \in Tasks : s > fresh /\ s # n => s > fresh'
       /\ \A s \in Nat : s <= fresh => s <= fresh' /\ s # n
  BY <1>4, <1>5, NextId
<1>13. /\ body \in [Tasks -> BodyRow] /\ route \in [Tasks -> RouteStatus] /\ row \in [Tasks -> RowStatus]
       /\ ending \in [Tasks -> EndingKinds] /\ report \in [Tasks -> SUBSET Tasks]
       /\ thread \in [Tasks -> 0 .. MaxTasks] /\ chainOf \in [Tasks -> 0 .. MaxTasks]
       /\ chain \in [Tasks -> ChainRow]
  BY <1>0 DEF ChainTypes
<1>14. /\ nb \in BodyRow /\ nb.after = report[t] /\ nb.rule = "ended" /\ nb.resume = y /\ nb.request = n
  BY <1>12, <1>13 DEF BodyRow
<1>15. /\ r \in ChainRow /\ r.state = "waiting" /\ r.current = t /\ r.next = n /\ r.runs = runs
  BY <1>12, <1>13, TaskFacts DEF ChainRow, Outcomes
<1> HIDE DEF nb, r
<1>16. body' \in [Tasks -> BodyRow] /\ body'[n] = nb /\ \A s \in Tasks : s # n => body'[s] = body[s]
  BY <1>9, <1>13, <1>14
<1>17. route' \in [Tasks -> RouteStatus] /\ route'[n] = "held" /\ \A s \in Tasks : s # n => route'[s] = route[s]
  BY <1>9, <1>13 DEF RouteStatus
<1>18. chain' \in [Tasks -> ChainRow] /\ chain'[c] = r /\ \A s \in Tasks : s # c => chain'[s] = chain[s]
  BY <1>9, <1>13, <1>15
<1>19. /\ chainOf' \in [Tasks -> 0 .. MaxTasks] /\ chainOf'[t] = c /\ chainOf'[n] = c
       /\ \A s \in Tasks : s # t /\ s # n => chainOf'[s] = chainOf[s]
  BY <1>9, <1>11, <1>13, TaskFacts
<1>20. row' \in [Tasks -> RowStatus] /\ row'[t] = "succeeded" /\ \A s \in Tasks : s # t => row'[s] = row[s]
  BY <1>3, <1>13 DEF RowStatus, Ended
<1>21. ending' \in [Tasks -> EndingKinds] /\ ending'[t] = "waiting" /\ \A s \in Tasks : s # t => ending'[s] = ending[s]
  BY <1>3, <1>13 DEF EndingKinds
<1>22. report' \in [Tasks -> SUBSET Tasks] /\ report'[t] = {} /\ \A s \in Tasks : s # t => report'[s] = report[s]
  BY <1>3, <1>13
<1>23. thread' \in [Tasks -> 0 .. MaxTasks] /\ thread'[t] = th /\ \A s \in Tasks : s # t => thread'[s] = thread[s]
  BY <1>2, <1>13
<1>24. ChainTypes'
  BY <1>0, <1>3, <1>12, <1>16, <1>17, <1>18, <1>19, <1>20, <1>21, <1>22, <1>23 DEF ChainTypes
<1>25. /\ outcome[t] = "none" /\ route[t] = "accepted" /\ "succeeded" \in Ended /\ "succeeded" \notin Live
  BY <1>0, <1>3 DEF Endings, Routes, Ended, Live
\* The chain of a run that parks was at this run, or is new
<1>26. /\ chainOf[t] # 0 => chainOf[t] = c /\ chain[c].state = "running" /\ chain[c].current = t
       /\ chainOf[t] = 0 => c = t /\ chain[c].state = "none" /\ \A s \in Tasks : chainOf[s] # c
  <2>1. CASE chainOf[t] # 0
    BY <1>0, <1>3, <1>6, <2>1, StatusFacts DEF ChainsFit
  <2>2. CASE chainOf[t] = 0
    <3>1. c = t /\ chain[t].state = "none"
      BY <1>0, <1>6, <2>2, TaskFacts DEF ChainsFit
    <3> QED BY <1>0, <2>2, <3>1, TaskFacts DEF ChainsFit
  <2> QED BY <2>1, <2>2
<1>27. ASSUME NEW s \in Tasks, s # t, chainOf[s] = c
       PROVE  row[s] \notin Live /\ route[s] \notin {"held", "cancelled", "rejected", "none"}
  BY <1>0, <1>11, <1>26, <1>27 DEF ChainsFit
<1>28. \A s \in Tasks : chainOf[s] # 0 => chainOf'[s] = chainOf[s] /\ chainOf[s] \in Tasks
  BY <1>10, <1>13, <1>19, <1>26, TaskFacts
<1>29. \A x \in 0 .. MaxTasks : x # 0 /\ row[x] \in Ended => row'[x] \in Ended
  BY <1>20, <1>25, TaskFacts
<1>30. Ids'
  <2>1. \A s \in Tasks : s > fresh => s # t /\ s # c
    <3>1. t \in 1 .. fresh /\ c \in 1 .. fresh
      <4>1. t \in 1 .. fresh
        BY <1>0, <1>3, KnownId
      <4>2. chainOf[t] # 0 => chainOf[c] # 0
        BY <1>0, <1>11, <1>26 DEF ChainsFit
      <4> QED BY <1>0, <1>26, <4>1, <4>2, KnownId
    <3> QED BY <1>12, <3>1, TaskFacts
  <2>2. \A s \in Tasks : s > fresh' => /\ body'[s] = NoBody /\ route'[s] = "none" /\ row'[s] = "none"
                                       /\ outcome[s] = "none" /\ ending'[s] = "none"
                                       /\ chainOf'[s] = 0 /\ chain'[s].state = "none"
    BY <1>0, <1>12, <1>16, <1>17, <1>18, <1>19, <1>20, <1>21, <2>1 DEF Ids
  <2>3. ASSUME NEW s \in Tasks
        PROVE  /\ body'[s].after \subseteq 1 .. fresh' /\ report'[s] \subseteq 1 .. fresh'
               /\ body'[s].request <= fresh' /\ (s <= fresh' => body'[s].request # 0)
    <3>1. report'[s] \subseteq 1 .. fresh' /\ report[t] \subseteq 1 .. fresh'
      BY <1>0, <1>12, <1>22 DEF Ids
    <3>2. CASE s = n
      <4>1. n <= fresh'
        BY <1>12
      <4> QED BY <1>11, <1>14, <1>16, <3>1, <3>2, <4>1
    <3>3. CASE s # n
      <4>1. body[s].request \in Nat
        BY <1>13 DEF BodyRow
      <4>2. s <= fresh' => s <= fresh
        BY <1>4, <1>5, <1>12, <3>3, TaskFacts
      <4> QED BY <1>0, <1>12, <1>16, <3>1, <3>3, <4>1, <4>2 DEF Ids
    <3> QED BY <3>2, <3>3
  <2>4. \A i \in 1 .. Len(mailbox') : mailbox'[i].task <= fresh'
    <3>1. \A i \in 1 .. Len(mailbox) : mailbox[i] \in Launch
      BY <1>0 DEF ChainTypes
    <3> QED BY <1>0, <1>3, <1>12, <3>1, TaskFacts DEF Ids, Launch
  <2> QED BY <1>3, <2>2, <2>3, <2>4 DEF Ids
<1>31. Routes'
  <2>1. \A s \in Tasks : (row'[s] # "none") = (route'[s] = "accepted")
    BY <1>0, <1>10, <1>11, <1>17, <1>20, <1>25 DEF Routes
  <2>2. ASSUME NEW s \in Tasks, NEW u \in Tasks, route'[s] # "none", route'[u] # "none",
               body'[s].request = body'[u].request
        PROVE  s = u
    BY <1>0, <1>10, <1>14, <1>16, <1>17, <2>2 DEF Routes
  <2>3. \A s \in stopping : row'[s] = "running"
    BY <1>0, <1>1, <1>20 DEF Routes, ChainTypes
  <2> QED BY <1>3, <2>1, <2>2, <2>3 DEF Routes
<1>32. Endings'
  <2>1. ASSUME NEW s \in Tasks
        PROVE  /\ ending'[s] # "none" => row'[s] \in Ended
               /\ ending'[s] = "waiting" => chainOf'[s] # 0
               /\ outcome[s] # "none" => row'[s] \in Ended \/ route'[s] \in {"cancelled", "rejected"}
               /\ row'[s] \in Ended /\ ending'[s] = "none" => outcome[s] # "none" \/ chainOf'[s] # 0
    <3>1. CASE s = t
      BY <1>11, <1>19, <1>20, <1>21, <1>25, <3>1
    <3>2. CASE s = n
      BY <1>10, <1>11, <1>20, <1>21, <3>2, StatusFacts
    <3>3. CASE s # t /\ s # n
      BY <1>0, <1>17, <1>19, <1>20, <1>21, <3>3 DEF Endings
    <3> QED BY <3>1, <3>2, <3>3
  <2>2. ASSUME NEW s \in Tasks, report'[s] # {}
        PROVE  row'[s] = "running" /\ MaxRuns > 1 /\ (chainOf'[s] # 0 => chain'[chainOf'[s]].runs < MaxRuns)
    <3>1. s # t /\ s # n /\ report[s] # {}
      BY <1>10, <1>11, <1>22, <2>2
    <3>2. row[s] = "running" /\ MaxRuns > 1 /\ (chainOf[s] # 0 => chain[chainOf[s]].runs < MaxRuns)
      BY <1>0, <3>1 DEF Endings
    <3>3. chainOf[s] # c
      BY <1>27, <3>1, <3>2, StatusFacts
    <3> QED BY <1>18, <1>19, <1>20, <1>28, <3>1, <3>2, <3>3
  <2> QED BY <1>3, <2>1, <2>2 DEF Endings, Ended
<1>33. ChainsFit'
  <2>1. ASSUME NEW e \in Tasks
        PROVE  /\ chain'[e].state # "none" => chainOf'[e] = e
               /\ chain'[e].state = "running" => chain'[e].current # 0 /\ chainOf'[chain'[e].current] = e
               /\ chain'[e].state = "waiting" => /\ chain'[e].next # 0 /\ chainOf'[chain'[e].next] = e
                                                 /\ route'[chain'[e].next] = "held"
               /\ chain'[e].state = "ended" => chain'[e].outcome # "none"
    <3>1. CASE e = c
      <4>1. chainOf'[c] = c
        BY <1>0, <1>11, <1>19, <1>26, <1>28 DEF ChainsFit
      <4> QED BY <1>11, <1>15, <1>17, <1>18, <1>19, <3>1, <4>1
    <3>2. CASE e # c
      <4>1. chain'[e] = chain[e]
        BY <1>18, <3>2
      <4>2. chain[e].current \in 0 .. MaxTasks /\ chain[e].next \in 0 .. MaxTasks
        BY <1>13 DEF ChainRow
      <4>3. /\ chain[e].state # "none" => chainOf[e] = e
            /\ chain[e].state = "running" => chain[e].current # 0 /\ chainOf[chain[e].current] = e
            /\ chain[e].state = "waiting" => /\ chain[e].next # 0 /\ chainOf[chain[e].next] = e
                                             /\ route[chain[e].next] = "held" /\ chain[e].next # n
            /\ chain[e].state = "ended" => chain[e].outcome # "none"
        BY <1>0, <1>10 DEF ChainsFit
      <4>4. \A x \in 0 .. MaxTasks : x # 0 /\ chainOf[x] = e => chainOf'[x] = e
        BY <1>28, TaskFacts
      <4>5. \A x \in 0 .. MaxTasks : x # 0 /\ x # n /\ route[x] = "held" => route'[x] = "held"
        BY <1>17, TaskFacts
      <4> QED BY <1>28, <4>1, <4>2, <4>3, <4>4, <4>5, TaskFacts
    <3> QED BY <3>1, <3>2
  <2>2. ASSUME NEW s \in Tasks, chainOf'[s] # 0
        PROVE  LET e == chain'[chainOf'[s]]
               IN  /\ e.state # "none" /\ route'[s] # "none"
                   /\ row'[s] \in Live => e.state = "running" /\ e.current = s
                   /\ route'[s] = "held" => e.state = "waiting" /\ e.next = s
                   /\ route'[s] \in {"cancelled", "rejected"} => e.state = "ended"
    <3>1. CASE s = t
      BY <1>11, <1>15, <1>17, <1>18, <1>19, <1>20, <1>25, <3>1
    <3>2. CASE s = n
      BY <1>10, <1>11, <1>15, <1>17, <1>18, <1>19, <1>20, <3>2, StatusFacts
    <3>3. CASE s # t /\ s # n /\ chainOf[s] = c
      BY <1>15, <1>17, <1>18, <1>19, <1>20, <1>27, <3>3
    <3>4. CASE s # t /\ s # n /\ chainOf[s] # c
      <4>1. PICK e \in Tasks : e = chainOf[s] /\ e = chainOf'[s] /\ e # c
        BY <1>19, <1>28, <2>2, <3>4
      <4>2. chain'[e] = chain[e] /\ route'[s] = route[s] /\ row'[s] = row[s]
        BY <1>17, <1>18, <1>20, <3>4, <4>1
      <4>3. /\ chain[e].state # "none" /\ route[s] # "none"
            /\ row[s] \in Live => chain[e].state = "running" /\ chain[e].current = s
            /\ route[s] = "held" => chain[e].state = "waiting" /\ chain[e].next = s
            /\ route[s] \in {"cancelled", "rejected"} => chain[e].state = "ended"
        BY <1>0, <4>1, RunFits
      <4> QED BY <4>1, <4>2, <4>3
    <3> QED BY <3>1, <3>2, <3>3, <3>4
  <2> QED BY <2>1, <2>2 DEF ChainsFit, Live
<1>34. Releases'
  <2>1. OldKept
    BY <1>4, <1>5, <1>12, <1>16 DEF OldKept
  <2>2. DepsKept
    <3>1. \A e \in Tasks : chain[e].state = "ended" => chain'[e] = chain[e]
      BY <1>18, <1>26
    <3>2. \A d \in 1 .. fresh : outcome[d] # "none" => chainOf'[d] = chainOf[d]
      BY <1>12, <1>19, <1>25
    <3> QED BY <1>3, <1>12, <1>28, <3>1, <3>2 DEF DepsKept
  <2>3. ASSUME NEW s \in Tasks, row'[s] # "none" PROVE Ready(s)'
    <3>1. row[s] # "none"
      BY <1>3, <1>20, <2>3
    <3>2. s \in 1 .. fresh /\ Ready(s)
      BY <1>0, <3>1, KnownId DEF Releases
    <3> QED BY <2>1, <2>2, <3>2, OldReady
  <2>4. ASSUME NEW i \in 1 .. Len(mailbox') PROVE Ready(mailbox[i].task)'
    <3>1. \A k \in 1 .. Len(mailbox') : mailbox'[k].task \in 1 .. fresh /\ Ready(mailbox'[k].task)
      BY <1>3, MailboxStays
    <3>2. PICK s \in 1 .. fresh : s = mailbox'[i].task /\ Ready(s)
      BY <3>1
    <3>3. Ready(s)'
      BY <2>1, <2>2, <3>2, OldReady
    <3> QED BY <3>2, <3>3 DEF Ready
  <2> QED BY <2>3, <2>4 DEF Releases
<1>35. \A e \in Tasks : chain'[e].state = "waiting" =>
          \/ e = c /\ chain'[e].current = t /\ chain'[e].next = n
          \/ /\ e # c /\ chain'[e] = chain[e]
             /\ chain[e].current \in Tasks /\ chain[e].current # n /\ chainOf[chain[e].current] = e
             /\ chain[e].next \in Tasks /\ chain[e].next # n
  BY <1>0, <1>10, <1>15, <1>18, ParkedFacts
<1>36. ParkedRuns'
  <2> SUFFICES ASSUME NEW e \in Tasks, chain'[e].state = "waiting"
               PROVE  chain'[e].current # 0 /\ chainOf'[chain'[e].current] = e
    BY DEF ParkedRuns
  <2> QED BY <1>19, <1>28, <1>35, TaskFacts
<1>37. OneResumerPerThread'
  <2>1. ASSUME NEW s \in Tasks, row'[s] \in Live
        PROVE  s # t /\ s # n /\ row[s] \in Live /\ body'[s] = body[s]
    BY <1>10, <1>11, <1>16, <1>20, <1>25, <2>1, StatusFacts
  <2>2. ASSUME NEW s \in Tasks, row'[s] \in Live, body'[s].resume # 0, NEW u \in Tasks \ {s}
        PROVE  ~(row'[u] \in Live /\ body'[u].resume = body'[s].resume)
    BY <1>0, <2>1, <2>2 DEF OneResumerPerThread
  <2>3. ASSUME NEW s \in Tasks, row'[s] \in Live, body'[s].resume # 0,
               NEW e \in Tasks, chain'[e].state = "waiting", body'[chain'[e].current].resume # 0
        PROVE  body'[chain'[e].next].resume # body'[s].resume
    <3>1. CASE e = c /\ chain'[e].current = t /\ chain'[e].next = n
      <4>1. body[t].resume # 0 /\ y = body[t].resume
        BY <1>2, <1>7, <1>11, <1>16, <2>3, <3>1
      <4>2. body[t].resume # body[s].resume
        BY <1>0, <1>3, <2>1, <2>3, <4>1, StatusFacts DEF OneResumerPerThread
      <4> QED BY <1>14, <1>16, <2>1, <2>3, <3>1, <4>1, <4>2
    <3>2. CASE /\ chain'[e] = chain[e] /\ chain[e].current \in Tasks /\ chain[e].current # n
               /\ chain[e].next \in Tasks /\ chain[e].next # n
      <4>1. body'[chain'[e].current] = body[chain[e].current] /\ body'[chain'[e].next] = body[chain[e].next]
        BY <1>16, <3>2
      <4> QED BY <1>0, <2>1, <2>3, <3>2, <4>1 DEF OneResumerPerThread
    <3> QED BY <1>35, <2>3, <3>1, <3>2
  <2> QED BY <2>2, <2>3 DEF OneResumerPerThread, Live
<1>38. Monotone
  BY <1>10, <1>17, <1>20, <1>25, <1>28 DEF Monotone
<1>39. StopsStay
  <2> SUFFICES ASSUME NEW e \in Tasks, ChainStopped(e) PROVE ChainStopped(e)'
    BY DEF StopsStay
  <2>1. e # c
    BY <1>1, <1>3, <1>26, StatusFacts DEF ChainStopped
  <2>2. chain'[e] = chain[e]
    BY <1>18, <2>1
  <2>3. chain[e].current \in 0 .. MaxTasks /\ (chain[e].state = "running" => chain[e].current # 0)
    BY <1>0, <1>13 DEF ChainRow, ChainsFit
  <2> QED BY <1>3, <1>29, <2>2, <2>3 DEF ChainStopped, Ended
<1>40. Cancelling'
  BY <1>0, <1>3, <1>38, <1>39, CancellingStays
<1> QED BY <1>24, <1>30, <1>31, <1>32, <1>33, <1>34, <1>36, <1>37, <1>40 DEF ChainInv

-----------------------------------------------------------------------------
(* The invariant, and what it is for *)

LEMMA ChainStart == TaskInit => ChainInv
<1> SUFFICES ASSUME TaskInit PROVE ChainInv
  OBVIOUS
<1>0. 1 \in Tasks /\ 0 \in 0 .. MaxTasks /\ 1 \in 0 .. MaxTasks /\ 0 \notin Tasks
  BY TaskFacts
<1>1. /\ NoBody \in BodyRow /\ [NoBody EXCEPT !.request = 1] \in BodyRow /\ NoChain \in ChainRow
      /\ NoBody.after = {} /\ NoBody.resume = 0 /\ NoBody.request = 0
      /\ NoChain.state = "none"
  <2>1. 0 \in 0 .. MaxRuns
    BY ChainAssumption
  <2> QED BY <1>0, <2>1 DEF NoBody, NoChain, BodyRow, ChainRow, Outcomes
<1>2. PICK first \in BodyRow : /\ first = [NoBody EXCEPT !.request = 1]
                               /\ first.after = {} /\ first.resume = 0 /\ first.request = 1
  BY <1>1 DEF NoBody
<1>3. body = [t \in Tasks |-> IF t = 1 THEN first ELSE NoBody]
  BY <1>2 DEF TaskInit
<1>4. \A t \in Tasks : /\ body[t].after = {} /\ body[t].resume = 0 /\ (t = 1 => body[t].request = 1)
                       /\ (t # 1 => body[t] = NoBody /\ body[t].request = 0)
  BY <1>1, <1>2, <1>3
<1>5. \A t \in Tasks : /\ route[t] = (IF t = 1 THEN "accepted" ELSE "none")
                       /\ row[t] = (IF t = 1 THEN "succeeded" ELSE "none")
                       /\ outcome[t] = (IF t = 1 THEN "succeeded" ELSE "none")
                       /\ report[t] = {} /\ thread[t] = 0 /\ ending[t] = "none" /\ chainOf[t] = 0
                       /\ chain[t] = NoChain
  BY DEF TaskInit
<1>6. fresh = 1 /\ stopping = {} /\ mailbox = <<>> /\ launching = 0 /\ canceller = NoCancel /\ answered = {}
  BY DEF TaskInit
<1>7. ChainTypes
  <2>1. body \in [Tasks -> BodyRow] /\ chain \in [Tasks -> ChainRow]
    BY <1>1, <1>2, <1>3 DEF TaskInit
  <2>2. /\ route \in [Tasks -> RouteStatus] /\ row \in [Tasks -> RowStatus]
        /\ ending \in [Tasks -> EndingKinds] /\ outcome \in [Tasks -> Outcomes]
    BY DEF TaskInit, RouteStatus, RowStatus, EndingKinds, Outcomes, Ended
  <2>3. /\ report \in [Tasks -> SUBSET Tasks] /\ thread \in [Tasks -> 0 .. MaxTasks]
        /\ chainOf \in [Tasks -> 0 .. MaxTasks]
    BY <1>0 DEF TaskInit
  <2>4. NoCancel \in CancelRecord
    BY <1>0 DEF NoCancel, CancelRecord
  <2>5. cancels \in 0 .. MaxCancels /\ taskFaults \in 0 .. MaxTaskFaults
    BY ChainAssumption DEF TaskInit
  <2>6. mailbox \in Seq(Launch)
    BY <1>6
  <2> QED BY <1>0, <1>6, <2>1, <2>2, <2>3, <2>4, <2>5, <2>6 DEF ChainTypes
<1>8. Ids
  <2>1. \A t \in Tasks : t > fresh => t # 1
    BY <1>6
  <2>2. \A i \in 1 .. Len(mailbox) : mailbox[i].task <= fresh
    BY <1>6
  <2>3. \A t \in Tasks : /\ body[t].request <= fresh
                         /\ t <= fresh => body[t].request # 0
    BY <1>4, <1>6, TaskFacts
  <2> QED BY <1>1, <1>4, <1>5, <2>1, <2>2, <2>3 DEF Ids
<1>9. Routes /\ Endings
  BY <1>5, <1>6 DEF Routes, Endings, Ended
<1>10. ChainsFit
  BY <1>1, <1>5 DEF ChainsFit
<1>11. Releases
  BY <1>4, <1>6 DEF Releases, Ready
<1>12. ParkedRuns
  BY <1>1, <1>5 DEF ParkedRuns
<1>13. OneResumerPerThread
  BY <1>4 DEF OneResumerPerThread
<1>14. Cancelling
  BY <1>6 DEF Cancelling, NoCancel
<1> QED BY <1>7, <1>8, <1>9, <1>10, <1>11, <1>12, <1>13, <1>14 DEF ChainInv

LEMMA ExitKeeps ==
    ASSUME ChainInv, NEW t \in Tasks, NEW how \in {"exit_0", "exit_1", "cancelled", "lost"},
           Exit(t, how)
    PROVE  ChainInv'
  BY ExitEndsKeeps, ParkKeeps

LEMMA SettlesKeep ==
    ASSUME ChainInv, NEW t \in Tasks, SettleCancel(t) \/ refuse_held_launch(t)
    PROVE  ChainInv'
<1>1. "cancelled" \in Ended /\ "failed" \in Ended
  BY DEF Ended
<1>2. CASE SettleCancel(t)
  BY <1>1, <1>2, SettleEndsKeeps DEF SettleCancel, cancel_held_route
<1>3. CASE refuse_held_launch(t)
  BY <1>1, <1>3, SettleEndsKeeps DEF refuse_held_launch
<1> QED BY <1>2, <1>3

LEMMA ChainSteps == ChainInv /\ [TaskNext]_taskVars => ChainInv'
<1> SUFFICES ASSUME ChainInv, [TaskNext]_taskVars PROVE ChainInv'
  OBVIOUS
<1>1. CASE Daemon
  <2>1. ASSUME NEW t \in Tasks, SettleCancel(t) \/ SettleRelease(t) \/ accept_event(t) PROVE ChainInv'
    BY <2>1, SettlesKeep, SettleReleaseKeeps, accept_eventKeeps
  <2>2. ASSUME NEW t \in Tasks, retry_resume(t) PROVE ChainInv'
    BY <2>2, SavedResumesKeeps DEF retry_resume
  <2> QED BY <1>1, <2>1, <2>2, launchKeeps, spawn_task_runKeeps DEF Daemon
<1>2. CASE Submit
  BY <1>2, SubmitKeeps
<1>3. ASSUME NEW t \in Tasks, Resubmit(t) \/ refuse_held_launch(t) \/ append_report(t) PROVE ChainInv'
  BY <1>3, ResubmitKeeps, SettlesKeep, append_reportKeeps
<1>4. ASSUME NEW t \in Tasks, NEW how \in {"exit_0", "exit_1", "cancelled", "lost"}, Exit(t, how)
      PROVE  ChainInv'
  BY <1>4, ExitKeeps
<1>5. ASSUME NEW i \in DOMAIN mailbox, CallerTimeout(i) PROVE ChainInv'
  BY <1>5, CallerTimeoutKeeps
<1>6. CASE Recover
  BY <1>6, RecoverKeeps
<1>7. CASE CancelStart \/ CancelReadsChain \/ CancelHeld \/ CancelRow \/ CancelReadsAgain
  BY <1>7, CancelStartKeeps, CancelReadsChainKeeps, CancelHeldKeeps, CancelRowKeeps, CancelReadsAgainKeeps
<1>8. CASE UNCHANGED taskVars
  <2>1. ChainTypes /\ Cancelling
    BY DEF ChainInv
  <2>2. UNCHANGED <<body, fresh, route, row, stopping, report, thread, ending, outcome,
              chainOf, chain, mailbox, launching, canceller, cancels, answered, taskFaults>>
    BY <1>8 DEF taskVars
  <2>3. Cancelling'
    BY <2>1, <2>2, NothingMoves, CancellingStays
  <2> QED BY <2>1, <2>2, <2>3, CancellerMoves DEF ChainTypes
<1> QED BY <1>1, <1>2, <1>3, <1>4, <1>5, <1>6, <1>7, <1>8 DEF TaskNext

LEMMA ChainInvMeansOrder == ChainInv => LaunchesInOrder
<1> SUFFICES ASSUME ChainInv PROVE LaunchesInOrder
  OBVIOUS
<1>0. ChainTypes /\ Routes /\ Releases
  BY DEF ChainInv
<1>1. TaskTypeOK
  <2>1. \A i \in DOMAIN mailbox : mailbox[i] \in Launch
    BY <1>0 DEF ChainTypes
  <2> QED BY <1>0, <2>1 DEF ChainTypes, TaskTypeOK, BodyRow, RouteStatus, RowStatus, EndingKinds,
                            Outcomes, ChainRow, Launch
<1>2. LaunchedOnceOrNever
  <2>1. \A t, u \in Tasks : row[t] # "none" /\ row[u] # "none" /\ body[t].request = body[u].request => t = u
    BY <1>0 DEF Routes
  <2>2. \A t \in Tasks : route[t] \in {"held", "cancelled", "rejected"} => row[t] = "none"
    BY <1>0 DEF Routes
  <2> QED BY <2>1, <2>2 DEF LaunchedOnceOrNever
<1>3. ReleasedAfterChains
  BY <1>0 DEF ReleasedAfterChains, Releases, Ready
<1> QED BY <1>1, <1>2, <1>3 DEF LaunchesInOrder

LEMMA ChainInvMeansOwner == ChainInv => OneOwner
<1> SUFFICES ASSUME ChainInv PROVE OneOwner
  OBVIOUS
<1>0. ChainTypes /\ OneResumerPerThread /\ Cancelling
  BY DEF ChainInv
<1>1. ASSUME NEW a \in answered, a.chained PROVE Stopped(a.task)
  <2>1. chainOf[a.task] # 0 /\ ChainStopped(chainOf[a.task])
    BY <1>0, <1>1 DEF Cancelling
  <2>2. CASE chain[chainOf[a.task]].state = "ended"
    BY <2>1, <2>2 DEF Stopped, chain_current_run
  <2>3. CASE /\ chain[chainOf[a.task]].state = "running"
             /\ chain[chainOf[a.task]].current \in stopping \/ row[chain[chainOf[a.task]].current] \in Ended
    BY <2>1, <2>3 DEF Stopped, chain_current_run
  <2> QED BY <2>1, <2>2, <2>3 DEF ChainStopped
<1> QED BY <1>0, <1>1 DEF OneOwner, ChainCancelReachesOwner

\* In every behaviour of TaskSpec, whatever the numbers of tasks, of runs in a
\* chain, of cancels and of faults: the rows, routes and chains that the store
\* keeps fit together as ChainInv says.
THEOREM ChainInvariance == TaskSpec => []ChainInv
  BY ChainStart, ChainSteps, PTL DEF TaskSpec

\* What is held launches once or never: a request has one row even when a
\* timed-out launch is still in the supervisor's mailbox, a route that was
\* cancelled or rejected has none, and a row is there only after every task it
\* was held for ended with its whole chain, in success where `after' asks for it.
THEOREM LaunchesInOrderCorrect == TaskSpec => []LaunchesInOrder
  BY ChainInvariance, ChainInvMeansOrder, PTL

\* A Codex thread is resumed by one live task at a time, and none resumes a thread
\* that a parked chain resumed before and will resume again; and a `task cancel' that found a chain has stopped the
\* run that owns the work, even if the chain launched or parked meanwhile.
THEOREM OneOwnerCorrect == TaskSpec => []OneOwner
  BY ChainInvariance, ChainInvMeansOwner, PTL

-----------------------------------------------------------------------------
(* The wait graph *)

\* A nonempty set of numbers has a least element
LEMMA LeastNumber ==
    ASSUME NEW S \in SUBSET Nat, S # {}
    PROVE  \E m \in S : \A n \in S : m <= n
<1> DEFINE R == {ss \in Nat \X Nat : ss[1] < ss[2]}
<1>1. IsWellFoundedOn(R, Nat)
  BY NatLessThanWellFounded DEF OpToRel
<1> HIDE DEF R
<1>2. PICK m \in S : \A n \in S : ~(<<n, m>> \in R)
  BY <1>1, WFMin
<1>3. \A n \in S : ~(n < m)
  BY <1>2 DEF R
<1> QED BY <1>3

\* A set of nodes of the graph E over V that no edge leaves
ClosedIn(V, E, C) == C \subseteq V /\ \A c \in C : E[c] \subseteq C

\* No node is reached from where its edges lead: a closed set around them leaves
\* it out
Acyclic(V, E) ==
    \A n \in V : \E C \in SUBSET V : ClosedIn(V, E, C) /\ E[n] \subseteq C /\ n \notin C

\* Fewer edges close no cycle
LEMMA FewerEdges ==
    ASSUME NEW V, NEW E, NEW F, Acyclic(V, E), \A n \in V : F[n] \subseteq E[n]
    PROVE  Acyclic(V, F)
<1> SUFFICES ASSUME NEW n \in V
             PROVE  \E C \in SUBSET V : ClosedIn(V, F, C) /\ F[n] \subseteq C /\ n \notin C
  BY DEF Acyclic
<1>1. PICK C \in SUBSET V : ClosedIn(V, E, C) /\ E[n] \subseteq C /\ n \notin C
  BY DEF Acyclic
<1>2. ClosedIn(V, F, C)
  BY <1>1 DEF ClosedIn
<1> QED BY <1>1, <1>2

\* Nor does a node that no edge leads to
LEMMA OneNodeMore ==
    ASSUME NEW V, NEW E, NEW F, Acyclic(V, E), NEW t, t \notin V,
           \A n \in V : E[n] \subseteq V /\ F[n] \subseteq E[n],
           F[t] \subseteq V
    PROVE  Acyclic(V \cup {t}, F)
<1> SUFFICES ASSUME NEW n \in V \cup {t}
             PROVE  \E C \in SUBSET (V \cup {t}) :
                       ClosedIn(V \cup {t}, F, C) /\ F[n] \subseteq C /\ n \notin C
  BY DEF Acyclic
<1>1. CASE n \in V
  <2>1. PICK C \in SUBSET V : ClosedIn(V, E, C) /\ E[n] \subseteq C /\ n \notin C
    BY <1>1 DEF Acyclic
  <2>2. ClosedIn(V \cup {t}, F, C) /\ C \in SUBSET (V \cup {t})
    BY <2>1 DEF ClosedIn
  <2> QED BY <1>1, <2>1, <2>2
<1>2. CASE n = t
  <2>1. ClosedIn(V \cup {t}, F, V)
    BY DEF ClosedIn
  <2> QED BY <1>2, <2>1
<1> QED BY <1>1, <1>2

\* Nor do edges of one node into a closed set that leaves it out
LEMMA EdgesIntoClosed ==
    ASSUME NEW V, NEW E, NEW F, Acyclic(V, E), NEW w \in V, NEW D \in SUBSET V,
           ClosedIn(V, E, D), w \notin D, F[w] \subseteq D,
           \A n \in V : n # w => F[n] \subseteq E[n]
    PROVE  Acyclic(V, F)
<1> SUFFICES ASSUME NEW n \in V
             PROVE  \E C \in SUBSET V : ClosedIn(V, F, C) /\ F[n] \subseteq C /\ n \notin C
  BY DEF Acyclic
<1>0. ClosedIn(V, F, D)
  BY DEF ClosedIn
<1>1. CASE n = w
  BY <1>0, <1>1
<1>2. CASE n # w
  <2>1. PICK C \in SUBSET V : ClosedIn(V, E, C) /\ E[n] \subseteq C /\ n \notin C
    BY DEF Acyclic
  <2>2. CASE n \in D
    <3>1. ClosedIn(V, F, C \cap D) /\ C \cap D \in SUBSET V
      BY <2>1 DEF ClosedIn
    <3>2. F[n] \subseteq C \cap D
      BY <1>0, <1>2, <2>1, <2>2 DEF ClosedIn
    <3> QED BY <2>1, <3>1, <3>2
  <2>3. CASE n \notin D
    <3>1. ClosedIn(V, F, C \cup D) /\ C \cup D \in SUBSET V
      BY <2>1 DEF ClosedIn
    <3>2. F[n] \subseteq C \cup D
      BY <1>2, <2>1
    <3> QED BY <2>1, <2>3, <3>1, <3>2
  <2> QED BY <2>2, <2>3
<1> QED BY <1>1, <1>2

-----------------------------------------------------------------------------
(* The graph of the store: chains, and tasks outside one *)

\* What a task waits for by itself
Own(t) == held_after_on(t) \cup pending_wait_on(t)

Nodes == {n \in 1 .. fresh : node_on(n) = n}
WaitEdges == [n \in Nodes |-> NodesOf(waits_of_on(n))]

\* A parked chain waits for tasks that were given out
ParkedOn == \A c \in Tasks : chain[c].state = "waiting" => chain[c].on \subseteq 1 .. fresh

WaitGraphInv == ParkedOn /\ Acyclic(Nodes, WaitEdges)

LEMMA WaitsOf ==
    ASSUME NEW n
    PROVE  waits_of_on(n) = CASE chain[n].state = "none"    -> Own(n)
                              [] chain[n].state = "waiting" -> chain[n].on
                              [] chain[n].state = "running" -> Own(chain[n].current)
                              [] OTHER                      -> {}
  BY DEF waits_of_on, Own

\* Every known task has a node
LEMMA NodeFacts ==
    ASSUME ChainTypes, Ids, ChainsFit
    PROVE  \A t \in 1 .. fresh : node_on(t) \in Nodes
<1> SUFFICES ASSUME NEW t \in 1 .. fresh PROVE node_on(t) \in Nodes
  OBVIOUS
<1>0. t \in Tasks /\ chainOf[t] \in 0 .. MaxTasks
  BY FreshType DEF ChainTypes
<1>1. CASE chainOf[t] = 0
  BY <1>1 DEF node_on, Nodes
<1>2. CASE chainOf[t] # 0
  <2> DEFINE c == chainOf[t]
  <2>1. c \in Tasks /\ node_on(t) = c
    BY <1>0, <1>2, TaskFacts DEF node_on
  <2>2. chain[c].state # "none"
    BY <1>0, <1>2 DEF ChainsFit
  <2>3. chainOf[c] = c
    BY <2>1, <2>2 DEF ChainsFit
  <2>4. c # 0
    BY <1>2
  <2> HIDE DEF c
  <2>5. c \in 1 .. fresh
    BY <2>1, <2>3, <2>4, KnownId
  <2> QED BY <2>1, <2>3, <2>4, <2>5 DEF Nodes, node_on
<1> QED BY <1>1, <1>2

\* A task's own waits are for known tasks
LEMMA OwnFacts ==
    ASSUME ChainTypes, Ids
    PROVE  \A t \in Tasks : Own(t) \subseteq 1 .. fresh
  BY DEF Ids, Own, held_after_on, pending_wait_on

LEMMA WaitFacts ==
    ASSUME ChainTypes, Ids, ChainsFit, ParkedOn
    PROVE  /\ \A n \in Nodes : waits_of_on(n) \subseteq 1 .. fresh
           /\ \A n \in Nodes : WaitEdges[n] = NodesOf(waits_of_on(n)) /\ WaitEdges[n] \subseteq Nodes
<1>1. ASSUME NEW n \in Nodes PROVE waits_of_on(n) \subseteq 1 .. fresh
  <2>1. n \in Tasks
    BY FreshType DEF Nodes
  <2>2. chain[n].state = "running" => chain[n].current \in Tasks
    <3>1. chain[n] \in ChainRow
      BY <2>1 DEF ChainTypes
    <3>2. chain[n].current \in 0 .. MaxTasks
      BY <3>1 DEF ChainRow
    <3> QED BY <2>1, <3>2, TaskFacts DEF ChainsFit
  <2>3. chain[n].state = "waiting" => chain[n].on \subseteq 1 .. fresh
    BY <2>1 DEF ParkedOn
  <2> QED BY <2>1, <2>2, <2>3, WaitsOf, OwnFacts
<1>2. ASSUME NEW n \in Nodes PROVE WaitEdges[n] = NodesOf(waits_of_on(n))
  BY DEF WaitEdges
<1>3. ASSUME NEW n \in Nodes PROVE WaitEdges[n] \subseteq Nodes
  BY <1>1, <1>2, NodeFacts DEF NodesOf
<1> QED BY <1>1, <1>2, <1>3

-----------------------------------------------------------------------------
(* What leads_back_on searches *)

\* One step further along the edges
Further(near) == near \cup NodesOf(UNION {waits_of_on(n) : n \in near})

\* The first m steps of the search from S
IsSearch(S, m, f) ==
    f = [k \in 0 .. m |-> IF k = 0 THEN NodesOf(S)
                          ELSE f[k - 1] \cup NodesOf(UNION {waits_of_on(n) : n \in f[k - 1]})]

Searches(S, m) == \E f : IsSearch(S, m, f)

LEMMA SearchStep ==
    ASSUME NEW S, NEW m \in Nat, m # 0, Searches(S, m - 1)
    PROVE  Searches(S, m)
<1> DEFINE start == NodesOf(S)
<1> HIDE DEF start
<1>1. PICK f : f = [k \in 0 .. (m - 1) |-> IF k = 0 THEN start ELSE Further(f[k - 1])]
  BY DEF Searches, IsSearch, start, Further
<1> DEFINE g == [k \in 0 .. m |-> IF k = m THEN Further(f[m - 1]) ELSE f[k]]
<1>2. ASSUME NEW n \in 0 .. m
      PROVE  g[n] = IF n = 0 THEN start ELSE Further(g[n - 1])
  <2>1. CASE n = m
    <3>1. n - 1 \in 0 .. m /\ n - 1 # m /\ n # 0
      BY <2>1
    <3>2. g[n] = Further(f[m - 1]) /\ g[n - 1] = f[m - 1]
      BY <2>1, <3>1
    <3> QED BY <2>1, <3>1, <3>2
  <2>2. CASE n # m
    <3>1. n \in 0 .. (m - 1) /\ g[n] = f[n]
      BY <2>2
    <3>2. n # 0 => n - 1 \in 0 .. m /\ n - 1 # m
      BY <2>2
    <3>3. n # 0 => g[n - 1] = f[n - 1]
      BY <3>2
    <3>4. f[n] = IF n = 0 THEN start ELSE Further(f[n - 1])
      BY <1>1, <3>1
    <3> HIDE DEF g
    <3> QED BY <3>1, <3>3, <3>4
  <2> QED BY <2>1, <2>2
<1>3. g = [n \in 0 .. m |-> g[n]]
  OBVIOUS
<1> HIDE DEF g
<1>4. g = [n \in 0 .. m |-> IF n = 0 THEN start ELSE Further(g[n - 1])]
  BY <1>2, <1>3
<1> QED BY <1>4 DEF Searches, IsSearch, start, Further

\* There is no least length to which the search cannot go
LEMMA SearchExists ==
    ASSUME NEW S, NEW m \in Nat
    PROVE  Searches(S, m)
<1> DEFINE Bad == {n \in Nat : ~Searches(S, n)}
<1> SUFFICES ASSUME Bad # {} PROVE FALSE
  OBVIOUS
<1>1. Bad \in SUBSET Nat
  OBVIOUS
<1>2. PICK n \in Bad : \A k \in Bad : n <= k
  <2> HIDE DEF Bad
  <2> QED BY <1>1, LeastNumber
<1>3. n \in Nat /\ ~Searches(S, n)
  OBVIOUS
<1>4. n # 0
  <2> DEFINE f == [k \in 0 .. 0 |-> NodesOf(S)]
  <2>1. f = [k \in 0 .. 0 |-> IF k = 0 THEN NodesOf(S)
                              ELSE f[k - 1] \cup NodesOf(UNION {waits_of_on(x) : x \in f[k - 1]})]
    OBVIOUS
  <2>2. Searches(S, 0)
    BY <2>1 DEF Searches, IsSearch
  <2> QED BY <1>3, <2>2
<1>5. n - 1 \in Nat /\ ~(n <= n - 1)
  BY <1>3, <1>4
<1>6. Searches(S, n - 1)
  BY <1>2, <1>5
<1> QED BY <1>3, <1>4, <1>6, SearchStep

\* ReachedFrom, step by step
LEMMA ReachedSteps ==
    ASSUME NEW S
    PROVE  \E f : /\ ReachedFrom(S) = f[MaxTasks] /\ f[0] = NodesOf(S)
                  /\ \A k \in 1 .. MaxTasks : f[k] = Further(f[k - 1])
<1> DEFINE f == CHOOSE g : IsSearch(S, MaxTasks, g)
<1>1. ReachedFrom(S) = f[MaxTasks]
  BY DEF ReachedFrom, IsSearch
<1>2. MaxTasks \in Nat
  BY TaskFacts
<1>3. IsSearch(S, MaxTasks, f)
  BY <1>2, SearchExists DEF Searches
<1> HIDE DEF f
<1> DEFINE start == NodesOf(S)
<1>4. f = [k \in 0 .. MaxTasks |-> IF k = 0 THEN start ELSE Further(f[k - 1])]
  BY <1>3 DEF IsSearch, Further
<1> HIDE DEF start
<1>5. f[0] = start /\ \A k \in 1 .. MaxTasks : f[k] = Further(f[k - 1])
  BY <1>2, <1>4
<1> QED BY <1>1, <1>5 DEF start

\* What holds of the first and is kept by every step holds of the last
LEMMA LastOfMany ==
    ASSUME NEW m \in Nat, NEW P, P \subseteq 0 .. m, 0 \in P,
           \A k \in 1 .. m : k - 1 \in P => k \in P
    PROVE  m \in P
<1> DEFINE Bad == {n \in 0 .. m : n \notin P}
<1> SUFFICES ASSUME Bad # {} PROVE FALSE
  BY m \in 0 .. m
<1>1. Bad \in SUBSET Nat
  OBVIOUS
<1>2. PICK n \in Bad : \A k \in Bad : n <= k
  <2> HIDE DEF Bad
  <2> QED BY <1>1, LeastNumber
<1>3. n \in 1 .. m /\ n - 1 \in 0 .. m /\ ~(n <= n - 1)
  OBVIOUS
<1> QED BY <1>2, <1>3

\* A step from inside a closed set stays inside
LEMMA FurtherInside ==
    ASSUME ChainTypes, Ids, ChainsFit, ParkedOn,
           NEW C, ClosedIn(Nodes, WaitEdges, C), NEW near, near \subseteq C
    PROVE  Further(near) \subseteq C
<1>1. \A n \in near : NodesOf(waits_of_on(n)) \subseteq C
  BY WaitFacts DEF ClosedIn
<1> QED BY <1>1 DEF Further, NodesOf

\* The search stays in every closed set that it starts in
LEMMA ReachedInside ==
    ASSUME ChainTypes, Ids, ChainsFit, ParkedOn,
           NEW C, ClosedIn(Nodes, WaitEdges, C), NEW S, NodesOf(S) \subseteq C
    PROVE  ReachedFrom(S) \subseteq C
<1>1. PICK f : /\ ReachedFrom(S) = f[MaxTasks] /\ f[0] = NodesOf(S)
               /\ \A k \in 1 .. MaxTasks : f[k] = Further(f[k - 1])
  BY ReachedSteps
<1>2. MaxTasks \in Nat
  BY TaskFacts
<1> DEFINE P == {k \in 0 .. MaxTasks : f[k] \subseteq C}
<1>3. P \subseteq 0 .. MaxTasks /\ 0 \in P
  BY <1>1, <1>2
<1>4. ASSUME NEW k \in 1 .. MaxTasks, k - 1 \in P PROVE k \in P
  <2>1. f[k - 1] \subseteq C
    BY <1>4
  <2>2. f[k] \subseteq C
    BY <1>1, <2>1, FurtherInside
  <2> QED BY <1>2, <2>2
<1>5. MaxTasks \in P
  <2> HIDE DEF P
  <2> QED BY <1>2, <1>3, <1>4, LastOfMany
<1> QED BY <1>1, <1>5

\* All nodes together are closed
LEMMA NodesClosed ==
    ASSUME ChainTypes, Ids, ChainsFit, ParkedOn
    PROVE  ClosedIn(Nodes, WaitEdges, Nodes)
  BY WaitFacts DEF ClosedIn

\* A strictly larger finite set has one element more
LEMMA OneLarger ==
    ASSUME NEW U, IsFiniteSet(U), NEW A, NEW B, A \subseteq B, B \subseteq U, A # B,
           NEW k \in Nat, Cardinality(A) >= k
    PROVE  Cardinality(B) >= k + 1
<1>1. IsFiniteSet(B) /\ IsFiniteSet(A)
  BY FS_Subset
<1>2. Cardinality(A) <= Cardinality(B) /\ Cardinality(A) # Cardinality(B)
  BY <1>1, FS_Subset
<1>3. Cardinality(A) \in Nat /\ Cardinality(B) \in Nat
  BY <1>1, FS_CardinalityType
<1> QED BY <1>2, <1>3

\* There are no more nodes than tasks
LEMMA NodesAreFinite ==
    ASSUME ChainTypes
    PROVE  IsFiniteSet(Tasks) /\ Cardinality(Tasks) = MaxTasks /\ Nodes \subseteq Tasks
<1>1. 1 \in Int /\ MaxTasks \in Int /\ MaxTasks >= 1
  BY ChainAssumption
<1>2. IsFiniteSet(1 .. MaxTasks) /\ Cardinality(1 .. MaxTasks) = MaxTasks
  <2>1. Cardinality(1 .. MaxTasks) = MaxTasks - 1 + 1
    BY <1>1, FS_Interval
  <2> QED BY <1>1, <2>1, FS_Interval
<1> QED BY <1>2, FreshType DEF Tasks, Nodes

\* MaxTasks steps reach all there is: the search ends in a closed set
LEMMA ReachedCloses ==
    ASSUME ChainTypes, Ids, ChainsFit, ParkedOn, NEW S, S \subseteq 1 .. fresh
    PROVE  ClosedIn(Nodes, WaitEdges, ReachedFrom(S)) /\ NodesOf(S) \subseteq ReachedFrom(S)
<1>1. PICK f : /\ ReachedFrom(S) = f[MaxTasks] /\ f[0] = NodesOf(S)
               /\ \A k \in 1 .. MaxTasks : f[k] = Further(f[k - 1])
  BY ReachedSteps
<1>2. MaxTasks \in Nat
  BY TaskFacts
<1>3. NodesOf(S) \subseteq Nodes
  BY NodeFacts DEF NodesOf
<1>4. \A near : near \subseteq Further(near)
  BY DEF Further
<1>5. IsFiniteSet(Tasks) /\ Cardinality(Tasks) = MaxTasks /\ Nodes \subseteq Tasks
  BY NodesAreFinite
<1> DEFINE P == {k \in 0 .. MaxTasks : /\ f[k] \subseteq Nodes /\ NodesOf(S) \subseteq f[k]
                                       /\ Further(f[k]) = f[k] \/ Cardinality(f[k]) >= k}
<1>6. P \subseteq 0 .. MaxTasks
  OBVIOUS
<1>7. 0 \in P
  <2>1. Cardinality(f[0]) \in Nat
    BY <1>1, <1>3, <1>5, FS_Subset, FS_CardinalityType
  <2>2. Cardinality(f[0]) >= 0
    BY <2>1
  <2>3. 0 \in 0 .. MaxTasks
    BY <1>2
  <2> QED BY <1>1, <1>3, <2>2, <2>3
<1>8. ASSUME NEW k \in 1 .. MaxTasks, k - 1 \in P PROVE k \in P
  <2>0. k \in 0 .. MaxTasks /\ k - 1 \in Nat /\ k - 1 + 1 = k
    BY <1>2
  <2>1. /\ f[k - 1] \subseteq Nodes /\ NodesOf(S) \subseteq f[k - 1]
        /\ Further(f[k - 1]) = f[k - 1] \/ Cardinality(f[k - 1]) >= k - 1
    BY <1>8
  <2>2. f[k] = Further(f[k - 1])
    BY <1>1
  <2>3. f[k] \subseteq Nodes
    BY <2>1, <2>2, FurtherInside, NodesClosed
  <2>4. NodesOf(S) \subseteq f[k]
    BY <1>4, <2>1, <2>2
  <2>5. Further(f[k]) = f[k] \/ Cardinality(f[k]) >= k
    <3>1. CASE Further(f[k - 1]) = f[k - 1]
      BY <2>2, <3>1
    <3>2. CASE Further(f[k - 1]) # f[k - 1]
      <4>1. Cardinality(f[k - 1]) >= k - 1 /\ f[k - 1] \subseteq f[k] /\ f[k - 1] # f[k] /\ f[k] \subseteq Tasks
        BY <1>4, <1>5, <2>1, <2>2, <2>3, <3>2
      <4>2. Cardinality(f[k]) >= (k - 1) + 1
        BY <1>5, <2>0, <4>1, OneLarger
      <4> QED BY <2>0, <4>2
    <3> QED BY <3>1, <3>2
  <2> QED BY <2>0, <2>3, <2>4, <2>5
<1>9. MaxTasks \in P
  <2> HIDE DEF P
  <2> QED BY <1>2, <1>6, <1>7, <1>8, LastOfMany
<1> DEFINE R == f[MaxTasks]
<1>10. /\ R \subseteq Nodes /\ NodesOf(S) \subseteq R
       /\ Further(R) = R \/ Cardinality(R) >= MaxTasks
  BY <1>9
<1> HIDE DEF R, P
<1>11. Further(R) = R
  <2>1. CASE Cardinality(R) >= MaxTasks
    <3>1. IsFiniteSet(R) /\ R \subseteq Tasks /\ Cardinality(R) \in Nat
      BY <1>5, <1>10, FS_Subset, FS_CardinalityType
    <3>2. Cardinality(R) <= MaxTasks
      BY <1>5, <3>1, FS_Subset
    <3>3. Cardinality(R) = Cardinality(Tasks)
      BY <1>2, <1>5, <2>1, <3>1, <3>2
    <3>4. R = Tasks
      BY <1>5, <3>1, <3>3, FS_Subset
    <3>5. Further(R) \subseteq Nodes
      BY <1>10, FurtherInside, NodesClosed
    <3> QED BY <1>4, <1>5, <3>4, <3>5
  <2> QED BY <1>10, <2>1
<1>12. ClosedIn(Nodes, WaitEdges, R)
  <2>1. ASSUME NEW c \in R PROVE WaitEdges[c] \subseteq R
    <3>1. NodesOf(waits_of_on(c)) \subseteq Further(R)
      BY DEF Further, NodesOf
    <3>2. WaitEdges[c] = NodesOf(waits_of_on(c))
      BY <1>10, WaitFacts
    <3> QED BY <1>11, <3>1, <3>2
  <2> QED BY <1>10, <2>1 DEF ClosedIn
<1> QED BY <1>1, <1>10, <1>12 DEF R

\* The graph has no cycle exactly as the search sees it
LEMMA WaitGraphInvMeans == ChainInv /\ WaitGraphInv => WaitGraphAcyclic
<1> SUFFICES ASSUME ChainInv, WaitGraphInv, NEW n \in Tasks, node_on(n) = n
             PROVE  n \notin ReachedFrom(waits_of_on(n))
  BY DEF WaitGraphAcyclic
<1>0. ChainTypes /\ Ids /\ ChainsFit /\ ParkedOn /\ Acyclic(Nodes, WaitEdges)
  BY DEF ChainInv, WaitGraphInv
<1>1. CASE n \in Nodes
  <2>1. PICK C \in SUBSET Nodes : ClosedIn(Nodes, WaitEdges, C) /\ WaitEdges[n] \subseteq C /\ n \notin C
    BY <1>0, <1>1 DEF Acyclic
  <2>2. NodesOf(waits_of_on(n)) \subseteq C
    BY <1>0, <1>1, <2>1, WaitFacts
  <2>3. ReachedFrom(waits_of_on(n)) \subseteq C
    BY <1>0, <2>1, <2>2, ReachedInside
  <2> QED BY <2>1, <2>3
<1>2. CASE n \notin Nodes
  <2>0. n > fresh
    BY <1>0, <1>2, FreshType, TaskFacts DEF Nodes
  <2>1. /\ chain[n].state = "none" /\ route[n] = "none" /\ row[n] = "none"
    BY <1>0, <2>0 DEF Ids
  <2>2. waits_of_on(n) = {}
    BY <2>1, WaitsOf, StatusFacts DEF Own, held_after_on, pending_wait_on
  <2>3. NodesOf(waits_of_on(n)) \subseteq Nodes
    BY <2>2 DEF NodesOf
  <2>4. ReachedFrom(waits_of_on(n)) \subseteq Nodes
    BY <1>0, <2>3, ReachedInside, NodesClosed
  <2> QED BY <1>2, <2>4
<1> QED BY <1>1, <1>2

-----------------------------------------------------------------------------
(* What a step does to the graph *)

\* No node waits for more than it did
LEMMA WaitsFewer ==
    ASSUME ChainTypes, Ids, ChainsFit, WaitGraphInv, ParkedOn', Nodes' = Nodes,
           \A t \in 1 .. fresh : node_on(t)' = node_on(t),
           \A n \in Nodes : waits_of_on(n)' \subseteq waits_of_on(n)
    PROVE  WaitGraphInv'
<1>0. ParkedOn /\ Acyclic(Nodes, WaitEdges)
  BY DEF WaitGraphInv
<1>1. ASSUME NEW n \in Nodes PROVE WaitEdges'[n] \subseteq WaitEdges[n]
  <2>1. waits_of_on(n) \subseteq 1 .. fresh /\ WaitEdges[n] = NodesOf(waits_of_on(n))
    BY <1>0, WaitFacts
  <2>2. WaitEdges'[n] = {node_on(t)' : t \in waits_of_on(n)'}
    BY DEF WaitEdges, NodesOf
  <2> QED BY <2>1, <2>2 DEF NodesOf
<1>2. Acyclic(Nodes, WaitEdges')
  BY <1>0, <1>1, FewerEdges
<1> QED BY <1>2 DEF WaitGraphInv

\* The steps that give out no id and take no waiting report: what is no longer
\* held, or withdrawn, leaves the graph, a chain may end, or go on in a run that
\* waits for nothing
Quiet ==
    /\ fresh' = fresh /\ body' = body /\ chainOf' = chainOf
    /\ \A t \in Tasks : (route'[t] = "held" => route[t] = "held") /\ report'[t] \subseteq report[t]
    /\ \A c \in Tasks :
          \/ chain'[c] = chain[c]
          \/ chain'[c].state = "ended"
          \/ /\ chain'[c].state = "running"
             /\ \E x \in Tasks : chain'[c].current = x /\ report'[x] = {} /\ route'[x] # "held"

LEMMA OwnShrinks ==
    ASSUME ChainTypes, Endings, Quiet, NEW t \in Tasks
    PROVE  Own(t)' \subseteq Own(t)
<1>1. held_after_on(t)' \subseteq held_after_on(t)
  BY DEF Quiet, held_after_on
<1>2. pending_wait_on(t)' \subseteq report[t]
  BY DEF Quiet, pending_wait_on
<1>3. report[t] \subseteq pending_wait_on(t)
  <2>1. CASE report[t] = {}
    BY <2>1
  <2>2. CASE report[t] # {}
    BY <2>2 DEF Endings, pending_wait_on, Live
  <2> QED BY <2>1, <2>2
<1> QED BY <1>1, <1>2, <1>3 DEF Own

LEMMA QuietWaits ==
    ASSUME ChainTypes, Ids, Endings, ChainsFit, ParkedOn, Quiet, NEW n \in Nodes
    PROVE  waits_of_on(n)' \subseteq waits_of_on(n)
<1>0. n \in Tasks
  BY FreshType DEF Nodes
<1>1. waits_of_on(n)' = CASE chain'[n].state = "none"    -> Own(n)'
                          [] chain'[n].state = "waiting" -> chain'[n].on
                          [] chain'[n].state = "running" -> held_after_on(chain[n].current)' \cup pending_wait_on(chain[n].current)'
                          [] OTHER                       -> {}
  BY DEF waits_of_on, Own
<1>2. CASE chain'[n] = chain[n]
  <2>1. chain[n].state = "running" => chain[n].current \in Tasks
    <3>1. chain[n] \in ChainRow
      BY <1>0 DEF ChainTypes
    <3>2. chain[n].current \in 0 .. MaxTasks
      BY <3>1 DEF ChainRow
    <3> QED BY <1>0, <3>2, TaskFacts DEF ChainsFit
  <2>2. ASSUME chain[n].state = "running"
        PROVE  held_after_on(chain[n].current)' \cup pending_wait_on(chain[n].current)' \subseteq Own(chain[n].current)
    <3>1. PICK x \in Tasks : chain[n].current = x /\ chain'[n].current = x
      BY <1>2, <2>1, <2>2
    <3>2. Own(x)' \subseteq Own(x)
      BY <3>1, OwnShrinks
    <3> QED BY <3>1, <3>2 DEF Own, held_after_on, pending_wait_on
  <2>3. Own(n)' \subseteq Own(n)
    BY <1>0, OwnShrinks
  <2> QED BY <1>1, <1>2, <2>2, <2>3, WaitsOf
<1>3. CASE chain'[n].state = "ended"
  BY <1>1, <1>3
<1>4. CASE /\ chain'[n].state = "running"
           /\ \E x \in Tasks : chain'[n].current = x /\ report'[x] = {} /\ route'[x] # "held"
  <2>1. waits_of_on(n)' = {}
    BY <1>4 DEF waits_of_on, held_after_on, pending_wait_on
  <2> QED BY <2>1
<1> QED BY <1>0, <1>2, <1>3, <1>4 DEF Quiet

LEMMA QuietKeeps ==
    ASSUME ChainInv, WaitGraphInv, Quiet
    PROVE  WaitGraphInv'
<1>0. ChainTypes /\ Ids /\ Endings /\ ChainsFit /\ ParkedOn
  BY DEF ChainInv, WaitGraphInv
<1>1. ParkedOn'
  BY <1>0 DEF ParkedOn, Quiet
<1>2. \A t \in 1 .. fresh : node_on(t)' = node_on(t)
  BY DEF Quiet, node_on
<1>3. Nodes' = Nodes
  BY DEF Quiet, node_on, Nodes
<1>4. \A n \in Nodes : waits_of_on(n)' \subseteq waits_of_on(n)
  BY <1>0, QuietWaits
<1> QED BY <1>0, <1>1, <1>2, <1>3, <1>4, WaitsFewer

\* The node of a live run, and what it waits for
LEMMA RunnerNode ==
    ASSUME ChainTypes, Ids, Routes, ChainsFit, NEW t \in Tasks, row[t] \in Live
    PROVE  /\ node_on(t) \in Nodes /\ t \in 1 .. fresh /\ route[t] = "accepted"
           /\ \/ chain[node_on(t)].state = "none" /\ node_on(t) = t /\ chainOf[t] = 0
              \/ chain[node_on(t)].state = "running" /\ chain[node_on(t)].current = t
           /\ \A n \in Nodes : n # node_on(t) =>
                 /\ chain[n].state = "none" => n # t
                 /\ chain[n].state = "running" => chain[n].current # t
<1>1. row[t] # "none" /\ route[t] = "accepted"
  BY StatusFacts DEF Routes
<1>2. t \in 1 .. fresh
  BY <1>1, KnownId
<1>3. node_on(t) \in Nodes
  BY <1>2, NodeFacts
<1>4. \/ chain[node_on(t)].state = "none" /\ node_on(t) = t /\ chainOf[t] = 0
      \/ chain[node_on(t)].state = "running" /\ chain[node_on(t)].current = t
  <2>1. CASE chainOf[t] = 0
    <3>1. t # 0
      BY TaskFacts
    <3> QED BY <2>1, <3>1 DEF ChainsFit, node_on
  <2>2. CASE chainOf[t] # 0
    BY <2>2 DEF ChainsFit, node_on
  <2> QED BY <2>1, <2>2
<1>5. ASSUME NEW n \in Nodes, n # node_on(t)
      PROVE  /\ chain[n].state = "none" => n # t
             /\ chain[n].state = "running" => chain[n].current # t
  <2>1. n \in Tasks /\ node_on(n) = n /\ n # 0
    BY FreshType, TaskFacts DEF Nodes
  <2>2. n # t
    BY <1>5, <2>1
  <2>3. ASSUME chain[n].state = "running", chain[n].current = t PROVE FALSE
    <3>1. chainOf[t] = n
      BY <2>1, <2>3 DEF ChainsFit
    <3> QED BY <1>5, <2>1, <3>1 DEF node_on
  <2> QED BY <2>2, <2>3
<1> QED BY <1>1, <1>2, <1>3, <1>4, <1>5

-----------------------------------------------------------------------------
(* Every step of TaskChains *)

\* Rows, launches and calls are not in the graph
LEMMA RowsAreQuiet ==
    ASSUME UNCHANGED <<body, fresh, route, report, chainOf, chain>>
    PROVE  Quiet
  BY DEF Quiet

LEMMA ExitIsQuiet ==
    ASSUME ChainInv, NEW t \in Tasks, NEW how \in {"exit_0", "exit_1", "cancelled", "lost"},
           Exit(t, how), classify_exit(t, how) # "waiting"
    PROVE  Quiet
<1>1. UNCHANGED <<body, fresh, route, chainOf, chain>> /\ report' = [report EXCEPT ![t] = {}]
  BY DEF Exit
<1>2. report \in [Tasks -> SUBSET Tasks]
  BY DEF ChainInv, ChainTypes
<1>3. \A s \in Tasks : report'[s] \subseteq report[s]
  BY <1>1, <1>2
<1> QED BY <1>1, <1>3 DEF Quiet

\* A held route that ends, with its chain
LEMMA EndUnlaunchedIsQuiet ==
    ASSUME ChainInv, NEW t \in Tasks, NEW sub \in {"cancelled", "rejected"}, NEW result \in Ended,
           EndUnlaunched(t, sub, result), UNCHANGED <<body, fresh, report, chainOf>>
    PROVE  Quiet
<1>1. route \in [Tasks -> RouteStatus] /\ route' = [route EXCEPT ![t] = sub] /\ end_chain_on(t, result)
  BY DEF ChainInv, ChainTypes, EndUnlaunched
<1>2. \A s \in Tasks : route'[s] = "held" => route[s] = "held"
  BY <1>1
<1>3. \A c \in Tasks : chain'[c] = chain[c] \/ chain'[c].state = "ended"
  BY <1>1, EndChain
<1> QED BY <1>2, <1>3 DEF Quiet

LEMMA SettlesAreQuiet ==
    ASSUME ChainInv, NEW t \in Tasks, SettleCancel(t) \/ refuse_held_launch(t)
    PROVE  Quiet
<1>1. UNCHANGED <<body, fresh, report, chainOf>>
  BY DEF SettleCancel, refuse_held_launch
<1>2. EndUnlaunched(t, "cancelled", "cancelled") \/ EndUnlaunched(t, "rejected", "failed")
  BY DEF SettleCancel, refuse_held_launch, cancel_held_route
<1>3. "cancelled" \in Ended /\ "failed" \in Ended
  BY DEF Ended
<1> QED BY <1>1, <1>2, <1>3, EndUnlaunchedIsQuiet

LEMMA accept_eventIsQuiet ==
    ASSUME ChainInv, NEW t \in Tasks, accept_event(t)
    PROVE  Quiet
<1>1. UNCHANGED <<body, fresh, route, report, chainOf>> /\ ending[t] # "none" /\ record_outcome_on(t)
  BY DEF accept_event
<1>2. CASE ending[t] = "waiting"
  BY <1>1, <1>2, RowsAreQuiet DEF record_outcome_on
<1>3. CASE ending[t] # "waiting"
  <2>1. PICK result \in Ended : ending[t] = result
    BY <1>1, <1>3 DEF ChainInv, ChainTypes, EndingKinds
  <2>2. end_chain_on(t, result)
    BY <1>1, <1>3, <2>1 DEF record_outcome_on
  <2>3. \A c \in Tasks : chain'[c] = chain[c] \/ chain'[c].state = "ended"
    BY <2>2, EndChain
  <2> QED BY <1>1, <2>3 DEF Quiet
<1> QED BY <1>2, <1>3

LEMMA CancelHeldIsQuiet ==
    ASSUME ChainInv, CancelHeld
    PROVE  Quiet
<1>1. PICK t \in Tasks : t = canceller.current
  BY CancellerKnows DEF CancelHeld
<1>2. UNCHANGED <<body, fresh, report, chainOf>>
  BY DEF CancelHeld, CancelRest
<1>3. CASE EndUnlaunched(t, "cancelled", "cancelled")
  BY <1>2, <1>3, EndUnlaunchedIsQuiet DEF Ended
<1>4. CASE UNCHANGED <<route, outcome, chain>>
  BY <1>2, <1>4, RowsAreQuiet
<1> QED BY <1>1, <1>3, <1>4 DEF CancelHeld, cancel_held_route

\* A launch takes its task out of the graph: a run that starts waits for nothing
LEMMA launchIsQuiet ==
    ASSUME ChainInv, launch
    PROVE  Quiet
<1>0. ChainTypes /\ Endings
  BY DEF ChainInv
<1>1. UNCHANGED <<body, fresh, report, chainOf>> /\ mailbox # <<>>
  BY DEF launch
<1>2. PICK m \in Launch : m = Head(mailbox)
  BY <1>0, <1>1 DEF ChainTypes
<1>3. m.task \in Tasks
  BY DEF Launch
<1>4. CASE UNCHANGED <<route, chain>>
  BY <1>1, <1>4, RowsAreQuiet
<1>5. CASE /\ ~(m.released /\ row[m.task] # "none") /\ Admits(m)
           /\ route' = [route EXCEPT ![m.task] = "accepted"]
           /\ start_continuation_on(m.task)
  <2>1. PICK t \in Tasks : t = m.task
    BY <1>3
  <2>2. route[t] \in {"none", "held"} /\ row[t] = "none"
    BY <1>5, <2>1, AdmitsFacts
  <2>3. route \in [Tasks -> RouteStatus] /\ route' = [route EXCEPT ![t] = "accepted"]
    BY <1>0, <1>5, <2>1 DEF ChainTypes
  <2>4. \A s \in Tasks : route'[s] = "held" => route[s] = "held"
    BY <2>3
  <2>5. report'[t] = {} /\ route'[t] # "held"
    BY <1>0, <1>1, <2>2, <2>3 DEF Endings
  <2>6. start_continuation_on(t)
    BY <1>5, <2>1
  <2>7. \A c \in Tasks : chain'[c] = chain[c] \/ (chain'[c].state = "running" /\ chain'[c].current = t)
    BY <2>2, <2>6, StartContinuation
  <2> QED BY <1>1, <2>4, <2>5, <2>7 DEF Quiet
<1> QED BY <1>2, <1>4, <1>5 DEF launch

\* A report names targets from which the search does not come back to the
\* reporter, so what they reach is closed and leaves it out
LEMMA append_reportWaits ==
    ASSUME ChainInv, WaitGraphInv, NEW t \in Tasks, append_report(t)
    PROVE  WaitGraphInv'
<1>0. ChainTypes /\ Ids /\ Routes /\ Endings /\ ChainsFit /\ ParkedOn /\ Acyclic(Nodes, WaitEdges)
  BY DEF ChainInv, WaitGraphInv
<1>1. PICK on \in SUBSET (1 .. fresh) : /\ on # {} => check_waiting_on(t, on)
                                        /\ report' = [report EXCEPT ![t] = on]
  BY DEF append_report
<1>2. row[t] = "running" /\ UNCHANGED <<body, fresh, route, row, chainOf, chain>>
  BY DEF append_report, WorkerRest
<1>3. /\ \A s \in Tasks : s # t => Own(s)' = Own(s)
      /\ report'[t] = on
  BY <1>0, <1>1, <1>2 DEF ChainTypes, Own, held_after_on, pending_wait_on
<1>4. PICK w \in Nodes : w = node_on(t)
  BY <1>0, <1>2, RunnerNode DEF Live
<1>5. /\ \/ chain[w].state = "none" /\ w = t
         \/ chain[w].state = "running" /\ chain[w].current = t
      /\ route[t] = "accepted"
      /\ \A n \in Nodes : n # w => /\ chain[n].state = "none" => n # t
                                   /\ chain[n].state = "running" => chain[n].current # t
  BY <1>0, <1>2, <1>4, RunnerNode DEF Live
<1>6. Nodes' = Nodes /\ (\A s : node_on(s)' = node_on(s)) /\ ParkedOn'
  BY <1>0, <1>2 DEF Nodes, node_on, ParkedOn
<1>7. waits_of_on(w)' = on
  BY <1>2, <1>3, <1>5 DEF waits_of_on, held_after_on, pending_wait_on, Live
<1>8. ASSUME NEW n \in Nodes, n # w PROVE waits_of_on(n)' = waits_of_on(n)
  <2>1. n \in Tasks
    BY <1>0, FreshType DEF Nodes
  <2>2. CASE chain[n].state = "running"
    <3>1. PICK x \in Tasks : x = chain[n].current
      BY <1>0, <2>1, <2>2, TaskFacts DEF ChainTypes, ChainRow, ChainsFit
    <3>2. Own(x)' = Own(x)
      BY <1>3, <1>5, <1>8, <2>2, <3>1
    <3> QED BY <1>2, <2>2, <3>1, <3>2 DEF waits_of_on, Own
  <2>3. CASE chain[n].state = "none"
    <3>1. Own(n)' = Own(n)
      BY <1>3, <1>5, <1>8, <2>1, <2>3
    <3> QED BY <1>2, <2>3, <3>1 DEF waits_of_on, Own
  <2>4. CASE chain[n].state \notin {"running", "none"}
    BY <1>2, <2>4 DEF waits_of_on
  <2> QED BY <2>2, <2>3, <2>4
<1> DEFINE D == UNION {ReachedFrom({d}) : d \in on}
<1>9. ASSUME NEW d \in on
      PROVE  /\ ClosedIn(Nodes, WaitEdges, ReachedFrom({d})) /\ node_on(d) \in ReachedFrom({d})
             /\ w \notin ReachedFrom({d})
  <2>1. {d} \subseteq 1 .. fresh
    BY <1>1
  <2>2. NodesOf({d}) \subseteq ReachedFrom({d}) /\ ClosedIn(Nodes, WaitEdges, ReachedFrom({d}))
    BY <1>0, <2>1, ReachedCloses
  <2>3. node_on(d) \in ReachedFrom({d})
    BY <2>2 DEF NodesOf
  <2>4. w \notin ReachedFrom({d})
    BY <1>1, <1>4, <1>9 DEF check_waiting_on, leads_back_on
  <2> QED BY <2>2, <2>3, <2>4
<1>10. ClosedIn(Nodes, WaitEdges, D)
  BY <1>9 DEF ClosedIn
<1>11. w \notin D
  BY <1>9
<1>12. WaitEdges'[w] \subseteq D
  <2>1. WaitEdges'[w] = {node_on(s)' : s \in waits_of_on(w)'}
    BY <1>6 DEF WaitEdges, NodesOf
  <2>2. WaitEdges'[w] = {node_on(s) : s \in on}
    BY <1>6, <1>7, <2>1
  <2> QED BY <1>9, <2>2
<1>13. ASSUME NEW n \in Nodes, n # w PROVE WaitEdges'[n] \subseteq WaitEdges[n]
  <2>1. WaitEdges'[n] = {node_on(s)' : s \in waits_of_on(n)'}
    BY <1>6 DEF WaitEdges, NodesOf
  <2>2. WaitEdges[n] = {node_on(s) : s \in waits_of_on(n)}
    BY DEF WaitEdges, NodesOf
  <2> QED BY <1>6, <1>8, <1>13, <2>1, <2>2
<1>14. D \in SUBSET Nodes
  BY <1>10 DEF ClosedIn
<1> HIDE DEF D
<1>15. Acyclic(Nodes, WaitEdges')
  BY <1>0, <1>10, <1>11, <1>12, <1>13, <1>14, EdgesIntoClosed
<1> QED BY <1>6, <1>15 DEF WaitGraphInv

\* A new task: nobody waits for its id yet, and it waits for older ones
LEMMA admit_or_holdWaits ==
    ASSUME ChainInv, WaitGraphInv, NEW b \in BodyRow, admit_or_hold(b), b.after \subseteq 1 .. fresh
    PROVE  WaitGraphInv'
<1>0. ChainTypes /\ Ids /\ Routes /\ Endings /\ ChainsFit /\ ParkedOn /\ Acyclic(Nodes, WaitEdges)
  BY DEF ChainInv, WaitGraphInv
<1>1. /\ fresh < MaxTasks /\ fresh' = fresh + 1
      /\ body' = [body EXCEPT ![fresh + 1] = [b EXCEPT !.request = IF @ = 0 THEN fresh + 1 ELSE @]]
      /\ \/ route' = [route EXCEPT ![fresh + 1] = "held"]
         \/ route' = route
      /\ UNCHANGED <<row, report, chainOf, chain>>
  BY DEF admit_or_hold, TasksRest
<1>2. PICK t \in Tasks : t = fresh + 1
  BY <1>1, NextId
<1>3. /\ route[t] = "none" /\ row[t] = "none" /\ chainOf[t] = 0 /\ chain[t].state = "none"
      /\ \A s \in Tasks : chain[s].state = "running" => chain[s].current # t
  BY <1>1, <1>2, NewIsNowhere
<1>4. body \in [Tasks -> BodyRow] /\ route \in [Tasks -> RouteStatus]
  BY <1>0 DEF ChainTypes
<1>5. \A s \in Tasks : s # t => Own(s)' = Own(s)
  BY <1>1, <1>2, <1>4 DEF Own, held_after_on, pending_wait_on
<1>6. waits_of_on(t)' \subseteq 1 .. fresh
  <2>1. PICK nb : body' = [body EXCEPT ![t] = nb] /\ nb = [b EXCEPT !.request = IF @ = 0 THEN fresh + 1 ELSE @]
    BY <1>1, <1>2
  <2>2. nb.after \subseteq 1 .. fresh
    BY <2>1 DEF BodyRow
  <2>3. body'[t].after \subseteq 1 .. fresh
    BY <1>4, <2>1, <2>2
  <2> QED BY <1>1, <1>3, <2>3, StatusFacts DEF waits_of_on, held_after_on, pending_wait_on
<1>7. /\ 1 .. fresh' = (1 .. fresh) \cup {t} /\ t \notin 1 .. fresh
  BY <1>0, <1>1, <1>2, FreshType
<1>8. Nodes' = Nodes \cup {t} /\ t \notin Nodes /\ (\A s : node_on(s)' = node_on(s))
  BY <1>1, <1>3, <1>7 DEF Nodes, node_on
<1>9. ParkedOn'
  BY <1>0, <1>1, <1>7 DEF ParkedOn
<1>10. ASSUME NEW n \in Nodes PROVE waits_of_on(n)' = waits_of_on(n)
  <2>1. n \in Tasks /\ n # t
    BY <1>0, <1>8, FreshType DEF Nodes
  <2>2. CASE chain[n].state = "running"
    <3>1. PICK x \in Tasks : x = chain[n].current
      BY <1>0, <2>1, <2>2, TaskFacts DEF ChainTypes, ChainRow, ChainsFit
    <3>2. Own(x)' = Own(x)
      BY <1>3, <1>5, <2>1, <2>2, <3>1
    <3> QED BY <1>1, <2>2, <3>1, <3>2 DEF waits_of_on, Own
  <2>3. CASE chain[n].state = "none"
    <3>1. Own(n)' = Own(n)
      BY <1>5, <2>1
    <3> QED BY <1>1, <2>3, <3>1 DEF waits_of_on, Own
  <2>4. CASE chain[n].state \notin {"running", "none"}
    BY <1>1, <2>4 DEF waits_of_on
  <2> QED BY <2>2, <2>3, <2>4
<1>11. ASSUME NEW n \in Nodes PROVE WaitEdges'[n] \subseteq WaitEdges[n] /\ WaitEdges[n] \subseteq Nodes
  <2>1. WaitEdges'[n] = {node_on(s)' : s \in waits_of_on(n)'}
    BY <1>8 DEF WaitEdges, NodesOf
  <2>2. WaitEdges[n] = {node_on(s) : s \in waits_of_on(n)}
    BY DEF WaitEdges, NodesOf
  <2> QED BY <1>0, <1>8, <1>10, <2>1, <2>2, WaitFacts
<1>12. WaitEdges'[t] \subseteq Nodes
  <2>1. WaitEdges'[t] = {node_on(s)' : s \in waits_of_on(t)'}
    BY <1>8 DEF WaitEdges, NodesOf
  <2> QED BY <1>0, <1>6, <1>8, <2>1, NodeFacts
<1>13. Acyclic(Nodes \cup {t}, WaitEdges')
  BY <1>0, <1>8, <1>11, <1>12, OneNodeMore
<1> QED BY <1>8, <1>9, <1>13 DEF WaitGraphInv

LEMMA SubmitWaits ==
    ASSUME ChainInv, WaitGraphInv, Submit
    PROVE  WaitGraphInv'
<1>1. PICK after \in SUBSET (1 .. fresh), resume \in 0 .. fresh :
        admit_or_hold([after |-> after, rule |-> "succeeded", resume |-> resume, request |-> 0])
  BY DEF Submit
<1> DEFINE b == [after |-> after, rule |-> "succeeded", resume |-> resume, request |-> 0]
<1>2. b.after \subseteq 1 .. fresh /\ admit_or_hold(b)
  BY <1>1
<1>3. b \in BodyRow
  <2>1. ChainTypes
    BY DEF ChainInv
  <2>2. resume \in 0 .. MaxTasks /\ 0 \in 0 .. MaxTasks /\ after \in SUBSET Tasks
    BY <2>1, FreshType, TaskFacts DEF ChainTypes
  <2> QED BY <2>2 DEF BodyRow
<1> HIDE DEF b
<1> QED BY <1>2, <1>3, admit_or_holdWaits

LEMMA ResubmitWaits ==
    ASSUME ChainInv, WaitGraphInv, NEW t \in Tasks, Resubmit(t)
    PROVE  WaitGraphInv'
<1>1. CASE admit_or_hold(body[t])
  <2>1. PICK b \in BodyRow : b = body[t]
    BY DEF ChainInv, ChainTypes
  <2>2. b.after \subseteq 1 .. fresh
    BY <2>1 DEF ChainInv, Ids
  <2> QED BY <1>1, <2>1, <2>2, admit_or_holdWaits
<1>2. CASE UNCHANGED <<body, fresh, route, report, chainOf, chain>>
  BY <1>2, RowsAreQuiet, QuietKeeps
<1> QED BY <1>1, <1>2 DEF Resubmit

\* A run that parks leaves its waits to its chain
LEMMA ParkWaits ==
    ASSUME ChainInv, WaitGraphInv, NEW t \in Tasks, NEW how \in {"exit_0", "exit_1", "cancelled", "lost"},
           Exit(t, how), classify_exit(t, how) = "waiting"
    PROVE  WaitGraphInv'
<1>0. ChainTypes /\ Ids /\ Routes /\ Endings /\ ChainsFit /\ ParkedOn
  BY DEF ChainInv, WaitGraphInv
<1>1. PICK th : park_on(t, th)
  BY DEF Exit
<1>2. /\ row[t] = "running" /\ row' = [row EXCEPT ![t] = "succeeded"]
      /\ report' = [report EXCEPT ![t] = {}]
  BY DEF Exit, classify_exit
<1>3. fresh < MaxTasks /\ fresh' = fresh + 1
  BY <1>1 DEF park_on
<1>4. PICK x \in Tasks : x = fresh + 1
  BY <1>3, NextId
<1>5. PICK c \in Nodes : c = node_on(t)
  BY <1>0, <1>2, RunnerNode DEF Live
<1>6. c \in Tasks
  BY <1>0, FreshType DEF Nodes
<1>7. PICK nb, r : /\ body' = [body EXCEPT ![x] = nb] /\ route' = [route EXCEPT ![x] = "held"]
                   /\ chainOf' = [chainOf EXCEPT ![t] = c, ![x] = c] /\ chain' = [chain EXCEPT ![c] = r]
                   /\ r.state = "waiting" /\ r.on = report[t]
  <2> DEFINE nb == [after |-> report[t], rule |-> "ended",
                    resume |-> IF th # 0 THEN th ELSE body[t].resume, request |-> x]
             r == [state |-> "waiting", current |-> t, on |-> report[t], next |-> x,
                   runs |-> IF chainOf[t] # 0 THEN chain[c].runs + 1 ELSE 2, outcome |-> "none"]
  <2>1. /\ body' = [body EXCEPT ![x] = nb] /\ route' = [route EXCEPT ![x] = "held"]
        /\ chainOf' = [chainOf EXCEPT ![t] = c, ![x] = c] /\ chain' = [chain EXCEPT ![c] = r]
    BY <1>1, <1>4, <1>5 DEF park_on, node_on
  <2>2. r.state = "waiting" /\ r.on = report[t]
    OBVIOUS
  <2> HIDE DEF nb, r
  <2> QED BY <2>1, <2>2
<1>8. /\ route[x] = "none" /\ row[x] = "none" /\ chainOf[x] = 0 /\ chain[x].state = "none"
      /\ \A s \in Tasks : chainOf[s] # x /\ (chain[s].state = "running" => chain[s].current # x)
  BY <1>3, <1>4, NewIsNowhere
<1>9. 1 .. fresh' = (1 .. fresh) \cup {x} /\ x \notin 1 .. fresh /\ t \in 1 .. fresh
  <2>1. t \in 1 .. fresh
    BY <1>0, <1>2, RunnerNode DEF Live
  <2> QED BY <1>0, <1>3, <1>4, <2>1, FreshType
<1>10. /\ \/ chain[c].state = "none" /\ c = t
          \/ chain[c].state = "running" /\ chain[c].current = t
       /\ route[t] = "accepted"
       /\ \A n \in Nodes : n # c => /\ chain[n].state = "none" => n # t
                                    /\ chain[n].state = "running" => chain[n].current # t
  BY <1>0, <1>2, <1>5, RunnerNode DEF Live
<1>11. /\ c # 0 /\ node_on(c) = c /\ c # x
  BY <1>6, <1>9, TaskFacts DEF Nodes
<1>12. \A s \in 1 .. fresh : node_on(s)' = node_on(s)
  <2> SUFFICES ASSUME NEW s \in 1 .. fresh PROVE node_on(s)' = node_on(s)
    OBVIOUS
  <2>1. s \in Tasks /\ s # x
    BY <1>0, <1>9, FreshType
  <2>2. CASE s = t
    <3>1. chainOf'[s] = c
      BY <1>0, <1>7, <2>1, <2>2 DEF ChainTypes
    <3> QED BY <1>5, <1>11, <2>2, <3>1 DEF node_on
  <2>3. CASE s # t
    <3>1. chainOf'[s] = chainOf[s]
      BY <1>0, <1>7, <2>1, <2>3 DEF ChainTypes
    <3> QED BY <3>1 DEF node_on
  <2> QED BY <2>2, <2>3
<1>13. Nodes' = Nodes
  <2>1. node_on(x)' # x
    <3>1. chainOf'[x] = c
      BY <1>0, <1>7 DEF ChainTypes
    <3> QED BY <1>11, <3>1 DEF node_on
  <2> QED BY <1>9, <1>12, <2>1 DEF Nodes
<1>14. chain'[c] = r /\ (\A n \in Tasks : n # c => chain'[n] = chain[n])
  BY <1>0, <1>6, <1>7 DEF ChainTypes
<1>15. report[t] \subseteq 1 .. fresh
  BY <1>0 DEF Ids
<1>16. ParkedOn'
  <2> SUFFICES ASSUME NEW n \in Tasks, chain'[n].state = "waiting" PROVE chain'[n].on \subseteq 1 .. fresh'
    BY DEF ParkedOn
  <2>1. CASE n = c
    BY <1>7, <1>9, <1>14, <1>15, <2>1
  <2>2. CASE n # c
    BY <1>0, <1>9, <1>14, <2>2 DEF ParkedOn
  <2> QED BY <2>1, <2>2
<1>17. \A s \in Tasks : s # t /\ s # x => Own(s)' = Own(s)
  <2> SUFFICES ASSUME NEW s \in Tasks, s # t, s # x PROVE Own(s)' = Own(s)
    OBVIOUS
  <2>1. body'[s] = body[s] /\ route'[s] = route[s] /\ row'[s] = row[s] /\ report'[s] = report[s]
    BY <1>0, <1>2, <1>7 DEF ChainTypes
  <2> QED BY <2>1 DEF Own, held_after_on, pending_wait_on
<1>18. waits_of_on(c)' \subseteq waits_of_on(c)
  <2>1. waits_of_on(c)' = report[t]
    BY <1>7, <1>14 DEF waits_of_on
  <2>2. report[t] \subseteq waits_of_on(c)
    BY <1>2, <1>10 DEF waits_of_on, pending_wait_on, Live
  <2> QED BY <2>1, <2>2
<1>19. ASSUME NEW n \in Nodes, n # c PROVE waits_of_on(n)' = waits_of_on(n)
  <2>1. n \in Tasks /\ n # x
    BY <1>0, <1>9, FreshType DEF Nodes
  <2>2. chain'[n] = chain[n]
    BY <1>14, <1>19, <2>1
  <2>3. CASE chain[n].state = "running"
    <3>1. PICK y \in Tasks : y = chain[n].current
      BY <1>0, <2>1, <2>3, TaskFacts DEF ChainTypes, ChainRow, ChainsFit
    <3>2. Own(y)' = Own(y)
      BY <1>8, <1>10, <1>17, <1>19, <2>1, <2>3, <3>1
    <3> QED BY <2>2, <2>3, <3>1, <3>2 DEF waits_of_on, Own
  <2>4. CASE chain[n].state = "none"
    <3>1. Own(n)' = Own(n)
      BY <1>10, <1>17, <1>19, <2>1, <2>4
    <3> QED BY <2>2, <2>4, <3>1 DEF waits_of_on, Own
  <2>5. CASE chain[n].state \notin {"running", "none"}
    BY <2>2, <2>5 DEF waits_of_on
  <2> QED BY <2>3, <2>4, <2>5
<1>20. \A n \in Nodes : waits_of_on(n)' \subseteq waits_of_on(n)
  BY <1>18, <1>19
<1> QED BY <1>0, <1>12, <1>13, <1>16, <1>20, WaitsFewer

LEMMA ExitWaits ==
    ASSUME ChainInv, WaitGraphInv, NEW t \in Tasks, NEW how \in {"exit_0", "exit_1", "cancelled", "lost"},
           Exit(t, how)
    PROVE  WaitGraphInv'
  BY ParkWaits, ExitIsQuiet, QuietKeeps

LEMMA WaitStart == TaskInit => WaitGraphInv
<1> SUFFICES ASSUME TaskInit PROVE WaitGraphInv
  OBVIOUS
<1>1. /\ fresh = 1 /\ report = [t \in Tasks |-> {}]
      /\ chainOf = [t \in Tasks |-> 0] /\ chain = [t \in Tasks |-> NoChain]
      /\ route = [t \in Tasks |-> IF t = 1 THEN "accepted" ELSE "none"]
  BY DEF TaskInit
<1>2. ParkedOn
  BY <1>1 DEF ParkedOn, NoChain
<1>3. 1 \in Tasks /\ Nodes \subseteq {1}
  BY <1>1, TaskFacts DEF Nodes
<1>4. waits_of_on(1) = {}
  <2>1. chain[1].state = "none" /\ route[1] # "held" /\ report[1] = {}
    BY <1>1, <1>3 DEF NoChain
  <2> QED BY <2>1 DEF waits_of_on, held_after_on, pending_wait_on
<1>5. ASSUME NEW n \in Nodes PROVE WaitEdges[n] = {}
  BY <1>3, <1>4 DEF WaitEdges, NodesOf
<1>6. Acyclic(Nodes, WaitEdges)
  BY <1>5 DEF Acyclic, ClosedIn
<1> QED BY <1>2, <1>6 DEF WaitGraphInv

LEMMA WaitSteps == ChainInv /\ WaitGraphInv /\ [TaskNext]_taskVars => WaitGraphInv'
<1> SUFFICES ASSUME ChainInv, WaitGraphInv, [TaskNext]_taskVars PROVE WaitGraphInv'
  OBVIOUS
<1>1. CASE Daemon
  <2>1. ASSUME NEW t \in Tasks, SettleCancel(t) \/ accept_event(t) PROVE WaitGraphInv'
    BY <2>1, SettlesAreQuiet, accept_eventIsQuiet, QuietKeeps
  <2>2. ASSUME NEW t \in Tasks, SettleRelease(t) PROVE WaitGraphInv'
    <3>1. UNCHANGED <<body, fresh, route, report, chainOf, chain>>
      BY <2>2 DEF SettleRelease, TasksRest
    <3> QED BY <3>1, RowsAreQuiet, QuietKeeps
  <2>3. CASE spawn_task_run
    <3>1. UNCHANGED <<body, fresh, route, report, chainOf, chain>>
      BY <2>3 DEF spawn_task_run
    <3> QED BY <3>1, RowsAreQuiet, QuietKeeps
  <2>4. ASSUME NEW t \in Tasks, retry_resume(t) PROVE WaitGraphInv'
    <3>1. UNCHANGED <<body, fresh, route, report, chainOf, chain>>
      BY <2>4 DEF retry_resume
    <3> QED BY <3>1, RowsAreQuiet, QuietKeeps
  <2> QED BY <1>1, <2>1, <2>2, <2>3, <2>4, launchIsQuiet, QuietKeeps DEF Daemon
<1>2. CASE Submit
  BY <1>2, SubmitWaits
<1>3. ASSUME NEW t \in Tasks, Resubmit(t) \/ refuse_held_launch(t) \/ append_report(t) PROVE WaitGraphInv'
  BY <1>3, ResubmitWaits, SettlesAreQuiet, QuietKeeps, append_reportWaits
<1>4. ASSUME NEW t \in Tasks, NEW how \in {"exit_0", "exit_1", "cancelled", "lost"}, Exit(t, how)
      PROVE  WaitGraphInv'
  BY <1>4, ExitWaits
<1>5. ASSUME UNCHANGED <<body, fresh, route, report, chainOf, chain>> PROVE WaitGraphInv'
  BY <1>5, RowsAreQuiet, QuietKeeps
<1>6. ASSUME NEW i \in DOMAIN mailbox, CallerTimeout(i) PROVE WaitGraphInv'
  BY <1>5, <1>6 DEF CallerTimeout
<1>7. CASE Recover
  BY <1>5, <1>7 DEF Recover
<1>8. CASE CancelStart \/ CancelReadsChain \/ CancelRow \/ CancelReadsAgain
  BY <1>5, <1>8 DEF CancelStart, CancelReadsChain, CancelRow, CancelReadsAgain, CancelRest
<1>9. CASE CancelHeld
  BY <1>9, CancelHeldIsQuiet, QuietKeeps
<1>10. CASE UNCHANGED taskVars
  BY <1>5, <1>10 DEF taskVars
<1> QED BY <1>1, <1>2, <1>3, <1>4, <1>6, <1>7, <1>8, <1>9, <1>10 DEF TaskNext

\* Nobody waits for itself, whatever the number of tasks, runs, cancels and
\* faults: over the `after' lists of held tasks, the waiting reports of live runs
\* and the targets of parked chains, no node is reached from what it waits for.
\* The search that check_waiting_on makes before it takes a report is what keeps
\* it so, since it looks at all that the targets reach (store/chain.rs).
THEOREM WaitGraphAcyclicCorrect == TaskSpec => []WaitGraphAcyclic
<1>1. ChainInv /\ WaitGraphInv /\ [TaskNext]_taskVars => (ChainInv /\ WaitGraphInv)'
  BY ChainSteps, WaitSteps
<1>2. TaskInit => ChainInv /\ WaitGraphInv
  BY ChainStart, WaitStart
<1> QED BY <1>1, <1>2, WaitGraphInvMeans, PTL DEF TaskSpec

=============================================================================

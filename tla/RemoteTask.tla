----------------------------- MODULE RemoteTask -----------------------------
(***************************************************************************)
(* A task that runs on another machine: the origin saves a route and sends   *)
(* the submission, the executor saves one identity per task (accepted, or a  *)
(* tombstone), and cancellations travel as durable intents with receipts.    *)
(*                                                                          *)
(* A request UUID is the id of the task it first saved; ids are given out in *)
(* creation order, as UUID v7.  A request that its caller gave up on, or that*)
(* was sent before a crash, may still arrive later.  The executor's daemon   *)
(* may stop between any two steps: what it saved is all that it keeps.       *)
(***************************************************************************)
EXTENDS Naturals, FiniteSets

CONSTANTS
    RemoteTasks,    \* task ids, a set of numbers
    MaxGaveUp,      \* bound on calls that end without an identity, and on origin restarts
    MaxRetries,     \* bound on repeated submits
    MaxIntents      \* bound on `task cancel` calls

ASSUME RemoteAssumption ==
    /\ RemoteTasks \subseteq Nat \ {0}
    /\ MaxGaveUp \in Nat /\ MaxRetries \in Nat /\ MaxIntents \in Nat

VARIABLES
    terms,      \* "direct", or "wait": wait_for_machine with the shared coalesce key
    submission, \* OriginRoute.submission
    by,         \* task that superseded a cancelled route, 0 for none
    calls,      \* the exchange each caller of the origin has under way
    wire,       \* requests to the executor that have not arrived
    coalesce,   \* accepted submits that have not yet cancelled what they replace
    recovering, \* unknown routes that the startup pass has still to resolve
    identity,   \* executor_identities
    process,    \* the executor's task row
    starts,     \* history: workers started for a task
    intent,     \* cancellation_requests, by requester and task
    receipt,    \* executor_cancellations, by requester and task
    gaveUp, retries, intents

remoteVars == <<terms, submission, by, calls, wire, coalesce, recovering, identity,
                process, starts, intent, receipt, gaveUp, retries, intents>>

\* The machine that owns the route, and another member of the fleet.
Requesters == {"origin", "peer"}
\* A submit, a retry or the release loop holds the request's lock; the startup pass does not.
Callers == {"locked", "recover"}
Tombstones == {"abandoned", "cancelled", "invalid"}
Identities == {"none", "accepted"} \cup Tombstones
Through == {"ended", "cancelled"}
Receipts == {"none", "pending", "applied", "terminal", "prevented", "rejected"}

NoRequest == [doing |-> "nothing", answer |-> "none"]

RemoteTypeOK ==
    /\ terms \in [RemoteTasks -> {"none", "direct", "wait"}]
    /\ submission \in [RemoteTasks -> {"none", "unknown", "waiting", "launching", "accepted", "held cancelled"}
                                       \cup Tombstones]
    /\ by \in [RemoteTasks -> RemoteTasks \cup {0}]
    /\ calls \in [RemoteTasks \X Callers ->
                    [doing: {"nothing", "submit", "identity", "abandon"},
                     answer: {"none", "error", "absent"} \cup (Identities \ {"none"})]]
    /\ wire \subseteq [kind: {"submit", "identity", "abandon"}, task: RemoteTasks, from: Callers \cup {"gone"}]
    /\ coalesce \subseteq RemoteTasks /\ recovering \subseteq RemoteTasks
    /\ identity \in [RemoteTasks -> Identities]
    /\ process \in [RemoteTasks -> {"none", "queued", "running", "stopping"} \cup Through]
    /\ starts \in [RemoteTasks -> Nat]
    /\ intent \in [Requesters \X RemoteTasks -> {"none", "saved"} \cup Receipts]
    /\ receipt \in [Requesters \X RemoteTasks -> Receipts]
    /\ gaveUp \in 0 .. MaxGaveUp /\ retries \in 0 .. MaxRetries /\ intents \in 0 .. MaxIntents

RemoteInit ==
    /\ terms = [t \in RemoteTasks |-> "none"]
    /\ submission = [t \in RemoteTasks |-> "none"]
    /\ by = [t \in RemoteTasks |-> 0]
    /\ calls = [c \in RemoteTasks \X Callers |-> NoRequest]
    /\ wire = {} /\ coalesce = {} /\ recovering = {}
    /\ identity = [t \in RemoteTasks |-> "none"]
    /\ process = [t \in RemoteTasks |-> "none"]
    /\ starts = [t \in RemoteTasks |-> 0]
    /\ intent = [c \in Requesters \X RemoteTasks |-> "none"]
    /\ receipt = [c \in Requesters \X RemoteTasks |-> "none"]
    /\ gaveUp = 0 /\ retries = 0 /\ intents = 0

ExecutorVars == <<identity, process, starts, receipt>>
CancelVars == <<intent, intents>>

-----------------------------------------------------------------------------
(* The origin's exchanges.                                                  *)

Free(t) == calls[t, "locked"].doing = "nothing"

\* Caller c sends a request of this kind about task t.
Send(t, c, kind) ==
    /\ calls' = [calls EXCEPT ![<<t, c>>] = [doing |-> kind, answer |-> "none"]]
    /\ wire' = wire \cup {[kind |-> kind, task |-> t, from |-> c]}

\* A request UUID that is not saved yet.  A direct submit reaches the executor
\* before it saves anything; one that waits for its machine is held first.
submit(t, how) ==
    /\ terms[t] = "none" /\ \A u \in RemoteTasks : u < t => terms[u] # "none"
    /\ terms' = [terms EXCEPT ![t] = how]
    /\ \/ how = "direct" /\ submission' = [submission EXCEPT ![t] = "unknown"]
          /\ Send(t, "locked", "submit") /\ UNCHANGED coalesce
       \/ how = "wait" /\ submission' = [submission EXCEPT ![t] = "waiting"]
          /\ coalesce' = coalesce \cup {t} /\ UNCHANGED <<calls, wire>>
    /\ UNCHANGED <<by, recovering, ExecutorVars, CancelVars, gaveUp, retries>>

\* A submit repeated with its UUID resolves the saved route and resends nothing.
finish_saved(t) ==
    /\ terms[t] # "none" /\ Free(t) /\ retries < MaxRetries /\ retries' = retries + 1
    /\ submission[t] \notin Tombstones
    /\ IF submission[t] = "unknown" THEN Send(t, "locked", "identity") ELSE UNCHANGED <<calls, wire>>
    /\ coalesce' = IF terms[t] = "wait" THEN coalesce \cup {t} ELSE coalesce
    /\ UNCHANGED <<terms, submission, by, recovering, ExecutorVars, CancelVars, gaveUp>>

coalesced_waiting_routes(u) ==
    {t \in RemoteTasks : t < u /\ terms[t] = "wait" /\ submission[t] = "waiting"}

\* Waiting routes only: one whose launch began may already run.
cancel_origin_route(t, cause) ==
    /\ submission[t] = "waiting"
    /\ submission' = [submission EXCEPT ![t] = "held cancelled"]
    /\ by' = [by EXCEPT ![t] = cause]

\* Each older route is cancelled under its own lock, and the pass ends when
\* none is left; a failed pass is only logged.
try_supersede(u) ==
    /\ u \in coalesce
    /\ \/ \E t \in coalesced_waiting_routes(u) :
             Free(t) /\ cancel_origin_route(t, u) /\ UNCHANGED coalesce
       \/ coalesced_waiting_routes(u) = {} /\ coalesce' = coalesce \ {u} /\ UNCHANGED <<submission, by>>
    /\ UNCHANGED <<terms, calls, wire, recovering, ExecutorVars, CancelVars, gaveUp, retries>>

\* The machine answered and took the offer: a waiting route is marked before
\* the send, a launching one is resent under the same UUID.
release(t) ==
    /\ Free(t) /\ submission[t] \in {"waiting", "launching"}
    /\ submission' = [submission EXCEPT ![t] = "launching"]
    /\ Send(t, "locked", "submit")
    /\ UNCHANGED <<terms, by, coalesce, recovering, ExecutorVars, CancelVars, gaveUp, retries>>

\* The first definitive result stands; an equal one changes nothing and a
\* different one is a conflict.
resolve_origin_route(t, outcome) ==
    submission' = IF submission[t] \in {"unknown", "launching"}
                  THEN [submission EXCEPT ![t] = outcome] ELSE submission

\* Mutated form: an identity that the executor does not know is a refusal.
AbsentIsRefusal(t, c) ==
    /\ calls[t, c].doing = "identity" /\ calls[t, c].answer = "absent"
    /\ resolve_origin_route(t, "abandoned")
    /\ calls' = [calls EXCEPT ![<<t, c>>] = NoRequest]
    /\ UNCHANGED wire

\* The executor never heard of the task, which does not say that it never will:
\* only a tombstone rules out a submission still on its way.
AbandonCall(t, c) ==
    /\ calls[t, c].doing = "identity" /\ calls[t, c].answer = "absent"
    /\ Send(t, c, "abandon")
    /\ UNCHANGED submission

\* A refusal to answer leaves the outcome unknown.
Resolve(t, c) ==
    /\ calls[t, c].answer \in Identities \cup {"error"} /\ calls[t, c].answer # "none"
    /\ IF calls[t, c].answer = "error" THEN UNCHANGED submission
       ELSE resolve_origin_route(t, calls[t, c].answer)
    /\ calls' = [calls EXCEPT ![<<t, c>>] = NoRequest]
    /\ UNCHANGED wire

Answered(t, c) ==
    /\ AbandonCall(t, c) \/ Resolve(t, c)
    /\ UNCHANGED <<terms, by, coalesce, recovering, ExecutorVars, CancelVars, gaveUp, retries>>

Orphaned(m) == [m EXCEPT !.from = "gone"]

\* The connection fails or the caller's time is up: the request may still arrive.
GiveUp(t, c) ==
    /\ calls[t, c].doing # "nothing" /\ gaveUp < MaxGaveUp /\ gaveUp' = gaveUp + 1
    /\ calls' = [calls EXCEPT ![<<t, c>>] = NoRequest]
    /\ wire' = {IF m.task = t /\ m.from = c THEN Orphaned(m) ELSE m : m \in wire}
    /\ UNCHANGED <<terms, submission, by, coalesce, recovering, ExecutorVars, CancelVars, retries>>

\* The origin's daemon stops; the next one resolves unknown routes once, in order.
Restart ==
    /\ gaveUp < MaxGaveUp /\ gaveUp' = gaveUp + 1
    /\ calls' = [c \in RemoteTasks \X Callers |-> NoRequest]
    /\ wire' = {Orphaned(m) : m \in wire}
    /\ coalesce' = {}
    /\ recovering' = {t \in RemoteTasks : submission[t] = "unknown"}
    /\ UNCHANGED <<terms, submission, by, ExecutorVars, CancelVars, retries>>

recover(t) ==
    /\ t \in recovering /\ \A u \in recovering : t <= u
    /\ \A u \in RemoteTasks : calls[u, "recover"].doing = "nothing"
    /\ recovering' = recovering \ {t}
    /\ Send(t, "recover", "identity")
    /\ UNCHANGED <<terms, submission, by, coalesce, ExecutorVars, CancelVars, gaveUp, retries>>

\* The executor's first queued event proves that a released launch was accepted.
accept_held_launch(t) ==
    /\ submission[t] = "launching" /\ identity[t] = "accepted"
    /\ submission' = [submission EXCEPT ![t] = "accepted"]
    /\ UNCHANGED <<terms, by, calls, wire, coalesce, recovering, ExecutorVars, CancelVars, gaveUp, retries>>

-----------------------------------------------------------------------------
(* The executor.                                                            *)

\* The saved identity answers a repeated submission.  Otherwise the host's
\* checks refuse it for good, a missing program refuses it for now, or the row
\* and the identity are saved together.
submit_execution(t, found) ==
    \/ identity[t] # "none" /\ found = identity[t] /\ UNCHANGED <<identity, process>>
    \/ /\ identity[t] = "none" /\ found \in {"accepted", "invalid", "error"}
       /\ identity' = IF found = "error" THEN identity ELSE [identity EXCEPT ![t] = found]
       /\ process' = IF found = "accepted" THEN [process EXCEPT ![t] = "queued"] ELSE process

executor_identity(t, found) ==
    /\ found = IF identity[t] = "none" THEN "absent" ELSE identity[t]
    /\ UNCHANGED <<identity, process>>

\* The identity that is there first wins.
reject_execution(t, reason, found) ==
    /\ found = IF identity[t] = "none" THEN reason ELSE identity[t]
    /\ identity' = [identity EXCEPT ![t] = found]

\* A request arrives; its answer reaches a caller that still waits.
Arrive(m) ==
    /\ \E found \in {"accepted", "error", "absent"} \cup Tombstones :
          /\ CASE m.kind = "submit"   -> submit_execution(m.task, found)
               [] m.kind = "identity" -> executor_identity(m.task, found)
               [] m.kind = "abandon"  -> reject_execution(m.task, "abandoned", found) /\ UNCHANGED process
          /\ calls' = IF m.from = "gone" THEN calls
                      ELSE [calls EXCEPT ![<<m.task, m.from>>].answer = found]
          /\ found = "error" => gaveUp < MaxGaveUp
          /\ gaveUp' = IF found = "error" THEN gaveUp + 1 ELSE gaveUp
    /\ wire' = wire \ {m}
    /\ UNCHANGED <<terms, submission, by, coalesce, recovering, starts, receipt, CancelVars, retries>>

\* The supervisor starts the worker of a queued row, at once or after a restart.
StartWorker(t) ==
    /\ process[t] = "queued"
    /\ process' = [process EXCEPT ![t] = "running"]
    /\ starts' = [starts EXCEPT ![t] = @ + 1]
    /\ UNCHANGED <<terms, submission, by, calls, wire, coalesce, recovering, identity, receipt, CancelVars, gaveUp, retries>>

EndWorker(t) ==
    /\ process[t] \in {"running", "stopping"}
    /\ process' = [process EXCEPT ![t] = IF @ = "running" THEN "ended" ELSE "cancelled"]
    /\ UNCHANGED <<terms, submission, by, calls, wire, coalesce, recovering, identity, starts, receipt, CancelVars, gaveUp, retries>>

-----------------------------------------------------------------------------
(* Cancellation.                                                            *)

SavesIntent(r, t) ==
    intent' = [intent EXCEPT ![<<r, t>>] = "saved"] /\ UNCHANGED <<submission, by>>

\* A rejected or cancelled route started nothing, and a waiting one is its origin's to cancel.
from_route(t) == submission[t] \in {"unknown", "launching", "accepted"}

\* `task cancel`, on the origin or on another machine.  Only the origin
\* cancels a waiting route; it waits for the launch in progress and looks again.
cancel(r, t) ==
    /\ intents < MaxIntents /\ intents' = intents + 1
    /\ intent[r, t] = "none"
    /\ \/ r = "origin" /\ Free(t) /\ cancel_origin_route(t, 0) /\ UNCHANGED intent
       \/ from_route(t) /\ SavesIntent(r, t)
    /\ UNCHANGED <<terms, calls, wire, coalesce, recovering, ExecutorVars, gaveUp, retries>>

\* Mutated form: a cancel that comes before its submission leaves nothing behind.
ReceiveLeavesNoMark(r, t) ==
    /\ receipt[r, t] = "none"
    /\ receipt' = [receipt EXCEPT ![<<r, t>>] =
          CASE identity[t] \in {"none", "cancelled"}                -> "prevented"
            [] identity[t] = "accepted" /\ process[t] \in Through    -> "terminal"
            [] identity[t] = "accepted" /\ process[t] \notin Through -> "pending"
            [] OTHER                                                -> "rejected"]
    /\ UNCHANGED identity

\* The receipt and, for a task not seen yet, the tombstone are saved together.
receive_cancellation(r, t) ==
    /\ receipt[r, t] = "none"
    /\ receipt' = [receipt EXCEPT ![<<r, t>>] =
          CASE identity[t] \in {"none", "cancelled"}                -> "prevented"
            [] identity[t] = "accepted" /\ process[t] \in Through    -> "terminal"
            [] identity[t] = "accepted" /\ process[t] \notin Through -> "pending"
            [] OTHER                                                -> "rejected"]
    /\ identity' = [identity EXCEPT ![t] = IF @ = "none" THEN "cancelled" ELSE @]

\* The delivery loop sends a saved intent until it has a receipt.
deliver_cancel(r, t) ==
    /\ intent[r, t] = "saved" /\ receive_cancellation(r, t)
    /\ UNCHANGED <<terms, submission, by, calls, wire, coalesce, recovering, process, starts, intent, intents, gaveUp, retries>>

pending_executor_cancellations(r, t) == receipt[r, t] = "pending"

\* The handler that received the cancel applies it, or the loop does later.
apply_executor(r, t) ==
    /\ pending_executor_cancellations(r, t)
    /\ receipt' = [receipt EXCEPT ![<<r, t>>] = IF process[t] \in Through THEN "terminal" ELSE "applied"]
    /\ process' = [process EXCEPT ![t] =
          CASE @ = "queued" -> "cancelled" [] @ = "running" -> "stopping" [] OTHER -> @]
    /\ UNCHANGED <<terms, submission, by, calls, wire, coalesce, recovering, identity, starts, CancelVars, gaveUp, retries>>

\* A repeated delivery finds the receipt; its state now is what the requester keeps.
acknowledge_cancellation(r, t) ==
    /\ intent[r, t] = "saved" /\ receipt[r, t] # "none"
    /\ intent' = [intent EXCEPT ![<<r, t>>] = receipt[r, t]]
    /\ UNCHANGED <<terms, submission, by, calls, wire, coalesce, recovering, ExecutorVars, intents, gaveUp, retries>>

-----------------------------------------------------------------------------
RemoteNext ==
    \/ \E t \in RemoteTasks : \E how \in {"direct", "wait"} : submit(t, how)
    \/ \E t \in RemoteTasks : finish_saved(t) \/ try_supersede(t) \/ release(t) \/ recover(t)
    \/ \E t \in RemoteTasks : accept_held_launch(t) \/ StartWorker(t) \/ EndWorker(t)
    \/ \E t \in RemoteTasks, c \in Callers : Answered(t, c) \/ GiveUp(t, c)
    \/ Restart
    \/ \E m \in wire : Arrive(m)
    \/ \E r \in Requesters, t \in RemoteTasks :
          cancel(r, t) \/ deliver_cancel(r, t) \/ apply_executor(r, t) \/ acknowledge_cancellation(r, t)

RemoteSpec == RemoteInit /\ [][RemoteNext]_remoteVars

-----------------------------------------------------------------------------
(* Properties.                                                              *)

\* What the origin says and what the executor does agree: a task reported
\* rejected, superseded or cancelled before launch is never started, not even
\* by a submission that arrives after the report, an accepted one is there, and
\* a request that is resent starts no second worker.
RouteAgrees ==
    \A t \in RemoteTasks :
        /\ submission[t] \in Tombstones \cup {"held cancelled"} => process[t] = "none"
        /\ submission[t] = "accepted" => identity[t] = "accepted"
        /\ starts[t] <= 1

\* A superseded task was replaced by a newer one, so of the submits that share
\* a coalesce key the newest is never superseded, whatever is retried.
NewestSurvives == \A t \in RemoteTasks : by[t] # 0 => by[t] > t

\* A requester that was told its cancel took effect is right: the task never
\* starts, is stopping or has ended.
CancelTakesEffect ==
    \A r \in Requesters, t \in RemoteTasks :
        /\ intent[r, t] \in {"prevented", "rejected"} => process[t] = "none"
        /\ intent[r, t] \in {"applied", "terminal"} => process[t] \in Through \cup {"stopping"}

\* A route, its executor and the newer submits of its key agree.
RoutesAgree == RemoteTypeOK /\ RouteAgrees /\ NewestSurvives

=============================================================================

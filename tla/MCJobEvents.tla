----------------------------- MODULE MCJobEvents ----------------------------
(***************************************************************************)
(* A job on its authority (MCQueueStore) and its events on their way to    *)
(* the thread of its owner (JobDelivery), in one exploration. They share   *)
(* no state, so a behaviour is of one of them, which `moving' names, and   *)
(* the others stay at their start: the states of the parts add up.         *)
(***************************************************************************)

EXTENDS MCQueueStore, JobDelivery

VARIABLE moving   \* the component this behaviour is about

JobEventsInit == moving \in {"store", "events"} /\ Init /\ JobInit

JobEventsNext ==
    \/ moving = "store" /\ Next /\ UNCHANGED <<jobVars, moving>>
    \/ moving = "events" /\ JobNext /\ UNCHANGED <<storeVars, moving>>

\* JobFairness, of the behaviours in which the events move
JobEventsFairness ==
    /\ WF_jobVars(moving = "events" /\ pending_job_outbox)
    /\ WF_jobVars(moving = "events" /\ deliver_authority)
    /\ WF_jobVars(moving = "events" /\ acknowledge)
    /\ WF_jobVars(moving = "events" /\ delivery_fails(FALSE))
    /\ WF_jobVars(moving = "events" /\ pending_job_inbox)
    /\ WF_jobVars(moving = "events" /\ notice_current)
    /\ WF_jobVars(moving = "events" /\ before_send)
    /\ WF_jobVars(moving = "events" /\ deliver_job_event)
    /\ WF_jobVars(moving = "events" /\ settle_callback)

JobEventsSpec ==
    /\ JobEventsInit /\ [][JobEventsNext]_<<storeVars, jobVars, moving>>
    /\ JobEventsFairness

=============================================================================

------------------------------ MODULE MCEvents ------------------------------
(***************************************************************************)
(* How the events of a task reach its thread, in one exploration: between  *)
(* two machines (EventDelivery), and to a client that waits in place of    *)
(* the thread (WaitStream). They share no state, so a behaviour is of one  *)
(* of them, which `moving' names, and the other stays at its start: the    *)
(* states of the parts add up.                                             *)
(***************************************************************************)

EXTENDS EventDelivery, WaitStream

VARIABLE moving   \* the component this behaviour is about

EventsInit ==
    /\ moving \in {"delivery", "wait"}
    /\ Init /\ WaitInit
    /\ moving # "wait" => follows = "job"

EventsNext ==
    \/ moving = "delivery" /\ Next /\ UNCHANGED <<waitVars, moving>>
    \/ moving = "wait" /\ WaitNext /\ UNCHANGED <<vars, moving>>

\* FairSpec and WaitFairness, of the component that moves
EventsFairness ==
    /\ WF_vars(moving = "delivery" /\ Sender)
    /\ WF_vars(moving = "delivery" /\ Receiver)
    /\ WF_vars(moving = "delivery" /\ Worker)
    /\ WF_waitVars(moving = "wait" /\ \E key \in AllKeys : Deliverer(key))
    /\ \A w \in 1 .. MaxStreams : WF_waitVars(moving = "wait" /\ Stream(w))
    /\ WF_waitVars(moving = "wait" /\ (serve \/ follow(TRUE)))

EventsSpec ==
    /\ EventsInit /\ [][EventsNext]_<<vars, waitVars, moving>>
    /\ EventsFairness

=============================================================================

----------------------------- MODULE MCLaunches -----------------------------
(***************************************************************************)
(* Launches that race their own end, in one exploration: runs of the queue *)
(* with the daemon and its workers (MCQueueSystem), and tasks submitted to *)
(* and cancelled on another machine (RemoteTask). They share no state, so  *)
(* a behaviour is of one of them, which `moving' names, and the others     *)
(* stay at their start: the states of the parts add up.                    *)
(***************************************************************************)

EXTENDS MCQueueSystem, RemoteTask

VARIABLE moving   \* the component this behaviour is about

LaunchesInit == moving \in {"queue", "remote"} /\ SystemInit /\ RemoteInit

LaunchesNext ==
    \/ moving = "queue" /\ SystemNext /\ UNCHANGED <<remoteVars, moving>>
    \/ moving = "remote" /\ RemoteNext /\ UNCHANGED <<vars, moving>>

LaunchesSpec == LaunchesInit /\ [][LaunchesNext]_<<vars, remoteVars, moving>>

=============================================================================

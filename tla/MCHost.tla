------------------------------- MODULE MCHost -------------------------------
(***************************************************************************)
(* What homebased does on its host, in one exploration: the cleanup of a    *)
(* run's leftovers (ProcessSweep), the commands that start and stop the     *)
(* daemon itself (DaemonLife), and whether the host takes a task that       *)
(* waited for it (Presence). They share no state, so a behaviour is of one  *)
(* of them, which `moving' names, and the others stay at their start: the   *)
(* states of the parts add up.                                              *)
(***************************************************************************)

EXTENDS ProcessSweep, DaemonLife, Presence

VARIABLE moving   \* the component this behaviour is about

HostInit ==
    /\ moving \in {"sweep", "daemon", "presence"}
    /\ SweepInit /\ DaemonInit /\ PresenceInit
    /\ moving # "sweep" => protected = {} /\ sweeper = NewSweeper
    /\ sweeper.mode # "lost" => \A p \in protected : table[p].marked
    /\ moving # "daemon" => unit = CHOOSE u \in HostUnitState : TRUE

HostNext ==
    \/ moving = "sweep" /\ SweepNext /\ UNCHANGED <<daemonVars, presenceVars, moving>>
    \/ moving = "daemon" /\ DaemonNext /\ UNCHANGED <<sweepVars, presenceVars, moving>>
    \/ moving = "presence" /\ PresenceNext /\ UNCHANGED <<sweepVars, daemonVars, moving>>

HostSpec == HostInit /\ [][HostNext]_<<sweepVars, daemonVars, presenceVars, moving>>

=============================================================================

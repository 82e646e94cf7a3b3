------------------------------- MODULE MCEnds -------------------------------
(***************************************************************************)
(* What must come to an end, in one exploration: runs of the queue and      *)
(* their cleanup (MCQueueSystem), a task in a container (ContainerRun), and *)
(* a change of the T3 API that has to be alerted (T3Watch).                 *)
(* They share no state, so a behaviour is of one of them, which `moving'    *)
(* names, and the others stay at their start: the states of the parts add   *)
(* up.                                                                      *)
(***************************************************************************)

EXTENDS MCQueueSystem, ContainerRun, T3Watch

VARIABLE moving   \* the component this behaviour is about

EndsInit ==
    /\ moving \in {"queue", "container", "t3"}
    /\ SystemInit /\ ContainerInit /\ WatchInit
    /\ moving # "container" => ~nameTaken

EndsNext ==
    \/ moving = "queue" /\ SystemNext /\ UNCHANGED <<containerVars, watchVars, moving>>
    \/ moving = "container" /\ ContainerNext /\ UNCHANGED <<vars, watchVars, moving>>
    \/ moving = "t3" /\ WatchNext /\ UNCHANGED <<vars, containerVars, moving>>

\* Fairness and ContainerFairness, of the component that moves; the watch takes
\* its turns, and a push that is tried again and again gets through
EndsFairness ==
    /\ WF_vars(moving = "queue" /\ DaemonStart) /\ WF_vars(moving = "queue" /\ FinishPass)
    /\ \A r \in Resources :
          /\ SF_vars(moving = "queue" /\ SettleRun(r))
          /\ WF_vars(moving = "queue" /\ \E result \in {"ok", "stuck"} : Sweep(r, result))
    /\ \A t \in Tasks :
          /\ WF_vars(moving = "queue" /\ LockReleased(t))
          /\ WF_vars(moving = "queue" /\ WorkerStep(t))
    /\ WF_containerVars(moving = "container" /\ EngineStep)
    /\ WF_containerVars(moving = "container" /\ ContainerStep)
    /\ WF_containerVars(moving = "container" /\ adopt_container)
    /\ WF_watchVars(moving = "t3" /\ Turn)
    /\ SF_watchVars(moving = "t3" /\ GoodTurn)

EndsSpec ==
    /\ EndsInit /\ [][EndsNext]_<<vars, containerVars, watchVars, moving>>
    /\ EndsFairness

=============================================================================

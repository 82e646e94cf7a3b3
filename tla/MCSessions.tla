----------------------------- MODULE MCSessions -----------------------------
(***************************************************************************)
(* What the daemon asks of agents' sessions, in one exploration: threads   *)
(* of T3 (T3Launch), lines for a session (CallbackRoute) and direct        *)
(* messages (DirectMessage). They share no state, so a behaviour is of one *)
(* of them, which `moving' names, and the others stay at their start: the  *)
(* states of the parts add up.                                             *)
(***************************************************************************)

EXTENDS T3Launch, CallbackRoute, DirectMessage

VARIABLE moving   \* the component this behaviour is about

sessionVars == <<t3Vars, routeVars, messageVars, moving>>

SessionsInit ==
    /\ moving \in {"t3", "line", "message"}
    /\ T3Init /\ RouteInit /\ MessageInit
    /\ moving # "t3" => listed = [h \in Hosts |-> {}]
    /\ moving # "line" =>
          /\ line = CHOOSE k \in LineKinds : TRUE
          /\ world = [claude |-> CHOOSE c \in ClaudeSessions : TRUE, mapped |-> FALSE]
          /\ idle = CHOOSE i \in IdleClasses : TRUE
    /\ moving # "message" =>
          /\ named = CHOOSE m \in Peers : TRUE
          /\ newest = [m \in Peers |-> CHOOSE s \in Sessions : TRUE]

SessionsNext ==
    \/ moving = "t3" /\ T3Next /\ UNCHANGED <<routeVars, messageVars, moving>>
    \/ moving = "line" /\ RouteNext /\ UNCHANGED <<t3Vars, messageVars, moving>>
    \/ moving = "message" /\ MessageNext /\ UNCHANGED <<t3Vars, routeVars, moving>>

SessionsSpec == SessionsInit /\ [][SessionsNext]_sessionVars

=============================================================================

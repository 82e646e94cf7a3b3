----------------------------- MODULE MCMachines -----------------------------
(***************************************************************************)
(* What a machine knows of the others, in one exploration: their addresses *)
(* and identities (FleetDirectory) and the records of one task             *)
(* (FleetInspection). They share no state, so a behaviour is of one of     *)
(* them, which `moving' names, and the others stay at their start: the     *)
(* states of the parts add up. A behaviour in which the directory rests    *)
(* for ever is not fair, so PeerIsFound is about the others; the           *)
(* invariants are about all.                                               *)
(***************************************************************************)

EXTENDS FleetDirectory, FleetInspection

VARIABLE moving   \* the component this behaviour is about

MachinesInit ==
    /\ moving \in {"directory", "inspection"}
    /\ FleetInit /\ InspectInit
    /\ moving # "inspection" => reader = "origin" /\ listed = {} /\ ~holdable
    /\ moving # "directory" => world = CHOOSE f \in [Addresses -> Peers \X {1}] : TRUE

\* Of the shifts, reports, calls and starts, which have bounds of their own, a
\* behaviour has three
MaxEvents == 3

MachinesNext ==
    \/ /\ moving = "directory" /\ FleetNext
       /\ counts'.shifts + counts'.reports + counts'.calls + counts'.starts <= MaxEvents
       /\ UNCHANGED <<inspectVars, moving>>
    \/ moving = "inspection" /\ InspectNext /\ UNCHANGED <<fleetVars, moving>>

MachinesSpec ==
    /\ MachinesInit /\ [][MachinesNext]_<<fleetVars, inspectVars, moving>>
    /\ FleetFairness

=============================================================================

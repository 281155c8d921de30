---------------------------- MODULE StateMachine ----------------------------
(***************************************************************************)
(* asdevlab::StateMachine: the one record of what the telescope is doing,  *)
(* and of which service may change it.  Every service holds a reference to *)
(* the same object and asks it for a transition before it drives the       *)
(* mount.                                                                  *)
(*                                                                         *)
(* A call of requestTransition is one step here.  This is what the class   *)
(* promises its callers; it takes no lock, and StateMachineSteps has the   *)
(* loads and stores a call is really made of.                              *)
(***************************************************************************)

SystemState == {"IDLE", "SLEWING", "GUIDING", "FOCUSING",
                "TRACKING", "ERROR", "PARKING", "PARKED"}

Owner == {"Unknown", "GotoService", "GuideService", "FocusService",
          "SchedulerService", "MotionService"}

VARIABLES
    state,      \* state_: what the telescope is doing
    owner       \* owner_: the service that holds it, or "Unknown"

machine == <<state, owner>>

(* Variant: a slew may start during a slew.                                *)
SourcesWithReentry ==
    [IDLE     |-> SystemState,
     TRACKING |-> {"SLEWING", "GUIDING", "FOCUSING", "IDLE"},
     SLEWING  |-> {"TRACKING", "IDLE", "SLEWING"},
     PARKING  |-> {"TRACKING", "IDLE", "SLEWING"},
     PARKED   |-> {"PARKING"},
     GUIDING  |-> {"TRACKING"},
     FOCUSING |-> {"TRACKING"},
     ERROR    |-> {}]

(* The states a transition to a given state may start from.                *)
Sources ==
    [IDLE     |-> SystemState,
     TRACKING |-> {"SLEWING", "GUIDING", "FOCUSING", "IDLE"},
     SLEWING  |-> {"TRACKING", "IDLE"},
     PARKING  |-> {"TRACKING", "IDLE", "SLEWING"},
     PARKED   |-> {"PARKING"},
     GUIDING  |-> {"TRACKING"},
     FOCUSING |-> {"TRACKING"},
     ERROR    |-> {}]

(* The owner a granted transition records, whoever asked for it.           *)
OwnerOf ==
    [IDLE     |-> "Unknown",
     TRACKING |-> "Unknown",
     SLEWING  |-> "GotoService",
     PARKING  |-> "MotionService",
     PARKED   |-> "MotionService",
     GUIDING  |-> "GuideService",
     FOCUSING |-> "FocusService",
     ERROR    |-> "Unknown"]

(* requestTransition returns true: the owner test, then the two states     *)
(* nothing leaves, then the switch.                                        *)
Permitted(next, who) ==
    /\ owner \in {"Unknown", who}
    /\ state \notin {"ERROR", "PARKING"}
    /\ state \in Sources[next]

(* The assignments of a granted request.                                   *)
Grant(next) ==
    /\ state' = next
    /\ owner' = OwnerOf[next]

RequestTransition(next, who) ==
    \/ Permitted(next, who) /\ Grant(next)
    \/ ~Permitted(next, who) /\ UNCHANGED machine

MachineInit == state = "IDLE" /\ owner = "Unknown"

(* Any service may ask for anything at any time.                           *)
MachineNext == \E next \in SystemState, who \in Owner : RequestTransition(next, who)

MachineSpec == MachineInit /\ [][MachineNext]_machine

-----------------------------------------------------------------------------
MachineTypeOK == state \in SystemState /\ owner \in Owner
=============================================================================

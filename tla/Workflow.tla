------------------------------- MODULE Workflow -------------------------------
(***************************************************************************)
(* ObservationService: a target workflow looks a target up, records it as  *)
(* the current target, sends the telescope to it and makes sure that the   *)
(* mount tracks; another call aborts it.  A workflow is a sequence of the  *)
(* calls that module Control describes, made by one client, and competes   *)
(* with the calls of the others.                                           *)
(***************************************************************************)
EXTENDS Control

CONSTANTS
    Targets,        \* the objects of the catalog
    NoTarget        \* none of them

ASSUME TargetsAssumption == NoTarget \notin Targets

VARIABLES
    stage,          \* where each client is in its workflow
    aim,            \* the target of each client's latest call
    current,        \* current_target_id_
    heard,          \* the mount's last answer to each workflow's goto (history)
    alone,          \* the client whose workflow no other call overlaps (history)
    told            \* the workflows whose slew an abort has met (history)

work == <<stage, aim, current, heard, alone, told>>
workVars == <<vars, work>>

Running == {"resolved", "goto", "tracking"}
Ended == {"none", "completed", "error", "aborted"}

(* The answers to the goto and to the tracking command after it; declined  *)
(* is an answer to the latter by a mount that does not track.              *)
Answers == {"none", "goto", "tracks", "declined"}

FreeToCall(c) == AtRest(c) /\ stage[c] \in Ended

Enters(c, to) == stage' = [stage EXCEPT ![c] = to]

(* A workflow or an abort returns; its past is of no use any more.         *)
Ends(c, to) ==
    /\ Enters(c, to)
    /\ pc' = [pc EXCEPT ![c] = "idle"]
    /\ aim' = [aim EXCEPT ![c] = NoTarget]
    /\ heard' = [heard EXCEPT ![c] = "none"]
    /\ told' = told \ {c}
    /\ alone' = alone \ {c}
    /\ UNCHANGED <<request, focusing, mountTracking>>

WorkInit ==
    /\ Init
    /\ stage = [c \in Clients |-> "none"]
    /\ aim = [c \in Clients |-> NoTarget]
    /\ current = NoTarget
    /\ heard = [c \in Clients |-> "none"]
    /\ alone = {} /\ told = {}

-----------------------------------------------------------------------------
(* The calls of Control                                                    *)

(* A call that is not part of a workflow.                                  *)
OtherCall(c) ==
    /\ FreeToCall(c)
    /\ Invoke(c)
    /\ Enters(c, "none")
    /\ alone' = {}
    /\ UNCHANGED <<aim, current, heard, told>>

(* What the client has heard of its goto once its step is done.            *)
Hears(c) ==
    CASE pc[c] = "gotoSend" /\ pc'[c] = "gotoTrack"  -> "goto"
      [] pc[c] = "gotoTrack" /\ pc'[c] = "gotoDone"
            -> IF mountTracking' THEN "tracks" ELSE "declined"
      [] OTHER -> heard[c]

(* The workflows whose goto the mount has begun when it obeys an abort.    *)
MetBy(c) ==
    IF stage[c] = "abort" /\ pc[c] = "abortSend" /\ pc'[c] = "abortDone"
    THEN {d \in Clients : stage[d] = "goto" /\ pc[d] \in {"gotoTrack", "gotoDone"}}
    ELSE {}

ServiceStep(c) ==
    /\ Step(c)
    /\ heard' = [heard EXCEPT ![c] = Hears(c)]
    /\ told' = told \cup MetBy(c)
    /\ UNCHANGED <<stage, aim, current, alone>>

-----------------------------------------------------------------------------
(* runTargetWorkflow                                                       *)

(* Nothing matches the query, or the object has no coordinates.            *)
NotFound(c) ==
    /\ FreeToCall(c)
    /\ Ends(c, "error")
    /\ UNCHANGED current

(* The target is on record from here on, whatever becomes of the workflow. *)
Resolve(c) ==
    /\ FreeToCall(c)
    /\ Enters(c, "resolved")
    /\ \E t \in Targets : aim' = [aim EXCEPT ![c] = t] /\ current' = t
    /\ alone' = {d \in {c} : \A e \in Clients \ {c} : FreeToCall(e)}
    /\ UNCHANGED <<vars, heard, told>>

(* The target is below the horizon, or the goto begins.                    *)
Preview(c) ==
    /\ stage[c] = "resolved"
    /\ \/ Ends(c, "error")
       \/ /\ Enters(c, "goto")
          /\ Goes(c, pc[c], Entry("goto"))
          /\ UNCHANGED <<request, focusing, mountTracking, aim, heard, alone, told>>
    /\ UNCHANGED current

GoesOnToTrack(c) ==
    /\ Enters(c, "tracking")
    /\ Goes(c, pc[c], Entry("start"))
    /\ UNCHANGED <<request, focusing, mountTracking, aim, current, heard, alone, told>>

(* Variant: the result of the goto is not looked at.                       *)
DispatchUnchecked(c) ==
    /\ stage[c] = "goto" /\ AtRest(c)
    /\ GoesOnToTrack(c)

(* The goto has returned.                                                  *)
Dispatch(c) ==
    /\ stage[c] = "goto"
    /\ \/ pc[c] = "failed" /\ Ends(c, "error") /\ UNCHANGED current
       \/ pc[c] = "ok" /\ GoesOnToTrack(c)

(* start_tracking has returned.                                            *)
Complete(c) ==
    /\ stage[c] = "tracking"
    /\ \/ pc[c] = "failed" /\ Ends(c, "error")
       \/ pc[c] = "ok" /\ Ends(c, "completed")
    /\ UNCHANGED current

-----------------------------------------------------------------------------
(* abortTargetWorkflow                                                     *)

BeginAbort(c) ==
    /\ FreeToCall(c)
    /\ Enters(c, "abort")
    /\ Goes(c, pc[c], Entry("abort"))
    /\ alone' = {}
    /\ UNCHANGED <<request, focusing, mountTracking, aim, current, heard, told>>

(* The answer is "Aborted" whether the mount was reached or not.           *)
EndAbort(c) ==
    /\ stage[c] = "abort" /\ AtRest(c)
    /\ Ends(c, "aborted")
    /\ current' = NoTarget

Continue(c) == ServiceStep(c) \/ Preview(c) \/ Dispatch(c) \/ Complete(c) \/ EndAbort(c)

WorkNext ==
    \/ \E c \in Clients : OtherCall(c) \/ NotFound(c) \/ Resolve(c) \/ BeginAbort(c) \/ Continue(c)
    \/ SetSystemState /\ UNCHANGED work

(* A thread inside a workflow keeps running, as in Control.                *)
WorkSpec ==
    WorkInit /\ [][WorkNext]_workVars /\ \A c \in Clients : WF_workVars(Continue(c))

-----------------------------------------------------------------------------
WorkTypeOK ==
    /\ TypeOK
    /\ stage \in [Clients -> Running \cup Ended \cup {"abort"}]
    /\ aim \in [Clients -> Targets \cup {NoTarget}]
    /\ current \in Targets \cup {NoTarget}
    /\ heard \in [Clients -> Answers]
    /\ alone \subseteq Clients /\ told \subseteq Clients

(* A workflow that no other call overlaps and that reports "target         *)
(* workflow completed" has had an answer to its goto and to the tracking   *)
(* command after it, the mount tracks unless it declined that command, and *)
(* both records say so, whatever calls, overlapping ones included, came    *)
(* before it.  That the mount is on the target is not claimed: an answer   *)
(* does not show it (see GotoGoes).  (observation_service.cpp:187-189)     *)
CompletedInOrder ==
    [][\A c \in alone :
         stage[c] = "tracking" /\ stage'[c] = "completed"
            => /\ heard[c] \in {"tracks", "declined"}
               /\ heard[c] = "tracks" => mountTracking
               /\ state = "TRACKING" /\ current = aim[c]]_workVars

(* A workflow whose goto the mount has begun when an abort reaches it does *)
(* not go on to complete.  (observation_service.cpp:198)                   *)
AbortStops ==
    [][\A c \in told :
         ~(stage[c] = "tracking" /\ stage'[c] = "completed")]_workVars
=============================================================================

--------------------------- MODULE WorkflowProofs ---------------------------
(***************************************************************************)
(* Proofs about Workflow, for any clients at once, targets and operations: *)
(* types; that the steps a workflow adds leave the requests of Control     *)
(* alone, so that a queued capture and the lease hold through workflows    *)
(* and aborts too; and what a workflow that nothing overlaps has heard and *)
(* left on record when it completes, whatever races came before it.        *)
(***************************************************************************)
EXTENDS Workflow, ControlProofs

WorkTypes ==
    /\ stage \in [Clients -> Running \cup Ended \cup {"abort"}]
    /\ aim \in [Clients -> Targets \cup {NoTarget}]
    /\ current \in Targets \cup {NoTarget}
    /\ heard \in [Clients -> Answers]
    /\ alone \subseteq Clients /\ told \subseteq Clients

(* A workflow that has resolved its target has made no call yet.           *)
Resolved == \A c \in Clients : stage[c] = "resolved" => AtRest(c)

WorkInv == TypeInv /\ WorkTypes /\ Resolved

-----------------------------------------------------------------------------
(* What the steps of workflows are to Control                              *)

(* Between two calls a client starts one, or returns.                      *)
Between(c) ==
    /\ AtRest(c)
    /\ \E to \in {"idle", "failed", "gotoAsk", "startCheck", "abortSend"} :
          pc' = [pc EXCEPT ![c] = to]
    /\ UNCHANGED <<request, focusing, mountTracking>>

LEMMA StepIsInside ==
    ASSUME NEW c \in Clients, Step(c)
    PROVE  ~AtRest(c) /\ \A d \in Clients \ {c} : pc'[d] = pc[d]
<1>1. \E from : from \notin Resting /\ pc[c] = from
                /\ (pc' = pc \/ \E to : pc' = [pc EXCEPT ![c] = to])
    <2> USE DEF Tell, Ask, Send, Goes, Resting
    <2>1. CASE Goto(c) \/ StartTracking(c)
        BY <2>1 DEF Goto, StartTracking, Look
    <2>2. CASE StopTracking(c) \/ Park(c) \/ Home(c) \/ Abort(c) \/ Sync(c) \/ Move(c)
        BY <2>2 DEF StopTracking, Park, Home, Abort, Sync, Move
    <2>3. CASE GuideStep(c) \/ Autofocus(c) \/ QueueCapture(c) \/ GotoAndSolve(c)
        BY <2>3 DEF GuideStep, Autofocus, QueueCapture, Look, GotoAndSolve
    <2> QED BY <2>1, <2>2, <2>3 DEF Step
<1>2. \A to : \A d \in Clients \ {c} : [pc EXCEPT ![c] = to][d] = pc[d]
    OBVIOUS
<1> QED BY <1>1, <1>2 DEF AtRest

(* Every step of a workflow is one of Control, or taken between two calls. *)
LEMMA WorkShape ==
    ASSUME WorkInv, WorkNext
    PROVE  \/ \E c \in Clients : Step(c) \/ Invoke(c) \/ Between(c)
           \/ SetSystemState
           \/ UNCHANGED vars
<1> USE DEF AtRest, Resting
<1>1. ASSUME NEW c \in Clients, NotFound(c) \/ Complete(c) \/ EndAbort(c) PROVE Between(c)
    BY <1>1 DEF NotFound, Complete, EndAbort, Ends, Between, FreeToCall
<1>2. ASSUME NEW c \in Clients, Preview(c) PROVE Between(c)
    BY <1>2 DEF Preview, Ends, Goes, Entry, Between, WorkInv, Resolved
<1>3. ASSUME NEW c \in Clients, Dispatch(c) PROVE Between(c)
    BY <1>3 DEF Dispatch, GoesOnToTrack, Ends, Goes, Entry, Between
<1>4. ASSUME NEW c \in Clients, BeginAbort(c) PROVE Between(c)
    BY <1>4 DEF BeginAbort, FreeToCall, Goes, Entry, Between
<1> QED BY <1>1, <1>2, <1>3, <1>4
        DEF WorkNext, OtherCall, Resolve, Continue, ServiceStep

LEMMA BetweenKeepsTypes ==
    ASSUME TypeInv, NEW c \in Clients, Between(c)
    PROVE  TypeInv'
<1>1. PICK to \in {"idle", "failed", "gotoAsk", "startCheck", "abortSend"} :
          pc' = [pc EXCEPT ![c] = to]
    BY DEF Between
<1>2. to \in Labels /\ pc[c] \notin AskLabels /\ UNCHANGED request
      /\ focusing' \in BOOLEAN /\ mountTracking' \in BOOLEAN
    BY AtRestNoRequest DEF Between, Labels, Resting, TypeInv, TypeOK
<1> QED BY <1>1, <1>2, MoveKeepsTypes

-----------------------------------------------------------------------------
(* Types                                                                   *)

LEMMA WorkNextKeepsTypes == WorkInv /\ [WorkNext]_workVars => WorkInv'
<1> SUFFICES ASSUME WorkInv, [WorkNext]_workVars PROVE WorkInv'
    OBVIOUS
<1>1. TypeInv'
    <2>1. CASE WorkNext
        BY <2>1, WorkShape, NextKeepsTypes, BetweenKeepsTypes DEF Next, WorkInv
    <2>2. CASE UNCHANGED workVars
        BY <2>2, NextKeepsTypes DEF workVars, WorkInv
    <2> QED BY <2>1, <2>2
<1>2. WorkTypes'
    <2> USE DEF WorkInv, WorkTypes
    <2>1. ASSUME NEW c \in Clients, OtherCall(c) \/ NotFound(c) \/ Resolve(c) \/ BeginAbort(c)
          PROVE  WorkTypes'
        BY <2>1 DEF OtherCall, NotFound, Resolve, BeginAbort, Ends, Enters, Running, Ended, Answers
    <2>2. ASSUME NEW c \in Clients, ServiceStep(c) PROVE WorkTypes'
        BY <2>2 DEF ServiceStep, Hears, MetBy, Answers
    <2>3. ASSUME NEW c \in Clients, Preview(c) \/ Dispatch(c) \/ Complete(c) \/ EndAbort(c)
          PROVE  WorkTypes'
        BY <2>3 DEF Preview, Dispatch, GoesOnToTrack, Complete, EndAbort, Ends, Enters,
                    Running, Ended, Answers
    <2> QED BY <2>1, <2>2, <2>3 DEF WorkNext, Continue, work, workVars
<1>3. Resolved'
    <2> USE DEF WorkInv, WorkTypes, Resolved, TypeInv, TypeOK
    <2>1. ASSUME NEW c \in Clients, NotFound(c) \/ Complete(c) \/ EndAbort(c) PROVE Resolved'
        BY <2>1 DEF NotFound, Complete, EndAbort, Ends, Enters, AtRest, Resting
    <2>2. ASSUME NEW c \in Clients, OtherCall(c) \/ BeginAbort(c) PROVE Resolved'
        BY <2>2 DEF OtherCall, BeginAbort, Invoke, Goes, Enters, AtRest
    <2>3. ASSUME NEW c \in Clients, Resolve(c) PROVE Resolved'
        BY <2>3 DEF Resolve, FreeToCall, Enters, AtRest, vars
    <2>4. ASSUME NEW c \in Clients, ServiceStep(c) PROVE Resolved'
        BY <2>4, StepIsInside DEF ServiceStep, AtRest
    <2>5. ASSUME NEW c \in Clients, Preview(c) \/ Dispatch(c) PROVE Resolved'
        BY <2>5 DEF Preview, Dispatch, GoesOnToTrack, Ends, Goes, Enters, AtRest, Resting
    <2> QED BY <2>1, <2>2, <2>3, <2>4, <2>5
            DEF WorkNext, Continue, SetSystemState, work, workVars, vars, AtRest
<1> QED BY <1>1, <1>2, <1>3 DEF WorkInv

LEMMA WorkInitHasTypes == WorkInit => WorkInv
BY InitHasTypes DEF WorkInit, WorkInv, WorkTypes, Resolved, Ended, Answers

(* Every variable of a workflow keeps its type, and so do those of Control *)
(* while workflows run: PARKED is not on record before two requests race.  *)
THEOREM WorkTypesCorrect == WorkSpec => []WorkTypeOK
<1>1. WorkInv => WorkTypeOK
    BY DEF WorkInv, WorkTypes, WorkTypeOK, TypeInv
<1> QED BY <1>1, WorkInitHasTypes, WorkNextKeepsTypes, PTL DEF WorkSpec

-----------------------------------------------------------------------------
(* What a queued capture holds, workflows included                         *)

(* A queued capture keeps SLEWING on record through the workflows and      *)
(* aborts of the others too, until a gotoAndSolve ends it or two requests  *)
(* race.                                                                   *)
THEOREM WorkflowsLeaveCaptures == WorkSpec => CaptureHolds
<1>1. ASSUME WorkInv, [WorkNext]_workVars, LeftSlewing, state' # "SLEWING", ~raced'
      PROVE  \E c \in Clients : pc[c] = "solveDone" /\ at[c] = "storeState"
    <2>1. state' # state
        BY <1>1 DEF LeftSlewing
    <2>2. PICK c \in Clients : Step(c)
        BY <1>1, <2>1, WorkShape
           DEF Invoke, Between, SetSystemState, request, vars, workVars
    <2> QED BY <1>1, <2>2, StepHoldsCapture DEF WorkInv
<1>2. WorkInv /\ [WorkNext]_workVars
         => [LeftSlewing /\ state' # "SLEWING" /\ ~raced'
              => \E c \in Clients : pc[c] = "solveDone" /\ at[c] = "storeState"]_vars
    BY <1>1
<1> QED BY <1>2, WorkInitHasTypes, WorkNextKeepsTypes, PTL DEF WorkSpec, CaptureHolds

-----------------------------------------------------------------------------
(* The lease                                                               *)

LEMMA BetweenKeepsLease ==
    ASSUME LeaseInv, NEW c \in Clients, Between(c)
    PROVE  KeepsLease
<1>1. PICK to \in {"idle", "failed", "gotoAsk", "startCheck", "abortSend"} :
          pc' = [pc EXCEPT ![c] = to]
    BY DEF Between
<1>2. to \in Outside /\ pc[c] \notin AskLabels \cup GotoLabels /\ UNCHANGED request
    BY AtRestNoRequest DEF Between, Outside, Labels, Resting, AtRest, GotoLabels, CaptureLabels
<1> QED BY <1>1, <1>2, MoveKeepsLease

LEMMA WorkKeepsLease ==
    ASSUME NoCaptureOps, WorkInv, LeaseInv, [WorkNext]_workVars
    PROVE  LeaseInv' /\ (~raced' => [Lease!Next]_(Lease!lease))
<1>1. CASE [Next]_vars
    BY <1>1, NextKeepsLease
<1>2. CASE \E c \in Clients : Between(c)
    BY <1>2, BetweenKeepsLease, BetweenKeepsTypes DEF KeepsLease, LeaseInv
<1> QED BY <1>1, <1>2, WorkShape DEF Next, workVars

(* Until two requests race, SLEWING stands for exactly one goto in         *)
(* progress, and the telescope is handed out as a lease, also while any    *)
(* number of clients run workflows and abort them at once.                 *)
THEOREM WorkflowsHoldLease ==
    ASSUME NoCaptureOps
    PROVE  WorkSpec => []SlewingHeld /\ ImplementsLease
<1>1. /\ WorkInv /\ LeaseInv /\ [WorkNext]_workVars => LeaseInv'
      /\ WorkInv /\ LeaseInv /\ [WorkNext]_workVars
            => [~raced' => [Lease!Next]_(Lease!lease)]_vars
    BY WorkKeepsLease
<1>2. LeaseInv => SlewingHeld
    BY DEF LeaseInv
<1>3. WorkInit => LeaseInv /\ Lease!Init
    BY InitHasLease DEF WorkInit
<1> QED BY <1>1, <1>2, <1>3, WorkInitHasTypes, WorkNextKeepsTypes, PTL
        DEF WorkSpec, ImplementsLease

-----------------------------------------------------------------------------
(* What a completed workflow has heard and recorded                        *)

(* The mount's last answer to the goto, and what came of it.               *)
GotoAnswered(c) == heard[c] \in {"tracks", "declined"} /\ (heard[c] = "tracks" => mountTracking)

Slews == state = "SLEWING" /\ owner = "GotoService"

(* How far the goto of a workflow that runs alone has come.                *)
GotoOnCourse(c) ==
    \/ pc[c] \in {"failed", "gotoGiveUp"}
    \/ pc[c] = "gotoAsk" /\ (at[c] = "storeOwner" => state = "SLEWING")
    \/ pc[c] \in {"gotoSend", "gotoTrack"} /\ Slews
    \/ /\ pc[c] = "gotoDone" /\ GotoAnswered(c)
       /\ IF at[c] = "storeOwner" THEN state = "TRACKING" ELSE Slews
    \/ pc[c] = "ok" /\ state = "TRACKING" /\ GotoAnswered(c)

OnCourse(c) ==
    /\ stage[c] \in Running
    /\ \A d \in Clients \ {c} : FreeToCall(d)
    /\ current = aim[c]
    /\ stage[c] = "goto" => GotoOnCourse(c)
    /\ stage[c] = "tracking" =>
          pc[c] \in {"startCheck", "ok"} /\ state = "TRACKING" /\ GotoAnswered(c)

CourseInv == WorkInv /\ \A c \in alone : OnCourse(c)

LEMMA ContinueIsInside ==
    ASSUME NEW c \in Clients, Continue(c)
    PROVE  ~FreeToCall(c)
<1>1. CASE ServiceStep(c)
    BY <1>1, StepIsInside DEF ServiceStep, FreeToCall
<1>2. CASE Preview(c) \/ Dispatch(c) \/ Complete(c) \/ EndAbort(c)
    BY <1>2 DEF Preview, Dispatch, Complete, EndAbort, FreeToCall, Ended
<1> QED BY <1>1, <1>2 DEF Continue

(* Only the steps of a goto are taken at its labels.                       *)
LEMMA GotoAtItsLabels ==
    ASSUME NEW c \in Clients, Step(c), pc[c] \in GotoLabels \cup {"gotoAsk"}
    PROVE  Goto(c)
<1> USE DEF GotoLabels, Tell, Ask, Send, Goes
<1>1. ~StartTracking(c) /\ ~StopTracking(c) /\ ~Park(c) /\ ~Home(c) /\ ~Abort(c)
    BY DEF StartTracking, Look, StopTracking, Park, Home, Abort
<1>2. ~Sync(c) /\ ~Move(c) /\ ~GuideStep(c) /\ ~Autofocus(c) /\ ~QueueCapture(c) /\ ~GotoAndSolve(c)
    BY DEF Sync, Move, GuideStep, Autofocus, QueueCapture, Look, GotoAndSolve
<1> QED BY <1>1, <1>2 DEF Step

LEMMA OthersStay ==
    ASSUME WorkInv, NEW c \in Clients, ServiceStep(c),
           \A d \in Clients \ {c} : FreeToCall(d)
    PROVE  \A d \in Clients \ {c} : FreeToCall(d)'
BY StepIsInside DEF ServiceStep, FreeToCall, AtRest

(* The request for SLEWING of a goto under way.                            *)
LEMMA GotoAskOnCourse ==
    ASSUME WorkInv, NEW c \in Clients, Ask(c, "gotoAsk", "gotoSend", "failed"), GotoOnCourse(c)
    PROVE  GotoOnCourse(c)'
<1>1. pc[c] = "gotoAsk" /\ (at[c] = "storeOwner" => state = "SLEWING")
      /\ RequestStep(c, "SLEWING", "GotoService")
      /\ pc' = IF Granted(c) THEN [pc EXCEPT ![c] = "gotoSend"]
               ELSE IF Denied(c) THEN [pc EXCEPT ![c] = "failed"]
               ELSE pc
    BY DEF GotoOnCourse, Ask, Arguments
<1>2. at \in [Clients -> Places] /\ pc \in [Clients -> Labels]
    BY DEF WorkInv, TypeInv, TypeOK, StepsTypeOK
<1>3. CASE StoreOwner(c, "SLEWING", "GotoService")
    <2>1. at[c] = "storeOwner" /\ Granted(c) /\ state' = state /\ owner' = "GotoService"
        BY <1>2, <1>3 DEF StoreOwner, Proceeds, Granted, Returns, OwnerOf
    <2> QED BY <1>1, <1>2, <2>1 DEF GotoOnCourse, Slews
<1>4. CASE StoreState(c, "SLEWING")
    <2>1. state' = "SLEWING" /\ ~Granted(c) /\ ~Denied(c)
        BY <1>2, <1>4 DEF StoreState, Proceeds, Granted, Denied, Returns
    <2> QED BY <1>1, <1>2, <2>1 DEF GotoOnCourse
<1>5. CASE ReadOwner(c) \/ CompareOwner(c, "GotoService") \/ Guard(c) \/ Source(c, "SLEWING")
    <2>1. at'[c] # "storeOwner" /\ ~Granted(c)
        BY <1>2, <1>5 DEF ReadOwner, CompareOwner, Guard, Source, Proceeds, Granted
    <2>2. pc'[c] \in {"gotoAsk", "failed"}
        BY <1>1, <1>2, <2>1
    <2> QED BY <2>1, <2>2 DEF GotoOnCourse
<1> QED BY <1>1, <1>3, <1>4, <1>5 DEF RequestStep

(* The request that ends it: nobody changes what it finds.                 *)
LEMMA GotoDoneOnCourse ==
    ASSUME WorkInv, NEW c \in Clients, Tell(c, "gotoDone", "ok"), heard'[c] = heard[c],
           GotoOnCourse(c)
    PROVE  GotoOnCourse(c)'
<1>1. pc[c] = "gotoDone" /\ GotoAnswered(c)
      /\ (IF at[c] = "storeOwner" THEN state = "TRACKING" ELSE Slews)
      /\ RequestStep(c, "TRACKING", "GotoService")
      /\ pc' = IF Granted(c) THEN [pc EXCEPT ![c] = "ok"]
               ELSE IF Denied(c) THEN [pc EXCEPT ![c] = "ok"]
               ELSE pc
    <2>1. Ask(c, "gotoDone", "ok", "ok")
        BY Zenon DEF Tell
    <2>2. pc[c] = "gotoDone"
        BY <2>1 DEF Ask
    <2>3. GotoAnswered(c) /\ (IF at[c] = "storeOwner" THEN state = "TRACKING" ELSE Slews)
        BY <2>2 DEF GotoOnCourse
    <2> QED BY <2>1, <2>2, <2>3 DEF Ask, Arguments
<1>2. at \in [Clients -> Places] /\ pc \in [Clients -> Labels]
    BY DEF WorkInv, TypeInv, TypeOK, StepsTypeOK
<1>3. GotoAnswered(c)'
    <2>1. mountTracking' = mountTracking
        BY DEF Tell, Ask
    <2> QED BY <1>1, <2>1 DEF GotoAnswered
<1>4. CASE StoreOwner(c, "TRACKING", "GotoService")
    <2>1. at[c] = "storeOwner" /\ Granted(c) /\ state' = state
        BY <1>2, <1>4 DEF StoreOwner, Proceeds, Granted, Returns
    <2>2. pc'[c] = "ok"
        BY <1>1, <1>2, <2>1
    <2> QED BY <1>1, <1>3, <2>1, <2>2 DEF GotoOnCourse
<1>5. CASE StoreState(c, "TRACKING")
    <2>1. state' = "TRACKING" /\ at'[c] = "storeOwner" /\ ~Granted(c) /\ ~Denied(c)
        BY <1>2, <1>5 DEF StoreState, Proceeds, Granted, Denied, Returns
    <2>2. pc'[c] = "gotoDone"
        BY <1>1, <2>1
    <2> QED BY <1>3, <2>1, <2>2 DEF GotoOnCourse
<1>6. CASE ReadOwner(c) \/ CompareOwner(c, "GotoService") \/ Guard(c) \/ Source(c, "TRACKING")
    <2>1. Slews /\ Slews'
        BY <1>1, <1>6 DEF ReadOwner, CompareOwner, Guard, Source, Proceeds, machine, Slews
    <2>2. at'[c] \notin {"storeOwner", "out"}
        BY <1>2, <1>6, <2>1
           DEF ReadOwner, CompareOwner, Guard, Source, Proceeds, Slews, Sources
    <2>3. ~Granted(c) /\ ~Denied(c)
        BY <2>2 DEF Granted, Denied, Returns
    <2>4. pc'[c] = "gotoDone"
        BY <1>1, <2>3
    <2> QED BY <1>3, <2>1, <2>2, <2>4 DEF GotoOnCourse
<1> QED BY <1>1, <1>4, <1>5, <1>6 DEF RequestStep

LEMMA GotoKeepsCourse ==
    ASSUME WorkInv, NEW c \in Clients, ServiceStep(c), stage[c] = "goto", GotoOnCourse(c)
    PROVE  GotoOnCourse(c)'
<1>1. pc \in [Clients -> Labels] /\ heard \in [Clients -> Answers]
      /\ heard'[c] = Hears(c) /\ Step(c) /\ mountTracking \in BOOLEAN
    BY DEF ServiceStep, WorkInv, WorkTypes, TypeInv, TypeOK
<1>2. pc[c] \in GotoLabels \cup {"gotoAsk"}
    BY <1>1, StepIsInside DEF GotoOnCourse, GotoLabels, AtRest, Resting
<1>3. Goto(c)
    BY <1>1, <1>2, GotoAtItsLabels
<1>4. CASE Ask(c, "gotoAsk", "gotoSend", "failed")
    BY <1>4, GotoAskOnCourse
<1>5. CASE Send(c, "gotoSend", {mountTracking, TRUE}, "gotoTrack", "gotoGiveUp")
    BY <1>1, <1>5 DEF Send, Goes, GotoOnCourse, Slews, request
<1>6. CASE Send(c, "gotoTrack", {TRUE}, "gotoDone", "gotoGiveUp")
    <2>1. pc[c] = "gotoTrack" /\ pc'[c] \in {"gotoDone", "gotoGiveUp"}
          /\ state' = state /\ owner' = owner /\ at' = at
        BY <1>1, <1>6 DEF Send, Goes, request
    <2>2. at[c] = "out" /\ Slews
        BY <2>1, TheAskLabels DEF WorkInv, TypeInv, AskPlace, GotoOnCourse
    <2>3. pc'[c] = "gotoDone" => GotoAnswered(c)'
        BY <1>1, <2>1 DEF Hears, GotoAnswered
    <2> QED BY <2>1, <2>2, <2>3 DEF GotoOnCourse, Slews
<1>7. CASE Tell(c, "gotoGiveUp", "failed")
    BY <1>1, <1>7 DEF Tell, Ask, GotoOnCourse
<1>8. CASE Tell(c, "gotoDone", "ok")
    <2>1. Hears(c) = heard[c]
        BY <1>8 DEF Tell, Ask, Hears
    <2> QED BY <1>1, <1>8, <2>1, GotoDoneOnCourse
<1> QED BY <1>3, <1>4, <1>5, <1>6, <1>7, <1>8 DEF Goto

(* The tracking command finds TRACKING on record and sends nothing.        *)
LEMMA TrackingKeepsCourse ==
    ASSUME WorkInv, NEW c \in Clients, ServiceStep(c), pc[c] \in {"startCheck", "ok"},
           state = "TRACKING", GotoAnswered(c)
    PROVE  pc'[c] = "ok" /\ state' = "TRACKING" /\ GotoAnswered(c)'
<1>1. pc \in [Clients -> Labels] /\ heard \in [Clients -> Answers]
      /\ heard'[c] = Hears(c) /\ Step(c)
    BY DEF ServiceStep, WorkInv, WorkTypes, TypeInv, TypeOK
<1>2. pc[c] = "startCheck"
    BY <1>1, StepIsInside DEF AtRest, Resting
<1>3. Look(c, "startCheck", "tracking", "ok", "startAsk")
    <2> USE DEF Tell, Ask, Send, Goes
    <2>1. ~Goto(c) /\ ~StopTracking(c) /\ ~Park(c) /\ ~Home(c) /\ ~Abort(c) /\ ~Sync(c) /\ ~Move(c)
        BY <1>2 DEF Goto, StopTracking, Park, Home, Abort, Sync, Move
    <2>2. ~GuideStep(c) /\ ~Autofocus(c) /\ ~QueueCapture(c) /\ ~GotoAndSolve(c)
        BY <1>2 DEF GuideStep, Autofocus, QueueCapture, Look, GotoAndSolve
    <2> QED BY <1>1, <1>2, <2>1, <2>2 DEF Step, StartTracking
<1> QED BY <1>1, <1>2, <1>3 DEF Look, Goes, OnRecord, Hears, GotoAnswered, request

(* A step of the one client whose workflow nothing overlaps.               *)
LEMMA ContinueKeepsCourse ==
    ASSUME WorkInv, WorkInv', NEW c \in Clients, OnCourse(c), Continue(c), c \in alone'
    PROVE  OnCourse(c)'
<1>0. /\ stage \in [Clients -> Running \cup Ended \cup {"abort"}]
      /\ pc \in [Clients -> Labels]
    BY DEF WorkInv, WorkTypes, TypeInv, TypeOK
<1>1. CASE ServiceStep(c)
    <2>1. (\A d \in Clients \ {c} : FreeToCall(d)') /\ UNCHANGED <<stage, aim, current>>
        BY <1>1, OthersStay DEF OnCourse, ServiceStep
    <2>2. stage[c] = "goto" => GotoOnCourse(c)'
        BY <1>1, GotoKeepsCourse DEF OnCourse
    <2>3. stage[c] = "tracking" => pc'[c] = "ok" /\ state' = "TRACKING" /\ GotoAnswered(c)'
        BY <1>1, TrackingKeepsCourse DEF OnCourse
    <2> QED BY <2>1, <2>2, <2>3 DEF OnCourse
<1>2. ~Ends(c, "error") /\ ~Ends(c, "completed") /\ ~Ends(c, "aborted")
    BY DEF Ends
<1>3. CASE Preview(c)
    <2>1. /\ stage' = [stage EXCEPT ![c] = "goto"] /\ pc' = [pc EXCEPT ![c] = Entry("goto")]
          /\ UNCHANGED <<request, aim, current>> /\ at[c] = "out"
        BY <1>2, <1>3, AtRestNoRequest
           DEF Preview, Enters, Goes, WorkInv, Resolved, TypeInv, AskPlace
    <2>2. GotoOnCourse(c)'
        BY <1>0, <2>1 DEF GotoOnCourse, Entry, request
    <2> QED BY <1>0, <2>1, <2>2 DEF OnCourse, Running, FreeToCall, AtRest
<1>4. CASE Dispatch(c)
    <2>1. /\ stage[c] = "goto" /\ pc[c] = "ok"
          /\ stage' = [stage EXCEPT ![c] = "tracking"] /\ pc' = [pc EXCEPT ![c] = "startCheck"]
          /\ UNCHANGED <<request, mountTracking, aim, current, heard>>
        BY <1>2, <1>4 DEF Dispatch, GoesOnToTrack, Enters, Goes, Entry
    <2>2. state = "TRACKING" /\ GotoAnswered(c)
        BY <2>1 DEF OnCourse, GotoOnCourse
    <2> QED BY <1>0, <2>1, <2>2 DEF OnCourse, Running, FreeToCall, AtRest, GotoAnswered, request
<1>5. CASE Complete(c) \/ EndAbort(c)
    BY <1>2, <1>5 DEF Complete, EndAbort
<1> QED BY <1>1, <1>3, <1>4, <1>5 DEF Continue

LEMMA WorkNextKeepsCourse == CourseInv /\ [WorkNext]_workVars => CourseInv'
<1> SUFFICES ASSUME CourseInv, [WorkNext]_workVars PROVE CourseInv'
    OBVIOUS
<1>1. WorkInv /\ WorkInv'
    BY WorkNextKeepsTypes DEF CourseInv
<1>2. /\ stage \in [Clients -> Running \cup Ended \cup {"abort"}] /\ alone \subseteq Clients
      /\ pc \in [Clients -> Labels] /\ heard \in [Clients -> Answers]
      /\ aim \in [Clients -> Targets \cup {NoTarget}]
    BY <1>1 DEF WorkInv, WorkTypes, TypeInv, TypeOK
<1>3. ASSUME NEW c \in alone', NEW a \in Clients,
             OtherCall(a) \/ BeginAbort(a) \/ NotFound(a) \/ Resolve(a) \/ Continue(a)
      PROVE  OnCourse(c)'
    <2>1. ~OtherCall(a) /\ ~BeginAbort(a)
        BY <1>3 DEF OtherCall, BeginAbort
    <2>2. CASE NotFound(a)
        <3>1. c \in alone /\ c # a /\ OnCourse(c)
            BY <1>3, <2>2 DEF NotFound, Ends, CourseInv
        <3>2. UNCHANGED <<request, mountTracking, current>>
              /\ pc' = [pc EXCEPT ![a] = "idle"] /\ stage' = [stage EXCEPT ![a] = "error"]
              /\ aim'[c] = aim[c] /\ heard'[c] = heard[c]
            BY <1>2, <2>2, <3>1 DEF NotFound, Ends, Enters
        <3>3. \A d \in Clients : FreeToCall(d) => FreeToCall(d)'
            BY <1>2, <3>2 DEF FreeToCall, AtRest, Resting, Ended
        <3>4. pc'[c] = pc[c] /\ stage'[c] = stage[c] /\ at'[c] = at[c]
              /\ state' = state /\ owner' = owner
            BY <1>2, <3>1, <3>2 DEF request
        <3>5. GotoOnCourse(c) <=> GotoOnCourse(c)'
            BY <3>2, <3>4 DEF GotoOnCourse, Slews, GotoAnswered
        <3> QED BY <3>1, <3>2, <3>3, <3>4, <3>5 DEF OnCourse, GotoAnswered
    <2>3. CASE Resolve(a)
        <3>1. c = a /\ \A d \in Clients \ {c} : FreeToCall(d)
            BY <1>3, <2>3 DEF Resolve
        <3>2. stage' = [stage EXCEPT ![a] = "resolved"] /\ UNCHANGED pc
            BY <2>3 DEF Resolve, Enters, vars
        <3>3. \A d \in Clients \ {c} : FreeToCall(d)'
            BY <1>2, <3>1, <3>2 DEF FreeToCall, AtRest
        <3>4. current' = aim'[c] /\ stage'[c] = "resolved"
            BY <1>2, <2>3, <3>1, <3>2 DEF Resolve
        <3> QED BY <3>3, <3>4 DEF OnCourse, Running
    <2>4. CASE Continue(a)
        <3>1. c \in alone
            BY <1>3, <2>4 DEF Continue, ServiceStep, Preview, Dispatch, GoesOnToTrack,
                              Complete, EndAbort, Ends
        <3>2. c \in Clients /\ OnCourse(c) /\ c = a
            BY <1>2, <2>4, <3>1, ContinueIsInside DEF CourseInv, OnCourse
        <3> QED BY <1>1, <1>3, <2>4, <3>2, ContinueKeepsCourse
    <2> QED BY <1>3, <2>1, <2>2, <2>3, <2>4
<1>4. ASSUME UNCHANGED <<request, pc, mountTracking, work>> PROVE \A c \in alone' : OnCourse(c)'
    BY <1>4 DEF CourseInv, OnCourse, GotoOnCourse, Slews, GotoAnswered, FreeToCall, AtRest,
                request, work
<1>5. CASE SetSystemState /\ UNCHANGED work
    BY <1>1, <1>4, <1>5 DEF SetSystemState, CourseInv
<1>6. CASE UNCHANGED workVars
    BY <1>1, <1>4, <1>6 DEF workVars, vars, request, CourseInv
<1> QED BY <1>1, <1>3, <1>5, <1>6 DEF WorkNext, CourseInv

(* A workflow that nothing overlaps completes only with an answer to its   *)
(* goto and to the tracking command, with TRACKING and its own target on   *)
(* record, and with a mount that tracks unless it declined to: for any     *)
(* clients and whatever calls, races among them included, came before.     *)
THEOREM CompletedCorrect == WorkSpec => CompletedInOrder
<1>1. WorkInit => CourseInv
    BY WorkInitHasTypes DEF WorkInit, CourseInv
<1>2. CourseInv => \A c \in alone :
         stage[c] = "tracking"
            => /\ heard[c] \in {"tracks", "declined"}
               /\ heard[c] = "tracks" => mountTracking
               /\ state = "TRACKING" /\ current = aim[c]
    BY DEF CourseInv, OnCourse, GotoAnswered
<1>3. CourseInv /\ [WorkNext]_workVars
         => [\A c \in alone :
               stage[c] = "tracking" /\ stage'[c] = "completed"
                  => /\ heard[c] \in {"tracks", "declined"}
                     /\ heard[c] = "tracks" => mountTracking
                     /\ state = "TRACKING" /\ current = aim[c]]_workVars
    BY <1>2
<1> QED BY <1>1, <1>3, WorkNextKeepsCourse, PTL DEF WorkSpec, CompletedInOrder
=============================================================================

------------------------------- MODULE Control -------------------------------
(***************************************************************************)
(* The services of asdevlab that drive the telescope (MotionService,       *)
(* GuideService, FocusService, SchedulerService, SafetyService), with the  *)
(* StateMachine they share.  A client is a thread inside one service call: *)
(* a handler of the web server, or the terminal.  Its steps are the loads  *)
(* and stores of its requests for a transition and its calls on the mount, *)
(* in program order; the steps of several clients interleave.              *)
(*                                                                         *)
(* The state machine takes no lock, and motion_service.hpp:22 assumes that *)
(* callers do not overlap.  What is claimed of clients at once is claimed  *)
(* until two requests race (see raced); OneGoto is lost when they do.      *)
(*                                                                         *)
(* The mount is reduced to the one thing the services draw conclusions     *)
(* about: whether it tracks.                                               *)
(***************************************************************************)
EXTENDS StateMachineSteps

CONSTANTS
    Ops,            \* the operations they may invoke
    Outcomes        \* how a call on the mount may end

MotionOps == {"goto", "start", "stop", "park", "home", "abort", "move", "halt", "sync"}
CoreOps == {"guide", "focus", "capture", "solve", "setSafety"}

(* What a call on the mount does, and what the client is told.             *)
(*   done     the mount obeys, the client hears of it                      *)
(*   lost     the mount obeys, the reply does not arrive                   *)
(*   dropped  the command does not arrive, nor any reply                   *)
(*   refused  the mount replies that it will not; the client asks only     *)
(*            whether a reply came                                         *)
AllOutcomes == {"done", "lost", "dropped", "refused"}
Obeyed == {"done", "lost"}
Answered == {"done", "refused"}

ASSUME OpsAssumption == Ops \subseteq MotionOps \cup CoreOps
ASSUME OutcomesAssumption == Outcomes \subseteq AllOutcomes

VARIABLES
    pc,             \* the step each client takes next
    focusing,       \* SafetyService::system_state_ is Focusing
    mountTracking   \* the mount's own tracking switch

vars == <<state, owner, at, raced, pc, focusing, mountTracking>>

Resting == {"idle", "ok", "failed"}

(* From the grant of SLEWING to the answer of the request that ends it.    *)
GotoLabels == {"gotoSend", "gotoTrack", "gotoGiveUp", "gotoDone"}

Labels == Resting \cup GotoLabels \cup
    {"gotoAsk", "startCheck", "startAsk", "startSend", "startGiveUp",
     "stopSend", "stopDone", "parkAsk", "parkSend", "parkGiveUp", "parkDone",
     "homeSend", "abortSend", "abortDone", "syncSend", "moveSend",
     "guideAsk", "focusAsk", "focusDone", "captureAsk", "captureCheck",
     "captureBlocked", "solveDone"}

(* The arguments of the request at each of the labels that make one.       *)
Arguments ==
    LET By(who, next) == [next |-> next, who |-> who] IN
    [gotoAsk        |-> By("GotoService", "SLEWING"),
     gotoGiveUp     |-> By("GotoService", "IDLE"),
     gotoDone       |-> By("GotoService", "TRACKING"),
     startAsk       |-> By("MotionService", "TRACKING"),
     startGiveUp    |-> By("MotionService", "IDLE"),
     stopDone       |-> By("MotionService", "IDLE"),
     parkAsk        |-> By("MotionService", "PARKING"),
     parkGiveUp     |-> By("MotionService", "IDLE"),
     parkDone       |-> By("MotionService", "PARKED"),
     abortDone      |-> By("MotionService", "IDLE"),
     guideAsk       |-> By("GuideService", "GUIDING"),
     focusAsk       |-> By("FocusService", "FOCUSING"),
     focusDone      |-> By("FocusService", "TRACKING"),
     captureAsk     |-> By("GotoService", "SLEWING"),
     captureBlocked |-> By("GotoService", "TRACKING"),
     solveDone      |-> By("GotoService", "TRACKING")]

AskLabels == DOMAIN Arguments

Init ==
    /\ StepsInit
    /\ pc = [c \in Clients |-> "idle"]
    /\ focusing = FALSE
    /\ mountTracking = FALSE

-----------------------------------------------------------------------------
(* Building blocks                                                         *)

Goes(c, from, to) == pc[c] = from /\ pc' = [pc EXCEPT ![c] = to]

(* A step of a request; its answer decides where the client goes on.       *)
Ask(c, from, granted, denied) ==
    /\ pc[c] = from
    /\ RequestStep(c, Arguments[from].next, Arguments[from].who)
    /\ pc' = IF Granted(c) THEN [pc EXCEPT ![c] = granted]
             ELSE IF Denied(c) THEN [pc EXCEPT ![c] = denied]
             ELSE pc
    /\ UNCHANGED <<focusing, mountTracking>>

(* A request whose answer the code ignores.                                *)
Tell(c, from, to) == Ask(c, from, to, to)

(* What a call may look at before it goes on.                              *)
OnRecord == [tracking |-> state = "TRACKING", focusing |-> focusing]

(* A look at what is on record decides where the client goes on.           *)
Look(c, from, what, then, else) ==
    /\ Goes(c, from, IF OnRecord[what] THEN then ELSE else)
    /\ UNCHANGED <<request, focusing, mountTracking>>

(* A call on the mount, which sets its tracking to a member of effects.    *)
Send(c, from, effects, answered, unanswered) ==
    \E outcome \in Outcomes, tracks \in effects :
        /\ Goes(c, from, IF outcome \in Answered THEN answered ELSE unanswered)
        /\ mountTracking' = IF outcome \in Obeyed THEN tracks ELSE mountTracking
        /\ UNCHANGED <<request, focusing>>

-----------------------------------------------------------------------------
(* The operations                                                          *)

(* Where a call starts; a goto, and a move that is no halt, is refused at  *)
(* once while SafetyService says the telescope is focusing.                *)
Entry(op) ==
    CASE op = "goto"    -> IF focusing THEN "failed" ELSE "gotoAsk"
      [] op = "move"    -> IF focusing THEN "failed" ELSE "moveSend"
      [] op = "halt"    -> "moveSend"
      [] op = "sync"    -> "syncSend"
      [] op = "start"   -> "startCheck"
      [] op = "stop"    -> "stopSend"
      [] op = "park"    -> "parkAsk"
      [] op = "home"    -> "homeSend"
      [] op = "abort"   -> "abortSend"
      [] op = "guide"   -> "guideAsk"
      [] op = "focus"   -> "focusAsk"
      [] op = "capture" -> "captureAsk"
      [] op = "solve"   -> "solveDone"

AtRest(c) == pc[c] \in Resting

Invoke(c) ==
    /\ AtRest(c)
    /\ \E op \in Ops \ {"setSafety"} : Goes(c, pc[c], Entry(op))
    /\ UNCHANGED <<request, focusing, mountTracking>>

(* Variant: a goto that fails leaves the state as it is.                   *)
GotoKeepingTheState(c) ==
    \/ Ask(c, "gotoAsk", "gotoSend", "failed")
    \/ Send(c, "gotoSend", {mountTracking, TRUE}, "gotoTrack", "failed")
    \/ Send(c, "gotoTrack", {TRUE}, "gotoDone", "failed")
    \/ Tell(c, "gotoDone", "ok")

(* A goto holds SLEWING from its first request to its last.  The mount may *)
(* switch its tracking on with its first goto.                             *)
Goto(c) ==
    \/ Ask(c, "gotoAsk", "gotoSend", "failed")
    \/ Send(c, "gotoSend", {mountTracking, TRUE}, "gotoTrack", "gotoGiveUp")
    \/ Send(c, "gotoTrack", {TRUE}, "gotoDone", "gotoGiveUp")
    \/ Tell(c, "gotoGiveUp", "failed")
    \/ Tell(c, "gotoDone", "ok")

(* Tracking is on record before the mount is told.                         *)
StartTracking(c) ==
    \/ Look(c, "startCheck", "tracking", "ok", "startAsk")
    \/ Ask(c, "startAsk", "startSend", "failed")
    \/ Send(c, "startSend", {TRUE}, "ok", "startGiveUp")
    \/ Tell(c, "startGiveUp", "failed")

StopTracking(c) ==
    \/ Send(c, "stopSend", {FALSE}, "stopDone", "failed")
    \/ Tell(c, "stopDone", "ok")

Park(c) ==
    \/ Ask(c, "parkAsk", "parkSend", "failed")
    \/ Send(c, "parkSend", {FALSE}, "parkDone", "parkGiveUp")
    \/ Tell(c, "parkGiveUp", "failed")
    \/ Tell(c, "parkDone", "ok")

Home(c) == Send(c, "homeSend", {FALSE}, "ok", "failed")

(* A home or park on its way restores the tracking when it is aborted.     *)
Abort(c) ==
    \/ Send(c, "abortSend", {mountTracking, TRUE}, "abortDone", "failed")
    \/ Tell(c, "abortDone", "ok")

(* The last thing sync sends is the mount's goto command (readGotoState).  *)
Sync(c) == Send(c, "syncSend", {mountTracking, TRUE}, "ok", "failed")

Move(c) == Send(c, "moveSend", {mountTracking}, "ok", "failed")

(* The safety test that follows never refuses a guide.                     *)
GuideStep(c) == Ask(c, "guideAsk", "ok", "failed")

(* Variant: the telescope is not given back.                               *)
AutofocusForGood(c) ==
    Ask(c, "focusAsk", "ok", "failed")

Autofocus(c) ==
    \/ Ask(c, "focusAsk", "focusDone", "failed")
    \/ Tell(c, "focusDone", "ok")

(* queue_capture takes SLEWING, and gives it back only when it is blocked. *)
QueueCapture(c) ==
    \/ Ask(c, "captureAsk", "captureCheck", "failed")
    \/ Look(c, "captureCheck", "focusing", "captureBlocked", "ok")
    \/ Tell(c, "captureBlocked", "failed")

(* gotoAndSolve never drives the mount: its goto only checks a query.      *)
GotoAndSolve(c) == Tell(c, "solveDone", "ok")

SetSystemState ==
    /\ "setSafety" \in Ops
    /\ focusing' = ~focusing
    /\ UNCHANGED <<request, pc, mountTracking>>

Step(c) ==
    \/ Goto(c)
    \/ StartTracking(c)
    \/ StopTracking(c)
    \/ Park(c)
    \/ Home(c)
    \/ Abort(c)
    \/ Sync(c)
    \/ Move(c)
    \/ GuideStep(c)
    \/ Autofocus(c)
    \/ QueueCapture(c)
    \/ GotoAndSolve(c)

Next ==
    \/ \E c \in Clients : Invoke(c) \/ Step(c)
    \/ SetSystemState

(* A thread inside a call keeps running: what it waits for is the mount,   *)
(* and the transport answers or gives up after timeout_seconds.  Nothing   *)
(* obliges a client to make a call.                                        *)
Fairness == \A c \in Clients : WF_vars(Step(c))

Spec == Init /\ [][Next]_vars /\ Fairness

-----------------------------------------------------------------------------
(* ERROR is never recorded, and PARKED is when two requests race only: the *)
(* request for it is one that leaves PARKING.                              *)
TypeOK ==
    /\ StepsTypeOK
    /\ state # "ERROR" /\ (~raced => state # "PARKED")
    /\ pc \in [Clients -> Labels]
    /\ focusing \in BOOLEAN
    /\ mountTracking \in BOOLEAN

(* The owner on record is the one the recorded state belongs to, so the    *)
(* owner test of the next request protects the service that is really in   *)
(* charge.                                                                 *)
OwnerMatchesState == ~raced => SettledOwner = OwnerOf[state]

(* What one step of the one-step machine may do for the requests in        *)
(* progress: a change is one it grants to such a request, with that        *)
(* request's own arguments, and a denial is one it would have given too.   *)
AtomicStep ==
    /\ Atomic!machine' # Atomic!machine =>
          \E c \in Clients :
              /\ at[c] # "out"
              /\ Atomic!Permitted(Arguments[pc[c]].next, Arguments[pc[c]].who)
              /\ Atomic!Grant(Arguments[pc[c]].next)
    /\ \A c \in Clients :
          Denied(c) => ~Atomic!Permitted(Arguments[pc[c]].next, Arguments[pc[c]].who)

(* What the stores of requestTransition apply, and whom they answer with   *)
(* false, is what it would do and answer if each call were a single step,  *)
(* while services are called in any overlap short of a race.               *)
ImplementsAtomic == Atomic!MachineInit /\ [][~raced' => AtomicStep]_vars

(* The client's goto has recorded SLEWING and not yet its end.             *)
InGoto(c) ==
    \/ pc[c] = "gotoAsk" /\ at[c] = "storeOwner"
    \/ pc[c] \in GotoLabels /\ at[c] # "storeOwner"

(* No two clients are inside a goto.                                       *)
OneGoto == \A c, d \in Clients : InGoto(c) /\ InGoto(d) => c = d

(* SLEWING stands for exactly one goto in progress: the state is SLEWING   *)
(* as long as some client is between the grant and the release, and no two *)
(* clients are.  Neither an abort nor a tracking request nor a failure of  *)
(* another client ends it early.  (queue_capture and gotoAndSolve take and *)
(* release SLEWING on other terms; see CaptureHolds.)                      *)
SlewingHeld ==
    ~raced => OneGoto /\ (state = "SLEWING" <=> \E c \in Clients : InGoto(c))

(* What the state says about who may use the telescope.                    *)
Use ==
    CASE state = "SLEWING"  -> "slew"
      [] state = "GUIDING"  -> "guide"
      [] state = "FOCUSING" -> "focus"
      [] state = "PARKING"  -> "park"
      [] OTHER              -> "free"

Holders == {c \in Clients : InGoto(c)}

Lease == INSTANCE TelescopeLease WITH use <- Use, holders <- Holders

(* The services together hand the telescope out as a lease: one user at a  *)
(* time, a slew given back by the client that took it and by no other,     *)
(* guiding and parking never given back.                                   *)
ImplementsLease == Lease!Init /\ [][~raced' => [Lease!Next]_(Lease!lease)]_vars

(* A slew ends, whatever the mount answers and whatever other clients do.  *)
SlewEnds == ~raced /\ state = "SLEWING" ~> state # "SLEWING" \/ raced

(* An autofocus gives the telescope back, whatever the other services do.  *)
FocusEnds == ~raced /\ state = "FOCUSING" ~> state # "FOCUSING" \/ raced

(* SLEWING left behind by a queue_capture that has returned.               *)
LeftSlewing ==
    /\ state = "SLEWING"
    /\ \A c \in Clients :
          /\ ~InGoto(c)
          /\ pc[c] \notin {"captureCheck", "captureBlocked"}
          /\ ~(pc[c] = "captureAsk" /\ at[c] = "storeOwner")

(* A queued capture keeps everyone else out until a gotoAndSolve ends it:  *)
(* no goto, abort, stop or park changes the state before that.             *)
CaptureHolds ==
    [][LeftSlewing /\ state' # "SLEWING" /\ ~raced'
         => \E c \in Clients : pc[c] = "solveDone" /\ at[c] = "storeState"]_vars

(* start_tracking answers "tracking already active", without a word to the *)
(* mount, only when the mount tracks (motion_service.cpp:169-171).         *)
ActiveMeansTracking ==
    [][\A c \in Clients :
         pc[c] = "startCheck" /\ pc'[c] = "ok" => mountTracking]_vars
=============================================================================

-------------------------------- MODULE Mount --------------------------------
(***************************************************************************)
(* The OnStepX firmware of the mount: what moves it (Goto, Guide, Home),   *)
(* what keeps it from moving (Park, the motors' power, trust, date and     *)
(* time), and the two axes that carry the moves out.                       *)
(*                                                                         *)
(* A command or a poll is one step: OnTask is cooperative and lets only    *)
(* tasks of a higher priority into a yield, and the axes' own polls are    *)
(* the only such tasks that touch this state.  Positions are left out.     *)
(* Whatever the firmware reads from them (at home, out of limits, pier     *)
(* side) goes either way.                                                  *)
(***************************************************************************)
EXTENDS Naturals

CONSTANTS
    Switches,       \* the values of Home::hasSense to consider
    RefineStages,   \* GOTO_REFINE_STAGES
    Upsets          \* what may go wrong: "power", "fault" (of a motor driver),
                    \* "axis" (a limit, or a slew that hangs)

Axes == 1 .. 2

ASSUME SwitchesAssumption == Switches \subseteq BOOLEAN
ASSUME RefineAssumption == RefineStages \in Nat
ASSUME UpsetsAssumption == Upsets \subseteq {"power", "fault", "axis"}

VARIABLES
    stage,          \* Goto::stage; "none" also stands for Goto::state GS_NONE
    refine,         \* Goto::nearDestinationRefineStages
    aim,            \* what Goto::target is: an object, the park or home position
    watched,        \* the goto's monitor task has a period
    leg,            \* how each axis fares on the present leg of the goto
    guide,          \* Guide::state
    act,            \* Guide::guideAction of each axis; "rate" is a guide in
                    \* either direction with a rateAxis, "move" one without
    auto,           \* Axis::autoRate of each axis
    park,           \* Park::state
    cached,         \* Park::settings.state as last put
    saved,          \* the same in non-volatile memory
    resumed,        \* history: PARKING was read from there at a restart
    parkTracked,    \* Park::wasTracking, while the mount is parking
    home,           \* Home::state
    homeTracked,    \* Home::wasTracking, while it is homing
    tracking,       \* Mount::trackingState is TS_SIDEREAL
    enabled,        \* the motors are powered
    trusted,        \* Mount::startupAuthorityTrusted
    ready,          \* Site::isDateTimeReady
    fault,          \* Mount::motorFault
    hasSense        \* Home::hasSense: there are home switches

gotoVars  == <<stage, refine, aim, leg, watched>>
guideVars == <<guide, act>>
parkVars  == <<park, cached, saved, resumed, parkTracked>>
homeVars  == <<home, homeTracked>>
power     == <<tracking, enabled>>
world     == <<trusted, ready, fault, hasSense>>
vars == <<gotoVars, guideVars, auto, parkVars, homeVars, power, world>>

Stages == {"none", "abort", "readyAbort", "waypointHome", "waypointAvoid",
           "nearStart", "nearWait", "near", "destination"}

Everywhere(x) == [a \in Axes |-> x]

(* Mount::begin, on a mount that was left unparked.                        *)
Init ==
    /\ stage = "none" /\ refine = 0 /\ aim = "none" /\ leg = Everywhere("none") /\ watched = FALSE
    /\ guide = "none" /\ act = Everywhere("none") /\ auto = Everywhere("none")
    /\ park = "unparked" /\ cached = "unparked" /\ saved = "unparked"
    /\ resumed = FALSE /\ parkTracked = FALSE
    /\ home = "none" /\ homeTracked = FALSE
    /\ tracking = FALSE /\ enabled = FALSE
    /\ trusted = TRUE /\ ready = FALSE
    /\ fault = FALSE
    /\ hasSense \in Switches

-----------------------------------------------------------------------------
(* The axes                                                                *)

Moving == \E a \in Axes : auto[a] # "none"

(* autoGoto on the first n axes; the one that refuses ends the attempt.    *)
AutoGoto(n) ==
    /\ n < 2 => fault \/ "axis" \in Upsets
    /\ fault => n < 2
    /\ auto' = [a \in Axes |-> IF a <= n THEN "distance" ELSE auto[a]]
    /\ leg' = [a \in Axes |-> IF a <= n THEN "going" ELSE "cut"]

(* autoSlew on the axes of S, of which a limit or a fault may stop some.   *)
AutoSlew(f, S) ==
    {[a \in Axes |-> IF a \in R THEN "time" ELSE f[a]] :
        R \in {R \in SUBSET S : R = S \/ fault \/ "axis" \in Upsets}}

(* autoSlewStop and autoSlewAbort.                                         *)
Slowed(x, how) == IF x \in {"none", "abort"} THEN x ELSE how

AbortSlews == auto' = [a \in Axes |-> Slowed(auto[a], "abort")]

Cut(S) == leg' = [a \in Axes |-> IF a \in S /\ leg[a] = "going" THEN "cut" ELSE leg[a]]

(* An axis at work: a slew by distance arrives, one that is stopping or    *)
(* aborting comes to rest, the search for a home switch passes it and      *)
(* turns back, a motor without power stops.                                *)
AxisPoll(a) ==
    /\ \/ ~enabled /\ auto[a] # "none" /\ auto' = [auto EXCEPT ![a] = "none"] /\ Cut({a})
       \/ /\ enabled /\ auto[a] = "distance"
          /\ auto' = [auto EXCEPT ![a] = "none"]
          /\ leg' = IF leg[a] = "going" THEN [leg EXCEPT ![a] = "arrived"] ELSE leg
       \/ /\ enabled /\ auto[a] \in {"abort", "end"}
          /\ auto' = [auto EXCEPT ![a] = "none"]
          /\ UNCHANGED leg
       \/ /\ enabled /\ guide = "home"
          /\ \/ auto[a] = "time" /\ auto' = [auto EXCEPT ![a] = "end"]
             \/ auto[a] = "end" /\ auto' = [auto EXCEPT ![a] = "time"]
          /\ UNCHANGED leg
    /\ UNCHANGED <<stage, refine, aim, watched, guideVars, parkVars, homeVars, power, world>>

(* A limit, a fault of the driver, a slew that hangs or a switch that is   *)
(* not found in time: the axis stops on its own, and only the axis.        *)
AxisCut(a) ==
    /\ "axis" \in Upsets \/ fault
    /\ auto[a] \in {"distance", "time", "end"}
    /\ auto' = [auto EXCEPT ![a] = "abort"]
    /\ Cut({a})
    /\ UNCHANGED <<stage, refine, aim, watched, guideVars, parkVars, homeVars, power, world>>

-----------------------------------------------------------------------------
(* Guides                                                                  *)

(* stopAxis on the axes of S, in a record of the guide's state.  A guide   *)
(* with a rate leaves the axis alone.                                      *)
StopAxes(g, S, how) ==
    LET slews == {a \in S : g.act[a] = "move"} IN
    [guide |-> g.guide,
     act   |-> [a \in Axes |-> IF a \in slews THEN "break"
                               ELSE IF a \in S /\ g.act[a] = "rate" THEN "none"
                               ELSE g.act[a]],
     auto  |-> [a \in Axes |-> IF a \in slews THEN Slowed(g.auto[a], how) ELSE g.auto[a]]]

Guiding == [guide |-> guide, act |-> act, auto |-> auto]

(* Variant: a search for the home switches is not stopped.                 *)
StoppedUnlessHoming(g, S, how) ==
    IF g.guide = "home" /\ how = "end" THEN g ELSE StopAxes(g, S, how)

(* To stop a search for the home switches is to abort it, on both axes.    *)
Stopped(g, S, how) ==
    IF g.guide = "home" /\ how = "end"
    THEN StopAxes([g EXCEPT !.guide = "homeAbort"], Axes, "abort")
    ELSE StopAxes(g, S, how)

GuideBecomes(g) == guide' = g.guide /\ act' = g.act /\ auto' = g.auto

GuideStop == GuideBecomes(Stopped(Guiding, Axes, "end"))

GuideAbort ==
    GuideBecomes(StopAxes([Guiding EXCEPT !.guide = IF @ = "home" THEN "homeAbort" ELSE @],
                          Axes, "abort"))

-----------------------------------------------------------------------------
(* Gotos                                                                   *)

Goto == stage # "none"

(* Variant: the park state is not looked at.                               *)
ClearWhenParked == ~Goto /\ guide = "none" /\ ~Moving /\ ready /\ ~fault

(* Goto::validate once the motors are on.                                  *)
Clear ==
    /\ park # "parked"
    /\ ~Goto /\ guide = "none" /\ ~Moving
    /\ ready /\ ~fault

AbortGoto ==
    stage' = IF stage \in {"none", "abort"} THEN stage ELSE "readyAbort"

(* Goto::request once its target is accepted.  When an axis refuses the    *)
(* caller is told of an error, with the goto on record all the same and    *)
(* its monitor left without a period, which is never polled.               *)
BeginGoto(kind, n) ==
    /\ Clear
    /\ stage' \in {"waypointHome", "waypointAvoid", "nearStart"}
    /\ refine' = IF kind = "object" /\ park # "parking" THEN RefineStages ELSE 0
    /\ aim' = kind
    /\ AutoGoto(n) /\ watched' = (n = 2)
    /\ enabled' = TRUE
    /\ UNCHANGED guideVars

(* :MS#, :MA#, :MN#, and the meridian flip that limits start on their own. *)
(* A second goto aborts the first.  The first goto after a reset switches  *)
(* tracking on.                                                            *)
Slew ==
    /\ trusted
    /\ \/ /\ Goto /\ enabled /\ park # "parked"
          /\ AbortGoto
          /\ UNCHANGED <<refine, aim, leg, watched, guideVars, auto, power>>
       \/ /\ \E n \in 0 .. 2 : BeginGoto("object", n)
          /\ tracking' \in {tracking, TRUE}
    /\ UNCHANGED <<parkVars, homeVars, world>>

(* A goto or sync asked for in standby at home switches the motors on      *)
(* before anything else is looked at.                                      *)
SwitchOn ==
    /\ trusted /\ ~enabled
    /\ enabled' = TRUE
    /\ UNCHANGED <<gotoVars, guideVars, auto, parkVars, homeVars, tracking, world>>

(* :CM#, :CS#.  At home a sync switches tracking on.                       *)
Sync ==
    /\ trusted /\ Clear
    /\ enabled' = TRUE
    /\ tracking' \in {tracking, TRUE}
    /\ UNCHANGED <<gotoVars, guideVars, auto, parkVars, homeVars, world>>

-----------------------------------------------------------------------------
(* The end of a goto                                                       *)


(* Park::requestDone and requestAborted, then Home's, each only for a goto *)
(* on its behalf: so its state says.                                       *)
Finish(done) ==
    /\ stage' = "none" /\ refine' = 0 /\ aim' = "none" /\ leg' = Everywhere("none") /\ watched' = FALSE
    /\ park' = IF park # "parking" THEN park ELSE IF done THEN "parked" ELSE "unparked"
    /\ cached' = IF park = "parking" THEN park' ELSE cached
    /\ home' = "none"
    /\ resumed' = FALSE /\ parkTracked' = FALSE /\ homeTracked' = FALSE
    /\ enabled' = (enabled /\ park' # "parked")
    /\ tracking' = IF home = "homing" THEN ~done /\ homeTracked
                   ELSE IF park = "parking" THEN ~done /\ parkTracked
                   ELSE tracking
    /\ UNCHANGED <<auto, saved>>

(* The stage that follows, and how many axes set out on its leg.           *)
Leg(to, n) == stage' = to /\ AutoGoto(n) /\ UNCHANGED refine
NoLeg(to) == stage' = to /\ UNCHANGED <<refine, leg, auto>>

(* Variant: a refinement is counted where there is none left.              *)
AdvanceOnceMore ==
    /\ \/ stage = "waypointHome" /\ Leg("nearStart", 2)
       \/ stage = "nearStart" /\ NoLeg("near")
       \/ stage = "near" /\ stage' = "destination" /\ refine' = refine - 1 /\ AutoGoto(2)
    /\ UNCHANGED <<aim, watched, parkVars, homeVars, power>>

Advance ==
    /\ \/ \E n \in 0 .. 2 :
            \/ stage = "waypointAvoid" /\ Leg("waypointHome", n)
            \/ stage = "waypointHome" /\ Leg("nearStart", n)
            \/ /\ stage = "near" /\ refine >= 1
               /\ stage' = IF refine > 1 THEN "nearStart" ELSE "destination"
               /\ refine' = refine - 1
               /\ AutoGoto(n)
       \/ stage = "nearStart" /\ NoLeg(IF refine >= 1 THEN "nearWait" ELSE "near")
       \/ stage = "nearWait" /\ NoLeg("near")
       \/ stage = "near" /\ refine = 0 /\ NoLeg("destination")
    /\ UNCHANGED <<aim, watched, parkVars, homeVars, power>>

(* Variant: any end is an arrival.                                         *)
GotoPollArriving ==
    /\ watched
    /\ \/ /\ stage = "readyAbort" /\ Moving
          /\ stage' = "abort"
          /\ AbortSlews
          /\ UNCHANGED <<refine, aim, leg, watched, parkVars, homeVars, power>>
       \/ ~Moving /\ Advance
       \/ ~Moving /\ stage \in {"readyAbort", "abort", "destination"} /\ Finish(TRUE)
    /\ UNCHANGED <<guideVars, world>>

(* Goto::poll.  Only the stage tells it an abort from an arrival.          *)
GotoPoll ==
    /\ watched
    /\ \/ /\ stage = "readyAbort" /\ Moving
          /\ stage' = "abort"
          /\ AbortSlews
          /\ UNCHANGED <<refine, aim, leg, watched, parkVars, homeVars, power>>
       \/ ~Moving /\ stage \in {"readyAbort", "abort"} /\ Finish(FALSE)
       \/ ~Moving /\ Advance
       \/ ~Moving /\ stage = "destination" /\ Finish(TRUE)
    /\ UNCHANGED <<guideVars, world>>

(* The same handler, when it finds an axis beyond its forward limit.       *)
GotoAtLimit ==
    /\ "axis" \in Upsets
    /\ Goto /\ watched /\ stage # "abort"
    /\ \/ Moving /\ stage' = "abort" /\ AbortSlews
          /\ UNCHANGED <<refine, aim, leg, watched, parkVars, homeVars, power>>
       \/ ~Moving /\ Finish(FALSE)
    /\ UNCHANGED <<guideVars, world>>

-----------------------------------------------------------------------------
(* Home                                                                    *)

(* Home::reset when something is under way.                                *)
ResetRefused ==
    \/ Goto /\ AbortSlews /\ Cut({a \in Axes : auto[a] \notin {"none", "abort"}})
       /\ UNCHANGED guideVars
    \/ ~Goto /\ guide = "home" /\ GuideStop /\ UNCHANGED leg
    \/ ~Goto /\ guide \notin {"none", "home"} /\ UNCHANGED <<guideVars, auto, leg>>

(* The rest of it; an axis in motion or out of bounds only changes what    *)
(* it returns.                                                             *)
ResetAtHome(full) ==
    /\ ~Goto /\ guide = "none"
    /\ tracking' = FALSE
    /\ enabled' = (enabled /\ ~full)
    /\ UNCHANGED <<guideVars, auto, leg>>

(* Home::guideDone, after the guide has become idle.  It may end with a    *)
(* move of both axes by the offset of the switches.                        *)
GuideDone(found) ==
    /\ home' = "none" /\ homeTracked' = FALSE
    /\ tracking' = FALSE
    /\ enabled' \in {enabled, FALSE}
    /\ trusted' \in {trusted, trusted \/ found}
    /\ \E S \in SUBSET Axes :
            /\ S # {} => found /\ enabled' /\ trusted'
            /\ auto' = [a \in Axes |-> IF a \in S THEN "distance" ELSE "none"]

-----------------------------------------------------------------------------
(* Guide::poll                                                             *)

Active(g) == {a \in Axes : g.act[a] \in {"move", "rate"}}

(* Each axis that was told to stop and has, is done; each whose time is up *)
(* is told to stop.                                                        *)
PolledAxes(expired) ==
    LET over == {a \in Axes : act[a] = "break" /\ auto[a] = "none"}
        rest == [Guiding EXCEPT !.act = [a \in Axes |-> IF a \in over THEN "none" ELSE act[a]]]
    IN  IF expired = {} THEN rest ELSE Stopped(rest, expired, "end")

(* A spiral goes on with both axes or stops with one.                      *)
PolledSpiral(g) ==
    IF g.guide # "spiral" \/ Active(g) = {} THEN {g}
    ELSE IF Active(g) # Axes THEN {Stopped(g, Axes, "end")}
    ELSE {[g EXCEPT !.auto = f] : f \in AutoSlew(g.auto, {a \in Axes : g.auto[a] # "time"})}

(* The search for the home switches is over when both axes stand still:    *)
(* whatever stopped them, if not an abort, is taken for the switches.      *)
Searched(g) ==
    /\ g.guide \in {"home", "homeAbort"}
    /\ \A a \in Axes : g.auto[a] = "none"

GuidePoll(expired) ==
    /\ guide # "none"
    /\ expired \subseteq Active(Guiding)
    /\ \E g \in PolledSpiral(PolledAxes(expired)) :
          \/ /\ Searched(g)
             /\ guide' = "none" /\ act' = Everywhere("none")
             /\ GuideDone(g.guide = "home")
          \/ /\ ~Searched(g)
             /\ act' = g.act /\ auto' = g.auto
             /\ guide' = IF act' = Everywhere("none") THEN "none" ELSE g.guide
             /\ UNCHANGED <<homeVars, power, trusted>>
    /\ UNCHANGED <<gotoVars, parkVars, ready, fault, hasSense>>

-----------------------------------------------------------------------------
(* Commands that guide                                                     *)

(* Variant: a goto in progress is not looked at.                           *)
ValidateDuringGoto(accepted) ==
    /\ enabled' = TRUE
    /\ \/ UNCHANGED <<gotoVars, guideVars, auto>>
       \/ /\ park # "parked" /\ ~fault
          /\ accepted
          /\ UNCHANGED gotoVars

(* Guide::validate: the motors are switched on whatever comes of it.       *)
Validate(accepted) ==
    /\ enabled' = TRUE
    /\ \/ UNCHANGED <<gotoVars, guideVars, auto>>
       \/ /\ park # "parked" /\ Goto
          /\ AbortGoto /\ UNCHANGED <<refine, aim, leg, watched, guideVars, auto>>
       \/ /\ park # "parked" /\ ~Goto /\ ~fault
          /\ accepted
          /\ UNCHANGED gotoVars

(* :Mg (a pulse, at a rate the axis adds to its tracking) and :Mw and its  *)
(* like (a slew), on one axis.                                             *)
PulseGuide(a) ==
    /\ guide' = "pulse"
    /\ act' = [act EXCEPT ![a] = "rate"]
    /\ UNCHANGED auto

SlewGuide(a) ==
    /\ guide' = "guide"
    /\ act' = [act EXCEPT ![a] = IF @ = "rate" THEN "rate" ELSE "move"]
    /\ auto' \in AutoSlew(auto, {a} \ {b \in Axes : auto[b] = "distance"})

StartGuide(a) ==
    /\ guide \notin {"home", "homeAbort"}
    /\ Validate(PulseGuide(a) \/ SlewGuide(a))
    /\ UNCHANGED <<parkVars, homeVars, tracking, world>>

SpiralGuide ==
    /\ guide' = "spiral"
    /\ act' = Everywhere("move")
    /\ auto' \in AutoSlew(auto, Axes)

(* :Mp#.  Asked for during a spiral, it stops it.                          *)
StartSpiral ==
    /\ \/ guide = "spiral" /\ GuideStop /\ UNCHANGED <<gotoVars, enabled>>
       \/ /\ guide # "spiral" /\ act = Everywhere("none")
          /\ IF Moving THEN enabled' = TRUE /\ UNCHANGED <<gotoVars, guideVars, auto>>
                       ELSE Validate(SpiralGuide)
    /\ UNCHANGED <<parkVars, homeVars, tracking, world>>

(* :Q#, and :Qe# and its like.                                             *)
StopAll ==
    /\ AbortGoto /\ GuideStop
    /\ UNCHANGED <<refine, aim, leg, watched, parkVars, homeVars, power, world>>

StopAxis(a) ==
    /\ GuideBecomes(Stopped(Guiding, {a}, "end"))
    /\ UNCHANGED <<gotoVars, parkVars, homeVars, power, world>>

-----------------------------------------------------------------------------
(* Commands that home, park and unpark                                     *)

(* Home::request with home switches: a search, if nothing is in its way.   *)
SearchHome ==
    /\ act = Everywhere("none") /\ ~Moving /\ park # "parked" /\ ~fault
    /\ home' = "homing"
    /\ guide' = "home"
    /\ act' = Everywhere("move")
    /\ auto' \in AutoSlew(auto, Axes)
    /\ UNCHANGED gotoVars

(* Home::request without: a goto, to a target it takes back if refused.    *)
GotoHome ==
    \E n \in 0 .. 2 :
        /\ BeginGoto("home", n)
        /\ home' = IF n = 2 THEN "homing" ELSE "none"
        /\ UNCHANGED guideVars

(* Variant: the state is not taken back when the request is refused.       *)
HomewardRegardless ==
    /\ \/ hasSense /\ SearchHome
       \/ ~hasSense /\ GotoHome
       \/ home' = "homing" /\ UNCHANGED <<gotoVars, guideVars, auto>>
    /\ homeTracked' = tracking

(* Home::request once it has stopped the tracking and switched the motors  *)
(* on.                                                                     *)
Homeward ==
    /\ \/ hasSense /\ SearchHome
       \/ ~hasSense /\ GotoHome
       \/ UNCHANGED <<gotoVars, guideVars, auto, home>>
    /\ homeTracked' = (tracking /\ home' = "homing")

(* :hC#, and the automatic home at boot.                                   *)
MoveHome ==
    /\ trusted \/ hasSense
    /\ ready /\ ~Goto
    /\ \/ guide = "home" /\ GuideStop /\ UNCHANGED <<gotoVars, homeVars, power>>
       \/ /\ guide = "none"
          /\ tracking' = FALSE /\ enabled' = TRUE
          /\ Homeward
    /\ UNCHANGED <<parkVars, world>>

(* Park::reset and the end of Park::restore.                               *)
Unparked ==
    /\ park' = "unparked" /\ cached' = "unparked"
    /\ resumed' = FALSE /\ parkTracked' = FALSE
    /\ UNCHANGED saved

(* :hF#.  Whatever becomes of the reset, the mount counts as unparked.     *)
ResetHome ==
    /\ \/ ResetRefused /\ UNCHANGED power
       \/ ResetAtHome(TRUE)
    /\ Unparked
    /\ UNCHANGED <<stage, refine, aim, watched, homeVars, world>>

(* :A[n]#.  It resets at home, with the search first if there are          *)
(* switches, and switches tracking on whatever comes of that.              *)
AlignStart ==
    /\ tracking' = TRUE /\ enabled' = TRUE
    /\ \/ ~hasSense /\ trusted /\ ResetRefused /\ UNCHANGED <<stage, refine, aim, watched, homeVars>>
       \/ /\ hasSense /\ ready /\ ~Goto /\ guide = "home"
          /\ GuideStop /\ UNCHANGED <<gotoVars, homeVars>>
       \/ /\ hasSense /\ ready /\ ~Goto /\ guide = "none"
          /\ Homeward
       \/ UNCHANGED <<gotoVars, guideVars, auto, homeVars>>
    /\ UNCHANGED <<parkVars, world>>

(* :hP#.  A goto that is refused leaves no trace; one whose axes refuse    *)
(* goes on without being the park it was meant to be.                      *)
ParkMount ==
    /\ park = "unparked" /\ trusted /\ enabled
    /\ \E n \in 0 .. 2 :
          /\ BeginGoto("park", n)
          /\ park' = IF n = 2 THEN "parking" ELSE "unparked"
          /\ cached' = park'
          /\ tracking' = (tracking /\ n < 2)
          /\ parkTracked' = (tracking /\ n = 2)
    /\ UNCHANGED <<saved, resumed, homeVars, world>>

(* :hR#.  Home is the one other place a mount may be unparked from.        *)
Unpark ==
    /\ trusted /\ ready /\ ~fault
    /\ \/ ResetRefused /\ UNCHANGED <<parkVars, power>>
       \/ ResetAtHome(TRUE) /\ UNCHANGED parkVars
       \/ /\ ~Goto /\ guide = "none" /\ ~Moving
          /\ Unparked
          /\ tracking' = TRUE /\ enabled' = TRUE
          /\ UNCHANGED <<guideVars, auto, leg>>
    /\ UNCHANGED <<stage, refine, aim, watched, homeVars, world>>

(* The date and time become known.  A parked mount recovers its position.  *)
SetDateTime ==
    /\ ready' = TRUE
    /\ IF park = "parked" /\ trusted /\ ~fault
       THEN ResetAtHome(TRUE)
       ELSE UNCHANGED <<guideVars, auto, leg, power>>
    /\ UNCHANGED <<stage, refine, aim, watched, parkVars, homeVars, trusted, fault, hasSense>>

(* :Te# and :Td#.                                                          *)
TrackOn ==
    /\ park # "parked"
    /\ tracking' = TRUE /\ enabled' = TRUE
    /\ UNCHANGED <<gotoVars, guideVars, auto, parkVars, homeVars, world>>

TrackOff ==
    /\ tracking' = FALSE
    /\ UNCHANGED <<gotoVars, guideVars, auto, parkVars, homeVars, enabled, world>>

-----------------------------------------------------------------------------
(* What happens to the mount                                               *)

(* Limits::poll, where a limit is exceeded: the axes of S stop.            *)
LimitStop(S) ==
    /\ "axis" \in Upsets
    /\ AbortGoto
    /\ GuideBecomes(StopAxes(Guiding, S, "abort"))
    /\ tracking' \in {tracking, FALSE}
    /\ UNCHANGED <<refine, aim, leg, watched, parkVars, homeVars, enabled, world>>

Fault ==
    /\ "fault" \in Upsets
    /\ fault' = ~fault
    /\ UNCHANGED <<gotoVars, guideVars, auto, parkVars, homeVars, power,
                   trusted, ready, hasSense>>

(* Variant: only gotos are stopped.                                        *)
MountPollOnGoto ==
    /\ fault
    /\ trusted' = FALSE
    /\ IF Goto THEN AbortGoto ELSE UNCHANGED stage
    /\ UNCHANGED <<guideVars, auto, power, refine, aim, leg, watched, parkVars, homeVars, ready,
                   fault, hasSense>>

(* Mount::poll on a fault.                                                 *)
MountPoll ==
    /\ fault
    /\ trusted' = FALSE
    /\ \/ Goto /\ AbortGoto /\ UNCHANGED <<guideVars, auto, power>>
       \/ ~Goto /\ guide # "none" /\ GuideAbort /\ UNCHANGED <<stage, power>>
       \/ /\ ~Goto /\ guide = "none"
          /\ tracking' = FALSE /\ enabled' = FALSE
          /\ UNCHANGED <<stage, guideVars, auto>>
    /\ UNCHANGED <<refine, aim, leg, watched, parkVars, homeVars, ready, fault, hasSense>>

(* What was put is written back some time later, by a task of its own.     *)
WriteBack ==
    /\ saved # cached
    /\ saved' = cached
    /\ UNCHANGED <<gotoVars, guideVars, auto, park, cached, resumed, parkTracked, homeVars, power, world>>

(* The power fails and comes back: the park state is read from             *)
(* non-volatile memory, the rest starts afresh.                            *)
PowerLoss ==
    /\ "power" \in Upsets
    /\ stage' = "none" /\ refine' = 0 /\ aim' = "none" /\ leg' = Everywhere("none") /\ watched' = FALSE
    /\ guide' = "none" /\ act' = Everywhere("none") /\ auto' = Everywhere("none")
    /\ park' = saved /\ cached' = saved /\ resumed' = (saved = "parking") /\ parkTracked' = FALSE
    /\ home' = "none" /\ homeTracked' = FALSE
    /\ tracking' = FALSE /\ enabled' = FALSE
    /\ trusted' = TRUE /\ ready' = FALSE
    /\ UNCHANGED <<saved, fault, hasSense>>

Next ==
    \/ Slew \/ SwitchOn \/ Sync
    \/ MoveHome \/ ResetHome \/ AlignStart
    \/ ParkMount \/ Unpark \/ SetDateTime
    \/ TrackOn \/ TrackOff
    \/ StartSpiral \/ StopAll
    \/ \E a \in Axes : StartGuide(a) \/ StopAxis(a) \/ AxisPoll(a) \/ AxisCut(a)
    \/ GotoPoll \/ GotoAtLimit
    \/ \E expired \in SUBSET Axes : GuidePoll(expired)
    \/ \E S \in SUBSET Axes \ {{}} : LimitStop(S)
    \/ Fault \/ MountPoll \/ WriteBack \/ PowerLoss

(* The polls run on timers, that of a goto once it has a period.  A search *)
(* for the home switches is stopped when its time is up.                   *)
Fairness ==
    /\ \A a \in Axes : WF_vars(AxisPoll(a))
    /\ \A a \in Axes : WF_vars(fault /\ AxisCut(a))
    /\ WF_vars(GotoPoll) /\ WF_vars(MountPoll) /\ WF_vars(WriteBack)
    /\ WF_vars(GuidePoll({}))
    /\ WF_vars(guide = "home" /\ \E expired \in SUBSET Axes \ {{}} : GuidePoll(expired))

Spec == Init /\ [][Next]_vars /\ Fairness

-----------------------------------------------------------------------------
TypeOK ==
    /\ stage \in Stages /\ refine \in Nat
    /\ aim \in {"none", "object", "park", "home"}
    /\ leg \in [Axes -> {"none", "going", "arrived", "cut"}]
    /\ guide \in {"none", "pulse", "guide", "spiral", "home", "homeAbort"}
    /\ act \in [Axes -> {"none", "break", "move", "rate"}]
    /\ auto \in [Axes -> {"none", "abort", "end", "distance", "time"}]
    /\ {park, cached, saved} \subseteq {"unparked", "parking", "parked"}
    /\ home \in {"none", "homing"}
    /\ parkTracked \in BOOLEAN /\ homeTracked \in BOOLEAN
    /\ tracking \in BOOLEAN /\ enabled \in BOOLEAN
    /\ trusted \in BOOLEAN /\ ready \in BOOLEAN /\ fault \in BOOLEAN
    /\ hasSense \in BOOLEAN /\ watched \in BOOLEAN /\ resumed \in BOOLEAN


(* A parked mount is at rest: nothing moves it or is about to.             *)
ParkedAtRest == park = "parked" => ~Goto /\ guide = "none" /\ ~Moving

(* A home or park said to be on its way is: the state does not outlive the *)
(* move, or no later request would be heard (Park.cpp:89).  A park that was *)
(* under way when the power failed is ended by nothing but the next goto,  *)
(* :hF#, and :hR# at home.                                                 *)
InProgress ==
    /\ home = "homing" => Goto \/ guide \in {"home", "homeAbort"}
    /\ park = "parking" => resumed \/ (Goto /\ aim = "park")

(* But for what a power failure restores, the mount is recorded as parked  *)
(* at the end of a goto that went all its stages, with no axis still on    *)
(* its way (one that a limit or a fault has stopped counts as there), and, *)
(* unless the power failed during that very park, only of a goto to the    *)
(* park position.                                                          *)
ParkedThere ==
    [][park' = "parked" /\ park # "parked" /\ ~PowerLoss
         => /\ stage = "destination" /\ \A a \in Axes : leg[a] # "going"
            /\ resumed \/ aim = "park"]_vars

Activity == INSTANCE MountActivity WITH
    doing  <- IF Goto THEN IF watched THEN "goto" ELSE "adrift"
              ELSE IF guide # "none" THEN "guide" ELSE "rest",
    parked <- park = "parked",
    stored <- saved = "parked"

(* Gotos and guides exclude each other, none begins on a parked mount, and *)
(* a goto ends that both axes have begun.                                  *)
ImplementsActivity == Activity!ActivitySpec

(* A search for the home position ends.                                    *)
HomingEnds == home = "homing" ~> home # "homing"

(* A motor fault that stays brings both axes to rest for good.             *)
FaultStops == <>[]fault => <>[]~Moving

(* What :Q# relies on: nothing moves but on behalf of a goto or a guide.   *)
Attended == Moving => Goto \/ guide # "none"
=============================================================================

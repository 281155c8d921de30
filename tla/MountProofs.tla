----------------------------- MODULE MountProofs -----------------------------
(***************************************************************************)
(* Proofs about the firmware's moves (module Mount), for every number of   *)
(* refinement stages, with or without home switches, and whatever upsets.  *)
(* The inductive invariant says, beyond what the runs check, which of the  *)
(* axes' and guides' states go together.                                   *)
(***************************************************************************)
EXTENDS Mount, TLAPS

(* Gotos and guides exclude each other.                                    *)
Exclusive == Goto => guide = "none"

(* Without a guide on record no axis is guided.                            *)
Quiet == guide = "none" => \A a \in Axes : act[a] = "none"

(* A search for the home switches uses no rate, and does not lose an axis  *)
(* that still moves.                                                       *)
SearchOK ==
    guide \in {"home", "homeAbort"} =>
        /\ \E a \in Axes : act[a] # "none"
        /\ \A a \in Axes : act[a] # "rate" /\ (act[a] = "none" => auto[a] = "none")

(* An axis on a leg of a goto is driven, unless the goto is aborted.       *)
OnLeg ==
    Goto /\ stage # "abort" => \A a \in Axes : leg[a] = "going" => auto[a] = "distance"

(* Types, those of the switches apart.                                     *)
MoveTypes ==
    /\ stage \in Stages /\ refine \in Nat
    /\ aim \in {"none", "object", "park", "home"}
    /\ leg \in [Axes -> {"none", "going", "arrived", "cut"}]
    /\ guide \in {"none", "pulse", "guide", "spiral", "home", "homeAbort"}
    /\ act \in [Axes -> {"none", "break", "move", "rate"}]
    /\ auto \in [Axes -> {"none", "abort", "end", "distance", "time"}]
    /\ {park, cached, saved} \subseteq {"unparked", "parking", "parked"}
    /\ home \in {"none", "homing"}

Flags ==
    /\ parkTracked \in BOOLEAN /\ homeTracked \in BOOLEAN
    /\ tracking \in BOOLEAN /\ enabled \in BOOLEAN
    /\ trusted \in BOOLEAN /\ ready \in BOOLEAN /\ fault \in BOOLEAN
    /\ hasSense \in BOOLEAN /\ watched \in BOOLEAN /\ resumed \in BOOLEAN

(* Every change of the park state is put.                                  *)
ParkPut == cached = park

(* What the lemmas below show of each action.                              *)
Moves ==
    /\ MoveTypes /\ ParkPut /\ Exclusive /\ Quiet /\ SearchOK
    /\ ParkedAtRest /\ InProgress /\ OnLeg

IInv == Moves /\ Flags

-----------------------------------------------------------------------------
(* What stopping does to the guides                                        *)

GuideStates == {"none", "pulse", "guide", "spiral", "home", "homeAbort"}
ActStates == {"none", "break", "move", "rate"}
AutoStates == {"none", "abort", "end", "distance", "time"}

Guides == [guide : GuideStates, act : [Axes -> ActStates], auto : [Axes -> AutoStates]]

(* From g to r nothing was started, and no axis forgotten.                 *)
Calmer(r, g) ==
    /\ r \in Guides
    /\ r.guide = g.guide \/ (g.guide = "home" /\ r.guide = "homeAbort")
    /\ \A a \in Axes :
          /\ g.act[a] = "none" => r.act[a] = "none" /\ r.auto[a] = g.auto[a]
          /\ g.auto[a] = "none" => r.auto[a] = "none"
          /\ r.act[a] = "rate" => g.act[a] = "rate"
          /\ g.act[a] \in {"move", "break"} => r.act[a] # "none"

(* Stopping guides of some axes starts nothing (Guide::stopAxis1).         *)
LEMMA StopAxesCalms ==
    ASSUME NEW g \in Guides, NEW S \in SUBSET Axes, NEW how \in {"end", "abort"}
    PROVE  Calmer(StopAxes(g, S, how), g)
BY DEF Calmer, StopAxes, Slowed, Guides, ActStates, AutoStates, GuideStates

(* Nor does turning a search into an aborted one.                          *)
LEMMA AbortCalms ==
    ASSUME NEW g \in Guides, NEW S \in SUBSET Axes, g.guide = "home"
    PROVE  Calmer(StopAxes([g EXCEPT !.guide = "homeAbort"], S, "abort"), g)
BY DEF Calmer, StopAxes, Slowed, Guides, ActStates, AutoStates, GuideStates

(* How a command stops guides, that of the home search included.           *)
LEMMA StoppedCalms ==
    ASSUME NEW g \in Guides, NEW S \in SUBSET Axes, NEW how \in {"end", "abort"}
    PROVE  Calmer(Stopped(g, S, how), g)
<1>1. CASE g.guide = "home" /\ how = "end"
  BY <1>1, AbortCalms, Axes \in SUBSET Axes DEF Stopped
<1>2. CASE ~(g.guide = "home" /\ how = "end")
  BY <1>2, StopAxesCalms DEF Stopped
<1> QED BY <1>1, <1>2


(* An axis sent off by time is in one of the axes' states.                 *)
LEMMA AutoSlewTyped ==
    ASSUME NEW f \in [Axes -> AutoStates], NEW S \in SUBSET Axes, NEW r \in AutoSlew(f, S)
    PROVE  r \in [Axes -> AutoStates]
BY DEF AutoSlew, AutoStates

(* A record of the guides with other actions.                              *)
LEMMA WithAct ==
    ASSUME NEW g \in Guides, NEW f
    PROVE  [g EXCEPT !.act = f] = [guide |-> g.guide, act |-> f, auto |-> g.auto]
BY DEF Guides

(* A poll of the guides loses no axis of a search that still moves.        *)
LEMMA PolledSearchOK ==
    ASSUME Moves, NEW expired \in SUBSET Axes,
           NEW g \in PolledSpiral(PolledAxes(expired))
    PROVE  /\ g \in Guides
           /\ g.guide = guide \/ (guide = "home" /\ g.guide = "homeAbort")
           /\ g.guide \in {"home", "homeAbort"} =>
                  \A a \in Axes : g.act[a] # "rate" /\ (g.act[a] = "none" => g.auto[a] = "none")
<1> DEFINE over == {a \in Axes : act[a] = "break" /\ auto[a] = "none"}
           ended == [a \in Axes |-> IF a \in over THEN "none" ELSE act[a]]
           rest == [guide |-> guide, act |-> ended, auto |-> auto]
           P == PolledAxes(expired)
<1>1. P = IF expired = {} THEN rest ELSE Stopped(rest, expired, "end")
  <2>1. Guiding \in Guides
    BY DEF Guiding, Moves, MoveTypes, Guides, GuideStates, ActStates, AutoStates
  <2>2. Guiding.guide = guide /\ Guiding.auto = auto
    BY DEF Guiding
  <2>3. [Guiding EXCEPT !.act = ended] = rest
    BY <2>1, <2>2, WithAct
  <2> QED BY <2>3, Zenon DEF PolledAxes
<1>2. rest \in Guides
  BY DEF Moves, MoveTypes, Guides, GuideStates, ActStates, AutoStates
<1>3. P \in Guides /\ (P.guide = guide \/ (guide = "home" /\ P.guide = "homeAbort"))
  <2>1. CASE expired = {}
    BY <1>1, <1>2, <2>1
  <2>2. CASE expired # {}
    <3>1. Calmer(P, rest)
      BY <1>1, <1>2, <2>2, StoppedCalms
    <3> QED BY <3>1, Zenon DEF Calmer
  <2> QED BY <2>1, <2>2
<1>4. P.guide \in {"home", "homeAbort"} =>
          \A a \in Axes : P.act[a] # "rate" /\ (P.act[a] = "none" => P.auto[a] = "none")
  <2> SUFFICES ASSUME P.guide \in {"home", "homeAbort"}, NEW a \in Axes
               PROVE  P.act[a] # "rate" /\ (P.act[a] = "none" => P.auto[a] = "none")
    OBVIOUS
  <2>1. /\ rest.act[a] # "rate"
        /\ rest.act[a] = "none" => rest.auto[a] = "none"
    BY <1>3 DEF Moves, SearchOK
  <2>2. CASE expired = {}
    BY <1>1, <2>1, <2>2
  <2>3. CASE expired # {}
    <3>1. Calmer(P, rest)
      BY <1>1, <1>2, <2>3, StoppedCalms
    <3>2. rest.act[a] \in ActStates
      BY <1>2 DEF Guides
    <3> HIDE DEF P, rest
    <3> QED BY <2>1, <3>1, <3>2 DEF Calmer, ActStates
  <2> QED BY <2>2, <2>3
<1> HIDE DEF P
<1>5. CASE g = P
  BY <1>3, <1>4, <1>5
<1>6. CASE P.guide = "spiral" /\ g = Stopped(P, Axes, "end")
  <2>1. Calmer(g, P)
    BY <1>3, <1>6, StoppedCalms
  <2>2. g \in Guides /\ g.guide = "spiral"
    BY <1>6, <2>1 DEF Calmer
  <2> QED BY <1>3, <1>6, <2>2
<1>7. CASE P.guide = "spiral" /\ \E f \in AutoSlew(P.auto, {a \in Axes : P.auto[a] # "time"}) :
                                      g = [P EXCEPT !.auto = f]
  <2>1. PICK f \in AutoSlew(P.auto, {a \in Axes : P.auto[a] # "time"}) : g = [P EXCEPT !.auto = f]
    BY <1>7
  <2>2. P.auto \in [Axes -> AutoStates]
    BY <1>3 DEF Guides
  <2>3. f \in [Axes -> AutoStates]
    BY <2>2, AutoSlewTyped
  <2>4. g \in Guides /\ g.guide = "spiral"
    BY <1>3, <1>7, <2>1, <2>3 DEF Guides
  <2> QED BY <1>3, <1>7, <2>4
<1> QED BY <1>5, <1>6, <1>7 DEF PolledSpiral, P

-----------------------------------------------------------------------------
(* The invariant, action by action                                         *)

USE DEF gotoVars, guideVars, parkVars, homeVars, power, world

USE DEF Moves, MoveTypes, ParkPut, Exclusive, Quiet, SearchOK, ParkedAtRest, InProgress,
        OnLeg, Goto, Moving, Stages, Everywhere, Slowed

(* A mount that was switched on unparked is in a consistent state.         *)
LEMMA InitIInv == Init => IInv
<1>1. Init => Flags
  BY Zenon, SwitchesAssumption DEF Init, Flags
<1>2. Init => Moves
  BY DEF Init
<1> QED BY <1>1, <1>2 DEF IInv

(* A goto begins at rest, on axes that go or were refused.                 *)
LEMMA GotoBegins ==
    ASSUME Moves, NEW kind \in {"object", "park", "home"}, NEW n \in 0 .. 2, BeginGoto(kind, n)
    PROVE  /\ ~Goto /\ guide = "none" /\ park # "parked"
           /\ stage' \in {"waypointHome", "waypointAvoid", "nearStart"} /\ refine' \in Nat
           /\ aim' = kind /\ UNCHANGED guideVars
           /\ auto' \in [Axes -> {"none", "distance"}]
           /\ leg' \in [Axes -> {"going", "cut"}]
           /\ \A a \in Axes : leg'[a] = "going" => auto'[a] = "distance"
<1>1. /\ ~Goto /\ guide = "none" /\ park # "parked" /\ \A a \in Axes : auto[a] = "none"
      /\ stage' \in {"waypointHome", "waypointAvoid", "nearStart"}
      /\ aim' = kind /\ UNCHANGED guideVars /\ AutoGoto(n)
  BY DEF BeginGoto, Clear
<1>2. refine' \in Nat
  BY RefineAssumption DEF BeginGoto
<1> QED BY <1>1, <1>2 DEF AutoGoto

(* A goto, or the abort of the one under way, keeps the moves consistent.  *)
LEMMA SlewMoves ==
    ASSUME Moves, Slew
    PROVE  Moves'
<1>1. UNCHANGED <<parkVars, homeVars>>
  BY DEF Slew
<1>2. CASE Goto /\ AbortGoto /\ UNCHANGED <<refine, aim, leg, watched, guideVars, auto>>
  BY <1>1, <1>2 DEF AbortGoto
<1>3. CASE \E n \in 0 .. 2 : BeginGoto("object", n)
  <2>1. PICK n \in 0 .. 2 : BeginGoto("object", n)
    BY <1>3
  <2> QED BY <1>1, <2>1, GotoBegins
<1> QED BY <1>2, <1>3 DEF Slew

(* A request to home is taken back when nothing is set in motion.          *)
LEMMA HomewardMoves ==
    ASSUME Moves, ~Goto, guide = "none", Homeward, UNCHANGED parkVars
    PROVE  Moves'
<1>1. CASE SearchHome
  <2>1. auto' \in [Axes -> AutoStates]
    BY <1>1, AutoSlewTyped, Axes \in SUBSET Axes DEF SearchHome, AutoStates
  <2>2. /\ park # "parked" /\ home' = "homing" /\ guide' = "home"
        /\ act' = [a \in Axes |-> "move"] /\ UNCHANGED gotoVars
    BY <1>1 DEF SearchHome
  <2> QED BY <2>1, <2>2, 1 \in Axes DEF AutoStates, Axes
<1>2. CASE GotoHome
  <2>1. PICK n \in 0 .. 2 :
            BeginGoto("home", n) /\ home' = IF n = 2 THEN "homing" ELSE "none"
    BY <1>2 DEF GotoHome
  <2> QED BY <2>1, GotoBegins
<1>3. CASE UNCHANGED <<gotoVars, guideVars, auto, home>>
  BY <1>3
<1> QED BY <1>1, <1>2, <1>3 DEF Homeward

(* Stopping the guides never leaves a search without an axis to wait for.  *)
LEMMA StopMoves ==
    ASSUME Moves, GuideStop, UNCHANGED <<gotoVars, home, parkVars>>
    PROVE  Moves'
BY DEF GuideStop, GuideBecomes, Guiding, Stopped, StopAxes

(* A reset at home that finds a move under way only stops it.              *)
LEMMA RefusedMoves ==
    ASSUME Moves, ResetRefused, UNCHANGED <<stage, refine, aim, watched, home, parkVars>>
    PROVE  Moves'
<1>1. CASE Goto
  BY <1>1 DEF ResetRefused, AbortSlews, Cut
<1>2. CASE ~Goto /\ guide = "home"
  BY <1>2, StopMoves DEF ResetRefused
<1>3. CASE ~Goto /\ guide # "home"
  BY <1>3 DEF ResetRefused
<1> QED BY <1>1, <1>2, <1>3

(* :hC# keeps the moves consistent.                                        *)
LEMMA MoveHomeMoves ==
    ASSUME Moves, MoveHome
    PROVE  Moves'
BY StopMoves, HomewardMoves DEF MoveHome

(* :A[n]# does, whatever comes of the search or the reset.                 *)
LEMMA AlignStartMoves ==
    ASSUME Moves, AlignStart
    PROVE  Moves'
<1>1. CASE ResetRefused /\ UNCHANGED <<stage, refine, aim, watched, homeVars>>
  BY <1>1, RefusedMoves DEF AlignStart
<1>2. CASE GuideStop /\ UNCHANGED <<gotoVars, homeVars>>
  BY <1>2, StopMoves DEF AlignStart
<1>3. CASE ~Goto /\ guide = "none" /\ Homeward
  BY <1>3, HomewardMoves DEF AlignStart
<1>4. CASE UNCHANGED <<gotoVars, guideVars, auto, homeVars>>
  BY <1>4 DEF AlignStart
<1> QED BY <1>1, <1>2, <1>3, <1>4, Zenon DEF AlignStart

(* Syncs and what they switch on move nothing.                             *)
LEMMA SwitchOnMoves ==
    ASSUME Moves, SwitchOn \/ Sync
    PROVE  Moves'
BY DEF SwitchOn, Sync, Clear

(* :hF# may unpark the mount, which it does not move.                      *)
LEMMA ResetHomeMoves ==
    ASSUME Moves, ResetHome
    PROVE  Moves'
BY DEF ResetHome, Unparked, ResetRefused, ResetAtHome, AbortSlews, Cut, GuideStop,
       GuideBecomes, Guiding, Stopped, StopAxes

(* :hP# says parking only of a goto that was begun.                        *)
LEMMA ParkMountMoves ==
    ASSUME Moves, ParkMount
    PROVE  Moves'
BY DEF ParkMount, BeginGoto, Clear, AutoGoto

(* :hR# leaves a mount at rest, or the move under way to its end.          *)
LEMMA UnparkMoves ==
    ASSUME Moves, Unpark
    PROVE  Moves'
BY DEF Unpark, Unparked, ResetRefused, ResetAtHome, AbortSlews, Cut, GuideStop,
       GuideBecomes, Guiding, Stopped, StopAxes

(* The date and time change a mount at rest only.                          *)
LEMMA SetDateTimeMoves ==
    ASSUME Moves, SetDateTime
    PROVE  Moves'
BY DEF SetDateTime, ResetAtHome

(* Tracking is not a move.                                                 *)
LEMMA TrackMoves ==
    ASSUME Moves, TrackOn \/ TrackOff
    PROVE  Moves'
BY DEF TrackOn, TrackOff

(* A spiral begins on an unparked mount without a goto.                    *)
LEMMA StartSpiralMoves ==
    ASSUME Moves, StartSpiral
    PROVE  Moves'
BY DEF StartSpiral, SpiralGuide, GuideStop, GuideBecomes, Guiding, Stopped,
       StopAxes, Validate, AbortGoto, AutoSlew

(* So does a guide, never during a search for home.                        *)
LEMMA StartGuideMoves ==
    ASSUME Moves, NEW a \in Axes, StartGuide(a)
    PROVE  Moves'
BY DEF StartGuide, PulseGuide, SlewGuide, Validate, AbortGoto, AutoSlew

(* Stop commands keep the moves consistent.                                *)
LEMMA StopAllMoves ==
    ASSUME Moves, NEW a \in Axes, StopAll \/ StopAxis(a)
    PROVE  Moves'
BY DEF StopAll, StopAxis, AbortGoto, GuideStop, GuideBecomes, Guiding,
       Stopped, StopAxes

(* What an axis does by itself is recorded in its leg of the goto.         *)
LEMMA AxisMoves ==
    ASSUME Moves, NEW a \in Axes, AxisPoll(a) \/ AxisCut(a)
    PROVE  Moves'
BY DEF AxisPoll, AxisCut, Cut

(* A goto at its end is neither parking nor homing any more.               *)
LEMMA GotoPollMoves ==
    ASSUME Moves, GotoPoll \/ GotoAtLimit
    PROVE  Moves'
BY DEF GotoPoll, GotoAtLimit, AbortSlews, Finish, Advance, Leg, NoLeg,
       AutoGoto

(* Limits stop axes and abort gotos, and end neither.                      *)
LEMMA LimitStopMoves ==
    ASSUME Moves, NEW S \in SUBSET Axes, LimitStop(S)
    PROVE  Moves'
BY DEF LimitStop, AbortGoto, GuideBecomes, Guiding, StopAxes

(* Nor does a motor fault.                                                 *)
LEMMA MountPollMoves ==
    ASSUME Moves, Fault \/ MountPoll
    PROVE  Moves'
BY DEF Fault, MountPoll, AbortGoto, GuideAbort, GuideBecomes, Guiding,
       StopAxes

(* After a power failure nothing is under way, and the mount parked or not *)
(* as was written last.                                                    *)
LEMMA PowerLossMoves ==
    ASSUME Moves, WriteBack \/ PowerLoss
    PROVE  Moves'
<1>1. CASE WriteBack
  BY <1>1 DEF WriteBack
<1>2. CASE PowerLoss
  <2>1. park' = "parking" => resumed'
    BY <1>2, Zenon DEF PowerLoss
  <2> QED BY <1>2, <2>1 DEF PowerLoss
<1> QED BY <1>1, <1>2

HIDE DEF Moves, MoveTypes, ParkPut, Exclusive, Quiet, SearchOK, ParkedAtRest, InProgress,
         OnLeg, Goto, Moving, Stages, Everywhere, Slowed

(* A search for home that is over leaves neither guide nor homing.         *)
LEMMA GuidePollMoves ==
    ASSUME Moves, NEW expired \in SUBSET Axes, GuidePoll(expired)
    PROVE  Moves'
<1>1. guide # "none" /\ ~Goto /\ park # "parked"
  BY DEF GuidePoll, Moves, Exclusive, ParkedAtRest
<1>2. PICK g \in PolledSpiral(PolledAxes(expired)) :
          \/ /\ Searched(g)
             /\ guide' = "none" /\ act' = Everywhere("none")
             /\ GuideDone(g.guide = "home")
          \/ /\ ~Searched(g)
             /\ act' = g.act /\ auto' = g.auto
             /\ guide' = IF act' = Everywhere("none") THEN "none" ELSE g.guide
             /\ UNCHANGED <<homeVars, power, trusted>>
  BY DEF GuidePoll
<1>3. UNCHANGED <<gotoVars, parkVars>>
  BY DEF GuidePoll
<1>4. CASE Searched(g)
  <2>1. guide' = "none" /\ act' = Everywhere("none") /\ GuideDone(g.guide = "home")
    BY <1>2, <1>4
  <2>2. home' = "none" /\ auto' \in [Axes -> {"none", "distance"}]
    BY <2>1 DEF GuideDone
  <2> QED BY <1>1, <1>3, <2>1, <2>2
          DEF Moves, MoveTypes, Everywhere, ParkPut, Exclusive, Quiet, SearchOK, ParkedAtRest,
              InProgress, OnLeg, Goto
<1>5. CASE ~Searched(g)
  <2>1. /\ act' = g.act /\ auto' = g.auto
        /\ guide' = IF act' = Everywhere("none") THEN "none" ELSE g.guide
        /\ UNCHANGED homeVars
    BY <1>2, <1>5
  <2>2. /\ g \in Guides
        /\ g.guide = guide \/ (guide = "home" /\ g.guide = "homeAbort")
        /\ g.guide \in {"home", "homeAbort"} =>
               \A a \in Axes : g.act[a] # "rate" /\ (g.act[a] = "none" => g.auto[a] = "none")
    BY PolledSearchOK
  <2> QED BY <1>1, <1>3, <1>5, <2>1, <2>2
          DEF Searched, Guides, GuideStates, ActStates, AutoStates, Moves, MoveTypes, Everywhere,
              ParkPut, Exclusive, Quiet, SearchOK, ParkedAtRest, InProgress, OnLeg, Goto
<1> QED BY <1>4, <1>5

(* The switches keep their type.  They are left out of the lemmas above,    *)
(* for the prover that does these keeps Booleans apart.                     *)
LEMMA FlagsKept == Flags /\ Moves /\ Next => Flags'
<1> SUFFICES ASSUME Flags, Moves, Next PROVE Flags'
  OBVIOUS
<1>1. CASE Slew 
   BY <1>1, Zenon DEF Slew, BeginGoto, Flags
<1>2. CASE SwitchOn \/ Sync
   BY <1>2, Zenon DEF SwitchOn, Sync, Flags
<1>3. CASE AlignStart \/ MoveHome
   BY <1>3, Zenon DEF AlignStart, MoveHome, Homeward, SearchHome, GotoHome, BeginGoto, Flags
<1>4. CASE ResetHome \/ Unpark \/ SetDateTime
   BY <1>4, Zenon DEF ResetHome, Unpark, Unparked, SetDateTime, ResetAtHome, Flags
<1>5. CASE ParkMount
   BY <1>5, Zenon DEF ParkMount, BeginGoto, Flags
<1>6. CASE TrackOn \/ TrackOff
   BY <1>6, Zenon DEF TrackOn, TrackOff, Flags
<1>7. CASE StartSpiral \/ StopAll
   BY <1>7, Zenon DEF StartSpiral, StopAll, Validate, Flags
<1>8. CASE \E a \in Axes : StartGuide(a) \/ StopAxis(a) \/ AxisPoll(a) \/ AxisCut(a)
   BY <1>8, Zenon DEF StartGuide, Validate, StopAxis, AxisPoll, AxisCut, Flags
<1>9. CASE GotoPoll \/ GotoAtLimit
   BY <1>9, Zenon DEF GotoPoll, GotoAtLimit, Finish, Advance, Flags
<1>10. CASE \E expired \in SUBSET Axes : GuidePoll(expired)
   BY <1>10, Zenon DEF GuidePoll, GuideDone, Flags
<1>11. CASE \E S \in SUBSET Axes \ {{}} : LimitStop(S)
   BY <1>11, Zenon DEF LimitStop, Flags
<1>12. CASE Fault \/ MountPoll \/ WriteBack \/ PowerLoss
   BY <1>12, Zenon DEF Fault, MountPoll, WriteBack, PowerLoss, Flags
<1> QED BY <1>1, <1>2, <1>3, <1>4, <1>5, <1>6, <1>7, <1>8, <1>9, <1>10, <1>11, <1>12 DEF Next

(* Every step keeps the moves consistent.                                  *)
LEMMA NextMoves == Moves /\ [Next]_vars => Moves'
<1> SUFFICES ASSUME Moves, [Next]_vars PROVE Moves'
  OBVIOUS
<1>1. CASE UNCHANGED vars
  BY <1>1 DEF vars, Moves, MoveTypes, ParkPut, Exclusive, Quiet, SearchOK, ParkedAtRest,
              InProgress, OnLeg, Goto, Moving
<1>2. CASE \E a \in Axes : StartGuide(a) \/ StopAxis(a) \/ AxisPoll(a) \/ AxisCut(a)
  BY <1>2, StartGuideMoves, StopAllMoves, AxisMoves
<1>3. CASE \E expired \in SUBSET Axes : GuidePoll(expired)
  BY <1>3, GuidePollMoves
<1>4. CASE \E S \in SUBSET Axes \ {{}} : LimitStop(S)
  BY <1>4, LimitStopMoves
<1>5. StopAll => Moves'
  BY StopAllMoves, 1 \in Axes DEF Axes
<1>6. CASE \/ Slew \/ SwitchOn \/ Sync \/ MoveHome \/ ResetHome \/ AlignStart
           \/ ParkMount \/ Unpark \/ SetDateTime \/ TrackOn \/ TrackOff \/ StartSpiral \/ StopAll
           \/ GotoPoll \/ GotoAtLimit \/ Fault \/ MountPoll \/ WriteBack \/ PowerLoss
  BY <1>5, <1>6, SlewMoves, SwitchOnMoves, MoveHomeMoves, ResetHomeMoves, AlignStartMoves,
     ParkMountMoves, UnparkMoves, SetDateTimeMoves, TrackMoves, StartSpiralMoves, GotoPollMoves,
     MountPollMoves, PowerLossMoves
<1> QED BY <1>1, <1>2, <1>3, <1>4, <1>6 DEF Next

(* Every step keeps the inductive invariant.                               *)
LEMMA Inductive == IInv /\ [Next]_vars => IInv'
<1> SUFFICES ASSUME IInv, [Next]_vars PROVE IInv'
  OBVIOUS
<1>1. Moves'
  BY NextMoves DEF IInv
<1>2. Flags'
  <2>1. CASE UNCHANGED vars
    BY <2>1 DEF vars, IInv, Flags
  <2> QED BY <2>1, FlagsKept DEF IInv
<1> QED BY <1>1, <1>2 DEF IInv

(* The inductive invariant holds in every state the firmware reaches.      *)
THEOREM Invariance == Spec => []IInv
<1> QED BY InitIInv, Inductive, PTL DEF Spec

(* Every variable has its type, for any number of refinement stages.       *)
THEOREM Typed == Spec => []TypeOK
<1>1. IInv => TypeOK
  BY DEF IInv, Moves, MoveTypes, Flags, TypeOK
<1> QED BY <1>1, Invariance, PTL

(* A parked mount has no goto, no guide and no axis in motion.             *)
THEOREM ParkedRests == Spec => []ParkedAtRest
<1>1. IInv => ParkedAtRest
  BY DEF IInv, Moves
<1> QED BY <1>1, Invariance, PTL

(* The states homing and parking do not outlive the moves they stand for   *)
(* (Home::requestAborted, Park::requestAborted).                           *)
THEOREM MovesInProgress == Spec => []InProgress
<1>1. IInv => InProgress
  BY DEF IInv, Moves
<1> QED BY <1>1, Invariance, PTL

(* Only a goto's last stage, or the power coming back, records the mount   *)
(* as parked.                                                              *)
LEMMA NextParksThere ==
    ASSUME Moves, [Next]_vars, park' = "parked", park # "parked", ~PowerLoss
    PROVE  /\ stage = "destination" /\ \A a \in Axes : leg[a] # "going"
           /\ resumed \/ aim = "park"
<1>1. GotoPoll /\ ~Moving /\ stage = "destination" /\ Finish(TRUE)
  BY Zenon DEF vars, Moves, Next, Slew, SwitchOn, Sync, MoveHome, ResetHome, Unparked,
               AlignStart, ParkMount, Unpark,
         SetDateTime, TrackOn, TrackOff, StartSpiral, StopAll, StartGuide, StopAxis, AxisPoll,
         AxisCut, GotoPoll, GotoAtLimit, Finish, Advance, GuidePoll, LimitStop, Fault, MountPoll,
         WriteBack
<1>2. park = "parking"
  BY <1>1 DEF Finish
<1> QED BY <1>1, <1>2 DEF Moves, MoveTypes, InProgress, OnLeg, Goto, Moving

(* But for what a power failure restores, a mount recorded as parked has   *)
(* been through every stage of a goto, with no axis still on its way, and  *)
(* of one to the park position unless the power failed during the park.    *)
THEOREM ParksThere == Spec => ParkedThere
<1>1. IInv /\ [Next]_vars
      => [park' = "parked" /\ park # "parked" /\ ~PowerLoss
          => /\ stage = "destination" /\ \A a \in Axes : leg[a] # "going"
             /\ resumed \/ aim = "park"]_vars
  BY NextParksThere DEF IInv
<1> QED BY <1>1, Invariance, PTL DEF Spec, ParkedThere

-----------------------------------------------------------------------------
(* The firmware implements MountActivity                                   *)

(* Every step is one of MountActivity or changes nothing it speaks of.     *)
LEMMA Acts ==
    ASSUME Moves, [Next]_vars
    PROVE  [Activity!ActivityNext]_(Activity!activity)
<1> USE DEF Activity!ActivityNext, Activity!activity, Activity!Begin, Activity!EndGoto,
            Activity!EndGuide, Activity!Restore, Activity!Store, Activity!Reboot
<1> USE DEF Moves, MoveTypes, ParkPut, Exclusive, Goto, ParkedAtRest
<1>1. CASE UNCHANGED vars
  BY <1>1 DEF vars
<1>2. CASE Slew
  <2>1. CASE Goto /\ AbortGoto /\ UNCHANGED <<refine, aim, leg, watched, guideVars, auto, power>>
    BY <1>2, <2>1 DEF Slew, AbortGoto
  <2>2. CASE \E n \in 0 .. 2 : BeginGoto("object", n)
    BY <1>2, <2>2 DEF Slew, BeginGoto, Clear
  <2> QED BY <1>2, <2>1, <2>2, Zenon DEF Slew
<1>3. CASE SwitchOn \/ Sync
  <2>1. UNCHANGED <<gotoVars, guideVars, parkVars>>
    BY <1>3, Zenon DEF SwitchOn, Sync
  <2> QED BY <2>1
<1>4. CASE MoveHome
  BY <1>4 DEF MoveHome, GuideStop, GuideBecomes, Guiding, Stopped, StopAxes, Homeward,
              SearchHome, GotoHome, BeginGoto, Clear
<1>5. CASE ResetHome
  BY <1>5 DEF ResetHome, Unparked, ResetRefused, ResetAtHome, GuideStop, GuideBecomes, Guiding, Stopped,
              StopAxes
<1>6. CASE AlignStart
  BY <1>6 DEF AlignStart, ResetRefused, GuideStop, GuideBecomes, Guiding, Stopped, StopAxes,
              Homeward, SearchHome, GotoHome, BeginGoto, Clear
<1>7. CASE ParkMount
  BY <1>7 DEF ParkMount, BeginGoto, Clear
<1>8. CASE Unpark
  BY <1>8 DEF Unpark, Unparked, ResetRefused, ResetAtHome, GuideStop, GuideBecomes, Guiding, Stopped, StopAxes
<1>9. CASE SetDateTime
  BY <1>9 DEF SetDateTime, ResetAtHome
<1>10. CASE TrackOn \/ TrackOff
  BY <1>10 DEF TrackOn, TrackOff
<1>11. CASE StartSpiral
  BY <1>11 DEF StartSpiral, SpiralGuide, Validate, AbortGoto, GuideStop, GuideBecomes, Guiding,
               Stopped, StopAxes
<1>12. CASE StopAll
  BY <1>12 DEF StopAll, AbortGoto, GuideStop, GuideBecomes, Guiding, Stopped, StopAxes
<1>13. CASE \E a \in Axes : StartGuide(a) \/ StopAxis(a) \/ AxisPoll(a) \/ AxisCut(a)
  BY <1>13 DEF StartGuide, PulseGuide, SlewGuide, Validate, AbortGoto, StopAxis, AxisPoll,
               AxisCut, GuideBecomes, Guiding, Stopped, StopAxes
<1>14. CASE GotoPoll \/ GotoAtLimit
  BY <1>14 DEF GotoPoll, GotoAtLimit, Finish, Advance, Leg, NoLeg
<1>15. CASE \E expired \in SUBSET Axes : GuidePoll(expired)
  BY <1>15 DEF GuidePoll
<1>16. CASE \E S \in SUBSET Axes \ {{}} : LimitStop(S)
  BY <1>16 DEF LimitStop, AbortGoto, GuideBecomes, Guiding, StopAxes
<1>17. CASE Fault \/ MountPoll
  BY <1>17 DEF Fault, MountPoll, AbortGoto, GuideAbort, GuideBecomes, Guiding, StopAxes
<1>18. CASE WriteBack \/ PowerLoss
  BY <1>18 DEF WriteBack, PowerLoss
<1> QED BY <1>1, <1>2, <1>3, <1>4, <1>5, <1>6, <1>7, <1>8, <1>9, <1>10, <1>11, <1>12,
           <1>13, <1>14, <1>15, <1>16, <1>17, <1>18, Zenon DEF Next

(* Gotos and guides exclude each other and begin on an unparked mount at   *)
(* rest: the safety part of ImplementsActivity, for every constant.        *)
THEOREM ActsAsPromised ==
    Spec => Activity!ActivityInit /\ [][Activity!ActivityNext]_(Activity!activity)
<1>1. Init => Activity!ActivityInit
  BY DEF Init, Activity!ActivityInit, Goto
<1>2. IInv /\ [Next]_vars => [Activity!ActivityNext]_(Activity!activity)
  BY Acts DEF IInv
<1> QED BY <1>1, <1>2, Invariance, PTL DEF Spec
=============================================================================

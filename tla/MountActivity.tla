---------------------------- MODULE MountActivity ----------------------------
(***************************************************************************)
(* What the mount's firmware promises about the moves it makes: one at a   *)
(* time, each begun at rest and on a mount that is not parked, each goto   *)
(* with an end unless it went wrong at its beginning.  Only the end of a   *)
(* goto, or the power coming back, can leave the mount parked.             *)
(***************************************************************************)
VARIABLES
    doing,      \* "rest", "goto", "guide", or a goto that is "adrift"
    parked,
    stored      \* what the power coming back makes of parked

activity == <<doing, parked, stored>>

ActivityInit == doing = "rest" /\ parked = FALSE /\ stored = FALSE

Begin(what) ==
    /\ doing = "rest" /\ ~parked
    /\ doing' = what
    /\ UNCHANGED <<parked, stored>>

EndGoto ==
    /\ doing = "goto"
    /\ doing' = "rest"
    /\ parked' \in BOOLEAN
    /\ UNCHANGED stored

EndGuide ==
    /\ doing = "guide"
    /\ doing' = "rest"
    /\ UNCHANGED <<parked, stored>>

Restore ==
    /\ parked
    /\ parked' = FALSE
    /\ UNCHANGED <<doing, stored>>

Store ==
    /\ stored' = parked
    /\ UNCHANGED <<doing, parked>>

Reboot ==
    /\ doing' = "rest" /\ parked' = stored
    /\ UNCHANGED stored

ActivityNext ==
    \/ \E what \in {"goto", "guide", "adrift"} : Begin(what)
    \/ EndGoto \/ EndGuide \/ Restore \/ Store \/ Reboot

ActivitySpec == ActivityInit /\ [][ActivityNext]_activity /\ WF_activity(EndGoto)
=============================================================================

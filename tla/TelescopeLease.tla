--------------------------- MODULE TelescopeLease ---------------------------
(***************************************************************************)
(* What the services promise about the use of the telescope: it has at     *)
(* most one use at a time, and a slew belongs to the client that started   *)
(* it.  Guiding and parking are uses that nothing ends.                    *)
(***************************************************************************)
CONSTANT Clients

VARIABLES
    use,        \* what the telescope is used for
    holders     \* the clients that slew it: one at most

lease == <<use, holders>>

Init == use = "free" /\ holders = {}

Take(c) ==
    /\ use = "free" /\ holders = {}
    /\ use' = "slew" /\ holders' = {c}

Free(c) ==
    /\ use = "slew" /\ holders = {c}
    /\ use' = "free" /\ holders' = {}

Reserve ==
    /\ use = "free"
    /\ use' \in {"guide", "focus", "park"}
    /\ UNCHANGED holders

Release ==
    /\ use = "focus"
    /\ use' = "free"
    /\ UNCHANGED holders

Next ==
    \/ \E c \in Clients : Take(c) \/ Free(c)
    \/ Reserve
    \/ Release
=============================================================================

----------------------------- MODULE NvPromise -----------------------------
(***************************************************************************)
(* What the firmware's components rely on when they keep their settings in *)
(* non-volatile storage (Nv.h, NvKvPartition16.h): a setting is what was   *)
(* last put under its name, whatever is put under other names, and once it *)
(* is written back it outlives any reset, until the storage is formatted.  *)
(* What it promises nothing about is a store in which a failure has left   *)
(* two settings in each other's way, until a failure or a start ends that. *)
(***************************************************************************)
CONSTANTS Key, Value, None

VARIABLES
  now,      \* now[k]: the value a get of k returns, or None
  sure,     \* the keys whose value outlives a power failure
  asked,    \* a format of the storage is due or under way
  void      \* the settings are in each other's way

vars == <<now, sure, asked, void>>

Init == now = [k \in Key |-> None] /\ sure = {} /\ asked = TRUE /\ void = FALSE

(* A component puts a value, as its new setting or as its default.         *)
Put(k) == /\ now'[k] \in Value[k]
          /\ \A j \in Key \ {k} : now'[j] = now[j]
          /\ sure \ {k} \subseteq sure'
          /\ UNCHANGED asked

(* Values are written back, and with them what was asked for.              *)
WriteBack == /\ UNCHANGED now
             /\ sure \subseteq sure'

(* Power fails, or the firmware is reset: what was not written back may    *)
(* be lost or be as it was, but is never made up of parts.                 *)
Fail == /\ \A k \in Key : now'[k] \in Value[k] \cup {None}
        /\ \A k \in sure : now'[k] = now[k]
        /\ sure \subseteq sure'

(* A format clears every setting, and happens only when it was asked for.  *)
Clear == /\ asked
         /\ now' = [k \in Key |-> None]
         /\ sure' \in SUBSET Key

(* A format is asked for.                                                  *)
Ask == UNCHANGED <<now, sure>>

Next == void' \/ WriteBack \/ (\E k \in Key : Put(k)) \/ Fail \/ Clear \/ Ask

Spec == Init /\ [][Next]_vars
=============================================================================

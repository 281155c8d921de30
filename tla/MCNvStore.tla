----------------------------- MODULE MCNvStore -----------------------------
(* Two settings, one of them with two data blocks at times; their blocks   *)
(* hold equal bytes more often than not. The part in the slot of "park"    *)
(* tells its values apart as its data blocks do, so that a mixture of two  *)
(* puts is a value nobody put.                                             *)
EXTENDS NvStore

MCKey == {"park", "site"}
V(h, b) == [head |-> h, body |-> b]
MCDefault == [k \in MCKey |-> V(0, <<0>>)]
MCBefore == [k \in MCKey |-> IF k = "park" THEN {"site"} ELSE {}]
MCValue ==
  [k \in MCKey |-> {MCDefault[k]} \cup (IF k = "park" THEN {V(1, <<1, 0>>)} ELSE {})]
=============================================================================

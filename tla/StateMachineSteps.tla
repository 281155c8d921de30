-------------------------- MODULE StateMachineSteps --------------------------
(***************************************************************************)
(* requestTransition at the level of its loads and stores of state_ and    *)
(* owner_, which are plain members without a lock, although the web server *)
(* runs its handlers on a pool of threads.  Every interleaving of the      *)
(* loads and stores of two calls is an outcome a build can produce.        *)
(*                                                                         *)
(* The operators are the steps of one call; the module that extends this   *)
(* one says who calls, with which arguments, and what the answer decides.  *)
(***************************************************************************)
EXTENDS StateMachine

CONSTANT Clients    \* the threads that call into the services

VARIABLES
    at,         \* where each client is in requestTransition
    raced       \* whether a call has stored under another's loads (history)

request == <<state, owner, at, raced>>

(* A call is "out" until its first load and again once it has returned.    *)
Places == {"out", "compareOwner", "guard", "source", "storeState", "storeOwner"}

StepsInit ==
    /\ MachineInit
    /\ at = [c \in Clients |-> "out"]
    /\ raced = FALSE

Proceeds(c, from, to) == at[c] = from /\ at' = [at EXCEPT ![c] = to]

(* current_owner() != Owner::Unknown.  A load between the two stores of    *)
(* another call is a race.                                                 *)
ReadOwner(c) ==
    /\ Proceeds(c, "out", IF owner = "Unknown" THEN "guard" ELSE "compareOwner")
    /\ raced' = (raced \/ \E d \in Clients : at[d] = "storeOwner")
    /\ UNCHANGED machine

(* Variant: the second test is left out.                                   *)
CompareOwnerWithNobody(c, who) ==
    /\ Proceeds(c, "compareOwner", "guard")
    /\ UNCHANGED <<machine, raced>>

(* ... && current_owner() != owner: owner_ is loaded a second time.        *)
CompareOwner(c, who) ==
    /\ Proceeds(c, "compareOwner", IF owner = who THEN "guard" ELSE "out")
    /\ UNCHANGED <<machine, raced>>

(* Variant: PARKING may be left.                                           *)
GuardAgainstError(c) ==
    /\ Proceeds(c, "guard", IF state = "ERROR" THEN "out" ELSE "source")
    /\ UNCHANGED <<machine, raced>>

(* The states nothing leaves.                                              *)
Guard(c) ==
    /\ Proceeds(c, "guard", IF state \in {"ERROR", "PARKING"} THEN "out" ELSE "source")
    /\ UNCHANGED <<machine, raced>>

(* The test in the case of the requested state.                            *)
Source(c, next) ==
    /\ Proceeds(c, "source", IF state \in Sources[next] THEN "storeState" ELSE "out")
    /\ UNCHANGED <<machine, raced>>

(* Storing while another call has begun to load is a race.                 *)
StoreState(c, next) ==
    /\ Proceeds(c, "storeState", "storeOwner")
    /\ state' = next
    /\ raced' = (raced \/ \E d \in Clients \ {c} : at[d] # "out")
    /\ UNCHANGED owner

(* Variant: every state belongs to the service that asked for it.          *)
StoreCaller(c, next, who) ==
    /\ Proceeds(c, "storeOwner", "out")
    /\ owner' = who
    /\ UNCHANGED <<state, raced>>

StoreOwner(c, next, who) ==
    /\ Proceeds(c, "storeOwner", "out")
    /\ owner' = OwnerOf[next]
    /\ UNCHANGED <<state, raced>>

RequestStep(c, next, who) ==
    \/ ReadOwner(c)
    \/ CompareOwner(c, who)
    \/ Guard(c)
    \/ Source(c, next)
    \/ StoreState(c, next)
    \/ StoreOwner(c, next, who)

(* A call that returns is granted when its last step was the second store. *)
Returns(c) == at[c] # "out" /\ at'[c] = "out"
Granted(c) == Returns(c) /\ at[c] = "storeOwner"
Denied(c) == Returns(c) /\ at[c] # "storeOwner"

-----------------------------------------------------------------------------
StepsTypeOK ==
    /\ MachineTypeOK
    /\ at \in [Clients -> Places]
    /\ raced \in BOOLEAN

Storing == \E c \in Clients : at[c] = "storeOwner"

(* The owner as it will be once a store in progress has completed.         *)
SettledOwner == IF Storing THEN OwnerOf[state] ELSE owner

Atomic == INSTANCE StateMachine WITH owner <- SettledOwner
=============================================================================

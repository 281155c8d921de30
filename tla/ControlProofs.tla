---------------------------- MODULE ControlProofs ----------------------------
(***************************************************************************)
(* Proofs about Control, for any set of clients that call at once and any  *)
(* behaviour of the mount.  Types, the owner on record and the one-step    *)
(* machine are proved for every set of operations; that SLEWING is a lease *)
(* is proved for every set of them without queue_capture and gotoAndSolve, *)
(* which break it.  What is claimed until a race rests on what the loads   *)
(* of a request have found, which nobody changes under it before then.     *)
(***************************************************************************)
EXTENDS Control, TLAPS

Wanted(c) == Arguments[pc[c]].next
Asker(c) == Arguments[pc[c]].who

(* A client inside a request is at a label that makes one.                 *)
AskPlace == \A c \in Clients : at[c] # "out" => pc[c] \in AskLabels

(* While one client is between its stores no other has begun to load.      *)
StoresAlone == \A c, d \in Clients : at[c] = "storeOwner" /\ at[d] # "out" => c = d

(* What the loads of a request in progress have found is still so.         *)
Found(c) ==
    /\ at[c] = "compareOwner" => owner # "Unknown"
    /\ at[c] \in {"guard", "source", "storeState"} => owner \in {"Unknown", Asker(c)}
    /\ at[c] \in {"source", "storeState"} => state \notin {"ERROR", "PARKING"}
    /\ at[c] = "storeState" => state \in Sources[Wanted(c)]
    /\ at[c] = "storeOwner" => state = Wanted(c)

(* The owner on record is that of the state, but between the two stores.   *)
OwnerStored == ~Storing => owner = OwnerOf[state]

Undisturbed == StoresAlone /\ (\A c \in Clients : Found(c)) /\ OwnerStored

TypeInv == TypeOK /\ AskPlace /\ (~raced => Undisturbed)

-----------------------------------------------------------------------------
(* The table of the requests                                               *)

LEMMA TheAskLabels ==
    AskLabels = {"gotoAsk", "gotoGiveUp", "gotoDone", "startAsk", "startGiveUp",
                 "stopDone", "parkAsk", "parkGiveUp", "parkDone", "abortDone",
                 "guideAsk", "focusAsk", "focusDone", "captureAsk",
                 "captureBlocked", "solveDone"}
BY DEF AskLabels, Arguments

LEMMA ArgumentsTyped ==
    ASSUME NEW from \in AskLabels
    PROVE  /\ Arguments[from].next \in SystemState \ {"ERROR"}
           /\ Arguments[from].who \in Owner \ {"Unknown"}
           /\ from \in Labels \ Resting
BY TheAskLabels DEF Arguments, SystemState, Owner, Labels, GotoLabels, Resting

LEMMA OwnersTyped == \A s \in SystemState : OwnerOf[s] \in Owner
BY DEF SystemState, OwnerOf, Owner

(* No request stores ERROR, and only the one that leaves PARKING, which no *)
(* request does, PARKED.                                                   *)
LEMMA StoredState ==
    ASSUME NEW next \in SystemState, state \in Sources[next], state # "PARKING"
    PROVE  next # "PARKED" /\ next # "ERROR"
BY DEF Sources

-----------------------------------------------------------------------------
(* The requests                                                            *)

(* A step of a request.                                                    *)
LEMMA AskKeepsTypes ==
    ASSUME TypeInv, NEW c \in Clients, NEW from \in AskLabels,
           NEW granted \in Labels, NEW denied \in Labels,
           Ask(c, from, granted, denied)
    PROVE  TypeInv'
<1> DEFINE next == Arguments[from].next
           who == Arguments[from].who
<1>0. pc[c] = from /\ RequestStep(c, next, who)
    BY DEF Ask
<1>1. next \in SystemState \ {"ERROR"} /\ who \in Owner \ {"Unknown"} /\ from \in Labels
    BY ArgumentsTyped
<1>2. OwnerOf[next] \in Owner
    BY <1>1, OwnersTyped
<1> HIDE DEF next, who
<1>3. /\ at \in [Clients -> Places] /\ pc \in [Clients -> Labels]
      /\ state \in SystemState /\ owner \in Owner /\ raced \in BOOLEAN
    BY DEF TypeInv, TypeOK, StepsTypeOK, MachineTypeOK
<1>4. PICK to \in Places : at' = [at EXCEPT ![c] = to]
    BY <1>0, <1>3 DEF RequestStep, ReadOwner, CompareOwner, Guard, Source, StoreState,
                      StoreOwner, Proceeds, Places
<1>5. pc' \in [Clients -> Labels] /\ (\A d \in Clients \ {c} : pc'[d] = pc[d])
      /\ (at'[c] # "out" => pc' = pc)
    BY <1>3 DEF Ask, Granted, Denied, Returns
<1>6. AskPlace'
    BY <1>0, <1>3, <1>4, <1>5 DEF TypeInv, AskPlace
<1>7. raced => raced'
    BY <1>0 DEF RequestStep, ReadOwner, CompareOwner, Guard, Source, StoreState, StoreOwner
<1>8. raced' \in BOOLEAN
    BY <1>0, <1>3 DEF RequestStep, ReadOwner, CompareOwner, Guard, Source, StoreState, StoreOwner
<1>9. UNCHANGED <<focusing, mountTracking>>
    BY DEF Ask
<1>10. at' \in [Clients -> Places] /\ at'[c] = to /\ (\A d \in Clients \ {c} : at'[d] = at[d])
    BY <1>3, <1>4
<1>11. ASSUME ~raced'
       PROVE  /\ ~raced /\ StoresAlone /\ OwnerStored
              /\ \A d \in Clients : Found(d)
              /\ state # "PARKED"
    BY <1>7, <1>11 DEF TypeInv, Undisturbed, TypeOK
<1>12. ASSUME ~raced', pc'[c] = pc[c] => Found(c)', at'[c] = "out" \/ pc'[c] = pc[c],
              UNCHANGED <<state, owner>>
       PROVE  \A d \in Clients : Found(d)'
    BY <1>5, <1>10, <1>11, <1>12 DEF Found, Wanted, Asker
<1>13. at'[c] = "out" \/ pc'[c] = pc[c]
    BY <1>5
<1>14. pc'[c] = pc[c] => Asker(c)' = who /\ Wanted(c)' = next
    BY <1>0 DEF Asker, Wanted, next, who
<1>15. Asker(c) = who /\ Wanted(c) = next
    BY <1>0 DEF Asker, Wanted, next, who
<1>a. CASE ReadOwner(c)
    <2>1. state' = state /\ owner' = owner /\ state # "ERROR"
        BY <1>a DEF ReadOwner, machine, TypeInv, TypeOK
    <2>2. at[c] = "out" /\ to \in {"guard", "compareOwner"}
        BY <1>a, <1>10 DEF ReadOwner, Proceeds
    <2>3. ASSUME ~raced' PROVE Undisturbed'
        <3>1. \A d \in Clients : at[d] # "storeOwner"
            BY <1>a, <1>3, <2>3 DEF ReadOwner
        <3>2. StoresAlone' /\ ~Storing'
            BY <1>10, <2>2, <3>1 DEF StoresAlone, Storing
        <3>3. owner = OwnerOf[state]
            BY <1>11, <2>3, <3>1 DEF OwnerStored, Storing
        <3>4. Found(c)'
            BY <1>a, <1>10, <1>5, <1>14, <2>1, <2>2 DEF ReadOwner, Proceeds, Found
        <3> QED BY <1>12, <1>13, <2>1, <2>3, <3>2, <3>3, <3>4 DEF Undisturbed, OwnerStored
    <2> QED BY <1>3, <1>5, <1>6, <1>7, <1>8, <1>9, <1>10, <2>1, <2>3
            DEF TypeInv, TypeOK, StepsTypeOK, MachineTypeOK
<1>b. CASE CompareOwner(c, who) \/ Guard(c) \/ Source(c, next)
    <2>1. state' = state /\ owner' = owner /\ raced' = raced
        BY <1>b DEF CompareOwner, Guard, Source, machine
    <2>2. at[c] \in {"compareOwner", "guard", "source"}
          /\ to \in {"out", "guard", "source", "storeState"}
        BY <1>b, <1>10 DEF CompareOwner, Guard, Source, Proceeds
    <2>3. ASSUME ~raced' PROVE Undisturbed'
        <3>1. StoresAlone'
            BY <1>10, <1>11, <2>2, <2>3 DEF StoresAlone
        <3>2. Storing' => Storing
            BY <1>10, <2>2 DEF Storing
        <3>2a. Storing => Storing'
            BY <1>10, <2>2 DEF Storing
        <3>3. Found(c)
            BY <1>11, <2>3
        <3>4. pc'[c] = pc[c] => Found(c)'
            BY <1>b, <1>10, <1>14, <1>15, <2>1, <2>2, <3>3
               DEF CompareOwner, Guard, Source, Proceeds, Found
        <3> QED BY <1>11, <1>12, <1>13, <2>1, <2>3, <3>1, <3>2, <3>2a, <3>4 DEF Undisturbed, OwnerStored
    <2> QED BY <1>3, <1>5, <1>6, <1>8, <1>9, <1>10, <2>1, <2>3
            DEF TypeInv, TypeOK, StepsTypeOK, MachineTypeOK
<1>c. CASE StoreState(c, next)
    <2>1. at[c] = "storeState" /\ to = "storeOwner" /\ state' = next /\ owner' = owner
        BY <1>c, <1>10 DEF StoreState, Proceeds
    <2>2. ASSUME ~raced' PROVE Undisturbed' /\ state' # "PARKED"
        <3>1. \A d \in Clients \ {c} : at[d] = "out"
            BY <1>c, <1>3, <2>2 DEF StoreState
        <3>2. StoresAlone' /\ Storing'
            BY <1>10, <2>1, <3>1 DEF StoresAlone, Storing
        <3>3. Found(c) /\ Found(c)'
            BY <1>5, <1>10, <1>11, <1>14, <2>1, <2>2 DEF Found
        <3>4. \A d \in Clients \ {c} : Found(d)'
            BY <1>10, <3>1 DEF Found
        <3>5. state' # "PARKED"
            BY <1>1, <1>15, <2>1, <3>3, StoredState DEF Found
        <3> QED BY <3>2, <3>3, <3>4, <3>5 DEF Undisturbed, OwnerStored
    <2> QED BY <1>1, <1>3, <1>5, <1>6, <1>8, <1>9, <1>10, <2>1, <2>2
            DEF TypeInv, TypeOK, StepsTypeOK, MachineTypeOK
<1>d. CASE StoreOwner(c, next, who)
    <2>1. at[c] = "storeOwner" /\ to = "out" /\ state' = state /\ owner' = OwnerOf[next]
          /\ raced' = raced
        BY <1>d, <1>10 DEF StoreOwner, Proceeds
    <2>2. ASSUME ~raced' PROVE Undisturbed'
        <3>1. \A d \in Clients \ {c} : at[d] = "out"
            BY <1>11, <2>1, <2>2 DEF StoresAlone
        <3>2. \A d \in Clients : at'[d] = "out"
            BY <1>10, <2>1, <3>1
        <3>3. state = next
            BY <1>11, <1>15, <2>1, <2>2 DEF Found
        <3> QED BY <2>1, <3>2, <3>3 DEF Undisturbed, StoresAlone, Found, OwnerStored
    <2> QED BY <1>2, <1>3, <1>5, <1>6, <1>8, <1>9, <1>10, <2>1, <2>2
            DEF TypeInv, TypeOK, StepsTypeOK, MachineTypeOK
<1> QED BY <1>0, <1>a, <1>b, <1>c, <1>d DEF RequestStep

(* A client that is in no request goes on elsewhere.                       *)
LEMMA MoveKeepsTypes ==
    ASSUME TypeInv, NEW c \in Clients, pc[c] \notin AskLabels, NEW to \in Labels,
           pc' = [pc EXCEPT ![c] = to], UNCHANGED request,
           focusing' \in BOOLEAN, mountTracking' \in BOOLEAN
    PROVE  TypeInv'
<1>1. state' = state /\ owner' = owner /\ at' = at /\ raced' = raced /\ at[c] = "out"
    BY DEF request, TypeInv, AskPlace
<1>2. pc \in [Clients -> Labels] /\ (\A d \in Clients \ {c} : pc'[d] = pc[d])
    BY DEF TypeInv, TypeOK
<1>3. AskPlace'
    BY <1>1, <1>2 DEF TypeInv, AskPlace
<1>4. (\A d \in Clients : Found(d)) => (\A d \in Clients : Found(d)')
    BY <1>1, <1>2 DEF Found, Wanted, Asker
<1>5. (StoresAlone <=> StoresAlone') /\ (OwnerStored <=> OwnerStored')
    BY <1>1 DEF StoresAlone, OwnerStored, Storing
<1>6. pc' \in [Clients -> Labels]
    BY <1>2
<1> QED BY <1>1, <1>3, <1>4, <1>5, <1>6
        DEF TypeInv, TypeOK, StepsTypeOK, MachineTypeOK, Undisturbed

(* Nobody goes on.                                                         *)
LEMMA StayKeepsTypes ==
    ASSUME TypeInv, UNCHANGED <<request, pc>>, focusing' \in BOOLEAN, mountTracking' \in BOOLEAN
    PROVE  TypeInv'
<1>1. state' = state /\ owner' = owner /\ at' = at /\ raced' = raced /\ pc' = pc
    BY DEF request
<1>2. \A d \in Clients : Found(d) <=> Found(d)'
    BY <1>1 DEF Found, Wanted, Asker
<1>3. (StoresAlone <=> StoresAlone') /\ (OwnerStored <=> OwnerStored')
    BY <1>1 DEF StoresAlone, OwnerStored, Storing
<1> QED BY <1>1, <1>2, <1>3 DEF TypeInv, TypeOK, StepsTypeOK, MachineTypeOK, Undisturbed, AskPlace

LEMMA SendKeepsTypes ==
    ASSUME TypeInv, NEW c \in Clients, NEW from, from \notin AskLabels,
           NEW effects \in SUBSET BOOLEAN, NEW answered \in Labels, NEW unanswered \in Labels,
           Send(c, from, effects, answered, unanswered)
    PROVE  TypeInv'
<1> PICK outcome \in Outcomes, tracks \in effects :
        /\ Goes(c, from, IF outcome \in Answered THEN answered ELSE unanswered)
        /\ mountTracking' = IF outcome \in Obeyed THEN tracks ELSE mountTracking
        /\ UNCHANGED <<request, focusing>>
    BY DEF Send
<1>1. mountTracking' \in BOOLEAN /\ focusing' \in BOOLEAN
    BY DEF TypeInv, TypeOK
<1> QED BY <1>1, MoveKeepsTypes DEF Goes

LEMMA LookKeepsTypes ==
    ASSUME TypeInv, NEW c \in Clients, NEW from, from \notin AskLabels, NEW what,
           NEW then \in Labels, NEW else \in Labels, Look(c, from, what, then, else)
    PROVE  TypeInv'
BY MoveKeepsTypes DEF Look, Goes, TypeInv, TypeOK

LEMMA InitHasTypes == Init => TypeInv
<1> SUFFICES ASSUME Init PROVE TypeInv
    OBVIOUS
<1> USE DEF Init, StepsInit, MachineInit
<1>1. TypeOK
    BY DEF TypeOK, StepsTypeOK, MachineTypeOK, SystemState, Owner, Labels, Resting, Places
<1>2. \A c \in Clients : at[c] = "out"
    OBVIOUS
<1> QED BY <1>1, <1>2 DEF TypeInv, AskPlace, Undisturbed, StoresAlone, Found, OwnerStored, OwnerOf

LEMMA StepKeepsTypes ==
    ASSUME TypeInv, NEW c \in Clients, Step(c)
    PROVE  TypeInv'
<1> USE TheAskLabels DEF Labels, Resting, GotoLabels, Tell
<1>1. mountTracking \in BOOLEAN
    BY DEF TypeInv, TypeOK
<1>2. CASE Goto(c)
    BY <1>1, <1>2, AskKeepsTypes, SendKeepsTypes DEF Goto
<1>3. CASE StartTracking(c)
    BY <1>3, AskKeepsTypes, SendKeepsTypes, LookKeepsTypes DEF StartTracking
<1>4. CASE StopTracking(c)
    BY <1>4, AskKeepsTypes, SendKeepsTypes DEF StopTracking
<1>5. CASE Park(c)
    BY <1>5, AskKeepsTypes, SendKeepsTypes DEF Park
<1>6. CASE Home(c) \/ Sync(c) \/ Move(c)
    BY <1>1, <1>6, SendKeepsTypes DEF Home, Sync, Move
<1>7. CASE Abort(c)
    BY <1>1, <1>7, AskKeepsTypes, SendKeepsTypes DEF Abort
<1>8. CASE GuideStep(c) \/ Autofocus(c) \/ GotoAndSolve(c)
    BY <1>8, AskKeepsTypes DEF GuideStep, Autofocus, GotoAndSolve
<1>9. CASE QueueCapture(c)
    BY <1>9, AskKeepsTypes, LookKeepsTypes DEF QueueCapture
<1> QED BY <1>2, <1>3, <1>4, <1>5, <1>6, <1>7, <1>8, <1>9 DEF Step

(* An operation that is not the setSafety of SetSystemState starts at a    *)
(* label of the table.                                                     *)
LEMMA EntryIsALabel ==
    ASSUME NEW op \in Ops \ {"setSafety"}
    PROVE  Entry(op) \in Labels
BY OpsAssumption DEF Entry, Labels, Resting, MotionOps, CoreOps

LEMMA AtRestNoRequest ==
    ASSUME NEW c \in Clients, AtRest(c)
    PROVE  pc[c] \notin AskLabels
BY TheAskLabels DEF AtRest, Resting

LEMMA NextKeepsTypes == TypeInv /\ [Next]_vars => TypeInv'
<1> SUFFICES ASSUME TypeInv, [Next]_vars PROVE TypeInv'
    OBVIOUS
<1>0. focusing \in BOOLEAN /\ mountTracking \in BOOLEAN
    BY DEF TypeInv, TypeOK
<1>1. ASSUME NEW c \in Clients, Invoke(c) PROVE TypeInv'
    BY <1>0, <1>1, EntryIsALabel, AtRestNoRequest, MoveKeepsTypes DEF Invoke, Goes
<1>2. ASSUME NEW c \in Clients, Step(c) PROVE TypeInv'
    BY <1>2, StepKeepsTypes
<1>3. CASE SetSystemState
    BY <1>0, <1>3, StayKeepsTypes DEF SetSystemState
<1>4. CASE UNCHANGED vars
    BY <1>0, <1>4, StayKeepsTypes DEF vars, request
<1> QED BY <1>1, <1>2, <1>3, <1>4 DEF Next

(* Every variable keeps its type; the services never put ERROR on record,  *)
(* nor PARKED before two requests have raced.                              *)
THEOREM TypesCorrect == Spec => []TypeOK
<1>1. TypeInv => TypeOK
    BY DEF TypeInv
<1> QED BY <1>1, InitHasTypes, NextKeepsTypes, PTL DEF Spec

(* Until two requests race, the owner on record is the one that belongs to *)
(* the state, or will be once the request that stores has stored it.       *)
THEOREM OwnerCorrect == Spec => []OwnerMatchesState
<1>1. TypeInv => OwnerMatchesState
    BY DEF TypeInv, OwnerMatchesState, SettledOwner, Undisturbed, OwnerStored
<1> QED BY <1>1, InitHasTypes, NextKeepsTypes, PTL DEF Spec

-----------------------------------------------------------------------------
(* The one-step machine                                                    *)

(* A client's step is one of a request of its own, or no request's.        *)
AsksWith(c, from) == \E granted, denied \in Labels : Ask(c, from, granted, denied)

LEMMA StepShape ==
    ASSUME NEW c \in Clients, Step(c)
    PROVE  (\E from \in AskLabels : AsksWith(c, from)) \/ UNCHANGED request
<1> USE TheAskLabels DEF Labels, Resting, GotoLabels, Tell, AsksWith
<1>1. CASE Goto(c)
    BY <1>1 DEF Goto, Send
<1>2. CASE StartTracking(c)
    BY <1>2 DEF StartTracking, Send, Look
<1>3. CASE StopTracking(c)
    BY <1>3 DEF StopTracking, Send
<1>4. CASE Park(c)
    BY <1>4 DEF Park, Send
<1>5. CASE Home(c) \/ Sync(c) \/ Move(c)
    BY <1>5 DEF Home, Sync, Move, Send
<1>6. CASE Abort(c)
    BY <1>6 DEF Abort, Send
<1>7. CASE GuideStep(c) \/ Autofocus(c) \/ GotoAndSolve(c)
    BY <1>7 DEF GuideStep, Autofocus, GotoAndSolve
<1>8. CASE QueueCapture(c)
    BY <1>8 DEF QueueCapture, Look
<1> QED BY <1>1, <1>2, <1>3, <1>4, <1>5, <1>6, <1>7, <1>8 DEF Step

LEMMA SameTables == Atomic!Sources = Sources /\ Atomic!OwnerOf = OwnerOf
BY Zenon DEF Atomic!Sources, Sources, Atomic!OwnerOf, OwnerOf, Atomic!SystemState, SystemState

(* Until a race, what a request is about to store is permitted.            *)
LEMMA StorePermitted ==
    ASSUME TypeInv, NEW c \in Clients, at[c] = "storeState", ~raced
    PROVE  /\ owner = OwnerOf[state] /\ SettledOwner = owner
           /\ Permitted(Wanted(c), Asker(c))
<1>1. StoresAlone /\ Found(c) /\ OwnerStored
    BY DEF TypeInv, Undisturbed
<1>2. ~Storing
    BY <1>1 DEF StoresAlone, Storing
<1> QED BY <1>1, <1>2 DEF Found, OwnerStored, SettledOwner, Permitted

LEMMA AskIsAtomic ==
    ASSUME TypeInv, TypeInv', NEW c \in Clients, NEW from \in AskLabels, AsksWith(c, from), ~raced'
    PROVE  AtomicStep
<1>0. PICK granted, denied \in Labels : Ask(c, from, granted, denied)
    BY DEF AsksWith
<1> DEFINE next == Arguments[from].next
           who == Arguments[from].who
<1>1. pc[c] = from /\ RequestStep(c, next, who) /\ next = Wanted(c) /\ who = Asker(c)
    BY <1>0 DEF Ask, Wanted, Asker
<1> HIDE DEF next, who
<1>2. /\ at \in [Clients -> Places]
      /\ ~raced /\ StoresAlone /\ OwnerStored /\ Found(c)
    BY <1>1 DEF TypeInv, TypeOK, StepsTypeOK, Undisturbed, RequestStep, ReadOwner,
                CompareOwner, Guard, Source, StoreState, StoreOwner
<1>3. StoresAlone' /\ OwnerStored'
    BY DEF TypeInv, Undisturbed
<1>4. PICK to \in Places : at' = [at EXCEPT ![c] = to]
    BY <1>1, <1>2 DEF RequestStep, ReadOwner, CompareOwner, Guard, Source, StoreState,
                      StoreOwner, Proceeds, Places
<1>5. at'[c] = to /\ \A d \in Clients \ {c} : at'[d] = at[d] /\ ~Denied(d)
    BY <1>2, <1>4 DEF Denied, Returns
<1>a. CASE ReadOwner(c)
    <2>1. ~Storing /\ at[c] = "out" /\ to \in {"guard", "compareOwner"}
        BY <1>2, <1>5, <1>a DEF ReadOwner, Storing, Proceeds
    <2>2. ~Storing' /\ ~Denied(c)
        BY <1>5, <2>1 DEF Storing, Denied, Returns
    <2>3. SettledOwner' = SettledOwner /\ state' = state
        BY <1>a, <2>1, <2>2 DEF ReadOwner, SettledOwner, machine
    <2> QED BY <1>5, <2>2, <2>3 DEF AtomicStep, Atomic!machine
<1>b. CASE CompareOwner(c, who) \/ Guard(c) \/ Source(c, next)
    <2>1. at[c] \in {"compareOwner", "guard", "source"} /\ to # "storeOwner"
        BY <1>2, <1>5, <1>b DEF CompareOwner, Guard, Source, Proceeds
    <2>2. ~Storing /\ ~Storing'
        BY <1>2, <1>5, <2>1 DEF Storing, StoresAlone
    <2>3. SettledOwner = owner /\ SettledOwner' = SettledOwner /\ state' = state
        BY <1>b, <2>2 DEF CompareOwner, Guard, Source, SettledOwner, machine
    <2>4. Denied(c) => \/ owner \notin {"Unknown", who}
                       \/ state \in {"ERROR", "PARKING"}
                       \/ state \notin Sources[next]
        BY <1>1, <1>2, <1>5, <1>b, <2>1
           DEF Denied, Returns, CompareOwner, Guard, Source, Found, Proceeds
    <2>5. Denied(c) => ~Atomic!Permitted(next, who)
        BY <2>3, <2>4, SameTables DEF Atomic!Permitted
    <2> QED BY <1>1, <1>5, <2>3, <2>5 DEF AtomicStep, Atomic!machine, next, who
<1>c. CASE StoreState(c, next)
    <2>1. at[c] = "storeState" /\ to = "storeOwner" /\ state' = next
        BY <1>2, <1>5, <1>c DEF StoreState, Proceeds
    <2>2. SettledOwner = owner /\ Permitted(next, who)
        BY <1>1, <1>2, <2>1, StorePermitted
    <2>3. SettledOwner' = OwnerOf[next]
        BY <1>5, <2>1 DEF SettledOwner, Storing
    <2>4. Atomic!Permitted(next, who) /\ Atomic!Grant(next)
        BY <2>1, <2>2, <2>3, SameTables DEF Atomic!Permitted, Atomic!Grant, Permitted
    <2>5. ~Denied(c)
        BY <1>5, <2>1 DEF Denied, Returns
    <2> QED BY <1>1, <1>5, <2>1, <2>4, <2>5 DEF AtomicStep, next, who
<1>d. CASE StoreOwner(c, next, who)
    <2>1. at[c] = "storeOwner" /\ to = "out" /\ state' = state /\ owner' = OwnerOf[next]
        BY <1>2, <1>5, <1>d DEF StoreOwner, Proceeds
    <2>2. SettledOwner = OwnerOf[state] /\ state = next
        BY <1>1, <1>2, <2>1 DEF Found, SettledOwner, Storing
    <2>3. ~Storing'
        BY <1>2, <1>5, <2>1 DEF Storing, StoresAlone
    <2>4. SettledOwner' = owner'
        BY <2>3 DEF SettledOwner
    <2>5. ~Denied(c)
        BY <2>1 DEF Denied
    <2> QED BY <1>5, <2>1, <2>2, <2>4, <2>5 DEF AtomicStep, Atomic!machine
<1> QED BY <1>1, <1>a, <1>b, <1>c, <1>d DEF RequestStep

LEMMA ElsewhereIsAtomic ==
    ASSUME UNCHANGED request
    PROVE  AtomicStep
<1>1. state' = state /\ owner' = owner /\ at' = at
    BY DEF request
<1>2. SettledOwner' = SettledOwner
    BY <1>1 DEF SettledOwner, Storing
<1> QED BY <1>1, <1>2 DEF AtomicStep, Denied, Returns, Atomic!machine

(* Until two of them race, the requests of any number of clients at once   *)
(* do and answer what the machine of one step per request does.            *)
THEOREM RequestsAreAtomic == Spec => ImplementsAtomic
<1>1. Init => Atomic!MachineInit
    BY DEF Init, StepsInit, MachineInit, Atomic!MachineInit, SettledOwner, Storing
<1>2. TypeInv /\ TypeInv' /\ [Next]_vars => [~raced' => AtomicStep]_vars
    <2> SUFFICES ASSUME TypeInv, TypeInv', Next, ~raced' PROVE AtomicStep
        OBVIOUS
    <2>1. ASSUME NEW c \in Clients, Step(c) PROVE AtomicStep
        BY <2>1, StepShape, AskIsAtomic, ElsewhereIsAtomic
    <2>2. ASSUME NEW c \in Clients, Invoke(c) PROVE AtomicStep
        BY <2>2, ElsewhereIsAtomic DEF Invoke
    <2> QED BY <2>1, <2>2, ElsewhereIsAtomic DEF Next, SetSystemState
<1>3. TypeInv /\ [Next]_vars => TypeInv'
    BY NextKeepsTypes
<1> QED BY <1>1, <1>2, <1>3, InitHasTypes, PTL DEF Spec, ImplementsAtomic

-----------------------------------------------------------------------------
(* SLEWING as a lease                                                      *)

CaptureLabels == {"captureAsk", "captureCheck", "captureBlocked", "solveDone"}

NoCapture == \A c \in Clients : pc[c] \notin CaptureLabels

LeaseInv == TypeInv /\ SlewingHeld /\ NoCapture

(* What is left to show of a step once its types are known.                *)
KeepsLease == SlewingHeld' /\ NoCapture' /\ (~raced' => [Lease!Next]_(Lease!lease))

Outside == Labels \ (GotoLabels \cup CaptureLabels)

(* What a step of a request does to its client: it reads, it stores the    *)
(* state, or it stores the owner.                                          *)
Reads(c, denied) ==
    /\ at[c] \notin {"storeState", "storeOwner"} /\ at'[c] # "storeOwner"
    /\ state' = state
    /\ pc'[c] = pc[c] \/ (Denied(c) /\ pc'[c] = denied)

Stores(c, next) ==
    /\ at[c] = "storeState" /\ at'[c] = "storeOwner"
    /\ state' = next
    /\ pc'[c] = pc[c]

Settles(c, granted) ==
    /\ at[c] = "storeOwner" /\ at'[c] = "out"
    /\ state' = state
    /\ pc'[c] = granted

LEMMA AskShape ==
    ASSUME TypeInv, NEW c \in Clients, NEW from \in AskLabels, NEW granted, NEW denied,
           Ask(c, from, granted, denied)
    PROVE  /\ pc[c] = from
           /\ raced => raced'
           /\ \A d \in Clients \ {c} : pc'[d] = pc[d] /\ at'[d] = at[d]
           /\ \/ Reads(c, denied)
              \/ Stores(c, Wanted(c))
              \/ Settles(c, granted)
<1> DEFINE next == Arguments[from].next
           who == Arguments[from].who
<1>1. pc[c] = from /\ RequestStep(c, next, who) /\ next = Wanted(c)
      /\ pc' = IF Granted(c) THEN [pc EXCEPT ![c] = granted]
               ELSE IF Denied(c) THEN [pc EXCEPT ![c] = denied]
               ELSE pc
    BY DEF Ask, Wanted
<1> HIDE DEF next, who
<1>2. at \in [Clients -> Places] /\ pc \in [Clients -> Labels]
    BY DEF TypeInv, TypeOK, StepsTypeOK
<1>3. PICK to : at' = [at EXCEPT ![c] = to]
    BY <1>1, <1>2 DEF RequestStep, ReadOwner, CompareOwner, Guard, Source, StoreState,
                      StoreOwner, Proceeds
<1>4. at'[c] = to /\ (\A d \in Clients \ {c} : pc'[d] = pc[d] /\ at'[d] = at[d])
    BY <1>1, <1>2, <1>3
<1>5. raced => raced'
    BY <1>1 DEF RequestStep, ReadOwner, CompareOwner, Guard, Source, StoreState, StoreOwner
<1>6. CASE ReadOwner(c) \/ CompareOwner(c, who) \/ Guard(c) \/ Source(c, next)
    <2>1. state' = state /\ at[c] \notin {"storeState", "storeOwner"} /\ to # "storeOwner"
        BY <1>2, <1>4, <1>6 DEF ReadOwner, CompareOwner, Guard, Source, Proceeds, machine
    <2>2. ~Granted(c)
        BY <2>1 DEF Granted
    <2>3. Reads(c, denied)
        BY <1>1, <1>2, <1>4, <2>1, <2>2 DEF Reads
    <2> QED BY <1>1, <1>4, <1>5, <2>3
<1>7. CASE StoreState(c, next)
    <2>1. at[c] = "storeState" /\ to = "storeOwner" /\ state' = next
        BY <1>2, <1>4, <1>7 DEF StoreState, Proceeds
    <2>2. ~Granted(c) /\ ~Denied(c)
        BY <1>4, <2>1 DEF Granted, Denied, Returns
    <2>3. Stores(c, Wanted(c))
        BY <1>1, <1>2, <1>4, <2>1, <2>2 DEF Stores
    <2> QED BY <1>1, <1>4, <1>5, <2>3
<1>8. CASE StoreOwner(c, next, who)
    <2>1. at[c] = "storeOwner" /\ to = "out" /\ state' = state
        BY <1>2, <1>4, <1>8 DEF StoreOwner, Proceeds
    <2>2. Granted(c)
        BY <1>4, <2>1 DEF Granted, Returns
    <2>3. Settles(c, granted)
        BY <1>1, <1>2, <1>4, <2>1, <2>2 DEF Settles
    <2> QED BY <1>1, <1>4, <1>5, <2>3
<1> QED BY <1>1, <1>6, <1>7, <1>8 DEF RequestStep

(* A step that leaves the gotos in progress as they are.                   *)
LEMMA SameHolders ==
    ASSUME LeaseInv, NoCapture', raced => raced',
           ~raced' => \A d \in Clients : InGoto(d)' <=> InGoto(d),
           ~raced' => /\ state' = "SLEWING" <=> state = "SLEWING"
                      /\ \/ Use' = Use
                         \/ Use = "free" /\ Use' \in {"guide", "focus", "park"}
                         \/ Use = "focus" /\ Use' = "free"
    PROVE  KeepsLease
<1> SUFFICES ASSUME ~raced' PROVE SlewingHeld' /\ [Lease!Next]_(Lease!lease)
    BY DEF KeepsLease, SlewingHeld
<1>1. SlewingHeld'
    BY DEF LeaseInv, SlewingHeld, OneGoto
<1>2. Holders' = Holders
    BY DEF Holders
<1> QED BY <1>1, <1>2 DEF Lease!Next, Lease!Reserve, Lease!Release, Lease!lease

(* A client goes on within a goto, or outside of one.                      *)
LEMMA MoveKeepsLease ==
    ASSUME LeaseInv, NEW c \in Clients, NEW to, pc' = [pc EXCEPT ![c] = to], UNCHANGED request,
           pc[c] \notin AskLabels,
           \/ pc[c] \notin GotoLabels /\ to \in Outside
           \/ pc[c] \in GotoLabels /\ to \in GotoLabels
    PROVE  KeepsLease
<1>1. at[c] = "out" /\ state' = state /\ at' = at /\ raced' = raced
      /\ pc \in [Clients -> Labels]
    BY DEF request, LeaseInv, TypeInv, TypeOK, AskPlace
<1>2. pc'[c] = to /\ \A d \in Clients \ {c} : pc'[d] = pc[d]
    BY <1>1
<1>3. pc[c] # "gotoAsk"
    BY TheAskLabels
<1>4. \A d \in Clients : InGoto(d)' <=> InGoto(d)
    BY <1>1, <1>2, <1>3 DEF InGoto, Outside
<1>5. NoCapture'
    BY <1>1, <1>2 DEF LeaseInv, NoCapture, Outside, CaptureLabels, GotoLabels
<1> QED BY <1>1, <1>4, <1>5, SameHolders DEF Use

LEMMA StayKeepsLease ==
    ASSUME LeaseInv, UNCHANGED <<request, pc>>
    PROVE  KeepsLease
<1>1. state' = state /\ at' = at /\ raced' = raced /\ pc' = pc
    BY DEF request
<1>2. NoCapture' /\ \A d \in Clients : InGoto(d)' <=> InGoto(d)
    BY <1>1 DEF InGoto, LeaseInv, NoCapture
<1> QED BY <1>1, <1>2, SameHolders DEF Use

LEMMA SendKeepsLease ==
    ASSUME LeaseInv, NEW c \in Clients, NEW from, from \notin AskLabels, NEW effects,
           NEW answered, NEW unanswered, Send(c, from, effects, answered, unanswered),
           \/ from \notin GotoLabels /\ {answered, unanswered} \subseteq Outside
           \/ from \in GotoLabels /\ {answered, unanswered} \subseteq GotoLabels
    PROVE  KeepsLease
<1>1. PICK outcome \in Outcomes :
        /\ Goes(c, from, IF outcome \in Answered THEN answered ELSE unanswered)
        /\ UNCHANGED request
    BY DEF Send
<1> QED BY <1>1, MoveKeepsLease DEF Goes

(* Outside a goto nobody enters or leaves SLEWING, and what else changes   *)
(* is a use that starts, or an autofocus that ends.                        *)
LEMMA OtherRequestKeepsUse ==
    ASSUME TypeInv, NEW c \in Clients, ~raced, at[c] = "storeState", state' = Wanted(c),
           pc[c] \in AskLabels \ (GotoLabels \cup CaptureLabels \cup {"gotoAsk"})
    PROVE  /\ state' = "SLEWING" <=> state = "SLEWING"
           /\ \/ Use' = Use
              \/ Use = "free" /\ Use' \in {"guide", "focus", "park"}
              \/ Use = "focus" /\ Use' = "free"
<1>1. owner = OwnerOf[state] /\ Permitted(Wanted(c), Asker(c))
    BY StorePermitted
<1>2. state \in SystemState /\ state \notin {"PARKING", "ERROR", "PARKED"}
    BY <1>1 DEF TypeInv, TypeOK, StepsTypeOK, MachineTypeOK, Permitted
<1>3. <<Wanted(c), Asker(c)>> \in
        {<<"TRACKING", "MotionService">>, <<"IDLE", "MotionService">>,
         <<"PARKING", "MotionService">>, <<"PARKED", "MotionService">>,
         <<"GUIDING", "GuideService">>, <<"FOCUSING", "FocusService">>,
         <<"TRACKING", "FocusService">>}
    BY TheAskLabels DEF Wanted, Asker, Arguments, GotoLabels, CaptureLabels
<1> QED BY <1>1, <1>2, <1>3 DEF Permitted, Sources, OwnerOf, SystemState, Use

LEMMA AskKeepsLease ==
    ASSUME LeaseInv, NEW c \in Clients,
           NEW from \in AskLabels \ (GotoLabels \cup CaptureLabels \cup {"gotoAsk"}),
           NEW granted \in Outside, NEW denied \in Outside,
           Ask(c, from, granted, denied)
    PROVE  KeepsLease
<1>1. /\ pc[c] = from /\ (raced => raced')
      /\ \A d \in Clients \ {c} : pc'[d] = pc[d] /\ at'[d] = at[d]
      /\ Reads(c, denied) \/ Stores(c, Wanted(c)) \/ Settles(c, granted)
    BY AskShape DEF LeaseInv
<1>2. NoCapture'
    BY <1>1 DEF LeaseInv, NoCapture, Reads, Stores, Settles, Outside
<1>3. at'[c] = "out" \/ pc'[c] = from
    BY <1>1 DEF Reads, Stores, Settles, Denied, Returns
<1>4. pc'[c] \notin GotoLabels
    BY <1>1 DEF Reads, Stores, Settles, Outside
<1>5. \A d \in Clients : InGoto(d)' <=> InGoto(d)
    BY <1>1, <1>3, <1>4 DEF InGoto
<1>6. ASSUME ~raced'
      PROVE  /\ state' = "SLEWING" <=> state = "SLEWING"
             /\ \/ Use' = Use
                \/ Use = "free" /\ Use' \in {"guide", "focus", "park"}
                \/ Use = "focus" /\ Use' = "free"
    <2>1. CASE Stores(c, Wanted(c))
        BY <1>1, <1>6, <2>1, OtherRequestKeepsUse DEF LeaseInv, Stores
    <2>2. CASE Reads(c, denied) \/ Settles(c, granted)
        BY <2>2 DEF Reads, Settles, Use
    <2> QED BY <1>1, <2>1, <2>2
<1> QED BY <1>1, <1>2, <1>5, <1>6, SameHolders

(* The grant of SLEWING finds no other goto, and starts one.               *)
LEMMA GotoAskTakesLease ==
    ASSUME LeaseInv, NEW c \in Clients, Ask(c, "gotoAsk", "gotoSend", "failed")
    PROVE  KeepsLease
<1>0. "gotoAsk" \in AskLabels
    BY TheAskLabels
<1>1. /\ pc[c] = "gotoAsk" /\ (raced => raced')
      /\ \A d \in Clients \ {c} : pc'[d] = pc[d] /\ at'[d] = at[d]
      /\ Reads(c, "failed") \/ Stores(c, Wanted(c)) \/ Settles(c, "gotoSend")
    BY <1>0, AskShape DEF LeaseInv
<1>2. NoCapture'
    BY <1>1 DEF LeaseInv, NoCapture, Reads, Stores, Settles, CaptureLabels
<1>3. CASE Reads(c, "failed") \/ Settles(c, "gotoSend")
    <2>1. \A d \in Clients : InGoto(d)' <=> InGoto(d)
        BY <1>1, <1>3 DEF InGoto, GotoLabels, Reads, Settles
    <2>2. state' = state
        BY <1>3 DEF Reads, Settles
    <2> QED BY <1>1, <1>2, <2>1, <2>2, SameHolders DEF Use
<1>4. CASE Stores(c, Wanted(c))
    <2> SUFFICES ASSUME ~raced' PROVE SlewingHeld' /\ [Lease!Next]_(Lease!lease)
        BY <1>2 DEF KeepsLease, SlewingHeld
    <2>1. Permitted("SLEWING", "GotoService") /\ state' = "SLEWING"
        BY <1>1, <1>4, StorePermitted DEF LeaseInv, Stores, Wanted, Asker, Arguments
    <2>2. state \in {"TRACKING", "IDLE"}
        BY <2>1 DEF Permitted, Sources
    <2>3. \A d \in Clients : ~InGoto(d)
        BY <1>1, <2>2 DEF LeaseInv, SlewingHeld
    <2>4. \A d \in Clients : InGoto(d)' <=> d = c
        BY <1>1, <1>4, <2>3 DEF InGoto, GotoLabels, Stores
    <2>5. Lease!Take(c)
        BY <2>1, <2>2, <2>3, <2>4 DEF Lease!Take, Use, Holders
    <2> QED BY <2>1, <2>4, <2>5 DEF SlewingHeld, OneGoto, Lease!Next
<1> QED BY <1>1, <1>3, <1>4

(* The request that ends a goto is granted, and ends the only one.         *)
LEMMA GotoEndFreesLease ==
    ASSUME LeaseInv, NEW c \in Clients, NEW from \in {"gotoGiveUp", "gotoDone"},
           NEW to \in Outside \ {"gotoAsk"}, Tell(c, from, to)
    PROVE  KeepsLease
<1>0. from \in AskLabels /\ from \in GotoLabels
    BY TheAskLabels DEF GotoLabels
<1>1. /\ pc[c] = from /\ (raced => raced')
      /\ \A d \in Clients \ {c} : pc'[d] = pc[d] /\ at'[d] = at[d]
      /\ Reads(c, to) \/ Stores(c, Wanted(c)) \/ Settles(c, to)
    BY <1>0, AskShape DEF LeaseInv, Tell
<1>2. NoCapture'
    BY <1>1 DEF LeaseInv, NoCapture, Reads, Stores, Settles, Outside
<1>3. CASE Settles(c, to)
    <2>1. \A d \in Clients : InGoto(d)' <=> InGoto(d)
        BY <1>1, <1>3 DEF InGoto, GotoLabels, Settles, Outside
    <2>2. state' = state
        BY <1>3 DEF Settles
    <2> QED BY <1>1, <1>2, <2>1, <2>2, SameHolders DEF Use
<1> SUFFICES ASSUME ~raced', at[c] # "storeOwner" PROVE KeepsLease
    BY <1>1, <1>2, <1>3 DEF KeepsLease, SlewingHeld, Reads, Stores
<1>4. /\ InGoto(c) /\ state = "SLEWING" /\ OneGoto
      /\ Wanted(c) \in {"IDLE", "TRACKING"} /\ Asker(c) = "GotoService"
    BY <1>0, <1>1 DEF InGoto, LeaseInv, SlewingHeld, Wanted, Asker, Arguments
<1>5. CASE Reads(c, to)
    <2>1. ~Denied(c)
        <3>1. Found(c) /\ StoresAlone /\ OwnerStored
            BY <1>1 DEF LeaseInv, TypeInv, Undisturbed
        <3>2. Permitted(Wanted(c), Asker(c)) \/ at[c] = "out"
            BY <1>4, <3>1 DEF Permitted, Sources, SystemState, OwnerStored, Storing,
                              StoresAlone, OwnerOf
        <3>3. at[c] # "out" => owner = "GotoService"
            BY <1>4, <3>1 DEF OwnerStored, Storing, StoresAlone, OwnerOf
        <3>4. RequestStep(c, Wanted(c), Asker(c))
            BY <1>1 DEF Tell, Ask, Wanted, Asker
        <3>5. at \in [Clients -> Places]
            BY DEF LeaseInv, TypeInv, TypeOK, StepsTypeOK
        <3>6. "SLEWING" \in Sources[Wanted(c)]
            BY <1>4 DEF Sources, SystemState
        <3> QED BY <1>4, <3>3, <3>4, <3>5, <3>6
                DEF Denied, Returns, RequestStep, ReadOwner, CompareOwner, Guard, Source,
                    StoreState, StoreOwner, Proceeds
    <2>2. \A d \in Clients : InGoto(d)' <=> InGoto(d)
        BY <1>0, <1>1, <1>5, <2>1 DEF InGoto, Reads
    <2>3. state' = state
        BY <1>5 DEF Reads
    <2> QED BY <1>1, <1>2, <2>2, <2>3, SameHolders DEF Use
<1>6. CASE Stores(c, Wanted(c))
    <2>1. state' = Wanted(c)
        BY <1>6 DEF Stores
    <2>2. \A d \in Clients : ~InGoto(d)'
        BY <1>0, <1>1, <1>4, <1>6 DEF InGoto, OneGoto, Stores
    <2>3. \A d \in Clients : InGoto(d) <=> d = c
        BY <1>4 DEF OneGoto
    <2>4. Lease!Free(c)
        BY <1>4, <2>1, <2>2, <2>3 DEF Lease!Free, Use, Holders
    <2>5. SlewingHeld'
        BY <1>4, <2>1, <2>2 DEF SlewingHeld, OneGoto
    <2> QED BY <1>2, <2>4, <2>5 DEF KeepsLease, Lease!Next
<1> QED BY <1>1, <1>5, <1>6 DEF Settles

(* The steps of the operations.                                            *)
LEMMA StepKeepsLease ==
    ASSUME LeaseInv, NEW c \in Clients, Step(c)
    PROVE  KeepsLease
<1> USE TheAskLabels DEF Labels, Resting, GotoLabels, CaptureLabels, Outside
<1>1. CASE Goto(c)
    <2>1. CASE Ask(c, "gotoAsk", "gotoSend", "failed")
        BY <2>1, GotoAskTakesLease
    <2>2. CASE \/ Send(c, "gotoSend", {mountTracking, TRUE}, "gotoTrack", "gotoGiveUp")
               \/ Send(c, "gotoTrack", {TRUE}, "gotoDone", "gotoGiveUp")
        BY <2>2, SendKeepsLease
    <2>3. CASE Tell(c, "gotoGiveUp", "failed") \/ Tell(c, "gotoDone", "ok")
        BY <2>3, GotoEndFreesLease
    <2> QED BY <1>1, <2>1, <2>2, <2>3 DEF Goto
<1>2. CASE StartTracking(c)
    <2>1. CASE Look(c, "startCheck", "tracking", "ok", "startAsk")
        BY <2>1, MoveKeepsLease DEF Look, Goes
    <2> QED BY <1>2, <2>1, AskKeepsLease, SendKeepsLease DEF StartTracking, Tell
<1>3. CASE StopTracking(c) \/ Park(c) \/ Abort(c)
    BY <1>3, AskKeepsLease, SendKeepsLease DEF StopTracking, Park, Abort, Tell
<1>4. CASE Home(c) \/ Sync(c) \/ Move(c)
    BY <1>4, SendKeepsLease DEF Home, Sync, Move
<1>5. CASE GuideStep(c) \/ Autofocus(c)
    BY <1>5, AskKeepsLease DEF GuideStep, Autofocus, Tell
<1>6. ~QueueCapture(c) /\ ~GotoAndSolve(c)
    BY DEF QueueCapture, Look, GotoAndSolve, Tell, Ask, Goes, LeaseInv, NoCapture
<1> QED BY <1>1, <1>2, <1>3, <1>4, <1>5, <1>6 DEF Step

NoCaptureOps == Ops \cap {"capture", "solve"} = {}

LEMMA NextKeepsLease ==
    ASSUME NoCaptureOps, LeaseInv, [Next]_vars
    PROVE  LeaseInv' /\ (~raced' => [Lease!Next]_(Lease!lease))
<1>1. TypeInv'
    BY NextKeepsTypes DEF LeaseInv
<1>2. ASSUME NEW c \in Clients, Invoke(c) PROVE KeepsLease
    <2>1. PICK op \in Ops \ {"setSafety"} : Goes(c, pc[c], Entry(op))
        BY <1>2 DEF Invoke
    <2>2. Entry(op) \in Outside
        BY OpsAssumption DEF NoCaptureOps, Entry, Outside, Labels, Resting,
           GotoLabels, CaptureLabels, MotionOps, CoreOps
    <2>3. pc[c] \notin GotoLabels /\ pc[c] \notin AskLabels /\ UNCHANGED request
        BY <1>2, AtRestNoRequest DEF Invoke, AtRest, Resting, GotoLabels
    <2>4. pc' = [pc EXCEPT ![c] = Entry(op)]
        BY <2>1 DEF Goes
    <2> QED BY <2>2, <2>3, <2>4, MoveKeepsLease
<1>3. ASSUME NEW c \in Clients, Step(c) PROVE KeepsLease
    BY <1>3, StepKeepsLease
<1>4. ASSUME SetSystemState \/ UNCHANGED vars PROVE KeepsLease
    BY <1>4, StayKeepsLease DEF SetSystemState, vars, request
<1>5. KeepsLease
    BY <1>2, <1>3, <1>4 DEF Next
<1> QED BY <1>1, <1>5 DEF KeepsLease, LeaseInv

LEMMA InitHasLease == Init => LeaseInv /\ Lease!Init
<1> SUFFICES ASSUME Init PROVE LeaseInv /\ Lease!Init
    OBVIOUS
<1>1. state = "IDLE" /\ (\A c \in Clients : pc[c] = "idle" /\ at[c] = "out")
    BY DEF Init, StepsInit, MachineInit
<1>2. \A c \in Clients : ~InGoto(c)
    BY <1>1 DEF InGoto, GotoLabels
<1> QED BY <1>1, <1>2, InitHasTypes DEF LeaseInv, SlewingHeld, OneGoto, NoCapture,
                                        CaptureLabels, Lease!Init, Use, Holders

(* Until two requests race, SLEWING on record stands for exactly one goto  *)
(* in progress.                                                            *)
THEOREM SlewingCorrect ==
    ASSUME NoCaptureOps
    PROVE  Spec => []SlewingHeld
<1>1. LeaseInv /\ [Next]_vars => LeaseInv'
    BY NextKeepsLease
<1>2. LeaseInv => SlewingHeld
    BY DEF LeaseInv
<1> QED BY <1>1, <1>2, InitHasLease, PTL DEF Spec

(* Until two requests race, every step of the services is a step of the    *)
(* lease, or none of its business.                                         *)
THEOREM LeaseCorrect ==
    ASSUME NoCaptureOps
    PROVE  Spec => ImplementsLease
<1>1. LeaseInv /\ [Next]_vars => LeaseInv' /\ [~raced' => [Lease!Next]_(Lease!lease)]_vars
    BY NextKeepsLease
<1> QED BY <1>1, InitHasLease, PTL DEF Spec, ImplementsLease

-----------------------------------------------------------------------------
(* What a queued capture leaves behind                                     *)

(* Once the capture's client has returned, only a gotoAndSolve is left to  *)
(* speak for the owner.                                                    *)
LEMMA StepHoldsCapture ==
    ASSUME TypeInv, LeftSlewing, NEW c \in Clients, Step(c), state' # "SLEWING", ~raced'
    PROVE  pc[c] = "solveDone" /\ at[c] = "storeState"
<1>1. state = "SLEWING" /\ ~InGoto(c) /\ pc[c] # "captureBlocked"
    BY DEF LeftSlewing
<1>2. PICK from \in AskLabels : AsksWith(c, from)
    BY <1>1, StepShape DEF request
<1>3. /\ pc[c] = from /\ ~raced
      /\ at[c] = "storeState" /\ state' = Wanted(c)
    BY <1>1, <1>2, AskShape DEF AsksWith, Reads, Stores, Settles
<1>4. owner = OwnerOf[state] /\ Permitted(Wanted(c), Asker(c))
    BY <1>3, StorePermitted
<1>5. Asker(c) = "GotoService" /\ "SLEWING" \in Sources[Wanted(c)]
    BY <1>1, <1>4 DEF Permitted, OwnerOf
<1>6. from = "solveDone"
    BY <1>1, <1>3, <1>5, TheAskLabels DEF Asker, Wanted, Arguments, Sources, InGoto, GotoLabels
<1> QED BY <1>3, <1>6

(* Until two requests race, SLEWING left behind by a queued capture is     *)
(* ended by a gotoAndSolve and by nothing else, however the calls of the   *)
(* clients interleave.                                                     *)
THEOREM CaptureCorrect == Spec => CaptureHolds
<1>1. ASSUME TypeInv, [Next]_vars, LeftSlewing, state' # "SLEWING", ~raced'
      PROVE  \E c \in Clients : pc[c] = "solveDone" /\ at[c] = "storeState"
    <2>1. state' # state
        BY <1>1 DEF LeftSlewing
    <2>2. PICK c \in Clients : Step(c)
        BY <1>1, <2>1 DEF Next, Invoke, SetSystemState, request, vars
    <2> QED BY <1>1, <2>2, StepHoldsCapture
<1>2. TypeInv /\ [Next]_vars
         => [LeftSlewing /\ state' # "SLEWING" /\ ~raced'
              => \E c \in Clients : pc[c] = "solveDone" /\ at[c] = "storeState"]_vars
    BY <1>1
<1> QED BY <1>2, InitHasTypes, NextKeepsTypes, PTL DEF Spec, CaptureHolds
=============================================================================

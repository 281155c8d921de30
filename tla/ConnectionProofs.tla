--------------------------- MODULE ConnectionProofs ---------------------------
(***************************************************************************)
(* Proofs about ConnectionManager, for any number of clients: types, and   *)
(* that a worker once started stays.                                       *)
(***************************************************************************)
EXTENDS ConnectionManager, TLAPS

(* Whoever makes a thread has announced it.                                *)
Announced == \A c \in Clients : pc[c] = "spawn" => running

(* Of the connection, known to the transport and to the mount.             *)
NetOK ==
    /\ connected \in BOOLEAN /\ alive \in BOOLEAN /\ linkUp \in BOOLEAN
    /\ alive => connected

(* Of the threads and their places.                                        *)
PlacesOK ==
    /\ running \in BOOLEAN /\ joinable \in BOOLEAN /\ crashed \in BOOLEAN
    /\ joinable => running
    /\ pc[Worker] = "absent" <=> ~joinable
    /\ status \in Status
    /\ pc \in [Threads -> Labels]
    /\ op \in [Threads -> Operations]
    /\ Announced

(* What a step may do to the connection: keep it, make it anew or close it,*)
(* or, when the link fails, lose it on the mount's side.                   *)
NetStep ==
    \/ UNCHANGED <<connected, alive, linkUp>>
    \/ connected' = linkUp /\ alive' = linkUp /\ UNCHANGED linkUp
    \/ \E t \in Threads : connected' = Succeeds(t) /\ alive' = Succeeds(t) /\ UNCHANGED linkUp
    \/ connected' = FALSE /\ alive' = FALSE /\ UNCHANGED linkUp
    \/ linkUp' = FALSE /\ alive' = alive /\ UNCHANGED connected
    \/ linkUp' = FALSE /\ alive' = FALSE /\ UNCHANGED connected
    \/ linkUp' = TRUE /\ UNCHANGED <<connected, alive>>

(* No step does more.                                                      *)
LEMMA NextNetStep == Next => NetStep
<1> SUFFICES ASSUME Next PROVE NetStep
  OBVIOUS
<1> USE DEF NetStep, net
<1>1. CASE LinkDown
  <2>1. alive' = alive \/ alive' = FALSE
    BY <1>1, Zenon DEF LinkDown
  <2> QED BY <1>1, <2>1, Zenon DEF LinkDown
<1>2. CASE LinkUp \/ ComeRound
  BY <1>2, Zenon DEF LinkUp, ComeRound
<1>3. ASSUME NEW t \in Threads, Busy(t)
      PROVE  NetStep
  BY <1>3, Zenon DEF Busy, Enter, AttemptConnect, Attempt, Mark, Dial, Talk, Exchange, HangUp
<1>4. ASSUME NEW c \in Clients, Begin(c) \/ Start(c) \/ MarkRunning(c) \/ Spawn(c)
      PROVE  NetStep
  BY <1>4, Zenon DEF Begin, Start, MarkRunning, Spawn
<1>5. \A c \in Clients : c \in Threads
  BY DEF Threads
<1>6. Worker \in Threads
  BY DEF Threads
<1> QED BY <1>1, <1>2, <1>3, <1>4, <1>5, <1>6, Zenon DEF Next, ClientStep

(* No step makes the mount know a connection that the transport has not.   *)
LEMMA NetKept ==
    ASSUME NetOK, NetStep
    PROVE  NetOK'
<1>1. connected' \in BOOLEAN /\ alive' \in BOOLEAN /\ linkUp' \in BOOLEAN
  BY Zenon DEF NetOK, NetStep, Succeeds
<1>2. alive' => connected'
  BY DEF NetOK, NetStep
<1> QED BY <1>1, <1>2 DEF NetOK

(* A thread at its work stays in the code that it is in.                   *)
LEMMA BusyPlaces ==
    ASSUME PlacesOK, NEW t \in Threads, Busy(t)
    PROVE  /\ UNCHANGED boot
           /\ op' = op /\ status' \in Status
           /\ \E to \in Labels \ {"absent", "start", "markRunning", "spawn"} :
                  pc' = [pc EXCEPT ![t] = to]
           /\ pc[t] \notin {"absent", "start", "markRunning", "spawn", "idle"}
BY DEF Busy, Enter, AttemptConnect, Attempt, Mark, Dial, Talk, Exchange, HangUp, Jump, Onward,
       PlacesOK, Status, Labels, Operations

(* The manager begins stopped, without a thread.                           *)
LEMMA InitOK == Init => PlacesOK /\ NetOK
<1> SUFFICES ASSUME Init PROVE PlacesOK /\ NetOK
  OBVIOUS
<1>1. PlacesOK
  BY WorkerAssumption DEF Init, PlacesOK, Announced, Threads, Labels, Operations, Status
<1>2. NetOK
  BY Zenon DEF Init, NetOK
<1> QED BY <1>1, <1>2

(* The flags are Boolean again.                                            *)
LEMMA BootKept ==
    ASSUME PlacesOK, Next
    PROVE  running' \in BOOLEAN /\ joinable' \in BOOLEAN /\ crashed' \in BOOLEAN
<1> USE DEF boot
<1>1. ASSUME NEW t \in Threads, Busy(t)
      PROVE  UNCHANGED boot
  BY <1>1, BusyPlaces
<1>2. CASE LinkDown \/ LinkUp \/ ComeRound
  BY <1>2, Zenon DEF LinkDown, LinkUp, ComeRound, PlacesOK
<1>3. ASSUME NEW c \in Clients, Begin(c) \/ Start(c) \/ MarkRunning(c) \/ Spawn(c)
      PROVE  running' \in BOOLEAN /\ joinable' \in BOOLEAN /\ crashed' \in BOOLEAN
  BY <1>3, Zenon DEF Begin, Start, MarkRunning, Spawn, PlacesOK
<1>4. CASE UNCHANGED boot
  BY <1>4, Zenon DEF PlacesOK
<1>5. Worker \in Threads /\ \A c \in Clients : c \in Threads
  BY DEF Threads
<1> QED BY <1>1, <1>2, <1>3, <1>4, <1>5, Zenon DEF Next, ClientStep

(* Every step leaves the threads in places that fit the flags.             *)
LEMMA PlacesKept ==
    ASSUME PlacesOK, Next
    PROVE  PlacesOK'
<1> USE DEF boot, net, PlacesOK, Announced, Threads, Jump
<1>0. running' \in BOOLEAN /\ joinable' \in BOOLEAN /\ crashed' \in BOOLEAN
  BY BootKept
<1>1. ASSUME NEW t \in Threads, Busy(t)
      PROVE  PlacesOK'
  BY <1>0, <1>1, BusyPlaces
<1>2. CASE LinkDown \/ LinkUp
  BY <1>0, <1>2 DEF LinkDown, LinkUp
<1>3. CASE ComeRound
  BY <1>0, <1>3, WorkerAssumption DEF ComeRound, Labels
<1>4. ASSUME NEW c \in Clients, Begin(c)
      PROVE  PlacesOK'
  BY <1>0, <1>4, WorkerAssumption DEF Begin, Labels
<1>5. ASSUME NEW c \in Clients, Start(c) \/ MarkRunning(c)
      PROVE  PlacesOK'
  BY <1>0, <1>5, WorkerAssumption DEF Start, MarkRunning, Labels
<1>6. ASSUME NEW c \in Clients, Spawn(c)
      PROVE  PlacesOK'
  BY <1>0, <1>6, WorkerAssumption DEF Spawn, Labels
<1> QED BY <1>1, <1>2, <1>3, <1>4, <1>5, <1>6 DEF Next, ClientStep

(* A step of a thread leaves a worker that is up as it is.                 *)
LEMMA UpStays ==
    ASSUME PlacesOK, Up, [Next]_vars
    PROVE  Up'
<1> USE DEF Up, boot, net, Jump, Threads, PlacesOK
<1>1. ASSUME NEW t \in Threads, Busy(t)
      PROVE  Up'
  <2>1. /\ UNCHANGED boot
        /\ \E to \in Labels \ {"absent", "start", "markRunning", "spawn"} :
              pc' = [pc EXCEPT ![t] = to]
    BY <1>1, BusyPlaces
  <2>2. \A c \in Clients : pc'[c] \notin {"markRunning", "spawn"}
    BY <2>1
  <2> QED BY <2>1, <2>2, Zenon
<1>2. CASE LinkDown \/ LinkUp \/ UNCHANGED vars
  <2>1. running' = running /\ joinable' = joinable /\ crashed' = crashed /\ pc' = pc
    BY <1>2, Zenon DEF LinkDown, LinkUp, vars
  <2> QED BY <2>1
<1>3. CASE ComeRound
  BY <1>3 DEF ComeRound
<1>4. ASSUME NEW c \in Clients, Begin(c) \/ Start(c)
      PROVE  Up'
  <2>1. UNCHANGED boot /\ pc' = [pc EXCEPT ![c] = "enter"]
    BY <1>4, Zenon DEF Begin, Start
  <2>2. \A d \in Clients : pc'[d] \notin {"markRunning", "spawn"}
    BY <2>1
  <2> QED BY <2>1, <2>2, Zenon
<1>5. ASSUME NEW c \in Clients, MarkRunning(c) \/ Spawn(c)
      PROVE  FALSE
  BY <1>5 DEF MarkRunning, Spawn
<1> QED BY <1>1, <1>2, <1>3, <1>4, <1>5 DEF Next, ClientStep

(* Every variable keeps its type, however the first calls clash.           *)
THEOREM Typed == Spec => []TypeOK
<1>1. Init => PlacesOK /\ NetOK
  BY InitOK
<1>2. PlacesOK /\ NetOK /\ [Next]_vars => (PlacesOK /\ NetOK)'
  <2>1. CASE UNCHANGED vars
    BY <2>1 DEF vars, boot, net, PlacesOK, Announced, NetOK
  <2>2. CASE Next
    BY <2>2, PlacesKept, NetKept, NextNetStep
  <2> QED BY <2>1, <2>2
<1>3. PlacesOK /\ NetOK => TypeOK
  BY DEF PlacesOK, NetOK, TypeOK
<1> QED BY <1>1, <1>2, <1>3, PTL DEF Spec

(* Once the worker runs and no call is on its way to start another, it     *)
(* runs on: no call of any client replaces its thread.                     *)
THEOREM StaysStarted == Spec => OnceStarted
<1>1. Init => PlacesOK
  BY InitOK
<1>2. PlacesOK /\ [Next]_vars => PlacesOK'
  <2>1. CASE UNCHANGED vars
    BY <2>1 DEF vars, boot, net, PlacesOK, Announced
  <2>2. CASE Next
    BY <2>2, PlacesKept
  <2> QED BY <2>1, <2>2
<1>3. PlacesOK /\ [Next]_vars => [Up => Up']_vars
  BY UpStays
<1> QED BY <1>1, <1>2, <1>3, PTL DEF Spec, OnceStarted
=============================================================================

-------------------------- MODULE ConnectionManager --------------------------
(***************************************************************************)
(* Lx200ConnectionManager: the worker thread that keeps the connection to  *)
(* the mount alive with a heartbeat, and the clients that send commands    *)
(* over the same transport.  Each call of the transport is one step here   *)
(* (module Transport opens it up); between those calls, and between them   *)
(* and the updates of the status on record, the threads interleave.        *)
(***************************************************************************)
CONSTANTS
    Clients,        \* the threads that send commands
    Worker          \* the thread of runLoop

ASSUME WorkerAssumption == Worker \notin Clients

Threads == Clients \cup {Worker}

VARIABLES
    running,        \* running_
    joinable,       \* worker_ stands for a thread
    crashed,        \* std::terminate was called
    status,         \* status_
    connected,      \* the transport's connected_
    alive,          \* the mount still knows this connection
    linkUp,         \* packets get through
    pc, op          \* of each thread: its place, and what it is in

net == <<connected, alive, linkUp>>
boot == <<running, joinable, crashed>>
vars == <<boot, status, net, pc, op>>

Status == {"Stopped", "Disconnected", "Connecting", "Connected", "Reconnecting"}

(* A "digit" is a command answered by a digit without '#', or not at all.  *)
Operations == {"beat", "send", "digit", "connect"}

Labels == {"absent", "idle", "start", "markRunning", "spawn", "enter", "reconnecting",
           "attempt", "connecting", "dial", "dialed", "undialed",
           "exchange", "beaten", "hangUp", "lost"}

Init ==
    /\ running = FALSE /\ joinable = FALSE /\ crashed = FALSE
    /\ status = "Stopped"
    /\ connected = FALSE /\ alive = FALSE /\ linkUp \in BOOLEAN
    /\ pc = [t \in Threads |-> IF t = Worker THEN "absent" ELSE "idle"]
    /\ op = [t \in Threads |-> IF t = Worker THEN "beat" ELSE "send"]

(* No thread moves in a process that has been terminated.                  *)
Jump(t, from, to) ==
    /\ ~crashed
    /\ pc[t] = from
    /\ pc' = [pc EXCEPT ![t] = to]

-----------------------------------------------------------------------------
(* start, which every call makes when it finds the manager not running     *)

Begin(c) ==
    /\ Jump(c, "idle", IF running THEN "enter" ELSE "start")
    /\ \E o \in Operations \ {"beat"} : op' = [op EXCEPT ![c] = o]
    /\ UNCHANGED <<boot, status, net>>

(* Variant: start() does not read running_ once more.                      *)
StartAtOnce(c) ==
    /\ Jump(c, "start", "markRunning")
    /\ UNCHANGED <<boot, status, net, op>>

(* start() reads running_ once more.  Nothing keeps two calls from finding *)
(* it false.                                                               *)
Start(c) ==
    /\ Jump(c, "start", IF running THEN "enter" ELSE "markRunning")
    /\ UNCHANGED <<boot, status, net, op>>

(* Variant: the flag is not set.                                           *)
SpawnUnmarked(c) ==
    /\ Jump(c, "markRunning", "spawn")
    /\ UNCHANGED <<boot, status, net, op>>

MarkRunning(c) ==
    /\ running' = TRUE
    /\ Jump(c, "markRunning", "spawn")
    /\ UNCHANGED <<joinable, crashed, status, net, op>>

(* worker_ = std::thread(...): assigning to a thread that is joinable      *)
(* calls std::terminate.                                                   *)
Spawn(c) ==
    /\ ~crashed /\ pc[c] = "spawn"
    /\ crashed' = joinable
    /\ joinable' = TRUE
    /\ pc' = [pc EXCEPT ![c] = "enter",
                        ![Worker] = IF joinable THEN @ ELSE "idle"]
    /\ UNCHANGED <<running, status, net, op>>

-----------------------------------------------------------------------------
(* attemptConnect, by the worker or by a client                            *)

(* Where a thread goes once it is connected, and when it cannot connect.   *)
Onward(t) == IF op[t] = "connect" THEN "idle" ELSE "exchange"

(* connect() goes straight to attemptConnect; sendCommand and runLoop look *)
(* at the transport first.                                                 *)
Enter(t) ==
    /\ Jump(t, "enter",
            CASE op[t] = "connect" -> "attempt"
              [] op[t] # "connect" /\ connected -> "exchange"
              [] op[t] \in {"send", "digit"} /\ ~connected -> "attempt"
              [] op[t] = "beat" /\ ~connected -> "reconnecting")
    /\ UNCHANGED <<boot, status, net, op>>

Mark(t, from, s, to) ==
    /\ Jump(t, from, to)
    /\ status' = s
    /\ UNCHANGED <<boot, net, op>>

Attempt(t) ==
    /\ Jump(t, "attempt", IF connected THEN Onward(t) ELSE "connecting")
    /\ UNCHANGED <<boot, status, net, op>>

(* Variant: the result of the connection attempt is not looked at.         *)
DialUnchecked(t) ==
    /\ Jump(t, "dial", "dialed")
    /\ connected' = linkUp /\ alive' = linkUp
    /\ UNCHANGED <<boot, status, linkUp, op>>

(* The transport closes the socket it has and opens another.               *)
Dial(t) ==
    /\ Jump(t, "dial", IF linkUp THEN "dialed" ELSE "undialed")
    /\ connected' = linkUp /\ alive' = linkUp
    /\ UNCHANGED <<boot, status, linkUp, op>>

(* Variant: the worker leaves its loop when it cannot connect.             *)
AttemptConnectOnce(t) ==
    \/ Mark(t, "reconnecting", "Reconnecting", "attempt")
    \/ Attempt(t)
    \/ Mark(t, "connecting", "Connecting", "dial")
    \/ Dial(t)
    \/ Mark(t, "dialed", "Connected", Onward(t))
    \/ Mark(t, "undialed", "Disconnected", IF t = Worker THEN "absent" ELSE "idle")

AttemptConnect(t) ==
    \/ Mark(t, "reconnecting", "Reconnecting", "attempt")
    \/ Attempt(t)
    \/ Mark(t, "connecting", "Connecting", "dial")
    \/ Dial(t)
    \/ Mark(t, "dialed", "Connected", Onward(t))
    \/ Mark(t, "undialed", "Disconnected", "idle")

-----------------------------------------------------------------------------
(* The exchange                                                            *)

(* transport_->send: connects if need be, exchanges, and disconnects when  *)
(* the exchange fails.  A reply without terminator is a failure.           *)
Succeeds(t) ==
    /\ linkUp
    /\ alive \/ ~connected
    /\ op[t] # "digit"

Exchange(t) ==
    /\ Jump(t, "exchange",
            CASE ~Succeeds(t) -> "hangUp"
              [] Succeeds(t) /\ op[t] = "beat" -> "beaten"
              [] Succeeds(t) /\ op[t] # "beat" -> "idle")
    /\ connected' = Succeeds(t) /\ alive' = Succeeds(t)
    /\ UNCHANGED <<boot, status, linkUp, op>>

(* The disconnect that follows a failure, a step after it: it closes       *)
(* whatever connection the transport has by then.                          *)
HangUp(t) ==
    /\ Jump(t, "hangUp", "lost")
    /\ connected' = FALSE /\ alive' = FALSE
    /\ UNCHANGED <<boot, status, linkUp, op>>

(* Variant: a good heartbeat is not recorded.                              *)
TalkWithoutBeat(t) ==
    \/ Exchange(t)
    \/ Mark(t, "beaten", status, "idle")
    \/ HangUp(t)
    \/ Mark(t, "lost", "Disconnected", "idle")

Talk(t) ==
    \/ Exchange(t)
    \/ Mark(t, "beaten", "Connected", "idle")
    \/ HangUp(t)
    \/ Mark(t, "lost", "Disconnected", "idle")

(* runLoop comes round after the heartbeat interval, or after a second.    *)
ComeRound ==
    /\ Jump(Worker, "idle", "enter")
    /\ UNCHANGED <<boot, status, net, op>>

-----------------------------------------------------------------------------
(* The link goes down and comes back; a connection may not survive that.   *)
LinkDown ==
    /\ linkUp
    /\ linkUp' = FALSE
    /\ alive' \in {alive, FALSE}
    /\ UNCHANGED <<boot, status, connected, pc, op>>

LinkUp ==
    /\ ~linkUp
    /\ linkUp' = TRUE
    /\ UNCHANGED <<boot, status, connected, alive, pc, op>>

Busy(t) == Enter(t) \/ AttemptConnect(t) \/ Talk(t)

ClientStep(c) == Start(c) \/ MarkRunning(c) \/ Spawn(c) \/ Busy(c)

Next ==
    \/ \E c \in Clients : Begin(c) \/ ClientStep(c)
    \/ Busy(Worker)
    \/ ComeRound
    \/ LinkDown
    \/ LinkUp

(* Threads run on: every call of the transport returns within the socket   *)
(* timeouts, and the worker's sleeps end.  No client is obliged to call.   *)
Fairness ==
    /\ \A c \in Clients : WF_vars(ClientStep(c))
    /\ WF_vars(Busy(Worker) \/ ComeRound)

Spec == Init /\ [][Next]_vars /\ Fairness

-----------------------------------------------------------------------------
(* The mount knows only connections the transport has, and the worker      *)
(* exists as soon as a thread object does.                                 *)
TypeOK ==
    /\ running \in BOOLEAN /\ joinable \in BOOLEAN /\ crashed \in BOOLEAN
    /\ connected \in BOOLEAN /\ alive \in BOOLEAN /\ linkUp \in BOOLEAN
    /\ alive => connected
    /\ joinable => running
    /\ pc[Worker] = "absent" <=> ~joinable
    /\ status \in Status
    /\ pc \in [Threads -> Labels]
    /\ op \in [Threads -> Operations]

(* The worker runs, and no call is between finding that it does not and    *)
(* starting it.                                                            *)
Up ==
    /\ running /\ joinable /\ ~crashed
    /\ \A c \in Clients : pc[c] \notin {"markRunning", "spawn"}

(* Once the first calls are through without a clash, the worker stays: no  *)
(* later call replaces its thread, which would end the process, also one   *)
(* that found it not running before it was.  Two calls that both find it   *)
(* not running do clash; nothing prevents that (lx200_connection_manager   *)
(* .cpp:55-61).                                                            *)
OnceStarted == [][Up => Up']_vars

(* Once the link is up for good, some call has started the worker and no   *)
(* command goes without its reply, the transport gets connected for good   *)
(* and the status says so, whatever losses and late disconnects of other   *)
(* threads came before, unless the calls that start it clash.              *)
SettlesConnected ==
    <>[](linkUp /\ joinable /\ ~crashed /\ \A c \in Clients : op[c] # "digit")
      => <>[](connected /\ status = "Connected")

(* Once the link is down for good, the status stops saying Connected.      *)
LossNoticed ==
    <>[](~linkUp /\ joinable /\ ~crashed) => <>[](status # "Connected")

(* Commands without a terminated reply cost the connection every time, but *)
(* the heartbeat keeps bringing it back.                                   *)
HeartbeatRecovers ==
    <>[](linkUp /\ joinable /\ ~crashed) => []<>(pc[Worker] = "beaten" /\ connected)
=============================================================================

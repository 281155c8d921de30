--------------------------- MODULE TransportPromise ---------------------------
(***************************************************************************)
(* What the connection manager and its threads rely on when they share the *)
(* socket transport (Lx200SocketTransport): every call of theirs takes the *)
(* connection as it finds it and leaves it open or closed, with no step of *)
(* another call in between.  Nobody sees the connection of a call that is  *)
(* under way: isConnected waits as well.                                   *)
(***************************************************************************)
CONSTANTS Threads, Commands

VARIABLES
    connection,     \* "open", "closed", or "taken" by an exchange
    place,          \* of each thread: how its last call ended, what it asks for,
                    \* or "exchange"
    command,        \* the command of its send
    answer          \* what its send returned

vars == <<connection, place, command, answer>>

Over == {"idle", "ok", "failed"}
Calls == {"send", "connect", "disconnect"}

Init ==
    /\ connection = "closed"
    /\ place = [t \in Threads |-> "idle"]
    /\ command \in [Threads -> Commands]
    /\ answer = [t \in Threads |-> <<>>]

Goes(t, from, to) == place[t] = from /\ place' = [place EXCEPT ![t] = to]

Ask(t) ==
    /\ \E end \in Over, call \in Calls : Goes(t, end, call)
    /\ \E c \in Commands : command' = [command EXCEPT ![t] = c]
    /\ answer' = [answer EXCEPT ![t] = <<>>]
    /\ UNCHANGED connection

Take(t) ==
    /\ connection # "taken" /\ connection' = "taken"
    /\ Goes(t, "send", "exchange")
    /\ UNCHANGED <<command, answer>>

(* A send that succeeds has its own reply, and leaves the connection open. *)
Succeed(t) ==
    /\ connection = "taken" /\ connection' = "open"
    /\ Goes(t, "exchange", "ok")
    /\ answer' = [answer EXCEPT ![t] = <<command[t]>>]
    /\ UNCHANGED command

(* A send that fails leaves it closed, so that nothing of it is left over. *)
Fail(t) ==
    /\ connection = "taken" /\ connection' = "closed"
    /\ Goes(t, "exchange", "failed")
    /\ UNCHANGED <<command, answer>>

Connect(t) ==
    /\ connection # "taken" /\ connection' \in {"open", "closed"}
    /\ Goes(t, "connect", "idle")
    /\ UNCHANGED <<command, answer>>

Disconnect(t) ==
    /\ connection # "taken" /\ connection' = "closed"
    /\ Goes(t, "disconnect", "idle")
    /\ UNCHANGED <<command, answer>>

Next ==
    \E t \in Threads :
        Ask(t) \/ Take(t) \/ Succeed(t) \/ Fail(t) \/ Connect(t) \/ Disconnect(t)

Spec == Init /\ [][Next]_vars
===============================================================================

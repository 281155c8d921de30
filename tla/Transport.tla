------------------------------ MODULE Transport ------------------------------
(***************************************************************************)
(* Lx200SocketTransport: one TCP connection to the mount, shared by every  *)
(* thread that sends a command and by the heartbeat.  A mutex is held for  *)
(* a whole exchange: connect if need be, write the command, read up to the *)
(* terminator '#' or until the receive timeout.                            *)
(*                                                                         *)
(* Nothing in the protocol ties a reply to a command.  The link may go     *)
(* down and come back, and the mount may answer after the timeout.         *)
(***************************************************************************)
EXTENDS Naturals, Sequences

CONSTANTS
    Threads,
    Framed,         \* commands the mount answers with a reply that ends in '#'
    Unframed,       \* commands it answers with a bare digit
    Silent,         \* commands it does not answer
    Flaky           \* whether the link may fail

Commands == Framed \cup Unframed \cup Silent

ASSUME KindsAssumption ==
    /\ Framed \cap Unframed = {}
    /\ (Framed \cup Unframed) \cap Silent = {}
    /\ Commands # {}
    /\ Flaky \in BOOLEAN

VARIABLES
    mutex,          \* the threads inside a locked section: one at most
    open,           \* connected_ and a valid socket_fd_
    pending,        \* commands written whose answer has not arrived
    stream,         \* replies that have arrived, each named by its command
    linkUp,         \* packets get through
    pc, cmd, reply  \* of each thread: its place, its command, what it read

vars == <<mutex, open, pending, stream, linkUp, pc, cmd, reply>>
line == <<open, pending, stream>>

Resting == {"idle", "ok", "failed"}
Calls == {"send", "connect", "disconnect"}
Locked == {"ensure", "write", "read"}

Init ==
    /\ mutex = {} /\ open = FALSE /\ pending = <<>> /\ stream = <<>>
    /\ linkUp = TRUE
    /\ pc = [t \in Threads |-> "idle"]
    /\ cmd = [t \in Threads |-> CHOOSE c \in Commands : TRUE]
    /\ reply = [t \in Threads |-> <<>>]

Jump(t, from, to) == pc[t] = from /\ pc' = [pc EXCEPT ![t] = to]

(* Closing the socket throws away what was still on its way.               *)
Close == open' = FALSE /\ pending' = <<>> /\ stream' = <<>>
Open == open' = TRUE /\ pending' = <<>> /\ stream' = <<>>

-----------------------------------------------------------------------------
(* The threads                                                             *)

Call(t) ==
    /\ pc[t] \in Resting
    /\ \E call \in Calls : Jump(t, pc[t], call)
    /\ \E c \in Commands : cmd' = [cmd EXCEPT ![t] = c]
    /\ reply' = [reply EXCEPT ![t] = <<>>]
    /\ UNCHANGED <<mutex, line, linkUp>>

(* Variant: the mutex protects the socket, not the exchange.               *)
LockWithoutWaiting(t) ==
    /\ mutex' = mutex \cup {t}
    /\ Jump(t, "send", "ensure")
    /\ UNCHANGED <<line, linkUp, cmd, reply>>

LockForSend(t) ==
    /\ mutex = {}
    /\ mutex' = {t}
    /\ Jump(t, "send", "ensure")
    /\ UNCHANGED <<line, linkUp, cmd, reply>>

(* ensureConnectedLocked                                                   *)
EnsureConnected(t) ==
    /\ \/ open /\ Jump(t, "ensure", "write") /\ UNCHANGED <<mutex, line>>
       \/ ~open /\ linkUp /\ Jump(t, "ensure", "write") /\ Open /\ UNCHANGED mutex
       \/ ~open /\ ~linkUp /\ Jump(t, "ensure", "failed") /\ Close /\ mutex' = mutex \ {t}
    /\ UNCHANGED <<linkUp, cmd, reply>>

(* On a link that is down a write fails at once, or waits in the buffers   *)
(* for the link to return.                                                 *)
Write(t) ==
    /\ \/ /\ Jump(t, "write", "read")
          /\ pending' = Append(pending, cmd[t])
          /\ UNCHANGED <<mutex, open, stream>>
       \/ ~linkUp /\ Jump(t, "write", "failed") /\ Close /\ mutex' = mutex \ {t}
    /\ UNCHANGED <<linkUp, cmd, reply>>

(* readUntilTerminatorLocked takes what has arrived and returns when it    *)
(* meets a terminator.                                                     *)
Read(t) ==
    /\ stream # <<>>
    /\ stream' = Tail(stream)
    /\ reply' = [reply EXCEPT ![t] = Append(@, Head(stream))]
    /\ IF Head(stream) \in Framed
       THEN Jump(t, "read", "ok") /\ mutex' = mutex \ {t}
       ELSE Jump(t, "read", "read") /\ UNCHANGED mutex
    /\ UNCHANGED <<open, pending, linkUp, cmd>>

(* Variants: the socket is kept; the lock is kept.                         *)
ReadFailsKeepingSocket(t) ==
    /\ stream = <<>>
    /\ Jump(t, "read", "failed")
    /\ mutex' = mutex \ {t}
    /\ UNCHANGED <<line, linkUp, cmd, reply>>

ReadFailsKeepingLock(t) ==
    /\ stream = <<>>
    /\ Jump(t, "read", "failed")
    /\ Close
    /\ UNCHANGED <<mutex, linkUp, cmd, reply>>

(* recv finds nothing within timeout_seconds, or an error.                 *)
ReadFails(t) ==
    /\ stream = <<>>
    /\ Jump(t, "read", "failed")
    /\ Close
    /\ mutex' = mutex \ {t}
    /\ UNCHANGED <<linkUp, cmd, reply>>

(* connect and disconnect, each under the mutex from start to end.         *)
Connect(t) ==
    /\ mutex = {}
    /\ Jump(t, "connect", "idle")
    /\ IF linkUp THEN Open ELSE Close
    /\ UNCHANGED <<mutex, linkUp, cmd, reply>>

(* Variant: the socket is closed without waiting for the mutex.            *)
DisconnectAtOnce(t) ==
    /\ Jump(t, "disconnect", "idle")
    /\ Close
    /\ UNCHANGED <<mutex, linkUp, cmd, reply>>

Disconnect(t) ==
    /\ mutex = {}
    /\ Jump(t, "disconnect", "idle")
    /\ Close
    /\ UNCHANGED <<mutex, linkUp, cmd, reply>>

-----------------------------------------------------------------------------
(* The link and the mount                                                  *)

(* An answer arrives, in the order of the commands.                        *)
Answer ==
    /\ linkUp /\ pending # <<>>
    /\ pending' = Tail(pending)
    /\ stream' = IF Head(pending) \in Silent THEN stream ELSE Append(stream, Head(pending))
    /\ UNCHANGED <<mutex, open, linkUp, pc, cmd, reply>>

LinkChanges == Flaky /\ linkUp' = ~linkUp /\ UNCHANGED <<mutex, line, pc, cmd, reply>>

Exchange(t) == EnsureConnected(t) \/ Write(t) \/ Read(t) \/ ReadFails(t)

Next ==
    \/ \E t \in Threads :
        Call(t) \/ LockForSend(t) \/ Exchange(t) \/ Connect(t) \/ Disconnect(t)
    \/ Answer
    \/ LinkChanges

(* A thread that holds the mutex runs on: connect, send and recv all       *)
(* return within the socket timeouts.                                      *)
Spec == Init /\ [][Next]_vars /\ \A t \in Threads : WF_vars(Exchange(t))

-----------------------------------------------------------------------------
(* One command at a time is under way on the line.                         *)
TypeOK ==
    /\ mutex \subseteq Threads
    /\ open \in BOOLEAN /\ linkUp \in BOOLEAN
    /\ pending \in Seq(Commands) /\ stream \in Seq(Commands)
    /\ Len(pending) + Len(stream) <= 1
    /\ pc \in [Threads -> Resting \cup Calls \cup Locked]
    /\ cmd \in [Threads -> Commands]
    /\ reply \in [Threads -> Seq(Commands)]

(* A send that succeeds returns the reply to its own command, whole and    *)
(* nothing else, however late the mount answered earlier commands and      *)
(* however many threads share the connection.                              *)
OwnReply == \A t \in Threads : pc[t] = "ok" => reply[t] = <<cmd[t]>>

(* The mutex is given back, even by a thread whose mount never answers.    *)
MutexReleased == \A t \in Threads : t \in mutex ~> t \notin mutex

(* A thread inside a locked section is in its exchange; the connection     *)
(* cannot be looked at meanwhile.                                          *)
Place == [t \in Threads |-> IF pc[t] \in Locked THEN "exchange" ELSE pc[t]]

Connection == IF mutex # {} THEN "taken" ELSE IF open THEN "open" ELSE "closed"

Returned == [t \in Threads |-> IF pc[t] = "ok" THEN reply[t] ELSE <<>>]

Promise == INSTANCE TransportPromise
           WITH connection <- Connection, place <- Place, command <- cmd, answer <- Returned

(* The calls of the threads exclude each other from start to end, although *)
(* an exchange is many steps: one that succeeds returns its own reply over *)
(* a connection it leaves open, and one that fails leaves it closed.       *)
ImplementsPromise == Promise!Spec
=============================================================================

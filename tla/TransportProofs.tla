--------------------------- MODULE TransportProofs ---------------------------
(***************************************************************************)
(* Proofs about Transport, for any number of threads, any set of commands  *)
(* of each kind and any behaviour of the link.                             *)
(***************************************************************************)
EXTENDS Transport, TLAPS

Places == Resting \cup Calls \cup Locked

(* The mutex belongs to the thread inside a locked section, if any.        *)
Exclusion ==
    /\ \A t \in Threads : t \in mutex <=> pc[t] \in Locked
    /\ \A t, u \in mutex : t = u

Quiet == pending = <<>> /\ stream = <<>>

(* A command and its answer, from the write to the end of the exchange.    *)
Underway(t) ==
    \/ pending = <<cmd[t]>> /\ stream = <<>> /\ reply[t] = <<>>
    \/ pending = <<>> /\ stream = <<cmd[t]>> /\ reply[t] = <<>>
    \/ Quiet /\ reply[t] = <<>>
    \/ Quiet /\ reply[t] = <<cmd[t]>>

(* Every exchange starts on a quiet line and has the line to itself.       *)
Tidy ==
    /\ (\A t \in Threads : pc[t] # "read") => Quiet
    /\ \A t \in Threads :
        /\ pc[t] = "read" => Underway(t)
        /\ pc[t] \in {"send", "ensure", "write"} => reply[t] = <<>>

BasicTypes ==
    /\ mutex \subseteq Threads
    /\ open \in BOOLEAN /\ linkUp \in BOOLEAN
    /\ pc \in [Threads -> Places]
    /\ cmd \in [Threads -> Commands]
    /\ reply \in [Threads -> Seq(Commands)]

Inv == BasicTypes /\ Exclusion /\ Tidy /\ OwnReply

-----------------------------------------------------------------------------
(* Sequences of at most one element                                        *)

LEMMA OneElement ==
    ASSUME NEW S, NEW x \in S
    PROVE  /\ <<>> \in Seq(S) /\ <<x>> \in Seq(S)
           /\ Append(<<>>, x) = <<x>>
           /\ Head(<<x>>) = x /\ Tail(<<x>>) = <<>>
           /\ Len(<<>>) = 0 /\ Len(<<x>>) = 1
           /\ <<x>> # <<>>
OBVIOUS

LEMMA InvTypes == Inv => TypeOK
<1> SUFFICES ASSUME Inv PROVE TypeOK
    OBVIOUS
<1>1. BasicTypes
    BY DEF Inv
<1>2. /\ pending \in Seq(Commands) /\ stream \in Seq(Commands)
      /\ Len(pending) + Len(stream) <= 1
    <2>1. CASE Quiet
        BY <2>1, OneElement DEF Quiet
    <2>2. CASE \E t \in Threads : pc[t] = "read"
        <3>1. PICK t \in Threads : Underway(t)
            BY <2>2 DEF Inv, Tidy
        <3>2. cmd[t] \in Commands
            BY <1>1 DEF BasicTypes
        <3>3. CASE pending = <<cmd[t]>> /\ stream = <<>>
            BY <3>2, <3>3, OneElement
        <3>4. CASE pending = <<>> /\ stream = <<cmd[t]>>
            BY <3>2, <3>4, OneElement
        <3> QED BY <2>1, <3>1, <3>3, <3>4 DEF Underway, Quiet
    <2> QED BY <2>1, <2>2 DEF Inv, Tidy
<1> QED BY <1>1, <1>2 DEF TypeOK, BasicTypes, Places

-----------------------------------------------------------------------------
(* The steps                                                               *)

LEMMA InitHasInv == Init => Inv
<1> SUFFICES ASSUME Init PROVE Inv
    OBVIOUS
<1>1. cmd \in [Threads -> Commands]
    BY KindsAssumption DEF Init
<1>2. BasicTypes
    BY <1>1, OneElement DEF Init, BasicTypes, Places, Resting
<1> QED BY <1>2 DEF Init, Inv, Exclusion, Tidy, Quiet, OwnReply, Locked

(* A step of thread t that leaves the mutex to it or takes it, gives it    *)
(* back, or does not touch it.                                             *)
LEMMA MoveKeepsExclusion ==
    ASSUME Inv, NEW t \in Threads, NEW to \in Places, pc' = [pc EXCEPT ![t] = to],
           \/ /\ pc[t] \in Locked <=> to \in Locked
              /\ mutex' = mutex
           \/ mutex = {} /\ mutex' = {t} /\ to \in Locked
           \/ pc[t] \in Locked /\ to \notin Locked /\ mutex' = mutex \ {t}
    PROVE  Exclusion' /\ pc' \in [Threads -> Places] /\ mutex' \subseteq Threads
<1>1. pc \in [Threads -> Places] /\ mutex \subseteq Threads
    BY DEF Inv, BasicTypes
<1>2. Exclusion
    BY DEF Inv
<1>3. pc' \in [Threads -> Places] /\ mutex' \subseteq Threads
    BY <1>1
<1>4. \A u \in Threads : pc'[u] = IF u = t THEN to ELSE pc[u]
    BY <1>1
<1> QED BY <1>1, <1>2, <1>3, <1>4 DEF Exclusion

(* While one thread is in a locked section no other is in the middle of an *)
(* exchange.                                                               *)
LEMMA Alone ==
    ASSUME Inv, NEW t \in Threads, mutex = {} \/ pc[t] \in Locked,
           NEW u \in Threads, u # t
    PROVE  pc[u] \notin Locked
BY DEF Inv, Exclusion

LEMMA QuietOutsideRead ==
    ASSUME Inv, NEW t \in Threads, pc[t] # "read", mutex = {} \/ pc[t] \in Locked
    PROVE  Quiet
BY Alone DEF Inv, Tidy, Locked

LEMMA CallKeepsInv ==
    ASSUME Inv, NEW t \in Threads, Call(t)
    PROVE  Inv'
<1>1. PICK call \in Calls : pc[t] \in Resting /\ pc' = [pc EXCEPT ![t] = call]
    BY DEF Call, Jump
<1>2. PICK c \in Commands : cmd' = [cmd EXCEPT ![t] = c]
    BY DEF Call
<1>3. BasicTypes /\ UNCHANGED <<mutex, line, linkUp>> /\ reply' = [reply EXCEPT ![t] = <<>>]
    BY DEF Call, Inv
<1>4. Exclusion' /\ pc' \in [Threads -> Places] /\ mutex' \subseteq Threads
    BY <1>1, <1>3, MoveKeepsExclusion DEF Places, Calls, Locked, Resting
<1>5. BasicTypes'
    BY <1>2, <1>3, <1>4, OneElement DEF BasicTypes, line
<1>6. \A u \in Threads : u # t => pc'[u] = pc[u] /\ cmd'[u] = cmd[u] /\ reply'[u] = reply[u]
    BY <1>1, <1>2, <1>3 DEF BasicTypes
<1>7. pc'[t] \in Calls /\ reply'[t] = <<>>
    BY <1>1, <1>3 DEF BasicTypes
<1>8. Tidy'
    BY <1>1, <1>3, <1>6, <1>7 DEF Inv, Tidy, Quiet, Underway, line, Calls, Resting
<1>9. OwnReply'
    BY <1>6, <1>7 DEF Inv, OwnReply, Calls
<1> QED BY <1>4, <1>5, <1>8, <1>9 DEF Inv

(* A step that ends with a quiet line, and does not move a thread from or  *)
(* to the middle of an exchange.                                           *)
LEMMA QuietStepKeepsInv ==
    ASSUME Inv, NEW t \in Threads, NEW to \in Places \ {"read", "ok"},
           pc' = [pc EXCEPT ![t] = to], UNCHANGED <<linkUp, cmd, reply>>,
           open' \in BOOLEAN, Quiet', Exclusion', mutex' \subseteq Threads,
           mutex = {} \/ pc[t] \in Locked,
           to \in {"send", "ensure", "write"} => reply[t] = <<>>
    PROVE  Inv'
<1>1. BasicTypes
    BY DEF Inv
<1>2. BasicTypes'
    BY <1>1 DEF BasicTypes
<1>3. \A u \in Threads : u # t => pc[u] \notin Locked
    BY Alone
<1>4. \A u \in Threads : pc'[u] = IF u = t THEN to ELSE pc[u]
    BY <1>1 DEF BasicTypes
<1>5. Tidy'
    BY <1>3, <1>4 DEF Inv, Tidy, Locked
<1>6. OwnReply'
    BY <1>4 DEF Inv, OwnReply
<1> QED BY <1>2, <1>5, <1>6 DEF Inv

LEMMA LockKeepsInv ==
    ASSUME Inv, NEW t \in Threads, LockForSend(t)
    PROVE  Inv'
<1>1. pc[t] = "send" /\ pc' = [pc EXCEPT ![t] = "ensure"] /\ mutex = {} /\ mutex' = {t}
    BY DEF LockForSend, Jump
<1>2. Exclusion' /\ mutex' \subseteq Threads
    BY <1>1, MoveKeepsExclusion DEF Places, Locked
<1>3. Quiet /\ reply[t] = <<>>
    BY <1>1, QuietOutsideRead DEF Inv, Tidy
<1>4. Quiet' /\ open' \in BOOLEAN
    BY <1>3 DEF LockForSend, line, Quiet, Inv, BasicTypes
<1> QED BY <1>1, <1>2, <1>3, <1>4, QuietStepKeepsInv DEF LockForSend, Places, Locked

LEMMA EnsureKeepsInv ==
    ASSUME Inv, NEW t \in Threads, EnsureConnected(t)
    PROVE  Inv'
<1>1. pc[t] = "ensure"
    BY DEF EnsureConnected, Jump
<1>2. PICK to \in {"write", "failed"} :
        /\ pc' = [pc EXCEPT ![t] = to]
        /\ mutex' = IF to = "write" THEN mutex ELSE mutex \ {t}
    BY DEF EnsureConnected, Jump
<1>3. Exclusion' /\ mutex' \subseteq Threads
    BY <1>1, <1>2, MoveKeepsExclusion DEF Places, Locked, Resting
<1>4. Quiet /\ reply[t] = <<>>
    BY <1>1, QuietOutsideRead DEF Inv, Tidy, Locked
<1>5. Quiet' /\ open' \in BOOLEAN
    BY <1>4 DEF EnsureConnected, Open, Close, line, Quiet, Inv, BasicTypes
<1> QED BY <1>1, <1>2, <1>3, <1>4, <1>5, QuietStepKeepsInv
        DEF EnsureConnected, Places, Locked, Resting

LEMMA WriteKeepsInv ==
    ASSUME Inv, NEW t \in Threads, Write(t)
    PROVE  Inv'
<1>1. pc[t] = "write" /\ UNCHANGED <<linkUp, cmd, reply>> /\ BasicTypes
    BY DEF Write, Jump, Inv
<1>2. Quiet /\ reply[t] = <<>>
    BY <1>1, QuietOutsideRead DEF Inv, Tidy, Locked
<1>3. CASE Jump(t, "write", "failed") /\ Close /\ mutex' = mutex \ {t}
    <2>1. pc' = [pc EXCEPT ![t] = "failed"] /\ Quiet' /\ open' \in BOOLEAN
        BY <1>3 DEF Jump, Close, Quiet
    <2>2. Exclusion' /\ mutex' \subseteq Threads
        BY <1>1, <1>3, <2>1, MoveKeepsExclusion DEF Places, Locked, Resting
    <2> QED BY <1>1, <2>1, <2>2, QuietStepKeepsInv DEF Places, Locked, Resting
<1>4. CASE /\ Jump(t, "write", "read") /\ pending' = Append(pending, cmd[t])
           /\ UNCHANGED <<mutex, open, stream>>
    <2>1. pc' = [pc EXCEPT ![t] = "read"]
        BY <1>4 DEF Jump
    <2>2. Exclusion' /\ mutex' \subseteq Threads /\ pc' \in [Threads -> Places]
        BY <1>1, <1>4, <2>1, MoveKeepsExclusion DEF Places, Locked
    <2>3. pending' = <<cmd[t]>> /\ stream' = <<>>
        BY <1>1, <1>2, <1>4, OneElement DEF Quiet, BasicTypes
    <2>4. \A u \in Threads : u # t => pc'[u] = pc[u] /\ pc[u] \notin Locked
        BY <1>1, <2>1, Alone DEF BasicTypes, Locked
    <2>5. pc'[t] = "read" /\ Underway(t)'
        BY <1>1, <1>2, <2>1, <2>3 DEF BasicTypes, Underway
    <2>6. Tidy'
        BY <1>1, <2>4, <2>5 DEF Inv, Tidy, Locked
    <2>7. OwnReply'
        BY <1>1, <2>4, <2>5 DEF Inv, OwnReply
    <2> QED BY <1>1, <1>4, <2>2, <2>6, <2>7 DEF Inv, BasicTypes
<1> QED BY <1>3, <1>4 DEF Write

LEMMA ReadKeepsInv ==
    ASSUME Inv, NEW t \in Threads, Read(t)
    PROVE  Inv'
<1>1. /\ pc[t] = "read" /\ stream # <<>> /\ BasicTypes
      /\ UNCHANGED <<open, pending, linkUp, cmd>>
    BY DEF Read, Jump, Inv
<1>2. pending = <<>> /\ stream = <<cmd[t]>> /\ reply[t] = <<>> /\ cmd[t] \in Commands
    BY <1>1 DEF Inv, Tidy, Underway, Quiet, BasicTypes
<1>3. Quiet'
    BY <1>1, <1>2, OneElement DEF Read, Quiet
<1>4. reply' = [reply EXCEPT ![t] = <<cmd[t]>>]
    BY <1>1, <1>2, OneElement DEF Read, BasicTypes
<1>5. PICK to \in {"ok", "read"} :
        /\ pc' = [pc EXCEPT ![t] = to]
        /\ mutex' = IF to = "read" THEN mutex ELSE mutex \ {t}
    BY DEF Read, Jump
<1>6. Exclusion' /\ mutex' \subseteq Threads /\ pc' \in [Threads -> Places]
    BY <1>1, <1>5, MoveKeepsExclusion DEF Places, Locked, Resting
<1>7. BasicTypes'
    BY <1>1, <1>2, <1>4, <1>6, OneElement DEF BasicTypes
<1>8. \A u \in Threads : u # t => pc'[u] = pc[u] /\ pc[u] \notin Locked /\ reply'[u] = reply[u]
    BY <1>1, <1>4, <1>5, Alone DEF BasicTypes, Locked
<1>9. pc'[t] \in {"ok", "read"} /\ reply'[t] = <<cmd'[t]>>
    BY <1>1, <1>4, <1>5 DEF BasicTypes
<1>10. Tidy'
    BY <1>3, <1>8, <1>9 DEF Inv, Tidy, Underway, Locked
<1>11. OwnReply'
    BY <1>1, <1>8, <1>9 DEF Inv, OwnReply
<1> QED BY <1>6, <1>7, <1>10, <1>11 DEF Inv

LEMMA GiveUpKeepsInv ==
    ASSUME Inv, NEW t \in Threads, ReadFails(t)
    PROVE  Inv'
<1>1. pc[t] = "read" /\ pc' = [pc EXCEPT ![t] = "failed"] /\ mutex' = mutex \ {t}
    BY DEF ReadFails, Jump
<1>2. Quiet' /\ open' \in BOOLEAN
    BY DEF ReadFails, Close, Quiet
<1>3. Exclusion' /\ mutex' \subseteq Threads
    BY <1>1, MoveKeepsExclusion DEF Places, Locked, Resting
<1> QED BY <1>1, <1>2, <1>3, QuietStepKeepsInv DEF ReadFails, Places, Locked, Resting

LEMMA ReopenKeepsInv ==
    ASSUME Inv, NEW t \in Threads, Connect(t) \/ Disconnect(t)
    PROVE  Inv'
<1>1. /\ pc[t] \in Calls /\ pc' = [pc EXCEPT ![t] = "idle"]
      /\ mutex = {} /\ mutex' = mutex
    BY DEF Connect, Disconnect, Jump, Calls
<1>2. Quiet' /\ open' \in BOOLEAN
    BY DEF Connect, Disconnect, Open, Close, Quiet
<1>3. Exclusion' /\ mutex' \subseteq Threads
    BY <1>1, MoveKeepsExclusion DEF Places, Calls, Locked, Resting
<1> QED BY <1>1, <1>2, <1>3, QuietStepKeepsInv DEF Connect, Disconnect, Places, Resting

LEMMA AnswerKeepsInv ==
    ASSUME Inv, Answer
    PROVE  Inv'
<1>1. pending # <<>> /\ BasicTypes /\ UNCHANGED <<mutex, open, linkUp, pc, cmd, reply>>
    BY DEF Answer, Inv
<1>2. PICK t \in Threads : pc[t] = "read"
    BY <1>1 DEF Inv, Tidy, Quiet
<1>3. pending = <<cmd[t]>> /\ stream = <<>> /\ reply[t] = <<>> /\ cmd[t] \in Commands
    BY <1>1, <1>2 DEF Inv, Tidy, Underway, Quiet, BasicTypes
<1>4. pending' = <<>> /\ (stream' = <<>> \/ stream' = <<cmd[t]>>)
    BY <1>3, OneElement DEF Answer
<1>5. \A u \in Threads : u # t => pc[u] \notin Locked
    BY <1>2, Alone DEF Locked
<1>6. Underway(t)'
    BY <1>1, <1>3, <1>4 DEF Underway, Quiet
<1>7. Tidy'
    BY <1>1, <1>2, <1>5, <1>6 DEF Inv, Tidy, Locked
<1> QED BY <1>1, <1>7 DEF Inv, BasicTypes, Exclusion, OwnReply

LEMMA NextKeepsInv == Inv /\ [Next]_vars => Inv'
<1> SUFFICES ASSUME Inv, [Next]_vars PROVE Inv'
    OBVIOUS
<1>1. ASSUME NEW t \in Threads, Call(t) \/ LockForSend(t) PROVE Inv'
    BY <1>1, CallKeepsInv, LockKeepsInv
<1>2. ASSUME NEW t \in Threads, Exchange(t) PROVE Inv'
    BY <1>2, EnsureKeepsInv, WriteKeepsInv, ReadKeepsInv, GiveUpKeepsInv DEF Exchange
<1>3. ASSUME NEW t \in Threads, Connect(t) \/ Disconnect(t) PROVE Inv'
    BY <1>3, ReopenKeepsInv
<1>4. CASE Answer
    BY <1>4, AnswerKeepsInv
<1>5. CASE LinkChanges
    BY <1>5 DEF LinkChanges, line, Inv, BasicTypes, Exclusion, Tidy, Quiet, Underway, OwnReply
<1>6. CASE UNCHANGED vars
    BY <1>6 DEF vars, line, Inv, BasicTypes, Exclusion, Tidy, Quiet, Underway, OwnReply
<1> QED BY <1>1, <1>2, <1>3, <1>4, <1>5, <1>6 DEF Next

(* Every variable keeps its type, and there is never more than one command *)
(* or reply on the line.                                                   *)
THEOREM LineCorrect == Spec => []TypeOK
<1> QED BY InitHasInv, NextKeepsInv, InvTypes, PTL DEF Spec

(* Two threads are never in a locked section at once.                      *)
THEOREM ExclusionCorrect == Spec => []Exclusion
<1>1. Inv => Exclusion
    BY DEF Inv
<1> QED BY <1>1, InitHasInv, NextKeepsInv, PTL DEF Spec

(* A send that succeeds returns the reply to its own command.              *)
THEOREM RepliesCorrect == Spec => []OwnReply
<1>1. Inv => OwnReply
    BY DEF Inv
<1> QED BY <1>1, InitHasInv, NextKeepsInv, PTL DEF Spec

-----------------------------------------------------------------------------
(* The calls as the connection manager sees them                           *)

(* Past ensureConnectedLocked the socket is open until the exchange ends.  *)
Opened == \A t \in Threads : pc[t] \in {"write", "read"} => open

LEMMA OpenedNext ==
    ASSUME Inv, Opened, [Next]_vars
    PROVE  Opened'
<1>1. ASSUME NEW t \in Threads, Call(t) \/ LockForSend(t) PROVE Opened'
    BY <1>1 DEF Call, LockForSend, Jump, line, Calls, Opened, Inv, BasicTypes
<1>2. ASSUME NEW t \in Threads, Exchange(t) PROVE Opened'
    <2>1. pc[t] \in Locked
        BY <1>2 DEF Exchange, EnsureConnected, Write, Read, ReadFails, Jump, Locked
    <2>2. \A u \in Threads : u # t => pc'[u] = pc[u] /\ pc[u] \notin Locked
        BY <1>2, <2>1, Alone
        DEF Exchange, EnsureConnected, Write, Read, ReadFails, Jump, Inv, BasicTypes
    <2>3. pc'[t] \in {"write", "read"} => open'
        BY <1>2 DEF Exchange, EnsureConnected, Write, Read, ReadFails, Jump, Opened, Inv,
                    BasicTypes, Open, line
    <2> QED BY <2>2, <2>3 DEF Opened, Locked
<1>3. ASSUME NEW t \in Threads, Connect(t) \/ Disconnect(t) PROVE Opened'
    <2>1. mutex = {} /\ pc' = [pc EXCEPT ![t] = "idle"]
        BY <1>3 DEF Connect, Disconnect, Jump
    <2>2. \A u \in Threads : pc'[u] \notin {"write", "read"}
        BY <2>1 DEF Inv, Exclusion, BasicTypes, Locked
    <2> QED BY <2>2 DEF Opened
<1>4. CASE Answer
    BY <1>4 DEF Answer, Opened
<1>5. CASE LinkChanges
    BY <1>5 DEF LinkChanges, line, Opened
<1>6. CASE UNCHANGED vars
    BY <1>6 DEF vars, Opened
<1> QED BY <1>1, <1>2, <1>3, <1>4, <1>5, <1>6 DEF Next

(* What a thread that goes on looks like from outside.                     *)
LEMMA MovesPlace ==
    ASSUME BasicTypes, NEW t \in Threads, NEW to, pc' = [pc EXCEPT ![t] = to],
           \A u \in Threads \ {t} : reply'[u] = reply[u]
    PROVE  /\ Place' = [Place EXCEPT ![t] = IF to \in Locked THEN "exchange" ELSE to]
           /\ Returned' = [Returned EXCEPT ![t] = IF to = "ok" THEN reply'[t] ELSE <<>>]
           /\ pc[t] # "ok" /\ to # "ok" => Returned' = Returned
<1>1. \A u \in Threads : pc'[u] = IF u = t THEN to ELSE pc[u]
    BY DEF BasicTypes
<1>2. Place' = [Place EXCEPT ![t] = IF to \in Locked THEN "exchange" ELSE to]
    BY <1>1 DEF Place
<1>3. Returned' = [Returned EXCEPT ![t] = IF to = "ok" THEN reply'[t] ELSE <<>>]
    BY <1>1 DEF Returned
<1>4. pc[t] # "ok" /\ to # "ok" => Returned' = Returned
    BY <1>1 DEF Returned
<1> QED BY <1>2, <1>3, <1>4

(* No thread has called yet.                                               *)
LEMMA InitPromised == Init => Promise!Init
<1> SUFFICES ASSUME Init PROVE Promise!Init
    OBVIOUS
<1>1. cmd \in [Threads -> Commands]
    BY InitHasInv DEF Inv, BasicTypes
<1>2. Connection = "closed"
    BY DEF Init, Connection
<1>3. Place = [t \in Threads |-> "idle"] /\ Returned = [t \in Threads |-> <<>>]
    BY DEF Init, Place, Returned, Locked
<1> QED BY <1>1, <1>2, <1>3 DEF Promise!Init

(* A thread that calls send, connect or disconnect.                        *)
LEMMA CallPromised ==
    ASSUME Inv, NEW t \in Threads, Call(t)
    PROVE  Promise!Ask(t)
<1>1. PICK call \in Calls : pc[t] \in Resting /\ pc' = [pc EXCEPT ![t] = call]
    BY DEF Call, Jump
<1>2. /\ BasicTypes /\ UNCHANGED <<mutex, open>> /\ reply' = [reply EXCEPT ![t] = <<>>]
      /\ \E c \in Commands : cmd' = [cmd EXCEPT ![t] = c]
    BY DEF Call, Inv, line
<1>3. call \notin Locked /\ call # "ok" /\ call \in Promise!Calls
    BY DEF Calls, Locked, Promise!Calls
<1>4. /\ Place' = [Place EXCEPT ![t] = call]
      /\ Returned' = [Returned EXCEPT ![t] = <<>>]
    BY <1>1, <1>2, <1>3, MovesPlace DEF BasicTypes
<1>5. Place[t] = pc[t] /\ pc[t] \in Promise!Over
    BY <1>1 DEF Place, Resting, Locked, Promise!Over
<1>6. Connection' = Connection
    BY <1>2 DEF Connection
<1> QED BY <1>2, <1>3, <1>4, <1>5, <1>6 DEF Promise!Ask, Promise!Goes

(* A thread that gets the mutex for an exchange.                           *)
LEMMA LockPromised ==
    ASSUME Inv, NEW t \in Threads, LockForSend(t)
    PROVE  Promise!Take(t)
<1>1. /\ pc[t] = "send" /\ pc' = [pc EXCEPT ![t] = "ensure"] /\ mutex = {} /\ mutex' = {t}
      /\ UNCHANGED <<cmd, reply>> /\ BasicTypes
    BY DEF LockForSend, Jump, Inv
<1>2. /\ Place' = [Place EXCEPT ![t] = "exchange"]
      /\ Returned' = Returned
    BY <1>1, MovesPlace DEF Locked
<1>3. Place[t] = "send"
    BY <1>1 DEF Place, Locked
<1>4. Connection # "taken" /\ Connection' = "taken"
    BY <1>1 DEF Connection
<1> QED BY <1>1, <1>2, <1>3, <1>4 DEF Promise!Take, Promise!Goes

(* The mutex is the exchange's.                                            *)
LEMMA Taken ==
    ASSUME Inv, NEW t \in Threads, pc[t] \in Locked
    PROVE  mutex = {t} /\ Connection = "taken" /\ Place[t] = "exchange"
<1>1. mutex = {t}
    BY DEF Inv, Exclusion, BasicTypes
<1> QED BY <1>1 DEF Connection, Place

(* A step within an exchange is not seen.                                  *)
LEMMA WithinPromised ==
    ASSUME Inv, NEW t \in Threads, pc[t] \in Locked, NEW to \in Locked,
           pc' = [pc EXCEPT ![t] = to], UNCHANGED <<mutex, cmd>>,
           \A u \in Threads \ {t} : reply'[u] = reply[u]
    PROVE  UNCHANGED Promise!vars
<1>1. pc[t] # "ok" /\ to # "ok" /\ BasicTypes
    BY DEF Inv, Locked
<1>2. Place' = [Place EXCEPT ![t] = "exchange"] /\ Returned' = Returned
    BY <1>1, MovesPlace
<1>3. Place' = Place
    BY <1>2, Taken DEF Place
<1>4. Connection' = Connection
    BY Taken DEF Connection
<1> QED BY <1>2, <1>3, <1>4 DEF Promise!vars

(* An exchange that fails has closed the socket before it ends.            *)
LEMMA FailPromised ==
    ASSUME Inv, NEW t \in Threads, pc[t] \in Locked,
           pc' = [pc EXCEPT ![t] = "failed"], Close, mutex' = mutex \ {t},
           UNCHANGED <<cmd, reply>>
    PROVE  Promise!Fail(t)
<1>1. /\ mutex = {t} /\ Connection = "taken" /\ Place[t] = "exchange"
      /\ BasicTypes /\ pc[t] # "ok"
    BY Taken DEF Inv, Locked
<1>2. "failed" \notin Locked /\ \A u \in Threads \ {t} : reply'[u] = reply[u]
    BY DEF Locked
<1>3. /\ Place' = [Place EXCEPT ![t] = "failed"]
      /\ Returned' = Returned
    <2>1. /\ Place' = [Place EXCEPT ![t] = IF "failed" \in Locked THEN "exchange" ELSE "failed"]
          /\ pc[t] # "ok" /\ "failed" # "ok" => Returned' = Returned
        BY <1>1, <1>2, MovesPlace, Zenon
    <2> QED BY <1>1, <1>2, <2>1
<1>4. Connection' = "closed"
    BY <1>1 DEF Connection, Close
<1> QED BY <1>1, <1>3, <1>4 DEF Promise!Fail, Promise!Goes

(* Reading on, or the terminator of the thread's own reply.                *)
LEMMA ReadPromised ==
    ASSUME Inv, Opened, NEW t \in Threads, Read(t)
    PROVE  Promise!Succeed(t) \/ UNCHANGED Promise!vars
<1>1. /\ pc[t] = "read" /\ open /\ BasicTypes
      /\ UNCHANGED <<open, cmd>>
    BY DEF Read, Jump, Inv, Opened
<1>2. reply' = [reply EXCEPT ![t] = Append(@, Head(stream))]
    BY DEF Read
<1>3. \A u \in Threads \ {t} : reply'[u] = reply[u]
    BY <1>1, <1>2 DEF BasicTypes
<1>4. mutex = {t} /\ Connection = "taken" /\ Place[t] = "exchange"
    BY <1>1, Taken DEF Locked
<1>5. CASE Jump(t, "read", "read") /\ UNCHANGED mutex
    BY <1>1, <1>3, <1>5, WithinPromised DEF Jump, Locked
<1>6. CASE Jump(t, "read", "ok") /\ mutex' = mutex \ {t}
    <2>1. pc' = [pc EXCEPT ![t] = "ok"]
        BY <1>6 DEF Jump
    <2>2. pc'[t] = "ok" /\ Inv'
        BY <1>1, <2>1, ReadKeepsInv DEF BasicTypes
    <2>3. reply'[t] = <<cmd[t]>>
        BY <1>1, <2>2 DEF Inv, OwnReply
    <2>4. /\ Place' = [Place EXCEPT ![t] = "ok"]
          /\ Returned' = [Returned EXCEPT ![t] = <<cmd[t]>>]
        BY <1>1, <1>3, <2>1, <2>3, MovesPlace DEF Locked
    <2>5. Connection' = "open"
        BY <1>1, <1>4, <1>6 DEF Connection
    <2> QED BY <1>1, <1>4, <2>4, <2>5 DEF Promise!Succeed, Promise!Goes
<1> QED BY <1>5, <1>6 DEF Read

(* connect and disconnect, which wait for exchanges to end.                *)
LEMMA ReopenPromised ==
    ASSUME Inv, NEW t \in Threads, Connect(t) \/ Disconnect(t)
    PROVE  Promise!Connect(t) \/ Promise!Disconnect(t)
<1>1. /\ pc[t] \in {"connect", "disconnect"} /\ pc' = [pc EXCEPT ![t] = "idle"]
      /\ mutex = {} /\ mutex' = {} /\ UNCHANGED <<cmd, reply>> /\ BasicTypes
      /\ open' \in BOOLEAN
    BY DEF Connect, Disconnect, Jump, Open, Close, Inv
<1>2. pc[t] = "disconnect" => open' = FALSE
    BY DEF Connect, Disconnect, Jump, Close
<1>3. /\ Place' = [Place EXCEPT ![t] = "idle"] /\ Place[t] = pc[t]
      /\ Returned' = Returned
    BY <1>1, MovesPlace DEF Place, Locked
<1>4. /\ Connection # "taken" /\ Connection' \in {"open", "closed"}
      /\ pc[t] = "disconnect" => Connection' = "closed"
    BY <1>1, <1>2 DEF Connection
<1> QED BY <1>1, <1>3, <1>4 DEF Promise!Connect, Promise!Disconnect, Promise!Goes

(* Every step of a thread, the mount or the link is a step of the calls,   *)
(* or is not seen.                                                         *)
LEMMA NextPromised ==
    ASSUME Inv, Opened, [Next]_vars
    PROVE  [Promise!Next]_Promise!vars
<1>1. ASSUME NEW t \in Threads, Call(t) \/ LockForSend(t) PROVE Promise!Next
    BY <1>1, CallPromised, LockPromised DEF Promise!Next
<1>2. ASSUME NEW t \in Threads, EnsureConnected(t)
      PROVE  Promise!Next \/ UNCHANGED Promise!vars
    <2>1. pc[t] = "ensure" /\ UNCHANGED <<cmd, reply>>
        BY <1>2 DEF EnsureConnected, Jump
    <2>2. CASE pc' = [pc EXCEPT ![t] = "write"] /\ UNCHANGED mutex
        BY <2>1, <2>2, WithinPromised DEF Locked
    <2>3. CASE pc' = [pc EXCEPT ![t] = "failed"] /\ Close /\ mutex' = mutex \ {t}
        BY <2>1, <2>3, FailPromised DEF Locked, Promise!Next
    <2> QED BY <1>2, <2>2, <2>3 DEF EnsureConnected, Jump
<1>3. ASSUME NEW t \in Threads, Write(t)
      PROVE  Promise!Next \/ UNCHANGED Promise!vars
    <2>1. pc[t] = "write" /\ UNCHANGED <<cmd, reply>>
        BY <1>3 DEF Write, Jump
    <2>2. CASE pc' = [pc EXCEPT ![t] = "read"] /\ UNCHANGED mutex
        BY <2>1, <2>2, WithinPromised DEF Locked
    <2>3. CASE pc' = [pc EXCEPT ![t] = "failed"] /\ Close /\ mutex' = mutex \ {t}
        BY <2>1, <2>3, FailPromised DEF Locked, Promise!Next
    <2> QED BY <1>3, <2>2, <2>3 DEF Write, Jump
<1>4. ASSUME NEW t \in Threads, Read(t)
      PROVE  Promise!Next \/ UNCHANGED Promise!vars
    BY <1>4, ReadPromised DEF Promise!Next
<1>5. ASSUME NEW t \in Threads, ReadFails(t)
      PROVE  Promise!Next
    BY <1>5, FailPromised DEF ReadFails, Jump, Locked, Promise!Next
<1>6. ASSUME NEW t \in Threads, Connect(t) \/ Disconnect(t) PROVE Promise!Next
    BY <1>6, ReopenPromised DEF Promise!Next
<1>7. CASE Answer \/ LinkChanges \/ UNCHANGED vars
    BY <1>7 DEF Answer, LinkChanges, vars, line, Promise!vars, Connection, Place, Returned
<1> QED BY <1>1, <1>2, <1>3, <1>4, <1>5, <1>6, <1>7 DEF Next, Exchange

(* An exchange of many steps is one call to the threads that share the     *)
(* transport: no other call happens within it, one that succeeds returns   *)
(* its own reply over a connection it leaves open, and one that fails      *)
(* leaves it closed, for any number of threads and any behaviour of the    *)
(* link.                                                                   *)
THEOREM CallsExclude == Spec => ImplementsPromise
<1>1. Init => Opened
    BY DEF Init, Opened
<1> QED BY <1>1, InitHasInv, NextKeepsInv, OpenedNext, InitPromised, NextPromised, PTL
        DEF Spec, ImplementsPromise, Promise!Spec
=============================================================================

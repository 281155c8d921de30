--------------------------- MODULE MountLinkProofs ---------------------------
(***************************************************************************)
(* Proofs about MountLink, for any coordinates, dates, losses and answers  *)
(* without terminator.                                                     *)
(***************************************************************************)
EXTENDS MountLink, SequenceTheorems, TLAPS

(* What a goto or sync still has to send; mid is the command that acts.    *)
Pointed(mid) ==
    {<<"Sr", "Sd", mid, "read">>, <<"Sd", mid, "read">>, <<mid, "read">>, <<"read">>, <<>>}

Positions == {"goto", "sync"}
AltAzCommands == {"Sa", "Sz", "MS", "CM", "read"}
SiteCommandNames == {"St", "Sg", "Sv", "SC", "SL", "SG"}
Commands == AltAzCommands \cup SiteCommandNames \cup {"Sr", "Sd", "Q"}

Calls == [op : Ops, pair : Requests \cup {Nobody}, written : Dates \cup {"empty"},
          timed : BOOLEAN, todo : Seq(Commands), ok : BOOLEAN, idle : BOOLEAN,
          zone : {"host", "other"}, alone : BOOLEAN]

(* The commands a call has left are those of its kind.                     *)
TodoOK(k) ==
    /\ k.op = "goto" => k.todo \in Pointed("MS")
    /\ k.op = "sync" => k.todo \in Pointed("CM")
    /\ k.op \in {"gotoAltAz", "syncAltAz"} => k.todo \in Seq(AltAzCommands)
    /\ k.op = "connect" => k.todo \in Seq(SiteCommandNames)
    /\ k.op = "abort" => k.todo \in Seq({"Q"})
    /\ k.op \in Positions /\ k.todo # <<>> => k.pair \in Requests

CallsOK == call \in [Clients -> Calls] /\ \A c \in Clients : TodoOK(call[c])

(* A call goes on with the rest of its commands.                           *)
LEMMA Tails ==
    /\ \A mid : /\ Tail(<<"Sr", "Sd", mid, "read">>) = <<"Sd", mid, "read">>
                /\ Tail(<<"Sd", mid, "read">>) = <<mid, "read">>
                /\ Tail(<<mid, "read">>) = <<"read">>
    /\ Tail(<<"read">>) = <<>>
OBVIOUS

(* So it does whatever they are.                                           *)
LEMMA TailTyped ==
    ASSUME NEW S, NEW s \in Seq(S), s # <<>>
    PROVE  Tail(s) \in Seq(S) /\ Head(s) \in S
OBVIOUS

(* The text of a coordinate stands for a whole number again.               *)
LEMMA SentTyped == \A v \in Int : AsSent(v) \in Int /\ DecAsSent(v) \in Int
<1>1. \A v \in Int : AsSent(v) \in Int
  BY DEF AsSent, Hundredths
<1> QED BY <1>1 DEF DecAsSent

(* The commands each call of the client sends (goToRaDec, syncToRaDec and  *)
(* their like, sendInitializationCommands, abort).                         *)
LEMMA ScriptTyped ==
    ASSUME NEW op \in Ops, NEW written, NEW timed
    PROVE  /\ Script(op, written, timed) \in Seq(Commands)
           /\ op = "goto" => Script(op, written, timed) = <<"Sr", "Sd", "MS", "read">>
           /\ op = "sync" => Script(op, written, timed) = <<"Sr", "Sd", "CM", "read">>
           /\ op \in {"gotoAltAz", "syncAltAz"} => Script(op, written, timed) \in Seq(AltAzCommands)
           /\ op = "connect" => Script(op, written, timed) \in Seq(SiteCommandNames)
           /\ op = "abort" => Script(op, written, timed) \in Seq({"Q"})
<1> USE DEF Script, Commands, AltAzCommands, SiteCommandNames
<1>1. CASE op = "goto"
  BY <1>1
<1>2. CASE op = "sync"
  BY <1>2
<1>3. CASE op = "gotoAltAz"
  BY <1>3
<1>4. CASE op = "syncAltAz"
  BY <1>4
<1>5. CASE op = "connect"
  <2>1. Script(op, written, timed) = SiteCommands(written, timed)
    BY <1>5
  <2>2. /\ <<"St", "Sg", "Sv">> \in Seq(SiteCommandNames) /\ <<"SC">> \in Seq(SiteCommandNames)
        /\ <<"SL">> \in Seq(SiteCommandNames) /\ <<"SG">> \in Seq(SiteCommandNames)
        /\ <<>> \in Seq(SiteCommandNames)
    OBVIOUS
  <2>3. SiteCommands(written, timed) \in Seq(SiteCommandNames)
    <3> HIDE DEF SiteCommandNames
    <3>1. \A sent : /\ Optional("SC", sent) \in Seq(SiteCommandNames)
                    /\ Optional("SL", sent) \in Seq(SiteCommandNames)
      BY <2>2 DEF Optional
    <3> QED BY <2>2, <3>1 DEF SiteCommands
  <2>4. SiteCommands(written, timed) \in Seq(Commands)
    <3>1. SiteCommandNames \subseteq Commands
      OBVIOUS
    <3> HIDE DEF SiteCommandNames, Commands
    <3> QED BY <2>3, <3>1
  <2> QED BY <1>5, <2>1, <2>3, <2>4
<1>6. CASE op = "abort"
  BY <1>6
<1> QED BY <1>1, <1>2, <1>3, <1>4, <1>5, <1>6 DEF Ops, Pointing

(* After a command, answered or not, those left are still of the call's    *)
(* kind.                                                                   *)
LEMMA LeftTodo ==
    ASSUME NEW k \in Calls, TodoOK(k), k.todo # <<>>, NEW answered \in BOOLEAN
    PROVE  /\ Left(k, answered) \in Seq(Commands)
           /\ k.op = "goto" => Left(k, answered) \in Pointed("MS")
           /\ k.op = "sync" => Left(k, answered) \in Pointed("CM")
           /\ k.op \in {"gotoAltAz", "syncAltAz"} => Left(k, answered) \in Seq(AltAzCommands)
           /\ k.op = "connect" => Left(k, answered) \in Seq(SiteCommandNames)
           /\ k.op = "abort" => Left(k, answered) \in Seq({"Q"})
<1>0. Tail(k.todo) \in Seq(Commands)
  BY TailTyped DEF Calls
<1>1. CASE answered
  <2>1. Left(k, answered) = Tail(k.todo)
    BY <1>1 DEF Left
  <2>2. k.op = "goto" => Tail(k.todo) \in Pointed("MS")
    BY Tails DEF TodoOK, Pointed
  <2>3. k.op = "sync" => Tail(k.todo) \in Pointed("CM")
    BY Tails DEF TodoOK, Pointed
  <2> QED BY <1>0, <2>1, <2>2, <2>3, TailTyped DEF TodoOK
<1>2. CASE ~answered
  <2>1. Left(k, answered) = IF k.op \in Pointing /\ Head(k.todo) # "read" THEN <<"read">> ELSE <<>>
    BY <1>2 DEF Left
  <2>2. /\ <<>> \in Seq(Commands) /\ <<>> \in Seq(AltAzCommands)
        /\ <<>> \in Seq(SiteCommandNames) /\ <<>> \in Seq({"Q"})
        /\ <<"read">> \in Seq(Commands) /\ <<"read">> \in Seq(AltAzCommands)
    BY DEF Commands, AltAzCommands
  <2>3. \A mid : <<>> \in Pointed(mid) /\ <<"read">> \in Pointed(mid)
    BY DEF Pointed
  <2> QED BY <2>1, <2>2, <2>3 DEF Pointing
<1> QED BY <1>1, <1>2

(* A call goes on as the same call, or is over; success is what all its    *)
(* commands agree on.                                                      *)
LEMMA AfterOK ==
    ASSUME NEW k \in Calls, TodoOK(k), k.todo # <<>>, NEW answered \in BOOLEAN
    PROVE  LET k1 == After(k, answered) IN
           /\ k1 \in Calls /\ TodoOK(k1)
           /\ k1.todo = Left(k, answered)
           /\ k1.ok = (k.ok /\ (answered \/ Head(k.todo) = "read"))
           /\ k1.todo # <<>> => /\ k1.op = k.op /\ k1.pair = k.pair /\ k1.written = k.written
                                /\ k1.timed = k.timed /\ k1.zone = k.zone /\ k1.alone = k.alone
<1> DEFINE ok == k.ok /\ (answered \/ Head(k.todo) = "read")
           k1 == After(k, answered)
           L == Left(k, answered)
<1>1. ok \in BOOLEAN
  BY Zenon
<1> HIDE DEF ok
<1>2. CASE L = <<>>
  <2>1. k1 = [Silent EXCEPT !.ok = ok]
    BY <1>2, Zenon DEF After, ok
  <2>2. k1 = [op |-> "abort", pair |-> Nobody, written |-> "empty", timed |-> FALSE,
              todo |-> <<>>, ok |-> ok, idle |-> FALSE, zone |-> "host", alone |-> TRUE]
    BY <2>1 DEF Silent
  <2>3. k1 \in Calls
    BY <1>1, <2>2 DEF Calls, Ops
  <2> QED BY <1>2, <2>2, <2>3 DEF TodoOK, Positions, ok
<1>3. CASE L # <<>>
  <2>1. k1 = [k EXCEPT !.ok = ok, !.todo = L]
    BY <1>3, Zenon DEF After, ok
  <2>2. k1 = [op |-> k.op, pair |-> k.pair, written |-> k.written, timed |-> k.timed,
              todo |-> L, ok |-> ok, idle |-> k.idle, zone |-> k.zone, alone |-> k.alone]
    BY <2>1 DEF Calls
  <2>3. k1 \in Calls
    BY <1>1, <2>2, LeftTodo DEF Calls
  <2> QED BY <1>3, <2>2, <2>3, LeftTodo DEF TodoOK, Positions, ok
<1> QED BY <1>2, <1>3

(* The mount's side.                                                       *)
Registers ==
    /\ target \in Pair
    /\ dest \in Pair \cup {Nobody} /\ at \in Pair \cup {Nobody}
    /\ stopping \in BOOLEAN /\ (stopping => dest # Nobody)
    /\ offset \in {"host", "other"}
    /\ date \in Reckonings /\ time \in Reckonings

(* What is asked for is a pair of coordinates.                             *)
LEMMA RequestsArePairs == Requests \subseteq Pair
BY CoordinatesAssumption DEF Requests, Pair

(* The mount's registers keep their types.                                 *)
LEMMA ObeyTyped ==
    ASSUME Registers, NEW cmd, NEW k, cmd \in {"Sr", "Sd"} => k.pair \in Requests, Obey(cmd, k)
    PROVE  Registers'
<1> USE DEF Registers, clock, Reckonings
<1>1. CASE SetRegister(cmd, k.pair)
  <2>1. k.pair \in Pair
    BY <1>1, RequestsArePairs DEF SetRegister
  <2>2. AsSent(k.pair.ra) \in Int /\ DecAsSent(k.pair.dec) \in Int
    BY <2>1, SentTyped DEF Pair
  <2>3. target' \in Pair
    BY <1>1, <2>2 DEF SetRegister, Pair
  <2> QED BY <1>1, <2>3 DEF SetRegister
<1>2. CASE Move
  <2>1. stopping' = TRUE \/ stopping' = stopping
    BY <1>2, Zenon DEF Move
  <2>2. stopping' \in BOOLEAN
    BY <2>1, Zenon
  <2>3. stopping' => dest' # Nobody
    BY <1>2 DEF Move
  <2>4. dest' \in Pair \cup {Nobody}
    BY <1>2 DEF Move
  <2> QED BY <1>2, <2>2, <2>3, <2>4 DEF Move
<1>3. CASE Synchronize
  BY <1>3 DEF Synchronize
<1>4. CASE Halt
  <2>1. stopping' \in BOOLEAN
    BY <1>4, Zenon DEF Halt
  <2> QED BY <1>4, <2>1 DEF Halt
<1>5. CASE SetSite(cmd, k.written)
  <2>1. date' \in Reckonings
    BY <1>5 DEF SetSite
  <2> QED BY <1>5, <2>1 DEF SetSite
<1>6. CASE NoMatter(cmd)
  BY <1>6 DEF NoMatter
<1> QED BY <1>1, <1>2, <1>3, <1>4, <1>5, <1>6 DEF Obey

(* Both are nought when the mount starts.                                  *)
LEMMA OriginTyped == Origin \in Pair
BY DEF Origin, Pair

(* No call is under way and the mount's registers have their types.        *)
LEMMA InitTyped == Init => CallsOK /\ Registers
<1> SUFFICES ASSUME Init PROVE CallsOK /\ Registers
  OBVIOUS
<1>1. Silent \in Calls /\ TodoOK(Silent)
  BY DEF Silent, Calls, Ops, TodoOK, Positions
<1>2. Registers
  <2>1. date \in Reckonings /\ time \in Reckonings
    BY DEF Init, Reckonings
  <2>2. stopping = FALSE /\ stopping \in BOOLEAN
    BY DEF Init
  <2>3. target = Origin /\ dest = Nobody /\ at = Nobody /\ offset \in {"host", "other"}
    BY DEF Init
  <2> QED BY <2>1, <2>2, <2>3, OriginTyped, Zenon DEF Registers
<1> QED BY <1>1, <1>2 DEF Init, CallsOK

(* A call begins with the commands of its kind, noting what it finds.      *)
LEMMA BeginSteps ==
    ASSUME CallsOK, Registers, NEW c \in Clients, Begin(c)
    PROVE  \E k \in Calls :
              /\ TodoOK(k) /\ call' = [call EXCEPT ![c] = k]
              /\ k.op \in Positions => Head(k.todo) = "Sr"
              /\ k.op = "connect" => k.todo = SiteCommands(k.written, k.timed) /\ k.zone = offset
<1>1. PICK op \in Ops :
      \E pair \in IF op \in {"goto", "sync"} THEN Requests ELSE {Nobody} :
      \E written \in IF op = "connect" THEN Dates ELSE {"empty"} :
      \E timed \in IF op = "connect" THEN BOOLEAN ELSE {FALSE} :
          call' = [call EXCEPT ![c] =
                     [op |-> op, pair |-> pair, written |-> written, timed |-> timed,
                      todo |-> Script(op, written, timed), ok |-> TRUE,
                      idle |-> op = "goto" /\ dest = Nobody /\ Ready,
                      zone |-> IF op = "connect" THEN offset ELSE "host",
                      alone |-> TRUE]]
  BY DEF Begin
<1> DEFINE Made(pair, written, timed) ==
               call' = [call EXCEPT ![c] =
                          [op |-> op, pair |-> pair, written |-> written, timed |-> timed,
                           todo |-> Script(op, written, timed), ok |-> TRUE,
                           idle |-> op = "goto" /\ dest = Nobody /\ Ready,
                           zone |-> IF op = "connect" THEN offset ELSE "host",
                           alone |-> TRUE]]
<1>2. \E pair \in IF op \in {"goto", "sync"} THEN Requests ELSE {Nobody} :
      \E written \in IF op = "connect" THEN Dates ELSE {"empty"} :
      \E timed \in IF op = "connect" THEN BOOLEAN ELSE {FALSE} : Made(pair, written, timed)
  BY <1>1
<1>2a. PICK pair \in IF op \in {"goto", "sync"} THEN Requests ELSE {Nobody},
            written \in IF op = "connect" THEN Dates ELSE {"empty"},
            timed \in IF op = "connect" THEN BOOLEAN ELSE {FALSE} : Made(pair, written, timed)
  <2> HIDE DEF Made
  <2> QED BY <1>2
<1> DEFINE idle == op = "goto" /\ dest = Nobody /\ Ready
           zone == IF op = "connect" THEN offset ELSE "host"
           todo == Script(op, written, timed)
           k == [op |-> op, pair |-> pair, written |-> written, timed |-> timed, todo |-> todo,
                 ok |-> TRUE, idle |-> idle, zone |-> zone, alone |-> TRUE]
<1>3. call' = [call EXCEPT ![c] = k]
  BY <1>2a
<1>4. /\ pair \in Requests \cup {Nobody} /\ written \in Dates \cup {"empty"}
      /\ op \in Positions => pair \in Requests
  BY DEF Positions
<1>5. idle \in BOOLEAN
  BY Zenon
<1>6. timed \in BOOLEAN
  <2>1. CASE op = "connect"
    BY <2>1
  <2>2. CASE op # "connect"
    BY <2>2
  <2> QED BY <2>1, <2>2
<1>7. zone \in {"host", "other"} /\ (op = "connect" => zone = offset)
  BY DEF Registers
<1>8. /\ todo \in Seq(Commands)
      /\ op = "goto" => todo = <<"Sr", "Sd", "MS", "read">>
      /\ op = "sync" => todo = <<"Sr", "Sd", "CM", "read">>
      /\ op \in {"gotoAltAz", "syncAltAz"} => todo \in Seq(AltAzCommands)
      /\ op = "connect" => todo \in Seq(SiteCommandNames)
      /\ op = "abort" => todo \in Seq({"Q"})
  BY <1>1, ScriptTyped, Zenon
<1>9. op = "connect" => todo = SiteCommands(written, timed)
  BY DEF Script
<1> HIDE DEF idle, zone, todo
<1>10. k \in Calls
  BY <1>4, <1>5, <1>6, <1>7, <1>8 DEF Calls
<1>11. /\ k.op = op /\ k.todo = todo /\ k.pair = pair
       /\ k.written = written /\ k.timed = timed /\ k.zone = zone
  OBVIOUS
<1> HIDE DEF k
<1>12. TodoOK(k)
  BY <1>4, <1>8, <1>11 DEF TodoOK, Pointed
<1>13. k.op \in Positions => Head(k.todo) = "Sr"
  BY <1>8, <1>11 DEF Positions
<1> QED BY <1>3, <1>7, <1>9, <1>10, <1>11, <1>12, <1>13

(* Of another call at most the note is taken that it has been met.         *)
Same(k, k1) ==
    /\ k1.alone \in BOOLEAN /\ (k1.alone => k.alone)
    /\ k1 = [k EXCEPT !.alone = k1.alone]

(* Such a call is still the same.                                          *)
LEMMA SameOK ==
    ASSUME NEW k \in Calls, TodoOK(k), NEW k1, Same(k, k1)
    PROVE  /\ k1 \in Calls /\ TodoOK(k1)
           /\ k1.op = k.op /\ k1.pair = k.pair /\ k1.written = k.written /\ k1.timed = k.timed
           /\ k1.todo = k.todo /\ k1.ok = k.ok /\ k1.zone = k.zone
<1> DEFINE alone == k1.alone
<1>1. alone \in BOOLEAN
  BY Zenon DEF Same
<1> HIDE DEF alone
<1>2. k1 = [op |-> k.op, pair |-> k.pair, written |-> k.written, timed |-> k.timed,
            todo |-> k.todo, ok |-> k.ok, idle |-> k.idle, zone |-> k.zone, alone |-> alone]
  BY DEF Same, Calls, alone
<1>3. k1 \in Calls
  BY <1>1, <1>2 DEF Calls
<1> QED BY <1>2, <1>3 DEF TodoOK

(* What a command and its answer do to the calls.                          *)
LEMMA SendSteps ==
    ASSUME CallsOK, NEW c \in Clients, Send(c)
    PROVE  /\ ~Waiting(c)
           /\ DOMAIN call' = Clients /\ call' \in [Clients -> {call'[d] : d \in Clients}]
           /\ \A d \in Clients : d # c => Same(call[d], call'[d])
           /\ \E answered \in BOOLEAN :
                 /\ call'[c] = After(call[c], answered)
                 /\ \/ /\ Obey(Head(call[c].todo), call[c])
                       /\ \A d \in Clients : d # c =>
                             (call'[d].alone => ~Disturbs(Head(call[c].todo), call[d]))
                    \/ /\ ~answered
                       /\ UNCHANGED <<target, dest, stopping, at, clock>>
<1> DEFINE cmd == Head(call[c].todo)
<1>0. ~Waiting(c)
  BY DEF Send
<1>1. ASSUME NEW answered \in BOOLEAN, call' = Met(c, cmd, answered)
      PROVE  /\ DOMAIN call' = Clients /\ call' \in [Clients -> {call'[d] : d \in Clients}]
             /\ call'[c] = After(call[c], answered)
             /\ \A d \in Clients : d # c =>
                   Same(call[d], call'[d]) /\ (call'[d].alone => ~Disturbs(cmd, call[d]))
  <2> HIDE DEF cmd
  <2>1. /\ DOMAIN call' = Clients /\ call' \in [Clients -> {call'[d] : d \in Clients}]
        /\ call'[c] = After(call[c], answered)
    BY <1>1 DEF Met
  <2>2. ASSUME NEW d \in Clients, d # c
        PROVE  Same(call[d], call'[d]) /\ (call'[d].alone => ~Disturbs(cmd, call[d]))
    <3> DEFINE met == call[d].alone /\ ~Disturbs(cmd, call[d])
    <3>1. call'[d] = [call[d] EXCEPT !.alone = met]
      BY <1>1, <2>2 DEF Met
    <3>2. met \in BOOLEAN /\ (met => call[d].alone) /\ (met => ~Disturbs(cmd, call[d]))
      BY Zenon
    <3>3. call[d] \in Calls
      BY DEF CallsOK
    <3> HIDE DEF met
    <3>4. call'[d].alone = met
      BY <3>1, <3>3 DEF Calls
    <3> QED BY <3>1, <3>2, <3>4 DEF Same
  <2> QED BY <2>1, <2>2
<1>2. CASE Obey(cmd, call[c]) /\ \E answered \in BOOLEAN : call' = Met(c, cmd, answered)
  BY <1>0, <1>1, <1>2
<1>3. CASE /\ call' = [call EXCEPT ![c] = After(@, FALSE)]
           /\ UNCHANGED <<target, dest, stopping, at, clock>>
  <2>1. /\ DOMAIN call' = Clients /\ call' \in [Clients -> {call'[d] : d \in Clients}]
        /\ call'[c] = After(call[c], FALSE)
        /\ \A d \in Clients : d # c => call'[d] = call[d]
    BY <1>3 DEF CallsOK
  <2>2. \A d \in Clients : Same(call[d], call[d])
    BY DEF CallsOK, Calls, Same
  <2> QED BY <1>0, <1>3, <2>1, <2>2
<1> QED BY <1>2, <1>3 DEF Send

(* A command keeps the types on both sides.                                *)
LEMMA SendTyped ==
    ASSUME CallsOK, Registers, NEW c \in Clients, Send(c)
    PROVE  CallsOK' /\ Registers'
<1>1. call[c] \in Calls /\ TodoOK(call[c]) /\ call[c].todo # <<>>
  BY SendSteps DEF CallsOK, Waiting
<1>2. CallsOK'
  <2>1. call'[c] \in Calls /\ TodoOK(call'[c])
    BY <1>1, SendSteps, AfterOK
  <2>2. \A d \in Clients : d # c => call'[d] \in Calls /\ TodoOK(call'[d])
    BY SendSteps, SameOK DEF CallsOK
  <2>3. call' \in [Clients -> {call'[d] : d \in Clients}]
    BY SendSteps
  <2> QED BY <2>1, <2>2, <2>3 DEF CallsOK
<1>3. Head(call[c].todo) \in {"Sr", "Sd"} => call[c].pair \in Requests
  <2>1. call[c].op \in Ops
    BY <1>1 DEF Calls
  <2>2. call[c].op \notin Positions => Head(call[c].todo) \notin {"Sr", "Sd"}
    BY <1>1, <2>1, TailTyped DEF TodoOK, Positions, Ops, Pointing, AltAzCommands, SiteCommandNames
  <2> QED BY <1>1, <2>2 DEF TodoOK
<1>4. Registers'
  <2>1. CASE Obey(Head(call[c].todo), call[c])
    BY <1>3, <2>1, ObeyTyped
  <2>2. CASE UNCHANGED <<target, dest, stopping, at, clock>>
    BY <2>2 DEF Registers, clock
  <2> QED BY <2>1, <2>2, SendSteps
<1> QED BY <1>2, <1>4

(* A restart of the mount leaves the calls, but for the note.              *)
LEMMA RestartSteps ==
    ASSUME CallsOK, Restart
    PROVE  /\ CallsOK'
           /\ \A c \in Clients : /\ Same(call[c], call'[c]) \/ call'[c].op \notin Setting
                                 /\ call'[c].op \in Setting => ~call'[c].alone
                                 /\ call'[c].todo = call[c].todo /\ call'[c].op = call[c].op
<1>1. ASSUME NEW c \in Clients
      PROVE  /\ call'[c] \in Calls /\ TodoOK(call'[c])
             /\ call'[c].op \in Setting => Same(call[c], call'[c]) /\ ~call'[c].alone
             /\ call'[c].todo = call[c].todo /\ call'[c].op = call[c].op
  <2> DEFINE k == call[c]
             alone == k.op \notin Setting
  <2>1. k \in Calls /\ TodoOK(k)
    BY DEF CallsOK
  <2>2. call'[c] = [k EXCEPT !.alone = alone]
    BY DEF Restart
  <2>3. alone \in BOOLEAN
    OBVIOUS
  <2> HIDE DEF k
  <2>4. alone => k.op \notin Setting
    OBVIOUS
  <2> HIDE DEF alone
  <2>5. call'[c] = [op |-> k.op, pair |-> k.pair, written |-> k.written, timed |-> k.timed,
                    todo |-> k.todo, ok |-> k.ok, idle |-> k.idle, zone |-> k.zone, alone |-> alone]
    BY <2>1, <2>2 DEF Calls
  <2>6. call'[c] \in Calls /\ TodoOK(call'[c])
    BY <2>1, <2>3, <2>5 DEF Calls, TodoOK
  <2>7. /\ call'[c].op = k.op /\ call'[c].todo = k.todo /\ call'[c].alone = alone
    BY <2>5
  <2> QED BY <2>2, <2>3, <2>4, <2>6, <2>7 DEF Same, k
<1>2. call' \in [Clients -> {call'[c] : c \in Clients}]
  BY DEF Restart
<1> QED BY <1>1, <1>2 DEF CallsOK

(* Every step does.                                                        *)
LEMMA NextTyped ==
    ASSUME CallsOK, Registers, [Next]_vars
    PROVE  CallsOK' /\ Registers'
<1>1. CASE UNCHANGED vars
  BY <1>1 DEF vars, clock, CallsOK, Registers
<1>2. CASE Arrive
  BY <1>2 DEF Arrive, CallsOK, Registers, clock
<1>3. CASE Restart
  <2>1. CallsOK'
    BY <1>3, RestartSteps
  <2>2. date' \in Reckonings /\ time' \in Reckonings
    BY <1>3 DEF Restart, Reckonings
  <2>3. stopping' = FALSE /\ stopping' \in BOOLEAN
    BY <1>3 DEF Restart
  <2>4. target' = Origin /\ dest' = Nobody /\ at' = Nobody /\ offset' = offset
    BY <1>3 DEF Restart
  <2> QED BY <2>1, <2>2, <2>3, <2>4, OriginTyped, Zenon DEF Registers
<1>4. ASSUME NEW c \in Clients, Begin(c)
      PROVE  CallsOK' /\ Registers'
  <2>1. CallsOK'
    BY <1>4, BeginSteps DEF CallsOK
  <2> QED BY <1>4, <2>1 DEF Begin, Registers, clock
<1>5. ASSUME NEW c \in Clients, Send(c)
      PROVE  CallsOK' /\ Registers'
  BY <1>5, SendTyped
<1> QED BY <1>1, <1>2, <1>3, <1>4, <1>5 DEF Next

(* Calls and registers have their types, for any coordinates, dates and    *)
(* losses, and however the threads interleave.                             *)
THEOREM Typed == Spec => []TypeOK
<1>1. CallsOK /\ Registers /\ [Next]_vars => (CallsOK /\ Registers)'
  BY NextTyped
<1>2. CallsOK /\ Registers => TypeOK
  BY DEF CallsOK, Calls, Registers, TypeOK
<1> QED BY <1>1, <1>2, InitTyped, PTL DEF Spec

-----------------------------------------------------------------------------
(* A goto or sync that reports success                                     *)

(* The coordinates a call has sent so far are those of the mount's target, *)
(* as long as it means to report success and has had the mount to itself.  *)
Aligned(k, t) ==
    k.alone /\ k.op \in Positions /\ k.ok /\ k.todo # <<>> =>
        /\ Head(k.todo) # "Sr" /\ ReadableRA(k.pair.ra) => t.ra = AsSent(k.pair.ra)
        /\ Head(k.todo) \notin {"Sr", "Sd"} /\ ReadableDec(k.pair.dec) => t.dec = DecAsSent(k.pair.dec)

LInv == CallsOK /\ Registers /\ \A c \in Clients : Aligned(call[c], target)

(* The commands of a goto or sync come in one order.                       *)
LEMMA PositionHead ==
    ASSUME NEW k \in Calls, TodoOK(k), k.op \in Positions, k.todo # <<>>
    PROVE  /\ Head(k.todo) \in {"Sr", "Sd", "MS", "CM", "read"}
           /\ Head(k.todo) = "Sr" => Head(Tail(k.todo)) = "Sd"
           /\ Head(k.todo) = "Sd" => Head(Tail(k.todo)) \in {"MS", "CM"}
           /\ Head(k.todo) \in {"MS", "CM"} => Tail(k.todo) = <<"read">>
           /\ Head(k.todo) # "read" => Tail(k.todo) # <<>>
           /\ Head(k.todo) = "read" => Tail(k.todo) = <<>>
<1>1. PICK mid \in {"MS", "CM"} : k.todo \in Pointed(mid)
  BY DEF TodoOK, Positions
<1>2. CASE k.todo = <<"Sr", "Sd", mid, "read">>
  BY <1>2
<1>3. CASE k.todo = <<"Sd", mid, "read">>
  BY <1>3
<1>4. CASE k.todo = <<mid, "read">>
  BY <1>4
<1>5. CASE k.todo = <<"read">>
  BY <1>5
<1> QED BY <1>1, <1>2, <1>3, <1>4, <1>5 DEF Pointed

(* A register takes what was sent to it and no other changes.              *)
LEMMA ObeyPosition ==
    ASSUME Registers, NEW k \in Calls, TodoOK(k), k.op \in Positions, k.todo # <<>>,
           Obey(Head(k.todo), k)
    PROVE  /\ Head(k.todo) = "Sr" =>
                  target'.dec = target.dec /\ (ReadableRA(k.pair.ra) => target'.ra = AsSent(k.pair.ra))
           /\ Head(k.todo) = "Sd" =>
                  target'.ra = target.ra /\ (ReadableDec(k.pair.dec) => target'.dec = DecAsSent(k.pair.dec))
           /\ Head(k.todo) \notin {"Sr", "Sd"} => target' = target
<1> DEFINE cmd == Head(k.todo)
<1>1. cmd \in {"Sr", "Sd", "MS", "CM", "read"}
  BY PositionHead
<1> HIDE DEF cmd
<1>2. cmd \in {"Sr", "Sd"} => SetRegister(cmd, k.pair)
  BY <1>1 DEF Obey, SetSite, NoMatter, cmd
<1>3. cmd \notin {"Sr", "Sd"} => target' = target
  BY <1>1 DEF Obey, Move, Synchronize, Halt, SetSite, NoMatter, SetRegister, cmd
<1>4. target \in Pair
  BY DEF Registers
<1> QED BY <1>2, <1>3, <1>4 DEF SetRegister, Pair, cmd

(* A command of a call that goes on, and means to report success, was      *)
(* obeyed and answered, and set its register.                              *)
LEMMA SendAligned ==
    ASSUME CallsOK, Registers, NEW c \in Clients, Aligned(call[c], target), Send(c)
    PROVE  /\ Aligned(call'[c], target')
           /\ Returns(c) /\ call'[c].ok /\ call[c].op \in Positions
                => call[c].ok /\ Head(call[c].todo) = "read" /\ target' = target
<1> DEFINE k == call[c]
           k1 == call'[c]
<1>1. k \in Calls /\ TodoOK(k) /\ k.todo # <<>>
  BY SendSteps DEF CallsOK, Waiting
<1>2. PICK answered \in BOOLEAN :
          /\ k1 = After(k, answered)
          /\ Obey(Head(k.todo), k) \/ (~answered /\ UNCHANGED target)
  BY SendSteps
<1>4. /\ k1.todo = Left(k, answered)
      /\ k1.ok = (k.ok /\ (answered \/ Head(k.todo) = "read"))
      /\ k1.todo # <<>> => k1.op = k.op /\ k1.pair = k.pair /\ k1.alone = k.alone
  BY <1>1, <1>2, AfterOK
<1> HIDE DEF k, k1
<1>5. CASE k.op \in Positions /\ k1.ok
  <2>1. k.ok /\ (answered \/ Head(k.todo) = "read")
    BY <1>4, <1>5
  <2>2. CASE Head(k.todo) = "read"
    <3>1. k1.todo = <<>>
      BY <1>1, <1>4, <1>5, <2>2, PositionHead DEF Left
    <3>2. target' = target
      BY <1>1, <1>2, <1>5, <2>2, ObeyPosition
    <3> QED BY <2>1, <2>2, <3>1, <3>2 DEF Aligned, k, k1
  <2>3. CASE Head(k.todo) # "read"
    <3>1. answered /\ Obey(Head(k.todo), k)
      BY <1>2, <2>1, <2>3
    <3>2. k1.todo = Tail(k.todo) /\ Tail(k.todo) # <<>>
      BY <1>1, <1>4, <1>5, <2>3, <3>1, PositionHead DEF Left
    <3>3. k1.op = k.op /\ k1.pair = k.pair /\ k1.alone = k.alone
      BY <1>4, <3>2
    <3>4. /\ Head(k.todo) \in {"Sr", "Sd", "MS", "CM"}
          /\ Head(k.todo) = "Sr" => Head(k1.todo) = "Sd"
      BY <1>1, <1>5, <2>3, <3>2, PositionHead
    <3>5. Aligned(k, target)
      BY DEF k
    <3>6. Aligned(k1, target')
      BY <1>1, <1>5, <2>1, <3>1, <3>2, <3>3, <3>4, <3>5, ObeyPosition DEF Aligned
    <3> QED BY <3>2, <3>6 DEF Returns, k, k1
  <2> QED BY <2>2, <2>3
<1>6. CASE ~(k.op \in Positions /\ k1.ok)
  <2>1. Aligned(k1, target')
    BY <1>4, <1>6 DEF Aligned
  <2> QED BY <1>6, <2>1 DEF k, k1
<1> QED BY <1>5, <1>6

(* A call that another's command has met without being disturbed finds its *)
(* part of the target as it was.                                           *)
LEMMA OthersAligned ==
    ASSUME CallsOK, NEW c \in Clients, Send(c), NEW d \in Clients, d # c, Aligned(call[d], target)
    PROVE  Aligned(call'[d], target')
<1> DEFINE k == call[d]
           k1 == call'[d]
           cmd == Head(call[c].todo)
<1>1. /\ Same(k, k1) /\ k1.op = k.op /\ k1.pair = k.pair /\ k1.todo = k.todo /\ k1.ok = k.ok
  BY SendSteps, SameOK DEF CallsOK
<1>2. \/ target' = target
      \/ Obey(cmd, call[c]) /\ (k1.alone => ~Disturbs(cmd, k))
  BY SendSteps
<1>3. Aligned(k, target)
  OBVIOUS
<1> HIDE DEF k, k1, cmd
<1> SUFFICES ASSUME k1.alone, k1.op \in Positions, k1.ok, k1.todo # <<>>
             PROVE  Aligned(k1, target')
  BY DEF Aligned, k1
<1>4. target' = target
  <2>1. CASE Obey(cmd, call[c]) /\ ~Disturbs(cmd, k)
    <3>1. cmd \notin {"Sr", "Sd"}
      BY <1>1, <2>1 DEF Disturbs, Positions
    <3> QED BY <2>1, <3>1 DEF Obey, SetRegister, Move, Synchronize, Halt, SetSite, NoMatter
  <2> QED BY <1>2, <2>1
<1> QED BY <1>1, <1>3, <1>4 DEF Aligned, Same

(* Every step keeps what such calls have set.                              *)
LEMMA NextAligned ==
    ASSUME LInv, [Next]_vars
    PROVE  LInv'
<1>1. CallsOK' /\ Registers'
  BY NextTyped DEF LInv
<1>2. CASE UNCHANGED vars
  BY <1>1, <1>2 DEF LInv, vars
<1>3. CASE Arrive
  BY <1>1, <1>3 DEF LInv, Arrive
<1>4. CASE Restart
  <2>1. \A c \in Clients : call'[c].alone => call'[c].op \notin Positions
    BY <1>4, RestartSteps DEF LInv, Setting, Positions
  <2>2. \A c \in Clients : Aligned(call'[c], target')
    BY <2>1 DEF Aligned
  <2> QED BY <1>1, <2>2 DEF LInv
<1>5. ASSUME NEW c \in Clients, Begin(c)
      PROVE  LInv'
  <2>1. /\ call'[c].op \in Positions => Head(call'[c].todo) = "Sr"
        /\ \A d \in Clients : d # c => call'[d] = call[d]
    BY <1>5, BeginSteps DEF LInv, CallsOK
  <2>2. Aligned(call'[c], target')
    BY <2>1 DEF Aligned
  <2>3. target' = target
    BY <1>5 DEF Begin
  <2>4. \A d \in Clients : Aligned(call'[d], target')
    BY <2>1, <2>2, <2>3 DEF LInv
  <2> QED BY <1>1, <2>4 DEF LInv
<1>6. ASSUME NEW c \in Clients, Send(c)
      PROVE  LInv'
  <2>1. Aligned(call'[c], target')
    BY <1>6, SendAligned DEF LInv
  <2>2. \A d \in Clients : d # c => Aligned(call'[d], target')
    BY <1>6, OthersAligned DEF LInv
  <2> QED BY <1>1, <2>1, <2>2 DEF LInv
<1> QED BY <1>2, <1>3, <1>4, <1>5, <1>6 DEF Next

(* A call returns by sending its last command.                             *)
LEMMA ReturnIsSend ==
    ASSUME CallsOK, Registers, [Next]_vars, NEW c \in Clients, Returns(c)
    PROVE  Send(c)
<1>1. call'[c].todo # call[c].todo
  BY DEF Returns, Waiting
<1>2. ASSUME NEW d \in Clients, d # c, Begin(d)
      PROVE  FALSE
  BY <1>1, <1>2, BeginSteps DEF CallsOK
<1>3. ASSUME NEW d \in Clients, d # c, Send(d)
      PROVE  FALSE
  BY <1>1, <1>3, SendSteps, SameOK DEF CallsOK
<1>4. ~Begin(c)
  BY DEF Begin, Returns
<1>5. ~Restart
  BY <1>1, RestartSteps
<1> QED BY <1>1, <1>2, <1>3, <1>4, <1>5 DEF Next, Arrive, vars

(* A goto or sync to a place the mount can read that reports success has   *)
(* the mount's target there, whatever was lost and whichever calls overlap *)
(* with it, unless one of them set the target or the mount restarted       *)
(* before it returned: the mount keeps the target between the commands     *)
(* (Goto.command.cpp).                                                     *)
THEOREM AcceptedRight == Spec => AcceptedAsAsked
<1>1. Init => LInv
  <2> SUFFICES ASSUME Init PROVE LInv
    OBVIOUS
  <2>1. \A c \in Clients : call[c].todo = <<>>
    BY DEF Init, Silent
  <2> QED BY <2>1, InitTyped DEF LInv, Aligned
<1>2. LInv /\ [Next]_vars => LInv'
  BY NextAligned
<1>3. LInv /\ [Next]_vars =>
        [\A c \in Clients :
           Returns(c) /\ call'[c].ok /\ call[c].op \in {"goto", "sync"}
           /\ Readable(call[c].pair) /\ call[c].alone
             => target' = Sent(call[c].pair)]_vars
  <2> SUFFICES ASSUME LInv, [Next]_vars, NEW c \in Clients,
                      Returns(c), call'[c].ok, call[c].op \in Positions,
                      Readable(call[c].pair), call[c].alone
               PROVE  target' = Sent(call[c].pair)
    BY DEF Positions
  <2>1. Send(c)
    BY ReturnIsSend DEF LInv
  <2>2. call[c].ok /\ Head(call[c].todo) = "read" /\ target' = target
    BY <2>1, SendAligned DEF LInv
  <2>3. call[c].todo # <<>>
    BY DEF Returns, Waiting
  <2>4. target.ra = AsSent(call[c].pair.ra) /\ target.dec = DecAsSent(call[c].pair.dec)
    BY <2>2, <2>3 DEF LInv, Aligned, Readable
  <2> QED BY <2>2, <2>4 DEF LInv, Registers, Pair, Sent
<1> QED BY <1>1, <1>2, <1>3, PTL DEF Spec, AcceptedAsAsked

-----------------------------------------------------------------------------
(* A connect that reports success                                          *)

(* What a connect with a date the mount can read still has to send, with a *)
(* time or without.                                                        *)
SiteTails(timed) ==
    IF timed
    THEN {<<"St", "Sg", "Sv", "SC", "SL", "SG">>, <<"Sg", "Sv", "SC", "SL", "SG">>,
          <<"Sv", "SC", "SL", "SG">>, <<"SC", "SL", "SG">>, <<"SL", "SG">>, <<"SG">>}
    ELSE {<<"St", "Sg", "Sv", "SC", "SG">>, <<"Sg", "Sv", "SC", "SG">>,
          <<"Sv", "SC", "SG">>, <<"SC", "SG">>, <<"SG">>}

(* A connect that found the host's offset, writes the date as the mount    *)
(* reads it and has had the clock to itself.                               *)
Timely(k) ==
    /\ k.op = "connect" /\ k.written = "short" /\ k.zone = "host" /\ k.alone
    /\ k.todo # <<>>

(* What such a call has sent so far the mount has reckoned right.          *)
OnTime(k, off, d, t) ==
    Timely(k) =>
        /\ off = "host"
        /\ k.todo \in SiteTails(k.timed)
        /\ k.todo \in {<<"SL", "SG">>, <<"SG">>} => d = "host"
        /\ k.timed /\ k.todo = <<"SG">> => t = "host"

TInv == CallsOK /\ Registers /\ \A c \in Clients : OnTime(call[c], offset, date, time)

(* A sequence with one more command at its end.                            *)
LEMMA Longer ==
    ASSUME NEW S, NEW s \in Seq(S), NEW x \in S, NEW w \in Seq(S), Len(w) = Len(s) + 1,
           \A i \in 1 .. Len(s) : w[i] = s[i], w[Len(s) + 1] = x
    PROVE  s \o <<x>> = w
<1>1. s \o <<x>> = Append(s, x)
  BY AppendIsConcat
<1>2. /\ Append(s, x) \in Seq(S) /\ Len(Append(s, x)) = Len(s) + 1
      /\ \A i \in 1 .. Len(s) : Append(s, x)[i] = s[i]
      /\ Append(s, x)[Len(s) + 1] = x
  BY AppendProperties
<1>3. Len(s) \in Nat
  OBVIOUS
<1>4. \A i \in 1 .. Len(w) : Append(s, x)[i] = w[i]
  BY <1>2, <1>3
<1> QED BY <1>1, <1>2, <1>4, SeqEqual

(* sendInitializationCommands, when there is a date.                       *)
LEMMA SiteScript ==
    ASSUME NEW timed \in BOOLEAN
    PROVE  SiteCommands("short", timed) \in SiteTails(timed) \ {<<"SG">>, <<"SL", "SG">>}
<1> DEFINE place == <<"St", "Sg", "Sv">>
           day == <<"St", "Sg", "Sv", "SC">>
           hour == <<"St", "Sg", "Sv", "SC", "SL">>
           long == <<"St", "Sg", "Sv", "SC", "SL", "SG">>
           short == <<"St", "Sg", "Sv", "SC", "SG">>
<1>1. /\ place \in Seq(SiteCommandNames) /\ day \in Seq(SiteCommandNames)
      /\ hour \in Seq(SiteCommandNames) /\ long \in Seq(SiteCommandNames)
      /\ short \in Seq(SiteCommandNames)
      /\ "SC" \in SiteCommandNames /\ "SL" \in SiteCommandNames /\ "SG" \in SiteCommandNames
  BY DEF SiteCommandNames
<1>2. /\ Len(day) = Len(place) + 1 /\ day[Len(place) + 1] = "SC"
      /\ \A i \in 1 .. Len(place) : day[i] = place[i]
  OBVIOUS
<1>3. /\ Len(hour) = Len(day) + 1 /\ hour[Len(day) + 1] = "SL"
      /\ \A i \in 1 .. Len(day) : hour[i] = day[i]
  OBVIOUS
<1>4. /\ Len(long) = Len(hour) + 1 /\ long[Len(hour) + 1] = "SG"
      /\ \A i \in 1 .. Len(hour) : long[i] = hour[i]
  OBVIOUS
<1>5. /\ Len(short) = Len(day) + 1 /\ short[Len(day) + 1] = "SG"
      /\ \A i \in 1 .. Len(day) : short[i] = day[i]
  OBVIOUS
<1>6. SiteCommands("short", timed) = ((place \o <<"SC">>) \o Optional("SL", timed)) \o <<"SG">>
  BY DEF SiteCommands, Optional
<1>7. timed => long \in SiteTails(timed) \ {<<"SG">>, <<"SL", "SG">>}
  BY DEF SiteTails
<1>8. ~timed => short \in SiteTails(timed) \ {<<"SG">>, <<"SL", "SG">>}
  BY DEF SiteTails
<1> HIDE DEF place, day, hour, long, short
<1>9. place \o <<"SC">> = day
  BY <1>1, <1>2, Longer
<1>10. CASE timed
  <2>1. day \o <<"SL">> = hour
    BY <1>1, <1>3, Longer
  <2>2. hour \o <<"SG">> = long
    BY <1>1, <1>4, Longer
  <2> QED BY <1>6, <1>7, <1>9, <1>10, <2>1, <2>2 DEF Optional
<1>11. CASE ~timed
  <2>1. day \o <<>> = day
    BY <1>1, ConcatEmptySeq
  <2>2. day \o <<"SG">> = short
    BY <1>1, <1>5, Longer
  <2> QED BY <1>6, <1>8, <1>9, <1>11, <2>1, <2>2 DEF Optional
<1> QED BY <1>10, <1>11

(* They are sent in this order, from the site's place to its offset.       *)
LEMMA SiteStep ==
    ASSUME NEW timed \in BOOLEAN, NEW todo \in SiteTails(timed)
    PROVE  /\ Head(todo) \in SiteCommandNames /\ todo # <<>>
           /\ Tail(todo) = <<>> <=> todo = <<"SG">>
           /\ Tail(todo) # <<>> => Tail(todo) \in SiteTails(timed)
           /\ Tail(todo) \in {<<"SL", "SG">>, <<"SG">>} =>
                  Head(todo) = "SC" \/ todo = <<"SL", "SG">>
           /\ timed /\ Tail(todo) = <<"SG">> => Head(todo) = "SL"
<1>1. CASE todo = <<"St", "Sg", "Sv", "SC", "SL", "SG">>
  BY <1>1 DEF SiteTails, SiteCommandNames
<1>2. CASE todo = <<"Sg", "Sv", "SC", "SL", "SG">>
  BY <1>2 DEF SiteTails, SiteCommandNames
<1>3. CASE todo = <<"Sv", "SC", "SL", "SG">>
  BY <1>3 DEF SiteTails, SiteCommandNames
<1>4. CASE todo = <<"SC", "SL", "SG">>
  BY <1>4 DEF SiteTails, SiteCommandNames
<1>5. CASE todo = <<"SL", "SG">>
  BY <1>5 DEF SiteTails, SiteCommandNames
<1>6. CASE todo = <<"SG">>
  BY <1>6 DEF SiteTails, SiteCommandNames
<1>7. CASE todo = <<"St", "Sg", "Sv", "SC", "SG">>
  BY <1>7 DEF SiteTails, SiteCommandNames
<1>8. CASE todo = <<"Sg", "Sv", "SC", "SG">>
  BY <1>8 DEF SiteTails, SiteCommandNames
<1>9. CASE todo = <<"Sv", "SC", "SG">>
  BY <1>9 DEF SiteTails, SiteCommandNames
<1>10. CASE todo = <<"SC", "SG">>
  BY <1>10 DEF SiteTails, SiteCommandNames
<1> QED BY <1>1, <1>2, <1>3, <1>4, <1>5, <1>6, <1>7, <1>8, <1>9, <1>10 DEF SiteTails

(* The clock after a command of any call: the offset is never taken from   *)
(* the host's again, and date and time are set with it.                    *)
LEMMA ObeyClock ==
    ASSUME NEW cmd, NEW k, Obey(cmd, k)
    PROVE  /\ offset = "host" => offset' = "host"
           /\ cmd # "SC" => date' = date
           /\ cmd = "SC" /\ k.written = "short" => date' = offset
           /\ cmd # "SL" => time' = time
           /\ cmd = "SL" => time' = offset
<1>1. CASE SetRegister(cmd, k.pair) \/ NoMatter(cmd)
  BY <1>1 DEF SetRegister, NoMatter, clock
<1>2. CASE cmd \in {"MS", "read"} /\ Move
  BY <1>2 DEF Move, clock
<1>3. CASE cmd = "CM" /\ Synchronize
  BY <1>3 DEF Synchronize, clock
<1>4. CASE cmd = "Q" /\ Halt
  BY <1>4 DEF Halt, clock
<1>5. CASE SetSite(cmd, k.written)
  BY <1>5 DEF SetSite
<1> QED BY <1>1, <1>2, <1>3, <1>4, <1>5 DEF Obey

(* A command of such a call was obeyed with the host's offset, or it is    *)
(* the call's last and the call has failed.                                *)
LEMMA SendOnTime ==
    ASSUME CallsOK, Registers, NEW c \in Clients,
           OnTime(call[c], offset, date, time), Send(c)
    PROVE  /\ OnTime(call'[c], offset', date', time')
           /\ Returns(c) /\ call'[c].ok /\ Timely(call[c])
                => date' = "host" /\ (call[c].timed => time' = "host")
<1> DEFINE k == call[c]
           k1 == call'[c]
<1>1. k \in Calls /\ TodoOK(k) /\ k.todo # <<>>
  BY SendSteps DEF CallsOK, Waiting
<1>2. PICK answered \in BOOLEAN :
          /\ k1 = After(k, answered)
          /\ Obey(Head(k.todo), k) \/ ~answered
  BY SendSteps
<1>3. /\ k1.todo = Left(k, answered)
      /\ k1.ok = (k.ok /\ (answered \/ Head(k.todo) = "read"))
      /\ k1.todo # <<>> => /\ k1.op = k.op /\ k1.written = k.written /\ k1.timed = k.timed
                           /\ k1.zone = k.zone /\ k1.alone = k.alone
  BY <1>1, <1>2, AfterOK
<1>4. OnTime(k, offset, date, time)
  OBVIOUS
<1>5. k.timed \in BOOLEAN
  BY <1>1 DEF Calls
<1> HIDE DEF k, k1
<1>6. Timely(k1) => Timely(k)
  BY <1>1, <1>3 DEF Timely
<1>7. CASE Timely(k)
  <2>1. /\ offset = "host" /\ k.todo \in SiteTails(k.timed)
        /\ k.todo \in {<<"SL", "SG">>, <<"SG">>} => date = "host"
        /\ k.timed /\ k.todo = <<"SG">> => time = "host"
    BY <1>4, <1>7 DEF OnTime
  <2>2. Head(k.todo) \in SiteCommandNames /\ Head(k.todo) # "read" /\ k.op \notin Pointing
    BY <1>5, <1>7, <2>1, SiteStep DEF Timely, Pointing, SiteCommandNames
  <2>3. CASE answered
    <3>1. k1.todo = Tail(k.todo)
      BY <1>3, <2>3 DEF Left
    <3>2. /\ offset' = "host"
          /\ date' = "host" \/ (date' = date /\ Head(k.todo) # "SC")
          /\ time' = "host" \/ (time' = time /\ Head(k.todo) # "SL")
      BY <1>2, <1>7, <2>1, <2>3, ObeyClock DEF Timely
    <3>3. /\ k1.todo # <<>> => k1.todo \in SiteTails(k.timed)
          /\ k1.todo \in {<<"SL", "SG">>, <<"SG">>} => Head(k.todo) = "SC" \/ k.todo = <<"SL", "SG">>
          /\ k.timed /\ k1.todo = <<"SG">> => Head(k.todo) = "SL"
          /\ k1.todo = <<>> => k.todo = <<"SG">>
      BY <1>5, <2>1, <3>1, SiteStep
    <3>4. k1.todo \in {<<"SL", "SG">>, <<"SG">>, <<>>} => date' = "host"
      BY <2>1, <3>2, <3>3
    <3>5. k.timed /\ k1.todo \in {<<"SG">>, <<>>} => time' = "host"
      BY <2>1, <3>2, <3>3
    <3>6. OnTime(k1, offset', date', time')
      BY <1>3, <3>2, <3>3, <3>4, <3>5 DEF OnTime, Timely
    <3> QED BY <3>4, <3>5, <3>6 DEF Returns, k, k1
  <2>4. CASE ~answered
    <3>1. k1.todo = <<>> /\ ~k1.ok
      BY <1>3, <2>2, <2>4 DEF Left
    <3>2. OnTime(k1, offset', date', time')
      BY <3>1 DEF OnTime, Timely
    <3> QED BY <3>1, <3>2 DEF k, k1
  <2> QED BY <2>3, <2>4
<1>8. CASE ~Timely(k)
  <2>1. OnTime(k1, offset', date', time')
    BY <1>6, <1>8 DEF OnTime
  <2> QED BY <1>8, <2>1 DEF k, k1
<1> QED BY <1>7, <1>8

(* A call that another's command has met without being disturbed finds     *)
(* date and time still right.                                              *)
LEMMA OthersOnTime ==
    ASSUME CallsOK, NEW c \in Clients, Send(c), NEW d \in Clients, d # c,
           OnTime(call[d], offset, date, time)
    PROVE  OnTime(call'[d], offset', date', time')
<1> DEFINE k == call[d]
           k1 == call'[d]
           cmd == Head(call[c].todo)
<1>1. /\ Same(k, k1) /\ k1.op = k.op /\ k1.written = k.written /\ k1.timed = k.timed
      /\ k1.todo = k.todo /\ k1.zone = k.zone
  BY SendSteps, SameOK DEF CallsOK
<1>2. \/ UNCHANGED <<offset, date, time>>
      \/ Obey(cmd, call[c]) /\ (k1.alone => ~Disturbs(cmd, k))
  BY SendSteps DEF clock
<1>3. OnTime(k, offset, date, time)
  OBVIOUS
<1> HIDE DEF k, k1, cmd
<1> SUFFICES ASSUME Timely(k1) PROVE OnTime(k1, offset', date', time')
  BY DEF OnTime, k1
<1>4. Timely(k) /\ offset = "host"
  BY <1>1, <1>3 DEF Timely, Same, OnTime
<1>5. offset' = "host" /\ date' = date /\ (time' = time \/ time' = "host")
  <2>1. CASE Obey(cmd, call[c]) /\ ~Disturbs(cmd, k)
    <3>1. cmd # "SC"
      BY <1>4, <2>1 DEF Disturbs, Timely
    <3> QED BY <1>4, <2>1, <3>1, ObeyClock
  <2> QED BY <1>2, <1>4, <2>1 DEF Timely
<1> QED BY <1>1, <1>3, <1>4, <1>5 DEF OnTime

(* A call begins with the offset it finds.                                 *)
LEMMA BeginOnTime ==
    ASSUME CallsOK, Registers, NEW c \in Clients, Begin(c)
    PROVE  /\ OnTime(call'[c], offset', date', time')
           /\ UNCHANGED clock
           /\ \A d \in Clients : d # c => call'[d] = call[d]
<1>1. PICK k \in Calls :
          /\ call' = [call EXCEPT ![c] = k]
          /\ k.op = "connect" => k.todo = SiteCommands(k.written, k.timed) /\ k.zone = offset
  BY BeginSteps
<1>2. call'[c] = k /\ \A d \in Clients : d # c => call'[d] = call[d]
  BY <1>1 DEF CallsOK
<1>3. UNCHANGED clock
  BY DEF Begin
<1>4. OnTime(k, offset', date', time')
  <2> SUFFICES ASSUME Timely(k) PROVE OnTime(k, offset', date', time')
    BY DEF OnTime
  <2>1. k.todo = SiteCommands("short", k.timed) /\ offset' = "host" /\ k.timed \in BOOLEAN
    BY <1>1, <1>3 DEF Timely, clock, Calls
  <2> QED BY <2>1, SiteScript DEF OnTime
<1> QED BY <1>2, <1>3, <1>4

(* Every step keeps what such a connect has set.                           *)
LEMMA NextOnTime ==
    ASSUME TInv, [Next]_vars
    PROVE  TInv'
<1>1. CallsOK' /\ Registers'
  BY NextTyped DEF TInv
<1>2. ASSUME NEW c \in Clients, Begin(c)
      PROVE  TInv'
  BY <1>1, <1>2, BeginOnTime DEF TInv, clock
<1>3. ASSUME NEW c \in Clients, Send(c)
      PROVE  TInv'
  BY <1>1, <1>3, SendOnTime, OthersOnTime DEF TInv
<1>4. CASE UNCHANGED vars
  BY <1>1, <1>4 DEF vars, clock, TInv
<1>5. CASE Arrive
  BY <1>1, <1>5 DEF Arrive, clock, TInv
<1>6. CASE Restart
  <2>1. \A c \in Clients : call'[c].alone => call'[c].op # "connect"
    BY <1>6, RestartSteps DEF TInv, Setting
  <2>2. \A c \in Clients : OnTime(call'[c], offset', date', time')
    BY <2>1 DEF OnTime, Timely
  <2> QED BY <1>1, <2>2 DEF TInv
<1> QED BY <1>2, <1>3, <1>4, <1>5, <1>6 DEF Next

(* A connect that reports success leaves the mount with the right date,    *)
(* and time if there is one to send, when its date is written as the mount *)
(* reads it and it found the host's offset, whatever was lost and however  *)
(* calls overlap, unless one of them set the date or the mount restarted   *)
(* before it returned (Site.command.cpp).                                  *)
THEOREM ClockSet == Spec => ClockRight
<1>1. Init => TInv
  <2> SUFFICES ASSUME Init PROVE TInv
    OBVIOUS
  <2>1. \A c \in Clients : call[c].todo = <<>>
    BY DEF Init, Silent
  <2> QED BY <2>1, InitTyped DEF TInv, OnTime, Timely
<1>2. TInv /\ [Next]_vars => TInv'
  BY NextOnTime
<1>3. TInv /\ [Next]_vars =>
        [\A c \in Clients :
           Returns(c) /\ call'[c].ok /\ call[c].op = "connect"
           /\ call[c].written = "short" /\ call[c].zone = "host" /\ call[c].alone
             => date' = "host" /\ (call[c].timed => time' = "host")]_vars
  <2> SUFFICES ASSUME TInv, [Next]_vars, NEW c \in Clients,
                      Returns(c), call'[c].ok, call[c].op = "connect",
                      call[c].written = "short", call[c].zone = "host", call[c].alone
               PROVE  date' = "host" /\ (call[c].timed => time' = "host")
    OBVIOUS
  <2>1. Send(c)
    BY ReturnIsSend DEF TInv
  <2>2. Timely(call[c])
    BY DEF Timely, Returns, Waiting
  <2> QED BY <2>1, <2>2, SendOnTime DEF TInv
<1> QED BY <1>1, <1>2, <1>3, PTL DEF Spec, ClockRight
=============================================================================

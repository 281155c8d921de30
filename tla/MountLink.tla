------------------------------ MODULE MountLink ------------------------------
(***************************************************************************)
(* How OnStepMountClient drives the mount: each of its calls is a sequence *)
(* of LX200 commands that set registers of the mount and then act on them. *)
(* A command may be lost, its answer may be lost, and the firmware's       *)
(* answers to most of them have no terminator, which the client takes for  *)
(* a failure of a command that the mount has obeyed.                       *)
(*                                                                         *)
(* Right ascensions and declinations are integer numbers of thousandths of *)
(* a second of time and of arc; the client takes any.                      *)
(***************************************************************************)
EXTENDS Integers, Sequences

CONSTANTS
    Clients,        \* threads that call the client
    RAs, Decs,      \* coordinates they ask for
    Dates,          \* how the host's date is written: "short" (MM/DD/YY),
                    \* "long" (MM/DD/YYYY), "iso", or "empty"
    Bare,           \* commands whose answer has no terminator, or that have none
    Lossy,          \* commands and answers may be lost, and the mount restart
    Refuses,        \* the mount may decline a position
    Nobody          \* not a coordinate pair

ASSUME CoordinatesAssumption == RAs \subseteq Int /\ Decs \subseteq Int
ASSUME DatesAssumption == Dates \subseteq {"short", "long", "iso", "empty"}
ASSUME SwitchesAssumption == {Lossy, Refuses} \subseteq BOOLEAN

VARIABLES
    call,       \* what each thread has asked for, and the commands it has left
    target,     \* Goto::gotoTarget of the mount, the right ascension and declination
    dest,       \* where a goto is going
    stopping,   \* it is being aborted
    at,         \* where the mount believes it points
    offset,     \* the time zone of the site: the host's, or another
    date, time  \* the offset the mount's date and time were reckoned with

clock == <<offset, date, time>>
vars == <<call, target, dest, stopping, at, clock>>

Pair == [ra : Int, dec : Int]
Requests == [ra : RAs, dec : Decs]
Origin == [ra |-> 0, dec |-> 0]

(* The text of a coordinate: units and minutes, and seconds rounded to two *)
(* decimals, of which there may be sixty; a declination has a sign before. *)
Hundredths(v) == ((v % 60000) + 5) \div 10
Units(v) == v \div 3600000
Size(v) == IF v < 0 THEN -v ELSE v

(* Of a text with sixty seconds, of an hour that is negative or over 23,   *)
(* and of degrees over 90 the mount reads nothing.                         *)
ReadableRA(v) == v >= 0 /\ Units(v) <= 23 /\ Hundredths(v) < 6000
ReadableDec(v) == Units(Size(v)) <= 90 /\ Hundredths(Size(v)) < 6000

Readable(p) == ReadableRA(p.ra) /\ ReadableDec(p.dec)

AsSent(v) == v - (v % 60000) + 10 * Hundredths(v)
DecAsSent(v) == IF v < 0 THEN -AsSent(-v) ELSE AsSent(v)

Sent(p) == [ra |-> AsSent(p.ra), dec |-> DecAsSent(p.dec)]

(* The mount knows date and time.                                          *)
Ready == date # "none" /\ time # "none"

-----------------------------------------------------------------------------
(* The calls                                                               *)

Pointing == {"goto", "gotoAltAz", "sync", "syncAltAz"}
Ops == Pointing \cup {"connect", "abort"}

Optional(cmd, sent) == IF sent THEN <<cmd>> ELSE <<>>

(* Variant: the date is sent instead of the time.                          *)
SiteCommandsDateOrTime(written, timed) ==
    <<"St", "Sg", "Sv">> \o Optional("SC", written # "empty")
        \o Optional("SL", timed /\ written = "empty") \o <<"SG">>

(* sendInitializationCommands: the host may have no date, and no time.     *)
SiteCommands(written, timed) ==
    <<"St", "Sg", "Sv">> \o Optional("SC", written # "empty")
        \o Optional("SL", timed) \o <<"SG">>

(* The last step of a goto or sync asks how the goto is doing, with :MS#.  *)
Script(op, written, timed) ==
    CASE op = "goto"      -> <<"Sr", "Sd", "MS", "read">>
      [] op = "gotoAltAz" -> <<"Sa", "Sz", "MS", "read">>
      [] op = "sync"      -> <<"Sr", "Sd", "CM", "read">>
      [] op = "syncAltAz" -> <<"Sa", "Sz", "CM", "read">>
      [] op = "connect"   -> SiteCommands(written, timed)
      [] op = "abort"     -> <<"Q">>

Silent == [op |-> "abort", pair |-> Nobody, written |-> "empty", timed |-> FALSE,
           todo |-> <<>>, ok |-> FALSE, idle |-> FALSE, zone |-> "host", alone |-> TRUE]

Waiting(c) == call[c].todo = <<>>

(* Of the mount as it is at the beginning a call notes what its properties *)
(* are conditional on, and so far it has its registers to itself.          *)
Begin(c) ==
    /\ Waiting(c)
    /\ \E op \in Ops :
       \E pair \in IF op \in {"goto", "sync"} THEN Requests ELSE {Nobody} :
       \E written \in IF op = "connect" THEN Dates ELSE {"empty"} :
       \E timed \in IF op = "connect" THEN BOOLEAN ELSE {FALSE} :
          call' = [call EXCEPT ![c] =
                     [op |-> op, pair |-> pair, written |-> written, timed |-> timed,
                      todo |-> Script(op, written, timed), ok |-> TRUE,
                      idle |-> op = "goto" /\ dest = Nobody /\ Ready,
                      zone |-> IF op = "connect" THEN offset ELSE "host",
                      alone |-> TRUE]]
    /\ UNCHANGED <<target, dest, stopping, at, clock>>

(* A command that fails ends the call, except that the goto's state is     *)
(* asked for in any case.                                                  *)
Left(k, answered) ==
    IF answered THEN Tail(k.todo)
    ELSE IF k.op \in Pointing /\ Head(k.todo) # "read" THEN <<"read">> ELSE <<>>

(* Variant: the call goes on, and reports the last command's success.      *)
AfterForgiving(k, answered) ==
    IF Tail(k.todo) = <<>> THEN [Silent EXCEPT !.ok = k.ok]
    ELSE [k EXCEPT !.ok = answered \/ Head(k.todo) = "read", !.todo = Tail(@)]

(* Of a call that is over only the result remains.                         *)
After(k, answered) ==
    LET ok == k.ok /\ (answered \/ Head(k.todo) = "read")
    IN  IF Left(k, answered) = <<>> THEN [Silent EXCEPT !.ok = ok]
        ELSE [k EXCEPT !.ok = ok, !.todo = Left(k, answered)]

-----------------------------------------------------------------------------
(* The mount                                                               *)

(* A register keeps its value when the text cannot be read.                *)
SetRegister(cmd, p) ==
    /\ \/ /\ cmd = "Sr"
          /\ target' = IF ReadableRA(p.ra) THEN [target EXCEPT !.ra = AsSent(p.ra)] ELSE target
       \/ /\ cmd = "Sd"
          /\ target' = IF ReadableDec(p.dec) THEN [target EXCEPT !.dec = DecAsSent(p.dec)] ELSE target
    /\ UNCHANGED <<dest, stopping, at, clock>>

(* :MS# goes to the right ascension and declination, and aborts a goto.    *)
Move ==
    /\ \/ dest # Nobody /\ stopping' = TRUE /\ UNCHANGED dest
       \/ dest = Nobody /\ Ready /\ dest' = target /\ UNCHANGED stopping
       \/ dest = Nobody /\ (~Ready \/ Refuses) /\ UNCHANGED <<dest, stopping>>
    /\ UNCHANGED <<target, at, clock>>

Synchronize ==
    /\ \/ dest = Nobody /\ Ready /\ at' = target
       \/ (dest # Nobody \/ ~Ready \/ Refuses) /\ UNCHANGED at
    /\ UNCHANGED <<target, dest, stopping, clock>>

Halt ==
    /\ stopping' = (dest # Nobody)
    /\ UNCHANGED <<target, dest, at, clock>>

(* The date and time are local ones: the mount reckons with the offset it  *)
(* has.  Of a year of four digits it reads the first two.                  *)
SetSite(cmd, written) ==
    /\ \/ cmd = "SC" /\ date' = (CASE written = "short" -> offset
                                   [] written = "long"  -> "another century"
                                   [] OTHER             -> date)
                     /\ UNCHANGED <<time, offset>>
       \/ cmd = "SL" /\ time' = offset /\ UNCHANGED <<date, offset>>
       \/ cmd = "SG" /\ offset' = "host" /\ UNCHANGED <<date, time>>
    /\ UNCHANGED <<target, dest, stopping, at>>

(* The site's place, and altitude and azimuth: the text of the latter two  *)
(* the mount cannot read, and :MS# would not go there.                     *)
NoMatter(cmd) == cmd \in {"St", "Sg", "Sv", "Sa", "Sz"} /\ UNCHANGED <<target, dest, stopping, at, clock>>

Obey(cmd, k) ==
    \/ SetRegister(cmd, k.pair)
    \/ cmd \in {"MS", "read"} /\ Move
    \/ cmd = "CM" /\ Synchronize
    \/ cmd = "Q" /\ Halt
    \/ SetSite(cmd, k.written)
    \/ NoMatter(cmd)

Wire(cmd) == IF cmd = "read" THEN "MS" ELSE cmd

(* Calls that set registers, which a command of another call may set too.  *)
Setting == {"goto", "sync", "connect"}

Disturbs(cmd, k) ==
    \/ cmd \in {"Sr", "Sd"} /\ k.op \in {"goto", "sync"}
    \/ cmd = "SC" /\ k.op = "connect"

(* A call of which c's command has been obeyed, or of another that c's     *)
(* command has met.                                                        *)
Met(c, cmd, answered) ==
    [d \in Clients |->
        IF d = c THEN After(call[c], answered)
        ELSE [call[d] EXCEPT !.alone = @ /\ ~Disturbs(cmd, call[d])]]

(* sendCommand: one command and its answer.                                *)
Send(c) ==
    /\ ~Waiting(c)
    /\ LET cmd == Head(call[c].todo) IN
       \/ /\ Obey(cmd, call[c])
          /\ \E answered \in BOOLEAN :
                /\ answered => Wire(cmd) \notin Bare
                /\ answered \/ Lossy \/ Wire(cmd) \in Bare
                /\ call' = Met(c, cmd, answered)
       \/ /\ Lossy
          /\ call' = [call EXCEPT ![c] = After(@, FALSE)]
          /\ UNCHANGED <<target, dest, stopping, at, clock>>

(* Variant: the abort is remembered.                                       *)
ArriveStillStopping ==
    /\ dest # Nobody
    /\ at' = IF stopping THEN Nobody ELSE dest
    /\ dest' = Nobody
    /\ UNCHANGED <<call, target, stopping, clock>>

(* The goto arrives, or comes to rest where it was aborted.                *)
Arrive ==
    /\ dest # Nobody
    /\ at' = IF stopping THEN Nobody ELSE dest
    /\ dest' = Nobody /\ stopping' = FALSE
    /\ UNCHANGED <<call, target, clock>>

(* The mount restarts, at any time; the site is in its memory.             *)
Restart ==
    /\ Lossy
    /\ target' = Origin /\ dest' = Nobody /\ stopping' = FALSE /\ at' = Nobody
    /\ date' = "none" /\ time' = "none"
    /\ call' = [c \in Clients |-> [call[c] EXCEPT !.alone = call[c].op \notin Setting]]
    /\ UNCHANGED offset

(* The mount may know the time by itself.                                  *)
Init ==
    /\ call = [c \in Clients |-> Silent]
    /\ target = Origin /\ dest = Nobody /\ stopping = FALSE /\ at = Nobody
    /\ offset \in {"host", "other"}
    /\ date \in {"none", offset} /\ time = date

Next == Arrive \/ Restart \/ \E c \in Clients : Begin(c) \/ Send(c)

Spec == Init /\ [][Next]_vars

-----------------------------------------------------------------------------
Reckonings == {"none", "host", "other", "another century"}

TypeOK ==
    /\ \A c \in Clients : /\ call[c].op \in Ops
                          /\ call[c].pair \in Requests \cup {Nobody}
                          /\ call[c].written \in Dates \cup {"empty"}
                          /\ {call[c].timed, call[c].ok, call[c].idle, call[c].alone} \subseteq BOOLEAN
    /\ target \in Pair
    /\ dest \in Pair \cup {Nobody} /\ at \in Pair \cup {Nobody}
    /\ stopping \in BOOLEAN /\ (stopping => dest # Nobody)
    /\ offset \in {"host", "other"}
    /\ date \in Reckonings /\ time \in Reckonings

Returns(c) == ~Waiting(c) /\ call'[c].todo = <<>>

(* A goto or sync to a right ascension and declination that the mount can  *)
(* read, and that reports success, has the mount's target at that place,   *)
(* unless another call set the target or the mount restarted meanwhile:    *)
(* nothing is left of calls, of whatever client, that failed half way.     *)
AcceptedAsAsked ==
    [][\A c \in Clients :
         Returns(c) /\ call'[c].ok /\ call[c].op \in {"goto", "sync"}
         /\ Readable(call[c].pair) /\ call[c].alone
           => target' = Sent(call[c].pair)]_vars

(* A connect that reports success leaves the mount with the right date,    *)
(* and time if the host has one to send, when the date is written as the   *)
(* mount reads it and the offset was already the host's (it is sent after  *)
(* date and time), unless another call set the date or the mount restarted *)
(* meanwhile.                                                              *)
ClockRight ==
    [][\A c \in Clients :
         Returns(c) /\ call'[c].ok /\ call[c].op = "connect"
         /\ call[c].written = "short" /\ call[c].zone = "host" /\ call[c].alone
           => date' = "host" /\ (call[c].timed => time' = "host")]_vars

(* A goto asked of a mount that rests, knows the time and can read the     *)
(* coordinates ends with the mount there or on its way.                    *)
GotoGoes ==
    [][\A c \in Clients :
         Returns(c) /\ call[c].op = "goto" /\ call[c].idle /\ Readable(call[c].pair)
           => \/ at' = Sent(call[c].pair)
              \/ dest' = Sent(call[c].pair) /\ ~stopping']_vars
=============================================================================

----------------------------- MODULE SerialLink -----------------------------
(***************************************************************************)
(* The serial line between the host (main/components/myCubInterface) and   *)
(* the control board (UartTask of firmware/ADA/controller), on top of the  *)
(* receiver of UartMonitor.                                                *)
(*                                                                         *)
(* Callers are the threads of MyCubInterface: the rpc threads, the         *)
(* periodic updateModule and the main thread in close.  The command lines  *)
(* of a call are numbered; on the wire a line is its text, one character   *)
(* here, and a line feed.  The text is abstracted to what the board makes  *)
(* of it.                                                                  *)
(***************************************************************************)
EXTENDS UartMonitor

CONSTANTS Callers,
          Rpc,       \* those that pass lists of positions
          Batch,     \* joints, and the lines of a setPoseAll or gotoPoseAll (4 on the robot)
          MaxLines,  \* bound: lines asked for in all
          MaxLost,   \* bound: characters damaged or lost on the line
          Room,      \* texts that are sure to fit into Data(1..80) (3 on the robot)
          Slow,      \* whether an answer may take longer than readtimeoutmsec
          Nobody

\* What a text, or what Get_Line has collected of it, is to the board: the command
\* that was sent, one for a joint that does not exist, another text of one to four
\* words, a text of more than four, or no word at all.
Forms == {"intact", "unfit", "damaged", "long", "blank"}

\* A character: the text of line id or its line feed.
Text(n, f) == [id |-> n, is |-> f]
LF(n)      == Text(n, "lf")
LineChars  == [id : 0..MaxLines, is : Forms \cup {"lf"}]

ASSUME LinkAssumption ==
    /\ Batch \in Nat \ {0} /\ MaxLines \in Nat /\ MaxLost \in Nat
    /\ Room \in Nat \ {0} /\ Slow \in BOOLEAN
    /\ Rpc \subseteq Callers /\ Nobody \notin Callers
    /\ Chars = LineChars

VARIABLES
    pc,       \* where caller c is
    first,    \* the first line of its call
    last,     \* the last
    next,     \* the one to be sent next
    ret,      \* ret, the value it will return
    serMutex, \* the caller that holds it
    serBusy,
    issued,   \* lines of all calls so far
    sent,     \* the line sent last
    wire,     \* characters on their way to the board
    is,       \* of Get_Line: what Data(1..I-1) is
    texts,    \* the texts in it
    rest,     \* what is left of a text that did not fit any more
    ready,    \* UartTask has a complete line
    halted,   \* a failed check of the Ada runtime has stopped the board
    replies,  \* answers on their way to the host
    done,     \* the lines the board has carried out
    lost,     \* characters damaged or lost so far
    hurt,     \* ghost: a command was disturbed, or the line was torn
    torn      \* ghost: a line ended where none was sent

lines == <<first, last, next>>
host  == <<pc, lines, ret, serMutex, serBusy, issued, sent>>
data  == <<is, texts, rest, ready>>
board == <<data, halted, done>>
noise == <<lost, hurt, torn>>
lvars == <<uart, host, wire, board, replies, noise>>

LInit ==
    /\ Init
    /\ pc = [c \in Callers |-> "idle"]
    /\ first = [c \in Callers |-> 0]
    /\ last = [c \in Callers |-> 0]
    /\ next = [c \in Callers |-> 0]
    /\ ret = [c \in Callers |-> TRUE]
    /\ serMutex = Nobody /\ serBusy = FALSE
    /\ issued = 0 /\ sent = 0
    /\ wire = <<>> /\ replies = <<>>
    /\ is = "blank" /\ texts = 0 /\ rest = "blank" /\ ready = FALSE
    /\ halted = FALSE /\ done = {}
    /\ lost = 0 /\ hurt = FALSE /\ torn = FALSE

Goto(c, l) == pc' = [pc EXCEPT ![c] = l]

----------------------------------------------------------------------------
(* MyCubInterface *)

\* A call has one line, or one for each element of a list, which has four elements
\* or more.
CallLengths(c) == {1} \cup IF c \in Rpc THEN Batch..MaxLines ELSE {}

Call(c, n) ==
    /\ pc[c] = "idle"
    /\ issued + n <= MaxLines
    /\ issued' = issued + n
    /\ first' = [first EXCEPT ![c] = issued + 1]
    /\ next' = [next EXCEPT ![c] = issued + 1]
    /\ last' = [last EXCEPT ![c] = issued + n]
    /\ Goto(c, "lock")
    /\ UNCHANGED <<uart, ret, serMutex, serBusy, sent, wire, board, replies, noise>>

\* Mutant: the calls are not serialised.
NoLock(c) ==
    /\ pc[c] = "lock"
    /\ serMutex' = c /\ serBusy' = TRUE
    /\ ret' = [ret EXCEPT ![c] = TRUE]
    /\ Goto(c, "send")
    /\ UNCHANGED <<uart, lines, issued, sent, wire, board, replies, noise>>

Lock(c) ==
    /\ pc[c] = "lock"
    /\ serMutex = Nobody /\ ~serBusy
    /\ serMutex' = c /\ serBusy' = TRUE
    /\ ret' = [ret EXCEPT ![c] = TRUE]
    /\ Goto(c, "send")
    /\ UNCHANGED <<uart, lines, issued, sent, wire, board, replies, noise>>

\* The fifth element of a list is for a joint that the board does not have.
SentForm(c) == IF next[c] < first[c] + Batch THEN "intact" ELSE "unfit"

\* Mutant: the line is sent without waiting for its answer.
SendAhead(c) ==
    /\ pc[c] = "send" /\ next[c] <= last[c]
    /\ sent' = next[c]
    /\ wire' = wire \o <<Text(sent', SentForm(c)), LF(sent')>>
    /\ next' = [next EXCEPT ![c] = @ + 1]
    /\ UNCHANGED <<uart, pc, first, last, ret, serMutex, serBusy, issued, board,
                   replies, noise>>

\* iSerial->send(cmd), after checkJointLimits in setPoseAll and gotoPoseAll.
Send(c) ==
    /\ pc[c] = "send" /\ next[c] <= last[c]
    /\ sent' = next[c]
    /\ wire' = wire \o <<Text(sent', SentForm(c)), LF(sent')>>
    /\ next' = [next EXCEPT ![c] = @ + 1]
    /\ Goto(c, "receive")
    /\ UNCHANGED <<uart, first, last, ret, serMutex, serBusy, issued, board, replies,
                   noise>>

\* A position beyond the limits: nothing is sent for that joint.
Skip(c) ==
    /\ pc[c] = "send" /\ next[c] <= last[c]
    /\ next' = [next EXCEPT ![c] = @ + 1]
    /\ ret' = [ret EXCEPT ![c] = FALSE]
    /\ UNCHANGED <<uart, pc, first, last, serMutex, serBusy, issued, sent, wire,
                   board, replies, noise>>

\* Mutant: the answers of the joints are not combined.
ReceiveLast(c) ==
    /\ pc[c] = "receive"
    /\ replies # <<>>
    /\ ret' = [ret EXCEPT ![c] = Head(replies).ok]
    /\ replies' = Tail(replies)
    /\ Goto(c, "send")
    /\ UNCHANGED <<uart, lines, serMutex, serBusy, issued, sent, wire, board,
                   noise>>

\* receiveLine returns the oldest line received; ret &= (... == "[ok]").
ReceiveLine(c) ==
    /\ pc[c] = "receive"
    /\ replies # <<>>
    /\ ret' = [ret EXCEPT ![c] = @ /\ Head(replies).ok]
    /\ replies' = Tail(replies)
    /\ Goto(c, "send")
    /\ UNCHANGED <<uart, lines, serMutex, serBusy, issued, sent, wire, board,
                   noise>>

\* The board has nothing left that would lead to an answer.
Quiet ==
    /\ wire = <<>>
    /\ \/ halted
       \/ /\ flags = {} /\ ~handling /\ (fifo = <<>> \/ ~armed)
          /\ ~Available /\ ~ready

\* Mutant: a call that got no answer goes on waiting.
TimeoutNever(c) == FALSE /\ UNCHANGED lvars

\* Mutant: no answer is as good as [ok].
TimeoutUnseen(c) ==
    /\ pc[c] = "receive"
    /\ replies = <<>>
    /\ Slow \/ Quiet
    /\ Goto(c, "send")
    /\ UNCHANGED <<uart, lines, ret, serMutex, serBusy, issued, sent, wire, board,
                   replies, noise>>

\* readtimeoutmsec has passed: getSerialData returns "".
Timeout(c) ==
    /\ pc[c] = "receive"
    /\ replies = <<>>
    /\ Slow \/ Quiet
    /\ ret' = [ret EXCEPT ![c] = FALSE]
    /\ Goto(c, "send")
    /\ UNCHANGED <<uart, lines, serMutex, serBusy, issued, sent, wire, board,
                   replies, noise>>

\* serBusy = false, serMutex.unlock and the return.
Unlock(c) ==
    /\ pc[c] = "send" /\ next[c] > last[c]
    /\ serMutex' = Nobody /\ serBusy' = FALSE
    /\ Goto(c, "idle")
    /\ UNCHANGED <<uart, lines, ret, issued, sent, wire, board, replies, noise>>

----------------------------------------------------------------------------
(* The line *)

\* What a halted board receives no longer matters.
Deliver ==
    /\ wire # <<>>
    /\ IF halted THEN UNCHANGED uart ELSE Arrive(Head(wire))
    /\ wire' = Tail(wire)
    /\ UNCHANGED <<host, board, replies, noise>>

\* A character of a text becomes another one, or it becomes a line end, a carriage
\* return or a line feed, and parts the text.
DisturbText(c) ==
    /\ c.is # "lf" /\ hurt' = TRUE
    /\ \/ /\ \E f \in {"damaged", "long"} : wire' = <<Text(c.id, f)>> \o Tail(wire)
          /\ UNCHANGED torn
       \/ /\ \E f, g \in {"damaged", "blank"} :
                /\ f # "blank" \/ g # "blank"
                /\ wire' = <<Text(c.id, f), LF(c.id), Text(c.id, g)>> \o Tail(wire)
          /\ torn' = TRUE

\* The line feed is lost or becomes another character.
DisturbEnd(c) ==
    /\ c.is = "lf" /\ hurt' = TRUE
    /\ wire' = Tail(wire)
    /\ UNCHANGED torn

\* An answer is lost, damaged, or parted in two that are not [ok].
DisturbAnswer(a) ==
    LET spoilt == [id |-> a.id, ok |-> FALSE] IN
       \/ /\ replies' = Tail(replies) \/ replies' = <<spoilt>> \o Tail(replies)
          /\ UNCHANGED <<hurt, torn>>
       \/ /\ replies' = <<spoilt, spoilt>> \o Tail(replies)
          /\ hurt' = TRUE /\ torn' = TRUE

Disturb ==
    /\ lost < MaxLost
    /\ lost' = lost + 1
    /\ \/ /\ wire # <<>>
          /\ DisturbText(Head(wire)) \/ DisturbEnd(Head(wire))
          /\ UNCHANGED replies
       \/ /\ replies # <<>>
          /\ DisturbAnswer(Head(replies))
          /\ UNCHANGED wire
    /\ UNCHANGED <<uart, host, board>>

----------------------------------------------------------------------------
(* UartTask *)

\* Data when a text f is added to the ones before.
Joined(f) ==
    IF texts = 0 THEN {f}
    ELSE IF "long" \in {is, f} THEN {"long"}
    ELSE IF is = "blank" /\ f = "blank" THEN {"blank"}
    ELSE {"damaged", "long"}

AddText(f) ==
    /\ is' \in Joined(f)
    /\ texts' = texts + 1
    /\ UNCHANGED <<rest, ready, hurt, torn>>

\* Data is full before the text ends: what is left of it begins the next line.
FillData(f) ==
    /\ texts >= Room
    /\ is' \in Joined(f)
    /\ texts' = texts + 1
    /\ rest' \in {"damaged", "blank"}
    /\ ready' = TRUE
    /\ hurt' = TRUE /\ torn' = TRUE

\* Get_Line: characters are collected up to a line end, or until Data is full.
Get_Line ==
    /\ ~halted /\ ~ready
    /\ Get
    /\ IF char'.is = "lf"
       THEN ready' = TRUE /\ UNCHANGED <<is, texts, rest, hurt, torn>>
       ELSE AddText(char'.is) \/ FillData(char'.is)
    /\ UNCHANGED <<host, wire, halted, done, replies, lost>>

\* ParseCommand gives up after the fifth word, but Commands(5) does not exist: the
\* index check fails.
ParseFails ==
    /\ ready /\ ~halted
    /\ is = "long"
    /\ halted' = TRUE
    /\ UNCHANGED <<uart, host, wire, data, done, replies, noise>>

\* The command is carried out and answered, or refused, unless a joint or a number
\* fails a range or an overflow check: the host checks neither durations nor the
\* ids of sensors.  Damaged text is some other command, with any of these ends.
Execute ==
    /\ ready /\ ~halted
    /\ is # "long"
    /\ is' = rest /\ texts' = (IF rest = "blank" THEN 0 ELSE 1)
    /\ rest' = "blank" /\ ready' = FALSE
    /\ LET n == char.id IN
          \/ /\ is \in {"intact", "damaged"}
             /\ replies' = Append(replies, [id |-> n, ok |-> TRUE])
             /\ done' = IF is = "intact" THEN done \cup {n} ELSE done
             /\ UNCHANGED halted
          \/ /\ is # "unfit"
             /\ replies' = Append(replies, [id |-> n, ok |-> FALSE])
             /\ UNCHANGED <<done, halted>>
          \/ /\ is # "blank"
             /\ halted' = TRUE
             /\ UNCHANGED <<replies, done>>
    /\ UNCHANGED <<uart, host, wire, noise>>

----------------------------------------------------------------------------
InCall(c) == Lock(c) \/ Send(c) \/ Skip(c) \/ ReceiveLine(c) \/ Timeout(c) \/ Unlock(c)

UartStep == /\ ~halted
            /\ Idle \/ Handler
            /\ UNCHANGED <<host, wire, board, replies, noise>>

UartTask == Get_Line \/ ParseFails \/ Execute

LNext == \/ \E c \in Callers : InCall(c) \/ \E n \in CallLengths(c) : Call(c, n)
         \/ Deliver \/ Disturb \/ UartStep \/ UartTask

LSpec == LInit /\ [][LNext]_lvars

\* The line delivers, the board handles its interrupts and UartTask, which has
\* the highest priority, runs; a caller goes on and its timeout fires.  Nobody
\* has to call.
LFairSpec == /\ LSpec
             /\ WF_lvars(Deliver) /\ WF_lvars(UartStep) /\ WF_lvars(UartTask)
             /\ \A c \in Callers : WF_lvars(InCall(c))

----------------------------------------------------------------------------
(* Properties *)

CallerLines == {"idle", "lock", "send", "receive"}

\* The type invariant; until the line is torn at most one command, a text and its
\* line feed, is on its way to the board.
LTypeOK ==
    /\ pc \in [Callers -> CallerLines]
    /\ first \in [Callers -> 0..MaxLines] /\ last \in [Callers -> 0..MaxLines]
    /\ next \in [Callers -> 0..MaxLines+1]
    /\ ret \in [Callers -> BOOLEAN]
    /\ serMutex \in Callers \cup {Nobody} /\ serBusy \in BOOLEAN
    /\ issued \in 0..MaxLines /\ sent \in 0..issued
    /\ wire \in Seq(LineChars) /\ (~torn => Len(wire) <= 2)
    /\ is \in Forms /\ texts \in Nat /\ rest \in Forms
    /\ ready \in BOOLEAN /\ halted \in BOOLEAN
    /\ replies \in Seq([id : 0..MaxLines, ok : BOOLEAN])
    /\ done \subseteq 1..issued
    /\ lost \in 0..MaxLost /\ hurt \in BOOLEAN /\ torn \in BOOLEAN

\* An answer on its way to the host answers the line that the caller inside the
\* mutex has just sent: nothing is left over from an earlier call, also after
\* damaged lines, lost line feeds, lost answers and timeouts.  The one exception
\* is a torn line, which has two answers.
AnswersOwnCall ==
    replies # <<>> /\ ~torn =>
        /\ Len(replies) = 1 /\ Head(replies).id = sent
        /\ \E c \in Callers : serMutex = c /\ pc[c] = "receive"

\* A call that returns true has been carried out: unless a command was disturbed
\* the board has executed every line of it, and no joint was left out.  Answers
\* may be lost or damaged.
DoneIfTrue ==
    \A c \in Callers :
        pc[c] = "send" /\ next[c] > last[c] /\ ret[c] /\ ~hurt =>
            first[c]..last[c] \subseteq done

\* A board that has halted is noticed by every call that sends it a line or waits
\* for it, whatever stopped it: the call returns false.
DeadBoardNoticed ==
    \A c \in Callers :
        halted /\ ~torn /\ pc[c] = "send" /\ next[c] > first[c] => ~ret[c]

\* The exchange of lines is all the flow control the receiver needs: until the
\* line is torn, the ring of the board is a queue that loses nothing.
RingKept == Queue!Init /\ [][~torn' => Queue!Next \/ UNCHANGED Queue!vars]_lvars

\* Every call returns, whatever happens to the line and to the board.
CallsReturn == \A c \in Callers : pc[c] # "idle" ~> pc[c] = "idle"
=============================================================================

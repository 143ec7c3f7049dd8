----------------------------- MODULE LinkProofs -----------------------------
(***************************************************************************)
(* The serial line keeps calls and answers together, for any number of     *)
(* callers, lines and losses and any sizes of the ring and the FIFO, when  *)
(* answers are not slow, the handler of the uart is not late and the FIFO  *)
(* holds a command (Timely), and until a line is torn.                     *)
(***************************************************************************)
EXTENDS SerialLink, UartProofs

Timely == Slow = FALSE /\ Late = FALSE /\ Depth >= 2

\* The characters between the host and Get_Line, oldest first.
Pipe == (Content \o fifo) \o wire

\* They belong to the line sent last: its text, its line feed, or both.
Command ==
    /\ Len(Pipe) <= 2
    /\ \A m \in 1..Len(Pipe) : Pipe[m].id = sent
    /\ Len(Pipe) = 2 => Pipe[1].is # "lf" /\ Pipe[2].is = "lf"

\* Characters are not forgotten in the FIFO: when the receive timeout has fired,
\* its interrupt is pending or the handler is in its loop.
Hardware ==
    /\ armed \in BOOLEAN /\ handling \in BOOLEAN
    /\ flags \in {{}, {"INT_RX"}, {"INT_RT"}}
    /\ fifo # <<>> /\ ~armed => handling \/ flags = {"INT_RT"}

\* One caller is inside the mutex, with the lines of its call in order.
Calls ==
    /\ serMutex = Nobody <=> ~serBusy
    /\ \A c \in Callers : pc[c] \in {"send", "receive"} <=> serMutex = c
    /\ \A c \in Callers : pc[c] # "idle" =>
         /\ 1 <= first[c] /\ first[c] <= next[c] /\ next[c] <= last[c] + 1
         /\ last[c] <= issued
    /\ \A c \in Callers : pc[c] = "lock" => next[c] = first[c]
    /\ \A c \in Callers : pc[c] = "receive" => next[c] = sent + 1 /\ first[c] <= sent

Receiving == \E c \in Callers : pc[c] = "receive"

\* A line that is complete, or its answer, is all there is on the way; and when
\* no caller waits for an answer there is nothing at all.
Exchange ==
    /\ Len(wire) <= 2
    /\ ~halted => Command
    /\ halted => replies = <<>>
    /\ ready /\ ~halted => Pipe = <<>> /\ replies = <<>> /\ char.id = sent
    /\ replies # <<>> => Pipe = <<>> /\ ~ready /\ Len(replies) = 1 /\ replies[1].id = sent
    /\ ~Receiving => wire = <<>> /\ replies = <<>> /\ (halted \/ (Pipe = <<>> /\ ~ready))

\* What the host sends for the line is a command.
Sound == {"intact", "unfit"}

\* As long as no command is disturbed, the board has the text of the line sent
\* last, or all of it, or none, and answers ok only if it has carried it out.
Undisturbed ==
    /\ ~torn /\ rest = "blank"
    /\ ~hurt /\ ~halted =>
         /\ Len(Pipe) = 2 => texts = 0 /\ Pipe[1].is \in Sound
         /\ Len(Pipe) = 1 => Pipe[1].is = "lf"
         /\ Len(Pipe) = 1 \/ ready => is \in Sound
         /\ Len(Pipe) = 0 /\ ~ready => texts = 0
         /\ replies # <<>> /\ replies[1].ok => sent \in done

\* What a call that may still return true has got done so far; with a board that
\* has halted it has not gone further than its first line.
Carried ==
    /\ ~hurt =>
         \A c \in Callers : pc[c] \in {"send", "receive"} /\ ret[c] =>
           \A m \in Nat :
             first[c] <= m /\ m < next[c] /\ ~(pc[c] = "receive" /\ m = sent) => m \in done
    /\ halted =>
         \A c \in Callers : pc[c] = "send" /\ next[c] > first[c] => ~ret[c]

LInv == LTypeOK /\ UInv /\ Hardware /\ Calls /\ Exchange /\ Undisturbed /\ Carried

----------------------------------------------------------------------------
(* Sequences *)

\* The first element of t may as well be the last of s.
LEMMA Shift ==
    ASSUME NEW S, NEW s \in Seq(S), NEW t \in Seq(S), t # <<>>
    PROVE  Append(s, Head(t)) \o Tail(t) = s \o t
<1> DEFINE a == Append(s, Head(t))
<1>1. /\ Head(t) \in S /\ Head(t) = t[1] /\ Tail(t) \in Seq(S)
      /\ Len(Tail(t)) = Len(t) - 1 /\ Len(t) \in Nat /\ Len(t) > 0
      /\ \A m \in 1..(Len(t) - 1) : Tail(t)[m] = t[m + 1]
  BY HeadTailProperties, EmptySeq, LenProperties
<1>2. /\ a \in Seq(S) /\ Len(a) = Len(s) + 1 /\ Len(s) \in Nat
      /\ \A m \in 1..Len(s) : a[m] = s[m]
      /\ a[Len(s) + 1] = t[1]
  BY <1>1, AppendProperties, LenProperties
<1>3. /\ s \o t \in Seq(S) /\ Len(s \o t) = Len(s) + Len(t)
      /\ \A m \in 1..(Len(s) + Len(t)) :
            (s \o t)[m] = IF m <= Len(s) THEN s[m] ELSE t[m - Len(s)]
  BY ConcatProperties, Zenon
<1> HIDE DEF a
<1>4. /\ a \o Tail(t) \in Seq(S) /\ Len(a \o Tail(t)) = Len(s) + Len(t)
      /\ \A m \in 1..(Len(s) + Len(t)) :
            (a \o Tail(t))[m] = IF m <= Len(s) + 1 THEN a[m] ELSE Tail(t)[m - (Len(s) + 1)]
  <2>1. /\ a \o Tail(t) \in Seq(S) /\ Len(a \o Tail(t)) = Len(a) + Len(Tail(t))
        /\ \A m \in 1..(Len(a) + Len(Tail(t))) :
              (a \o Tail(t))[m] = IF m <= Len(a) THEN a[m] ELSE Tail(t)[m - Len(a)]
    BY <1>1, <1>2, ConcatProperties, ZenonT(30)
  <2>2. Len(a) + Len(Tail(t)) = Len(s) + Len(t)
    BY <1>1, <1>2
  <2>3. QED BY <1>2, <2>1, <2>2, Zenon
<1>5. ASSUME NEW m \in 1..(Len(s) + Len(t)) PROVE (a \o Tail(t))[m] = (s \o t)[m]
  <2>1. CASE m <= Len(s)
    BY <1>1, <1>2, <1>3, <1>4, <2>1
  <2>2. CASE m = Len(s) + 1
    BY <1>1, <1>2, <1>3, <1>4, <2>2
  <2>3. CASE m > Len(s) + 1
    <3>1. m - (Len(s) + 1) \in 1..(Len(t) - 1) /\ (m - (Len(s) + 1)) + 1 = m - Len(s)
      BY <1>1, <1>2, <2>3
    <3>2. QED BY <1>1, <1>2, <1>3, <1>4, <2>3, <3>1
  <2>4. QED BY <1>1, <1>2, <2>1, <2>2, <2>3
<1>6. QED BY <1>3, <1>4, <1>5, SeqEqual, Zenon DEF a

LEMMA HeadTailConcat ==
    ASSUME NEW S, NEW s \in Seq(S), NEW t \in Seq(S), s # <<>>
    PROVE  Head(s \o t) = Head(s) /\ Tail(s \o t) = Tail(s) \o t /\ s \o t # <<>>
<1>1. /\ Head(s) \in S /\ Head(s) = s[1] /\ Tail(s) \in Seq(S)
      /\ Len(Tail(s)) = Len(s) - 1 /\ Len(s) \in Nat /\ Len(s) > 0 /\ Len(t) \in Nat
      /\ \A m \in 1..(Len(s) - 1) : Tail(s)[m] = s[m + 1]
  BY HeadTailProperties, EmptySeq, LenProperties
<1>2. /\ s \o t \in Seq(S) /\ Len(s \o t) = Len(s) + Len(t)
      /\ \A m \in 1..(Len(s) + Len(t)) :
            (s \o t)[m] = IF m <= Len(s) THEN s[m] ELSE t[m - Len(s)]
  BY ConcatProperties, Zenon
<1>3. s \o t # <<>>
  BY <1>1, <1>2, EmptySeq
<1>4. /\ Tail(s \o t) \in Seq(S) /\ Len(Tail(s \o t)) = Len(s) + Len(t) - 1
      /\ \A m \in 1..(Len(s) + Len(t) - 1) : Tail(s \o t)[m] = (s \o t)[m + 1]
      /\ Head(s \o t) = (s \o t)[1]
  BY <1>2, <1>3, HeadTailProperties
<1>5. /\ Tail(s) \o t \in Seq(S) /\ Len(Tail(s) \o t) = Len(s) + Len(t) - 1
      /\ \A m \in 1..(Len(s) + Len(t) - 1) :
            (Tail(s) \o t)[m] = IF m <= Len(s) - 1 THEN Tail(s)[m] ELSE t[m - (Len(s) - 1)]
  <2>1. /\ Tail(s) \o t \in Seq(S) /\ Len(Tail(s) \o t) = Len(Tail(s)) + Len(t)
        /\ \A m \in 1..(Len(Tail(s)) + Len(t)) :
              (Tail(s) \o t)[m] = IF m <= Len(Tail(s)) THEN Tail(s)[m] ELSE t[m - Len(Tail(s))]
    BY <1>1, ConcatProperties, Zenon
  <2>2. Len(Tail(s)) + Len(t) = Len(s) + Len(t) - 1
    BY <1>1
  <2>3. QED BY <1>1, <2>1, <2>2, Zenon
<1>6. ASSUME NEW m \in 1..(Len(s) + Len(t) - 1) PROVE Tail(s \o t)[m] = (Tail(s) \o t)[m]
  <2>1. m + 1 \in 1..(Len(s) + Len(t))
    BY <1>1
  <2>2. CASE m <= Len(s) - 1
    BY <1>1, <1>2, <1>4, <1>5, <2>1, <2>2
  <2>3. CASE ~(m <= Len(s) - 1)
    <3>1. m - (Len(s) - 1) = (m + 1) - Len(s) /\ ~(m + 1 <= Len(s))
      BY <1>1, <2>3
    <3>2. QED BY <1>1, <1>2, <1>4, <1>5, <2>1, <2>3, <3>1, Zenon
  <2>4. QED BY <2>2, <2>3, Zenon
<1>7. Head(s \o t) = Head(s)
  BY <1>1, <1>2, <1>4
<1>8. QED BY <1>3, <1>4, <1>5, <1>6, <1>7, SeqEqual, Zenon

\* An element appended to the second part is appended to the whole.
LEMMA AppendConcat ==
    ASSUME NEW S, NEW s \in Seq(S), NEW t \in Seq(S), NEW e \in S
    PROVE  s \o Append(t, e) = Append(s \o t, e)
<1>1. <<e>> \in Seq(S) /\ s \o t \in Seq(S)
  BY ConcatProperties
<1>2. Append(t, e) = t \o <<e>> /\ Append(s \o t, e) = (s \o t) \o <<e>>
  BY <1>1, AppendIsConcat, Zenon
<1>3. (s \o t) \o <<e>> = s \o (t \o <<e>>)
  BY <1>1, ConcatAssociative
<1>4. QED BY <1>2, <1>3, Zenon

LEMMA ReplaceHead ==
    ASSUME NEW S, NEW t \in Seq(S), NEW e \in S, t # <<>>
    PROVE  /\ <<e>> \o Tail(t) \in Seq(S) /\ Len(<<e>> \o Tail(t)) = Len(t)
           /\ (<<e>> \o Tail(t))[1] = e
           /\ \A m \in 1..Len(t) : m # 1 => (<<e>> \o Tail(t))[m] = t[m]
<1> DEFINE x == <<e>>
           u == x \o Tail(t)
<1>1. /\ Tail(t) \in Seq(S) /\ Len(Tail(t)) = Len(t) - 1 /\ Len(t) \in Nat /\ Len(t) > 0
      /\ \A m \in 1..(Len(t) - 1) : Tail(t)[m] = t[m + 1]
  BY HeadTailProperties, EmptySeq, LenProperties
<1>2. x \in Seq(S) /\ Len(x) = 1 /\ x[1] = e
  OBVIOUS
<1> HIDE DEF x
<1>3. /\ u \in Seq(S) /\ Len(u) = Len(x) + Len(Tail(t))
      /\ \A m \in 1..(Len(x) + Len(Tail(t))) :
            u[m] = IF m <= Len(x) THEN x[m] ELSE Tail(t)[m - Len(x)]
  <2>1. x \in Seq(S) /\ Tail(t) \in Seq(S)
    BY <1>1, <1>2, Zenon
  <2>2. QED BY ONLY <2>1, ConcatProperties
<1> HIDE DEF u
<1>4. Len(x) + Len(Tail(t)) = Len(t)
  BY <1>1, <1>2
<1>5. u[1] = e
  BY <1>1, <1>2, <1>3, <1>4
<1>6. ASSUME NEW m \in 1..Len(t), m # 1 PROVE u[m] = t[m]
  <2>1. m - 1 \in 1..(Len(t) - 1) /\ (m - 1) + 1 = m /\ ~(m <= 1)
    BY <1>1, <1>6
  <2>2. QED BY <1>1, <1>2, <1>3, <1>4, <2>1, Zenon
<1>7. QED BY <1>3, <1>4, <1>5, <1>6, Zenon DEF u, x

----------------------------------------------------------------------------
(* What is on the way *)

LEMMA CharFacts ==
    ASSUME NEW n \in 0..MaxLines, NEW f \in Forms
    PROVE  /\ Text(n, f) \in LineChars /\ Text(n, f).id = n
           /\ Text(n, f).is = f /\ f # "lf"
           /\ LF(n) \in LineChars /\ LF(n).id = n /\ LF(n).is = "lf"
<1>1. f # "lf"
  BY Zenon DEF Forms
<1>2. QED BY <1>1, Zenon DEF Text, LF, LineChars

LEMMA CharFields ==
    ASSUME NEW c \in LineChars
    PROVE  c.id \in 0..MaxLines /\ c.is \in Forms \cup {"lf"}
  BY Zenon DEF LineChars

LEMMA PipeSeq ==
    ASSUME UInv, wire \in Seq(LineChars)
    PROVE  /\ Content \in Seq(LineChars) /\ fifo \in Seq(LineChars)
           /\ Content \o fifo \in Seq(LineChars)
           /\ Pipe \in Seq(LineChars)
           /\ Len(Content) \in Nat /\ Len(fifo) \in Nat /\ Len(wire) \in Nat
           /\ Len(Content \o fifo) = Len(Content) + Len(fifo)
           /\ Len(Pipe) = Len(Content) + Len(fifo) + Len(wire)
           /\ Len(Content) = Unread
           /\ Pipe = <<>> <=> Len(Pipe) = 0
<1>1. Content \in Seq(LineChars) /\ fifo \in Seq(LineChars) /\ Len(Content) = Unread
  BY ContentSeq, LinkAssumption, Zenon DEF UInv
<1>2. /\ Content \o fifo \in Seq(LineChars)
      /\ Len(Content \o fifo) = Len(Content) + Len(fifo)
  BY <1>1, ConcatProperties, Zenon
<1>3. Pipe \in Seq(LineChars) /\ Len(Pipe) = Len(Content \o fifo) + Len(wire)
  BY <1>2, ConcatProperties, Zenon DEF Pipe
<1>4. Len(Content) \in Nat /\ Len(fifo) \in Nat /\ Len(wire) \in Nat
  BY <1>1, LenProperties, Zenon
<1>5. Pipe = <<>> <=> Len(Pipe) = 0
  BY <1>3, EmptySeq, Zenon
<1>6. QED BY <1>1, <1>2, <1>3, <1>4, <1>5, Zenon

LEMMA PipeEmpty ==
    ASSUME UInv, wire \in Seq(LineChars)
    PROVE  /\ Pipe = <<>> <=> Content = <<>> /\ fifo = <<>> /\ wire = <<>>
           /\ ~Available <=> Content = <<>>
<1>1. /\ Content = <<>> <=> Len(Content) = 0
      /\ fifo = <<>> <=> Len(fifo) = 0
      /\ wire = <<>> <=> Len(wire) = 0
  BY PipeSeq, EmptySeq, Zenon
<1>2. ~Available <=> Len(Content) = 0
  BY PipeSeq, UnreadRange DEF UInv, Unread
<1>3. QED BY <1>1, <1>2, PipeSeq

----------------------------------------------------------------------------
(* The receiver leaves what is on the way as it is, but for Get *)

LEMMA UartStepKeeps ==
    ASSUME Timely, UInv, wire \in Seq(LineChars), Hardware, UartStep
    PROVE  UInv' /\ Hardware' /\ Pipe' = Pipe /\ char' = char
<1>1. wire' = wire
  BY Zenon DEF UartStep
<1>2. CASE Receive
  <2>1. UInv' /\ Content' = Append(Content, Head(fifo)) /\ char' = char
    BY <1>2, ReceiveStep, Zenon
  <2>2. fifo # <<>> /\ fifo' = Tail(fifo)
    BY <1>2, Zenon DEF Receive
  <2>3. Content' \o fifo' = Content \o fifo
    BY <2>1, <2>2, Shift, PipeSeq, Zenon
  <2>4. Pipe' = Pipe
    BY <1>1, <2>3, Zenon DEF Pipe
  <2>5. Hardware'
    BY <1>2, Zenon DEF Receive, Hardware
  <2>6. QED BY <2>1, <2>4, <2>5, Zenon
<1>3. CASE Idle \/ UartIntHandler \/ HandlerEnd
  <2>1. UInv' /\ Content' = Content /\ char' = char
    BY <1>3, OtherStep, Zenon
  <2>2. fifo' = fifo
    BY <1>3, Zenon DEF Idle, UartIntHandler, HandlerEnd, hardware
  <2>3. Pipe' = Pipe
    BY <1>1, <2>1, <2>2, Zenon DEF Pipe
  <2>4. Hardware'
    <3>1. CASE Idle
      <4>1. flags = {}
        BY <3>1, Zenon DEF Idle, Prompt, Timely
      <4>2. flags' = {"INT_RT"} /\ armed' = FALSE /\ handling' = handling
        BY <3>1, <4>1, Zenon DEF Idle
      <4>3. QED BY <4>2, Zenon DEF Hardware
    <3>2. CASE UartIntHandler
      <4>1. flags' = {} /\ handling' = TRUE /\ armed' = armed
        BY <3>2, Zenon DEF UartIntHandler, Hardware
      <4>2. QED BY <4>1, Zenon DEF Hardware
    <3>3. CASE HandlerEnd
      BY <3>3, Zenon DEF HandlerEnd, Hardware, hardware
    <3>4. QED BY <1>3, <3>1, <3>2, <3>3, Zenon
  <2>5. QED BY <2>1, <2>3, <2>4, Zenon
<1>4. QED BY <1>2, <1>3, Zenon DEF UartStep, Handler

LEMMA GetLineTakes ==
    ASSUME UInv, wire \in Seq(LineChars), Hardware, Get, wire' = wire
    PROVE  /\ UInv' /\ Hardware' /\ Pipe # <<>>
           /\ char' = Pipe[1] /\ Pipe[1] \in LineChars /\ Pipe' = Tail(Pipe)
<1>1. UInv' /\ Content # <<>> /\ char' = Head(Content) /\ Content' = Tail(Content)
  BY GetStep, Zenon
<1>2. fifo' = fifo /\ armed' = armed /\ flags' = flags /\ handling' = handling
  BY Zenon DEF Get, hardware
<1>3. /\ Head(Content \o fifo) = Head(Content) /\ Content \o fifo # <<>>
      /\ Tail(Content \o fifo) = Content' \o fifo'
  BY <1>1, <1>2, HeadTailConcat, PipeSeq, ZenonT(30)
<1>4. /\ Head(Pipe) = Head(Content) /\ Pipe # <<>>
      /\ Tail(Pipe) = (Content' \o fifo') \o wire
  <2> DEFINE q == Content \o fifo
  <2>1. q \in Seq(LineChars) /\ q # <<>>
    BY <1>3, PipeSeq, Zenon
  <2> HIDE DEF q
  <2>2. Head(q \o wire) = Head(q) /\ Tail(q \o wire) = Tail(q) \o wire /\ q \o wire # <<>>
    BY <2>1, HeadTailConcat, Zenon
  <2>3. QED BY <1>3, <2>2, Zenon DEF Pipe, q
<1>5. Head(Pipe) = Pipe[1] /\ Head(Pipe) \in LineChars
  BY <1>4, PipeSeq, HeadTailProperties
<1>6. Hardware'
  BY <1>2, Zenon DEF Hardware
<1>7. QED BY <1>1, <1>4, <1>5, <1>6, Zenon DEF Pipe


----------------------------------------------------------------------------
(* The line *)

\* A character that is delivered finds room, as the FIFO holds a command.
LEMMA DeliverFits ==
    ASSUME UInv, wire \in Seq(LineChars), Command, wire # <<>>
    PROVE  /\ Head(wire) \in LineChars /\ Len(fifo) \in Nat /\ Len(fifo) < 2
           /\ Arrive(Head(wire)) => Sender
<1>1. Head(wire) \in LineChars /\ Len(wire) > 0 /\ Len(wire) \in Nat
  BY HeadTailProperties, EmptySeq, LenProperties
<1>2. Len(fifo) < 2 /\ Unread + Len(fifo) < 2 /\ Len(fifo) \in Nat /\ Unread \in Nat
  <2>1. Len(Pipe) <= 2
    BY Zenon DEF Command
  <2>2. QED BY <1>1, <2>1, PipeSeq
<1>3. Arrive(Head(wire)) => Sender
  <2>1. Unread + Len(fifo) < Size
    BY <1>2, UartAssumption
  <2>2. QED BY <1>1, <2>1, LinkAssumption, Zenon DEF Sender
<1>4. QED BY <1>1, <1>2, <1>3, Zenon

LEMMA DeliverKeeps ==
    ASSUME Timely, UInv, wire \in Seq(LineChars), Hardware, Command, wire # <<>>,
           Arrive(Head(wire)), wire' = Tail(wire)
    PROVE  UInv' /\ Hardware' /\ Pipe' = Pipe /\ char' = char
<1>1. Head(wire) \in LineChars /\ Len(fifo) \in Nat /\ Len(fifo) < 2 /\ Sender
  BY DeliverFits, Zenon
<1>4. UInv' /\ Content' = Content /\ char' = char
  BY <1>1, OtherStep, Zenon
<1>5. Len(fifo) < Depth
  BY <1>1, UartAssumption DEF Timely
<1>6. fifo' = Append(fifo, Head(wire))
  BY <1>5, Zenon DEF Arrive
<1>7. Pipe' = Pipe
  <2> DEFINE q == Content \o fifo
  <2>1. q \in Seq(LineChars)
    BY PipeSeq, Zenon
  <2>2. Append(q, Head(wire)) \o Tail(wire) = q \o wire
    BY <2>1, Shift, Zenon
  <2>3. Content \o Append(fifo, Head(wire)) = Append(q, Head(wire))
    BY <1>1, PipeSeq, AppendConcat, SMTT(30)
  <2>4. QED BY <1>4, <1>6, <2>2, <2>3, Zenon DEF Pipe
<1>8. Hardware'
  <2>1. flags = {}
    BY Zenon DEF Arrive, Prompt, Timely
  <2>2. /\ flags' = {} \/ flags' = {"INT_RX"}
        /\ armed' = TRUE /\ handling' = handling
    BY <2>1, Zenon DEF Arrive
  <2>3. QED BY <2>2, Zenon DEF Hardware
<1>9. QED BY <1>4, <1>7, <1>8, Zenon

\* A disturbance takes the line feed away, which comes last, or damages a text.
LEMMA DisturbKeeps ==
    ASSUME UInv, wire \in Seq(LineChars), Command, wire # <<>>,
           NEW f \in Forms,
           wire' = IF Head(wire).is = "lf" THEN Tail(wire)
                   ELSE <<Text(Head(wire).id, f)>> \o Tail(wire),
           UNCHANGED uart
    PROVE  /\ Len(Pipe') <= Len(Pipe) /\ Pipe' \in Seq(LineChars)
           /\ \A m \in 1..Len(Pipe') :
                Pipe'[m].id = Pipe[m].id /\ (Pipe'[m].is = "lf" <=> Pipe[m].is = "lf")
<1> DEFINE q == Content \o fifo
<1>1. /\ Head(wire) \in LineChars /\ Head(wire) = wire[1] /\ Tail(wire) \in Seq(LineChars)
      /\ Len(Tail(wire)) = Len(wire) - 1 /\ Len(wire) \in Nat /\ Len(wire) > 0
      /\ \A m \in 1..(Len(wire) - 1) : Tail(wire)[m] = wire[m + 1]
  BY HeadTailProperties, EmptySeq, LenProperties
<1>2. q \in Seq(LineChars) /\ Len(q) \in Nat
  BY PipeSeq, LenProperties, Zenon
<1>3. /\ Pipe = q \o wire /\ Len(Pipe) = Len(q) + Len(wire)
      /\ \A m \in 1..(Len(q) + Len(wire)) :
            Pipe[m] = IF m <= Len(q) THEN q[m] ELSE wire[m - Len(q)]
  BY <1>2, ConcatProperties, Zenon DEF Pipe
<1>4. Pipe' = q \o wire'
  BY OtherStep, Zenon DEF Pipe, uart, hardware
<1> HIDE DEF q
<1>5. CASE Head(wire).is = "lf"
  <2>1. wire' = Tail(wire)
    BY <1>5, Zenon
  <2>2. Pipe[Len(q) + 1].is = "lf"
    BY <1>1, <1>2, <1>3, <1>5
  <2>3. Len(wire) = 1
    BY <1>1, <1>2, <1>3, <2>2, SMTT(30) DEF Command
  <2>4. wire' = <<>>
    <3>1. Len(Tail(wire)) \notin Nat \ {0}
      BY <1>1, <2>3, SMTT(30)
    <3>2. QED BY <1>1, <2>1, <3>1, EmptySeq, Zenon
  <2>5. Pipe' = q
    BY <1>2, <1>4, <2>4, ConcatEmptySeq, Zenon
  <2>6. QED BY <1>2, <1>3, <2>3, <2>5
<1>6. CASE Head(wire).is # "lf"
  <2> DEFINE d == Text(Head(wire).id, f)
  <2>1. /\ d \in LineChars /\ d.id = wire[1].id
        /\ d.is = "lf" <=> wire[1].is = "lf"
    <3>1. Head(wire).id \in 0..MaxLines
      BY <1>1, CharFields, Zenon
    <3>2. d \in LineChars /\ d.id = Head(wire).id /\ d.is = f /\ f # "lf"
      BY <3>1, CharFacts, Zenon
    <3>3. QED BY <1>1, <1>6, <3>2, Zenon
  <2> HIDE DEF d
  <2>2. wire' = <<d>> \o Tail(wire)
    BY <1>6, Zenon DEF d
  <2>3. /\ wire' \in Seq(LineChars) /\ Len(wire') = Len(wire) /\ wire'[1] = d
        /\ \A m \in 1..Len(wire) : m # 1 => wire'[m] = wire[m]
    BY <2>1, <2>2, ReplaceHead
  <2>4. /\ Pipe' \in Seq(LineChars) /\ Len(Pipe') = Len(q) + Len(wire)
        /\ \A m \in 1..(Len(q) + Len(wire)) :
              Pipe'[m] = IF m <= Len(q) THEN q[m] ELSE wire'[m - Len(q)]
    BY <1>2, <1>4, <2>3, ConcatProperties, SMTT(30)
  <2>5. ASSUME NEW m \in 1..(Len(q) + Len(wire))
        PROVE  Pipe'[m].id = Pipe[m].id /\ (Pipe'[m].is = "lf" <=> Pipe[m].is = "lf")
    <3>1. CASE m <= Len(q)
      BY <1>3, <2>4, <3>1, Zenon
    <3>2. CASE m = Len(q) + 1
      <4>1. m - Len(q) = 1 /\ ~(m <= Len(q))
        BY <1>2, <3>2
      <4>2. Pipe'[m] = d /\ Pipe[m] = wire[1]
        BY <1>3, <2>3, <2>4, <4>1, Zenon
      <4>3. QED BY <2>1, <4>2, Zenon
    <3>3. CASE m > Len(q) + 1
      <4>1. m - Len(q) \in 1..Len(wire) /\ m - Len(q) # 1 /\ ~(m <= Len(q))
        BY <1>1, <1>2, <3>3
      <4>2. Pipe'[m] = wire'[m - Len(q)] /\ Pipe[m] = wire[m - Len(q)]
        BY <1>3, <2>4, <4>1, Zenon
      <4>3. QED BY <2>3, <4>1, <4>2, Zenon
    <3>4. QED BY <1>2, <3>1, <3>2, <3>3
  <2>6. QED BY <1>1, <1>2, <1>3, <2>4, <2>5
<1>7. QED BY <1>5, <1>6, Zenon

\* A line that is sent into an empty pipe.
LEMMA SendFills ==
    ASSUME UInv, wire \in Seq(LineChars), wire = <<>>, UNCHANGED uart,
           NEW n \in 0..MaxLines, NEW f \in Forms,
           wire' = wire \o <<Text(n, f), LF(n)>>
    PROVE  /\ wire' \in Seq(LineChars) /\ Len(wire') = 2
           /\ Pipe = <<>> => /\ Len(Pipe') = 2 /\ Pipe'[1] = Text(n, f) /\ Pipe'[2] = LF(n)
<1> DEFINE l == <<Text(n, f), LF(n)>>
<1>1. l \in Seq(LineChars) /\ Len(l) = 2 /\ l[1] = Text(n, f) /\ l[2] = LF(n)
  BY CharFacts
<1> HIDE DEF l
<1>2. wire' = l
  BY <1>1, ConcatEmptySeq, Zenon DEF l
<1>3. ASSUME Pipe = <<>> PROVE Pipe' = l
  <2>1. Content = <<>> /\ fifo = <<>>
    BY <1>3, PipeEmpty, Zenon
  <2>2. Content \o fifo = <<>>
    BY <2>1, PipeSeq, ConcatEmptySeq, Zenon
  <2>3. Content' = Content /\ fifo' = fifo
    BY OtherStep, Zenon DEF uart, hardware
  <2>4. Pipe' = <<>> \o l
    BY <1>2, <2>2, <2>3, Zenon DEF Pipe
  <2>5. QED BY <1>1, <2>4, ConcatEmptySeq, Zenon
<1>4. QED BY <1>1, <1>2, <1>3, Zenon


----------------------------------------------------------------------------
(* What a step leaves alone *)

LEMMA UartKept ==
    ASSUME UInv, Hardware, UNCHANGED <<uart, wire>>
    PROVE  UInv' /\ Hardware' /\ Pipe' = Pipe /\ char' = char
<1>1. UInv' /\ Content' = Content /\ char' = char
  BY OtherStep, Zenon
<1>2. fifo' = fifo /\ armed' = armed /\ flags' = flags /\ handling' = handling
  BY Zenon DEF uart, hardware
<1>3. Hardware'
  BY <1>2, Zenon DEF Hardware
<1>4. QED BY <1>1, <1>2, <1>3, Zenon DEF Pipe

LEMMA ExchangeKept ==
    ASSUME Exchange, UNCHANGED <<wire, halted, replies, ready, sent>>,
           Pipe' = Pipe, char' = char, Receiving' <=> Receiving
    PROVE  Exchange'
  BY Zenon DEF Exchange, Command

LEMMA UndisturbedKept ==
    ASSUME Undisturbed, Pipe' = Pipe,
           UNCHANGED <<halted, is, texts, rest, ready, replies, sent, done, hurt, torn>>
    PROVE  Undisturbed'
  BY Zenon DEF Undisturbed

LEMMA CallsKept ==
    ASSUME Calls, UNCHANGED <<pc, first, last, next, serMutex, serBusy, issued, sent>>
    PROVE  Calls' /\ (Receiving' <=> Receiving)
  BY Zenon DEF Calls, Receiving

LEMMA CarriedKept ==
    ASSUME Carried, UNCHANGED <<pc, first, next, ret, sent>>, done \subseteq done',
           ~hurt' => ~hurt,
           halted' => halted \/ \A c \in Callers : pc[c] # "send"
    PROVE  Carried'
  BY Zenon DEF Carried

----------------------------------------------------------------------------
(* Calls *)

\* A caller that has the mutex and does not wait for an answer: nobody does.
LEMMA NobodyReceives ==
    ASSUME Calls, NEW c \in Callers, pc[c] = "send"
    PROVE  /\ ~Receiving /\ serMutex = c
           /\ \A b \in Callers : pc[b] \in {"send", "receive"} <=> b = c
<1>1. serMutex = c /\ \A b \in Callers : pc[b] \in {"send", "receive"} => b = c
  BY Zenon DEF Calls
<1>2. "send" # "receive"
  BY Zenon
<1>3. QED BY <1>1, <1>2, Zenon DEF Receiving

LEMMA CallStep ==
    ASSUME LInv, NEW c \in Callers, NEW n \in CallLengths(c), Call(c, n)
    PROVE  LInv'
<1> USE DEF LInv
<1>1. UInv' /\ Hardware' /\ Pipe' = Pipe /\ char' = char
  BY UartKept, Zenon DEF Call
<1>2. n \in Nat \ {0} /\ issued \in Nat
  <2>1. n = 1 \/ n \in Batch..MaxLines
    BY Zenon DEF CallLengths
  <2>2. QED BY <2>1, LinkAssumption DEF LTypeOK
<1>3. /\ pc' = [pc EXCEPT ![c] = "lock"] /\ pc[c] = "idle" /\ pc \in [Callers -> CallerLines]
      /\ "lock" \in CallerLines
  BY Zenon DEF Call, Goto, LTypeOK, CallerLines
<1>4. Receiving' <=> Receiving
  BY <1>3, Zenon DEF Receiving
<1>5. Exchange'
  BY <1>1, <1>4, ExchangeKept, Zenon DEF Call, board, data, noise
<1>6. Undisturbed'
  BY <1>1, UndisturbedKept, Zenon DEF Call, board, data, noise
<1>7. /\ first' = [first EXCEPT ![c] = issued + 1] /\ next' = [next EXCEPT ![c] = issued + 1]
      /\ last' = [last EXCEPT ![c] = issued + n] /\ issued' = issued + n
      /\ issued + n <= MaxLines /\ sent' = sent
      /\ first \in [Callers -> 0..MaxLines] /\ last \in [Callers -> 0..MaxLines]
      /\ next \in [Callers -> 0..MaxLines+1] /\ MaxLines \in Nat /\ sent \in 0..issued
  BY LinkAssumption, Zenon DEF Call, LTypeOK
<1>8. LTypeOK'
  <2>1. pc' \in [Callers -> CallerLines]
    BY <1>3, Zenon
  <2>2. /\ first' \in [Callers -> 0..MaxLines] /\ last' \in [Callers -> 0..MaxLines]
        /\ next' \in [Callers -> 0..MaxLines+1]
        /\ issued' \in 0..MaxLines /\ sent' \in 0..issued'
    BY <1>2, <1>7
  <2>3. done' \subseteq 1..issued'
    BY <1>2 DEF Call, LTypeOK, board, data, noise
  <2>4. QED BY <2>1, <2>2, <2>3, Zenon DEF Call, LTypeOK, board, data, noise
<1>9. Calls'
  <2>1. serMutex' = serMutex /\ serBusy' = serBusy
    BY Zenon DEF Call
  <2>2. \A b \in Callers : (pc'[b] \in {"send", "receive"} <=> serMutex' = b)
    BY <1>3, <2>1, Zenon DEF Calls
  <2>3. ASSUME NEW b \in Callers
        PROVE  /\ pc'[b] # "idle" =>
                    /\ 1 <= first'[b] /\ first'[b] <= next'[b] /\ next'[b] <= last'[b] + 1
                    /\ last'[b] <= issued'
               /\ pc'[b] = "lock" => next'[b] = first'[b]
               /\ pc'[b] = "receive" => next'[b] = sent' + 1 /\ first'[b] <= sent'
    <3>1. CASE b = c
      BY <1>2, <1>3, <1>7, <3>1, SMTT(30)
    <3>2. CASE b # c
      BY <1>2, <1>3, <1>7, <3>2 DEF Calls
    <3>3. QED BY <3>1, <3>2, Zenon
  <2>4. (serMutex = Nobody <=> ~serBusy)'
    BY <2>1, Zenon DEF Calls
  <2>5. QED BY <2>2, <2>3, <2>4, Zenon DEF Calls
<1>10. Carried'
  <2>1. UNCHANGED <<ret, sent, halted, done, hurt>>
    BY Zenon DEF Call, board, data, noise
  <2>2. \A b \in Callers : pc'[b] \in {"send", "receive"} =>
            b # c /\ pc'[b] = pc[b] /\ first'[b] = first[b] /\ next'[b] = next[b]
    BY <1>3, <1>7, Zenon
  <2>3. QED BY <2>1, <2>2, Zenon DEF Carried
<1>11. QED BY <1>1, <1>5, <1>6, <1>8, <1>9, <1>10, Zenon


LEMMA LockStep ==
    ASSUME LInv, NEW c \in Callers, Lock(c)
    PROVE  LInv'
<1> USE DEF LInv
<1>1. UInv' /\ Hardware' /\ Pipe' = Pipe /\ char' = char
  BY UartKept, Zenon DEF Lock
<1>2. /\ pc' = [pc EXCEPT ![c] = "send"] /\ pc[c] = "lock" /\ pc \in [Callers -> CallerLines]
      /\ "send" \in CallerLines
  BY Zenon DEF Lock, Goto, LTypeOK, CallerLines
<1>3. UNCHANGED <<first, last, next, issued, sent, wire, is, texts, rest, ready, halted, done,
                  replies, lost, hurt, torn>>
  BY Zenon DEF Lock, lines, board, data, noise
<1>4. Receiving' <=> Receiving
  BY <1>2, Zenon DEF Receiving
<1>5. Exchange' /\ Undisturbed'
  BY <1>1, <1>3, <1>4, ExchangeKept, UndisturbedKept, Zenon
<1>6. serMutex = Nobody /\ serMutex' = c /\ serBusy' = TRUE /\ c # Nobody
  BY LinkAssumption, Zenon DEF Lock
<1>7. LTypeOK'
  <2>1. pc' \in [Callers -> CallerLines]
    BY <1>2, Zenon
  <2>2. ret' \in [Callers -> BOOLEAN]
    BY Zenon DEF Lock, LTypeOK
  <2>3. QED BY <1>3, <1>6, <2>1, <2>2, Zenon DEF LTypeOK
<1>8. Calls'
  <2>1. \A b \in Callers : pc[b] \notin {"send", "receive"}
    BY <1>6, LinkAssumption, Zenon DEF Calls
  <2>2. \A b \in Callers : (pc'[b] \in {"send", "receive"} <=> serMutex' = b)
    BY <1>2, <1>6, <2>1, Zenon
  <2>3. \A b \in Callers : (pc'[b] # "idle" => pc[b] # "idle")
                           /\ (pc'[b] = "lock" => pc[b] = "lock") /\ pc'[b] # "receive"
    BY <1>2, <2>1, Zenon
  <2>4. QED BY <1>3, <1>6, <2>2, <2>3, Zenon DEF Calls
<1>9. Carried'
  <2>1. \A b \in Callers : pc[b] \notin {"send", "receive"}
    BY <1>6, LinkAssumption, Zenon DEF Calls
  <2>2. \A b \in Callers : pc'[b] \in {"send", "receive"} => b = c
    BY <1>2, <2>1, Zenon
  <2>3. next[c] = first[c] /\ next[c] \in Nat /\ first[c] \in Nat
    BY <1>2, LinkAssumption, SMTT(30) DEF Calls, LTypeOK
  <2>4. ~(next'[c] > first'[c]) /\ \A m \in Nat : ~(first'[c] <= m /\ m < next'[c])
    BY <1>3, <2>3, SMTT(30)
  <2>5. \A b \in Callers : pc'[b] \in {"send", "receive"} =>
          /\ ~(next'[b] > first'[b])
          /\ \A m \in Nat : ~(first'[b] <= m /\ m < next'[b])
    BY <2>2, <2>4, Zenon
  <2>6. QED BY <2>5, Zenon DEF Carried
<1>10. QED BY <1>1, <1>5, <1>7, <1>8, <1>9, Zenon

\* A caller sends, or goes on to its next line, only when nothing is on the way.
LEMMA NothingPending ==
    ASSUME Calls, Exchange, NEW c \in Callers, pc[c] = "send"
    PROVE  wire = <<>> /\ replies = <<>> /\ (halted \/ (Pipe = <<>> /\ ~ready))
  BY NobodyReceives, Zenon DEF Exchange

LEMMA SendStep ==
    ASSUME LInv, NEW c \in Callers, Send(c)
    PROVE  LInv'
<1> USE DEF LInv
<1>1. /\ pc' = [pc EXCEPT ![c] = "receive"] /\ pc[c] = "send"
      /\ pc \in [Callers -> CallerLines] /\ "receive" \in CallerLines
  BY Zenon DEF Send, Goto, LTypeOK, CallerLines
<1>2. UNCHANGED <<uart, first, last, ret, serMutex, serBusy, issued, is, texts, rest, ready,
                  halted, done, replies, lost, hurt, torn>>
  BY Zenon DEF Send, board, data, noise
<1>3. wire = <<>> /\ replies = <<>> /\ (halted \/ (Pipe = <<>> /\ ~ready))
  BY <1>1, NothingPending, Zenon
<1>4. /\ next' = [next EXCEPT ![c] = next[c] + 1] /\ sent' = next[c] /\ next[c] <= last[c]
      /\ next \in [Callers -> 0..MaxLines+1] /\ last \in [Callers -> 0..MaxLines]
      /\ first \in [Callers -> 0..MaxLines]
      /\ issued \in 0..MaxLines /\ MaxLines \in Nat
  BY LinkAssumption, Zenon DEF Send, LTypeOK
<1>5. 1 <= first[c] /\ first[c] <= next[c] /\ last[c] <= issued
  BY <1>1, Zenon DEF Calls
<1>6. sent' \in 0..MaxLines /\ sent' \in 0..issued
  BY <1>4, <1>5, SMTT(30)
<1>7. PICK f \in Sound : wire' = wire \o <<Text(sent', f), LF(sent')>>
  <2>1. SentForm(c) \in Sound
    BY Zenon DEF SentForm, Sound
  <2>2. QED BY <2>1, Zenon DEF Send
<1>8. /\ wire' \in Seq(LineChars) /\ Len(wire') = 2
      /\ Pipe = <<>> => Len(Pipe') = 2 /\ Pipe'[1] = Text(sent', f) /\ Pipe'[2] = LF(sent')
  BY <1>2, <1>3, <1>6, <1>7, SendFills, Zenon DEF LTypeOK, Sound, Forms
<1>9. /\ Text(sent', f).id = sent' /\ Text(sent', f).is # "lf" /\ Text(sent', f).is \in Sound
      /\ LF(sent').id = sent' /\ LF(sent').is = "lf"
  <2>1. f \in Forms
    BY <1>7, Zenon DEF Sound, Forms
  <2>2. /\ Text(sent', f).id = sent' /\ Text(sent', f).is = f /\ f # "lf"
        /\ LF(sent').id = sent' /\ LF(sent').is = "lf"
    BY <1>6, <2>1, CharFacts, Zenon
  <2>3. QED BY <1>7, <2>2, Zenon
<1>10. UInv' /\ Hardware'
  <2>1. UInv'
    BY <1>2, OtherStep, Zenon
  <2>2. Hardware'
    BY <1>2, Zenon DEF Hardware, uart, hardware
  <2>3. QED BY <2>1, <2>2, Zenon
<1>11. LTypeOK'
  <2>1. pc' \in [Callers -> CallerLines] /\ next' \in [Callers -> 0..MaxLines+1]
    BY <1>1, <1>4, <1>5
  <2>2. Len(wire') <= 2
    BY <1>8
  <2>3. QED BY <1>2, <1>6, <1>8, <2>1, <2>2, Zenon DEF LTypeOK
<1>12. \A b \in Callers : (pc[b] \in {"send", "receive"} <=> b = c) /\ serMutex = c
  BY <1>1, NobodyReceives, Zenon
<1>13. Calls'
  <2>1. \A b \in Callers : (pc'[b] \in {"send", "receive"} <=> serMutex' = b)
    BY <1>1, <1>2, <1>12, Zenon
  <2>2. (serMutex = Nobody <=> ~serBusy)'
    BY <1>2, Zenon DEF Calls
  <2>3. ASSUME NEW b \in Callers
        PROVE  /\ pc'[b] # "idle" =>
                    /\ 1 <= first'[b] /\ first'[b] <= next'[b] /\ next'[b] <= last'[b] + 1
                    /\ last'[b] <= issued'
               /\ pc'[b] = "lock" => next'[b] = first'[b]
               /\ pc'[b] = "receive" => next'[b] = sent' + 1 /\ first'[b] <= sent'
    <3>1. CASE b = c
      BY <1>1, <1>2, <1>4, <1>5, <3>1
    <3>2. CASE b # c
      <4>1. pc'[b] = pc[b] /\ next'[b] = next[b] /\ pc'[b] # "receive"
        BY <1>1, <1>4, <1>12, <3>2, Zenon
      <4>2. QED BY <1>2, <4>1, Zenon DEF Calls
    <3>3. QED BY <3>1, <3>2, Zenon
  <2>4. QED BY <2>1, <2>2, <2>3, Zenon DEF Calls
<1>14. Receiving'
  BY <1>1, Zenon DEF Receiving
<1>15. Command' \/ halted
  <2> SUFFICES ASSUME Pipe = <<>> PROVE Command'
    BY <1>3, Zenon
  <2>1. Len(Pipe') = 2 /\ Pipe'[1].id = sent' /\ Pipe'[2].id = sent'
        /\ Pipe'[1].is # "lf" /\ Pipe'[2].is = "lf"
    BY <1>8, <1>9, Zenon
  <2>2. \A m \in 1..Len(Pipe') : m = 1 \/ m = 2
    BY <2>1
  <2>3. Len(Pipe') <= 2
    BY <2>1
  <2>4. QED BY <2>1, <2>2, <2>3, Zenon DEF Command
<1>16. Exchange'
  <2>1. Len(wire') <= 2
    BY <1>8
  <2>2. QED BY <1>2, <1>3, <1>14, <1>15, <2>1, Zenon DEF Exchange
<1>17. Undisturbed'
  <2> SUFFICES ASSUME ~hurt, ~halted PROVE Undisturbed'
    BY <1>2, Zenon DEF Undisturbed
  <2>1. ~halted /\ Pipe = <<>> /\ ~ready
    BY <1>3, Zenon
  <2>2. Len(Pipe) = 0
    BY <2>1, Zenon
  <2>3. texts = 0
    BY <2>1, <2>2, Zenon DEF Undisturbed
  <2>4. Len(Pipe') = 2 /\ Pipe'[1].is \in Sound
    BY <1>8, <1>9, <2>1, Zenon
  <2>5. Len(Pipe') # 1 /\ Len(Pipe') # 0
    BY <2>4
  <2>6. QED BY <1>2, <1>3, <2>1, <2>3, <2>4, <2>5, Zenon DEF Undisturbed
<1>18. Carried'
  <2> SUFFICES ASSUME ~hurt, ret[c]
               PROVE  \A m \in Nat :
                        first[c] <= m /\ m < next[c] + 1 /\ m # next[c] => m \in done
    <3>1. next'[c] = next[c] + 1 /\ pc'[c] = "receive"
      BY <1>1, <1>4, Zenon
    <3>2. \A b \in Callers : pc'[b] \in {"send", "receive"} => b = c
      BY <1>1, <1>12, Zenon
    <3>0. \A b \in Callers : pc'[b] # "send"
      BY <3>1, <3>2, Zenon
    <3>3. ASSUME ~hurt', NEW b \in Callers, pc'[b] \in {"send", "receive"}, ret'[b],
                 NEW m \in Nat, first'[b] <= m, m < next'[b],
                 ~(pc'[b] = "receive" /\ m = sent')
          PROVE  m \in done'
      <4>1. b = c /\ ret[c] /\ ~hurt /\ done' = done
        BY <1>2, <3>2, <3>3, Zenon
      <4>2. first[c] <= m /\ m < next[c] + 1 /\ m # next[c]
        BY <1>2, <1>4, <3>1, <3>3, <4>1, Zenon
      <4>3. QED BY <4>1, <4>2, Zenon
    <3>4. QED BY <3>0, <3>3, Zenon DEF Carried
  <2>1. \A m \in Nat : first[c] <= m /\ m < next[c] => m \in done
    BY <1>1, Zenon DEF Carried
  <2>2. QED BY <1>4, <2>1
<1>19. QED BY <1>10, <1>11, <1>13, <1>16, <1>17, <1>18, Zenon


LEMMA SkipStep ==
    ASSUME LInv, NEW c \in Callers, Skip(c)
    PROVE  LInv'
<1> USE DEF LInv
<1>1. UInv' /\ Hardware' /\ Pipe' = Pipe /\ char' = char
  BY UartKept, ZenonT(30) DEF Skip
<1>2. UNCHANGED <<pc, first, last, serMutex, serBusy, issued, sent, wire, is, texts, rest, ready,
                  halted, done, replies, lost, hurt, torn>>
  BY Zenon DEF Skip, board, data, noise
<1>3. /\ pc[c] = "send" /\ next[c] <= last[c]
      /\ next' = [next EXCEPT ![c] = next[c] + 1] /\ ret' = [ret EXCEPT ![c] = FALSE]
      /\ next \in [Callers -> 0..MaxLines+1] /\ last \in [Callers -> 0..MaxLines]
      /\ first \in [Callers -> 0..MaxLines] /\ MaxLines \in Nat
      /\ ret \in [Callers -> BOOLEAN]
  BY LinkAssumption, Zenon DEF Skip, LTypeOK
<1>4. Receiving' <=> Receiving
  BY <1>2, Zenon DEF Receiving
<1>5. Exchange' /\ Undisturbed'
  BY <1>1, <1>2, <1>4, ExchangeKept, UndisturbedKept, Zenon
<1>6. LTypeOK'
  <2>1. next' \in [Callers -> 0..MaxLines+1] /\ ret' \in [Callers -> BOOLEAN]
    BY <1>3
  <2>2. QED BY <1>2, <2>1, Zenon DEF LTypeOK
<1>7. Calls'
  <2>1. ASSUME NEW b \in Callers
        PROVE  /\ pc'[b] # "idle" =>
                    /\ 1 <= first'[b] /\ first'[b] <= next'[b] /\ next'[b] <= last'[b] + 1
                    /\ last'[b] <= issued'
               /\ pc'[b] = "lock" => next'[b] = first'[b]
               /\ pc'[b] = "receive" => next'[b] = sent' + 1 /\ first'[b] <= sent'
    <3>1. CASE b = c
      BY <1>2, <1>3, <3>1 DEF Calls
    <3>2. CASE b # c
      <4>1. next'[b] = next[b]
        BY <1>3, <3>2, Zenon
      <4>2. QED BY <1>2, <4>1, Zenon DEF Calls
    <3>3. QED BY <3>1, <3>2, Zenon
  <2>2. QED BY <1>2, <2>1, Zenon DEF Calls
<1>8. Carried'
  <2>1. \A b \in Callers : pc'[b] \in {"send", "receive"} => b = c
    BY <1>2, <1>3, NobodyReceives, Zenon
  <2>2. ~ret'[c]
    BY <1>3, Zenon
  <2>3. QED BY <2>1, <2>2, Zenon DEF Carried
<1>9. QED BY <1>1, <1>5, <1>6, <1>7, <1>8, Zenon

\* The caller that waits for an answer stops waiting.
LEMMA StopsWaiting ==
    ASSUME Calls, pc \in [Callers -> CallerLines], NEW c \in Callers, pc[c] = "receive",
           pc' = [pc EXCEPT ![c] = "send"],
           UNCHANGED <<first, last, next, serMutex, serBusy, issued, sent>>
    PROVE  /\ Calls' /\ ~Receiving' /\ pc' \in [Callers -> CallerLines]
           /\ \A b \in Callers : pc'[b] \in {"send", "receive"} => b = c
           /\ \A b \in Callers : pc[b] \in {"send", "receive"} => b = c
<1>1. /\ pc'[c] = "send" /\ \A b \in Callers : b # c => pc'[b] = pc[b]
      /\ pc' \in [Callers -> CallerLines]
  BY Zenon DEF CallerLines
<1>2. \A b \in Callers : pc[b] \in {"send", "receive"} <=> b = c
  BY Zenon DEF Calls
<1>3. \A b \in Callers : pc'[b] # "receive" /\ (pc'[b] \in {"send", "receive"} <=> b = c)
  BY <1>1, <1>2, Zenon
<1>4. \A b \in Callers : /\ pc'[b] # "idle" => pc[b] # "idle"
                         /\ pc'[b] = "lock" => pc[b] = "lock"
  BY <1>1, Zenon
<1>5. ~Receiving'
  BY <1>3, Zenon DEF Receiving
<1>6. serMutex = c
  BY Zenon DEF Calls
<1>7. Calls'
  BY <1>3, <1>4, <1>6, Zenon DEF Calls
<1>8. QED BY <1>1, <1>2, <1>3, <1>5, <1>7, Zenon

LEMMA ReceiveLineStep ==
    ASSUME LInv, NEW c \in Callers, ReceiveLine(c)
    PROVE  LInv'
<1> USE DEF LInv
<1>1. UInv' /\ Hardware' /\ Pipe' = Pipe /\ char' = char
  BY UartKept, Zenon DEF ReceiveLine
<1>2. UNCHANGED <<first, last, next, serMutex, serBusy, issued, sent, wire, is, texts, rest, ready,
                  halted, done, lost, hurt, torn>>
  BY Zenon DEF ReceiveLine, board, data, noise, lines
<1>3. /\ pc[c] = "receive" /\ pc' = [pc EXCEPT ![c] = "send"] /\ pc \in [Callers -> CallerLines]
      /\ replies # <<>> /\ replies' = Tail(replies)
      /\ ret' = [ret EXCEPT ![c] = ret[c] /\ Head(replies).ok]
  BY Zenon DEF ReceiveLine, Goto, LTypeOK
<1>4. /\ Calls' /\ ~Receiving' /\ pc' \in [Callers -> CallerLines]
      /\ \A b \in Callers : pc'[b] \in {"send", "receive"} => b = c
  BY <1>2, <1>3, StopsWaiting, Zenon
<1>5. /\ Pipe = <<>> /\ ~ready /\ Len(replies) = 1 /\ replies[1].id = sent /\ ~halted
  BY <1>3, Zenon DEF Exchange
<1>6. wire = <<>>
  BY <1>5, PipeEmpty, Zenon DEF LTypeOK
<1>7. /\ replies \in Seq([id : 0..MaxLines, ok : BOOLEAN])
      /\ replies' \in Seq([id : 0..MaxLines, ok : BOOLEAN]) /\ Len(replies') = 0
      /\ replies' = <<>> /\ Head(replies) = replies[1]
  <2> DEFINE R == [id : 0..MaxLines, ok : BOOLEAN]
  <2>1. replies \in Seq(R)
    BY Zenon DEF LTypeOK
  <2> HIDE DEF R
  <2>2. Tail(replies) \in Seq(R) /\ Len(Tail(replies)) = Len(replies) - 1
        /\ Head(replies) = replies[1]
    BY <1>3, <2>1, HeadTailProperties
  <2>3. Len(replies') = 0
    BY <1>3, <1>5, <2>2
  <2>4. replies' = <<>>
    BY <1>3, <2>2, <2>3, EmptySeq, Zenon
  <2>5. QED BY <1>3, <2>1, <2>2, <2>3, <2>4, Zenon DEF R
<1>8. ret' \in [Callers -> BOOLEAN] /\ (ret'[c] => ret[c] /\ replies[1].ok)
  <2>1. ret \in [Callers -> BOOLEAN]
    BY Zenon DEF LTypeOK
  <2>2. (ret[c] /\ Head(replies).ok) \in BOOLEAN
    BY Zenon
  <2>3. ret' \in [Callers -> BOOLEAN] /\ ret'[c] = (ret[c] /\ Head(replies).ok)
    BY <1>3, <2>1, <2>2, Zenon
  <2>4. QED BY <1>7, <2>3, Zenon
<1>9. LTypeOK'
  BY <1>2, <1>4, <1>7, <1>8, Zenon DEF LTypeOK
<1>10. Exchange'
  BY <1>1, <1>2, <1>4, <1>5, <1>6, <1>7, Zenon DEF Exchange, Command
<1>11. Undisturbed'
  BY <1>1, <1>2, <1>7, Zenon DEF Undisturbed
<1>12. Carried'
  <2>1. ASSUME ~hurt', NEW b \in Callers, pc'[b] \in {"send", "receive"}, ret'[b],
               NEW m \in Nat, first'[b] <= m, m < next'[b]
        PROVE  m \in done'
    <3>1. b = c /\ ~hurt /\ ret[c] /\ replies[1].ok /\ done' = done
      BY <1>2, <1>4, <1>8, <2>1, Zenon
    <3>2. first[c] <= m /\ m < next[c]
      BY <1>2, <2>1, <3>1, Zenon
    <3>3. CASE m = sent
      BY <1>3, <1>5, <3>1, <3>3, Zenon DEF Undisturbed
    <3>4. CASE m # sent
      BY <1>3, <3>1, <3>2, <3>4, Zenon DEF Carried
    <3>5. QED BY <3>3, <3>4, Zenon
  <2>2. QED BY <1>2, <1>5, <2>1, Zenon DEF Carried
<1>13. QED BY <1>1, <1>4, <1>9, <1>10, <1>11, <1>12, Zenon

\* When the board is quiet, what it would still answer is gone.
LEMMA TimeoutStep ==
    ASSUME LInv, Timely, NEW c \in Callers, Timeout(c)
    PROVE  LInv'
<1> USE DEF LInv
<1>1. UInv' /\ Hardware' /\ Pipe' = Pipe /\ char' = char
  BY UartKept, Zenon DEF Timeout
<1>2. UNCHANGED <<first, last, next, serMutex, serBusy, issued, sent, wire, is, texts, rest, ready,
                  halted, done, replies, lost, hurt, torn>>
  BY Zenon DEF Timeout, board, data, noise, lines
<1>3. /\ pc[c] = "receive" /\ pc' = [pc EXCEPT ![c] = "send"] /\ pc \in [Callers -> CallerLines]
      /\ replies = <<>> /\ ret' = [ret EXCEPT ![c] = FALSE] /\ ret \in [Callers -> BOOLEAN]
  BY Zenon DEF Timeout, Goto, LTypeOK
<1>4. /\ Calls' /\ ~Receiving' /\ pc' \in [Callers -> CallerLines]
      /\ \A b \in Callers : pc'[b] \in {"send", "receive"} => b = c
  BY <1>2, <1>3, StopsWaiting, ZenonT(30)
<1>5. Quiet
  BY Zenon DEF Timeout, Timely
<1>6. wire = <<>> /\ (halted \/ (Pipe = <<>> /\ ~ready))
  <2>1. wire = <<>>
    BY <1>5, Zenon DEF Quiet
  <2>2. ASSUME ~halted PROVE Pipe = <<>> /\ ~ready
    <3>1. flags = {} /\ ~handling /\ (fifo = <<>> \/ ~armed) /\ ~Available /\ ~ready
      BY <1>5, <2>2, Zenon DEF Quiet
    <3>2. {} # {"INT_RT"}
      BY Zenon
    <3>3. fifo = <<>>
      BY <3>1, <3>2, Zenon DEF Hardware
    <3>4. QED BY <2>1, <3>1, <3>3, PipeEmpty, Zenon DEF LTypeOK
  <2>3. QED BY <2>1, <2>2, Zenon
<1>7. ret' \in [Callers -> BOOLEAN] /\ ~ret'[c]
  BY <1>3, Zenon
<1>8. LTypeOK'
  BY <1>2, <1>4, <1>7, Zenon DEF LTypeOK
<1>9. Exchange'
  BY <1>1, <1>2, <1>3, <1>4, <1>6, Zenon DEF Exchange, Command
<1>10. Undisturbed'
  BY <1>1, <1>2, UndisturbedKept, Zenon
<1>11. Carried'
  BY <1>4, <1>7, Zenon DEF Carried
<1>12. QED BY <1>1, <1>4, <1>8, <1>9, <1>10, <1>11, Zenon

LEMMA UnlockStep ==
    ASSUME LInv, NEW c \in Callers, Unlock(c)
    PROVE  LInv'
<1> USE DEF LInv
<1>1. UInv' /\ Hardware' /\ Pipe' = Pipe /\ char' = char
  BY UartKept, Zenon DEF Unlock
<1>2. UNCHANGED <<first, last, next, ret, issued, sent, wire, is, texts, rest, ready, halted, done,
                  replies, lost, hurt, torn>>
  BY Zenon DEF Unlock, board, data, noise, lines
<1>3. /\ pc[c] = "send" /\ pc' = [pc EXCEPT ![c] = "idle"] /\ pc \in [Callers -> CallerLines]
      /\ "idle" \in CallerLines /\ serMutex' = Nobody /\ serBusy' = FALSE
  BY Zenon DEF Unlock, Goto, LTypeOK, CallerLines
<1>4. /\ ~Receiving /\ \A b \in Callers : pc[b] \in {"send", "receive"} <=> b = c
  BY <1>3, NobodyReceives, Zenon
<1>5. \A b \in Callers : /\ pc'[b] \notin {"send", "receive"}
                         /\ pc'[b] # "idle" => pc[b] # "idle"
                         /\ pc'[b] = "lock" => pc[b] = "lock"
  BY <1>3, <1>4, Zenon
<1>6. ~Receiving'
  BY <1>5, Zenon DEF Receiving
<1>7. Exchange' /\ Undisturbed'
  BY <1>1, <1>2, <1>4, <1>6, ExchangeKept, UndisturbedKept, Zenon
<1>8. LTypeOK'
  <2>1. pc' \in [Callers -> CallerLines]
    BY <1>3, Zenon
  <2>2. QED BY <1>2, <1>3, <2>1, Zenon DEF LTypeOK
<1>9. Calls'
  BY <1>2, <1>3, <1>5, LinkAssumption, Zenon DEF Calls
<1>10. Carried'
  BY <1>5, Zenon DEF Carried
<1>11. QED BY <1>1, <1>7, <1>8, <1>9, <1>10, Zenon


----------------------------------------------------------------------------
(* The line and the board *)

\* One character less on the wire.
LEMMA WireTail ==
    ASSUME wire \in Seq(LineChars), wire # <<>>, Len(wire) <= 2
    PROVE  Tail(wire) \in Seq(LineChars) /\ Len(Tail(wire)) <= 2
  BY HeadTailProperties, LenProperties

LEMMA DeliverStep ==
    ASSUME LInv, Timely, Deliver
    PROVE  LInv'
<1> USE DEF LInv
<1>1. /\ UNCHANGED <<pc, first, last, next, ret, serMutex, serBusy, issued, sent, is, texts, rest,
                     ready, halted, done, replies, lost, hurt, torn>>
      /\ wire # <<>> /\ wire' = Tail(wire)
  BY Zenon DEF Deliver, host, board, data, noise, lines
<1>2. Calls' /\ (Receiving' <=> Receiving) /\ Carried'
  BY <1>1, CallsKept, CarriedKept, Zenon
<1>3. wire \in Seq(LineChars) /\ wire' \in Seq(LineChars) /\ Len(wire') <= 2
  BY <1>1, WireTail, Zenon DEF LTypeOK, Exchange
<1>4. LTypeOK'
  BY <1>1, <1>3, Zenon DEF LTypeOK
<1>5. Receiving
  BY <1>1, Zenon DEF Exchange
<1>6. CASE halted
  <2>1. UNCHANGED uart
    BY <1>6, Zenon DEF Deliver
  <2>2. UInv'
    BY <2>1, OtherStep, Zenon
  <2>3. Hardware'
    BY <2>1, Zenon DEF Hardware, uart, hardware
  <2>4. Exchange'
    BY <1>1, <1>2, <1>3, <1>5, <1>6, Zenon DEF Exchange
  <2>5. Undisturbed'
    BY <1>1, <1>6, Zenon DEF Undisturbed
  <2>6. QED BY <1>2, <1>4, <2>2, <2>3, <2>4, <2>5, Zenon
<1>7. CASE ~halted
  <2>1. Arrive(Head(wire)) /\ Command
    BY <1>7, Zenon DEF Deliver, Exchange
  <2>2. UInv' /\ Hardware' /\ Pipe' = Pipe /\ char' = char
    BY <1>1, <1>3, <2>1, DeliverKeeps, Zenon
  <2>3. Exchange'
    BY <1>1, <1>2, <1>3, <1>5, <2>2, Zenon DEF Exchange, Command
  <2>4. Undisturbed'
    BY <1>1, <2>2, UndisturbedKept, Zenon
  <2>5. QED BY <1>2, <1>4, <2>2, <2>3, <2>4, Zenon
<1>8. QED BY <1>6, <1>7, Zenon

LEMMA DisturbStep ==
    ASSUME LInv, Disturb, ~torn'
    PROVE  LInv'
<1> USE DEF LInv
<1> DEFINE R == [id : 0..MaxLines, ok : BOOLEAN]
<1>1. /\ UNCHANGED <<pc, first, last, next, ret, serMutex, serBusy, issued, sent, is, texts,
                     rest, ready, halted, done>>
      /\ lost < MaxLost /\ lost' = lost + 1 /\ ~torn
  BY Zenon DEF Disturb, host, board, data, lines, Undisturbed
<1>2. lost' \in 0..MaxLost
  BY <1>1, LinkAssumption DEF LTypeOK
<1>3. Calls' /\ (Receiving' <=> Receiving)
  BY <1>1, CallsKept, Zenon
<1>4. UNCHANGED uart
  BY Zenon DEF Disturb
<1>5. UInv' /\ Hardware' /\ char' = char
  <2>1. UInv' /\ char' = char
    BY <1>4, OtherStep, Zenon
  <2>2. Hardware'
    BY <1>4, Zenon DEF Hardware, uart, hardware
  <2>3. QED BY <2>1, <2>2, Zenon
<1>6. ASSUME wire # <<>>, hurt' = TRUE, UNCHANGED <<replies, torn>>, NEW f \in Forms,
             wire' = IF Head(wire).is = "lf" THEN Tail(wire)
                     ELSE <<Text(Head(wire).id, f)>> \o Tail(wire)
      PROVE  LInv'
  <2>1. wire \in Seq(LineChars) /\ Len(wire) <= 2 /\ Len(wire) \in Nat
    BY <1>1, LenProperties, Zenon DEF LTypeOK
  <2>2. wire' \in Seq(LineChars) /\ Len(wire') <= 2
    <3>1. CASE Head(wire).is = "lf"
      BY <1>6, <2>1, <3>1, WireTail, Zenon
    <3>2. CASE Head(wire).is # "lf"
      <4> DEFINE d == Text(Head(wire).id, f)
      <4>1. Head(wire) \in LineChars
        BY <1>6, <2>1, HeadTailProperties, Zenon
      <4>2. d \in LineChars
        BY <4>1, CharFields, CharFacts, Zenon
      <4>3. wire' = <<d>> \o Tail(wire)
        BY <1>6, <3>2, Zenon
      <4> HIDE DEF d
      <4>4. QED BY <1>6, <2>1, <4>2, <4>3, ReplaceHead
    <3>3. QED BY <3>1, <3>2, Zenon
  <2>3. LTypeOK'
    BY <1>1, <1>2, <1>6, <2>2, Zenon DEF LTypeOK
  <2>4. Receiving
    BY <1>6, Zenon DEF Exchange
  <2>5. replies = <<>> /\ (ready => halted)
    <3>1. Pipe # <<>>
      BY <1>6, <2>1, PipeEmpty, Zenon
    <3>2. QED BY <3>1, Zenon DEF Exchange
  <2>6. ASSUME ~halted PROVE Command'
    <3>1. Command
      BY <2>6, Zenon DEF Exchange
    <3>2. /\ Len(Pipe') <= Len(Pipe) /\ Pipe' \in Seq(LineChars)
          /\ \A m \in 1..Len(Pipe') :
                Pipe'[m].id = Pipe[m].id /\ (Pipe'[m].is = "lf" <=> Pipe[m].is = "lf")
      BY <1>4, <1>6, <2>1, <3>1, DisturbKeeps, Zenon
    <3>3. Len(Pipe') \in Nat /\ Len(Pipe) \in Nat
      BY <2>1, <3>2, PipeSeq, LenProperties, Zenon
    <3>4. QED BY <1>1, <3>1, <3>2, <3>3 DEF Command
  <2>7. Exchange'
    BY <1>1, <1>3, <1>6, <2>2, <2>4, <2>5, <2>6, Zenon DEF Exchange
  <2>8. Undisturbed' /\ Carried'
    BY <1>1, <1>6, Zenon DEF Undisturbed, Carried
  <2>9. QED BY <1>3, <1>5, <2>3, <2>7, <2>8, Zenon
<1>7. ASSUME replies # <<>>, UNCHANGED <<wire, hurt, torn>>, replies' \in Seq(R),
             replies' # <<>> => /\ Len(replies') = 1 /\ replies'[1].id = replies[1].id
                                /\ ~replies'[1].ok
      PROVE  LInv'
  <2>1. Pipe' = Pipe
    BY <1>4, <1>7, UartKept, Zenon
  <2>2. Pipe = <<>> /\ ~ready /\ replies[1].id = sent /\ ~halted /\ Receiving
    BY <1>7, Zenon DEF Exchange
  <2>3. LTypeOK'
    BY <1>1, <1>2, <1>7, Zenon DEF LTypeOK
  <2>4. Exchange'
    BY <1>1, <1>3, <1>7, <2>1, <2>2, Zenon DEF Exchange, Command
  <2>5. Undisturbed'
    BY <1>1, <1>7, <2>1, Zenon DEF Undisturbed
  <2>6. Carried'
    BY <1>1, <1>7, CarriedKept, Zenon
  <2>7. QED BY <1>3, <1>5, <2>3, <2>4, <2>5, <2>6, Zenon
<1>8. CASE wire # <<>> /\ (DisturbText(Head(wire)) \/ DisturbEnd(Head(wire))) /\ replies' = replies
  <2>1. PICK f \in Forms : /\ hurt' = TRUE /\ torn' = torn
                           /\ wire' = IF Head(wire).is = "lf" THEN Tail(wire)
                                      ELSE <<Text(Head(wire).id, f)>> \o Tail(wire)
    BY <1>8, Zenon DEF DisturbText, DisturbEnd, Forms
  <2>2. QED BY <1>6, <1>8, <2>1, Zenon
<1>9. CASE replies # <<>> /\ DisturbAnswer(Head(replies)) /\ wire' = wire
  <2> DEFINE d == [id |-> Head(replies).id, ok |-> FALSE]
  <2>1. /\ UNCHANGED <<hurt, torn>>
        /\ replies' = Tail(replies) \/ replies' = <<d>> \o Tail(replies)
    BY <1>9, Zenon DEF DisturbAnswer
  <2>2. replies \in Seq(R) /\ Len(replies) = 1
    BY <1>9, Zenon DEF LTypeOK, Exchange
  <2>3. /\ Head(replies) \in R /\ Head(replies) = replies[1]
        /\ Tail(replies) \in Seq(R) /\ Len(Tail(replies)) = 0
    <3> HIDE DEF R
    <3>1. QED BY <1>9, <2>2, HeadTailProperties
  <2>4. d \in R /\ d.id = replies[1].id /\ ~d.ok
    BY <2>3, Zenon
  <2>5. CASE replies' = Tail(replies)
    <3>1. replies' = <<>>
      BY <2>3, <2>5, EmptySeq, Zenon
    <3>2. QED BY <1>7, <1>9, <2>1, <2>3, <2>5, <3>1, Zenon
  <2>6. CASE replies' = <<d>> \o Tail(replies)
    <3> HIDE DEF d, R
    <3>1. replies' \in Seq(R) /\ Len(replies') = 1 /\ replies'[1] = d
      BY <1>9, <2>2, <2>4, <2>6, ReplaceHead
    <3>2. QED BY <1>7, <1>9, <2>1, <2>4, <3>1, Zenon
  <2>7. QED BY <2>1, <2>5, <2>6, Zenon
<1>10. QED BY <1>8, <1>9, Zenon DEF Disturb

LEMMA UartStepStep ==
    ASSUME LInv, Timely, UartStep
    PROVE  LInv'
<1> USE DEF LInv
<1>1. UNCHANGED <<pc, first, last, next, ret, serMutex, serBusy, issued, sent, wire, is, texts,
                  rest, ready, halted, done, replies, lost, hurt, torn>>
  BY Zenon DEF UartStep, host, board, data, noise, lines
<1>2. UInv' /\ Hardware' /\ Pipe' = Pipe /\ char' = char
  BY UartStepKeeps, Zenon DEF LTypeOK
<1>3. Calls' /\ (Receiving' <=> Receiving) /\ Carried'
  BY <1>1, CallsKept, CarriedKept, Zenon
<1>4. Exchange' /\ Undisturbed'
  BY <1>1, <1>2, <1>3, ExchangeKept, UndisturbedKept, Zenon
<1>5. LTypeOK'
  BY <1>1, Zenon DEF LTypeOK
<1>6. QED BY <1>2, <1>3, <1>4, <1>5, Zenon


LEMMA GetLineStep ==
    ASSUME LInv, Get_Line, ~torn'
    PROVE  LInv'
<1> USE DEF LInv
<1>1. /\ UNCHANGED <<pc, first, last, next, ret, serMutex, serBusy, issued, sent, wire, halted,
                     done, replies, lost, hurt, torn, rest>>
      /\ ~halted /\ ~ready /\ Get
  BY Zenon DEF Get_Line, AddText, FillData, host, lines
<1>2. /\ UInv' /\ Hardware' /\ Pipe # <<>>
      /\ char' = Pipe[1] /\ Pipe[1] \in LineChars /\ Pipe' = Tail(Pipe)
  BY <1>1, GetLineTakes, Zenon DEF LTypeOK
<1>3. Calls' /\ (Receiving' <=> Receiving) /\ Carried'
  BY <1>1, CallsKept, CarriedKept, Zenon
<1>4. Command /\ replies = <<>> /\ Receiving /\ Len(wire) <= 2
  BY <1>1, <1>2, Zenon DEF Exchange
<1>5. /\ Pipe \in Seq(LineChars) /\ Len(Pipe) \in {1, 2} /\ Len(Pipe') = Len(Pipe) - 1
      /\ \A m \in 1..(Len(Pipe) - 1) : Pipe'[m] = Pipe[m + 1]
      /\ Pipe' = <<>> <=> Len(Pipe') = 0
  <2>1. Pipe \in Seq(LineChars) /\ (Pipe = <<>> <=> Len(Pipe) = 0)
    BY PipeSeq, Zenon DEF LTypeOK
  <2>2. Len(Pipe) \in Nat /\ Len(Pipe) # 0 /\ Len(Pipe) <= 2
    BY <1>2, <1>4, <2>1, LenProperties, Zenon DEF Command
  <2>3. /\ Tail(Pipe) \in Seq(LineChars) /\ Len(Tail(Pipe)) = Len(Pipe) - 1
        /\ \A m \in 1..(Len(Pipe) - 1) : Tail(Pipe)[m] = Pipe[m + 1]
    BY <1>2, <2>1, HeadTailProperties, Zenon
  <2>4. Pipe' = <<>> <=> Len(Pipe') = 0
    BY <1>2, <2>3, EmptySeq, Zenon
  <2>5. QED BY <1>2, <2>1, <2>2, <2>3, <2>4
<1>6. Command'
  <2>1. \/ Len(Pipe) = 1 /\ Len(Pipe') = 0
        \/ Len(Pipe) = 2 /\ Len(Pipe') = 1
    BY <1>5
  <2>2. \A m \in 1..Len(Pipe') : m = 1 /\ Pipe'[m] = Pipe[2] /\ 2 \in 1..Len(Pipe)
    <3>1. CASE Len(Pipe) = 1 /\ Len(Pipe') = 0
      BY <3>1
    <3>2. CASE Len(Pipe) = 2 /\ Len(Pipe') = 1
      <4>1. Pipe'[1] = Pipe[2]
        BY <1>5, <3>2
      <4>2. QED BY <3>2, <4>1
    <3>3. QED BY <2>1, <3>1, <3>2, Zenon
  <2>3. Len(Pipe') <= 2 /\ Len(Pipe') # 2
    <3>1. Len(Pipe') = 0 \/ Len(Pipe') = 1
      BY <2>1, Zenon
    <3>2. \A k \in {0, 1} : k <= 2 /\ k # 2
      OBVIOUS
    <3>3. QED BY <3>1, <3>2, Zenon
  <2>4. QED BY <1>1, <1>4, <2>2, <2>3, Zenon DEF Command
<1>7. char'.id = sent
  BY <1>2, <1>4, <1>5 DEF Command
<1>8. CASE char'.is = "lf"
  <2>1. ready' = TRUE /\ texts' = texts /\ is' = is
    BY <1>8, Zenon DEF Get_Line
  <2>2. LTypeOK'
    BY <1>1, <2>1, Zenon DEF LTypeOK
  <2>3. Len(Pipe) = 1 /\ Pipe' = <<>> /\ Len(Pipe') = 0
    BY <1>2, <1>4, <1>5, <1>8 DEF Command
  <2>4. Exchange'
    BY <1>1, <1>3, <1>4, <1>6, <1>7, <2>1, <2>3, Zenon DEF Exchange
  <2>5. Undisturbed'
    <3>1. Len(Pipe') # 1 /\ Len(Pipe') # 2
      BY <2>3
    <3>2. QED BY <1>1, <1>4, <2>1, <2>3, <3>1, Zenon DEF Undisturbed
  <2>6. QED BY <1>2, <1>3, <2>2, <2>4, <2>5, Zenon
<1>9. CASE char'.is # "lf"
  <2>1. ready' = ready /\ is' \in Joined(char'.is) /\ texts' = texts + 1
    BY <1>9, Zenon DEF Get_Line, AddText, FillData
  <2>2. char'.is \in Forms
    BY <1>2, <1>9, CharFields, Zenon
  <2>3. is' \in Forms /\ (texts = 0 => is' = Pipe[1].is)
    BY <1>2, <2>1, <2>2, Zenon DEF Joined, Forms
  <2>4. texts' \in Nat
    BY <2>1 DEF LTypeOK
  <2>6. LTypeOK'
    BY <1>1, <2>1, <2>3, <2>4, Zenon DEF LTypeOK
  <2>7. Exchange'
    BY <1>1, <1>3, <1>4, <1>6, <2>1, Zenon DEF Exchange
  <2>8. Undisturbed'
    <3> SUFFICES ASSUME ~hurt PROVE Undisturbed'
      BY <1>1, Zenon DEF Undisturbed
    <3>1. Len(Pipe) # 1
      BY <1>1, <1>2, <1>9, Zenon DEF Undisturbed
    <3>2. Len(Pipe) = 2 /\ Len(Pipe') = 1
      BY <1>5, <3>1
    <3>3. texts = 0 /\ Pipe[1].is \in Sound
      BY <1>1, <3>2, Zenon DEF Undisturbed
    <3>4. Pipe'[1] = Pipe[2]
      BY <1>5, <3>2
    <3>5. Pipe'[1].is = "lf"
      BY <1>4, <3>2, <3>4, Zenon DEF Command
    <3>6. is' \in Sound
      BY <2>3, <3>3, Zenon
    <3>7. Len(Pipe') # 2 /\ Len(Pipe') # 0
      BY <3>2
    <3>8. QED BY <1>1, <1>4, <3>5, <3>6, <3>7, Zenon DEF Undisturbed
  <2>9. QED BY <1>2, <1>3, <2>6, <2>7, <2>8, Zenon
<1>10. QED BY <1>8, <1>9, Zenon

LEMMA ParseFailsStep ==
    ASSUME LInv, ParseFails
    PROVE  LInv'
<1> USE DEF LInv
<1>1. /\ UNCHANGED <<uart, pc, first, last, next, ret, serMutex, serBusy, issued, sent, wire,
                     is, texts, rest, ready, done, replies, lost, hurt, torn>>
      /\ ready /\ ~halted /\ halted' = TRUE
  BY Zenon DEF ParseFails, host, lines, data, noise
<1>2. UInv' /\ Hardware' /\ Pipe' = Pipe /\ char' = char
  BY <1>1, UartKept, Zenon
<1>3. Calls' /\ (Receiving' <=> Receiving)
  BY <1>1, CallsKept, Zenon
<1>4. Carried'
  <2>1. \A c \in Callers : pc[c] # "send"
    BY <1>1, NobodyReceives, Zenon DEF Exchange
  <2>2. QED BY <1>1, <2>1, CarriedKept, Zenon
<1>5. LTypeOK'
  BY <1>1, Zenon DEF LTypeOK
<1>6. Undisturbed'
  BY <1>1, Zenon DEF Undisturbed
<1>7. Exchange'
  BY <1>1, <1>2, <1>3, Zenon DEF Exchange
<1>8. QED BY <1>2, <1>3, <1>4, <1>5, <1>6, <1>7, Zenon

LEMMA ExecuteStep ==
    ASSUME LInv, Execute
    PROVE  LInv'
<1> USE DEF LInv
<1> DEFINE R == [id : 0..MaxLines, ok : BOOLEAN]
<1>1. /\ UNCHANGED <<uart, pc, first, last, next, ret, serMutex, serBusy, issued, sent, wire,
                     lost, hurt, torn>>
      /\ ready /\ ~halted /\ is' = "blank" /\ texts' = 0 /\ rest' = "blank" /\ ready' = FALSE
  BY Zenon DEF Execute, host, lines, noise, Undisturbed
<1>2. UInv' /\ Hardware' /\ Pipe' = Pipe /\ char' = char
  BY <1>1, UartKept, Zenon
<1>3. Calls' /\ (Receiving' <=> Receiving)
  BY <1>1, CallsKept, Zenon
<1>4. Pipe = <<>> /\ replies = <<>> /\ char.id = sent /\ Command /\ Receiving /\ Len(wire) <= 2
  BY <1>1, Zenon DEF Exchange
<1>5. sent \in 1..issued /\ sent \in 0..MaxLines
  <2>1. PICK c \in Callers : pc[c] = "receive"
    BY <1>4, Zenon DEF Receiving
  <2>2. 1 <= first[c] /\ first[c] <= sent
    BY <2>1, Zenon DEF Calls
  <2>3. QED BY <2>2, LinkAssumption DEF LTypeOK
<1>6. Len(Pipe) # 1 /\ Len(Pipe) # 2
  BY <1>4
<1>7. ASSUME NEW o \in BOOLEAN, replies' = Append(replies, [id |-> char.id, ok |-> o])
      PROVE  /\ replies' \in Seq(R) /\ replies' # <<>> /\ Len(replies') = 1
             /\ replies'[1].id = sent /\ replies'[1].ok = o
  <2> DEFINE r == [id |-> char.id, ok |-> o]
  <2>1. r \in R /\ r.id = sent /\ r.ok = o
    BY <1>4, <1>5, Zenon
  <2> HIDE DEF r, R
  <2>2. replies' = Append(<<>>, r)
    BY <1>4, <1>7, Zenon DEF r
  <2>3. replies' \in Seq(R) /\ Len(replies') = 1 /\ replies'[1] = r
    BY <2>1, <2>2
  <2>4. replies' # <<>>
    BY <2>3
  <2>5. QED BY <2>1, <2>3, <2>4, Zenon
<1>8. CASE /\ replies' = Append(replies, [id |-> char.id, ok |-> TRUE])
           /\ is \in {"intact", "damaged"}
           /\ done' = IF is = "intact" THEN done \cup {char.id} ELSE done
           /\ halted' = halted
  <2>1. /\ replies' \in Seq(R) /\ replies' # <<>> /\ Len(replies') = 1
        /\ replies'[1].id = sent /\ replies'[1].ok
    BY <1>7, <1>8, Zenon
  <2>2. done \subseteq done' /\ (~hurt => sent \in done')
    <3>1. ~hurt => is \in Sound
      BY <1>1, Zenon DEF Undisturbed
    <3>2. QED BY <1>4, <1>8, <3>1, Zenon DEF Sound
  <2>3. done' \subseteq 1..issued
    BY <1>4, <1>5, <1>8, Zenon DEF LTypeOK
  <2>4. LTypeOK'
    BY <1>1, <1>8, <2>1, <2>3, Zenon DEF LTypeOK, Forms
  <2>5. Carried'
    BY <1>1, <1>8, <2>2, CarriedKept, Zenon
  <2>6. Exchange'
    BY <1>1, <1>2, <1>3, <1>4, <1>8, <2>1, Zenon DEF Exchange, Command
  <2>7. Undisturbed'
    BY <1>1, <1>2, <1>6, <1>8, <2>2, Zenon DEF Undisturbed
  <2>8. QED BY <1>2, <1>3, <2>4, <2>5, <2>6, <2>7, Zenon
<1>9. CASE /\ replies' = Append(replies, [id |-> char.id, ok |-> FALSE])
           /\ UNCHANGED <<done, halted>>
  <2>1. /\ replies' \in Seq(R) /\ replies' # <<>> /\ Len(replies') = 1
        /\ replies'[1].id = sent /\ ~replies'[1].ok
    BY <1>7, <1>9, Zenon
  <2>2. LTypeOK'
    BY <1>1, <1>9, <2>1, Zenon DEF LTypeOK, Forms
  <2>3. Carried'
    BY <1>1, <1>9, CarriedKept, Zenon
  <2>4. Exchange'
    BY <1>1, <1>2, <1>3, <1>4, <1>9, <2>1, Zenon DEF Exchange, Command
  <2>5. Undisturbed'
    BY <1>1, <1>2, <1>6, <1>9, <2>1, Zenon DEF Undisturbed
  <2>6. QED BY <1>2, <1>3, <2>2, <2>3, <2>4, <2>5, Zenon
<1>10. CASE halted' = TRUE /\ UNCHANGED <<replies, done>>
  <2>1. LTypeOK'
    BY <1>1, <1>10, Zenon DEF LTypeOK, Forms
  <2>2. Carried'
    <3>1. \A c \in Callers : pc[c] # "send"
      BY <1>4, NobodyReceives, Zenon
    <3>2. QED BY <1>1, <1>10, <3>1, CarriedKept, Zenon
  <2>3. Exchange'
    BY <1>1, <1>2, <1>3, <1>4, <1>10, Zenon DEF Exchange
  <2>4. Undisturbed'
    BY <1>1, <1>10, Zenon DEF Undisturbed
  <2>5. QED BY <1>2, <1>3, <2>1, <2>2, <2>3, <2>4, Zenon
<1>11. QED BY <1>8, <1>9, <1>10, Zenon DEF Execute

----------------------------------------------------------------------------
(* The invariant *)

LEMMA LInvInit == LInit => LInv
<1> SUFFICES ASSUME LInit PROVE LInv
  BY Zenon
<1>1. UInv
  BY UInvInit, Zenon DEF LInit
<1>2. Hardware
  BY Zenon DEF LInit, Init, Hardware
<1>3. wire \in Seq(LineChars) /\ Len(wire) = 0 /\ Len(wire) <= 2
      /\ replies \in Seq([id : 0..MaxLines, ok : BOOLEAN]) /\ wire = <<>> /\ replies = <<>>
  BY DEF LInit
<1>4. \A c \in Callers : pc[c] = "idle"
  BY Zenon DEF LInit
<1>5. LTypeOK
  <2>1. 0 \in 0..MaxLines /\ 0 \in 0..MaxLines+1 /\ 0 \in 0..issued /\ issued = 0
        /\ 0 \in 0..MaxLost /\ 0 \in Nat
    BY LinkAssumption DEF LInit
  <2>2. /\ first \in [Callers -> 0..MaxLines] /\ last \in [Callers -> 0..MaxLines]
        /\ next \in [Callers -> 0..MaxLines+1] /\ ret \in [Callers -> BOOLEAN]
        /\ pc \in [Callers -> CallerLines]
    BY <2>1, Zenon DEF LInit, CallerLines
  <2>3. is \in Forms /\ rest \in Forms
    BY Zenon DEF LInit, Forms
  <2>4. QED BY <1>3, <2>1, <2>2, <2>3, Zenon DEF LInit, LTypeOK
<1>6. Calls
  <2>1. \A c \in Callers : c # Nobody
    BY LinkAssumption, Zenon
  <2>2. \A c \in Callers : pc[c] \notin {"send", "receive", "lock"}
    BY <1>4, Zenon
  <2>3. QED BY <1>4, <2>1, <2>2, Zenon DEF LInit, Calls
<1>7. Pipe = <<>> /\ Len(Pipe) = 0
  <2>1. Content = <<>> /\ fifo = <<>>
    BY <1>1, <1>3, PipeEmpty, Zenon DEF LInit, Init
  <2>2. QED BY <1>1, <1>3, <2>1, PipeEmpty, PipeSeq, Zenon
<1>8. Exchange
  <2>1. Command
    BY <1>7 DEF Command
  <2>2. QED BY <1>3, <1>7, <2>1, Zenon DEF LInit, Exchange
<1>9. Undisturbed
  <2>1. Len(Pipe) # 1 /\ Len(Pipe) # 2
    BY <1>7
  <2>2. QED BY <1>3, <2>1, Zenon DEF LInit, Undisturbed
<1>10. Carried
  BY <1>4, Zenon DEF LInit, Carried
<1>11. QED BY <1>1, <1>2, <1>5, <1>6, <1>8, <1>9, <1>10, Zenon DEF LInv

LEMMA LInvInductive ==
    ASSUME Timely, LInv, [LNext]_lvars, ~torn'
    PROVE  LInv'
<1>1. ASSUME NEW c \in Callers, InCall(c) PROVE LInv'
  BY <1>1, LockStep, SendStep, SkipStep, ReceiveLineStep, TimeoutStep, UnlockStep, Zenon
  DEF InCall
<1>2. ASSUME NEW c \in Callers, NEW n \in CallLengths(c), Call(c, n) PROVE LInv'
  BY <1>2, CallStep, Zenon
<1>3. CASE Deliver \/ Disturb \/ UartStep
  BY <1>3, DeliverStep, DisturbStep, UartStepStep, Zenon
<1>4. CASE UartTask
  BY <1>4, GetLineStep, ParseFailsStep, ExecuteStep, Zenon DEF UartTask
<1>5. CASE UNCHANGED lvars
  <2>1. UNCHANGED <<uart, pc, first, last, next, ret, serMutex, serBusy, issued, sent, wire,
                    is, texts, rest, ready, halted, done, replies, lost, hurt, torn>>
    BY <1>5, Zenon DEF lvars, host, lines, board, data, noise
  <2>2. UInv' /\ Hardware' /\ Pipe' = Pipe /\ char' = char
    BY <2>1, UartKept, Zenon DEF LInv
  <2>3. Calls' /\ (Receiving' <=> Receiving) /\ Carried'
    BY <2>1, CallsKept, CarriedKept, Zenon DEF LInv
  <2>4. Exchange' /\ Undisturbed'
    BY <2>1, <2>2, <2>3, ExchangeKept, UndisturbedKept, Zenon DEF LInv
  <2>5. LTypeOK'
    BY <2>1, Zenon DEF LInv, LTypeOK
  <2>6. QED BY <2>2, <2>3, <2>4, <2>5, Zenon DEF LInv
<1>6. QED BY <1>1, <1>2, <1>3, <1>4, <1>5, Zenon DEF LNext


\* A line that is torn stays torn.
LEMMA TornStays == torn /\ [LNext]_lvars => torn'
<1> SUFFICES ASSUME torn, [LNext]_lvars PROVE torn'
  BY Zenon
<1>1. ASSUME NEW c \in Callers, InCall(c) \/ \E n \in CallLengths(c) : Call(c, n)
      PROVE  torn'
  BY <1>1, Zenon DEF InCall, Lock, Send, Skip, ReceiveLine, Timeout, Unlock, Call, noise
<1>2. CASE Deliver \/ UartStep \/ ParseFails \/ Execute \/ UNCHANGED lvars
  BY <1>2, Zenon DEF Deliver, UartStep, ParseFails, Execute, lvars, noise
<1>3. CASE Disturb
  BY <1>3, Zenon DEF Disturb, DisturbText, DisturbEnd, DisturbAnswer
<1>4. CASE Get_Line
  BY <1>4, Zenon DEF Get_Line, AddText, FillData
<1>5. QED BY <1>1, <1>2, <1>3, <1>4, Zenon DEF LNext, UartTask

LEMMA LInvHolds == Timely => (LSpec => [](torn \/ LInv))
<1> SUFFICES ASSUME Timely PROVE LSpec => [](torn \/ LInv)
  BY Zenon
<1>1. LInit => torn \/ LInv
  BY LInvInit, Zenon
<1>2. (torn \/ LInv) /\ [LNext]_lvars => (torn \/ LInv)'
  BY LInvInductive, TornStays, Zenon
<1>3. QED BY <1>1, <1>2, PTL DEF LSpec

\* On a timely line the type invariant holds until a line is torn: at most one
\* command is ever on its way to the board, as nobody sends before the exchange
\* of the line before is over (the send and receiveLine calls under serMutex).
THEOREM LinkTypeCorrect == Timely => (LSpec => [](torn \/ LTypeOK))
<1>1. torn \/ LInv => torn \/ LTypeOK
  BY Zenon DEF LInv
<1>2. QED BY <1>1, LInvHolds, PTL

\* An answer meets the caller whose line it answers: after a damaged line, a lost
\* line feed, a lost or damaged answer or a timeout nothing is left over that the
\* next receiveLine would take for its own.
THEOREM AnswersMeetTheirCall == Timely => (LSpec => []AnswersOwnCall)
<1>1. torn \/ LInv => AnswersOwnCall
  <2> SUFFICES ASSUME LInv, replies # <<>>
               PROVE  /\ Len(replies) = 1 /\ Head(replies).id = sent
                      /\ \E c \in Callers : serMutex = c /\ pc[c] = "receive"
    BY Zenon DEF AnswersOwnCall
  <2>1. Len(replies) = 1 /\ replies[1].id = sent /\ Receiving
    BY Zenon DEF LInv, Exchange
  <2>2. Head(replies) = replies[1]
    BY HeadTailProperties, SMTT(30) DEF LInv, LTypeOK
  <2>3. \E c \in Callers : serMutex = c /\ pc[c] = "receive"
    BY <2>1, Zenon DEF LInv, Calls, Receiving
  <2>4. QED BY <2>1, <2>2, <2>3, Zenon
<1>2. QED BY <1>1, LInvHolds, PTL

\* A line that is torn has disturbed a command.
LEMMA TornHurts == LSpec => [](torn => hurt)
<1>1. LInit => (torn => hurt)
  BY Zenon DEF LInit
<1>2. (torn => hurt) /\ [LNext]_lvars => (torn => hurt)'
  <2> SUFFICES ASSUME torn => hurt, [LNext]_lvars PROVE torn' => hurt'
    BY Zenon
  <2>1. ASSUME NEW c \in Callers, InCall(c) \/ \E n \in CallLengths(c) : Call(c, n)
        PROVE  torn' => hurt'
    BY <2>1, Zenon DEF InCall, Lock, Send, Skip, ReceiveLine, Timeout, Unlock, Call, noise
  <2>2. CASE Deliver \/ UartStep \/ ParseFails \/ Execute \/ UNCHANGED lvars
    BY <2>2, Zenon DEF Deliver, UartStep, ParseFails, Execute, lvars, noise
  <2>3. CASE Disturb
    <3>1. \/ DisturbText(Head(wire)) \/ DisturbEnd(Head(wire))
          \/ DisturbAnswer(Head(replies))
      BY <2>3, Zenon DEF Disturb
    <3>2. ASSUME DisturbText(Head(wire)) \/ DisturbEnd(Head(wire)) PROVE hurt'
      BY <3>2, Zenon DEF DisturbText, DisturbEnd
    <3>3. ASSUME DisturbAnswer(Head(replies)) PROVE torn' => hurt'
      BY <3>3, Zenon DEF DisturbAnswer
    <3>4. QED BY <3>1, <3>2, <3>3, Zenon
  <2>4. CASE Get_Line
    BY <2>4, Zenon DEF Get_Line, AddText, FillData
  <2>5. QED BY <2>1, <2>2, <2>3, <2>4, Zenon DEF LNext, UartTask
<1>3. QED BY <1>1, <1>2, PTL DEF LSpec

\* A call that returns true has had each of its lines carried out by the board, in
\* setPoseAll and gotoPoseAll those of all joints, unless a command was disturbed.
THEOREM TrueMeansDone == Timely => (LSpec => []DoneIfTrue)
<1>1. (torn \/ LInv) /\ (torn => hurt) => DoneIfTrue
  <2> SUFFICES ASSUME LInv, NEW c \in Callers, pc[c] = "send", next[c] > last[c], ret[c],
                      ~hurt, NEW m \in first[c]..last[c]
               PROVE  m \in done
    BY Zenon DEF DoneIfTrue
  <2>1. first[c] \in Nat /\ last[c] \in Nat /\ next[c] \in Nat
    BY LinkAssumption DEF LInv, LTypeOK
  <2>2. m \in Nat /\ first[c] <= m /\ m < next[c]
    BY <2>1
  <2>3. "send" # "receive"
    BY Zenon
  <2>4. QED BY <2>2, <2>3, Zenon DEF LInv, Carried
<1>2. QED BY <1>1, LInvHolds, TornHurts, PTL

\* A call that sends a line to a board that has halted, or that waits for a board
\* that halts, returns false, for lists of any length and whatever check of the
\* board failed.
THEOREM DeadBoardsAreNoticed == Timely => (LSpec => []DeadBoardNoticed)
<1>1. torn \/ LInv => DeadBoardNoticed
  BY Zenon DEF LInv, Carried, DeadBoardNoticed
<1>2. QED BY <1>1, LInvHolds, PTL

\* The exchange of lines is all the flow control the receiver needs: on a timely
\* line no character arrives that ring and FIFO have no room for, until a line is
\* torn, so handler and Get pass on what the host sends, in order and without loss
\* or repetition.
THEOREM LineNeverOverruns == Timely => (LSpec => RingKept)
<1> SUFFICES ASSUME Timely PROVE LSpec => RingKept
  BY Zenon
<1>1. LInit => Queue!Init
  BY QueueInit, Zenon DEF LInit
<1>2. ASSUME LInv, [LNext]_lvars, ~torn' PROVE Queue!Next \/ UNCHANGED Queue!vars
  <2> SUFFICES UNext \/ UNCHANGED uart
    BY <1>2, QueueStep, Zenon DEF LInv
  <2> USE <1>2
  <2>1. ASSUME NEW c \in Callers, InCall(c) \/ \E n \in CallLengths(c) : Call(c, n)
        PROVE  UNCHANGED uart
    BY <2>1, Zenon DEF InCall, Lock, Send, Skip, ReceiveLine, Timeout, Unlock, Call
  <2>2. CASE Deliver
    <3>1. CASE halted
      BY <2>2, <3>1, Zenon DEF Deliver
    <3>2. CASE ~halted
      <4>1. Arrive(Head(wire)) /\ wire # <<>> /\ Command
        BY <2>2, <3>2, Zenon DEF Deliver, LInv, Exchange
      <4>2. Sender
        BY <4>1, DeliverFits, Zenon DEF LInv, LTypeOK
      <4>3. QED BY <4>2, Zenon DEF UNext
    <3>3. QED BY <3>1, <3>2, Zenon
  <2>3. CASE UartStep
    BY <2>3, Zenon DEF UartStep, UNext
  <2>4. CASE Get_Line
    BY <2>4, Zenon DEF Get_Line, UNext
  <2>5. CASE Disturb \/ ParseFails \/ Execute \/ UNCHANGED lvars
    BY <2>5, Zenon DEF Disturb, ParseFails, Execute, lvars
  <2>6. QED BY <2>1, <2>2, <2>3, <2>4, <2>5, Zenon DEF LNext, UartTask
<1>3. (torn \/ LInv) /\ [LNext]_lvars
        => [~torn' => Queue!Next \/ UNCHANGED Queue!vars]_lvars
  BY <1>2, TornStays, Zenon
<1>4. QED BY <1>1, <1>3, LInvHolds, PTL DEF LSpec, RingKept
=============================================================================

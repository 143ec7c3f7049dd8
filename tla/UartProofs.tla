----------------------------- MODULE UartProofs -----------------------------
(***************************************************************************)
(* The ring of UartMonitor implements the queue of CharQueue, for a ring   *)
(* and a FIFO of any length and any characters, and whether the handler is *)
(* late or not.                                                            *)
(***************************************************************************)
EXTENDS UartMonitor, SequenceTheorems, TLAPS

\* The indices stay in the ring and are equal when nothing is available.  What
\* the ring and the FIFO hold together fits into the ring, so the handler never
\* writes over a character that has not been read.
UInv ==
    /\ fifo \in Seq(Chars)
    /\ Container \in [Slots -> Chars] /\ char \in Chars
    /\ Rx_Inx \in Slots /\ Rx_Outx \in Slots
    /\ Available \in BOOLEAN
    /\ ~Available => Rx_Inx = Rx_Outx
    /\ Unread + Len(fifo) <= Size

\* The characters in the ring, in the order Get will return them.
Content == [n \in 1..Unread |-> Container[Slot(Rx_Outx + n - 1)]]

LEMMA UnreadRange ==
    ASSUME Rx_Inx \in Slots, Rx_Outx \in Slots
    PROVE  /\ Unread \in 0..Size
           /\ Available => Unread > 0
  BY UartAssumption DEF Unread, Slots

LEMMA SlotRange ==
    ASSUME NEW x \in Slots, NEW n \in 1..Size
    PROVE  Slot(x + n - 1) \in Slots
  BY UartAssumption DEF Slot, Slots

LEMMA ContentSeq ==
    ASSUME UInv
    PROVE  /\ Content \in Seq(Chars)
           /\ Len(Content) = Unread
           /\ \A n \in 1..Unread : Content[n] = Container[Slot(Rx_Outx + n - 1)]
<1>1. Unread \in Nat /\ \A n \in 1..Unread : n \in 1..Size
  BY UnreadRange, UartAssumption DEF UInv
<1>2. \A n \in 1..Unread : Container[Slot(Rx_Outx + n - 1)] \in Chars
  BY <1>1, SlotRange, Zenon DEF UInv
<1>3. Content \in [1..Unread -> Chars]
  BY <1>2 DEF Content
<1>4. Content \in Seq(Chars)
  BY <1>1, <1>3, SeqDef
<1>5. Len(Content) = Unread
  BY <1>1, <1>3, <1>4, LenProperties DEF Content
<1> QED BY <1>4, <1>5, Zenon DEF Content

LEMMA UInvInit == Init => UInv
<1> SUFFICES ASSUME Init PROVE UInv
  OBVIOUS
<1>1. 1 \in Slots
  BY UartAssumption DEF Slots
<1>2. Container \in [Slots -> Chars] /\ char \in Chars
  BY UartAssumption DEF Init
<1>3. Unread = 0 /\ Len(fifo) = 0 /\ fifo \in Seq(Chars)
  BY DEF Init, Unread
<1>4. Unread + Len(fifo) <= Size
  BY <1>3, UartAssumption
<1>5. /\ Rx_Inx \in Slots /\ Rx_Outx \in Slots /\ Rx_Inx = Rx_Outx
      /\ Available \in BOOLEAN
  BY <1>1, Zenon DEF Init
<1> QED BY <1>2, <1>3, <1>4, <1>5, Zenon DEF UInv

\* A turn of the handler's loop finds room in the ring and puts the character
\* behind the ones it holds.
LEMMA ReceiveStep ==
    ASSUME UInv, Receive
    PROVE  /\ UInv'
           /\ Unread < Size
           /\ Head(fifo) \in Chars
           /\ Content' = Append(Content, Head(fifo))
           /\ char' = char
<1>1. Len(fifo) \in Nat /\ Len(fifo) > 0 /\ Head(fifo) \in Chars
      /\ fifo' \in Seq(Chars) /\ Len(fifo') = Len(fifo) - 1
  BY HeadTailProperties, EmptySeq DEF UInv, Receive
<1>2. Unread \in 0..Size /\ Unread < Size
  BY <1>1, UnreadRange, UartAssumption DEF UInv
<1>3. Rx_Inx' \in Slots /\ Rx_Outx' = Rx_Outx /\ Available' = TRUE
  BY UartAssumption DEF UInv, Receive, Next_Inx, Slots
<1>4. Unread' = Unread + 1
  BY <1>2, UartAssumption DEF UInv, Receive, Next_Inx, Unread, Slots
<1>5. Container' \in [Slots -> Chars] /\ char' = char
  BY <1>1 DEF UInv, Receive
<1>6. UInv'
  BY <1>1, <1>2, <1>3, <1>4, <1>5, UartAssumption DEF UInv
<1>7. \A n \in 1..Unread : Slot(Rx_Outx + n - 1) # Rx_Inx
  BY <1>2, UartAssumption DEF UInv, Unread, Slot, Slots
<1>8. Slot(Rx_Outx + (Unread + 1) - 1) = Rx_Inx
  BY <1>2, UartAssumption DEF UInv, Unread, Slot, Slots
<1>9. /\ Content \in Seq(Chars) /\ Len(Content) = Unread
      /\ \A n \in 1..Unread : Content[n] = Container[Slot(Rx_Outx + n - 1)]
  BY ContentSeq
<1>10. /\ Content' \in Seq(Chars) /\ Len(Content') = Unread + 1
       /\ \A n \in 1..(Unread + 1) : Content'[n] = Container'[Slot(Rx_Outx + n - 1)]
  <2>1. (UInv => /\ Content \in Seq(Chars)
                 /\ Len(Content) = Unread
                 /\ \A n \in 1..Unread : Content[n] = Container[Slot(Rx_Outx + n - 1)])'
    BY ContentSeq, PTL
  <2> QED BY <1>3, <1>4, <1>6, <2>1 DEF Slot
<1>11. Container' = [Container EXCEPT ![Rx_Inx] = Head(fifo)]
  BY DEF Receive
<1>12. \A n \in 1..Unread : Content'[n] = Content[n]
  <2> SUFFICES ASSUME NEW n \in 1..Unread PROVE Content'[n] = Content[n]
    OBVIOUS
  <2>1. n \in 1..(Unread + 1) /\ n \in 1..Size
    BY <1>2, UartAssumption
  <2>2. Slot(Rx_Outx + n - 1) \in Slots
    BY <2>1, SlotRange DEF UInv
  <2>3. Container'[Slot(Rx_Outx + n - 1)] = Container[Slot(Rx_Outx + n - 1)]
    BY <1>7, <1>11, <2>2 DEF UInv
  <2> QED BY <1>9, <1>10, <2>1, <2>3
<1>13. Content'[Unread + 1] = Head(fifo)
  <2>1. Unread + 1 \in 1..(Unread + 1)
    BY <1>2, UartAssumption
  <2>2. Container'[Rx_Inx] = Head(fifo)
    BY <1>11 DEF UInv
  <2> QED BY <1>8, <1>10, <2>1, <2>2
<1>14. Content' = Append(Content, Head(fifo))
  <2>1. /\ Append(Content, Head(fifo)) \in Seq(Chars)
        /\ Len(Append(Content, Head(fifo))) = Unread + 1
        /\ \A n \in 1..Unread : Append(Content, Head(fifo))[n] = Content[n]
        /\ Append(Content, Head(fifo))[Unread + 1] = Head(fifo)
    BY <1>1, <1>9, AppendProperties
  <2>2. \A n \in 1..(Unread + 1) : n \in 1..Unread \/ n = Unread + 1
    BY <1>2, UartAssumption
  <2>3. \A n \in 1..Len(Content') : Content'[n] = Append(Content, Head(fifo))[n]
    BY <1>10, <1>12, <1>13, <2>1, <2>2
  <2> QED BY <1>10, <2>1, <2>3, SeqEqual
<1> QED BY <1>1, <1>2, <1>5, <1>6, <1>14

\* Get takes the character that has waited longest and leaves the others.
LEMMA GetStep ==
    ASSUME UInv, Get
    PROVE  /\ UInv'
           /\ Content # <<>>
           /\ char' = Head(Content)
           /\ Content' = Tail(Content)
<1>1. Len(fifo) \in Nat /\ fifo' = fifo /\ Container' = Container
  BY LenProperties DEF UInv, Get, hardware
<1>2. Unread \in 0..Size /\ Unread > 0
  BY UnreadRange DEF UInv, Get
<1>3. Rx_Outx' \in Slots /\ Rx_Inx' = Rx_Inx
  BY UartAssumption DEF UInv, Get, Next_Inx, Slots
<1>4. Available' \in BOOLEAN /\ (~Available' => Rx_Inx' = Rx_Outx')
  BY <1>3, Zenon DEF Get
<1>5. Unread' = Unread - 1
  <2>0. /\ Available
        /\ Rx_Inx = Rx_Outx' <=> ~Available'
        /\ Rx_Outx' = Next_Inx(Rx_Outx)
    BY Zenon DEF Get
  <2>1. CASE Rx_Inx = Rx_Outx'
    BY <2>0, <2>1, <1>2, <1>3, UartAssumption DEF UInv, Next_Inx, Unread, Slots
  <2>2. CASE Rx_Inx # Rx_Outx'
    BY <2>0, <2>2, <1>2, <1>3, UartAssumption DEF UInv, Next_Inx, Unread, Slots
  <2> QED BY <2>1, <2>2
<1>6. char' = Container[Rx_Outx] /\ char' \in Chars
  BY DEF UInv, Get
<1>7. UInv'
  <2>1. Unread' + Len(fifo') <= Size
    BY <1>1, <1>2, <1>5, UartAssumption DEF UInv
  <2> QED BY <1>1, <1>3, <1>4, <1>6, <2>1, Zenon DEF UInv
<1>8. /\ Content \in Seq(Chars) /\ Len(Content) = Unread
      /\ \A n \in 1..Unread : Content[n] = Container[Slot(Rx_Outx + n - 1)]
  BY ContentSeq
<1>9. /\ Content' \in Seq(Chars) /\ Len(Content') = Unread - 1
      /\ \A n \in 1..(Unread - 1) : Content'[n] = Container[Slot(Rx_Outx' + n - 1)]
  <2>1. (UInv => /\ Content \in Seq(Chars)
                 /\ Len(Content) = Unread
                 /\ \A n \in 1..Unread : Content[n] = Container[Slot(Rx_Outx + n - 1)])'
    BY ContentSeq, PTL
  <2> QED BY <1>1, <1>5, <1>7, <2>1 DEF Slot
<1>10. Content # <<>> /\ Head(Content) = Content[1]
       /\ Tail(Content) \in Seq(Chars) /\ Len(Tail(Content)) = Unread - 1
       /\ \A n \in 1..(Unread - 1) : Tail(Content)[n] = Content[n + 1]
  <2>1. Content # <<>>
    BY <1>2, <1>8, EmptySeq, UartAssumption
  <2> QED BY <1>8, <2>1, HeadTailProperties
<1>11. Content[1] = Container[Rx_Outx]
  <2>1. 1 \in 1..Unread /\ Slot(Rx_Outx + 1 - 1) = Rx_Outx
    BY <1>2, UartAssumption DEF UInv, Slot, Slots
  <2> QED BY <1>8, <2>1
<1>12. \A n \in 1..(Unread - 1) : Content'[n] = Tail(Content)[n]
  <2> SUFFICES ASSUME NEW n \in 1..(Unread - 1) PROVE Content'[n] = Tail(Content)[n]
    BY Zenon
  <2>1. n + 1 \in 1..Unread
    BY <1>2, UartAssumption
  <2>2. Slot(Rx_Outx' + n - 1) = Slot(Rx_Outx + (n + 1) - 1)
    BY <1>2, UartAssumption DEF UInv, Get, Next_Inx, Slot, Slots
  <2>3. Content[n + 1] = Container[Slot(Rx_Outx + (n + 1) - 1)]
    BY <1>8, <2>1
  <2> QED BY <1>9, <1>10, <2>2, <2>3
<1>13. Content' = Tail(Content)
  BY <1>9, <1>10, <1>12, SeqEqual
<1> QED BY <1>6, <1>7, <1>10, <1>11, <1>13

\* The uart and the ends of the handler leave the ring alone.
LEMMA OtherStep ==
    ASSUME UInv,
           Sender \/ Idle \/ UartIntHandler \/ HandlerEnd \/ UNCHANGED uart
    PROVE  UInv' /\ Content' = Content /\ char' = char
<1>1. /\ Container' = Container /\ Rx_Inx' = Rx_Inx /\ Rx_Outx' = Rx_Outx
      /\ Available' = Available /\ char' = char
  BY DEF Sender, Arrive, Idle, UartIntHandler, HandlerEnd, uart, ring
<1>2. Unread' = Unread /\ Content' = Content
  BY <1>1 DEF Unread, Content, Slot
<1>3. fifo' \in Seq(Chars) /\ Unread' + Len(fifo') <= Size
  <2>1. CASE Sender
    <3>1. Unread \in 0..Size /\ Len(fifo) \in Nat /\ Unread + Len(fifo) < Size
      BY <2>1, UnreadRange, LenProperties DEF UInv, Sender
    <3>2. PICK c \in Chars : fifo' = Append(fifo, c) \/ fifo' = fifo
      BY <2>1 DEF Sender, Arrive
    <3>3. /\ Append(fifo, c) \in Seq(Chars)
          /\ Len(Append(fifo, c)) = Len(fifo) + 1
      BY AppendProperties DEF UInv
    <3> QED BY <1>2, <3>1, <3>2, <3>3, UartAssumption DEF UInv
  <2>2. CASE Idle \/ UartIntHandler \/ HandlerEnd \/ UNCHANGED uart
    <3>1. fifo' = fifo
      BY <2>2 DEF Idle, UartIntHandler, HandlerEnd, uart, hardware
    <3> QED BY <1>2, <3>1 DEF UInv
  <2> QED BY <2>1, <2>2
<1> QED BY <1>1, <1>2, <1>3, Zenon DEF UInv

LEMMA QueueInit == Init => Queue!Init
<1> SUFFICES ASSUME Init PROVE Content = <<>> /\ char \in Chars
  BY DEF Queue!Init, Content
<1>1. UInv /\ Unread = 0
  BY UInvInit DEF Init, Unread
<1>2. QED BY <1>1, ContentSeq, EmptySeq DEF UInv

LEMMA QueueStep ==
    ASSUME UInv, UNext \/ UNCHANGED uart
    PROVE  Queue!Next \/ UNCHANGED Queue!vars
<1>1. CASE Receive
  <2>1. Len(Content) = Unread
    BY ContentSeq
  <2>2. QED BY <1>1, <2>1, ReceiveStep, Zenon DEF Queue!Next, Queue!Put, Content
<1>2. CASE Get
  BY <1>2, GetStep, Zenon DEF Queue!Next, Queue!Take, Content
<1>3. CASE Sender \/ Idle \/ UartIntHandler \/ HandlerEnd \/ UNCHANGED uart
  BY <1>3, OtherStep DEF Queue!vars, Content
<1>4. QED BY <1>1, <1>2, <1>3 DEF UNext, Handler

\* RingIsQueue for every ring: whatever the sizes, the handler and Get together
\* lose, repeat and reorder nothing while the sender leaves no more than Size
\* characters unread.
THEOREM RingImplementsQueue == USpec => RingIsQueue
<1>1. Init => UInv
  BY UInvInit
<1>2. UInv /\ [UNext]_uart => UInv'
  BY ReceiveStep, GetStep, OtherStep DEF UNext, Handler
<1>3. Init => Queue!Init
  BY QueueInit
<1>4. UInv /\ [UNext]_uart => [Queue!Next]_(Queue!vars)
  BY QueueStep
<1> QED BY <1>1, <1>2, <1>3, <1>4, PTL DEF USpec, RingIsQueue, Queue!Spec
=============================================================================

---------------------------- MODULE UartMonitor ----------------------------
(***************************************************************************)
(* The interrupt-driven receiver of the control board: the protected       *)
(* object Monitor of liblm4f120/arm-uart.adb, a ring of characters between *)
(* the interrupt handler and Get, and the receive FIFO of the uart, which  *)
(* is hardware.                                                            *)
(***************************************************************************)
EXTENDS Integers, Sequences

CONSTANTS Chars,    \* the characters on the line
          Junk,     \* what uninitialised memory holds
          Size,     \* length of Container (128)
          Depth,    \* length of the hardware FIFO (16)
          Trigger,  \* its level that raises INT_RX (8)
          Late      \* whether the handler may be late by a character time

ASSUME UartAssumption ==
    /\ Size \in Nat /\ Size > 1
    /\ Depth \in Nat /\ Trigger \in 1..Depth
    /\ Junk \in Chars
    /\ Late \in BOOLEAN

VARIABLES
    fifo,       \* the hardware FIFO
    armed,      \* the receive timeout has not fired since the last character
    flags,      \* the pending interrupts
    handling,   \* the handler is in its loop
    Container,  \* the ring
    Rx_Inx,     \* where the handler writes next
    Rx_Outx,    \* where Get reads next
    Available,  \* there is something to read
    char        \* the character Get returned last

hardware == <<fifo, armed, flags>>
ring     == <<Container, Rx_Inx, Rx_Outx, Available, char>>
uart     == <<hardware, handling, ring>>

Slots == 1..Size

Init ==
    /\ fifo = <<>> /\ armed = FALSE /\ flags = {}
    /\ handling = FALSE
    /\ Container = [s \in Slots |-> Junk] /\ char = Junk
    /\ Rx_Inx = 1 /\ Rx_Outx = 1
    /\ Available = FALSE

----------------------------------------------------------------------------
(* The uart *)

Prompt == Late \/ flags = {}

\* A character reaches the FIFO, or is lost if the FIFO is full.
Arrive(c) ==
    /\ Prompt
    /\ fifo' = IF Len(fifo) < Depth THEN Append(fifo, c) ELSE fifo
    /\ armed' = TRUE
    /\ flags' = IF Len(fifo) + 1 = Trigger THEN flags \cup {"INT_RX"} ELSE flags
    /\ UNCHANGED <<handling, ring>>

\* No character for 32 bit times while the FIFO holds some.
Idle ==
    /\ Prompt
    /\ fifo # <<>> /\ armed
    /\ flags' = flags \cup {"INT_RT"}
    /\ armed' = FALSE
    /\ UNCHANGED <<fifo, handling, ring>>

----------------------------------------------------------------------------
(* Monitor *)

Next_Inx(x) == IF x = Size THEN 1 ELSE x + 1

\* UartIntHandler: the interrupts are cleared, and the FIFO is read only if one
\* of them was pending, not both.
UartIntHandler ==
    /\ ~handling
    /\ flags # {}
    /\ flags' = {}
    /\ handling' = (flags \in {{"INT_RX"}, {"INT_RT"}})
    /\ UNCHANGED <<fifo, armed, ring>>

\* One turn of its loop; characters may still arrive.
Receive ==
    /\ handling
    /\ fifo # <<>>
    /\ Container' = [Container EXCEPT ![Rx_Inx] = Head(fifo)]
    /\ Rx_Inx' = Next_Inx(Rx_Inx)
    /\ Available' = TRUE
    /\ fifo' = Tail(fifo)
    /\ UNCHANGED <<armed, flags, handling, Rx_Outx, char>>

HandlerEnd ==
    /\ handling
    /\ fifo = <<>>
    /\ handling' = FALSE
    /\ UNCHANGED <<hardware, ring>>

Handler == UartIntHandler \/ Receive \/ HandlerEnd

\* Mutant: Available is cleared before Rx_Outx has moved on.
GetEarly ==
    /\ ~handling
    /\ Available
    /\ char' = Container[Rx_Outx]
    /\ Rx_Outx' = Next_Inx(Rx_Outx)
    /\ Available' = (Rx_Inx # Rx_Outx)
    /\ UNCHANGED <<hardware, handling, Container, Rx_Inx>>

\* entry Get when Available; the handler excludes it.
Get ==
    /\ ~handling
    /\ Available
    /\ char' = Container[Rx_Outx]
    /\ Rx_Outx' = Next_Inx(Rx_Outx)
    /\ Available' = (Rx_Inx # Rx_Outx')
    /\ UNCHANGED <<hardware, handling, Container, Rx_Inx>>

----------------------------------------------------------------------------
(* A sender that leaves no more than Size characters unread *)

\* The number of characters in the ring: equal indices mean an empty ring or a
\* full one, and Available tells which.
Unread ==
    IF ~Available THEN 0
    ELSE IF Rx_Inx > Rx_Outx THEN Rx_Inx - Rx_Outx
    ELSE Rx_Inx - Rx_Outx + Size

Sender ==
    /\ Unread + Len(fifo) < Size
    /\ \E c \in Chars : Arrive(c)

UNext == Sender \/ Idle \/ Handler \/ Get

USpec == Init /\ [][UNext]_uart

Slot(x) == IF x > Size THEN x - Size ELSE x

Queue == INSTANCE CharQueue WITH
    Capacity <- Size,
    queue <- [n \in 1..Unread |-> Container[Slot(Rx_Outx + n - 1)]],
    out <- char

\* The ring is a queue of Size characters: as long as the sender leaves no more
\* than Size unread, handler and Get together lose, repeat and reorder nothing,
\* also when the ring wraps around or is completely full.
RingIsQueue == Queue!Spec
=============================================================================

----------------------------- MODULE CharQueue -----------------------------
(***************************************************************************)
(* What the receive buffer of the uart promises: characters come out in    *)
(* the order they were put in, none lost, none invented, none twice, and   *)
(* it holds Capacity of them.                                              *)
(***************************************************************************)
EXTENDS Naturals, Sequences

CONSTANTS Chars, Capacity

VARIABLES queue,  \* the characters received and not yet read
          out     \* the character read last

vars == <<queue, out>>

Init == queue = <<>> /\ out \in Chars

Put == /\ Len(queue) < Capacity
       /\ \E c \in Chars : queue' = Append(queue, c)
       /\ UNCHANGED out

Take == /\ queue # <<>>
        /\ out' = Head(queue)
        /\ queue' = Tail(queue)

Next == Put \/ Take

Spec == Init /\ [][Next]_vars
=============================================================================

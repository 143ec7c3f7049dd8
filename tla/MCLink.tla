------------------------------- MODULE MCLink -------------------------------
(***************************************************************************)
(* SerialLink with a ring of two characters, which one line fills, and a   *)
(* FIFO of four.                                                           *)
(***************************************************************************)
EXTENDS SerialLink

\* The characters on the line, and what the ring holds at first.
CharsOf == LineChars
Blank   == LF(0)
=============================================================================

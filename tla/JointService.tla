---------------------------- MODULE JointService ----------------------------
(***************************************************************************)
(* What the position controllers of the control board promise to whoever   *)
(* sends gotoPose: of the requests made while a motion is under way only   *)
(* the newest is kept; a joint travels one unit at a time, ends exactly on *)
(* the target it accepted, and only then accepts the next.                 *)
(***************************************************************************)
EXTENDS Integers

CONSTANTS Joints,   \* the joints served
          Pos,      \* their positions
          Home,     \* the position they are given first
          None      \* no request, or no position yet

VARIABLES wanted,   \* the newest request not yet accepted, or None
          goal,     \* the target of the motion under way, or None
          at        \* the position of the joint, None before the board is up

vars == <<wanted, goal, at>>

Nothing == [j \in Joints |-> None]

Init == wanted = Nothing /\ goal = Nothing /\ at = Nothing

GoHome ==
    /\ at = Nothing
    /\ at' = [j \in Joints |-> Home]
    /\ UNCHANGED <<wanted, goal>>

Ask(j) ==
    /\ at[j] # None
    /\ \E p \in Pos : wanted' = [wanted EXCEPT ![j] = p]
    /\ UNCHANGED <<goal, at>>

Accept(j) ==
    /\ goal[j] = None /\ wanted[j] # None
    /\ goal' = [goal EXCEPT ![j] = wanted[j]]
    /\ wanted' = [wanted EXCEPT ![j] = None]
    /\ UNCHANGED at

Toward(p, q) == IF p < q THEN p + 1 ELSE IF p > q THEN p - 1 ELSE p

Move(j) ==
    /\ goal[j] # None
    /\ at' = [at EXCEPT ![j] = Toward(@, goal[j])]
    /\ goal' = [goal EXCEPT ![j] = IF Toward(at[j], @) = @ THEN None ELSE @]
    /\ UNCHANGED wanted

Serve(j) == Accept(j) \/ Move(j)

Next == GoHome \/ \E j \in Joints : Ask(j) \/ Serve(j)

Spec == Init /\ [][Next]_vars

\* A request is accepted and a motion goes on until it has arrived.
FairSpec == Spec /\ \A j \in Joints : WF_vars(Serve(j))
=============================================================================

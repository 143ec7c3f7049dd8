----------------------------- MODULE WalkProofs -----------------------------
(***************************************************************************)
(* The walker uses the joint controllers as JointControl allows, and a     *)
(* shell that starts and stops them only between walks (Careful) leaves    *)
(* no window in which its gotoPoseSync could wait for ever or return from  *)
(* another motion than its own.                                            *)
(***************************************************************************)
EXTENDS Walk, JointControlProofs

Polls   == {5, 10, 14}
Settled == {6, 7, 11}  \* the operations that follow a poll, and the first sync

\* Only the walker is in a call, and only while it lives; the shell neither
\* starts nor stops the controllers meanwhile.
Callings ==
    /\ \A c \in Drivers : c # Walker => pc[c] = "idle"
    /\ pc[Main] \in {"idle", "start", "stop", "stopSignal", "join"}
    /\ pc[Walker] \in {"idle", "goto", "sync", "syncSignal", "syncWait", "syncWoken"}
    /\ alive \/ shell # "none" => pc[Main] = "idle"
    /\ pc[Walker] # "idle" => fdServo /\ alive

\* The walker waits for joint j, or holds its mutex.
Awaits(j) == pc[Walker] = "syncWait" /\ arg[Walker].joint = j
Holds(j)  == pc[Walker] = "syncSignal" /\ arg[Walker].joint = j

\* A controller between startController and stopController: it waits unless it
\* has a motion to carry out.
Serving(j) ==
    /\ ctl[j] \in {"wait", "woken", "switch", "load", "move", "store", "top"}
    /\ status[j] # "GOPOS" => ctl[j] = "wait"
    /\ syncSem[j] = IF Awaits(j) THEN -1 ELSE 0
    /\ mutex[j] = IF Holds(j) THEN Walker ELSE Nobody

\* A controller that startController has created.
Starting(j) ==
    /\ ctl[j] \in {"new", "wait"}
    /\ syncSem[j] = 0 /\ mutex[j] = Nobody

Serves ==
    /\ pc[Main] = "idle" /\ fdServo => \A j \in Joints : Serving(j)
    /\ pc[Main] = "start" => \A j \in Joints : j < k => Starting(j)

\* What the polls have seen stays true until the walker's next request.
Progress ==
    /\ n # 0 \/ ~done => w \in Polls /\ pc[Walker] = "idle"
    /\ done => \A j \in Joints : j < n => status[j] # "GOPOS"
    /\ w \in Settled => pc[Walker] = "idle" /\ \A j \in Joints : status[j] # "GOPOS"

\* The motion a gotoPoseSync has asked for, from the request to its end.
J == arg[Walker].joint
P == arg[Walker].pos

Motion ==
    /\ pc[Walker] \in {"sync", "syncSignal"} => ctl[J] = "wait"
    /\ pc[Walker] \in {"syncSignal", "syncWait"} => callback[J]
    /\ pc[Walker] = "syncSignal" => targetPos[J] = P /\ status[J] = "GOPOS"
    /\ pc[Walker] = "syncWait" =>
         \/ ctl[J] \in {"woken", "switch", "load"} /\ targetPos[J] = P
         \/ ctl[J] \in {"move", "store"} /\ dest[J] = P
    /\ pc[Walker] = "syncWoken" => ctl[J] \in {"top", "wait"} /\ Near(joints_pos[J], P)

Directed == {RolesOf(d) : d \in Directions \cup {"front"}}

Local ==
    /\ w \in 0..15 /\ n \in Joints /\ done \in BOOLEAN
    /\ should_stop \in BOOLEAN /\ quit \in BOOLEAN /\ alive \in BOOLEAN
    /\ roles \in Directed
    /\ shell \in Directions \cup {"stop", "none"}

WInv == Callings /\ Serves /\ Progress /\ Motion

----------------------------------------------------------------------------
(* The walker's program *)

LEMMA Program == End = 15 /\ Len(Walking) = 14 /\ DOMAIN Walking = 1..14
  BY DEF Walking, End

LEMMA Operation ==
    ASSUME NEW s \in 1..14
    PROVE  /\ Walking[s].op = "poll" <=> s \in Polls
           /\ Walking[s].op = "sync" <=> s \in {7, 11}
           /\ Walking[s].op = "read" <=> s = 6
           /\ Walking[s].op \in {"goto", "sync"} =>
                /\ Walking[s].role \in {"front", "back", "right", "left"}
                /\ Walking[s].pos \in {Top, Mid, Low, Bottom}
<1>1. /\ Walking[1] = goto("front", Top) /\ Walking[2] = goto("back", Mid)
      /\ Walking[3] = goto("left", Mid) /\ Walking[4] = goto("right", Mid)
      /\ Walking[5] = poll(FALSE) /\ Walking[6] = [op |-> "read", out |-> FALSE]
      /\ Walking[7] = sync("front", Bottom) /\ Walking[8] = goto("left", Low)
      /\ Walking[9] = goto("right", Low) /\ Walking[10] = poll(TRUE)
      /\ Walking[11] = sync("front", Top) /\ Walking[12] = goto("left", Mid)
      /\ Walking[13] = goto("right", Mid) /\ Walking[14] = poll(TRUE)
  BY Zenon DEF Walking
<1>2. \A r, p : LET o == goto(r, p) IN
                o.op = "goto" /\ o.role = r /\ o.pos = p
  BY Zenon DEF goto
<1>3. \A r, p : LET o == sync(r, p) IN
                o.op = "sync" /\ o.role = r /\ o.pos = p
  BY Zenon DEF sync
<1>4. \A b : poll(b).op = "poll"
  BY Zenon DEF poll
<1>5. s \in {1, 2, 3, 4, 5, 6, 7, 8, 9, 10, 11, 12, 13, 14}
  OBVIOUS
<1>6. \A q \in {1, 2, 3, 4, 8, 9, 12, 13} :
         /\ Walking[q].op = "goto"
         /\ Walking[q].role \in {"front", "back", "right", "left"}
         /\ Walking[q].pos \in {Top, Mid, Low, Bottom}
  BY <1>1, <1>2
<1>7. \A q \in {7, 11} :
         /\ Walking[q].op = "sync"
         /\ Walking[q].role \in {"front", "back", "right", "left"}
         /\ Walking[q].pos \in {Top, Mid, Low, Bottom}
  BY <1>1, <1>3
<1>8. \A q \in Polls : Walking[q].op = "poll"
  BY <1>1, <1>4, ZenonT(30) DEF Polls
<1>9. Walking[6].op = "read"
  BY <1>1
<1>10. CASE s \in {1, 2, 3, 4, 8, 9, 12, 13}
  BY <1>6, <1>10 DEF Polls
<1>11. CASE s \in {7, 11}
  BY <1>7, <1>11 DEF Polls
<1>12. CASE s \in Polls
  BY <1>8, <1>12 DEF Polls
<1>13. CASE s = 6
  BY <1>9, <1>13 DEF Polls
<1>14. QED BY <1>5, <1>10, <1>11, <1>12, <1>13, Zenon DEF Polls

\* The next operation: the following one, the top of the loop, or the end.
LEMMA Following ==
    ASSUME NEW s \in 1..14
    PROVE  After(s) \in IF s = 14 THEN {6, 15} ELSE {s + 1, 15}
  BY Program, Zenon DEF After, LoopTop

LEMMA Roles ==
    ASSUME Local, NEW r \in {"front", "back", "right", "left"}
    PROVE  roles[r] \in Joints
<1>1. PICK d \in {"front", "back", "right", "left"} : roles = RolesOf(d)
  BY WalkAssumption, Zenon DEF Local, Directed
<1>2. Joints = 0..3
  BY WalkAssumption DEF Joints
<1>3. QED BY <1>1, <1>2 DEF RolesOf

----------------------------------------------------------------------------
(* The walker as a caller of the controllers *)

LEMMA CommandCalls ==
    ASSUME Local, Command
    PROVE  /\ w \in 1..14 /\ w \notin Polls /\ w # 6
           /\ Running
           /\ \/ UNCHANGED vars
              \/ \E j \in Joints, p \in Asked :
                    \/ w \notin {7, 11} /\ GotoPose(Walker, j, p)
                    \/ w \in {7, 11} /\ GotoPoseSync(Walker, j, p)
<1>1. w \in 1..14 /\ Running /\ Walking[w].op \in {"goto", "sync"}
  BY Program, Zenon DEF Command, At
<1>2. roles[Walking[w].role] \in Joints
  BY <1>1, Operation, Roles, Zenon
<1>3. Walking[w].pos \in Asked
  BY <1>1, Operation, WalkAssumption
<1>4. /\ w \notin Polls /\ w # 6
      /\ At("goto") => w \notin {7, 11}
      /\ At("sync") => w \in {7, 11}
  BY <1>1, Operation, Zenon DEF At
<1>5. QED BY <1>1, <1>2, <1>3, <1>4, Zenon DEF Command

\* Every step of a walk is a step of JointControl or leaves its state alone.
LEMMA StepMaps == Local /\ [WNext]_allVars => [Next]_vars
<1> SUFFICES ASSUME Local, [WNext]_allVars PROVE [Next]_vars
  BY Zenon
<1>0. Walker \in Callers /\ Walker \in Syncers /\ Joints \subseteq 0..N
  BY WalkAssumption, Sets DEF Callers, Joints
<1>1. CASE Command
  <2>1. ASSUME NEW j \in Joints, NEW p \in Asked,
               GotoPose(Walker, j, p) \/ GotoPoseSync(Walker, j, p)
        PROVE  Next
    BY <1>0, <2>1, Zenon DEF NewCall, Next
  <2>2. QED BY <1>1, <2>1, CommandCalls, Zenon
<1>2. CASE Begin \/ ReadParams \/ Poll \/ Leave
  BY <1>2, Zenon DEF Begin, ReadParams, Poll, Leave
<1>3. ASSUME NEW d, StopWalk(d) PROVE UNCHANGED vars
  BY <1>3, Zenon DEF StopWalk
<1>4. CASE StopWalkReturn \/ MoveReturn
  BY <1>4, Zenon DEF StopWalkReturn, MoveReturn
<1>5. CASE Control
  BY <1>5, Zenon DEF Control, Next
<1>6. ASSUME NEW j \in Joints, JointStep(Controller(j)) PROVE Next
  BY <1>6, Zenon DEF JointStep, Next
<1>7. CASE JointStep(InCall(Walker))
  BY <1>0, <1>7, Zenon DEF JointStep, Next
<1>8. CASE JointStep(InMain)
  BY <1>8, Zenon DEF JointStep, Next
<1>9. CASE UNCHANGED allVars
  BY <1>9, Zenon DEF allVars
<1> QED
  BY <1>1, <1>2, <1>3, <1>4, <1>5, <1>6, <1>7, <1>8, <1>9, Zenon DEF WNext, WalkerStep

LEMMA RolesOfDirection == \A d \in Directions \cup {"front"} : RolesOf(d) \in Directed
  BY Zenon DEF Directed

LEMMA LocalInductive == Local /\ [WNext]_allVars => Local'
<1> SUFFICES ASSUME Local, [WNext]_allVars PROVE Local'
  BY Zenon
<1>0. Joints = 0..3 /\ N = 4
  BY WalkAssumption DEF Joints
<1>1. 0 \in 0..15 /\ \A s \in 1..14 : After(s) \in 0..15
  BY Following
<1>2. CASE UNCHANGED walkVars
  BY <1>2, Zenon DEF Local, walkVars
<1>3. CASE Begin
  BY <1>3, Program DEF Begin, Local
<1>4. CASE ReadParams
  BY <1>1, <1>4, Program, Zenon DEF ReadParams, At, Local
<1>5. CASE Command
  BY <1>1, <1>5, CommandCalls, Zenon DEF Command, Local
<1>6. CASE Poll
  <2>1. n' \in Joints
    BY <1>0, <1>6 DEF Poll, Local
  <2>2. w' \in 0..15
    BY <1>1, <1>6, Program, Zenon DEF Poll, At, Local
  <2>3. done' \in BOOLEAN
    BY <1>6, Zenon DEF Poll, Local
  <2>4. QED BY <1>6, <2>1, <2>2, <2>3, Zenon DEF Poll, Local
<1>7. CASE Leave
  BY <1>1, <1>7, Zenon DEF Leave, Local
<1>8. ASSUME NEW d \in Directions \cup {"stop"}, StopWalk(d) PROVE Local'
  BY <1>8, Zenon DEF StopWalk, Local
<1>9. CASE StopWalkReturn
  BY <1>9, Zenon DEF StopWalkReturn, Local
<1>10. CASE MoveReturn
  <2>1. roles' \in Directed
    BY <1>10, RolesOfDirection, Zenon DEF MoveReturn
  <2>2. QED BY <1>10, <2>1, Zenon DEF MoveReturn, Local
<1>11. CASE Control \/ JointStep(InCall(Walker)) \/ JointStep(InMain)
  BY <1>2, <1>11, Zenon DEF Control, JointStep
<1>12. ASSUME NEW j \in Joints, JointStep(Controller(j)) PROVE Local'
  BY <1>2, <1>12, Zenon DEF JointStep
<1>13. CASE UNCHANGED allVars
  BY <1>2, <1>13, Zenon DEF allVars
<1> QED
  BY <1>3, <1>4, <1>5, <1>6, <1>7, <1>8, <1>9, <1>10, <1>11, <1>12, <1>13, Zenon
  DEF WNext, WalkerStep

LEMMA LocalInit == WInit => Local
<1>1. WInit => roles \in Directed
  BY RolesOfDirection, Zenon DEF WInit
<1>2. 0 \in Joints
  BY Sets, Zenon
<1>3. 0 \in 0..15
  OBVIOUS
<1>4. QED BY <1>1, <1>2, <1>3, Zenon DEF WInit, Local

\* The walker and the shell take only steps of JointControl, so its theorems hold
\* during a walk.
LEMMA WalkUsesControllers == WSpec => Spec
<1>1. WInit => Init
  BY Zenon DEF WInit
<1>2. QED
  BY <1>1, LocalInit, LocalInductive, StepMaps, PTL DEF WSpec, Spec

\* The walker stays within its program, checkMotionDone reads only the joints
\* there are, and the state of the controllers is well typed during a walk.
THEOREM WalkTypeCorrect == WSpec => []WTypeOK
<1>1. TypeOK /\ Local => WTypeOK
  BY Program, Zenon DEF Local, WTypeOK, Directed
<1>2. QED
  BY <1>1, WalkUsesControllers, TypeCorrect, LocalInit, LocalInductive, PTL
  DEF WSpec

----------------------------------------------------------------------------
(* Walks between a start and a stop of the controllers *)

LEMMA WalkerCalls ==
    /\ Walker \in Callers /\ Walker \in Drivers /\ Walker # Main /\ Main \in Callers
    /\ Walker # Nobody /\ Joints = 0..3 /\ Joints \subseteq Int /\ N = 4
  BY WalkAssumption, JointAssumption DEF Callers, Joints

\* The walker's place in its program after an operation that is not a poll.
LEMMA NextOperation ==
    ASSUME NEW s \in 1..14
    PROVE  /\ s \notin Polls \cup {6} => After(s) \notin Settled
           /\ s = 6 => After(s) \in {7, 15}
  BY Following DEF Polls, Settled

\* The walker's own steps outside the calls, and those of the shell.
LEMMA QuietStep ==
    ASSUME WInv, Local, Careful, UNCHANGED vars,
           \/ WalkerStep \/ StopWalkReturn \/ MoveReturn
           \/ \E d \in Directions \cup {"stop"} : StopWalk(d)
    PROVE  WInv'
<1>1. Serves' /\ Motion'
  BY ZenonT(30) DEF WInv, Serves, Serving, Starting, Awaits, Holds, Motion, J, P, vars, params,
         local, calls
<1>2. UNCHANGED <<pc, fdServo, status>>
  BY Zenon DEF vars, params, calls
<1>3. (n = 0 /\ done) \/ (w \in Polls /\ pc[Walker] = "idle")
  BY Zenon DEF WInv, Progress
<1>4. ASSUME UNCHANGED <<n, done, w>> PROVE Progress'
  BY <1>2, <1>4, Zenon DEF WInv, Progress
<1>5. ASSUME UNCHANGED <<n, done>>, w \notin Polls, w' \notin Settled PROVE Progress'
  BY <1>2, <1>3, <1>5, Zenon DEF WInv, Progress
<1>6. ASSUME UNCHANGED <<alive, shell>> PROVE Callings'
  BY <1>2, <1>6, Zenon DEF WInv, Callings
<1>7. CASE Begin
  BY <1>1, <1>5, <1>6, <1>7, Program DEF Begin, WInv, Polls, Settled
<1>8. CASE ReadParams
  <2>1. w = 6
    BY <1>8, Program, Operation, Zenon DEF ReadParams, At
  <2>2. w' \in {7, 15}
    BY <1>8, <2>1, NextOperation DEF ReadParams
  <2>3. Progress'
    <3>1. w \notin Polls /\ w \in Settled /\ pc[Walker] = "idle"
      BY <1>8, <2>1, SMTT(30) DEF Polls, Settled, ReadParams, At, Running
    <3>2. QED BY <1>2, <1>3, <1>8, <3>1, Zenon DEF WInv, Progress, ReadParams
  <2>4. QED BY <1>1, <1>6, <1>8, <2>3, Zenon DEF ReadParams, WInv
<1>9. CASE Command
  <2>1. w \in 1..14 /\ w \notin Polls \cup {6}
    BY <1>9, CommandCalls, Zenon
  <2>2. w' \notin Settled
    BY <1>9, <2>1, NextOperation, Zenon DEF Command
  <2>3. QED BY <1>1, <1>5, <1>6, <1>9, <2>1, <2>2, Zenon DEF Command, WInv
<1>10. CASE Leave
  <2>1. w \notin Polls /\ w' \notin Settled
    BY <1>10, Program DEF Leave, Polls, Settled
  <2>2. Callings'
    BY <1>2, <1>10, Zenon DEF Leave, Running, WInv, Callings
  <2>3. QED BY <1>1, <1>5, <1>10, <2>1, <2>2, Zenon DEF Leave, WInv
<1>11. CASE Poll
  <2>1. w \in Polls /\ pc[Walker] = "idle" /\ n \in Joints
    BY <1>11, Program, Operation, Zenon DEF Poll, At, Running, Local
  <2>2. CASE n < N - 1
    <3>1. w' = w /\ n' = n + 1 /\ (done' => done /\ status[n] # "GOPOS")
      BY <1>11, <2>2, ZenonT(30) DEF Poll
    <3>2. \A j \in Joints : j < n + 1 => j < n \/ j = n
      BY <2>1, WalkerCalls
    <3>3. done' => \A j \in Joints : j < n' => status[j] # "GOPOS"
      BY <3>1, <3>2, Zenon DEF WInv, Progress
    <3>4. QED BY <1>1, <1>2, <1>6, <1>11, <2>1, <3>1, <3>3, Zenon DEF Poll, WInv, Progress
  <2>3. CASE ~(n < N - 1)
    <3>1. /\ n' = 0 /\ done'
          /\ w' = w \/ (done /\ status[n] # "GOPOS")
      BY <1>11, <2>3, Zenon DEF Poll
    <3>2. \A j \in Joints : ~(j < 0) /\ (j < n \/ j = n)
      BY <2>1, <2>3, WalkerCalls
    <3>3. w' = w \/ \A j \in Joints : status[j] # "GOPOS"
      BY <3>1, <3>2, Zenon DEF WInv, Progress
    <3>4. Progress'
      BY <1>2, <2>1, <3>1, <3>2, <3>3, Zenon DEF WInv, Progress
    <3>5. QED BY <1>1, <1>6, <1>11, <3>4, Zenon DEF Poll, WInv
  <2>4. QED BY <2>2, <2>3, Zenon
<1>12. CASE StopWalkReturn
  BY <1>1, <1>2, <1>4, <1>12, Zenon DEF StopWalkReturn, WInv, Callings
<1>13. CASE MoveReturn
  <2>1. shell # "none"
    BY <1>13, WalkAssumption, Zenon DEF MoveReturn
  <2>2. Callings'
    BY <1>2, <1>13, <2>1, Zenon DEF MoveReturn, WInv, Callings
  <2>3. QED BY <1>1, <1>4, <1>13, <2>2, Zenon DEF MoveReturn, WInv
<1>14. ASSUME NEW d \in Directions \cup {"stop"}, StopWalk(d) PROVE WInv'
  BY <1>1, <1>2, <1>4, <1>14, Zenon DEF StopWalk, ShellIdle, WInv, Callings
<1> QED
  BY <1>7, <1>8, <1>9, <1>10, <1>11, <1>12, <1>13, <1>14, Zenon DEF WalkerStep

\* A call of gotoPose or gotoPoseSync that is accepted: the latter finds the
\* controller waiting, since the poll before it has seen no motion.
LEMMA CommandStep ==
    ASSUME WInv, Local, Typed, Command,
           NEW j \in Joints, NEW p \in Asked,
           \/ w \notin {7, 11} /\ GotoPose(Walker, j, p)
           \/ w \in {7, 11} /\ GotoPoseSync(Walker, j, p)
    PROVE  WInv'
<1>0. w \in 1..14 /\ w \notin Polls \cup {6} /\ alive /\ pc[Walker] = "idle"
  BY CommandCalls, Zenon DEF Running
<1>1. /\ UNCHANGED <<fdServo, status, targetPos, callback, mutex, syncSem, joints_pos,
                     ctl, dest, i, k>>
      /\ fdServo
      /\ pc' = [pc EXCEPT ![Walker] = IF w \in {7, 11} THEN "sync" ELSE "goto"]
      /\ arg' = [arg EXCEPT ![Walker] = [joint |-> j, pos |-> p]]
  BY Zenon DEF GotoPose, GotoPoseSync, Accepted, Call, params, local
<1>2. pc'[Walker] = (IF w \in {7, 11} THEN "sync" ELSE "goto") /\ J' = j
  BY <1>1, WalkerCalls, Zenon DEF Typed, TypeOK, J
<1>3. \A c \in Callers : c # Walker => pc'[c] = pc[c]
  BY <1>1, Zenon DEF Typed, TypeOK
<1>4. UNCHANGED <<should_stop, roles, quit, alive, n, done, shell>>
  BY Zenon DEF Command
<1>5. \A c \in Drivers : c \in Callers
  BY Zenon DEF Callers
<1>6. Callings'
  BY <1>0, <1>1, <1>2, <1>3, <1>4, <1>5, WalkerCalls, Zenon DEF WInv, Callings
<1>7. pc[Main] = "idle"
  BY <1>0, Zenon DEF WInv, Callings
<1>8. Serves'
  BY <1>0, <1>1, <1>2, <1>3, <1>7, WalkerCalls, SMTT(60)
  DEF WInv, Serves, Serving, Awaits, Holds
<1>9. w' \notin Settled
  BY <1>0, NextOperation, Zenon DEF Command
<1>10. Progress'
  BY <1>0, <1>1, <1>4, <1>9, Zenon DEF WInv, Progress
<1>11. w \in {7, 11} => ctl[j] = "wait"
  BY <1>0, <1>1, <1>7, Zenon DEF WInv, Progress, Serves, Serving, Settled
<1>12. Motion'
  BY <1>1, <1>2, <1>11, SMTT(60) DEF Motion
<1> QED BY <1>6, <1>8, <1>10, <1>12, Zenon DEF WInv

\* With a careful shell, startControl and stopControl find no walker.
LEMMA ControlStep ==
    ASSUME WInv, Typed, Careful, Control
    PROVE  WInv'
<1>0. ~alive /\ shell = "none" /\ pc[Main] = "idle"
  BY Zenon DEF Control, ShellIdle
<1>1. pc[Walker] = "idle"
  BY <1>0, Zenon DEF WInv, Callings
<1>2. /\ UNCHANGED <<walkVars, status>> /\ k' = 0
      /\ \E l \in {"start", "stop"} : pc' = [pc EXCEPT ![Main] = l]
  BY Zenon DEF Control, Start, Stop, MainAt, params
<1>3. /\ pc'[Main] \in {"start", "stop"}
      /\ \A c \in Callers : c # Main => pc'[c] = pc[c]
  BY <1>2, WalkerCalls, Zenon DEF Typed, TypeOK
<1>4. \A c \in Drivers : c \in Callers /\ c # Main
  BY JointAssumption, Zenon DEF Callers
<1>5. Callings'
  BY <1>0, <1>1, <1>2, <1>3, <1>4, WalkerCalls, Zenon DEF WInv, Callings, walkVars
<1>6. Serves'
  BY <1>2, <1>3, WalkerCalls DEF Serves
<1>7. Progress'
  BY <1>1, <1>2, <1>3, WalkerCalls, Zenon DEF WInv, Progress, walkVars
<1>8. Motion'
  BY <1>1, <1>3, WalkerCalls, Zenon DEF Motion
<1> QED BY <1>5, <1>6, <1>7, <1>8, Zenon DEF WInv

\* While Main is in startController or stopController there is no walker either.
LEMMA MainStep ==
    ASSUME WInv, Typed, JointStep(InMain)
    PROVE  WInv'
<1>0. pc[Main] # "idle"
  BY Zenon DEF JointStep, InMain, StartJoint, StartJointFails, StartReturn, StopPoll,
         StopSignal, StopJoin, StopReturn, MainAt
<1>1. ~alive /\ shell = "none" /\ pc[Walker] = "idle"
  BY <1>0, Zenon DEF WInv, Callings
<1>2. /\ UNCHANGED walkVars
      /\ \E l \in {"idle", "start", "stop", "stopSignal", "join"} :
            pc' = [pc EXCEPT ![Main] = l]
  BY Zenon DEF JointStep, InMain, StartJoint, StartJointFails, StartReturn, StopPoll,
         StopSignal, StopJoin, StopReturn, MainAt
<1>3. /\ pc'[Main] \in {"idle", "start", "stop", "stopSignal", "join"}
      /\ \A c \in Callers : c # Main => pc'[c] = pc[c]
  BY <1>2, WalkerCalls, Zenon DEF Typed, TypeOK
<1>4. \A c \in Drivers : c \in Callers /\ c # Main
  BY JointAssumption, Zenon DEF Callers
<1>5. Callings'
  BY <1>1, <1>2, <1>3, <1>4, WalkerCalls, Zenon DEF WInv, Callings, walkVars
<1>6. Motion'
  BY <1>1, <1>3, WalkerCalls, Zenon DEF Motion
<1>7. \A j \in Joints : status'[j] = "GOPOS" => status[j] = "GOPOS"
  BY Zenon DEF JointStep, InMain, StartJoint, StartJointFails, StartReturn, StopPoll,
         StopSignal, StopJoin, StopReturn, InitParams, params, Typed, TypeOK
<1>8. Progress'
  BY <1>1, <1>2, <1>3, <1>7, WalkerCalls, Zenon DEF WInv, Progress, walkVars
<1>9. Serves'
  <2> USE WalkerCalls DEF JointStep, MainAt, Typed, TypeOK
  <2>1. CASE StartJoint
    <3>1. \A j \in Joints : j < k + 1 => j < k \/ j = k
      BY DEF Typed, TypeOK
    <3>2. pc[Main] = "start" /\ pc'[Main] = "start" /\ k' = k + 1 /\ k \in Joints
      BY <2>1, Zenon DEF StartJoint
    <3>3. \A j \in Joints : j = k => Starting(j)'
      BY <2>1, <3>2, Zenon DEF StartJoint, InitParams, Starting
    <3>4. \A j \in Joints : j < k => Starting(j)'
      BY <2>1, <3>2, Zenon DEF WInv, Serves, StartJoint, InitParams, Starting
    <3>5. QED BY <3>1, <3>2, <3>3, <3>4, Zenon DEF Serves
  <2>2. CASE StartReturn
    <3>1. \A j \in Joints : Starting(j) /\ ctl[j] = "wait"
      BY <2>2, SMTT(30) DEF StartReturn, WInv, Serves, Starting
    <3>2. \A j \in Joints : Serving(j)'
      BY <1>1, <1>3, <2>2, <3>1, Zenon
      DEF StartReturn, Serving, Starting, Awaits, Holds, params, local
    <3>3. pc'[Main] = "idle"
      BY <2>2, Zenon DEF StartReturn
    <3>4. QED BY <3>2, <3>3, Zenon DEF Serves
  <2>3. CASE StopReturn
    <3>1. ~fdServo' /\ pc'[Main] = "idle"
      BY <2>3, Zenon DEF StopReturn
    <3>2. QED BY <3>1, Zenon DEF Serves
  <2>4. CASE StartJointFails \/ StopPoll \/ StopSignal \/ StopJoin
    <3>1. pc'[Main] \in {"stop", "stopSignal", "join"}
      BY <2>4, ZenonT(30) DEF StartJointFails, StopPoll, StopSignal, StopJoin
    <3>2. QED BY <3>1, Zenon DEF Serves
  <2> QED BY <2>1, <2>2, <2>3, <2>4, Zenon DEF InMain
<1> QED BY <1>5, <1>6, <1>8, <1>9, Zenon DEF WInv

\* The controllers: a joint whose status is not GOPOS stays in its wait, and the
\* end of the motion that the walker waits for is the end of its own.
LEMMA ControllerStep ==
    ASSUME WInv, Typed, Lifecycle, NoLostWakeup, Tracks,
           NEW j \in Joints, JointStep(Controller(j))
    PROVE  WInv'
<1>0. /\ UNCHANGED <<fdServo, arg, k, mutex, callback, targetPos>> /\ UNCHANGED walkVars
      /\ \A m \in Joints : m # j => /\ UNCHANGED <<ctl[m], dest[m], joints_pos[m]>>
                                    /\ UNCHANGED <<status[m], syncSem[m]>>
  <2> USE DEF JointStep, Typed, TypeOK, params, local, calls
  <2>1. CASE Wait(j) BY <2>1, Zenon DEF Wait
  <2>2. CASE Wake(j) BY <2>2, Zenon DEF Wake
  <2>3. CASE Switch(j) BY <2>3, Zenon DEF Switch
  <2>4. CASE Load(j) BY <2>4, Zenon DEF Load
  <2>5. CASE Move(j) BY <2>5, Zenon DEF Move
  <2>6. CASE Store(j) BY <2>6, Zenon DEF Store
  <2>7. CASE Finish(j) BY <2>7, Zenon DEF Finish, SignalSync
  <2>8. CASE Exit(j) BY <2>8, Zenon DEF Exit
  <2> QED BY <2>1, <2>2, <2>3, <2>4, <2>5, <2>6, <2>7, <2>8, ZenonT(30) DEF Controller
<1>1. \A m \in Joints : status'[m] = "GOPOS" => status[m] = "GOPOS"
  BY Zenon DEF JointStep, Controller, Wait, Wake, Switch, Load, Move, Store, Finish, Exit,
         params, Typed, TypeOK
<1>2. \/ pc' = pc
      \/ /\ pc' = [pc EXCEPT ![Walker] = "syncWoken"]
         /\ Finish(j) /\ pc[Walker] = "syncWait" /\ J = j
  <2>1. CASE Finish(j)
    <3>1. \A c \in Callers : pc[c] = "syncWait" => c = Walker
      BY Zenon DEF WInv, Callings, Callers
    <3>2. QED BY <2>1, <3>1, Zenon DEF Finish, SignalSync, SyncWaiters, J
  <2>2. CASE ~Finish(j)
    BY <2>2, Zenon
    DEF JointStep, Controller, Wait, Wake, Switch, Load, Move, Store, Exit, calls
  <2> QED BY <2>1, <2>2, Zenon
<1>3. /\ \A c \in Callers : c # Walker => pc'[c] = pc[c]
      /\ \/ pc'[Walker] = pc[Walker]
         \/ pc[Walker] = "syncWait" /\ pc'[Walker] = "syncWoken" /\ Finish(j) /\ J = j
  BY <1>2, WalkerCalls, Zenon DEF Typed, TypeOK
<1>4. Callings'
  BY <1>0, <1>3, WalkerCalls, ZenonT(30) DEF WInv, Callings, Callers, walkVars
<1>5. Progress'
  BY <1>0, <1>1, <1>3, ZenonT(30) DEF WInv, Progress, walkVars
<1>6. ASSUME Serving(j) PROVE Serving(j)' /\ ctl[j] # "new"
  <2> USE <1>0, <1>2, <1>3, <1>6, WalkerCalls
      DEF JointStep, Typed, TypeOK, Serving, Awaits, Holds, J, params, local, calls
  <2>1. CASE Wait(j) BY <2>1, Zenon DEF Wait
  <2>2. CASE Wake(j) BY <2>2, ZenonT(30) DEF Wake
  <2>3. CASE Switch(j) BY <2>3, ZenonT(30) DEF Switch
  <2>4. CASE Load(j) BY <2>4, ZenonT(30) DEF Load
  <2>5. CASE Move(j) BY <2>5, ZenonT(30) DEF Move
  <2>6. CASE Store(j) BY <2>6, SMTT(30) DEF Store
  <2>7. CASE Finish(j)
    <3>1. CASE Awaits(j)
      <4>1. callback[j] /\ syncSem[j] = -1 /\ pc[Walker] = "syncWait"
        BY <3>1, Zenon DEF WInv, Motion
      <4>2. syncSem'[j] = 0
        BY <2>7, <4>1, SMTT(60) DEF Finish, SignalSync
      <4>3. pc' # pc
        BY <2>7, <4>1, SMTT(60) DEF Finish, SignalSync, SyncWaiters
      <4>4. QED BY <2>7, <4>2, <4>3, SMTT(30) DEF Finish
    <3>2. CASE ~Awaits(j)
      <4>1. syncSem' = syncSem /\ pc' = pc
        BY <2>7, <3>2, SMTT(60) DEF Finish, SignalSync
      <4>2. QED BY <2>7, <3>2, <4>1, SMTT(30) DEF Finish
    <3>3. QED BY <3>1, <3>2, Zenon
  <2>8. CASE Exit(j) BY <2>8, Zenon DEF Exit
  <2> QED BY <2>1, <2>2, <2>3, <2>4, <2>5, <2>6, <2>7, <2>8, ZenonT(30) DEF Controller
<1>7. ASSUME Starting(j), pc[Main] = "start" PROVE Starting(j)'
  BY <1>0, <1>7, Zenon DEF JointStep, Controller, Wait, Wake, Switch, Load, Move, Store, Finish,
     Exit, Starting, Typed, TypeOK
<1>8. ~Gone(j)
  BY Zenon DEF JointStep, Controller, Wait, Wake, Switch, Load, Move, Store, Finish, Exit, Gone
<1>9. Serves'
  <2>1. ASSUME pc[Main] = "idle", fdServo, NEW m \in Joints, m # j PROVE Serving(m)'
    BY <1>0, <1>3, <2>1, SMTT(60) DEF WInv, Serves, Serving, Awaits, Holds, J
  <2>2. ASSUME pc[Main] = "start", NEW m \in Joints, m # j, m < k PROVE Starting(m)'
    BY <1>0, <2>2, Zenon DEF WInv, Serves, Starting
  <2>3. pc[Main] = "start" => j < k
    BY <1>8, WalkerCalls DEF Lifecycle, Typed, TypeOK
  <2>4. pc'[Main] = pc[Main] /\ fdServo' = fdServo /\ k' = k
    BY <1>0, <1>3, WalkerCalls, Zenon
  <2>5. QED BY <1>6, <1>7, <2>1, <2>2, <2>3, <2>4, Zenon DEF WInv, Serves
<1>10. Motion'
  <2>0. J' = J /\ P' = P /\ J \in Joints
    BY <1>0, ArgJoint, WalkerCalls, Zenon DEF J, P, Typed
  <2>1. CASE J # j
    BY <1>0, <1>3, <2>0, <2>1, ZenonT(30) DEF WInv, Motion
  <2>2. ASSUME J = j, pc[Walker] # "idle" PROVE Motion'
    <3>1. Serving(j)
      BY <2>2, Zenon DEF WInv, Callings, Serves
    <3> USE <1>0, <1>3, <2>0, <2>2, <3>1
        DEF JointStep, Typed, TypeOK, Serving, WInv, Motion, params, local, calls
    <3>2. CASE Wait(j) BY <3>2, Zenon DEF Wait
    <3>3. CASE Wake(j) BY <3>3, Zenon DEF Wake
    <3>4. CASE Switch(j) BY <3>4, Zenon DEF Switch
    <3>5. CASE Load(j) BY <3>5, ZenonT(30) DEF Load
    <3>6. CASE Move(j) BY <3>6, Zenon DEF Move
    <3>7. CASE Store(j) BY <3>7, Zenon DEF Store
    <3>8. CASE Finish(j)
      <4>1. Near(joints_pos[j], i[j]) /\ i[j] = dest[j] /\ ctl[j] = "move"
        BY <3>8, Zenon DEF Finish, Tracks
      <4>2. pc[Walker] = "syncWait" => pc' # pc
        BY <1>6, <3>8, SMTT(60) DEF Finish, SignalSync, SyncWaiters, Awaits, J
      <4>3. QED BY <1>2, <3>8, <4>1, <4>2, SMTT(60) DEF Finish
    <3>9. CASE Exit(j) BY <3>9, Zenon DEF Exit
    <3> QED BY <3>2, <3>3, <3>4, <3>5, <3>6, <3>7, <3>8, <3>9, ZenonT(30) DEF Controller
  <2>3. CASE pc[Walker] = "idle"
    BY <1>3, <2>3, Zenon DEF Motion
  <2> QED BY <2>1, <2>2, <2>3, Zenon
<1> QED BY <1>4, <1>5, <1>9, <1>10, Zenon DEF WInv

\* The walker inside gotoPose and gotoPoseSync: its signal finds the controller
\* in the wait, and no count is left in syncpos_cond from an earlier motion.
LEMMA InCallStep ==
    ASSUME WInv, Typed, JointStep(InCall(Walker))
    PROVE  WInv'
<1>0. pc[Walker] \in {"goto", "sync", "syncSignal", "syncWoken"}
  BY ZenonT(30)
  DEF JointStep, InCall, SetPoseStore, GotoPoseSet, GotoPoseSyncSet, GotoPoseSyncWait,
      GotoPoseSyncReturn, GetPoseRead, WInv, Callings
<1>1. /\ fdServo /\ alive /\ pc[Main] = "idle" /\ J \in Joints
      /\ \A m \in Joints : Serving(m)
  BY <1>0, ArgJoint, WalkerCalls, Zenon DEF WInv, Callings, Serves, Typed, J
<1>2. n = 0 /\ w \notin Settled
  BY <1>0, Zenon DEF WInv, Progress
<1>3. UNCHANGED walkVars /\ UNCHANGED <<fdServo, joints_pos, dest>>
  BY <1>0, ZenonT(30) DEF JointStep, InCall, SetPoseStore, GotoPoseSet, GotoPoseSyncSet,
     GotoPoseSyncWait, GotoPoseSyncReturn, GetPoseRead, local
<1>4. PICK l \in {"idle", "syncSignal", "syncWait", "syncWoken"} :
         pc' = [pc EXCEPT ![Walker] = l]
  BY ZenonT(30)
  DEF JointStep, InCall, SetPoseStore, GotoPoseSet, GotoPoseSyncSet, GotoPoseSyncWait,
      GotoPoseSyncReturn, GetPoseRead, Return
<1>5. pc'[Walker] = l /\ \A c \in Callers : c # Walker => pc'[c] = pc[c]
  BY <1>4, WalkerCalls, Zenon DEF Typed, TypeOK
<1>6. Callings'
  BY <1>0, <1>1, <1>3, <1>5, WalkerCalls, ZenonT(30) DEF WInv, Callings, Callers, walkVars
<1>7. pc'[Main] = "idle"
  BY <1>1, <1>5, WalkerCalls, Zenon
<1>8. ASSUME \A m \in Joints : Serving(m)' PROVE Serves'
  BY <1>7, <1>8, Zenon DEF Serves
<1>13. Progress'
  <2>1. \A m \in Joints : ~(m < 0)
    BY WalkerCalls
  <2>2. UNCHANGED <<w, n, done>>
    BY <1>3, Zenon DEF walkVars
  <2>3. (n # 0 \/ ~done) => FALSE
    BY <1>0, Zenon DEF WInv, Progress
  <2>4. QED BY <1>2, <2>1, <2>2, <2>3, Zenon DEF Progress
<1> USE <1>0, <1>1, <1>3, <1>5, WalkerCalls
<1>9. CASE GotoPoseSet(Walker)
  <2>1. /\ l = "idle"
        /\ UNCHANGED <<syncSem, mutex>>
    BY <1>9, Zenon DEF GotoPoseSet, Return, Typed, TypeOK
  <2>2. \A m \in Joints : Serving(m)'
    BY <1>9, <2>1, ZenonT(60)
    DEF GotoPoseSet, SignalController, Serving, Awaits, Holds, J, Typed, TypeOK
  <2>3. Motion'
    BY <2>1, Zenon DEF Motion
  <2>4. QED BY <1>6, <1>8, <1>13, <2>2, <2>3, Zenon DEF WInv
<1>10. CASE GotoPoseSyncSet(Walker)
  <2>1. l = "syncSignal" /\ J' = J /\ P' = P /\ ctl[J] = "wait"
    BY <1>10, Zenon DEF GotoPoseSyncSet, J, P, WInv, Motion, Typed, TypeOK
  <2>2. \A m \in Joints : Serving(m)'
    BY <1>10, <2>1, Zenon
    DEF GotoPoseSyncSet, Serving, Awaits, Holds, J, Typed, TypeOK, local
  <2>3. Motion'
    BY <1>10, <2>1, Zenon DEF GotoPoseSyncSet, Motion, J, P, Typed, TypeOK, local
  <2>4. QED BY <1>6, <1>8, <1>13, <2>2, <2>3, Zenon DEF WInv
<1>11. CASE GotoPoseSyncWait(Walker)
  <2>1. J' = J /\ P' = P /\ ctl[J] = "wait" /\ syncSem[J] = 0 /\ status[J] = "GOPOS"
    BY <1>11, ZenonT(30) DEF GotoPoseSyncWait, J, P, WInv, Motion, Serving, Awaits
  <2>2. l = "syncWait"
    BY <1>11, <2>1, SMTT(30) DEF GotoPoseSyncWait, J, Typed, TypeOK
  <2>3. \A m \in Joints : Serving(m)'
    BY <1>11, <2>1, <2>2, SMTT(30)
    DEF GotoPoseSyncWait, SignalController, Serving, Awaits, Holds, J, Typed, TypeOK
  <2>4. Motion'
    BY <1>11, <2>1, <2>2, ZenonT(30) DEF GotoPoseSyncWait, SignalController, WInv, Motion, J, P,
       Typed, TypeOK
  <2>5. QED BY <1>6, <1>8, <1>13, <2>3, <2>4, Zenon DEF WInv
<1>12. CASE GotoPoseSyncReturn(Walker)
  <2>1. l = "idle"
    BY <1>12, Zenon DEF GotoPoseSyncReturn, Return, Typed, TypeOK
  <2>2. \A m \in Joints : Serving(m)'
    BY <1>12, <2>1, Zenon DEF GotoPoseSyncReturn, Serving, Awaits, Holds, params, local
  <2>3. Motion'
    BY <2>1, ZenonT(30) DEF Motion
  <2>4. QED BY <1>6, <1>8, <1>13, <2>2, <2>3, Zenon DEF WInv
<1> QED
  BY <1>9, <1>10, <1>11, <1>12, ZenonT(30) DEF JointStep, InCall, SetPoseStore, GetPoseRead

\* The invariants of JointControl that the walk's own rests on.
Base == Typed /\ Lifecycle /\ NoLostWakeup /\ Tracks

LEMMA BaseInductive == Base /\ [Next]_vars => Base'
  BY TypedInductive, LifecycleInductive, WakeupInductive, TracksInductive, WalkAssumption, Zenon
  DEF Base

LEMMA WInvInductive == Careful /\ Base /\ Local /\ WInv /\ [WNext]_allVars => WInv'
<1> SUFFICES ASSUME Careful, Base, Local, WInv, [WNext]_allVars PROVE WInv'
  BY Zenon
<1>0. Typed /\ Lifecycle /\ NoLostWakeup /\ Tracks
  BY Zenon DEF Base
<1>1. CASE Command
  BY <1>0, <1>1, CommandCalls, CommandStep, QuietStep, Zenon DEF WalkerStep
<1>2. CASE Begin \/ ReadParams \/ Poll \/ Leave
  <2>1. UNCHANGED vars
    BY <1>2, Zenon DEF Begin, ReadParams, Poll, Leave
  <2>2. QED BY <1>2, <2>1, QuietStep, Zenon DEF WalkerStep
<1>3. ASSUME NEW d \in Directions \cup {"stop"}, StopWalk(d) PROVE WInv'
  <2>1. UNCHANGED vars
    BY <1>3, Zenon DEF StopWalk
  <2>2. QED BY <1>3, <2>1, QuietStep, Zenon
<1>4. CASE StopWalkReturn \/ MoveReturn
  <2>1. UNCHANGED vars
    BY <1>4, Zenon DEF StopWalkReturn, MoveReturn
  <2>2. QED BY <1>4, <2>1, QuietStep, Zenon
<1>5. CASE UNCHANGED allVars
  BY <1>5, ZenonT(60) DEF allVars, walkVars, vars, params, local, calls, WInv, Callings, Serves,
     Serving, Starting, Awaits, Holds, Progress, Motion, J, P
<1> QED
  BY <1>0, <1>1, <1>2, <1>3, <1>4, <1>5, ControlStep, ControllerStep, InCallStep, MainStep,
     Zenon
  DEF WNext, WalkerStep

LEMMA WalkInit == WInit => Base /\ Local /\ WInv
<1> SUFFICES ASSUME WInit PROVE Base /\ Local /\ WInv
  BY Zenon
<1>1. Base
  BY TracksInit, Sets, Zenon DEF WInit, Base, Init, NoLostWakeup
<1>2. /\ \A c \in Callers : pc[c] = "idle"
      /\ ~fdServo
  BY Zenon DEF WInit, Init
<1>3. Callings /\ Motion /\ Serves
  BY <1>2, WalkerCalls, Zenon DEF Callings, Motion, Serves, WInit, Callers
<1>4. Progress
  BY WalkerCalls DEF WInit, Progress, Settled
<1> QED BY <1>1, <1>3, <1>4, LocalInit, Zenon DEF WInv

\* For every behaviour of a walk with a careful shell.
LEMMA WInvHolds == Careful => (WSpec => [](Base /\ Local /\ WInv))
<1> SUFFICES ASSUME Careful PROVE WSpec => [](Base /\ Local /\ WInv)
  BY Zenon
<1>1. Base /\ Local /\ WInv /\ [WNext]_allVars => (Base /\ Local /\ WInv)'
  BY BaseInductive, LocalInductive, StepMaps, WInvInductive, Zenon
<1>2. QED
  BY <1>1, WalkInit, PTL DEF WSpec

\* With a shell that starts and stops the controllers only between walks, the
\* walker calls gotoPoseSync only on a joint whose controller waits: the polls
\* before it leave no window in which its request would be overwritten.
THEOREM SyncCallsFindWaiting == Careful => (WSpec => []SyncFindsWaiting)
<1>1. WInv => SyncFindsWaiting
  BY Zenon DEF WInv, Motion, SyncFindsWaiting, J
<1>2. QED
  BY <1>1, WInvHolds, PTL

\* With such a shell, when gotoPoseSync returns to the walker it is its own motion
\* that has ended: the joint is within one unit of the position asked for.
THEOREM SyncCallsReach == Careful => (WSpec => []SyncReached)
<1>1. WInv => SyncReached
  BY Zenon DEF WInv, Motion, SyncReached, J, P, Near
<1>2. QED
  BY <1>1, WInvHolds, PTL

\* A walk drives every servo by single units and within its limits, whatever the
\* shell does, careful or not.
THEOREM WalkIsSmooth == WSpec => Smooth /\ []InRange
  BY WalkUsesControllers, MotionIsSmooth, PositionsInRange, WalkAssumption, PTL
=============================================================================

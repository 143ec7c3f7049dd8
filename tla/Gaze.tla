-------------------------------- MODULE Gaze --------------------------------
(***************************************************************************)
(* The head of the robot: main/components/gazeControl/main.cpp.            *)
(*                                                                         *)
(* Three kinds of threads meet here.  The callers of respond hand a        *)
(* command to the module thread (setCommand) and wait for its answer       *)
(* (getReply).  The module thread takes it (getCommand), answers           *)
(* (setReply) and moves the two joints, one degree a turn, while           *)
(* shouldStop is false.  It reads shouldStop without a semaphore, before   *)
(* the two writes of a turn.  The stopper is the thread that runs          *)
(* RFModule::stopModule and through it interruptModule.                    *)
(*                                                                         *)
(* cmdSemaphore covers setCommand and getCommand, rpySemaphore setReply    *)
(* and getReply, so that a setCommand and a setReply overlap: each is two  *)
(* steps, around the event the other one resets.                           *)
(***************************************************************************)
EXTENDS Integers

CONSTANTS Clients,   \* connections to /GazeControl/cmd:i
          Stopper,   \* the thread that stops the module
          Lists,     \* the pairs of angles clients ask for
          Min, Max,  \* limits of joints 0 and 1 (10..155, 10..180 on the robot)
          Rest,      \* JOINT1_REST, JOINT2_REST (100, 105 on the robot)
          MaxCalls,  \* bound: commands handed over
          MaxStops,  \* bound: calls of stopModule
          Faulty     \* whether a write to the servo driver may fail

Joint == {0, 1}

ASSUME GazeAssumption ==
    /\ Stopper \notin Clients
    /\ Lists # {} /\ Lists \subseteq Int \X Int
    /\ Min \in [Joint -> Int] /\ Max \in [Joint -> Int] /\ Rest \in [Joint -> Int]
    /\ \A j \in Joint : Min[j] <= Rest[j] /\ Rest[j] <= Max[j]
    /\ MaxCalls \in Nat /\ MaxStops \in Nat /\ Faulty \in BOOLEAN

Threads == Clients \cup {Stopper}

\* Commands by what updateModule does with them: move (joint, cam and cart)
\* answers and moves, other (get, and all it refuses) only answers.  The angles
\* setCartPose computes for cam and cart are any of Lists.
Kinds == {"move", "other", "cmd_exit"}
Commands == [id : 0..MaxCalls, kind : Kinds, list : Lists]
NoList == CHOOSE l \in Lists : TRUE
Exit   == [id |-> 0, kind |-> "cmd_exit", list |-> NoList]

\* Mutant: no upper limit.
NoUpperLimit(j, a) == IF a < Min[j] THEN Min[j] ELSE a

\* The limits of setAllJointsPose and setJointPose.
Limit(j, a) == IF a < Min[j] THEN Min[j] ELSE IF a > Max[j] THEN Max[j] ELSE a

\* The list of a joint command starts with the second joint.
Pose(l) == [j \in Joint |-> Limit(j, IF j = 0 THEN l[2] ELSE l[1])]

NoPose  == [j \in Joint |-> Min[j] - 1]

VARIABLES
    pc,           \* where each client and the stopper are
    req,          \* the command of each client's last call
    got,          \* the command its last call was answered for
    calls, stops, \* commands handed over and calls of stopModule so far
    portOpen,     \* cmdPort still accepts calls
    cmdSemaphore, rpySemaphore, \* held
    cmdEvent, rpyEvent,         \* signalled (both reset themselves when waited for)
    command, reply,
    shouldStop,
    stopFlag,     \* RFModule's: stopModule has been called
    mpc, cmd,     \* the module thread and the command it is at
    joints_pos, goal,
    step,         \* the place in the loop: 0 its test, 1 + j the write of joint j
    ret,          \* the first write of this turn has succeeded
    drift,        \* ghost: degrees moved for cmd after a newer command was stored
    failed,       \* ghost: a write to the servo driver failed
    clash,        \* ghost: a call overlapped another one or a stop
    quiet,        \* ghost: nobody was about to set shouldStop in close
    last          \* ghost: the pose of the last call, NoPose if it does not move

clients == <<req, got, calls, clash, last>>
hand    == <<command, reply, cmdEvent, rpyEvent, cmdSemaphore, rpySemaphore>>
motion  == <<joints_pos, goal, step, ret, failed>>
servo   == <<motion, drift>>
ending  == <<stops, portOpen, stopFlag, quiet>>
vars    == <<pc, clients, hand, shouldStop, ending, mpc, cmd, servo>>

\* configure, when it succeeds: the joints are at rest, nothing is asked.
Init ==
    /\ pc = [t \in Threads |-> "idle"]
    /\ req = [c \in Clients |-> Exit] /\ got = [c \in Clients |-> Exit.id]
    /\ calls = 0 /\ stops = 0 /\ portOpen = TRUE
    /\ cmdSemaphore = FALSE /\ rpySemaphore = FALSE
    /\ cmdEvent = FALSE /\ rpyEvent = FALSE
    /\ command = Exit /\ reply = 0
    /\ shouldStop = FALSE /\ stopFlag = FALSE
    /\ mpc = "wait" /\ cmd = Exit
    /\ joints_pos = Rest /\ goal = Rest
    /\ step = 0 /\ ret = TRUE /\ drift = [j \in Joint |-> 0]
    /\ failed = FALSE /\ clash = FALSE /\ quiet = FALSE /\ last = Rest

(***************************************************************************)
(* The callers.                                                            *)
(***************************************************************************)
\* respond, for a command of two words or more; a shorter one is refused
\* there and then and changes nothing.
Respond(c) ==
    /\ pc[c] = "idle" /\ portOpen /\ calls < MaxCalls
    /\ calls' = calls + 1
    /\ \E k \in Kinds, l \in Lists :
          /\ k # "move" => l = NoList
          /\ req' = [req EXCEPT ![c] = [id |-> calls', kind |-> k, list |-> l]]
          /\ last' = IF k = "move" THEN Pose(l) ELSE NoPose
    /\ pc' = [pc EXCEPT ![c] = "set"]
    /\ clash' = (clash \/ stopFlag \/ \E t \in Threads : pc[t] # "idle")
    /\ UNCHANGED <<got, hand, shouldStop, ending, mpc, cmd, servo>>

\* setCommand up to rpyEvent.reset().
SetCommand(t, x) ==
    /\ pc[t] = "set" /\ ~cmdSemaphore
    /\ cmdSemaphore' = TRUE
    /\ shouldStop' = TRUE /\ command' = x /\ rpyEvent' = FALSE
    /\ pc' = [pc EXCEPT ![t] = "signal"]
    /\ UNCHANGED <<clients, reply, cmdEvent, rpySemaphore, ending, mpc, cmd, servo>>

\* cmdEvent.signal(), and what the caller does next.
Signal(t) ==
    /\ pc[t] = "signal"
    /\ cmdEvent' = TRUE /\ cmdSemaphore' = FALSE
    /\ pc' = [pc EXCEPT ![t] = IF t = Stopper THEN "idle" ELSE "wait"]
    /\ UNCHANGED <<clients, command, reply, rpyEvent, rpySemaphore, shouldStop,
                   ending, mpc, cmd, servo>>

\* Mutant: the reply is copied without waiting for it.
AwaitNothing(c) ==
    /\ pc[c] = "wait"
    /\ rpyEvent' = FALSE
    /\ pc' = [pc EXCEPT ![c] = "copy"]
    /\ UNCHANGED <<clients, command, reply, cmdEvent, cmdSemaphore, rpySemaphore,
                   shouldStop, ending, mpc, cmd, servo>>

\* getReply: rpyEvent.wait(), then the copy of reply.
AwaitReply(c) ==
    /\ pc[c] = "wait" /\ rpyEvent
    /\ rpyEvent' = FALSE
    /\ pc' = [pc EXCEPT ![c] = "copy"]
    /\ UNCHANGED <<clients, command, reply, cmdEvent, cmdSemaphore, rpySemaphore,
                   shouldStop, ending, mpc, cmd, servo>>

CopyReply(c) ==
    /\ pc[c] = "copy" /\ ~rpySemaphore
    /\ got' = [got EXCEPT ![c] = reply]
    /\ pc' = [pc EXCEPT ![c] = "idle"]
    /\ UNCHANGED <<req, calls, clash, last, hand, shouldStop, ending, mpc, cmd, servo>>

\* RFModule::stopModule sets its flag and calls interruptModule.
StopModule ==
    /\ pc[Stopper] = "idle" /\ stops < MaxStops
    /\ stops' = stops + 1 /\ stopFlag' = TRUE
    /\ quiet' = FALSE
    /\ clash' = (clash \/ \E c \in Clients : pc[c] # "idle")
    /\ pc' = [pc EXCEPT ![Stopper] = "interrupt"]
    /\ UNCHANGED <<req, got, calls, last, portOpen, hand, shouldStop, mpc, cmd, servo>>

InterruptModule ==
    /\ pc[Stopper] = "interrupt"
    /\ portOpen' = FALSE /\ shouldStop' = TRUE
    /\ pc' = [pc EXCEPT ![Stopper] = "set"]
    /\ UNCHANGED <<clients, hand, stops, stopFlag, quiet, mpc, cmd, servo>>

(***************************************************************************)
(* The module thread: RFModule::runModule calls updateModule until it      *)
(* returns false or the module is stopping, and then close.                *)
(***************************************************************************)
\* getCommand: cmdEvent.wait(), then the copy of command.
AwaitCommand ==
    /\ mpc = "wait" /\ cmdEvent
    /\ cmdEvent' = FALSE /\ mpc' = "take"
    /\ UNCHANGED <<pc, clients, command, reply, rpyEvent, cmdSemaphore,
                   rpySemaphore, shouldStop, ending, cmd, servo>>

\* Mutant: shouldStop stays as it was.
TakeKeepsStop ==
    /\ mpc = "take" /\ ~cmdSemaphore
    /\ cmd' = command /\ mpc' = "reply"
    /\ UNCHANGED <<pc, clients, hand, shouldStop, ending, servo>>

TakeCommand ==
    /\ mpc = "take" /\ ~cmdSemaphore
    /\ shouldStop' = FALSE /\ cmd' = command
    /\ drift' = [j \in Joint |-> 0]
    /\ mpc' = "reply"
    /\ UNCHANGED <<pc, clients, hand, ending, motion>>

\* setReply up to cmdEvent.reset(); every branch of updateModule comes here
\* before it moves anything.
SetReply ==
    /\ mpc = "reply" /\ ~rpySemaphore
    /\ rpySemaphore' = TRUE /\ reply' = cmd.id /\ cmdEvent' = FALSE
    /\ mpc' = "signal"
    /\ UNCHANGED <<pc, clients, command, rpyEvent, cmdSemaphore, shouldStop,
                   ending, cmd, servo>>

\* Mutant: a command that moves nothing is not answered.
SignalMovesOnly ==
    /\ mpc = "signal"
    /\ rpyEvent' = (cmd.kind # "other") /\ rpySemaphore' = FALSE
    /\ mpc' = CASE cmd.kind = "cmd_exit" -> "close"
                [] cmd.kind = "other" -> "check"
                [] cmd.kind = "move" -> "start"
    /\ UNCHANGED <<pc, clients, command, reply, cmdEvent, cmdSemaphore, shouldStop,
                   ending, cmd, servo>>

\* rpyEvent.signal(), and where updateModule goes from there.
SignalReply ==
    /\ mpc = "signal"
    /\ rpyEvent' = TRUE /\ rpySemaphore' = FALSE
    /\ mpc' = CASE cmd.kind = "cmd_exit" -> "close"
                [] cmd.kind = "other" -> "check"
                [] cmd.kind = "move" -> "start"
    /\ UNCHANGED <<pc, clients, command, reply, cmdEvent, cmdSemaphore, shouldStop,
                   ending, cmd, servo>>

\* setAllJointsPose clamps the pose first.
Start ==
    /\ mpc = "start"
    /\ goal' = Pose(cmd.list)
    /\ mpc' = "loop"
    /\ UNCHANGED <<pc, clients, hand, shouldStop, ending, cmd, joints_pos, step, ret,
                   failed, drift>>

\* One degree on the way to the goal.
Toward(j) == IF joints_pos[j] < goal[j] THEN joints_pos[j] + 1
             ELSE IF joints_pos[j] > goal[j] THEN joints_pos[j] - 1
             ELSE joints_pos[j]

\* Mutant: the loop does not look at shouldStop.
TurnOn(here) ==
    /\ mpc = here /\ step = 0 /\ joints_pos # goal
    /\ step' = 1
    /\ UNCHANGED <<pc, clients, hand, shouldStop, ending, mpc, cmd, joints_pos, goal, ret,
                   failed, drift>>

\* The loop of setAllJointsPose, called from `here': its test lets a turn begin.
Turn(here) ==
    /\ mpc = here /\ step = 0 /\ joints_pos # goal /\ ~shouldStop
    /\ step' = 1
    /\ UNCHANGED <<pc, clients, hand, shouldStop, ending, mpc, cmd, joints_pos, goal, ret,
                   failed, drift>>

\* setJointPose for a joint that is not there yet, which may fail.  The second
\* joint is written even if the first write fails; then the motion ends.
Write(here, next, j) ==
    /\ mpc = here /\ step = j + 1
    /\ \E ok \in BOOLEAN :
          /\ ~ok => Faulty /\ joints_pos[j] # goal[j]
          /\ joints_pos' = IF ok THEN [joints_pos EXCEPT ![j] = Toward(j)] ELSE joints_pos
          /\ ret' = (j = 0 => ok)
          /\ failed' = (failed \/ ~ok)
          /\ mpc' = IF j = 0 \/ (ret /\ ok) THEN here ELSE next
    /\ drift' = IF here = "loop" /\ cmd # command /\ joints_pos' # joints_pos
                THEN [drift EXCEPT ![j] = @ + 1] ELSE drift
    /\ step' = IF j = 0 THEN 2 ELSE 0
    /\ UNCHANGED <<pc, clients, hand, shouldStop, ending, cmd, goal>>

\* The loop is left.
TurnEnd(here, next) ==
    /\ mpc = here /\ step = 0 /\ (joints_pos = goal \/ shouldStop)
    /\ mpc' = next
    /\ UNCHANGED <<pc, clients, hand, shouldStop, ending, cmd, servo>>

\* Mutant: the loop ends by cmd_exit alone.
CheckNothing ==
    /\ mpc = "check"
    /\ mpc' = "wait"
    /\ UNCHANGED <<pc, clients, hand, shouldStop, ending, cmd, servo>>

\* runModule between two calls of updateModule.
Check ==
    /\ mpc = "check"
    /\ mpc' = IF stopFlag THEN "close" ELSE "wait"
    /\ UNCHANGED <<pc, clients, hand, shouldStop, ending, cmd, servo>>

\* Mutant: close leaves shouldStop as interruptModule set it.
CloseStopped ==
    /\ mpc = "close"
    /\ portOpen' = FALSE /\ goal' = Rest
    /\ quiet' = \A t \in Threads : pc[t] \notin {"interrupt", "set"}
    /\ mpc' = "rest"
    /\ UNCHANGED <<pc, clients, hand, shouldStop, stops, stopFlag, cmd, joints_pos, step,
                   ret, failed, drift>>

\* close, up to its motion to rest.
Close ==
    /\ mpc = "close"
    /\ portOpen' = FALSE /\ shouldStop' = FALSE /\ goal' = Rest
    /\ quiet' = \A t \in Threads : pc[t] \notin {"interrupt", "set"}
    /\ mpc' = "rest"
    /\ UNCHANGED <<pc, clients, hand, stops, stopFlag, cmd, joints_pos, step, ret,
                   failed, drift>>

\* The end of close.
Closed ==
    /\ mpc = "closing"
    /\ shouldStop' = TRUE /\ mpc' = "closed"
    /\ UNCHANGED <<pc, clients, hand, ending, cmd, servo>>

Client(c) == SetCommand(c, req[c]) \/ Signal(c) \/ AwaitReply(c) \/ CopyReply(c)
Stopping  == InterruptModule \/ SetCommand(Stopper, Exit) \/ Signal(Stopper)
Motion(here, next) ==
    Turn(here) \/ TurnEnd(here, next) \/ \E j \in Joint : Write(here, next, j)
Module ==
    \/ AwaitCommand \/ TakeCommand \/ SetReply \/ SignalReply \/ Start
    \/ Motion("loop", "check")
    \/ Check \/ Close
    \/ Motion("rest", "closing")
    \/ Closed

Next == (\E c \in Clients : Respond(c) \/ Client(c)) \/ StopModule \/ Stopping \/ Module

Spec == Init /\ [][Next]_vars

\* Every thread that can run does: the scheduler of the host.  Clients need
\* not call and nobody need stop the module.
FairSpec == Spec /\ WF_vars(Module) /\ WF_vars(Stopping)
                 /\ \A c \in Clients : WF_vars(Client(c))

-----------------------------------------------------------------------------
\* The type invariant: the joints stay within their limits, whatever clients
\* ask for and whichever writes fail (setJointPose and setAllJointsPose clamp).
TypeOK ==
    /\ pc \in [Threads -> {"idle", "set", "signal", "wait", "copy", "interrupt"}]
    /\ req \in [Clients -> Commands] /\ got \in [Clients -> 0..MaxCalls]
    /\ calls \in 0..MaxCalls /\ stops \in 0..MaxStops
    /\ {portOpen, cmdSemaphore, rpySemaphore, cmdEvent, rpyEvent, shouldStop, stopFlag,
        ret, failed, clash, quiet} \subseteq BOOLEAN
    /\ command \in Commands /\ cmd \in Commands /\ reply \in 0..MaxCalls
    /\ mpc \in {"wait", "take", "reply", "signal", "start", "loop", "check", "close",
                "rest", "closing", "closed"}
    /\ step \in 0..2 /\ drift \in [Joint -> Nat]
    /\ joints_pos \in [Joint -> Int] /\ goal \in [Joint -> Int] /\ last \in [Joint -> Int]
    /\ \A j \in Joint : /\ Min[j] <= joints_pos[j] /\ joints_pos[j] <= Max[j]
                        /\ Min[j] <= goal[j] /\ goal[j] <= Max[j]

\* A new command ends the motion of an older one: after setCommand has stored it
\* the older motion moves each joint by one more degree at most, in the turn that
\* had passed the test of shouldStop.
OldMotionEnds == \A j \in Joint : drift[j] <= 1

\* A call that met no other call and no stop returns the answer to its own
\* command: rpyEvent carries nothing over from the call before.
OwnAnswer == \A c \in Clients : pc[c] = "idle" /\ ~clash => got[c] = req[c].id

\* When close is over and nothing else set shouldStop while it ran, the joints
\* are at rest ("reseting the gaze"), unless a write failed.
ClosedAtRest == mpc = "closed" /\ quiet /\ ~failed => joints_pos = Rest

\* A call that meets no other call and no stop returns.
CallsReturn ==
    \A c \in Clients : pc[c] = "set" ~> pc[c] = "idle" \/ clash \/ mpc = "closed"

\* A module that is stopped leaves updateModule and closes, although the
\* cmd_exit of interruptModule may be overwritten by a command or its event be
\* reset by setReply.
StopCloses == stopFlag ~> mpc = "closed"

\* A pose is reached, unless another command follows (any one, a query too,
\* ends the motion for good), calls overlap, a write fails or the module ends.
LastReached ==
    <>[](clash \/ failed \/ mpc = "closed" \/ last = NoPose \/ joints_pos = last)
=============================================================================

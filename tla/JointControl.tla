---------------------------- MODULE JointControl ----------------------------
(***************************************************************************)
(* The joint position controllers of the NuttX firmware                    *)
(* (apps/system/myCub/lib/mycub_interface.cpp): one controller thread per  *)
(* joint, woken through a condition variable, and the threads that call    *)
(* MyCubInterface.                                                         *)
(*                                                                         *)
(* Main is the shell task, the only one that starts and stops the          *)
(* controllers; Drivers are the threads it creates (walker, dancer).       *)
(*                                                                         *)
(* A critical section that neither blocks nor is visible from outside is   *)
(* one step.  ctrl_params[j].mutex is therefore seen held only by a        *)
(* gotoPoseSync that waits for syncpos_mutex[j] inside it; syncpos_mutex[j] *)
(* itself is never held between two steps and has no variable.  Sleeping   *)
(* takes any time: usleep and the duration of a motion have no variable.   *)
(***************************************************************************)
EXTENDS Integers, FiniteSets

CONSTANTS N,        \* number of joints (4 on the robot)
          Main,     \* the shell task
          Drivers,  \* the other threads that call gotoPose and gotoPoseSync
          Setters,  \* the callers that use setPose
          Syncers,  \* the callers that use gotoPoseSync
          MinPos,   \* 8 on the robot; also the initial joints_pos
          MaxPos,   \* 160 on the robot
          Asked,    \* the positions callers ask for
          Faults,   \* whether opening the servo or creating a thread may fail
          Nobody,   \* a free mutex
          Unset     \* a mutex that was never initialised: locking it blocks

Joints  == 0..N-1
Callers == Drivers \cup {Main}

ASSUME JointAssumption ==
    /\ N \in Nat \ {0}
    /\ MinPos \in Nat \ {0} /\ MaxPos \in Nat /\ MinPos <= MaxPos
    /\ Asked \subseteq Int
    /\ Main \notin Drivers
    /\ Setters \subseteq Callers /\ Syncers \subseteq Callers
    /\ Faults \in BOOLEAN
    /\ Nobody \notin Callers /\ Unset \notin Callers /\ Nobody # Unset

VARIABLES
    fdServo,     \* fd_servo >= 0
    status,      \* ctrl_params[j].status
    targetPos,   \* ctrl_params[j].targetPos
    callback,    \* ctrl_params[j].callback_routine # NULL
    mutex,       \* holder of ctrl_params[j].mutex
    syncSem,     \* count of the semaphore inside syncpos_cond[j]
    joints_pos,  \* MyCubInterface::joints_pos[j]
    servo,       \* last SERVOIOC_SETPOS position of joint j, 0 before the first
    ctl,         \* where controller thread j is
    dest,        \* its local pos
    i,           \* its local i
    pc,          \* where caller c is
    arg,         \* the joint and position of the call c is in
    k            \* loop variable of startController and stopController

params == <<status, targetPos, callback, mutex, syncSem>>
local  == <<ctl, dest, i>>
calls  == <<pc, arg, k>>
vars   == <<fdServo, params, joints_pos, servo, local, calls>>

NoCall == [joint |-> 0, pos |-> MinPos]

Status == {"ZERO", "STOP", "GOPOS", "WAITING", "STOPPING"}

Init ==
    /\ fdServo = FALSE
    /\ status = [j \in Joints |-> "ZERO"]
    /\ targetPos = [j \in Joints |-> 0]
    /\ callback = [j \in Joints |-> FALSE]
    /\ mutex = [j \in Joints |-> Unset]
    /\ syncSem = [j \in Joints |-> 0]
    /\ joints_pos = [j \in Joints |-> MinPos]
    /\ servo = [j \in Joints |-> 0]
    /\ ctl = [j \in Joints |-> "none"]
    /\ dest = [j \in Joints |-> MinPos]
    /\ i = [j \in Joints |-> MinPos]
    /\ pc = [c \in Callers |-> "idle"]
    /\ arg = [c \in Callers |-> NoCall]
    /\ k = 0

----------------------------------------------------------------------------
(* NuttX primitives *)

\* pthread_mutex_lock would not block.
Available(j) == mutex[j] = Nobody

\* pthread_cond_signal(&ctrl_params[j].cond): lost unless the controller waits.
SignalController(j) ==
    ctl' = IF ctl[j] = "wait" THEN [ctl EXCEPT ![j] = "woken"] ELSE ctl

SyncWaiters(j) == {c \in Callers : pc[c] = "syncWait" /\ arg[c].joint = j}

\* pthread_cond_signal(&syncpos_cond[j]).
SignalSync(j) ==
    IF syncSem[j] < 0
    THEN /\ syncSem' = [syncSem EXCEPT ![j] = @ + 1]
         /\ \E c \in SyncWaiters(j) : pc' = [pc EXCEPT ![c] = "syncWoken"]
    ELSE UNCHANGED <<syncSem, pc>>

----------------------------------------------------------------------------
(* controller: the thread of joint j *)

\* Mutant: the controller waits without setting status to WAITING.
WaitKeepsStatus(j) ==
    /\ ctl[j] \in {"new", "top"}
    /\ Available(j)
    /\ ctl' = [ctl EXCEPT ![j] = "wait"]
    /\ UNCHANGED <<fdServo, params, joints_pos, servo, dest, i, calls>>

\* status = WAITING and pthread_cond_wait, in one critical section.
Wait(j) ==
    /\ ctl[j] \in {"new", "top"}
    /\ Available(j)
    /\ status' = [status EXCEPT ![j] = "WAITING"]
    /\ ctl' = [ctl EXCEPT ![j] = "wait"]
    /\ UNCHANGED <<fdServo, targetPos, callback, mutex, syncSem, joints_pos,
                   servo, dest, i, calls>>

\* pthread_cond_wait reacquires the mutex, then it is released.
Wake(j) ==
    /\ ctl[j] = "woken"
    /\ Available(j)
    /\ ctl' = [ctl EXCEPT ![j] = "switch"]
    /\ UNCHANGED <<fdServo, params, joints_pos, servo, dest, i, calls>>

\* switch(params->status), read without the mutex.
Switch(j) ==
    /\ ctl[j] = "switch"
    /\ ctl' = [ctl EXCEPT ![j] = CASE status[j] = "STOP"  -> "exit"
                                   [] status[j] = "GOPOS" -> "load"
                                   [] OTHER               -> "top"]
    /\ UNCHANGED <<fdServo, params, joints_pos, servo, dest, i, calls>>

\* The parameters of the motion are copied under the mutex.
Load(j) ==
    /\ ctl[j] = "load"
    /\ Available(j)
    /\ dest' = [dest EXCEPT ![j] = targetPos[j]]
    /\ i' = [i EXCEPT ![j] = joints_pos[j]]
    /\ ctl' = [ctl EXCEPT ![j] = "move"]
    /\ UNCHANGED <<fdServo, params, joints_pos, servo, calls>>

\* Mutant: the servo is sent to the target at once.
MoveToTarget(j) ==
    /\ ctl[j] = "move"
    /\ i[j] # dest[j]
    /\ servo' = [servo EXCEPT ![j] = dest[j]]
    /\ ctl' = [ctl EXCEPT ![j] = "store"]
    /\ UNCHANGED <<fdServo, params, joints_pos, dest, i, calls>>

\* Loop test and SERVOIOC_SETPOS.  Either loop ends when i reaches pos.
Move(j) ==
    /\ ctl[j] = "move"
    /\ i[j] # dest[j]
    /\ servo' = [servo EXCEPT ![j] = i[j]]
    /\ ctl' = [ctl EXCEPT ![j] = "store"]
    /\ UNCHANGED <<fdServo, params, joints_pos, dest, i, calls>>

\* Mutant: the position is not recorded.
StoreNothing(j) ==
    /\ ctl[j] = "store"
    /\ Available(j)
    /\ i' = [i EXCEPT ![j] = IF dest[j] > @ THEN @ + 1 ELSE @ - 1]
    /\ ctl' = [ctl EXCEPT ![j] = "move"]
    /\ UNCHANGED <<fdServo, params, joints_pos, servo, dest, calls>>

\* After the sleep: *curPos = i under the mutex, then i++ or i--.
Store(j) ==
    /\ ctl[j] = "store"
    /\ Available(j)
    /\ joints_pos' = [joints_pos EXCEPT ![j] = i[j]]
    /\ i' = [i EXCEPT ![j] = IF dest[j] > @ THEN @ + 1 ELSE @ - 1]
    /\ ctl' = [ctl EXCEPT ![j] = "move"]
    /\ UNCHANGED <<fdServo, params, servo, dest, calls>>

\* End of the loop: callback_routine, read without the mutex, is called if set.
Finish(j) ==
    /\ ctl[j] = "move"
    /\ i[j] = dest[j]
    /\ IF callback[j] THEN SignalSync(j) ELSE UNCHANGED <<syncSem, pc>>
    /\ ctl' = [ctl EXCEPT ![j] = "top"]
    /\ UNCHANGED <<fdServo, status, targetPos, callback, mutex, joints_pos,
                   servo, dest, i, arg, k>>

\* status = STOPPING under the mutex, then the thread returns.
Exit(j) ==
    /\ ctl[j] = "exit"
    /\ Available(j)
    /\ status' = [status EXCEPT ![j] = "STOPPING"]
    /\ ctl' = [ctl EXCEPT ![j] = "dead"]
    /\ UNCHANGED <<fdServo, targetPos, callback, mutex, syncSem, joints_pos,
                   servo, dest, i, calls>>

Controller(j) == \/ Wait(j) \/ Wake(j) \/ Switch(j) \/ Load(j)
                 \/ Move(j) \/ Store(j) \/ Finish(j) \/ Exit(j)

----------------------------------------------------------------------------
(* MyCubInterface: the calls of caller c *)

\* Mutants: off by one in the position, and in the joint.
AcceptedAbove(j, p) == fdServo /\ p >= MinPos /\ p <= MaxPos + 1 /\ j \in Joints
AcceptedJoint(j, p) == fdServo /\ p >= MinPos /\ p <= MaxPos /\ j \in 0..N

\* The early returns of setPose, gotoPose and gotoPoseSync.
Accepted(j, p) == fdServo /\ p >= MinPos /\ p <= MaxPos /\ j \in Joints

Call(c, l, j, p) ==
    /\ pc[c] = "idle"
    /\ pc' = [pc EXCEPT ![c] = l]
    /\ arg' = [arg EXCEPT ![c] = [joint |-> j, pos |-> p]]

Return(c) ==
    /\ pc' = [pc EXCEPT ![c] = "idle"]
    /\ arg' = [arg EXCEPT ![c] = NoCall]

\* setPose: the servo is driven, then joints_pos is written without the mutex.
SetPose(c, j, p) ==
    /\ Accepted(j, p)
    /\ Call(c, "setStore", j, p)
    /\ servo' = [servo EXCEPT ![j] = p]
    /\ UNCHANGED <<fdServo, params, joints_pos, local, k>>

SetPoseStore(c) ==
    /\ pc[c] = "setStore"
    /\ joints_pos' = [joints_pos EXCEPT ![arg[c].joint] = arg[c].pos]
    /\ Return(c)
    /\ UNCHANGED <<fdServo, params, servo, local, k>>

\* gotoPose: the checks, then one critical section.
GotoPose(c, j, p) ==
    /\ Accepted(j, p)
    /\ Call(c, "goto", j, p)
    /\ UNCHANGED <<fdServo, params, joints_pos, servo, local, k>>

\* Mutant: the controller is not signalled.
GotoPoseSetSilent(c) ==
    LET j == arg[c].joint IN
    /\ pc[c] = "goto"
    /\ Available(j)
    /\ targetPos' = [targetPos EXCEPT ![j] = arg[c].pos]
    /\ status' = [status EXCEPT ![j] = "GOPOS"]
    /\ Return(c)
    /\ UNCHANGED <<fdServo, callback, mutex, syncSem, joints_pos, servo, local, k>>

GotoPoseSet(c) ==
    LET j == arg[c].joint IN
    /\ pc[c] = "goto"
    /\ Available(j)
    /\ targetPos' = [targetPos EXCEPT ![j] = arg[c].pos]
    /\ status' = [status EXCEPT ![j] = "GOPOS"]
    /\ SignalController(j)
    /\ Return(c)
    /\ UNCHANGED <<fdServo, callback, mutex, syncSem, joints_pos, servo, dest, i,
                   k>>

\* gotoPoseSync: the checks; the writes under the mutex; syncpos_mutex, the
\* signal and the wait for the callback, which gives both mutexes back.
GotoPoseSync(c, j, p) ==
    /\ Accepted(j, p)
    /\ Call(c, "sync", j, p)
    /\ UNCHANGED <<fdServo, params, joints_pos, servo, local, k>>

GotoPoseSyncSet(c) ==
    LET j == arg[c].joint IN
    /\ pc[c] = "sync"
    /\ Available(j)
    /\ mutex' = [mutex EXCEPT ![j] = c]
    /\ targetPos' = [targetPos EXCEPT ![j] = arg[c].pos]
    /\ status' = [status EXCEPT ![j] = "GOPOS"]
    /\ callback' = [callback EXCEPT ![j] = TRUE]
    /\ pc' = [pc EXCEPT ![c] = "syncSignal"]
    /\ UNCHANGED <<fdServo, syncSem, joints_pos, servo, local, arg, k>>

GotoPoseSyncWait(c) ==
    LET j == arg[c].joint IN
    /\ pc[c] = "syncSignal"
    /\ SignalController(j)
    /\ mutex' = [mutex EXCEPT ![j] = IF @ = c THEN Nobody ELSE @]
    /\ syncSem' = [syncSem EXCEPT ![j] = @ - 1]
    /\ pc' = [pc EXCEPT ![c] = IF syncSem[j] > 0 THEN "syncWoken" ELSE "syncWait"]
    /\ UNCHANGED <<fdServo, status, targetPos, callback, joints_pos, servo, dest,
                   i, arg, k>>

GotoPoseSyncReturn(c) ==
    /\ pc[c] = "syncWoken"
    /\ Return(c)
    /\ UNCHANGED <<fdServo, params, joints_pos, servo, local, k>>

\* getPose and checkMotionDone read one field under the mutex.
GetPose(c, j) ==
    /\ j \in Joints
    /\ Call(c, "get", j, arg[c].pos)
    /\ UNCHANGED <<fdServo, params, joints_pos, servo, local, k>>

GetPoseRead(c) ==
    /\ pc[c] = "get"
    /\ Available(arg[c].joint)
    /\ Return(c)
    /\ UNCHANGED <<fdServo, params, joints_pos, servo, local, k>>

----------------------------------------------------------------------------
(* startController and stopController, called by Main *)

MainAt(l, m) == pc[Main] = l /\ pc' = [pc EXCEPT ![Main] = m]

Start ==
    /\ MainAt("idle", "start")
    /\ ~fdServo
    /\ fdServo' = TRUE
    /\ k' = 0
    /\ UNCHANGED <<params, joints_pos, servo, local, arg>>

\* open or pthread_attr_init fails: fini() stops the controllers.
StartFails ==
    /\ Faults
    /\ MainAt("idle", "stop")
    /\ ~fdServo
    /\ fdServo' \in BOOLEAN
    /\ k' = 0
    /\ UNCHANGED <<params, joints_pos, servo, local, arg>>

\* The parameters, mutexes and conditions of joint k; status is not reset.
InitParams ==
    /\ targetPos' = [targetPos EXCEPT ![k] = MinPos]
    /\ callback' = [callback EXCEPT ![k] = FALSE]
    /\ mutex' = [mutex EXCEPT ![k] = Nobody]
    /\ syncSem' = [syncSem EXCEPT ![k] = 0]
    /\ UNCHANGED status

StartJoint ==
    /\ k \in Joints
    /\ InitParams
    /\ MainAt("start", "start")
    /\ ctl' = [ctl EXCEPT ![k] = "new"]
    /\ k' = k + 1
    /\ UNCHANGED <<fdServo, joints_pos, servo, dest, i, arg>>

\* pthread_create fails: fini() stops the controllers.
StartJointFails ==
    /\ Faults
    /\ k \in Joints
    /\ InitParams
    /\ MainAt("start", "stop")
    /\ k' = 0
    /\ UNCHANGED <<fdServo, joints_pos, servo, local, arg>>

\* sleep(1): the controllers, whose priority is next to Main's, all reach
\* their first wait in that second.
StartReturn ==
    /\ k = N
    /\ MainAt("start", "idle")
    /\ \A j \in Joints : ctl[j] # "new"
    /\ k' = 0
    /\ UNCHANGED <<fdServo, params, joints_pos, servo, local, arg>>

Stop ==
    /\ MainAt("idle", "stop")
    /\ k' = 0
    /\ UNCHANGED <<fdServo, params, joints_pos, servo, local, arg>>

\* The polling loop on status, read under the mutex every 100 ms.  Any other
\* value is polled again.
StopPoll ==
    /\ k \in Joints
    /\ Available(k)
    /\ \/ status[k] = "WAITING"  /\ MainAt("stop", "stopSignal")
       \/ status[k] = "STOPPING" /\ MainAt("stop", "join")
    /\ UNCHANGED <<fdServo, params, joints_pos, servo, local, arg, k>>

\* Mutant: STOP is set without a signal.
StopSignalSilent ==
    /\ MainAt("stopSignal", "stop")
    /\ Available(k)
    /\ status' = [status EXCEPT ![k] = "STOP"]
    /\ UNCHANGED <<fdServo, targetPos, callback, mutex, syncSem, joints_pos, servo,
                   local, arg, k>>

StopSignal ==
    /\ MainAt("stopSignal", "stop")
    /\ Available(k)
    /\ status' = [status EXCEPT ![k] = "STOP"]
    /\ SignalController(k)
    /\ UNCHANGED <<fdServo, targetPos, callback, mutex, syncSem, joints_pos, servo,
                   dest, i, arg, k>>

\* Mutant: the thread is detached and not joined.
StopDetach ==
    /\ MainAt("join", "stop")
    /\ syncSem' = [syncSem EXCEPT ![k] = IF @ >= 0 THEN 1 ELSE @]
    /\ k' = k + 1
    /\ UNCHANGED <<fdServo, status, targetPos, callback, mutex, joints_pos, servo,
                   local, arg>>

\* pthread_join, then the mutexes and conditions are destroyed: a held mutex
\* stays as it is, the semaphore of a condition without waiters gets count 1.
StopJoin ==
    /\ MainAt("join", "stop")
    /\ ctl[k] \in {"none", "dead"}
    /\ syncSem' = [syncSem EXCEPT ![k] = IF @ >= 0 THEN 1 ELSE @]
    /\ k' = k + 1
    /\ UNCHANGED <<fdServo, status, targetPos, callback, mutex, joints_pos, servo,
                   local, arg>>

StopReturn ==
    /\ k = N
    /\ MainAt("stop", "idle")
    /\ fdServo' = FALSE
    /\ k' = 0
    /\ UNCHANGED <<params, joints_pos, servo, local, arg>>

----------------------------------------------------------------------------
\* The steps of a call once it has begun.
InCall(c) == \/ SetPoseStore(c) \/ GotoPoseSet(c) \/ GotoPoseSyncSet(c)
             \/ GotoPoseSyncWait(c) \/ GotoPoseSyncReturn(c) \/ GetPoseRead(c)

InMain == \/ StartJoint \/ StartJointFails \/ StartReturn
          \/ StopPoll \/ StopSignal \/ StopJoin \/ StopReturn

NewCall(c) ==
    \E j \in 0..N, p \in Asked :
        \/ GotoPose(c, j, p)
        \/ c \in Setters /\ SetPose(c, j, p)
        \/ c \in Syncers /\ GotoPoseSync(c, j, p)
        \/ GetPose(c, j)

Next == \/ \E j \in Joints : Controller(j)
        \/ \E c \in Callers : InCall(c) \/ NewCall(c)
        \/ Start \/ StartFails \/ Stop \/ InMain

Spec == Init /\ [][Next]_vars

\* Threads that can run do run: NuttX schedules every ready thread, and no
\* thread holds a mutex while it sleeps.  Nothing obliges a caller to call.
FairSpec == /\ Spec
            /\ \A j \in Joints : WF_vars(Controller(j))
            /\ \A c \in Callers : WF_vars(InCall(c))
            /\ WF_vars(InMain)

----------------------------------------------------------------------------
(* Properties *)

Pos == MinPos..MaxPos

Lines == {"none", "new", "top", "wait", "woken", "switch", "load", "move",
          "store", "exit", "dead"}

CallerLines == {"idle", "setStore", "goto", "sync", "syncSignal", "syncWait",
                "syncWoken", "get"}

MainLines == CallerLines \cup {"start", "stop", "stopSignal", "join"}

\* The type invariant: every joint named in a call is one of the robot's, and the
\* loops of startController and stopController stay within the joints.
TypeOK ==
    /\ fdServo \in BOOLEAN
    /\ status \in [Joints -> Status]
    /\ targetPos \in [Joints -> Int]
    /\ callback \in [Joints -> BOOLEAN]
    /\ mutex \in [Joints -> Callers \cup {Nobody, Unset}]
    /\ syncSem \in [Joints -> Int]
    /\ joints_pos \in [Joints -> Int]
    /\ servo \in [Joints -> Int]
    /\ ctl \in [Joints -> Lines]
    /\ dest \in [Joints -> Int]
    /\ i \in [Joints -> Int]
    /\ pc \in [Callers -> MainLines]
    /\ arg \in [Callers -> [joint : Joints, pos : Int]]
    /\ k \in 0..N

\* Every position that can reach the servo of a joint is one the checks of
\* setPose and gotoPose let through: the position in use, the target of a
\* motion and each intermediate point (the loops at 133 and 149 never overrun).
InRange ==
    \A j \in Joints :
        /\ joints_pos[j] \in Pos /\ dest[j] \in Pos /\ i[j] \in Pos
        /\ servo[j] \in Pos \cup {0}

\* A controller that sleeps in pthread_cond_wait has nothing to do: no request
\* (GOPOS or STOP) is ever left in status while the thread waits for a signal,
\* once the caller that wrote it has released the mutex.
NoLostWakeup ==
    \A j \in Joints :
        ctl[j] = "wait" /\ mutex[j] = Nobody => status[j] = "WAITING"

\* stopController closes fd_servo only after every controller thread is gone:
\* no thread can issue SERVOIOC_SETPOS on a closed descriptor, whatever
\* requests, failed starts and restarts came before.
NoControllerAfterClose ==
    \A j \in Joints : ctl[j] \notin {"none", "dead"} => fdServo

\* Without setPose, a joint rests at most one unit from the target of the last
\* motion its controller carried out.
RestsNearTarget ==
    \A j \in Joints :
        ctl[j] \in {"top", "wait", "woken", "switch", "load", "exit", "dead"} =>
            joints_pos[j] - dest[j] \in {-1, 0, 1}

\* Without setPose, the servo never jumps: two successive SERVOIOC_SETPOS of a
\* joint differ by at most one unit, across motions, dropped requests, stops
\* and restarts.
SmoothStep ==
    \A j \in Joints : servo[j] # 0 => servo'[j] - servo[j] \in {-1, 0, 1}

Smooth == [][SmoothStep]_vars

\* checkMotionDone becomes true: status does not stay GOPOS for ever.
MotionEnds ==
    \A j \in Joints : status[j] = "GOPOS" ~> status[j] # "GOPOS"

\* stopController returns, once the controllers have been started.
StopReturns ==
    (pc[Main] = "stop" /\ \A j \in Joints : mutex[j] # Unset) ~> pc[Main] = "idle"

\* A caller of gotoPoseSync gets the callback signal it waits for.
SyncReturns ==
    \A c \in Callers : pc[c] = "syncWait" ~> pc[c] = "idle"
=============================================================================

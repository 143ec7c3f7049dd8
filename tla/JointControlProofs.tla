-------------------------- MODULE JointControlProofs --------------------------
(***************************************************************************)
(* Proofs about JointControl, for any number of joints, any callers, any   *)
(* limits and any requests.                                                *)
(***************************************************************************)
EXTENDS JointControl, TLAPS

\* Controller thread j does not exist: it was never created, or it returned.
Gone(j) == ctl[j] \in {"none", "dead"}

\* The loop variable of stopController is a joint while a joint is handled.
LoopIndex == pc[Main] \in {"stopSignal", "join"} => k \in Joints

Typed == TypeOK /\ LoopIndex

\* What the type invariant needs of the sets it mentions.
LEMMA Sets ==
    /\ Main \in Callers /\ Setters \subseteq Callers /\ Syncers \subseteq Callers
    /\ Joints \subseteq Int /\ 0 \in Joints /\ 0 \in 0..N
    /\ \A n \in Joints : n + 1 \in 0..N
    /\ Asked \subseteq Int /\ MinPos \in Int
    /\ {"ZERO", "WAITING", "GOPOS", "STOP", "STOPPING"} \subseteq Status
    /\ {"none", "new", "top", "wait", "woken", "switch", "load", "move", "store",
        "exit", "dead"} \subseteq Lines
    /\ {"idle", "setStore", "goto", "sync", "syncSignal", "syncWait", "syncWoken",
        "get", "start", "stop", "stopSignal", "join"} \subseteq MainLines
  BY JointAssumption DEF Joints, Callers, Status, Lines, MainLines, CallerLines

LEMMA ArgJoint ==
    ASSUME TypeOK, NEW c \in Callers
    PROVE  arg[c].joint \in Joints /\ arg[c].pos \in Int
<1>1. arg[c] \in [joint : Joints, pos : Int]
  BY DEF TypeOK
<1>2. QED
  BY <1>1

\* The type invariant is inductive together with LoopIndex, which keeps the
\* increment of k in stopController within 0..N.
LEMMA TypedInductive == Typed /\ [Next]_vars => Typed'
<1> SUFFICES ASSUME Typed, [Next]_vars PROVE Typed'
  OBVIOUS
<1>0. \A c \in Callers : arg[c].joint \in Joints
  BY ArgJoint DEF Typed
<1> USE Sets DEF Typed, TypeOK, LoopIndex, NoCall, params, local, calls, vars
<1>1. ASSUME NEW j \in Joints, Controller(j) PROVE Typed'
  <2>1. CASE Wait(j)   BY <2>1 DEF Wait
  <2>2. CASE Wake(j)   BY <2>2 DEF Wake
  <2>3. CASE Switch(j) BY <2>3 DEF Switch
  <2>4. CASE Load(j)   BY <2>4 DEF Load
  <2>5. CASE Move(j)   BY <2>5 DEF Move
  <2>6. CASE Store(j)  BY <2>6 DEF Store
  <2>7. CASE Finish(j) BY <2>7 DEF Finish, SignalSync, SyncWaiters
  <2>8. CASE Exit(j)   BY <2>8 DEF Exit
  <2> QED BY <1>1, <2>1, <2>2, <2>3, <2>4, <2>5, <2>6, <2>7, <2>8 DEF Controller
<1>2. ASSUME NEW c \in Callers, InCall(c) PROVE Typed'
  <2>1. CASE SetPoseStore(c)       BY <2>1 DEF SetPoseStore, Return
  <2>2. CASE GotoPoseSet(c)        BY <2>2 DEF GotoPoseSet, Return, SignalController
  <2>3. CASE GotoPoseSyncSet(c)    BY <2>3 DEF GotoPoseSyncSet
  <2>4. CASE GotoPoseSyncWait(c)
    <3>1. ctl' \in [Joints -> Lines]
      BY <2>4 DEF GotoPoseSyncWait, SignalController
    <3>2. mutex' \in [Joints -> Callers \cup {Nobody, Unset}]
      BY <2>4, Zenon DEF GotoPoseSyncWait
    <3>3. pc' \in [Callers -> MainLines]
      BY <2>4 DEF GotoPoseSyncWait
    <3>6. syncSem' \in [Joints -> Int]
      <4>1. arg[c].joint \in Joints BY <1>0
      <4>2. syncSem[arg[c].joint] \in Int BY <4>1, Zenon
      <4>3. \A n \in Int : n - 1 \in Int OBVIOUS
      <4> QED BY <2>4, <4>1, <4>2, <4>3 DEF GotoPoseSyncWait
    <3>4. pc'[Main] = IF c = Main THEN pc'[c] ELSE pc[Main]
      BY <2>4 DEF GotoPoseSyncWait
    <3>5. pc'[c] \in {"syncWoken", "syncWait"}
      BY <2>4 DEF GotoPoseSyncWait
    <3> QED BY <2>4, <3>1, <3>2, <3>3, <3>4, <3>5, <3>6
        DEF GotoPoseSyncWait
  <2>5. CASE GotoPoseSyncReturn(c) BY <2>5 DEF GotoPoseSyncReturn, Return
  <2>6. CASE GetPoseRead(c)        BY <2>6 DEF GetPoseRead, Return
  <2> QED BY <1>2, <2>1, <2>2, <2>3, <2>4, <2>5, <2>6 DEF InCall
<1>3. ASSUME NEW c \in Callers, NEW j \in 0..N, NEW p \in Asked, GotoPose(c, j, p)
      PROVE  Typed'
  BY <1>3 DEF GotoPose, Call, Accepted
<1>4. ASSUME NEW c \in Setters, NEW j \in 0..N, NEW p \in Asked, SetPose(c, j, p)
      PROVE  Typed'
  BY <1>4 DEF SetPose, Call, Accepted
<1>5. ASSUME NEW c \in Syncers, NEW j \in 0..N, NEW p \in Asked, GotoPoseSync(c, j, p)
      PROVE  Typed'
  BY <1>5 DEF GotoPoseSync, Call, Accepted
<1>6. ASSUME NEW c \in Callers, NEW j \in 0..N, GetPose(c, j) PROVE Typed'
  BY <1>6, SMTT(30) DEF GetPose, Call
<1>7. ASSUME Start \/ StartFails \/ Stop \/ InMain PROVE Typed'
  <2> USE DEF MainAt
  <2>1. CASE Start           BY <2>1 DEF Start
  <2>2. CASE StartFails      BY <2>2 DEF StartFails
  <2>3. CASE Stop            BY <2>3 DEF Stop
  <2>4. CASE StartJoint      BY <2>4 DEF StartJoint, InitParams
  <2>5. CASE StartJointFails BY <2>5 DEF StartJointFails, InitParams
  <2>6. CASE StartReturn     BY <2>6 DEF StartReturn
  <2>7. CASE StopPoll        BY <2>7, SMTT(30) DEF StopPoll
  <2>8. CASE StopSignal      BY <2>8 DEF StopSignal, SignalController
  <2>9. CASE StopJoin        BY <2>9 DEF StopJoin
  <2>10. CASE StopReturn     BY <2>10, Zenon DEF StopReturn
  <2> QED BY <1>7, <2>1, <2>2, <2>3, <2>4, <2>5, <2>6, <2>7, <2>8, <2>9, <2>10 DEF InMain
<1>8. CASE UNCHANGED vars BY <1>8
<1> HIDE Sets DEF Typed, TypeOK, LoopIndex, NoCall, params, local, calls, vars
<1>9. ASSUME NEW c \in Callers, NewCall(c) PROVE Typed'
  BY <1>3, <1>4, <1>5, <1>6, <1>9 DEF NewCall
<1> QED
  BY <1>1, <1>2, <1>7, <1>8, <1>9 DEF Next

LEMMA TypedInit == Init => Typed
<1> SUFFICES ASSUME Init PROVE Typed
  OBVIOUS
<1>1. arg \in [Callers -> [joint : Joints, pos : Int]]
  BY Sets DEF Init, NoCall
<1>2. LoopIndex
  BY Sets DEF Init, LoopIndex
<1>3. pc \in [Callers -> MainLines] /\ k \in 0..N
  BY Sets DEF Init
<1>4. QED
  BY Sets, <1>1, <1>2, <1>3, Zenon DEF Init, Typed, TypeOK

\* The state of the controllers, the callers and the servo is well typed, and
\* the loop variable of startController and stopController stays within 0..N.
THEOREM TypeCorrect == Spec => []TypeOK
  BY TypedInit, TypedInductive, PTL DEF Spec, Typed

----------------------------------------------------------------------------
(* Life of the controller threads *)

\* stopController has joined the threads of the joints below k; startController
\* has the servo open and has not yet created those from k on.
Lifecycle ==
    /\ NoControllerAfterClose
    /\ pc[Main] \in {"stop", "stopSignal", "join"} =>
           \A j \in Joints : j < k => Gone(j)
    /\ pc[Main] = "start" => fdServo /\ \A j \in Joints : j >= k => Gone(j)

\* What the steps of controllers and callers leave alone: a thread that is
\* gone stays gone, the servo stays open or closed, and Main's progress in
\* startController or stopController does not change.
Elsewhere ==
    /\ \A j \in Joints : Gone(j) => Gone(j)'
    /\ UNCHANGED <<fdServo, k>>
    /\ pc'[Main] = pc[Main] \/ pc'[Main] \notin {"start", "stop", "stopSignal", "join"}

LEMMA ControllerElsewhere ==
    ASSUME Typed, NEW j \in Joints, Controller(j)
    PROVE  Elsewhere
<1> USE Sets DEF Typed, TypeOK, Elsewhere, Gone, calls
<1>1. CASE Wait(j) \/ Exit(j)
  BY <1>1 DEF Wait, Exit
<1>2. CASE Wake(j) \/ Switch(j) \/ Load(j)
  BY <1>2 DEF Wake, Switch, Load
<1>3. CASE Move(j) \/ Store(j)
  BY <1>3 DEF Move, Store
<1>4. CASE Finish(j)
  BY <1>4 DEF Finish, SignalSync, SyncWaiters
<1> QED
  BY <1>1, <1>2, <1>3, <1>4, Controller(j) DEF Controller

LEMMA CallElsewhere ==
    ASSUME Typed, NEW c \in Callers, InCall(c) \/ NewCall(c)
    PROVE  Elsewhere
<1> USE Sets DEF Typed, TypeOK, Elsewhere, Gone, local, Return, Call, SignalController
<1>1. CASE SetPoseStore(c) BY <1>1 DEF SetPoseStore
<1>2. CASE GotoPoseSet(c) BY <1>2 DEF GotoPoseSet
<1>3. CASE GotoPoseSyncSet(c) BY <1>3 DEF GotoPoseSyncSet
<1>4. CASE GotoPoseSyncWait(c) BY <1>4 DEF GotoPoseSyncWait
<1>5. CASE GotoPoseSyncReturn(c) BY <1>5 DEF GotoPoseSyncReturn
<1>6. CASE GetPoseRead(c) BY <1>6 DEF GetPoseRead
<1>7. CASE NewCall(c)
  <2>1. UNCHANGED <<fdServo, ctl, k>>
    BY <1>7 DEF NewCall, GotoPose, SetPose, GotoPoseSync, GetPose
  <2>2. \E l \in {"goto", "setStore", "sync", "get"} : pc' = [pc EXCEPT ![c] = l]
    BY <1>7 DEF NewCall, GotoPose, SetPose, GotoPoseSync, GetPose
  <2>3. QED BY <2>1, <2>2
<1> HIDE DEF Elsewhere
<1> QED
  BY <1>1, <1>2, <1>3, <1>4, <1>5, <1>6, <1>7 DEF InCall

LEMMA LifecycleInductive == Typed /\ Lifecycle /\ [Next]_vars => Lifecycle'
<1> SUFFICES ASSUME Typed, Lifecycle, [Next]_vars PROVE Lifecycle'
  OBVIOUS
<1>1. ASSUME Elsewhere PROVE Lifecycle'
  BY <1>1, SMTT(30) DEF Elsewhere, Lifecycle, NoControllerAfterClose, Gone
<1>2. ASSUME Start \/ StartFails \/ Stop \/ InMain PROVE Lifecycle'
  <2> USE Sets DEF Typed, TypeOK, LoopIndex, Lifecycle, NoControllerAfterClose, Gone,
          MainAt, local, params
  <2>0. Joints = 0..N-1 /\ N \in Nat
    BY JointAssumption DEF Joints
  <2>1. CASE Start           BY <2>0, <2>1 DEF Start
  <2>2. CASE StartFails      BY <2>0, <2>2 DEF StartFails
  <2>3. CASE Stop            BY <2>0, <2>3 DEF Stop
  <2>4. CASE StartJoint
    <3>1. pc[Main] = "start" /\ pc'[Main] = "start" /\ fdServo' /\ k' = k + 1
      BY <2>4 DEF StartJoint
    <3>2. \A j \in Joints : j # k => ctl'[j] = ctl[j]
      BY <2>4 DEF StartJoint
    <3>3. \A n \in Joints : n >= k + 1 => n >= k /\ n # k
      BY <2>0
    <3>4. \A n \in Joints : n >= k' => Gone(n)'
      BY <3>1, <3>2, <3>3
    <3>5. QED BY <3>1, <3>4
  <2>5. CASE StartJointFails BY <2>0, <2>5 DEF StartJointFails
  <2>6. CASE StartReturn     BY <2>0, <2>6 DEF StartReturn
  <2>7. CASE StopPoll        BY <2>0, <2>7, Zenon DEF StopPoll
  <2>8. CASE StopSignal      BY <2>0, <2>8, ZenonT(30) DEF StopSignal, SignalController
  <2>9. CASE StopJoin        BY <2>0, <2>9 DEF StopJoin
  <2>10. CASE StopReturn     BY <2>0, <2>10 DEF StopReturn
  <2> QED BY <1>2, <2>1, <2>2, <2>3, <2>4, <2>5, <2>6, <2>7, <2>8, <2>9, <2>10 DEF InMain
<1>3. CASE UNCHANGED vars
  BY <1>3 DEF Lifecycle, NoControllerAfterClose, Gone, vars, local, calls
<1> QED
  BY <1>1, <1>2, <1>3, ControllerElsewhere, CallElsewhere DEF Next

\* stopController closes fd_servo only after every controller thread is gone:
\* a thread that exists always has an open descriptor for SERVOIOC_SETPOS.
THEOREM ClosedAfterControllers == Spec => []NoControllerAfterClose
<1>1. Init => Typed /\ Lifecycle
  BY TypedInit, Sets DEF Init, Lifecycle, NoControllerAfterClose, Gone
<1>2. QED
  BY <1>1, TypedInductive, LifecycleInductive, PTL DEF Spec, Lifecycle

----------------------------------------------------------------------------
(* Requests and signals *)

\* A request is published under the mutex together with its signal, and the
\* controller starts to wait only after it has set WAITING in the same critical
\* section.  Lifecycle is needed for a failed pthread_create: the mutex it has
\* just initialised belongs to a joint without a thread.
LEMMA WakeupInductive ==
    Typed /\ Lifecycle /\ NoLostWakeup /\ [Next]_vars => NoLostWakeup'
<1> SUFFICES ASSUME Typed, Lifecycle, NoLostWakeup, [Next]_vars PROVE NoLostWakeup'
  OBVIOUS
<1>0. \A c \in Callers : arg[c].joint \in Joints /\ c # Nobody
  BY ArgJoint, JointAssumption DEF Typed
<1> USE Sets DEF Typed, TypeOK, NoLostWakeup, params, local
<1>1. ASSUME NEW j \in Joints, Controller(j) PROVE NoLostWakeup'
  <2>1. CASE Wait(j) \/ Exit(j)                  BY <2>1 DEF Wait, Exit
  <2>2. CASE Wake(j) \/ Switch(j) \/ Load(j)     BY <2>2 DEF Wake, Switch, Load
  <2>3. CASE Move(j) \/ Store(j) \/ Finish(j)    BY <2>3 DEF Move, Store, Finish
  <2> QED BY <1>1, <2>1, <2>2, <2>3 DEF Controller
<1>2. ASSUME NEW c \in Callers, InCall(c) PROVE NoLostWakeup'
  <2>1. CASE SetPoseStore(c) \/ GotoPoseSyncReturn(c) \/ GetPoseRead(c)
    BY <2>1 DEF SetPoseStore, GotoPoseSyncReturn, GetPoseRead
  <2>2. CASE GotoPoseSet(c)
    BY <1>0, <2>2 DEF GotoPoseSet, SignalController
  <2>3. CASE GotoPoseSyncSet(c)
    BY <1>0, <2>3 DEF GotoPoseSyncSet
  <2>4. CASE GotoPoseSyncWait(c)
    BY <1>0, <2>4 DEF GotoPoseSyncWait, SignalController
  <2> QED BY <1>2, <2>1, <2>2, <2>3, <2>4 DEF InCall
<1>3. ASSUME NEW c \in Callers, NewCall(c) PROVE NoLostWakeup'
  BY <1>3, Zenon DEF NewCall, GotoPose, SetPose, GotoPoseSync, GetPose
<1>4. ASSUME Start \/ StartFails \/ Stop \/ InMain PROVE NoLostWakeup'
  <2>1. CASE Start \/ StartFails \/ Stop  BY <2>1 DEF Start, StartFails, Stop
  <2>2. CASE StartJoint                   BY <2>2 DEF StartJoint, InitParams
  <2>3. CASE StartJointFails
    <3>0. pc[Main] = "start" /\ k \in Joints
      BY <2>3 DEF StartJointFails, MainAt
    <3>1. ctl[k] # "wait"
      BY <3>0 DEF Lifecycle, Gone
    <3>2. QED BY <2>3, <3>1 DEF StartJointFails, InitParams
  <2>4. CASE StartReturn \/ StopPoll      BY <2>4 DEF StartReturn, StopPoll
  <2>5. CASE StopSignal
    BY <2>5 DEF StopSignal, SignalController, MainAt, LoopIndex
  <2>6. CASE StopJoin \/ StopReturn       BY <2>6 DEF StopJoin, StopReturn
  <2> QED BY <1>4, <2>1, <2>2, <2>3, <2>4, <2>5, <2>6 DEF InMain
<1>5. CASE UNCHANGED vars
  BY <1>5 DEF vars
<1> HIDE Sets DEF Typed, TypeOK, NoLostWakeup
<1> QED
  BY <1>1, <1>2, <1>3, <1>4, <1>5 DEF Next

\* No request (GOPOS or STOP) is left in status while the controller of that
\* joint sleeps in pthread_cond_wait with the mutex free.
THEOREM NoRequestMissed == Spec => []NoLostWakeup
<1>1. Init => Typed /\ Lifecycle /\ NoLostWakeup
  BY TypedInit, Sets DEF Init, Lifecycle, NoControllerAfterClose, Gone, NoLostWakeup
<1>2. QED
  BY <1>1, TypedInductive, LifecycleInductive, WakeupInductive, PTL DEF Spec

----------------------------------------------------------------------------
(* Positions *)

\* InRange is not inductive: the positions also come from the pending calls and
\* from targetPos, which is 0 until startController has set it, and a step
\* past i = dest would leave the range.
Bounded ==
    /\ InRange
    /\ \A c \in Callers : arg[c].pos \in Pos
    /\ \A j \in Joints : /\ ctl[j] # "none" => targetPos[j] \in Pos
                         /\ ctl[j] = "store" => i[j] # dest[j]

LEMMA Limits ==
    /\ Pos \subseteq Int /\ MinPos \in Pos
    /\ \A p \in Int : p >= MinPos /\ p <= MaxPos => p \in Pos
    /\ \A p, q \in Pos : /\ q > p => p + 1 \in Pos
                         /\ q # p /\ ~(q > p) => p - 1 \in Pos
  BY JointAssumption DEF Pos

LEMMA BoundedInductive == Typed /\ Bounded /\ [Next]_vars => Bounded'
<1> SUFFICES ASSUME Typed, Bounded, [Next]_vars PROVE Bounded'
  OBVIOUS
<1>0. \A c \in Callers : arg[c].joint \in Joints
  BY ArgJoint, SMTT(30) DEF Typed
<1> USE Sets DEF Typed, TypeOK, Bounded, InRange, params, local, calls, NoCall
<1>1. ASSUME NEW j \in Joints, Controller(j) PROVE Bounded'
  <2>1. CASE Wait(j) \/ Exit(j)               BY <2>1 DEF Wait, Exit
  <2>2. CASE Wake(j) \/ Switch(j)             BY <2>2 DEF Wake, Switch
  <2>3. CASE Load(j)                          BY <2>3 DEF Load
  <2>4. CASE Move(j)                          BY <2>4 DEF Move
  <2>5. CASE Store(j)                         BY <2>5, Limits DEF Store
  <2>6. CASE Finish(j)                        BY <2>6, SMTT(30) DEF Finish
  <2> HIDE Sets DEF Typed, TypeOK, Bounded, InRange, params, local, calls, NoCall
  <2> QED BY <1>1, <2>1, <2>2, <2>3, <2>4, <2>5, <2>6 DEF Controller
<1>2. ASSUME NEW c \in Callers, InCall(c) PROVE Bounded'
  <2>1. CASE SetPoseStore(c)
    BY <1>0, <2>1, Limits, SMTT(30) DEF SetPoseStore, Return
  <2>2. CASE GotoPoseSet(c)
    BY <1>0, <2>2, Limits, SMTT(30) DEF GotoPoseSet, SignalController, Return
  <2>3. CASE GotoPoseSyncSet(c)
    BY <1>0, <2>3, SMTT(30) DEF GotoPoseSyncSet
  <2>4. CASE GotoPoseSyncWait(c)
    BY <1>0, <2>4, SMTT(30) DEF GotoPoseSyncWait, SignalController
  <2>5. CASE GotoPoseSyncReturn(c) \/ GetPoseRead(c)
    <3>1. CASE GotoPoseSyncReturn(c) BY <3>1, Limits, SMTT(30) DEF GotoPoseSyncReturn, Return
    <3>2. CASE GetPoseRead(c) BY <3>2, Limits DEF GetPoseRead, Return
    <3> HIDE Sets DEF Typed, TypeOK, Bounded, InRange, params, local, calls, NoCall
    <3> QED BY <2>5, <3>1, <3>2
  <2> HIDE Sets DEF Typed, TypeOK, Bounded, InRange, params, local, calls, NoCall
  <2> QED BY <1>2, <2>1, <2>2, <2>3, <2>4, <2>5 DEF InCall
<1>3. ASSUME NEW c \in Callers, NEW j \in 0..N, NEW p \in Asked, Accepted(j, p)
      PROVE  p \in Pos /\ j \in Joints
  BY <1>3, Limits DEF Accepted
<1>4. ASSUME NEW c \in Callers, NewCall(c) PROVE Bounded'
  <2>1. ASSUME NEW j \in 0..N, NEW p \in Asked, GotoPose(c, j, p) PROVE Bounded'
    BY <1>3, <2>1, SMTT(30) DEF GotoPose, Call
  <2>2. ASSUME NEW j \in 0..N, NEW p \in Asked, SetPose(c, j, p) PROVE Bounded'
    BY <1>3, <2>2, SMTT(30) DEF SetPose, Call
  <2>3. ASSUME NEW j \in 0..N, NEW p \in Asked, GotoPoseSync(c, j, p) PROVE Bounded'
    BY <1>3, <2>3, SMTT(30) DEF GotoPoseSync, Call
  <2>4. ASSUME NEW j \in 0..N, GetPose(c, j) PROVE Bounded'
    BY <2>4, SMTT(30) DEF GetPose, Call
  <2> HIDE Sets DEF Typed, TypeOK, Bounded, InRange, params, local, calls, NoCall
  <2> QED BY <1>4, <2>1, <2>2, <2>3, <2>4 DEF NewCall
<1>5. ASSUME Start \/ StartFails \/ Stop \/ InMain PROVE Bounded'
  <2>1. CASE Start \/ StartFails \/ Stop  BY <2>1, SMTT(30) DEF Start, StartFails, Stop
  <2>2. CASE StartJoint                   BY <2>2, Limits, SMTT(30) DEF StartJoint, InitParams
  <2>3. CASE StartJointFails              BY <2>3, Limits, SMTT(30) DEF StartJointFails, InitParams
  <2>4. CASE StartReturn \/ StopPoll      BY <2>4, SMTT(30) DEF StartReturn, StopPoll
  <2>5. CASE StopSignal                   BY <2>5, SMTT(30) DEF StopSignal, SignalController
  <2>6. CASE StopJoin \/ StopReturn       BY <2>6, SMTT(30) DEF StopJoin, StopReturn
  <2> HIDE Sets DEF Typed, TypeOK, Bounded, InRange, params, local, calls, NoCall
  <2> QED BY <1>5, <2>1, <2>2, <2>3, <2>4, <2>5, <2>6, ZenonT(30) DEF InMain
<1>6. CASE UNCHANGED vars
  BY <1>6 DEF vars
<1> HIDE Sets DEF Typed, TypeOK, Bounded, InRange
<1> QED
  BY <1>1, <1>2, <1>4, <1>5, <1>6 DEF Next

\* Every position that reaches a servo lies within the limits that setPose and
\* gotoPose check, whatever the interleaving of motions, requests and restarts.
THEOREM PositionsInRange == Spec => []InRange
<1>1. Init => Typed /\ Bounded
  <2>1. Init => Typed
    BY TypedInit
  <2>2. Init => Bounded
    BY Limits DEF Init, Bounded, InRange, NoCall
  <2>3. QED BY <2>1, <2>2
<1>2. QED
  BY <1>1, TypedInductive, BoundedInductive, PTL DEF Spec, Bounded

----------------------------------------------------------------------------
(* Motions *)

Near(p, q) == p - q \in {-1, 0, 1}

\* Without setPose, the recorded position is next to the loop variable during a
\* motion and next to the last target otherwise, and it is where the servo was
\* last sent, except between SERVOIOC_SETPOS and the store that follows it.
Tracks ==
    /\ \A c \in Callers : pc[c] # "setStore"
    /\ \A j \in Joints :
        IF ctl[j] \in {"move", "store"}
        THEN Near(joints_pos[j], i[j])
        ELSE Near(joints_pos[j], dest[j])
    /\ \A j \in Joints :
        IF ctl[j] = "store" THEN servo[j] = i[j] ELSE servo[j] \in {0, joints_pos[j]}

\* A step outside Load, Move, Store and Finish leaves every motion where it is.
Aside ==
    /\ UNCHANGED <<joints_pos, servo, dest, i>>
    /\ \A j \in Joints : \/ ctl'[j] = ctl[j]
                         \/ /\ ctl[j] \notin {"move", "store"}
                            /\ ctl'[j] \notin {"move", "store"}
    /\ \A c \in Callers : pc'[c] = "setStore" => pc[c] = "setStore"

LEMMA CallAside ==
    ASSUME Setters = {}, Typed, Tracks, NEW c \in Callers, InCall(c) \/ NewCall(c)
    PROVE  Aside
<1>0. arg[c].joint \in Joints
  BY ArgJoint DEF Typed
<1> USE <1>0 DEF Typed, TypeOK, Aside, local, Return, Call, SignalController
<1>1. CASE SetPoseStore(c) BY <1>1 DEF SetPoseStore, Tracks
<1>2. CASE GotoPoseSet(c) BY <1>2 DEF GotoPoseSet
<1>3. CASE GotoPoseSyncSet(c) BY <1>3 DEF GotoPoseSyncSet
<1>4. CASE GotoPoseSyncWait(c) BY <1>4 DEF GotoPoseSyncWait
<1>5. CASE GotoPoseSyncReturn(c) BY <1>5 DEF GotoPoseSyncReturn
<1>6. CASE GetPoseRead(c) BY <1>6, SMTT(30) DEF GetPoseRead
<1>7. CASE NewCall(c) BY <1>7, ZenonT(30) DEF NewCall, GotoPose, GotoPoseSync, GetPose
<1> HIDE DEF Aside
<1> QED
  BY <1>1, <1>2, <1>3, <1>4, <1>5, <1>6, <1>7, SMTT(30) DEF InCall

LEMMA MainAside ==
    ASSUME Typed, Lifecycle, Start \/ StartFails \/ Stop \/ InMain
    PROVE  Aside
<1> USE Sets DEF Typed, TypeOK, Aside, local, MainAt
<1>1. CASE Start BY <1>1 DEF Start
<1>2. CASE StartFails BY <1>2 DEF StartFails
<1>3. CASE Stop BY <1>3 DEF Stop
<1>4. CASE StartJoint
  <2>1. Gone(k)
    <3>1. pc[Main] = "start" /\ k \in Joints
      BY <1>4 DEF StartJoint
    <3>2. k >= k
      OBVIOUS
    <3>3. QED BY <3>1, <3>2 DEF Lifecycle
  <2>2. QED BY <1>4, <2>1 DEF StartJoint, Gone
<1>5. CASE StartJointFails BY <1>5 DEF StartJointFails
<1>6. CASE StartReturn BY <1>6 DEF StartReturn
<1>7. CASE StopPoll BY <1>7 DEF StopPoll
<1>8. CASE StopSignal BY <1>8 DEF StopSignal, SignalController, LoopIndex
<1>9. CASE StopJoin BY <1>9 DEF StopJoin
<1>10. CASE StopReturn BY <1>10 DEF StopReturn
<1> HIDE DEF Aside
<1> QED
  BY <1>1, <1>2, <1>3, <1>4, <1>5, <1>6, <1>7, <1>8, <1>9, <1>10 DEF InMain

LEMMA Closeness == \A p, q \in Int : /\ Near(p, p) /\ Near(p, p + 1) /\ Near(p, p - 1)
                                     /\ Near(p, q) => Near(q, p)
  BY DEF Near

\* Only Move drives a servo, and it drives it to i.
LEMMA TracksInductive ==
    Setters = {} /\ Typed /\ Lifecycle /\ Tracks /\ [Next]_vars => Tracks' /\ SmoothStep
<1> SUFFICES ASSUME Setters = {}, Typed, Lifecycle, Tracks, [Next]_vars
             PROVE  Tracks' /\ SmoothStep
  OBVIOUS
<1>0. \A j \in Joints : servo[j] \in Int /\ joints_pos[j] \in Int /\ i[j] \in Int
  BY SMTT(30) DEF Typed, TypeOK
<1>1. ASSUME Aside PROVE Tracks' /\ SmoothStep
  <2>1. SmoothStep
    BY <1>0, <1>1 DEF Aside, SmoothStep
  <2>2. QED BY <1>1, <2>1 DEF Aside, Tracks
<1>2. ASSUME NEW j \in Joints, Controller(j) PROVE Tracks' /\ SmoothStep
  <2>1. CASE Wait(j) \/ Exit(j) \/ Wake(j) \/ Switch(j)
    <3>1. Aside
      BY <2>1 DEF Typed, TypeOK, Aside, Wait, Exit, Wake, Switch, calls
    <3>2. QED BY <1>1, <3>1
  <2>2. ASSUME UNCHANGED servo PROVE SmoothStep
    BY <1>0, <2>2 DEF SmoothStep
  <2>3. CASE Load(j)
    <3>1. UNCHANGED <<servo, joints_pos, pc>>
      BY <2>3 DEF Load, calls
    <3>2. \A n \in Joints : n # j => UNCHANGED <<dest[n], i[n], ctl[n]>>
      BY <2>3 DEF Load, Typed, TypeOK
    <3>3. ctl[j] = "load" /\ ctl'[j] = "move" /\ i'[j] = joints_pos[j]
      BY <2>3 DEF Load, Typed, TypeOK
    <3>4. Near(joints_pos[j], i'[j])
      BY <1>0, <3>3, Closeness, SMTT(30)
    <3>5. Tracks'
      BY <3>1, <3>2, <3>3, <3>4 DEF Tracks
    <3>6. QED BY <2>2, <3>1, <3>5
  <2>4. CASE Move(j)
    <3>1. UNCHANGED <<joints_pos, dest, i, pc>>
      BY <2>4 DEF Move, calls
    <3>2. \A n \in Joints : n # j => UNCHANGED <<servo[n], ctl[n]>>
      BY <2>4 DEF Move, Typed, TypeOK
    <3>3. ctl[j] = "move" /\ ctl'[j] = "store" /\ servo'[j] = i[j]
      BY <2>4 DEF Move, Typed, TypeOK
    <3>4. Near(joints_pos[j], i[j]) /\ servo[j] \in {0, joints_pos[j]}
      BY <3>3 DEF Tracks
    <3>5. Tracks'
      BY <3>1, <3>2, <3>3 DEF Tracks
    <3>6. SmoothStep
      <4>1. servo[j] # 0 => Near(servo'[j], servo[j])
        BY <1>0, <3>3, <3>4, Closeness
      <4>2. \A n \in Joints : n # j => Near(servo'[n], servo[n])
        BY <1>0, <3>2, Closeness
      <4>3. QED BY <4>1, <4>2, SMTT(30) DEF SmoothStep, Near
    <3>7. QED BY <3>5, <3>6
  <2>5. CASE Store(j)
    <3>1. UNCHANGED <<servo, pc, dest>>
      BY <2>5 DEF Store, calls
    <3>2. \A n \in Joints : n # j => UNCHANGED <<joints_pos[n], i[n], ctl[n]>>
      BY <2>5 DEF Store, Typed, TypeOK
    <3>3. /\ ctl[j] = "store" /\ ctl'[j] = "move" /\ joints_pos'[j] = i[j]
          /\ (i'[j] = i[j] + 1 \/ i'[j] = i[j] - 1)
      BY <2>5 DEF Store, Typed, TypeOK
    <3>4. Near(i[j], i'[j])
      <4>1. i[j] \in Int
        BY <1>0
      <4>2. CASE i'[j] = i[j] + 1 BY <4>1, <4>2, Closeness
      <4>3. CASE i'[j] = i[j] - 1 BY <4>1, <4>3, Closeness, SMTT(30)
      <4>4. QED BY <3>3, <4>2, <4>3
    <3>5. Tracks'
      BY <3>1, <3>2, <3>3, <3>4, ZenonT(30) DEF Tracks
    <3>6. QED BY <2>2, <3>1, <3>5
  <2>6. CASE Finish(j)
    <3>1. /\ UNCHANGED <<servo, dest, i, joints_pos>>
          /\ ctl[j] = "move" /\ i[j] = dest[j] /\ ctl'[j] = "top"
          /\ \A n \in Joints : n # j => ctl'[n] = ctl[n]
      BY <2>6 DEF Finish, Typed, TypeOK
    <3>2. \A c \in Callers : pc'[c] = "setStore" => pc[c] = "setStore"
      BY <2>6, SMTT(30) DEF Finish, SignalSync, SyncWaiters, Typed, TypeOK
    <3>3. Tracks'
      BY <3>1, <3>2 DEF Tracks
    <3>4. QED BY <2>2, <3>1, <3>3
  <2> QED BY <1>2, <2>1, <2>3, <2>4, <2>5, <2>6 DEF Controller
<1>3. CASE UNCHANGED vars
  <2>1. Aside
    BY <1>3 DEF vars, local, calls, Aside
  <2>2. QED BY <1>1, <2>1
<1> QED
  BY <1>1, <1>2, <1>3, CallAside, MainAside DEF Next

LEMMA TracksInit == Init => Typed /\ Lifecycle /\ Tracks
<1>1. MinPos \in Int
  BY JointAssumption
<1>2. Init => Typed
  BY TypedInit
<1>3. Init => Lifecycle
  BY Sets, SMTT(30) DEF Init, Lifecycle, NoControllerAfterClose, Gone
<1>4. Init => Tracks
  <2>1. Near(MinPos, MinPos)
    BY <1>1, Closeness
  <2>2. ASSUME Init
        PROVE  /\ \A c \in Callers : pc[c] = "idle"
               /\ \A j \in Joints : /\ ctl[j] = "none" /\ servo[j] = 0
                                    /\ joints_pos[j] = MinPos /\ dest[j] = MinPos
    BY <2>2 DEF Init
  <2>3. QED BY <2>1, <2>2, Zenon DEF Tracks
<1>5. QED BY <1>2, <1>3, <1>4

\* Without setPose, two successive SERVOIOC_SETPOS of a joint differ by at most
\* one unit, across motions, dropped requests, stops and restarts.
THEOREM MotionIsSmooth == Setters = {} => (Spec => Smooth)
<1> SUFFICES ASSUME Setters = {} PROVE Spec => Smooth
  OBVIOUS
<1>1. Typed /\ Lifecycle /\ Tracks /\ [Next]_vars => Tracks' /\ [SmoothStep]_vars
  BY TracksInductive
<1>2. QED
  BY <1>1, TracksInit, TypedInductive, LifecycleInductive, PTL DEF Spec, Smooth

\* Without setPose, a joint rests at most one unit from the target of the last
\* motion its controller carried out.
THEOREM RestIsNearTarget == Setters = {} => (Spec => []RestsNearTarget)
<1> SUFFICES ASSUME Setters = {} PROVE Spec => []RestsNearTarget
  OBVIOUS
<1>1. Typed /\ Lifecycle /\ Tracks /\ [Next]_vars => Tracks'
  BY TracksInductive
<1>2. Tracks => RestsNearTarget
  BY DEF Tracks, RestsNearTarget, Near
<1>3. QED
  BY <1>1, <1>2, TracksInit, TypedInductive, LifecycleInductive, PTL DEF Spec
=============================================================================

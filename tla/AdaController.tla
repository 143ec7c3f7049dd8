--------------------------- MODULE AdaController ---------------------------
(***************************************************************************)
(* The motion part of the Ada firmware of the control board                *)
(* (firmware/ADA/controller) and the calls of the host that reach it       *)
(* (main/components/myCubInterface).                                       *)
(*                                                                         *)
(* UartTask has a higher priority than the position controllers            *)
(* (include/mycub.ads) and blocks only for the next line: on the one core  *)
(* of the board the execution of a command is one step, which may fall     *)
(* between any two steps of a controller.                                  *)
(***************************************************************************)
EXTENDS Integers

CONSTANTS Joints,     \* 0..3 on the robot
          SetJoints,  \* the joints that clients also drive with setPose
          Asked,      \* the positions clients ask for, in the host's units
          None        \* an empty mailbox, no position asked for

VARIABLES
    up,       \* UartTask has set up the uart and the joints
    mailbox,  \* Position_<j>: Container, or None when not Received
    pose,     \* Current_Poses.Container
    servo,    \* the position last sent to the servo of joint j
    timer,    \* its timer is enabled: the servo is driven
    ctl,      \* where PositionController_Task<j> is
    target,   \* its Target
    i,        \* its Current, then its loop variable
    last,     \* the position of the last gotoPose; None after a setPose
    stopped   \* stopControl has been answered and no motion asked for since

board == <<up, mailbox, pose, servo, timer>>
task  == <<ctl, target, i>>
vars  == <<board, task, last, stopped>>

Raw  == 0..180     \* Joint_POS
Home == 8

----------------------------------------------------------------------------
(* The host's positions and the board's, main.cpp *)

\* The conversion of a double to int: the fraction x/d loses its decimals.
Truncate(x, d) == IF x >= 0 THEN x \div d ELSE -((-x) \div d)

\* (int)(pos*JOINTS_SCALE+JOINTS_MIN)
ToRaw(p) == Truncate(22687 * p + 80000, 10000)

\* Mutant: the +1 that makes up for the truncation is forgotten.
FromRawNearest(r) == Truncate((r - 8) * 10000, 22687)

\* (int)((pos-JOINTS_MIN+1)/JOINTS_SCALE)
FromRaw(r) == Truncate((r - 7) * 10000, 22687)

\* Mutant: the limits of the comments, 0..90.
documentedLimits(p) == p <= 90 /\ p >= 0

checkJointLimits(p) == ToRaw(p) <= 180 /\ ToRaw(p) >= 0

ASSUME AdaAssumption ==
    /\ Joints \subseteq 0..3 /\ Joints # {}
    /\ SetJoints \subseteq Joints
    /\ Asked \subseteq Int
    /\ None \notin Int

Init ==
    /\ up = FALSE
    /\ mailbox = [j \in Joints |-> None]
    /\ pose \in [Joints -> {0, 180}]       \* never initialised: any position
    /\ servo = [j \in Joints |-> 0]
    /\ timer = [j \in Joints |-> FALSE]
    /\ ctl = [j \in Joints |-> "get"]
    /\ target = [j \in Joints |-> Home]
    /\ i = [j \in Joints |-> Home]
    /\ last = [j \in Joints |-> None]
    /\ stopped = FALSE

----------------------------------------------------------------------------
(* UartTask *)

\* StartController and SetPose(I, 8), after the first 15 seconds.
Boot ==
    /\ ~up
    /\ up' = TRUE
    /\ timer' = [j \in Joints |-> TRUE]
    /\ servo' = [j \in Joints |-> Home]
    /\ pose' = [j \in Joints |-> Home]
    /\ UNCHANGED <<mailbox, task, last, stopped>>

startControl ==
    /\ up
    /\ timer' = [j \in Joints |-> TRUE]
    /\ stopped' = FALSE
    /\ UNCHANGED <<up, mailbox, pose, servo, task, last>>

\* servo_shutdown: the timers are disabled, the controllers go on.
stopControl ==
    /\ up
    /\ timer' = [j \in Joints |-> FALSE]
    /\ stopped' = TRUE
    /\ UNCHANGED <<up, mailbox, pose, servo, task, last>>

\* SetPoseRaw, which enables the timer, and Current_Poses.Set.
setPose(j, p) ==
    /\ up
    /\ checkJointLimits(p)
    /\ servo' = [servo EXCEPT ![j] = ToRaw(p)]
    /\ timer' = [timer EXCEPT ![j] = TRUE]
    /\ pose' = [pose EXCEPT ![j] = ToRaw(p)]
    /\ last' = [last EXCEPT ![j] = None]
    /\ stopped' = FALSE
    /\ UNCHANGED <<up, mailbox, task>>

\* Mutant: a request is not put into a mailbox that holds one.
gotoPoseIfEmpty(j, p) ==
    /\ up
    /\ checkJointLimits(p)
    /\ mailbox' = [mailbox EXCEPT ![j] = IF @ = None THEN ToRaw(p) ELSE @]
    /\ last' = [last EXCEPT ![j] = p]
    /\ stopped' = FALSE
    /\ UNCHANGED <<up, pose, servo, timer, task>>

\* Position_<j>.Put; gotoPoseSync of the host and goToPoseSync of the board do
\* no more than this.
gotoPose(j, p) ==
    /\ up
    /\ checkJointLimits(p)
    /\ mailbox' = [mailbox EXCEPT ![j] = ToRaw(p)]
    /\ last' = [last EXCEPT ![j] = p]
    /\ stopped' = FALSE
    /\ UNCHANGED <<up, pose, servo, timer, task>>

----------------------------------------------------------------------------
(* PositionController_Task<j> *)

\* Mutant: Received is not cleared.
GetAgain(j) ==
    /\ ctl[j] = "get"
    /\ mailbox[j] # None
    /\ target' = [target EXCEPT ![j] = mailbox[j]]
    /\ ctl' = [ctl EXCEPT ![j] = "read"]
    /\ UNCHANGED <<board, i, last, stopped>>

\* Position_<j>.Get
Get(j) ==
    /\ ctl[j] = "get"
    /\ mailbox[j] # None
    /\ target' = [target EXCEPT ![j] = mailbox[j]]
    /\ mailbox' = [mailbox EXCEPT ![j] = None]
    /\ ctl' = [ctl EXCEPT ![j] = "read"]
    /\ UNCHANGED <<up, pose, servo, timer, i, last, stopped>>

\* Current := GetPose(j); there is no loop when Current = Target.Pos.
Read(j) ==
    /\ ctl[j] = "read"
    /\ i' = [i EXCEPT ![j] = pose[j]]
    /\ ctl' = [ctl EXCEPT ![j] = IF pose[j] = target[j] THEN "get" ELSE "drive"]
    /\ UNCHANGED <<board, target, last, stopped>>

\* Mutant: the servo is sent straight to the target.
DriveToTarget(j) ==
    /\ ctl[j] = "drive"
    /\ servo' = [servo EXCEPT ![j] = target[j]]
    /\ timer' = [timer EXCEPT ![j] = TRUE]
    /\ ctl' = [ctl EXCEPT ![j] = "record"]
    /\ UNCHANGED <<up, mailbox, pose, target, i, last, stopped>>

\* SetPoseRaw(joint, I), which enables the timer.
Drive(j) ==
    /\ ctl[j] = "drive"
    /\ servo' = [servo EXCEPT ![j] = i[j]]
    /\ timer' = [timer EXCEPT ![j] = TRUE]
    /\ ctl' = [ctl EXCEPT ![j] = "record"]
    /\ UNCHANGED <<up, mailbox, pose, target, i, last, stopped>>

\* Current_Poses.Set(joint, I), the delay, and the end of either loop.
Record(j) ==
    /\ ctl[j] = "record"
    /\ pose' = [pose EXCEPT ![j] = i[j]]
    /\ \/ /\ i[j] # target[j]
          /\ i' = [i EXCEPT ![j] = IF @ < target[j] THEN @ + 1 ELSE @ - 1]
          /\ ctl' = [ctl EXCEPT ![j] = "drive"]
       \/ /\ i[j] = target[j]
          /\ ctl' = [ctl EXCEPT ![j] = "get"]
          /\ UNCHANGED i
    /\ UNCHANGED <<up, mailbox, servo, timer, target, last, stopped>>

Controller(j) == Get(j) \/ Read(j) \/ Drive(j) \/ Record(j)

Command ==
    \/ startControl \/ stopControl
    \/ \E p \in Asked : \/ \E j \in Joints : gotoPose(j, p)
                        \/ \E j \in SetJoints : setPose(j, p)

Next == Boot \/ Command \/ \E j \in Joints : Controller(j)

Spec == Init /\ [][Next]_vars

\* Every delay ends, and a ready controller runs: nothing of a higher priority
\* computes for ever.  Nobody has to send a command.
FairSpec == Spec /\ \A j \in Joints : WF_vars(Controller(j))

----------------------------------------------------------------------------
(* Properties *)

\* The type invariant: no position outside Joint_POS is recorded or driven, so for
\* joints that exist no range check of Joint_POS can fail (SerialLink has the
\* lists that name one that does not).
TypeOK ==
    /\ up \in BOOLEAN
    /\ mailbox \in [Joints -> Raw \cup {None}]
    /\ pose \in [Joints -> Raw] /\ servo \in [Joints -> Raw]
    /\ timer \in [Joints -> BOOLEAN]
    /\ ctl \in [Joints -> {"get", "read", "drive", "record"}]
    /\ target \in [Joints -> Raw] /\ i \in [Joints -> Raw]
    /\ last \in [Joints -> Asked \cup {None}]
    /\ stopped \in BOOLEAN

AtRest(j) == ctl[j] = "get" /\ mailbox[j] = None

\* A joint at rest is exactly where the last gotoPose wanted it, whatever
\* requests and setPose calls came before, and getPose of the host returns the
\* number that was asked for, unless it is negative.  For a joint that is never
\* driven with setPose the servo is there too; otherwise a setPose may fall
\* between SetPoseRaw and Current_Poses.Set, which leaves the servo elsewhere,
\* even after a gotoPose to the recorded position.
RestsOnRequest ==
    \A j \in Joints : AtRest(j) /\ last[j] # None =>
        /\ pose[j] = ToRaw(last[j])
        /\ last[j] >= 0 => FromRaw(pose[j]) = last[j]
        /\ j \notin SetJoints => servo[j] = pose[j]

\* The servo of a joint that is never driven with setPose moves by at most one
\* unit at a time, across motions and overwritten requests.
SmoothStep ==
    \A j \in Joints \ SetJoints : up => servo'[j] - servo[j] \in {-1, 0, 1}

Smooth == [][SmoothStep]_vars

\* The joints that are not driven with setPose.
Moved == Joints \ SetJoints

Service == INSTANCE JointService WITH
    Joints <- Moved, Pos <- Raw,
    wanted <- [j \in Moved |-> mailbox[j]],
    goal   <- [j \in Moved |-> IF ctl[j] = "get" THEN None ELSE target[j]],
    at     <- [j \in Moved |-> IF up THEN pose[j] ELSE None]

\* The tasks and their one-place mailboxes implement the service: the newest
\* request wins, a motion ends on its target, and every request is served.
ServiceKept == Service!FairSpec

\* If clients stop asking, the joint gets to the last position asked for, also
\* when a motion to an older one was under way.
LastRequestReached ==
    \A j \in Joints, p \in Asked :
        <>[](last[j] = p) => <>[](pose[j] = ToRaw(p))

\* stopController, once answered, has stopped the motors: no timer runs until a
\* client starts them again or asks for a motion.
StopStops == stopped => \A j \in Joints : ~timer[j]
=============================================================================

----------------------------- MODULE AdaProofs -----------------------------
(***************************************************************************)
(* Proofs about AdaController, for any joints and any requests.            *)
(***************************************************************************)
EXTENDS AdaController, TLAPS

----------------------------------------------------------------------------
(* The units of the host and those of the board *)

\* checkJointLimits lets only positions of the board pass.
LEMMA LimitsInRaw ==
    ASSUME NEW p \in Int, checkJointLimits(p)
    PROVE  ToRaw(p) \in Raw
<1>1. ToRaw(p) \in Int
  BY DEF ToRaw, Truncate
<1>2. QED
  BY <1>1 DEF checkJointLimits, Raw

\* getPose of the host gives back the position that gotoPose or setPose was
\* given: the +1 makes up for what both truncations take away.
THEOREM UnitsRoundTrip == \A p \in Nat : FromRaw(ToRaw(p)) = p
<1> SUFFICES ASSUME NEW p \in Nat PROVE FromRaw(ToRaw(p)) = p
  OBVIOUS
<1>1. PICK x \in Nat : x = 22687 * p + 80000
  OBVIOUS
<1>2. PICK q \in Int : q = x \div 10000
  OBVIOUS
<1>3. PICK r \in Int : r >= 0 /\ r < 10000 /\ x = 10000 * q + r
  BY <1>2
<1>4. ToRaw(p) = q
  BY <1>1, <1>2 DEF ToRaw, Truncate
<1>5. PICK y \in Int : y = (q - 7) * 10000
  OBVIOUS
<1>6. y > 22687 * p /\ y <= 22687 * p + 10000
  BY <1>1, <1>3, <1>5
<1>7. y >= 0 /\ y \div 22687 = p
  BY <1>6
<1>8. QED
  BY <1>4, <1>5, <1>7 DEF FromRaw, Truncate

----------------------------------------------------------------------------
(* The inductive invariant *)

\* Nothing has been asked for before UartTask is ready.
Dormant(j) == mailbox[j] = None /\ ctl[j] = "get" /\ last[j] = None

\* The last request is in the mailbox, or is the motion under way, or has been
\* reached.
OnItsWay(j) ==
    \/ mailbox[j] = ToRaw(last[j])
    \/ /\ mailbox[j] = None
       /\ (IF ctl[j] = "get" THEN pose[j] ELSE target[j]) = ToRaw(last[j])

\* The unit after p on the way to q.
Step(p, q) == IF p < q THEN p + 1 ELSE p - 1

\* The loop variable of the controller is the recorded position, in the first
\* turn of the loop, or the unit after it; the target is still ahead.  The servo
\* is at the recorded position until SetPoseRaw has moved it.
Travel(j) ==
    /\ ctl[j] \in {"drive", "record"} =>
           pose[j] # target[j] /\ i[j] \in {pose[j], Step(pose[j], target[j])}
    /\ servo[j] = IF ctl[j] = "record" THEN i[j] ELSE pose[j]

IInv ==
    /\ TypeOK
    /\ \A j \in Joints : /\ ~up => Dormant(j)
                         /\ last[j] # None => OnItsWay(j)
                         /\ up /\ j \notin SetJoints => Travel(j)

LEMMA RawIsInt == Raw \subseteq Int /\ None \notin Raw
  BY AdaAssumption DEF Raw

LEMMA StepInRaw == \A p, q \in Raw : p # q => Step(p, q) \in Raw
  BY DEF Step, Raw

LEMMA TypeInductive == TypeOK /\ [Next]_vars => TypeOK'
<1> SUFFICES ASSUME TypeOK, [Next]_vars PROVE TypeOK'
  OBVIOUS
<1> USE AdaAssumption DEF TypeOK, board, task, vars
<1>0. Home \in Raw
  BY DEF Home, Raw
<1>1. CASE Boot BY <1>0, <1>1 DEF Boot
<1>2. CASE startControl BY <1>2, Zenon DEF startControl
<1>3. CASE stopControl BY <1>3 DEF stopControl
<1>4. ASSUME NEW p \in Asked, NEW j \in Joints, gotoPose(j, p) PROVE TypeOK'
  <2>1. ToRaw(p) \in Raw
    BY <1>4, LimitsInRaw DEF gotoPose
  <2> QED BY <1>4, <2>1, Zenon DEF gotoPose
<1>5. ASSUME NEW p \in Asked, NEW j \in SetJoints, setPose(j, p) PROVE TypeOK'
  <2>1. ToRaw(p) \in Raw
    BY <1>5, LimitsInRaw DEF setPose
  <2> QED BY <1>5, <2>1, Zenon DEF setPose
<1>6. ASSUME NEW j \in Joints, Controller(j) PROVE TypeOK'
  <2>1. CASE Get(j) BY <2>1 DEF Get
  <2>2. CASE Read(j) BY <2>2 DEF Read
  <2>3. CASE Drive(j) BY <2>3 DEF Drive
  <2>4. CASE Record(j)
    <3>1. i[j] # target[j] => Step(i[j], target[j]) \in Raw
      BY StepInRaw
    <3>2. i' \in [Joints -> Raw]
      BY <2>4, <3>1 DEF Record, Step
    <3> QED BY <2>4, <3>2, Zenon DEF Record
  <2> QED BY <1>6, <2>1, <2>2, <2>3, <2>4 DEF Controller
<1>7. CASE UNCHANGED vars BY <1>7
<1> QED
  BY <1>1, <1>2, <1>3, <1>4, <1>5, <1>6, <1>7 DEF Next, Command

LEMMA InvInit == Init => IInv
<1> SUFFICES ASSUME Init PROVE IInv
  OBVIOUS
<1>1. TypeOK
  <2>1. {0, 180, Home} \subseteq Raw
    BY DEF Home, Raw
  <2>2. pose \in [Joints -> Raw]
    BY <2>1 DEF Init
  <2>3. servo \in [Joints -> Raw] /\ target \in [Joints -> Raw] /\ i \in [Joints -> Raw]
    BY <2>1 DEF Init
  <2> QED BY <2>2, <2>3, Zenon DEF Init, TypeOK
<1>2. \A j \in Joints : ~up /\ Dormant(j) /\ last[j] = None
  BY Zenon DEF Init, Dormant
<1> QED BY <1>1, <1>2 DEF IInv

\* A step leaves joint j alone.
Apart(j) == /\ up' = up /\ mailbox'[j] = mailbox[j] /\ pose'[j] = pose[j]
            /\ servo'[j] = servo[j] /\ ctl'[j] = ctl[j] /\ target'[j] = target[j]
            /\ i'[j] = i[j] /\ last'[j] = last[j]

Kept(j) == /\ ~up => Dormant(j)
           /\ last[j] # None => OnItsWay(j)
           /\ up /\ j \notin SetJoints => Travel(j)

LEMMA ApartKept ==
    ASSUME NEW j \in Joints, Kept(j), Apart(j)
    PROVE  Kept(j)'
BY DEF Kept, Apart, Dormant, OnItsWay, Travel

LEMMA InvInductive == IInv /\ [Next]_vars => IInv'
<1> SUFFICES ASSUME IInv, [Next]_vars PROVE IInv'
  OBVIOUS
<1>0. TypeOK /\ TypeOK' /\ \A j \in Joints : Kept(j)
  BY TypeInductive DEF IInv, Kept
<1> SUFFICES ASSUME NEW k \in Joints PROVE Kept(k)'
  BY <1>0 DEF IInv, Kept
<1> USE AdaAssumption DEF TypeOK, board, task, vars
<1>1. CASE Boot
  BY <1>0, <1>1 DEF Boot, Kept, Dormant, OnItsWay, Travel
<1>2. CASE startControl \/ stopControl \/ UNCHANGED vars
  <2>1. Apart(k) BY <1>2 DEF startControl, stopControl, Apart
  <2> QED BY <1>0, <2>1, ApartKept
<1>3. ASSUME NEW p \in Asked, NEW j \in Joints, gotoPose(j, p) PROVE Kept(k)'
  <2>1. CASE j = k
    <3>1. up /\ up' /\ mailbox'[k] = ToRaw(p) /\ last'[k] = p
      BY <1>0, <1>3, <2>1 DEF gotoPose
    <3>2. OnItsWay(k)'
      BY <3>1 DEF OnItsWay
    <3>3. Travel(k) => Travel(k)'
      BY <1>3 DEF gotoPose, Travel
    <3> QED BY <1>0, <3>1, <3>2, <3>3 DEF Kept
  <2>2. CASE j # k
    <3>1. Apart(k) BY <1>0, <1>3, <2>2 DEF gotoPose, Apart
    <3> QED BY <1>0, <3>1, ApartKept
  <2> QED BY <2>1, <2>2
<1>4. ASSUME NEW p \in Asked, NEW j \in SetJoints, setPose(j, p) PROVE Kept(k)'
  <2>1. CASE j = k
    BY <1>0, <1>4, <2>1 DEF setPose, Kept
  <2>2. CASE j # k
    <3>1. Apart(k) BY <1>0, <1>4, <2>2 DEF setPose, Apart
    <3> QED BY <1>0, <3>1, ApartKept
  <2> QED BY <2>1, <2>2
<1>5. ASSUME NEW j \in Joints, Controller(j), j # k PROVE Kept(k)'
  <2>1. Apart(k)
    BY <1>0, <1>5 DEF Controller, Get, Read, Drive, Record, Apart
  <2> QED BY <1>0, <2>1, ApartKept
<1>6. CASE Controller(k)
  <2>0. up
    BY <1>0, <1>6 DEF Kept, Dormant, Controller, Get, Read, Drive, Record
  <2>1. CASE Get(k)
    <3>1. last[k] # None => OnItsWay(k)'
      BY <1>0, <2>1 DEF Get, Kept, OnItsWay
    <3> QED BY <1>0, <2>0, <2>1, <3>1 DEF Get, Kept, Travel
  <2>2. CASE Read(k)
    <3>1. last[k] # None => OnItsWay(k)'
      BY <1>0, <2>2 DEF Read, Kept, OnItsWay
    <3> QED BY <1>0, <2>0, <2>2, <3>1 DEF Read, Kept, Travel
  <2>3. CASE Drive(k)
    BY <1>0, <2>0, <2>3 DEF Drive, Kept, OnItsWay, Travel
  <2>4. CASE Record(k)
    <3>1. last[k] # None => OnItsWay(k)'
      BY <1>0, <2>4 DEF Record, Kept, OnItsWay
    <3>2. Travel(k) => Travel(k)'
      <4>1. /\ ctl[k] = "record" /\ pose'[k] = i[k] /\ servo'[k] = servo[k]
            /\ target'[k] = target[k]
        BY <1>0, <2>4 DEF Record
      <4>2. \/ /\ i[k] # target[k] /\ i'[k] = Step(i[k], target[k])
               /\ ctl'[k] = "drive"
            \/ ctl'[k] = "get"
        BY <1>0, <2>4 DEF Record, Step
      <4> QED BY <4>1, <4>2 DEF Travel
    <3> QED BY <1>0, <2>0, <2>4, <3>1, <3>2 DEF Record, Kept
  <2> QED BY <1>6, <2>1, <2>2, <2>3, <2>4 DEF Controller
<1> QED
  BY <1>1, <1>2, <1>3, <1>4, <1>5, <1>6 DEF Next, Command

----------------------------------------------------------------------------
(* The theorems *)

\* No position outside Joint_POS is recorded or sent to a servo, for every
\* request of a client: checkJointLimits is enough for the Ada range checks.
THEOREM PositionsInRange == Spec => []TypeOK
  BY InvInit, InvInductive, PTL DEF Spec, IInv

\* A joint at rest is where the last gotoPose wanted it, and getPose says so.
THEOREM JointsRestOnRequest == Spec => []RestsOnRequest
<1>1. ASSUME IInv PROVE RestsOnRequest
  <2> SUFFICES ASSUME NEW j \in Joints, AtRest(j), last[j] # None
               PROVE  /\ pose[j] = ToRaw(last[j])
                      /\ last[j] >= 0 => FromRaw(pose[j]) = last[j]
                      /\ j \notin SetJoints => servo[j] = pose[j]
    BY DEF RestsOnRequest
  <2>0. last[j] \in Int
    BY <1>1, AdaAssumption, Zenon DEF IInv, TypeOK
  <2>1. last[j] \in Int /\ ToRaw(last[j]) \in Int
    BY <2>0 DEF ToRaw, Truncate
  <2>2. pose[j] = ToRaw(last[j])
    BY <1>1, <2>1, AdaAssumption DEF IInv, OnItsWay, AtRest
  <2>3. last[j] >= 0 => FromRaw(pose[j]) = last[j]
    BY <2>1, <2>2, UnitsRoundTrip
  <2>4. j \notin SetJoints => servo[j] = pose[j]
    BY <1>1 DEF IInv, Dormant, Travel, AtRest
  <2> QED BY <2>2, <2>3, <2>4
<1> QED BY <1>1, InvInit, InvInductive, PTL DEF Spec

\* The servo of a joint that only gotoPose drives moves one unit at a time.
THEOREM JointsMoveSmoothly == Spec => Smooth
<1>1. ASSUME IInv, [Next]_vars PROVE SmoothStep
  <2> SUFFICES ASSUME NEW k \in Joints, k \notin SetJoints, up
               PROVE  servo'[k] - servo[k] \in {-1, 0, 1}
    BY DEF SmoothStep
  <2> USE AdaAssumption DEF board, task, vars
  <2>0. servo \in [Joints -> Raw] /\ Raw \subseteq Int
    BY <1>1, RawIsInt DEF IInv, TypeOK
  <2>4. servo[k] \in Int
    BY <2>0, Zenon
  <2>1. servo[k] \in Int /\ servo[k] - servo[k] = 0
    BY <2>4
  <2>2. servo'[k] = servo[k] \/ Drive(k)
    <3>1. ASSUME NEW j \in Joints, Controller(j) PROVE servo'[k] = servo[k] \/ Drive(k)
      BY <2>0, <3>1, Zenon DEF Controller, Get, Read, Drive, Record
    <3>2. ASSUME Command PROVE servo'[k] = servo[k]
      BY <2>0, <3>2, Zenon DEF Command, startControl, stopControl, gotoPose, setPose
    <3>3. ~Boot
      BY DEF Boot
    <3>4. UNCHANGED vars => servo' = servo
      OBVIOUS
    <3> QED BY <1>1, <3>1, <3>2, <3>3, <3>4, Zenon DEF Next
  <2>3. ASSUME Drive(k) PROVE servo'[k] - servo[k] \in {-1, 0, 1}
    <3>1. ctl[k] = "drive" /\ servo'[k] = i[k]
      BY <2>0, <2>3 DEF Drive
    <3>2. servo[k] = pose[k] /\ i[k] \in {pose[k], Step(pose[k], target[k])}
      BY <1>1, <3>1 DEF IInv, Travel
    <3> QED BY <2>4, <3>1, <3>2 DEF Step
  <2> QED BY <2>1, <2>2, <2>3
<1> QED BY <1>1, InvInit, InvInductive, PTL DEF Spec, Smooth

\* The controllers and their mailboxes implement the service of JointService
\* for the joints that only gotoPose drives (safety).
THEOREM ServiceImplemented == Spec => Service!Spec
<1> USE AdaAssumption DEF Moved
<1>1. Init => Service!Init
  BY DEF Init, Service!Init, Service!Nothing
<1>2. ASSUME IInv, IInv', [Next]_vars
      PROVE  [Service!Next]_(Service!vars)
  <2> USE <1>2 DEF IInv, TypeOK
  <2> USE DEF board, task, vars, Service!vars
  <2>0. Raw \subseteq Int /\ \A x \in Raw : x # None
    BY RawIsInt
  <2>6. ASSUME up' = up,
               \A n \in Moved : UNCHANGED <<mailbox[n], ctl[n], target[n], pose[n]>>
        PROVE  UNCHANGED Service!vars
    <3> HIDE <1>2 DEF IInv, TypeOK
    <3> QED BY <2>6
  <2>1. CASE Boot
    <3>1. up = FALSE /\ up' = TRUE /\ UNCHANGED <<mailbox, ctl, target>>
      BY <2>1 DEF Boot
    <3>2. \A n \in Moved : mailbox[n] = None /\ ctl[n] = "get" /\ pose'[n] = Home
      BY <2>1, <3>1 DEF Boot, Dormant
    <3>3. Service!GoHome
      <4> HIDE <1>2 DEF IInv, TypeOK
      <4> QED BY <3>1, <3>2 DEF Service!GoHome, Service!Nothing
    <3> QED BY <3>3 DEF Service!Next
  <2>2. CASE startControl \/ stopControl \/ UNCHANGED vars
    BY <2>2 DEF startControl, stopControl
  <2>3. ASSUME NEW p \in Asked, NEW j \in Joints, gotoPose(j, p)
        PROVE  [Service!Next]_(Service!vars)
    <3>1. CASE j \in SetJoints
      BY <2>3, <2>6, <3>1 DEF gotoPose
    <3>2. CASE j \in Moved
      <4>1. ToRaw(p) \in Raw
        BY <2>3, LimitsInRaw DEF gotoPose
      <4>2. up /\ pose[j] # None
        BY <2>3, <2>0, Zenon DEF gotoPose
      <4>3. [n \in Moved |-> mailbox'[n]]
              = [[n \in Moved |-> mailbox[n]] EXCEPT ![j] = ToRaw(p)]
        BY <2>3, <3>2, Zenon DEF gotoPose
      <4>4. UNCHANGED <<up, ctl, target, pose>>
        BY <2>3 DEF gotoPose
      <4>5. Service!Ask(j)
        BY <3>2, <4>1, <4>2, <4>3, <4>4, Zenon DEF Service!Ask
      <4> QED BY <3>2, <4>5 DEF Service!Next
    <3> QED BY <3>1, <3>2
  <2>4. ASSUME NEW p \in Asked, NEW j \in SetJoints, setPose(j, p)
        PROVE  UNCHANGED Service!vars
    <3>1. up' = up /\ UNCHANGED <<mailbox, ctl, target>>
      BY <2>4 DEF setPose
    <3>2. \A n \in Moved : pose'[n] = pose[n]
      BY <2>4 DEF setPose
    <3> HIDE <1>2 DEF IInv, TypeOK
    <3> QED BY <2>6, <3>1, <3>2
  <2>5. ASSUME NEW j \in Joints, Controller(j)
        PROVE  [Service!Next]_(Service!vars)
    <3>1. CASE j \in SetJoints
      <4>1. up' = up /\ \A n \in Moved : UNCHANGED <<mailbox[n], ctl[n], target[n], pose[n]>>
        <5>1. CASE Get(j) BY <3>1, <5>1 DEF Get
        <5>2. CASE Read(j) BY <3>1, <5>2 DEF Read
        <5>3. CASE Drive(j) BY <3>1, <5>3 DEF Drive
        <5>4. CASE Record(j) BY <3>1, <5>4 DEF Record
        <5> QED BY <2>5, <5>1, <5>2, <5>3, <5>4 DEF Controller
      <4> HIDE <1>2 DEF IInv, TypeOK
      <4> QED BY <2>6, <4>1
    <3>2. CASE j \in Moved
      <4>0. up /\ Travel(j) /\ pose[j] \in Raw /\ target[j] \in Raw /\ target[j] # None
        BY <2>0, <2>5, <3>2, ZenonT(30) DEF Dormant, Controller, Get, Read, Drive, Record
      <4>6. pose[j] \in Int /\ target[j] \in Int
        BY <2>0, <4>0, Zenon
      <4>1. CASE Get(j)
        <5>1. Service!Accept(j)
          BY <3>2, <4>0, <4>1, Zenon DEF Get, Service!Accept
        <5> QED BY <3>2, <5>1 DEF Service!Next, Service!Serve
      <4>2. CASE Read(j) /\ pose[j] = target[j]
        <5>1. Service!Toward(pose[j], target[j]) = target[j]
          BY <4>2, <4>6 DEF Service!Toward
        <5>2. ctl' = [ctl EXCEPT ![j] = "get"] /\ ctl[j] = "read"
          BY <4>2 DEF Read
        <5>3. UNCHANGED <<up, mailbox, pose, target>>
          BY <4>2 DEF Read
        <5>5. [n \in Moved |-> IF ctl'[n] = "get" THEN None ELSE target[n]]
                = [[n \in Moved |-> IF ctl[n] = "get" THEN None ELSE target[n]]
                      EXCEPT ![j] = None]
          BY <3>2, <5>2, Zenon
        <5>4. Service!Move(j)
          <6> HIDE <1>2 DEF IInv, TypeOK
          <6> QED BY <3>2, <4>0, <4>2, <5>1, <5>2, <5>3, <5>5, ZenonT(30) DEF Service!Move
        <5> QED BY <3>2, <5>4 DEF Service!Next, Service!Serve
      <4>3. CASE (Read(j) /\ pose[j] # target[j]) \/ Drive(j)
        <5>1. \E l \in {"drive", "record"} : ctl' = [ctl EXCEPT ![j] = l]
          BY <4>3 DEF Read, Drive
        <5>2. ctl[j] # "get" /\ UNCHANGED <<up, mailbox, pose, target>>
          BY <4>3 DEF Read, Drive
        <5>3. \A n \in Moved : n # j => ctl'[n] = ctl[n]
          BY <5>1
        <5>4. ctl'[j] # "get"
          BY <3>2, <5>1
        <5> HIDE <1>2 DEF IInv, TypeOK
        <5> QED BY <5>2, <5>3, <5>4
      <4>4. CASE Record(j) /\ i[j] = pose[j]
        <5>1. i[j] # target[j] /\ ctl[j] = "record"
          BY <4>0, <4>4 DEF Record, Travel
        <5>6. pose' = [pose EXCEPT ![j] = i[j]] /\ ctl' = [ctl EXCEPT ![j] = "drive"]
          BY <4>4, <5>1 DEF Record
        <5>2. pose' = pose /\ ctl' = [ctl EXCEPT ![j] = "drive"]
          BY <4>4, <5>6
        <5>3. UNCHANGED <<up, mailbox, target>>
          BY <4>4 DEF Record
        <5>4. \A n \in Moved : n # j => ctl'[n] = ctl[n]
          BY <5>2
        <5>5. ctl'[j] # "get"
          BY <3>2, <5>2
        <5> HIDE <1>2 DEF IInv, TypeOK
        <5> QED BY <5>1, <5>2, <5>3, <5>4, <5>5
      <4>5. CASE Record(j) /\ i[j] # pose[j]
        <5>1. i[j] = Service!Toward(pose[j], target[j])
          <6> HIDE <1>2 DEF IInv, TypeOK
          <6>1. pose[j] # target[j] /\ i[j] = Step(pose[j], target[j])
            BY <4>0, <4>5 DEF Record, Travel
          <6> QED BY <4>6, <6>1 DEF Step, Service!Toward
        <5>2. Service!Move(j)
          <6>1. /\ ctl[j] = "record" /\ pose' = [pose EXCEPT ![j] = i[j]]
                /\ ctl' = [ctl EXCEPT ![j] = IF i[j] = target[j] THEN "get" ELSE "drive"]
                /\ UNCHANGED <<up, mailbox, target>>
            BY <4>5 DEF Record
          <6>2. [n \in Moved |-> IF ctl'[n] = "get" THEN None ELSE target[n]]
                  = [[n \in Moved |-> IF ctl[n] = "get" THEN None ELSE target[n]]
                        EXCEPT ![j] = IF i[j] = target[j] THEN None ELSE target[j]]
            BY <3>2, <6>1, Zenon
          <6>3. [n \in Moved |-> IF up' THEN pose'[n] ELSE None]
                  = [[n \in Moved |-> IF up THEN pose[n] ELSE None] EXCEPT ![j] = i[j]]
            BY <3>2, <4>0, <6>1, Zenon
          <6> HIDE <1>2 DEF IInv, TypeOK
          <6>4. [n \in Moved |-> IF ctl[n] = "get" THEN None ELSE target[n]][j] = target[j]
            BY <3>2, <6>1
          <6>5. [n \in Moved |-> IF up THEN pose[n] ELSE None][j] = pose[j]
            BY <3>2, <4>0
          <6>6. target[j] # None /\ UNCHANGED <<mailbox, target>>
            BY <4>0, <6>1
          <6> HIDE DEF Moved
          <6> QED BY <3>2, <5>1, <6>2, <6>3, <6>4, <6>5, <6>6, ZenonT(30) DEF Service!Move
        <5> QED BY <3>2, <5>2 DEF Service!Next, Service!Serve
      <4> QED BY <2>5, <4>1, <4>2, <4>3, <4>4, <4>5 DEF Controller
    <3> QED BY <3>1, <3>2
  <2> QED BY <2>1, <2>2, <2>3, <2>4, <2>5 DEF Next, Command
<1> QED BY <1>1, <1>2, InvInit, InvInductive, PTL DEF Spec, Service!Spec
=============================================================================

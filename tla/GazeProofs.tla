----------------------------- MODULE GazeProofs -----------------------------
(***************************************************************************)
(* The safety of Gaze for any number of clients, any limits and any lists  *)
(* of angles, by four invariants: one on the joints and the limits, one on *)
(* the motion of an older command, one on the motion to rest in close, one *)
(* on the hand-over of a command.                                          *)
(***************************************************************************)
EXTENDS Gaze, TLAPS

LEMMA ListFacts ==
    /\ NoList \in Lists
    /\ Exit \in Commands
    /\ \A l \in Lists : l[1] \in Int /\ l[2] \in Int
    /\ \A x \in Commands : x.id \in 0..MaxCalls /\ x.kind \in Kinds /\ x.list \in Lists
<1>1. NoList \in Lists
  BY GazeAssumption, Zenon DEF NoList
<1>2. \A l \in Lists : l[1] \in Int /\ l[2] \in Int
  BY GazeAssumption, Zenon
<1>3. Exit \in Commands
  BY <1>1, GazeAssumption DEF Exit, Commands, Kinds
<1> QED BY <1>1, <1>2, <1>3, Zenon DEF Commands

\* Whatever is asked for, the pose that is moved to is within the limits.
LEMMA PoseInLimits ==
    ASSUME NEW l \in Lists
    PROVE  /\ Pose(l) \in [Joint -> Int]
           /\ \A j \in Joint : Min[j] <= Pose(l)[j] /\ Pose(l)[j] <= Max[j]
<1>1. l[1] \in Int /\ l[2] \in Int
  BY ListFacts, Zenon
<1>2. \A j \in Joint : Min[j] \in Int /\ Max[j] \in Int /\ Min[j] <= Max[j]
  BY GazeAssumption
<1>3. ASSUME NEW j \in Joint, NEW a \in Int
      PROVE  Limit(j, a) \in Int /\ Min[j] <= Limit(j, a) /\ Limit(j, a) <= Max[j]
  BY <1>2 DEF Limit
<1> QED BY <1>1, <1>3, Zenon DEF Pose

\* A turn takes a joint no further than its goal.
LEMMA TowardInLimits ==
    ASSUME TypeOK, NEW j \in Joint
    PROVE  Toward(j) \in Int /\ Min[j] <= Toward(j) /\ Toward(j) <= Max[j]
<1>1. joints_pos[j] \in Int /\ goal[j] \in Int /\ Min[j] \in Int /\ Max[j] \in Int
  BY GazeAssumption, Zenon DEF TypeOK
<1>2. /\ Min[j] <= joints_pos[j] /\ joints_pos[j] <= Max[j]
      /\ Min[j] <= goal[j] /\ goal[j] <= Max[j]
  BY Zenon DEF TypeOK
<1> QED BY <1>1, <1>2 DEF Toward

-----------------------------------------------------------------------------
(* Types and limits *)

PcOK == pc \in [Threads -> {"idle", "set", "signal", "wait", "copy", "interrupt"}]
ClientsOK ==
    /\ req \in [Clients -> Commands] /\ got \in [Clients -> 0..MaxCalls]
    /\ calls \in 0..MaxCalls /\ last \in [Joint -> Int]
HandOK == command \in Commands /\ reply \in 0..MaxCalls
FlagsOK ==
    {portOpen, cmdSemaphore, rpySemaphore, cmdEvent, rpyEvent, shouldStop, stopFlag,
     ret, failed, clash, quiet} \subseteq BOOLEAN
ModuleOK ==
    /\ cmd \in Commands
    /\ mpc \in {"wait", "take", "reply", "signal", "start", "loop", "check", "close",
                "rest", "closing", "closed"}
InLimits ==
    /\ joints_pos \in [Joint -> Int] /\ goal \in [Joint -> Int]
    /\ step \in 0..2 /\ drift \in [Joint -> Nat]
    /\ \A j \in Joint : /\ Min[j] <= joints_pos[j] /\ joints_pos[j] <= Max[j]
                        /\ Min[j] <= goal[j] /\ goal[j] <= Max[j]

TypeParts == PcOK /\ ClientsOK /\ HandOK /\ FlagsOK /\ ModuleOK /\ InLimits
             /\ stops \in 0..MaxStops

LEMMA WriteTypes ==
    ASSUME TypeOK, NEW here, NEW next, NEW j \in Joint, Write(here, next, j)
    PROVE  /\ InLimits' /\ failed' \in BOOLEAN /\ ret' \in BOOLEAN
           /\ mpc' \in {here, next}
           /\ UNCHANGED <<pc, clients, hand, shouldStop, ending, cmd>>
<1>1. PICK ok \in BOOLEAN :
        /\ joints_pos' = IF ok THEN [joints_pos EXCEPT ![j] = Toward(j)] ELSE joints_pos
        /\ ret' = (j = 0 => ok)
        /\ failed' = (failed \/ ~ok)
        /\ mpc' = IF j = 0 \/ (ret /\ ok) THEN here ELSE next
  BY Zenon DEF Write
<1>2. goal' = goal /\ step' = IF j = 0 THEN 2 ELSE 0
  BY Zenon DEF Write
<1>3. drift' = drift \/ drift' = [drift EXCEPT ![j] = @ + 1]
  BY Zenon DEF Write
<1>4. drift' \in [Joint -> Nat]
  BY <1>3 DEF TypeOK
<1>5. InLimits'
  BY <1>1, <1>2, <1>4, TowardInLimits DEF InLimits, TypeOK
<1>6. failed' \in BOOLEAN /\ ret' \in BOOLEAN /\ mpc' \in {here, next}
  BY <1>1, ZenonT(30)
<1> QED BY <1>5, <1>6, Zenon DEF Write

LEMMA TypeInductive == TypeOK /\ [Next]_vars => TypeOK'
<1> SUFFICES ASSUME TypeOK, [Next]_vars PROVE TypeOK'
  BY Zenon
<1>0. TypeParts
  BY Zenon DEF TypeOK, TypeParts, PcOK, ClientsOK, HandOK, FlagsOK, ModuleOK, InLimits
<1>1. SUFFICES TypeParts'
  BY <1>1, Zenon DEF TypeOK, TypeParts, PcOK, ClientsOK, HandOK, FlagsOK, ModuleOK, InLimits
<1> USE DEF clients, hand, servo, motion, ending, TypeParts
<1>2. ASSUME NEW c \in Clients, Respond(c) PROVE TypeParts'
  <2>1. PcOK'
    BY <1>0, <1>2, Zenon DEF Respond, PcOK
  <2>2. ClientsOK'
    <3>1. calls' \in 0..MaxCalls /\ got' = got
      BY <1>0, <1>2, GazeAssumption DEF Respond, ClientsOK
    <3>2. PICK k \in Kinds, l \in Lists :
            /\ req' = [req EXCEPT ![c] = [id |-> calls', kind |-> k, list |-> l]]
            /\ last' = IF k = "move" THEN Pose(l) ELSE NoPose
      BY <1>2, Zenon DEF Respond
    <3>3. [id |-> calls', kind |-> k, list |-> l] \in Commands
      BY <3>1, Zenon DEF Commands
    <3>4. NoPose \in [Joint -> Int] /\ Pose(l) \in [Joint -> Int]
      BY PoseInLimits, GazeAssumption DEF NoPose
    <3> QED BY <1>0, <3>1, <3>2, <3>3, <3>4, Zenon DEF ClientsOK
  <2>3. FlagsOK'
    <3>1. clash' \in BOOLEAN
      BY <1>2, Zenon DEF Respond
    <3>2. UNCHANGED <<hand, ending, shouldStop, ret, failed>>
      BY <1>2, Zenon DEF Respond
    <3> QED BY <1>0, <3>1, <3>2, Zenon DEF FlagsOK
  <2>4. HandOK' /\ ModuleOK' /\ InLimits' /\ stops' \in 0..MaxStops
    BY <1>0, <1>2, Zenon DEF Respond, HandOK, ModuleOK, InLimits
  <2> QED BY <2>1, <2>2, <2>3, <2>4, Zenon
<1>3. ASSUME NEW c \in Clients, SetCommand(c, req[c]) PROVE TypeParts'
  <2>1. PcOK'
    BY <1>0, <1>3, Zenon DEF SetCommand, PcOK
  <2>2. HandOK'
    BY <1>0, <1>3, Zenon DEF SetCommand, HandOK, ClientsOK
  <2>3. FlagsOK'
    BY <1>0, <1>3, Zenon DEF SetCommand, FlagsOK
  <2>4. ClientsOK' /\ ModuleOK' /\ InLimits' /\ stops' \in 0..MaxStops
    BY <1>0, <1>3, Zenon DEF SetCommand, ClientsOK, ModuleOK, InLimits
  <2> QED BY <2>1, <2>2, <2>3, <2>4, Zenon
<1>4. ASSUME NEW c \in Clients, Signal(c) PROVE TypeParts'
  <2>1. PcOK'
    BY <1>0, <1>4, Zenon DEF Signal, PcOK
  <2>2. FlagsOK'
    BY <1>0, <1>4, Zenon DEF Signal, FlagsOK
  <2>3. ClientsOK' /\ HandOK' /\ ModuleOK' /\ InLimits' /\ stops' \in 0..MaxStops
    BY <1>0, <1>4, Zenon DEF Signal, ClientsOK, HandOK, ModuleOK, InLimits
  <2> QED BY <2>1, <2>2, <2>3, Zenon
<1>5. ASSUME NEW c \in Clients, AwaitReply(c) PROVE TypeParts'
  <2>1. PcOK'
    BY <1>0, <1>5, Zenon DEF AwaitReply, PcOK
  <2>2. FlagsOK'
    BY <1>0, <1>5, Zenon DEF AwaitReply, FlagsOK
  <2>3. ClientsOK' /\ HandOK' /\ ModuleOK' /\ InLimits' /\ stops' \in 0..MaxStops
    BY <1>0, <1>5, Zenon DEF AwaitReply, ClientsOK, HandOK, ModuleOK, InLimits
  <2> QED BY <2>1, <2>2, <2>3, Zenon
<1>6. ASSUME NEW c \in Clients, CopyReply(c) PROVE TypeParts'
  <2>1. PcOK'
    BY <1>0, <1>6, Zenon DEF CopyReply, PcOK
  <2>2. ClientsOK'
    BY <1>0, <1>6, Zenon DEF CopyReply, ClientsOK, HandOK
  <2>3. FlagsOK' /\ HandOK' /\ ModuleOK' /\ InLimits' /\ stops' \in 0..MaxStops
    BY <1>0, <1>6, Zenon DEF CopyReply, FlagsOK, HandOK, ModuleOK, InLimits
  <2> QED BY <2>1, <2>2, <2>3, Zenon
<1>7. CASE StopModule
  <2>1. PcOK'
    BY <1>0, <1>7, Zenon DEF StopModule, PcOK
  <2>2. stops' \in 0..MaxStops
    BY <1>0, <1>7, GazeAssumption DEF StopModule
  <2>3. FlagsOK'
    <3>1. clash' \in BOOLEAN
      BY <1>7, Zenon DEF StopModule
    <3>2. /\ stopFlag' = TRUE /\ quiet' = FALSE
          /\ UNCHANGED <<hand, portOpen, shouldStop, ret, failed>>
      BY <1>7, Zenon DEF StopModule
    <3> QED BY <1>0, <3>1, <3>2, Zenon DEF FlagsOK
  <2>4. ClientsOK' /\ HandOK' /\ ModuleOK' /\ InLimits'
    BY <1>0, <1>7, Zenon DEF StopModule, ClientsOK, HandOK, ModuleOK, InLimits
  <2> QED BY <2>1, <2>2, <2>3, <2>4, Zenon
<1>8. CASE InterruptModule
  <2>1. PcOK'
    BY <1>0, <1>8, Zenon DEF InterruptModule, PcOK
  <2>2. FlagsOK'
    BY <1>0, <1>8, Zenon DEF InterruptModule, FlagsOK
  <2>3. ClientsOK' /\ HandOK' /\ ModuleOK' /\ InLimits' /\ stops' \in 0..MaxStops
    BY <1>0, <1>8, Zenon DEF InterruptModule, ClientsOK, HandOK, ModuleOK, InLimits
  <2> QED BY <2>1, <2>2, <2>3, Zenon
<1>9. CASE SetCommand(Stopper, Exit)
  <2>1. PcOK'
    BY <1>0, <1>9, Zenon DEF SetCommand, PcOK
  <2>2. HandOK'
    BY <1>0, <1>9, ListFacts, Zenon DEF SetCommand, HandOK
  <2>3. FlagsOK'
    BY <1>0, <1>9, Zenon DEF SetCommand, FlagsOK
  <2>4. ClientsOK' /\ ModuleOK' /\ InLimits' /\ stops' \in 0..MaxStops
    BY <1>0, <1>9, Zenon DEF SetCommand, ClientsOK, ModuleOK, InLimits
  <2> QED BY <2>1, <2>2, <2>3, <2>4, Zenon
<1>10. CASE Signal(Stopper)
  <2>1. PcOK'
    BY <1>0, <1>10, Zenon DEF Signal, PcOK
  <2>2. FlagsOK'
    BY <1>0, <1>10, Zenon DEF Signal, FlagsOK
  <2>3. ClientsOK' /\ HandOK' /\ ModuleOK' /\ InLimits' /\ stops' \in 0..MaxStops
    BY <1>0, <1>10, Zenon DEF Signal, ClientsOK, HandOK, ModuleOK, InLimits
  <2> QED BY <2>1, <2>2, <2>3, Zenon
<1>11. CASE AwaitCommand
  <2>1. ModuleOK'
    BY <1>0, <1>11, Zenon DEF AwaitCommand, ModuleOK
  <2>2. FlagsOK'
    BY <1>0, <1>11, Zenon DEF AwaitCommand, FlagsOK
  <2>3. PcOK' /\ ClientsOK' /\ HandOK' /\ InLimits' /\ stops' \in 0..MaxStops
    BY <1>0, <1>11, Zenon DEF AwaitCommand, PcOK, ClientsOK, HandOK, InLimits
  <2> QED BY <2>1, <2>2, <2>3, Zenon
<1>12. CASE TakeCommand
  <2>1. ModuleOK'
    BY <1>0, <1>12, Zenon DEF TakeCommand, ModuleOK, HandOK
  <2>2. FlagsOK'
    BY <1>0, <1>12, ZenonT(30) DEF TakeCommand, FlagsOK
  <2>3. InLimits'
    <3>1. drift' \in [Joint -> Nat]
      BY <1>12, Zenon DEF TakeCommand
    <3>2. UNCHANGED <<joints_pos, goal, step>>
      BY <1>12, Zenon DEF TakeCommand
    <3> QED BY <1>0, <3>1, <3>2, Zenon DEF InLimits
  <2>4. PcOK' /\ ClientsOK' /\ HandOK' /\ stops' \in 0..MaxStops
    BY <1>0, <1>12, Zenon DEF TakeCommand, PcOK, ClientsOK, HandOK
  <2> QED BY <2>1, <2>2, <2>3, <2>4, Zenon
<1>13. CASE SetReply
  <2>1. ModuleOK'
    BY <1>0, <1>13, Zenon DEF SetReply, ModuleOK
  <2>2. HandOK'
    BY <1>0, <1>13, ListFacts, Zenon DEF SetReply, HandOK, ModuleOK
  <2>3. FlagsOK'
    BY <1>0, <1>13, Zenon DEF SetReply, FlagsOK
  <2>4. PcOK' /\ ClientsOK' /\ InLimits' /\ stops' \in 0..MaxStops
    BY <1>0, <1>13, Zenon DEF SetReply, PcOK, ClientsOK, InLimits
  <2> QED BY <2>1, <2>2, <2>3, <2>4, Zenon
<1>14. CASE SignalReply
  <2>1. ModuleOK'
    BY <1>0, <1>14, ListFacts, Zenon DEF SignalReply, ModuleOK, Kinds
  <2>2. FlagsOK'
    BY <1>0, <1>14, Zenon DEF SignalReply, FlagsOK
  <2>3. PcOK' /\ ClientsOK' /\ HandOK' /\ InLimits' /\ stops' \in 0..MaxStops
    BY <1>0, <1>14, Zenon DEF SignalReply, PcOK, ClientsOK, HandOK, InLimits
  <2> QED BY <2>1, <2>2, <2>3, Zenon
<1>15. CASE Start
  <2>1. ModuleOK'
    BY <1>0, <1>15, Zenon DEF Start, ModuleOK
  <2>2. InLimits'
    BY <1>0, <1>15, PoseInLimits, ListFacts, Zenon DEF Start, InLimits, ModuleOK
  <2>3. PcOK' /\ ClientsOK' /\ FlagsOK' /\ HandOK' /\ stops' \in 0..MaxStops
    BY <1>0, <1>15, Zenon DEF Start, PcOK, ClientsOK, FlagsOK, HandOK
  <2> QED BY <2>1, <2>2, <2>3, Zenon
<1>16. CASE TurnEnd("loop", "check") \/ TurnEnd("rest", "closing")
  <2>1. ModuleOK'
    BY <1>0, <1>16, Zenon DEF TurnEnd, ModuleOK
  <2>2. PcOK' /\ ClientsOK' /\ FlagsOK' /\ HandOK' /\ InLimits' /\ stops' \in 0..MaxStops
    BY <1>0, <1>16, Zenon DEF TurnEnd, PcOK, ClientsOK, FlagsOK, HandOK, InLimits
  <2> QED BY <2>1, <2>2, Zenon
<1>17. CASE Turn("loop") \/ Turn("rest")
  <2>1. InLimits'
    <3>1. step' = 1 /\ UNCHANGED <<joints_pos, goal, drift>>
      BY <1>17, Zenon DEF Turn
    <3>2. step' \in 0..2
      BY <3>1
    <3> QED BY <1>0, <3>1, <3>2, Zenon DEF InLimits
  <2>2. PcOK' /\ ClientsOK' /\ FlagsOK' /\ HandOK' /\ ModuleOK' /\ stops' \in 0..MaxStops
    BY <1>0, <1>17, Zenon DEF Turn, PcOK, ClientsOK, FlagsOK, HandOK, ModuleOK
  <2> QED BY <2>1, <2>2, Zenon
<1>18. ASSUME NEW j \in Joint, Write("loop", "check", j) \/ Write("rest", "closing", j)
       PROVE  TypeParts'
  <2>1. /\ InLimits' /\ failed' \in BOOLEAN /\ ret' \in BOOLEAN
        /\ mpc' \in {"loop", "check", "rest", "closing"}
        /\ UNCHANGED <<pc, clients, hand, shouldStop, ending, cmd>>
    BY <1>18, WriteTypes, Zenon
  <2>2. ModuleOK'
    BY <1>0, <2>1, Zenon DEF ModuleOK
  <2>3. PcOK' /\ ClientsOK' /\ FlagsOK' /\ HandOK' /\ stops' \in 0..MaxStops
    BY <1>0, <2>1, Zenon DEF PcOK, ClientsOK, FlagsOK, HandOK
  <2> QED BY <2>1, <2>2, <2>3, Zenon
<1>19. CASE Check
  <2>1. ModuleOK'
    BY <1>0, <1>19, Zenon DEF Check, ModuleOK
  <2>2. PcOK' /\ ClientsOK' /\ FlagsOK' /\ HandOK' /\ InLimits' /\ stops' \in 0..MaxStops
    BY <1>0, <1>19, Zenon DEF Check, PcOK, ClientsOK, FlagsOK, HandOK, InLimits
  <2> QED BY <2>1, <2>2, Zenon
<1>20. CASE Close
  <2>1. ModuleOK'
    BY <1>0, <1>20, Zenon DEF Close, ModuleOK
  <2>2. FlagsOK'
    <3>1. quiet' \in BOOLEAN
      BY <1>20, Zenon DEF Close
    <3>2. /\ portOpen' = FALSE /\ shouldStop' = FALSE
          /\ UNCHANGED <<hand, stopFlag, ret, failed, clash>>
      BY <1>20, Zenon DEF Close
    <3> QED BY <1>0, <3>1, <3>2, Zenon DEF FlagsOK
  <2>3. InLimits'
    BY <1>0, <1>20, GazeAssumption, Zenon DEF Close, InLimits
  <2>4. PcOK' /\ ClientsOK' /\ HandOK' /\ stops' \in 0..MaxStops
    BY <1>0, <1>20, Zenon DEF Close, PcOK, ClientsOK, HandOK
  <2> QED BY <2>1, <2>2, <2>3, <2>4, Zenon
<1>21. CASE Closed
  <2>1. ModuleOK'
    BY <1>0, <1>21, Zenon DEF Closed, ModuleOK
  <2>2. FlagsOK'
    BY <1>0, <1>21, Zenon DEF Closed, FlagsOK
  <2>3. PcOK' /\ ClientsOK' /\ HandOK' /\ InLimits' /\ stops' \in 0..MaxStops
    BY <1>0, <1>21, Zenon DEF Closed, PcOK, ClientsOK, HandOK, InLimits
  <2> QED BY <2>1, <2>2, <2>3, Zenon
<1>22. CASE UNCHANGED vars
  <2>1. /\ PcOK' /\ ClientsOK' /\ FlagsOK' /\ HandOK' /\ ModuleOK' /\ InLimits'
        /\ stops' \in 0..MaxStops
    BY <1>0, <1>22, Zenon DEF vars, PcOK, ClientsOK, FlagsOK, HandOK, ModuleOK, InLimits
  <2> QED BY <2>1, Zenon
<1> QED BY Zenon, <1>2, <1>3, <1>4, <1>5, <1>6, <1>7, <1>8, <1>9, <1>10, <1>11, <1>12,
          <1>13, <1>14, <1>15, <1>16, <1>17, <1>18, <1>19, <1>20, <1>21, <1>22
       DEF Next, Client, Stopping, Module, Motion

\* The joints of the head stay within their limits, whatever clients ask for,
\* however calls and stops interleave and whichever writes fail.
THEOREM HeadInLimits == Spec => []TypeOK
<1>1. Init => TypeOK
  <2> SUFFICES ASSUME Init PROVE TypeOK
    BY Zenon
  <2>1. PcOK /\ FlagsOK
    BY Zenon DEF Init, PcOK, FlagsOK
  <2>2. ClientsOK /\ HandOK /\ ModuleOK /\ stops \in 0..MaxStops
    BY ListFacts, GazeAssumption DEF Init, ClientsOK, HandOK, ModuleOK
  <2>3. InLimits
    BY GazeAssumption DEF Init, InLimits
  <2> QED BY <2>1, <2>2, <2>3, Zenon
           DEF TypeOK, PcOK, ClientsOK, HandOK, FlagsOK, ModuleOK, InLimits
<1> QED BY <1>1, TypeInductive, PTL DEF Spec

-----------------------------------------------------------------------------
(* The motion of an older command *)

\* From getCommand to the end of the motion, a newer command in the slot means
\* that shouldStop is set: setCommand sets both under one semaphore, and
\* getCommand clears the one as it copies the other.
FreshInv ==
    mpc \in {"reply", "signal", "start", "loop"} => cmd = command \/ shouldStop = TRUE

LEMMA FreshInductive == FreshInv /\ [Next]_vars => FreshInv'
<1> SUFFICES ASSUME FreshInv, [Next]_vars PROVE FreshInv'
  BY Zenon
<1> USE DEF FreshInv, hand, ending
<1>1. ASSUME NEW t, NEW x, SetCommand(t, x) PROVE FreshInv'
  BY <1>1, Zenon DEF SetCommand
<1>2. ASSUME NEW t, Signal(t) PROVE FreshInv'
  BY <1>2, Zenon DEF Signal
<1>3. ASSUME NEW c, Respond(c) \/ AwaitReply(c) \/ CopyReply(c) PROVE FreshInv'
  BY <1>3, Zenon DEF Respond, AwaitReply, CopyReply
<1>4. CASE StopModule \/ InterruptModule
  BY <1>4, Zenon DEF StopModule, InterruptModule
<1>5. CASE AwaitCommand \/ TakeCommand \/ SetReply \/ SignalReply \/ Start
  BY <1>5, Zenon DEF AwaitCommand, TakeCommand, SetReply, SignalReply, Start
<1>6. ASSUME NEW here \in {"loop", "rest"}, NEW next \in {"check", "closing"},
             Motion(here, next)
      PROVE  FreshInv'
  BY <1>6, Zenon DEF Motion, Turn, TurnEnd, Write
<1>7. CASE Check \/ Close \/ Closed
  BY <1>7, Zenon DEF Check, Close, Closed
<1>8. CASE UNCHANGED vars
  BY <1>8, Zenon DEF vars
<1> QED BY <1>1, <1>2, <1>3, <1>4, <1>5, <1>6, <1>7, <1>8, Zenon
        DEF Next, Client, Stopping, Module

\* A newer command in the slot stops the motion under way, which finishes the
\* turn it is in: at its test only a set shouldStop may find degrees moved since,
\* and within a turn a joint that is still to be written has not moved.
Still == \A j \in Joint : drift[j] = 0
DriftInv ==
    /\ \A j \in Joint : drift[j] \in {0, 1}
    /\ mpc \notin {"loop", "rest"} => step = 0
    /\ mpc \in {"reply", "signal", "start"} => Still
    /\ mpc = "loop" => Still \/ shouldStop = TRUE
    /\ mpc = "loop" /\ step = 1 => Still
    /\ mpc = "loop" /\ step = 2 => drift[1] = 0

LEMMA DriftInductive == TypeOK /\ FreshInv /\ DriftInv /\ [Next]_vars => DriftInv'
<1> SUFFICES ASSUME TypeOK, FreshInv, DriftInv, [Next]_vars PROVE DriftInv'
  BY Zenon
<1>0. /\ shouldStop \in BOOLEAN /\ step \in 0..2 /\ drift \in [Joint -> Nat]
      /\ cmd.kind \in Kinds
  BY Zenon DEF TypeOK, Commands
<1> USE DEF DriftInv, Still, hand, ending, servo, motion
<1>1. ASSUME NEW t, NEW x, SetCommand(t, x) PROVE DriftInv'
  BY <1>1, Zenon DEF SetCommand
<1>2. ASSUME NEW t, Signal(t) PROVE DriftInv'
  BY <1>2, Zenon DEF Signal
<1>3. ASSUME NEW c, Respond(c) \/ AwaitReply(c) \/ CopyReply(c) PROVE DriftInv'
  BY <1>3, Zenon DEF Respond, AwaitReply, CopyReply
<1>4. CASE StopModule \/ InterruptModule
  BY <1>4, Zenon DEF StopModule, InterruptModule
<1>5. CASE AwaitCommand \/ SetReply \/ Start
  BY <1>5 DEF AwaitCommand, SetReply, Start
<1>6. CASE TakeCommand
  BY <1>6, Zenon DEF TakeCommand
<1>7. CASE SignalReply
  <2>1. mpc' \in {"close", "check", "start"}
    BY <1>0, <1>7, Zenon DEF SignalReply, Kinds
  <2> QED BY <1>7, <2>1, Zenon DEF SignalReply
<1>8. CASE Turn("loop") \/ Turn("rest")
  BY <1>0, <1>8 DEF Turn
<1>9. CASE TurnEnd("loop", "check") \/ TurnEnd("rest", "closing")
  BY <1>9, Zenon DEF TurnEnd
<1>10. ASSUME NEW j \in Joint, Write("loop", "check", j) PROVE DriftInv'
  <2>1. /\ mpc = "loop" /\ step = j + 1 /\ shouldStop' = shouldStop
        /\ step' = IF j = 0 THEN 2 ELSE 0
        /\ mpc' = "loop" \/ (mpc' = "check" /\ j # 0)
    BY <1>10, Zenon DEF Write
  <2>2. drift' = drift \/ (drift' = [drift EXCEPT ![j] = @ + 1] /\ cmd # command)
    BY <1>10, Zenon DEF Write
  <2>3. drift[j] = 0 /\ (j = 0 => drift[1] = 0)
    BY <2>1 DEF Joint
  <2>4. cmd # command => shouldStop = TRUE
    BY <2>1, Zenon DEF FreshInv
  <2>5. (\A i \in Joint : drift'[i] \in {0, 1}) /\ (j = 0 => drift'[1] = 0)
    BY <1>0, <2>2, <2>3 DEF Joint
  <2>6. Still' \/ shouldStop' = TRUE
    BY <2>1, <2>2, <2>4, Zenon
  <2> QED BY <2>1, <2>5, <2>6 DEF Joint
<1>11. ASSUME NEW j \in Joint, Write("rest", "closing", j) PROVE DriftInv'
  <2>1. /\ mpc' = "rest" \/ (mpc' = "closing" /\ j # 0)
        /\ step' = IF j = 0 THEN 2 ELSE 0
    BY <1>11, Zenon DEF Write
  <2>2. drift' = drift
    BY <1>11, Zenon DEF Write
  <2> QED BY <2>1, <2>2, Zenon
<1>12. CASE Check \/ Close \/ Closed
  BY <1>12, Zenon DEF Check, Close, Closed
<1>13. CASE UNCHANGED vars
  BY <1>13, Zenon DEF vars
<1> QED BY Zenon, <1>1, <1>2, <1>3, <1>4, <1>5, <1>6, <1>7, <1>8, <1>9, <1>10, <1>11, <1>12,
           <1>13, Zenon
        DEF Next, Client, Stopping, Module, Motion

\* A new command ends the motion of an older one within the turn under way: no
\* joint moves by more than one degree for a command after setCommand has stored
\* another one, for any number of clients, calls and stops.
THEOREM NewCommandsEndMotions == Spec => []OldMotionEnds
<1>1. Init => FreshInv /\ DriftInv
  BY Zenon DEF Init, FreshInv, DriftInv, Still
<1>2. DriftInv => OldMotionEnds
  BY DEF DriftInv, OldMotionEnds
<1> QED BY <1>1, <1>2, FreshInductive, DriftInductive, HeadInLimits, PTL DEF Spec

-----------------------------------------------------------------------------
(* The motion to rest *)

\* In close no call can begin any more, and when nobody was about to set
\* shouldStop as it began, and nobody has stopped the module since, its motion
\* goes on until the joints are at rest or a write fails.
Undisturbed == ~shouldStop /\ \A t \in Threads : pc[t] \notin {"interrupt", "set"}
RestInv ==
    /\ mpc \in {"rest", "closing", "closed"} => portOpen = FALSE /\ goal = Rest
    /\ mpc = "rest" /\ quiet => Undisturbed
    /\ ret = FALSE => failed = TRUE
    /\ mpc \in {"closing", "closed"} /\ quiet /\ failed = FALSE => joints_pos = Rest

LEMMA RestInductive == TypeOK /\ RestInv /\ [Next]_vars => RestInv'
<1> SUFFICES ASSUME TypeOK, RestInv, [Next]_vars PROVE RestInv'
  BY Zenon
<1>0. PcOK
  BY Zenon DEF TypeOK, PcOK
<1> USE DEF RestInv, Undisturbed, PcOK, hand, ending, servo, motion
<1>1. ASSUME NEW c \in Clients, Respond(c) PROVE RestInv'
  BY <1>1, Zenon DEF Respond
<1>2. ASSUME NEW t \in Threads, NEW x, SetCommand(t, x) PROVE RestInv'
  BY <1>0, <1>2, Zenon DEF SetCommand
<1>3. ASSUME NEW t \in Threads, Signal(t) PROVE RestInv'
  BY <1>0, <1>3, Zenon DEF Signal
<1>4. ASSUME NEW c \in Clients, AwaitReply(c) \/ CopyReply(c) PROVE RestInv'
  <2>1. CASE AwaitReply(c) BY <1>0, <2>1, Zenon DEF AwaitReply, Threads
  <2>2. CASE CopyReply(c) BY <1>0, <2>2, Zenon DEF CopyReply, Threads
  <2> QED BY <1>4, <2>1, <2>2, Zenon
<1>5. CASE StopModule
  BY <1>5, Zenon DEF StopModule
<1>6. CASE InterruptModule
  BY <1>6, Zenon DEF InterruptModule, Threads
<1>7. CASE AwaitCommand \/ TakeCommand \/ SetReply \/ Start \/ Check
  BY <1>7, Zenon DEF AwaitCommand, TakeCommand, SetReply, Start, Check
<1>8. CASE SignalReply
  <2>1. mpc' \in {"close", "check", "start"}
    BY <1>8, Zenon DEF SignalReply, TypeOK, Commands, Kinds
  <2> QED BY <1>8, <2>1, Zenon DEF SignalReply
<1>9. CASE Turn("loop") \/ TurnEnd("loop", "check") \/ Turn("rest")
  BY <1>9 DEF Turn, TurnEnd
<1>10. CASE Close
  BY <1>10, Zenon DEF Close
<1>11. ASSUME NEW here \in {"loop", "rest"}, NEW next, NEW j \in Joint, Write(here, next, j),
              here = "loop" => next = "check", here = "rest" => next = "closing"
       PROVE  RestInv'
  <2>1. PICK ok \in BOOLEAN :
          /\ ret' = (j = 0 => ok) /\ failed' = (failed \/ ~ok)
          /\ mpc' = IF j = 0 \/ (ret /\ ok) THEN here ELSE next
    BY <1>11, Zenon DEF Write
  <2>2. mpc = here /\ UNCHANGED <<pc, portOpen, quiet, shouldStop, goal>>
    BY <1>11, Zenon DEF Write
  <2>3. ret' = FALSE => failed' = TRUE
    BY <2>1, Zenon DEF TypeOK
  <2>4. mpc' # here => failed' = TRUE /\ mpc' = next
    BY <2>1, Zenon DEF TypeOK
  <2> QED BY <1>11, <2>2, <2>3, <2>4, Zenon
<1>12. CASE TurnEnd("rest", "closing")
  BY <1>12, Zenon DEF TurnEnd
<1>13. CASE Closed
  BY <1>13, Zenon DEF Closed
<1>14. CASE UNCHANGED vars
  BY <1>14, Zenon DEF vars
<1> QED BY Zenon, <1>1, <1>2, <1>3, <1>4, <1>5, <1>6, <1>7, <1>8, <1>9, <1>10, <1>11, <1>12,
           <1>13, <1>14
        DEF Next, Client, Stopping, Module, Motion, Threads

\* close leaves the joints at rest, unless a write fails or a call or a second
\* stop that was under way when it began sets shouldStop under it.
THEOREM CloseEndsAtRest == Spec => []ClosedAtRest
<1>1. Init => RestInv
  BY Zenon DEF Init, RestInv
<1>2. TypeOK /\ RestInv => ClosedAtRest
  BY Zenon DEF TypeOK, RestInv, ClosedAtRest
<1> QED BY <1>1, <1>2, RestInductive, HeadInLimits, PTL DEF Spec

-----------------------------------------------------------------------------
(* The hand-over *)

\* While no call has met another one or a stop, at most one is under way.  Its
\* command and its answer are handed over in turn: as long as nothing has been
\* stored or answered both events are down, so that an event that is up belongs
\* to this call.
Silent  == cmdEvent = FALSE /\ rpyEvent = FALSE
Resting == mpc \notin {"take", "reply", "signal"}
Begun(c) == pc[c] = "set" /\ Silent /\ Resting
Stored(c) ==
    /\ command = req[c] /\ rpyEvent = FALSE
    /\ \/ pc[c] = "signal" /\ cmdEvent = FALSE /\ Resting
       \/ pc[c] = "wait" /\ cmdEvent = TRUE /\ Resting
       \/ pc[c] = "wait" /\ cmdEvent = FALSE /\ mpc = "take"
Taken(c) ==
    /\ pc[c] = "wait" /\ Silent
    /\ cmd = req[c]
    /\ mpc = "reply" \/ (mpc = "signal" /\ reply = cmd.id)
Answered(c) ==
    /\ reply = req[c].id /\ cmdEvent = FALSE /\ Resting
    /\ \/ pc[c] = "wait" /\ rpyEvent = TRUE
       \/ pc[c] = "copy" /\ rpyEvent = FALSE
Alone(c) ==
    /\ Begun(c) \/ Stored(c) \/ Taken(c) \/ Answered(c)
    /\ \A d \in Clients \ {c} : pc[d] = "idle"
NoCall == \A c \in Clients : pc[c] = "idle"
HandInv ==
    clash = FALSE =>
       /\ \A c \in Clients : pc[c] = "idle" => got[c] = req[c].id
       /\ \/ stopFlag = TRUE /\ NoCall
          \/ /\ stopFlag = FALSE /\ pc[Stopper] = "idle"
             /\ \/ NoCall /\ Silent /\ Resting
                \/ \E c \in Clients : Alone(c)

\* A call under way, in a step that is the module's own.
LEMMA AloneModule ==
    ASSUME TypeOK, NEW c \in Clients, Alone(c), Module, UNCHANGED <<pc, req>>
    PROVE  Alone(c)'
<1> USE DEF Alone, Begun, Stored, Taken, Answered, Silent, Resting, hand
<1>1. CASE AwaitCommand
  BY <1>1, Zenon DEF AwaitCommand
<1>2. CASE TakeCommand
  <2>1. pc[c] = "wait" /\ Silent /\ command = req[c]
    BY <1>2, Zenon DEF TakeCommand
  <2>2. /\ cmd' = command /\ mpc' = "reply"
        /\ cmdEvent' = cmdEvent /\ rpyEvent' = rpyEvent /\ pc' = pc /\ req' = req
    BY <1>2, Zenon DEF TakeCommand
  <2>3. Taken(c)'
    BY <2>1, <2>2, Zenon
  <2> QED BY <2>3, Zenon
<1>3. CASE SetReply
  BY <1>3, Zenon DEF SetReply
<1>4. CASE SignalReply
  <2>1. mpc' \in {"close", "check", "start"}
    BY <1>4, Zenon DEF SignalReply, TypeOK, Commands, Kinds
  <2>2. Taken(c) /\ reply = req[c].id
    BY <1>4, Zenon DEF SignalReply
  <2>3. Answered(c)'
    BY <1>4, <2>1, <2>2, Zenon DEF SignalReply
  <2> QED BY <2>3, Zenon
<1>5. CASE Start \/ Check \/ Close \/ Closed
  BY <1>5, ZenonT(30) DEF Start, Check, Close, Closed
<1>6. CASE Motion("loop", "check") \/ Motion("rest", "closing")
  <2>1. /\ UNCHANGED <<hand, cmd>> /\ mpc \in {"loop", "rest"}
        /\ mpc' \in {"loop", "check", "rest", "closing"}
    BY <1>6, Zenon DEF Motion, Turn, TurnEnd, Write
  <2> QED BY <2>1, Zenon
<1> QED BY <1>1, <1>2, <1>3, <1>4, <1>5, <1>6, ZenonT(30) DEF Module

LEMMA HandInductive == TypeOK /\ HandInv /\ [Next]_vars => HandInv'
<1> SUFFICES ASSUME TypeOK, HandInv, [Next]_vars, clash' = FALSE
             PROVE  HandInv'
  BY Zenon DEF HandInv
<1>0. PcOK /\ Stopper \notin Clients /\ Clients \subseteq Threads /\ Stopper \in Threads
  BY GazeAssumption, Zenon DEF TypeOK, PcOK, Threads
<1>1. clash = FALSE
  <2>1. ASSUME NEW c \in Clients, Respond(c) PROVE clash = FALSE
    BY <2>1, Zenon DEF Respond, TypeOK
  <2>2. CASE StopModule
    BY <2>2, Zenon DEF StopModule, TypeOK
  <2>3. ASSUME NEW t, NEW x, SetCommand(t, x) \/ Signal(t) PROVE clash' = clash
    BY <2>3, Zenon DEF SetCommand, Signal, clients
  <2>4. ASSUME NEW c, AwaitReply(c) \/ CopyReply(c) PROVE clash' = clash
    BY <2>4, Zenon DEF AwaitReply, CopyReply, clients
  <2>5. CASE InterruptModule \/ UNCHANGED vars
    BY <2>5, Zenon DEF InterruptModule, vars, clients
  <2>6. CASE Module
    BY <2>6, Zenon DEF Module, AwaitCommand, TakeCommand, SetReply, SignalReply, Start,
                Motion, Turn, TurnEnd, Write, Check, Close, Closed, clients
  <2> QED BY <2>1, <2>2, <2>3, <2>4, <2>5, <2>6, Zenon DEF Next, Client, Stopping
<1>2. \A c \in Clients : pc[c] = "idle" => got[c] = req[c].id
  BY <1>1, Zenon DEF HandInv
<1>3. \/ stopFlag = TRUE /\ NoCall
      \/ /\ stopFlag = FALSE /\ pc[Stopper] = "idle"
         /\ (NoCall /\ Silent /\ Resting) \/ \E c \in Clients : Alone(c)
  BY <1>1, Zenon DEF HandInv
<1> HIDE DEF HandInv
<1>4. CASE UNCHANGED vars
  <2>1. UNCHANGED <<pc, req, got, stopFlag, cmdEvent, rpyEvent, command, reply, mpc, cmd>>
    BY <1>4, Zenon DEF vars, clients, hand, ending
  <2> QED BY <1>2, <1>3, <2>1, Zenon DEF HandInv, NoCall, Alone, Begun, Stored, Taken, Answered,
                                  Silent, Resting
<1>5. CASE Module
  <2>1. UNCHANGED <<pc, req, got, stopFlag>>
    BY <1>5, ZenonT(30) DEF Module, AwaitCommand, TakeCommand, SetReply, SignalReply, Start,
                Motion, Turn, TurnEnd, Write, Check, Close, Closed, clients, ending
  <2>2. CASE stopFlag = TRUE /\ NoCall
    BY <1>2, <2>1, <2>2, Zenon DEF HandInv, NoCall
  <2>3. CASE stopFlag = FALSE /\ pc[Stopper] = "idle" /\ NoCall /\ Silent /\ Resting
    <3>1. Silent' /\ Resting'
      BY <1>5, <2>3, ZenonT(30) DEF Silent, Resting, Module, AwaitCommand, TakeCommand, SetReply,
                        SignalReply, Start, Motion, Turn, TurnEnd, Write, Check, Close,
                        Closed, hand
    <3> QED BY <1>2, <2>1, <2>3, <3>1, Zenon DEF HandInv, NoCall
  <2>4. ASSUME stopFlag = FALSE, pc[Stopper] = "idle", NEW c \in Clients, Alone(c)
        PROVE  HandInv'
    <3>1. Alone(c)'
      BY <1>5, <2>1, <2>4, AloneModule, Zenon
    <3> QED BY <1>2, <2>1, <2>4, <3>1, Zenon DEF HandInv
  <2> QED BY <1>3, <2>2, <2>3, <2>4, Zenon
<1>6. ASSUME NEW c \in Clients, Respond(c) PROVE HandInv'
  <2>1. /\ stopFlag # TRUE /\ \A t \in Threads : pc[t] = "idle"
        /\ UNCHANGED <<got, stopFlag, cmdEvent, rpyEvent, mpc>>
        /\ pc' = [pc EXCEPT ![c] = "set"]
    BY <1>6, ZenonT(30) DEF Respond, hand, ending
  <2>2. \A d \in Clients \ {c} : req'[d] = req[d]
    BY <1>6, Zenon DEF Respond, TypeOK
  <2>3. NoCall /\ Silent /\ Resting
    BY <1>0, <1>3, <2>1, Zenon DEF Alone, Begun, Stored, Taken, Answered
  <2>4. Alone(c)'
    BY <1>0, <2>1, <2>3, Zenon DEF Alone, Begun, Silent, Resting, NoCall, PcOK
  <2>5. stopFlag' = FALSE /\ pc'[Stopper] = "idle"
    BY <1>0, <1>3, <2>1, ZenonT(30) DEF PcOK
  <2>6. \A d \in Clients : pc'[d] = "idle" => got'[d] = req'[d].id
    BY <1>0, <1>2, <2>1, <2>2, Zenon DEF PcOK
  <2> QED BY <2>4, <2>5, <2>6, Zenon DEF HandInv
<1>7. CASE StopModule
  <2>1. /\ NoCall /\ stopFlag' = TRUE /\ UNCHANGED <<got, req>>
        /\ pc' = [pc EXCEPT ![Stopper] = "interrupt"]
    BY <1>7, ZenonT(30) DEF StopModule, NoCall
  <2> QED BY <1>0, <1>2, <2>1, Zenon DEF HandInv, NoCall, PcOK
<1>8. CASE Stopping
  <2>1. /\ pc[Stopper] # "idle" /\ UNCHANGED <<got, req, stopFlag>>
        /\ \A c \in Clients : pc'[c] = pc[c]
    <3>1. CASE InterruptModule
      BY <1>0, <3>1, Zenon DEF InterruptModule, clients, PcOK
    <3>2. CASE SetCommand(Stopper, Exit)
      BY <1>0, <3>2, Zenon DEF SetCommand, clients, ending, PcOK
    <3>3. CASE Signal(Stopper)
      BY <1>0, <3>3, Zenon DEF Signal, clients, ending, PcOK
    <3> QED BY <1>8, <3>1, <3>2, <3>3, Zenon DEF Stopping
  <2> QED BY <1>2, <1>3, <2>1, Zenon DEF HandInv, NoCall
<1>9. ASSUME NEW c \in Clients, Client(c) PROVE HandInv'
  <2>1. pc[c] # "idle"
    BY <1>9, Zenon DEF Client, SetCommand, Signal, AwaitReply, CopyReply
  <2>2. stopFlag = FALSE /\ pc[Stopper] = "idle" /\ Alone(c)
    BY <1>3, <2>1, Zenon DEF NoCall, Alone
  <2>3. /\ UNCHANGED <<req, stopFlag, mpc, cmd, reply>>
        /\ pc' = [pc EXCEPT ![c] = pc'[c]]
    BY <1>0, <1>9, Zenon DEF Client, SetCommand, Signal, AwaitReply, CopyReply, PcOK, clients,
                      hand, ending
  <2>4. pc'[Stopper] = "idle" /\ \A d \in Clients \ {c} : pc'[d] = "idle"
    BY <1>0, <2>2, <2>3, Zenon DEF Alone, PcOK
  <2> USE DEF Begun, Stored, Taken, Answered, Silent, Resting, clients, hand
  <2>5. CASE SetCommand(c, req[c]) \/ Signal(c) \/ AwaitReply(c)
    <3>1. got' = got /\ pc'[c] # "idle"
      BY <1>0, <2>5, Zenon DEF SetCommand, Signal, AwaitReply, PcOK
    <3>2. ASSUME SetCommand(c, req[c]) PROVE Stored(c)'
      BY <1>0, <2>2, <2>3, <3>2, Zenon DEF SetCommand, PcOK, Alone
    <3>3. ASSUME Signal(c) PROVE Stored(c)'
      BY <1>0, <2>2, <2>3, <3>3, Zenon DEF Signal, PcOK, Alone
    <3>4. ASSUME AwaitReply(c) PROVE Answered(c)'
      BY <1>0, <2>2, <2>3, <3>4, Zenon DEF AwaitReply, PcOK, Alone
    <3>5. Alone(c)'
      BY <2>4, <2>5, <3>2, <3>3, <3>4, ZenonT(30) DEF Alone
    <3>6. stopFlag' = FALSE /\ \A d \in Clients : pc'[d] = "idle" => got'[d] = req'[d].id
      BY <1>2, <2>2, <2>3, <3>1, Zenon DEF Alone
    <3> QED BY <2>4, <3>5, <3>6, ZenonT(30) DEF HandInv
  <2>6. CASE CopyReply(c)
    <3>1. /\ got' = [got EXCEPT ![c] = req[c].id] /\ pc'[c] = "idle"
          /\ Silent' /\ Resting'
      BY <1>0, <2>2, <2>3, <2>6, Zenon DEF CopyReply, PcOK, Alone
    <3>2. NoCall'
      BY <2>4, <3>1, Zenon DEF NoCall
    <3>3. \A d \in Clients : got'[d] = req'[d].id
      BY <1>2, <2>2, <2>3, <3>1, Zenon DEF Alone, TypeOK
    <3> HIDE DEF Silent, Resting
    <3>4. stopFlag' = FALSE
      BY <2>2, <2>3, Zenon
    <3> QED BY <2>4, <3>1, <3>2, <3>3, <3>4, Zenon DEF HandInv
  <2> QED BY <1>9, <2>5, <2>6, Zenon DEF Client
<1> QED BY <1>4, <1>5, <1>6, <1>7, <1>8, <1>9, Zenon DEF Next

\* A call that met no other call and no stop returns the answer to its own
\* command, for any number of connections.
THEOREM CallsGetOwnAnswer == Spec => []OwnAnswer
<1>1. Init => HandInv
  <2> SUFFICES ASSUME Init PROVE HandInv
    BY Zenon
  <2>1. \A c \in Clients : got[c] = req[c].id
    BY Zenon DEF Init, Exit
  <2>2. NoCall /\ Silent /\ Resting
    BY Zenon DEF Init, NoCall, Silent, Resting, Threads
  <2>3. stopFlag = FALSE /\ pc[Stopper] = "idle"
    BY Zenon DEF Init, Threads
  <2> QED BY <2>1, <2>2, <2>3, Zenon DEF HandInv
<1>2. TypeOK /\ HandInv => OwnAnswer
  BY Zenon DEF HandInv, OwnAnswer, TypeOK
<1> QED BY <1>1, <1>2, HandInductive, HeadInLimits, PTL DEF Spec
=============================================================================

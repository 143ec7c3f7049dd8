-------------------------------- MODULE Walk --------------------------------
(***************************************************************************)
(* The walker thread (apps/system/myCub/lib/mycub_walk.cpp) on top of the  *)
(* joint controllers, and the commands of the shell task that start and    *)
(* stop it.                                                                *)
(*                                                                         *)
(* Every critical section on params_mutex is one step, so the mutex has no *)
(* variable.  walk_param.t and walk_param.running are never read.          *)
(***************************************************************************)
EXTENDS JointControl, Sequences

CONSTANTS Walker,                 \* the walker thread, a member of Drivers
          Directions,             \* the move commands the shell gives
          Top, Mid, Low, Bottom,  \* 160, 120, 40 and 8 on the robot
          Careful                 \* the shell starts and stops the controllers
                                  \* only between walks, and starts them first

ASSUME WalkAssumption ==
    /\ N = 4
    /\ Walker \in Drivers /\ Walker \in Syncers
    /\ Setters = {}  \* the shell sets no pose beside the walker
    /\ Directions \subseteq {"front", "back", "right", "left"}
    /\ {Top, Mid, Low, Bottom} \subseteq Asked \cap MinPos..MaxPos
    /\ Careful \in BOOLEAN

VARIABLES
    should_stop,  \* walk_param.should_stop
    roles,        \* walk_param.front, back, right and left
    quit,         \* the walker's copy of should_stop
    w,            \* the walker's next operation, 0 before it reads walk_param
    alive,        \* the walker thread exists
    n, done,      \* i and ret of the walker's checkMotionDone()
    shell         \* the command of the shell that waits for the walker to end

walkVars == <<should_stop, roles, quit, w, alive, n, done, shell>>
allVars  == <<vars, walkVars>>

\* LEFT_JOINT is 0, FRONT_JOINT 1, RIGHT_JOINT 2 and BACK_JOINT 3.
RolesOf(d) ==
    CASE d = "front" -> [front |-> 1, back |-> 3, right |-> 2, left |-> 0]
      [] d = "back"  -> [front |-> 3, back |-> 1, right |-> 2, left |-> 0]
      [] d = "right" -> [front |-> 2, back |-> 0, right |-> 1, left |-> 3]
      [] d = "left"  -> [front |-> 0, back |-> 2, right |-> 1, left |-> 3]

\* Operations of the walker; it may leave its loop after one that is marked out.
goto(r, p) == [op |-> "goto", role |-> r, pos |-> p, out |-> FALSE]
sync(r, p) == [op |-> "sync", role |-> r, pos |-> p, out |-> TRUE]
poll(b)    == [op |-> "poll", out |-> b]

\* Mutant: the last poll is left out.
WalkingNoPoll == << goto("front", Top), goto("back", Mid), goto("left", Mid),
                    goto("right", Mid), poll(FALSE),
                    [op |-> "read", out |-> FALSE],
                    sync("front", Bottom),
                    goto("left", Low), goto("right", Low), poll(TRUE),
                    sync("front", Top),
                    goto("left", Mid), goto("right", Mid) >>

\* The walker's operations in order; after the last it is back at "read", the
\* top of its loop.
Walking == << goto("front", Top), goto("back", Mid), goto("left", Mid),
              goto("right", Mid), poll(FALSE),
              [op |-> "read", out |-> FALSE],
              sync("front", Bottom),
              goto("left", Low), goto("right", Low), poll(TRUE),
              sync("front", Top),
              goto("left", Mid), goto("right", Mid), poll(TRUE) >>

LoopTop == 6
End     == Len(Walking) + 1

After(s) == IF Walking[s].out /\ quit THEN End
            ELSE IF s = Len(Walking) THEN LoopTop ELSE s + 1

WInit ==
    /\ Init
    /\ should_stop = FALSE
    /\ roles = RolesOf("front")
    /\ quit = FALSE
    /\ w = 0
    /\ alive = FALSE
    /\ n = 0
    /\ done = TRUE
    /\ shell = "none"

----------------------------------------------------------------------------
(* walker *)

Running == alive /\ pc[Walker] = "idle"

\* The first read of walk_param; the thread returns if it is to stop already.
Begin ==
    /\ Running /\ w = 0
    /\ quit' = should_stop
    /\ w' = IF should_stop THEN End ELSE 1
    /\ UNCHANGED <<vars, should_stop, roles, alive, n, done, shell>>

At(op) == Running /\ w \in DOMAIN Walking /\ Walking[w].op = op

\* Mutant: should_stop is not read again.
ReadRolesOnly ==
    /\ At("read")
    /\ w' = After(w)
    /\ UNCHANGED <<vars, should_stop, roles, quit, alive, n, done, shell>>

\* walk_param is read again at the top of the loop.
ReadParams ==
    /\ At("read")
    /\ quit' = should_stop
    /\ w' = After(w)
    /\ UNCHANGED <<vars, should_stop, roles, alive, n, done, shell>>

\* gotoPose or gotoPoseSync is called; it returns at once if it is refused.
Command ==
    /\ At("goto") \/ At("sync")
    /\ LET j == roles[Walking[w].role]
           p == Walking[w].pos IN
       \/ At("goto") /\ GotoPose(Walker, j, p)
       \/ At("sync") /\ GotoPoseSync(Walker, j, p)
       \/ ~Accepted(j, p) /\ UNCHANGED vars
    /\ w' = After(w)
    /\ UNCHANGED <<should_stop, roles, quit, alive, n, done, shell>>

\* Mutants: the answer is ignored; one joint too many is read.
PollOnce ==
    /\ At("poll")
    /\ Available(n)
    /\ IF n < N - 1
       THEN n' = n + 1 /\ UNCHANGED w
       ELSE n' = 0 /\ w' = After(w)
    /\ UNCHANGED <<vars, should_stop, roles, quit, alive, done, shell>>

PollFive ==
    /\ At("poll")
    /\ Available(n)
    /\ LET ret == done /\ status[n] # "GOPOS" IN
       IF n < N
       THEN n' = n + 1 /\ done' = ret /\ UNCHANGED w
       ELSE n' = 0 /\ done' = TRUE /\ w' = IF ret THEN After(w) ELSE w
    /\ UNCHANGED <<vars, should_stop, roles, quit, alive, shell>>

\* checkMotionDone() reads the status of one joint after another, each under its
\* mutex, and is called until none is GOPOS.
Poll ==
    /\ At("poll")
    /\ Available(n)
    /\ LET ret == done /\ status[n] # "GOPOS" IN
       IF n < N - 1
       THEN n' = n + 1 /\ done' = ret /\ UNCHANGED w
       ELSE n' = 0 /\ done' = TRUE /\ w' = IF ret THEN After(w) ELSE w
    /\ UNCHANGED <<vars, should_stop, roles, quit, alive, shell>>

Leave ==
    /\ Running /\ w = End
    /\ alive' = FALSE
    /\ w' = 0
    /\ UNCHANGED <<vars, should_stop, roles, quit, n, done, shell>>

WalkerStep == Begin \/ ReadParams \/ Command \/ Poll \/ Leave

----------------------------------------------------------------------------
(* The shell *)

ShellIdle == pc[Main] = "idle" /\ shell = "none"

\* moveFront, moveBack, moveRight and moveLeft begin with stop(), which sets
\* should_stop and joins the walker.
StopWalk(d) ==
    /\ ShellIdle
    /\ Careful => \A j \in Joints : mutex[j] # Unset
    /\ should_stop' = TRUE
    /\ shell' = d
    /\ UNCHANGED <<vars, roles, quit, w, alive, n, done>>

\* The walker has ended: stop() returns.
StopWalkReturn ==
    /\ shell = "stop"
    /\ ~alive
    /\ shell' = "none"
    /\ UNCHANGED <<vars, should_stop, roles, quit, w, alive, n, done>>

\* A move command goes on to write walk_param and to create the thread.
MoveReturn ==
    /\ shell \in Directions
    /\ ~alive
    /\ should_stop' = FALSE
    /\ roles' = RolesOf(shell)
    /\ alive' \in {TRUE} \cup IF Faults THEN {FALSE} ELSE {}
    /\ shell' = "none"
    /\ UNCHANGED <<vars, quit, w, n, done>>

\* startControl and stopControl.
Control ==
    /\ ShellIdle
    /\ Careful => ~alive
    /\ Start \/ Stop
    /\ UNCHANGED walkVars

----------------------------------------------------------------------------
JointStep(A) == A /\ UNCHANGED walkVars

WNext ==
    \/ WalkerStep
    \/ \E d \in Directions \cup {"stop"} : StopWalk(d)
    \/ StopWalkReturn \/ MoveReturn \/ Control
    \/ \E j \in Joints : JointStep(Controller(j))
    \/ JointStep(InCall(Walker))
    \/ JointStep(InMain)

WSpec == WInit /\ [][WNext]_allVars

\* As in JointControl, every thread that can run does; the shell finishes a
\* command it has begun and need not give another.
WFairSpec ==
    /\ WSpec
    /\ WF_allVars(WalkerStep)
    /\ WF_allVars(StopWalkReturn \/ MoveReturn)
    /\ \A j \in Joints : WF_allVars(JointStep(Controller(j)))
    /\ WF_allVars(JointStep(InCall(Walker)))
    /\ WF_allVars(JointStep(InMain))

----------------------------------------------------------------------------
(* Properties *)

\* The type invariant: the walker stays within its program and checkMotionDone
\* reads only the joints there are.
WTypeOK ==
    /\ TypeOK
    /\ should_stop \in BOOLEAN /\ quit \in BOOLEAN /\ alive \in BOOLEAN
    /\ roles \in {RolesOf(d) : d \in Directions \cup {"front"}}
    /\ w \in 0..End
    /\ n \in Joints /\ done \in BOOLEAN
    /\ shell \in Directions \cup {"stop", "none"}

\* The walker calls gotoPoseSync only on a joint whose controller waits for a
\* request: the polls before it leave no window in which the controller, back
\* from a motion, would overwrite GOPOS and leave the walker waiting for ever.
SyncFindsWaiting ==
    pc[Walker] \in {"sync", "syncSignal"} => ctl[arg[Walker].joint] = "wait"

\* When gotoPoseSync returns to the walker, its own motion is the one that has
\* ended: the joint is where it was asked to go, but for the last unit.
SyncReached ==
    pc[Walker] = "syncWoken" =>
        joints_pos[arg[Walker].joint] - arg[Walker].pos \in {-1, 0, 1}

\* stop and the move commands get the walker to end and return.
StopWalkReturns == shell # "none" ~> shell = "none"
=============================================================================

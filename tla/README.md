# TLA+ models of myCub

myCub is a small four-legged robot. A micro-controller board (LM4F120) drives
the four leg servos and reads the sensors; a Linux board on the robot runs YARP
modules for gaze, speech and vision and talks to the micro-controller over a
serial line. This directory holds TLA+ specifications of the program, the TLC
configurations that check them, and proofs that TLAPS checks.

## The parts of the system

Firmware, NuttX version (`firmware/apps/system/myCub`), one task and several
threads in one address space:

| part | code | talks to |
| --- | --- | --- |
| command shell | `myCub.cpp` | reads lines from the serial console, calls everything below |
| joint controllers | `lib/mycub_interface.cpp` | one thread per joint, driven through `ctrl_params[j]` |
| walker | `lib/mycub_walk.cpp` | a thread that calls `gotoPose`, `gotoPoseSync`, `checkMotionDone` |
| dancer | `dancer_body` in `myCub.cpp` | an `NxThread` that calls `gotoPose` twice a second |
| NxThread, NxEvent, NxMutex | `lib/nxobjects` | periodic threads |
| compass, range finder, ADC, servo | `lib/mycub_compass.cpp`, `nuttx/drivers`, `nuttx/configs/lm4f120-launchpad/src` | device drivers behind `open`, `read`, `ioctl` |

Firmware, Ada version (`firmware/ADA/controller`): a UART task that parses
commands, four position tasks fed by one-slot mailboxes, and periodic sensor
tasks that publish into protected objects.

Robot side (`main/`): `myCubInterface` (an RPC service that turns calls into
serial commands), `gazeControl` (an RPC service that moves the head),
`displayDriver` (a daemon that prints a FIFO on an LCD), `gSpeak`,
`lookAround`, `feelScared` (Lua scripts), detectors, and port monitors (Lua
scripts attached to connections that decide, by events with a lifetime, which
behaviour reaches the head, the arms and the voice).

Third-party and left alone: the NuttX kernel (except the primitives used
below), driverlib, funkos, libserial, servoBlaster, the LCD library, the GUIs.

`PROJECT.json` lists every part with its status, and the hazards of the code at
the line where they bite.

## Modules

| module | models | checked by |
| --- | --- | --- |
| `JointControl` | controllers and the calls of `MyCubInterface` (NuttX) | `MCJoint_*.cfg` |
| `Walk` | walker and the shell's walk commands, composed with `JointControl` | `MCWalk_steps.cfg` |
| `NxThread` | `NxThread` and `NxEvent` | `MCNx_*.cfg` |
| `AdaController` | mailboxes, position tasks and servo timers of the Ada firmware, and the host's scaling of positions | `MCAda_*.cfg` |
| `JointService` | abstract: what `gotoPose` promises | refined by `AdaController` |
| `UartMonitor` | interrupt handler, ring and `Get` of the Ada uart driver | within `SerialLink` |
| `CharQueue` | abstract: a bounded queue of characters | refined by `UartMonitor` |
| `SerialLink` | host calls, serial line and `UartTask`, on top of `UartMonitor` | `MCLink_calls.cfg` |
| `Gaze` | `gazeControl` | `MCGaze_calls.cfg` |
| `RangeDriver` | both halves of the range finder driver (NuttX) | `MCRange_reads.cfg` |
| `JointControlProofs`, `WalkProofs`, `NxProofs`, `AdaProofs`, `UartProofs`, `LinkProofs` (about `SerialLink`), `GazeProofs`, `RangeProofs` | theorems about the module they extend | tlapm |

The `MC` modules only declare model values and small constants. Operators marked
*Mutant* are versions of the definition that follows them with one plausible
mistake; they are used to confirm that each property can fail.

### JointControl

Every field of `ctrl_params[j]` that has an effect is a variable (`status`,
`targetPos`, `callback`, `mutex`), with `joints_pos`, the last position sent to
the servo, the controllers' locals `pos` (`dest`) and `i`, and a program counter
for each thread. `status` starts at 0, which is none of the four states and is
written `"ZERO"`. The actions follow the code in order:

* controller thread: `Wait`, `Wake`, `Switch`, `Load`, then `Move` and `Store`
  for each unit of the motion, `Finish` (the callback), `Exit`;
* callers: `SetPose`/`SetPoseStore`, `GotoPose`/`GotoPoseSet`,
  `GotoPoseSync`/`..Set`/`..Wait`/`..Return`, `GetPose`/`GetPoseRead` (also
  `checkMotionDone(joint)`); the early returns are the guard `Accepted`;
* `startController` and `stopController`: `Start`, `StartJoint`, `StartReturn`,
  `StopPoll`, `StopSignal`, `StopJoin`, `StopReturn`, and the error paths
  `StartFails` and `StartJointFails`, which go to `stopController` through `fini`.

A critical section that cannot block half way is one step: nobody can see the
fields it protects in between, except the two unprotected readers, `Switch` and
`Finish`, each of which reads one field that the section writes once. Only
`gotoPoseSync` takes a second mutex while holding the first, so only it is seen
holding one. `syncpos_mutex[j]` is never held between two steps.

The NuttX primitives are modelled from the kernel's code: a condition variable
is a semaphore; `pthread_cond_signal` posts it only when its count is negative;
`pthread_mutex_lock` on memory that was never initialised finds a count of 0 and
blocks (`Unset`); `pthread_cond_destroy` leaves a semaphore with waiters as it is
and sets any other count to 1.

Threads interleave freely. On the board the shell (after `startControl`) has the
highest FIFO priority, the controllers the next, the dancer a middle one and the
walker the default one; this removes some of the interleavings of the model and
adds none, so what holds here holds there. `sleep(1)` at the end of
`startController` is modelled by what it is for: the controllers, next in
priority and with nothing to wait for, have reached their first wait.

Durations, `usleep` and the divisor of `delayStep` have no variable: sleeping
takes any time.

### Walk

`Walking` is the walker's body as a sequence of operations, the first motion and
the cycle that starts at `LoopTop`; an operation marked `out` is followed by
`if(should_stop) break`. `checkMotionDone()` is one step per joint, since the four
reads are not one snapshot. The walker's copies of the joint roles need no
variable, since `walk_param` is written only while no walker exists. `StopWalk`,
`StopWalkReturn` and `MoveReturn` are `stop` and the move commands, whose first
act is `stop`. `Control` is `startControl` and `stopControl`. The steps of a call
in progress and of the controllers are those of `JointControl`. The shell of this
model gives walk and control commands only; `WalkAssumption` records that nobody
calls `setPose` beside the walker and that the four positions of the gait are
within the limits.

The constant `Careful` says that the operator starts the controllers before
walking and stops them only between walks. The code does not enforce it. With
`Careful = FALSE`, `StopWalkReturns` fails in two ways, both listed as hazards:
the walker blocks on a mutex that was never initialised, or polls a joint whose
controller has gone.

### NxThread

`Start`..`ResumeSet` are the owner's calls, `Begin`..`Run` the body of
`thread_func`. `NxEvent` keeps no flag, so `SetEvent` wakes a waiting thread or
does nothing. `start` reads `state` and writes the flags in two critical
sections that are one step here: a thread that is alive in between has the same
values of the flags before and after.

`Settles` says that a created thread has run its first step before the next
call. The shell reads a line between two commands, which lets the thread run;
nothing in the class ensures it. With `Settles = FALSE`, `stop` right after
`start` returns without stopping and the next `start` makes a second thread.
A `stop` has the same blind spot as `resume` when the thread is about to wait,
so `StopReturns` is stated for a thread that was not asked to suspend.

### AdaController and JointService

`mailbox[j]` is the protected object `Position_<j>`, `pose` is `Current_Poses`,
`servo` and `timer` are what the servo hardware was told last. `Get`, `Read`,
`Drive` and `Record` are the task of a joint: the entry, the copy of the current
pose, and the two halves of `SetPose` for each unit of the motion. The commands
`startControl`, `stopControl`, `setPose` and `gotoPose` are one step each: they
run in `UartTask`, which has the highest priority and blocks only for its next
line, so nothing of the same processor can see them half done, while they can
fall between any two steps of a controller. Positions are asked for in the units
of the host: `ToRaw`, `FromRaw` and `checkJointLimits` are the conversions of
`myCubInterface`, with the truncation of C. `last` and `stopped` record what was
asked and are read by properties only.

`JointService` says what a client may rely on: of the requests made during a
motion only the newest is kept, a joint travels one unit at a time, ends exactly
on the target it accepted, and only then accepts the next. `ServiceKept` is the
refinement, fairness included, for joints that are not driven with `setPose`:
the request is the mailbox, the goal is `target` while the task is not at its
entry, and the position is the recorded pose.

### UartMonitor, CharQueue and SerialLink

The uart is hardware and is modelled from how the driver uses it: a FIFO that
raises `INT_RX` at its trigger level and `INT_RT` when it holds something and the
line has been idle. `UartIntHandler`, `Receive` and `HandlerEnd` are the handler
and `Get` is the entry. `RingIsQueue` says that ring, indices and `Available`
together are a queue of `Size` characters.

`SerialLink` puts the host above it. A call (`Call`) takes `serMutex` and
`serBusy`, sends one line, or one per element of a list for the `All` calls, waits
for the answer or the timeout of each, and combines the results. Lines are
numbered when the call is made: `first`, `last` and `next` are those of a caller,
`sent` is the line sent last. A list has at least as many elements as there are
joints (`Batch`), and may have more, since the code only refuses shorter ones.

A line is its text, one character, and a line feed. The text is abstracted to what
the board makes of it (`Forms`): the command that was sent (`intact`), one for a
joint that does not exist (`unfit`, the fifth element of a list), another text of
one to four words (`damaged`), more than four words (`long`), or none (`blank`).
`Get_Line` collects texts until a line end; `is` is what it has, `texts` how many.
When line feeds are lost the texts run together (`Joined`), and once more than
`Room` of them have come together the 80 characters of `Data` may be full before
the line ends (`FillData`); `rest` is what is left for the next line. The board
stops at a line of more than four words (`ParseFails`; `Commands(5)` does not
exist), or executes the line and answers. An intact command may be carried out,
refused, or stop the board, since durations and sensor ids are sent unchecked; an
unfit one stops it; a damaged one may be refused, taken for another command, or
stop it.

`Disturb` damages a text, loses a line feed, loses or damages an answer, or turns a
character into a line end (CR or LF), which parts a command or an answer in two.
The ghosts `hurt` and `torn` record that a command was disturbed and that a line
ended where none was sent, by a new line end or by a full `Data`. A torn line has
two answers; nothing flushes the second, and the next call reads it as its own.
So `AnswersOwnCall`, `DeadBoardNoticed`, `RingKept` and the bound in `LTypeOK` are
stated until a line is torn, and `DoneIfTrue` until a command is disturbed: a
damaged command may be another valid one and be answered `[ok]`. `CallsReturn`
holds in every case.

Two constants name assumptions that the code does not enforce. `Slow` says
whether an answer may come after `readtimeoutmsec`; `Late` whether the interrupt
handler may be a character time late, in which case both interrupts can be
pending together and line 156 of `arm-uart.adb` skips the FIFO. With either of
them `AnswersOwnCall` fails: an answer is read by a later call. `CallsReturn`
holds all the same.

### Gaze

Clients of the port, the thread that stops the module, and the module thread meet
in `setCommand`, `getCommand`, `setReply` and `getReply`. Each of these is two
steps, around the event that its counterpart resets; `cmdSemaphore` and
`rpySemaphore` are held in between. A turn of the loop of `setAllJointsPose` is
`Turn`, the test of `shouldStop`, which takes no semaphore, and a `Write` for each
joint, either of which may fail; the other threads may act between them. So the
head may move once more for a command that has just been replaced, and
`OldMotionEnds` says that this is the last time (`drift` counts these moves). A
command is its effect: it moves (`joint`, `cam`, `cart`), only answers, or exits.
The angles that `cam` and `cart` compute are any angles. `StopModule` and `Check`
stand for YARP's `RFModule`. The `cmdPort.close()` in `close` is taken to return:
whether it waits for a client that is still in its call is up to YARP, which is
not in the repository.

Calls that overlap, or meet a stop, are in the model, but `OwnAnswer`,
`CallsReturn` and `LastReached` do not speak about them (`clash`): `setReply`
resets `cmdEvent`, which can lose the command of a second client, and then both
`OwnAnswer` and `CallsReturn` fail. The applications connect up to three sources
to this port.

### RangeDriver

`Open` and `Close` count files in a counter of `Refs` values, `Attach` and `Detach`
are the `ioctl`s. A read triggers one enabled sensor after the other and sleeps
for each trigger pulse, during which every other call may run, since `read` does
not take `exclsem`; then it is in `pulse_in` with the interrupts off. `Sample` is one
look at the echo line, which shows any level, and at the timer, which has
advanced by 1 to `Slack` ticks modulo `Wrap`, or not at all if it is off. `t2` is
read although nothing was stored in it when the echo was over at the first look
(`Short`); its value is then any. The error return of `range_close` when its
`sem_wait` is interrupted is left out: no signal is sent to these tasks.

`drivers/servo.c` and `drivers/analog/adc_lm4f.c` count their files by the same code.

## Runs

| run | instance | shows |
| --- | --- | --- |
| `lifecycle` | 2 joints, 2 callers, limits 8..9, requests 7, 9 and 10, setPose, faults | `TypeOK`, `InRange`, `NoControllerAfterClose`, `NoLostWakeup` |
| `motion` | 2 joints, the shell alone, limits 8..10, fairness | `RestsNearTarget`, `Smooth`, `StopReturns`, `MotionEnds` |
| `walk` | 4 joints, 1 direction, limits 8..11, fairness | `WTypeOK`, `SyncFindsWaiting`, `SyncReached`, `StopWalkReturns` |
| `nx_calls` | 2 threads, fairness | `TypeOK`, `OneThread`, `QuietWhenStopped`, `StopReturns`, `SuspendTakesEffect` |
| `ada_motion` | 2 joints, one with setPose, requests 0, 1 and 77 (refused), fairness | `TypeOK`, `RestsOnRequest`, `Smooth`, `ServiceKept`, `LastRequestReached` |
| `link` | 2 callers, one with lists, 3 lines, 1 disturbance, ring of 2, FIFO of 4, fairness | `LTypeOK`, `AnswersOwnCall`, `DoneIfTrue`, `DeadBoardNoticed`, `RingKept`, `CallsReturn` |
| `gaze` | 2 clients, 2 commands, 1 stop, failing writes, fairness | `TypeOK`, `OwnAnswer`, `ClosedAtRest`, `OldMotionEnds`, `CallsReturn`, `StopCloses`, `LastReached` |
| `range` | 3 files, 2 sensors, counter of 3 values, timer of 7, fairness | `TypeOK`, `CountExact`, `Measured`, `PulseInReturns` |
| `stop_race`, `sync`, `nx_event`, `ada_stop` | smallest instance | a comment and the code disagree |

The last four fail, and TLC's trace is the finding recorded in `PROJECT.json`:

* `stop_race`: `gotoPose` from another thread replaces `STOPPING` before
  `stopController` reads it, and the poll never ends;
* `sync`: a `gotoPoseSync` between the end of a motion and the controller's next
  wait is overwritten by `WAITING` and never gets its callback;
* `nx_event`: a `resume` between `SUSPENDED` and the wait is lost;
* `ada_stop`: after `stopControl` the next step of a motion enables the timer of its
  servo again.

More facts are visible in the models. On NuttX a motion ends one unit short of
its target, because the loops stop before `pos`; hence "within one unit" in
`RestsNearTarget` and `SyncReached`; the Ada controllers end exactly on it. A caller
left waiting by `sync` is still there when a later `stopController` destroys its
condition variable. The host's comments promise positions 0..90, but its check
refuses 77..90 and accepts -3..-1.

The walker is not exposed to `sync`: its polls before each `gotoPoseSync` leave
every controller waiting, which is what `SyncFindsWaiting` says and
`SyncCallsFindWaiting` proves.

### Bounds

NuttX joints share nothing but the callers and the loops of start and stop, so
two joints suffice. Two callers give every race on one joint; each is in one
call at a time. Limits a few units apart give motions up and down, of length
zero and of several units; 7 and 10 lie outside the limits of `lifecycle`. The
walker needs the four joints of its gait, and limits 8..11 so that a motion that
was not carried out is further than one unit away from its target; the four
directions differ only in the names of the joints. Two threads are enough for a
second `NxThread` to exist beside the first.

In `ada_motion` 0 and 1 are raw positions 8 and 10, the boot position is 8, and 77
is refused by the check. In `link` a ring of two characters is full and wraps with
every line; three lines are one call of each kind, a list of one element too many,
or a retry after a disturbance (`MaxLines`, `MaxLost`); one lost line feed is enough
to fill `Data` (`Room = 1`; three texts are sure to fit on the robot). A torn line may
overrun so small a ring, which adds losses that the ring of 128 would not have.
In `gaze` two commands (`MaxCalls`) and a stop (`MaxStops`) give
every overlap of two callers with the module; the requests lie outside the
limits on both sides. In `range` a counter of three values is at its limit with two
files, and a timer of seven values wraps within the longest wait.

Runs that allow the system to stop say `CHECK_DEADLOCK FALSE`: the shell or the
clients may give no further command, the bounds end the calls, or a task joins a
thread that never ends.

### Fairness

Weak fairness for each controller, each call in progress and each walker or
`NxThread` thread: every thread sleeps or blocks in each turn of its loop, so no
thread keeps a lower one from running for ever. The same holds of the Ada tasks.
On the link, the line delivers, the board handles its interrupts, and a caller
goes on or times out. In `Gaze` every thread that can run does, as on Linux. With
the interrupts off nothing takes the processor from `pulse_in`. Nothing obliges
anyone to make a new call. `StopReturns` of `JointControl` is checked for the shell
alone (with another caller it fails, see `stop_race`) and for controllers that
have been started once.

## Proofs

For every value of the constants that the named assumptions of the modules
allow (any number of joints, callers, clients, files; any limits and requests):

| module | theorem | statement |
| --- | --- | --- |
| `JointControlProofs` | `TypeCorrect` | `Spec => []TypeOK` |
| | `ClosedAfterControllers` | `Spec => []NoControllerAfterClose` |
| | `NoRequestMissed` | `Spec => []NoLostWakeup` |
| | `PositionsInRange` | `Spec => []InRange` |
| | `MotionIsSmooth` | `Setters = {} => (Spec => Smooth)` |
| | `RestIsNearTarget` | `Setters = {} => (Spec => []RestsNearTarget)` |
| `WalkProofs` | `WalkTypeCorrect` | `WSpec => []WTypeOK` |
| | `SyncCallsFindWaiting` | `Careful => (WSpec => []SyncFindsWaiting)` |
| | `SyncCallsReach` | `Careful => (WSpec => []SyncReached)` |
| | `WalkIsSmooth` | `WSpec => Smooth /\ []InRange` |
| `NxProofs` | `ThreadTypeCorrect` | `Spec => []TypeOK` |
| | `NeverTwoThreads` | with `Settles`, `Spec => []OneThread` |
| | `StoppedIsQuiet` | with `Settles`, `Spec => []QuietWhenStopped` |
| `AdaProofs` | `UnitsRoundTrip` | `FromRaw(ToRaw(p)) = p` for natural `p` |
| | `PositionsInRange` | `Spec => []TypeOK` |
| | `JointsRestOnRequest` | `Spec => []RestsOnRequest` |
| | `JointsMoveSmoothly` | `Spec => Smooth` |
| | `ServiceImplemented` | `Spec => Service!Spec` |
| `UartProofs` | `RingImplementsQueue` | `USpec => RingIsQueue` |
| `LinkProofs` | `LinkTypeCorrect` | `Timely => (LSpec => [](torn \/ LTypeOK))` |
| | `AnswersMeetTheirCall` | `Timely => (LSpec => []AnswersOwnCall)` |
| | `TrueMeansDone` | `Timely => (LSpec => []DoneIfTrue)` |
| | `DeadBoardsAreNoticed` | `Timely => (LSpec => []DeadBoardNoticed)` |
| | `LineNeverOverruns` | `Timely => (LSpec => RingKept)` |
| `GazeProofs` | `HeadInLimits` | `Spec => []TypeOK` |
| | `NewCommandsEndMotions` | `Spec => []OldMotionEnds` |
| | `CloseEndsAtRest` | `Spec => []ClosedAtRest` |
| | `CallsGetOwnAnswer` | `Spec => []OwnAnswer` |
| `RangeProofs` | `FilesCounted` | `Spec => []CountExact` |
| | `EchoMeasured` | without `Short`, `Spec => []Measured` |
| | `RangeTypeCorrect` | without `Short`, `Spec => []TypeOK` |

Some theorems have a hypothesis about the surroundings of the code. `Setters = {}`:
nobody calls `setPose`. `Settles`: a new thread runs before the next call.
`Careful`: the controllers are started and stopped only between walks. `Timely`:
answers are not `Slow`, the handler is not `Late`, and the FIFO holds at least the
two characters of a command in the model. `Short = FALSE`: no echo is over at the
first look. The sections above say what goes wrong without them.

The invariants are not inductive as they stand. In `JointControlProofs`:

* `Typed` adds to `TypeOK` that `k` is a joint while `stopController` handles
  one, without which the increment of `k` could leave `0..N`;
* `Lifecycle` adds to `NoControllerAfterClose` how far start and stop have come:
  the threads below `k` are gone during a stop, those from `k` on do not exist
  yet during a start. This is what makes the `close` at the end of a stop safe,
  and a restart too;
* `NoLostWakeup` needs `Lifecycle`, since re-initialising a mutex under a
  waiting controller would break it;
* `Bounded` adds to `InRange` that the positions of pending calls and of
  `targetPos` are within the limits, and that between `Move` and `Store` the loop
  variable is not at the target, so that one more step stays in range;
* `Tracks` says where the recorded position, the servo and the loop variable are
  relative to each other in each phase of a motion. It gives both motion
  theorems. It is false with `setPose`, which moves the servo and writes
  `joints_pos` in two unprotected steps; hence the hypothesis `Setters = {}`.

Each is proved action by action. Steps that cannot disturb an invariant are
grouped by what they leave alone (`Elsewhere` for the life of the threads,
`Aside` for the motions).

In the other modules:

* `WalkProofs`: every step of `Walk` is one of `JointControl` or leaves its variables
  alone (`StepMaps`), so the theorems about the controllers hold of a walk as they
  stand. `Local` bounds the walker's own variables. `WInv` is what its
  `gotoPoseSync` rests on. `Callings`: only the walker is in a call, and the shell
  neither starts nor stops the controllers meanwhile. `Serves`: a controller that
  has no motion to carry out is in its wait, and its mutex and semaphore are free
  unless the walker holds or waits for them. `Progress`: what the polls have seen
  stays true until the next request, although the four reads are not one
  snapshot, since only the walker makes requests. `Motion`: from the request to
  the callback the controller works on that request and no other;
* `NxProofs`: `IInv` adds to the type and to `OneThread` that under `STOPPED` any live
  thread is still new, and that none exists while `start` is about to create one.
  `Settles` is needed: without it `stop` may not see the new thread;
* `AdaProofs`: the invariant relates `pose`, `servo`, `i` and `target` at each place of a
  task, and `last` to whichever of mailbox and target holds the newest request.
  The refinement follows step by step: `Get` is `Accept`, a `Record` is a `Move` or,
  for the first unit of a motion, nothing, and a `Read` that finds the joint on its
  target is a `Move` of no distance;
* `UartProofs`: `UInv` says that the indices are slots, equal when nothing is unread,
  and that ring and FIFO together hold at most `Size` characters. `Content` is the
  queue the ring stands for; `Receive` appends to it and `Get` removes its head, the
  case of a full ring included;
* `LinkProofs`: `LInv` follows one exchange over all the places a character can be in.
  `Pipe` is the sequence of characters between the host and `Get_Line`: ring, FIFO
  and wire together. `Exchange` says that `Pipe` holds at most what is left of the
  line sent last, that a complete line or its answer is all there is on the way,
  and that nothing is on the way when nobody waits for an answer. The last part
  holds because a caller times out only on a line that is silent, the characters
  in the FIFO included; `Hardware` says that those are never forgotten. `Calls` is
  mutual exclusion and the order of the lines of a call; `Undisturbed` and
  `Carried` follow a command to its answer and the answers to the result. `LInv`
  is inductive for the steps that leave the line whole; as a torn line stays torn
  (`TornStays`), `torn \/ LInv` is an invariant. `LineNeverOverruns` shows the other
  half of `RingImplementsQueue`: that theorem is about a sender that never sends
  more than there is room for, and the host is one, without looking, because it
  waits for each answer. A text counts as one character here; on the robot a line
  has at most 64 (`cmd`) and the ring 128;
* `GazeProofs`: `FreshInv` says that, from the copy of a command to the end of its
  motion, `command` is still that one or `shouldStop` is set; `DriftInv` adds that a
  joint has made its move for a replaced command at most once, and only in the
  turn that had begun. `RestInv` follows
  `close`. `HandInv` describes a hand-over that nobody disturbs, from the caller's
  `setCommand` to its `getReply`, and says that both events are clear in between;
* `RangeProofs`: `CountInv` adds that no more than `Refs - 1` files are open. `TimerInv`
  says that each reading is the earlier one plus the elapsed ticks modulo `Wrap`,
  and that those stay below `Wrap` until the loop gives up, so that the difference
  of two readings is exact. `PlaceInv` is the rest of the type invariant.

Every invariant and every action property that a passing run checks is also
proved, `LTypeOK` until a line is torn. Only model-checked are the liveness
properties, since the prover handles neither fairness nor `ENABLED`: `StopReturns`
and `MotionEnds` of `JointControl`, `StopWalkReturns`, `StopReturns` and
`SuspendTakesEffect` of `NxThread`, the fairness in `ServiceKept`,
`LastRequestReached`, `CallsReturn` of `SerialLink` and of `Gaze`, `StopCloses`,
`LastReached` and `PulseInReturns`. The four runs that fail are about particular
behaviours and have nothing to prove.

## Not modelled

The repository contains 1.4 million lines, nearly all of them third-party code
kept in the tree: the NuttX kernel and its applications, the TI driver library,
the Ada run-time, YARP clients, image and font data. The robot's own code is some
thousands of lines, and the map of `PROJECT.json` covers a small share of the
whole for that reason. Of the robot's own code these parts are left out:

* `MyCubInterface::init`, the sensor readings, compass and gaze kinematics:
  register reads and floating-point arithmetic without state that outlives a call;
* texts: the command lines, replies and number parsing of the shell, the Ada board
  interface and the host; they appear as calls, answers and forms of lines;
* the composition of dancer, walker and exit path in one shell: their parts are
  modelled, and the race it would show is that of `stop_race`;
* the servo and ADC drivers beyond their open counts, and I2C: register I/O;
* thread ids: `pthread_cancel` after `pthread_join` acts on an id that names
  nobody until the kernel's counter wraps;
* the display daemon: one sequential loop that lays out text;
* port monitors and Lua behaviours: guards of a line or two around YARP's port
  monitor library, which is not in the repository and keeps the events;
* detectors, speech, GUIs, generated and third-party code.

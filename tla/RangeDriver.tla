----------------------------- MODULE RangeDriver -----------------------------
(***************************************************************************)
(* The range finder: the upper half of its driver                          *)
(* (drivers/sensors/range_srf04.c, which counts the open files) and its    *)
(* lower half (configs/lm4f120-launchpad/src/up_range_srf04.c, which       *)
(* triggers the sensors and times the echo).  drivers/servo.c and          *)
(* drivers/analog/adc_lm4f.c count their open files by the same code.      *)
(*                                                                         *)
(* open, close and ioctl run under exclsem and are one step each.  read    *)
(* does not take it: it locks the scheduler, but gives the processor away  *)
(* in usleep, between finding a sensor enabled and timing its echo.  The   *)
(* echo is timed with the interrupts off, when nothing else runs.          *)
(***************************************************************************)
EXTENDS Integers, FiniteSets

CONSTANTS Files,    \* open file structures; each is used by one task
          Sensors,  \* 0..RANGE_MAX_COUNT-1
          Refs,     \* values of crefs (2^8 on the board)
          Wrap,     \* values of the timer (2^32 on the board)
          Limit,    \* ticks until pulse_in gives up (50000000 on the board)
          Slack,    \* ticks a turn of its loops takes at most
          Short,    \* whether an echo may be over before it is seen twice
          Nobody

ASSUME RangeAssumption ==
    /\ IsFiniteSet(Files) /\ Nobody \notin Files
    /\ Sensors \subseteq Nat
    /\ Refs \in Nat \ {0, 1} /\ Limit \in Nat /\ Slack \in Nat \ {0}
    /\ Wrap \in Nat /\ Limit + 2 * Slack < Wrap
    /\ Short \in BOOLEAN

Ticks == 0..(Wrap - 1)

\* More ticks than any wait can take.
Many == Limit + 2 * Slack + 1

VARIABLES
    crefs,     \* upper->crefs
    open,      \* the open files
    attached,  \* the sensors in RANGE_STATE_ENABLED
    timerOn,   \* TIMER5 is enabled
    pc, at,    \* what each file's task does and the sensor it is at
    timing,    \* the file whose read is in pulse_in, with the interrupts off
    phase,     \* the loop of pulse_in: 1, 2 or 3
    timer,     \* TimerValueGet
    t, t2,     \* of pulse_in
    assigned,  \* t2 has a value
    width,     \* what pulse_in returned last, in ticks
    since,     \* ghost: ticks since t was read, at most Many
    turn,      \* ghost: flips at every turn of a loop, which makes it a step
    lastHigh   \* ghost: ticks from t to the last sample of the pulse

driver == <<crefs, open, attached, timerOn>>
pulse  == <<timing, phase, timer, t, t2, assigned, width, since, turn, lastHigh>>
vars   == <<driver, pc, at, pulse>>

Init ==
    /\ crefs = 0 /\ open = {} /\ attached = {} /\ timerOn = FALSE
    /\ pc = [f \in Files |-> "idle"] /\ at = [f \in Files |-> 0]
    /\ timing = Nobody /\ phase = 1
    /\ timer = 0 /\ t = 0 /\ t2 = 0 /\ assigned = FALSE
    /\ width = 0 /\ since = 0 /\ turn = 0 /\ lastHigh = 0

Free(f) == timing = Nobody /\ pc[f] = "idle"

\* Mutant: no refusal when the count is back at zero.
OpenAnyway(f) ==
    /\ Free(f) /\ f \notin open
    /\ LET tmp == (crefs + 1) % Refs IN
       /\ crefs' = tmp
       /\ IF tmp = 1 THEN attached' = {} /\ timerOn' = TRUE
                     ELSE UNCHANGED <<attached, timerOn>>
    /\ open' = open \cup {f}
    /\ UNCHANGED <<pc, at, pulse>>

\* range_open, with range_setup for the first file.  It fails with EMFILE, and
\* changes nothing, when the uint8_t count would come back to zero.
Open(f) ==
    /\ Free(f) /\ f \notin open
    /\ LET tmp == (crefs + 1) % Refs IN
       /\ tmp # 0
       /\ crefs' = tmp
       /\ IF tmp = 1 THEN attached' = {} /\ timerOn' = TRUE
                     ELSE UNCHANGED <<attached, timerOn>>
    /\ open' = open \cup {f}
    /\ UNCHANGED <<pc, at, pulse>>

\* Mutant: off by one, the last file but one shuts the device down.
CloseEarly(f) ==
    /\ Free(f) /\ f \in open
    /\ open' = open \ {f}
    /\ crefs' = crefs - 1
    /\ IF crefs > 2 THEN UNCHANGED timerOn ELSE timerOn' = FALSE
    /\ UNCHANGED <<attached, pc, at, pulse>>

\* range_close, with range_shutdown for the last file.
Close(f) ==
    /\ Free(f) /\ f \in open
    /\ open' = open \ {f}
    /\ IF crefs > 1 THEN crefs' = crefs - 1 /\ UNCHANGED timerOn
                    ELSE crefs' = 0 /\ timerOn' = FALSE
    /\ UNCHANGED <<attached, pc, at, pulse>>

\* range_ioctl: RANGEIOC_ATTACHE and RANGEIOC_DETACH; a sensor that does not
\* exist is refused.
Attach(f, s) ==
    /\ Free(f) /\ f \in open /\ s \in Sensors
    /\ attached' = attached \cup {s}
    /\ UNCHANGED <<crefs, open, timerOn, pc, at, pulse>>

Detach(f, s) ==
    /\ Free(f) /\ f \in open /\ s \in Sensors
    /\ attached' = attached \ {s}
    /\ UNCHANGED <<crefs, open, timerOn, pc, at, pulse>>

\* The loop of range_read goes on from sensor k: it triggers the next sensor
\* that is enabled and sleeps, or returns.
Scan(f, k) ==
    \/ \E s \in attached :
          /\ s >= k /\ \A r \in attached : r < k \/ s <= r
          /\ pc' = [pc EXCEPT ![f] = "sleep"]
          /\ at' = [at EXCEPT ![f] = s]
    \/ /\ \A r \in attached : r < k
       /\ pc' = [pc EXCEPT ![f] = "idle"]
       /\ at' = [at EXCEPT ![f] = 0]

\* range_read begins.
Read(f) ==
    /\ Free(f) /\ f \in open
    /\ attached # {}
    /\ Scan(f, 0)
    /\ UNCHANGED <<driver, pulse>>

\* The trigger pulse is over: pulse_in, interrupts off.
Wake(f) ==
    /\ timing = Nobody /\ pc[f] = "sleep"
    /\ timing' = f /\ phase' = 1
    /\ t' = timer /\ since' = 0 /\ turn' = 0
    /\ assigned' = FALSE /\ lastHigh' = 0
    /\ pc' = [pc EXCEPT ![f] = "pulse"]
    /\ UNCHANGED <<driver, at, timer, t2, width>>

\* Mutant: the difference of two readings, without the width of the register.
Apart(a, b) == IF a >= b THEN a - b ELSE b - a

\* The difference of two unsigned readings of the timer.
Minus(a, b) == (a - b) % Wrap

\* pulse_in returns w and range_read goes on with the next sensor.
Return(w) ==
    /\ width' = w
    /\ timing' = Nobody
    /\ Scan(timing, at[timing] + 1)

\* Mutant: the limit is off by one.
GiveUpAfter(now) == Minus(now, t) > Limit + 1

\* The limit of every loop.
GiveUp(now) == Minus(now, t) > Limit

\* A turn of a loop that goes on: the level of the line keeps it going.
Wait(now) ==
    /\ IF phase = 3 THEN t2' = now /\ assigned' = TRUE /\ lastHigh' = since'
                    ELSE UNCHANGED <<t2, assigned, lastHigh>>
    /\ \/ GiveUp(now) /\ Return(0)
       \/ ~GiveUp(now) /\ UNCHANGED <<pc, at, timing, width>>
    /\ UNCHANGED <<phase, t>>

\* The level has changed: on to the next loop.  t2 is read although nothing has
\* been stored in it when the pulse was over at the first look.
Change(now) ==
    /\ \/ phase = 1 /\ phase' = 2 /\ t' = now /\ UNCHANGED <<pc, at, timing, width>>
       \/ phase = 2 /\ phase' = 3 /\ UNCHANGED <<t, pc, at, timing, width>>
       \/ /\ phase = 3 /\ UNCHANGED <<phase, t>>
          /\ assigned \/ Short
          /\ \E v \in Ticks : (assigned => v = t2) /\ Return(Minus(v, t))
    /\ UNCHANGED <<t2, assigned, lastHigh>>

\* One look at the echo line, which shows any level, and at the timer.
Sample ==
    /\ timing # Nobody
    /\ turn' = 1 - turn
    /\ \E d \in IF timerOn THEN 1..Slack ELSE {0} :
          LET now   == (timer + d) % Wrap
              later == IF since + d < Many THEN since + d ELSE Many IN
          /\ timer' = now
          /\ \/ since' = later /\ Wait(now)
             \/ since' = (IF phase = 1 THEN 0 ELSE later) /\ Change(now)
    /\ UNCHANGED driver

Next ==
    \/ \E f \in Files : \/ Open(f) \/ Close(f) \/ Read(f) \/ Wake(f)
                        \/ \E s \in Sensors : Attach(f, s) \/ Detach(f, s)
    \/ Sample

Spec == Init /\ [][Next]_vars

\* With the interrupts off nothing takes the processor from pulse_in.
FairSpec == Spec /\ WF_vars(Sample)

-----------------------------------------------------------------------------
\* The type invariant: pulse_in never returns more than its limit.
TypeOK ==
    /\ crefs \in 0..(Refs - 1) /\ open \subseteq Files /\ attached \subseteq Sensors
    /\ timerOn \in BOOLEAN
    /\ pc \in [Files -> {"idle", "sleep", "pulse"}] /\ at \in [Files -> Sensors \cup {0}]
    /\ timing \in Files \cup {Nobody} /\ phase \in 1..3
    /\ timer \in Ticks /\ t \in Ticks /\ t2 \in Ticks /\ assigned \in BOOLEAN
    /\ width \in 0..Limit
    /\ since \in 0..Many /\ turn \in 0..1 /\ lastHigh \in 0..Many

\* The driver counts its files exactly, up to and at the limit of its counter,
\* and the timer that every read depends on runs as long as a file is open.
CountExact == crefs = Cardinality(open) /\ timerOn = (open # {})

\* What pulse_in returns, unless it gives up, is the number of ticks from the
\* start of its wait to its last look at the pulse, wherever the timer wrapped
\* around in between.
Measured == timing = Nobody => width \in {0, lastHigh}

\* pulse_in, which runs with the interrupts off, returns whatever the echo line
\* does: its loops give up in time, and no close can stop the timer they watch.
PulseInReturns == timing # Nobody ~> timing = Nobody
=============================================================================

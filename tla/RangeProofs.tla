----------------------------- MODULE RangeProofs -----------------------------
(***************************************************************************)
(* The range finder's driver counts its files exactly, whatever the width  *)
(* of its counter, and pulse_in measures the echo although the timer wraps *)
(* around, whatever the width of the timer, as long as no echo is over     *)
(* before it has been seen (Short).                                        *)
(***************************************************************************)
EXTENDS RangeDriver, FiniteSetTheorems, TLAPS

-----------------------------------------------------------------------------
(* The count of open files *)

CountInv ==
    /\ open \subseteq Files /\ IsFiniteSet(open)
    /\ crefs = Cardinality(open) /\ crefs \in Nat /\ crefs < Refs
    /\ open = {} => timerOn = FALSE
    /\ open # {} => timerOn = TRUE

LEMMA CountInductive == CountInv /\ [Next]_vars => CountInv'
<1> SUFFICES ASSUME CountInv, [Next]_vars PROVE CountInv'
  OBVIOUS
<1> USE DEF CountInv
<1>0. crefs = 0 <=> open = {}
  BY FS_EmptySet
<1>1. ASSUME NEW f \in Files, Open(f) PROVE CountInv'
  <2>1. f \notin open /\ open' = open \cup {f}
    BY <1>1 DEF Open
  <2>2. IsFiniteSet(open') /\ Cardinality(open') = crefs + 1
    BY <2>1, FS_AddElement
  <2>3. crefs' = (crefs + 1) % Refs /\ crefs' # 0
    BY <1>1 DEF Open
  <2>4. crefs + 1 < Refs
    BY <2>3, RangeAssumption
  <2>5. crefs' = crefs + 1
    BY <2>3, <2>4, RangeAssumption
  <2>6. timerOn' = TRUE
    <3>1. CASE crefs' = 1
      BY <1>1, <2>3, <3>1 DEF Open
    <3>2. CASE crefs' # 1
      BY <1>0, <1>1, <2>3, <2>5, <3>2 DEF Open
    <3> QED BY <3>1, <3>2, Zenon
  <2> QED BY <2>1, <2>2, <2>4, <2>5, <2>6
<1>2. ASSUME NEW f \in Files, Close(f) PROVE CountInv'
  <2>1. f \in open /\ open' = open \ {f}
    BY <1>2 DEF Close
  <2>2. IsFiniteSet(open') /\ Cardinality(open') = crefs - 1
    BY <2>1, FS_RemoveElement
  <2>3. crefs > 0
    BY <1>0, <2>1
  <2>4. crefs' = crefs - 1
    BY <1>2, <2>3 DEF Close
  <2>5. open' = {} <=> crefs = 1
    BY <2>2, FS_EmptySet
  <2>6. (open' = {} => timerOn' = FALSE) /\ (open' # {} => timerOn' = TRUE)
    <3>1. CASE crefs > 1
      BY <1>2, <2>1, <2>3, <2>5, <3>1 DEF Close
    <3>2. CASE crefs = 1
      BY <1>2, <2>5, <3>2 DEF Close
    <3>3. crefs > 1 \/ crefs = 1
      BY <2>3
    <3> QED BY <3>1, <3>2, <3>3, Zenon
  <2>7. crefs' = Cardinality(open') /\ crefs' \in Nat /\ crefs' < Refs
    BY <2>2, <2>3, <2>4, RangeAssumption
  <2>8. open' \subseteq Files /\ IsFiniteSet(open')
    BY <2>1, <2>2
  <2> QED BY <2>6, <2>7, <2>8, Zenon
<1>3. ASSUME NEW f, NEW s, Read(f) \/ Wake(f) \/ Attach(f, s) \/ Detach(f, s)
      PROVE  CountInv'
  BY <1>3 DEF Read, Wake, Attach, Detach, driver
<1>4. CASE Sample \/ UNCHANGED vars
  BY <1>4 DEF Sample, vars, driver
<1> HIDE DEF CountInv
<1> QED BY <1>1, <1>2, <1>3, <1>4 DEF Next

\* However many files there are and however often they are opened and closed,
\* crefs is the number of open files, up to the limit of its type, and the
\* timer runs exactly as long as there is one.
THEOREM FilesCounted == Spec => []CountExact
<1>1. Init => CountInv
  BY FS_EmptySet, RangeAssumption DEF Init, CountInv
<1>2. CountInv => CountExact
  BY Zenon DEF CountInv, CountExact
<1> QED BY <1>1, <1>2, CountInductive, PTL DEF Spec

-----------------------------------------------------------------------------
(* The timer *)

\* The timer d ticks after it shows x.
After(x, d) == (x + d) % Wrap

LEMMA TimerTurns ==
    ASSUME NEW x \in Ticks, NEW d \in 0..(Wrap - 1)
    PROVE  /\ After(x, d) \in Ticks
           /\ After(x, d) = IF x + d < Wrap THEN x + d ELSE x + d - Wrap
  BY RangeAssumption DEF Ticks, After

LEMMA TimerDifference ==
    ASSUME NEW x \in Ticks, NEW y \in Ticks
    PROVE  Minus(x, y) = IF x >= y THEN x - y ELSE x - y + Wrap
  BY RangeAssumption DEF Ticks, Minus

LEMMA NoTick ==
    ASSUME NEW x \in Ticks
    PROVE  After(x, 0) = x
  BY TimerTurns, RangeAssumption DEF Ticks

\* While pulse_in runs, the timer shows the ticks since t, too few for it to come
\* round to t again: each turn tests the limit, but for the one that sees the
\* pulse begin, and so the next test comes at most two turns after the last.
Bounds ==
    /\ timer \in Ticks /\ t \in Ticks /\ t2 \in Ticks /\ phase \in 1..3
    /\ since \in Nat /\ since <= Many
    /\ lastHigh \in Nat /\ lastHigh <= Limit + 2 * Slack
    /\ width \in Nat /\ width <= Limit
Running ==
    /\ timer = After(t, since)
    /\ since <= Limit + Slack
    /\ phase # 3 => since <= Limit /\ assigned = FALSE
    /\ assigned # FALSE =>
         since <= Limit /\ lastHigh <= Limit /\ t2 = After(t, lastHigh)
TimerInv ==
    /\ Bounds
    /\ timing # Nobody => Running
    /\ timing = Nobody => width \in {0, lastHigh}

\* The test of a loop, d ticks after the turn before.
LEMMA GiveUpExact ==
    ASSUME NEW x \in Ticks, NEW n \in Nat, n <= Limit + Slack,
           NEW d \in 0..Slack, NEW y, y = After(After(x, n), d)
    PROVE  /\ y \in Ticks
           /\ y = After(x, n + d)
           /\ Minus(y, x) = n + d
<1>1. n \in 0..(Wrap - 1) /\ d \in 0..(Wrap - 1) /\ n + d \in 0..(Wrap - 1)
  BY RangeAssumption
<1>2. PICK z \in Ticks : z = After(x, n)
  BY <1>1, TimerTurns
<1>3. z = IF x + n < Wrap THEN x + n ELSE x + n - Wrap
  BY <1>1, <1>2, TimerTurns
<1>4. y \in Ticks /\ y = IF z + d < Wrap THEN z + d ELSE z + d - Wrap
  BY <1>1, <1>2, TimerTurns
<1>5. After(x, n + d) = IF x + (n + d) < Wrap THEN x + (n + d) ELSE x + (n + d) - Wrap
  BY <1>1, TimerTurns
<1>6. Minus(y, x) = IF y >= x THEN y - x ELSE y - x + Wrap
  BY <1>4, TimerDifference
<1>7. x \in Int /\ 0 <= x /\ x < Wrap /\ Wrap \in Nat /\ n \in Nat /\ d \in Nat /\ n + d < Wrap
  BY <1>1, RangeAssumption DEF Ticks
<1>8. y = After(x, n + d)
  BY <1>3, <1>4, <1>5, <1>7
<1>9. Minus(y, x) = n + d
  BY <1>3, <1>4, <1>6, <1>7
<1> QED BY <1>4, <1>8, <1>9

LEMMA SampleStep ==
    ASSUME Short = FALSE, TimerInv, Sample
    PROVE  TimerInv'
<1>1. PICK d \in 0..Slack :
        /\ timer' = After(timer, d)
        /\ \/ since' = (IF since + d < Many THEN since + d ELSE Many) /\ Wait(timer')
           \/ /\ since' = (IF phase = 1 THEN 0
                           ELSE IF since + d < Many THEN since + d ELSE Many)
              /\ Change(timer')
  <2>1. PICK d \in IF timerOn THEN 1..Slack ELSE {0} :
          LET now   == (timer + d) % Wrap
              later == IF since + d < Many THEN since + d ELSE Many IN
          /\ timer' = now
          /\ \/ since' = later /\ Wait(now)
             \/ since' = (IF phase = 1 THEN 0 ELSE later) /\ Change(now)
    BY DEF Sample
  <2>2. d \in 0..Slack
    BY RangeAssumption
  <2> QED BY <2>1, <2>2 DEF After
<1>2. timing # Nobody
  BY DEF Sample
<1>3. /\ timer' \in Ticks
      /\ timer' = After(t, since + d)
      /\ Minus(timer', t) = since + d
  BY <1>1, <1>2, GiveUpExact DEF TimerInv, Bounds, Running
<1>4. /\ since \in Nat /\ since <= Limit + Slack /\ d \in Nat /\ d <= Slack
      /\ since + d <= Limit + 2 * Slack /\ since + d < Many
      /\ Limit \in Nat /\ Slack \in Nat /\ Many \in Nat
  BY <1>1, <1>2, RangeAssumption DEF TimerInv, Bounds, Running, Many
<1>5. CASE since' = (IF since + d < Many THEN since + d ELSE Many) /\ Wait(timer')
  <2>1. since' = since + d /\ t' = t /\ phase' = phase
    BY <1>4, <1>5 DEF Wait
  <2>2. \/ phase = 3 /\ t2' = timer' /\ assigned' = TRUE /\ lastHigh' = since'
        \/ phase # 3 /\ t2' = t2 /\ assigned' = assigned /\ lastHigh' = lastHigh
    BY <1>5 DEF Wait
  <2>3. \/ timing' = Nobody /\ width' = 0
        \/ timing' = timing /\ width' = width /\ since + d <= Limit
    BY <1>3, <1>4, <1>5 DEF Wait, GiveUp, Return
  <2>4. t2' \in Ticks /\ lastHigh' \in Nat /\ lastHigh' <= Limit + 2 * Slack
    BY <1>3, <1>4, <2>1, <2>2 DEF TimerInv, Bounds
  <2>5. CASE timing' = Nobody /\ width' = 0
    <3>1. Bounds'
      BY <1>3, <1>4, <2>1, <2>4, <2>5 DEF TimerInv, Bounds
    <3> QED BY <2>5, <3>1 DEF TimerInv
  <2>6. CASE timing' = timing /\ width' = width /\ since + d <= Limit
    <3>1. Bounds'
      BY <1>3, <1>4, <2>1, <2>4, <2>6 DEF TimerInv, Bounds
    <3>2. timer' = After(t', since') /\ since' <= Limit /\ since' <= Limit + Slack
      BY <1>3, <1>4, <2>1, <2>6
    <3>3. ASSUME phase = 3 PROVE Running'
      <4>1. t2' = After(t', lastHigh') /\ lastHigh' <= Limit
        BY <1>3, <2>1, <2>2, <2>6, <3>3
      <4> QED BY <2>1, <3>2, <3>3, <4>1, Zenon DEF Running
    <3>4. ASSUME phase # 3 PROVE Running'
      <4>1. assigned' = FALSE
        BY <1>2, <2>2, <3>4 DEF TimerInv, Running
      <4> QED BY <3>2, <4>1, Zenon DEF Running
    <3> QED BY <1>2, <2>6, <3>1, <3>3, <3>4 DEF TimerInv
  <2> QED BY <2>3, <2>5, <2>6
<1>6. CASE /\ since' = (IF phase = 1 THEN 0
                        ELSE IF since + d < Many THEN since + d ELSE Many)
           /\ Change(timer')
  <2>1. t2' = t2 /\ assigned' = assigned /\ lastHigh' = lastHigh
    BY <1>6 DEF Change
  <2>2. CASE phase = 1
    <3>1. since' = 0 /\ phase' = 2 /\ t' = timer' /\ timing' = timing /\ width' = width
      BY <1>6, <2>2 DEF Change
    <3>2. timer' = After(timer', 0)
      BY <1>3, NoTick
    <3>3. Bounds'
      BY <1>3, <1>4, <2>1, <3>1 DEF TimerInv, Bounds
    <3>4. assigned = FALSE
      BY <1>2, <2>2 DEF TimerInv, Running
    <3>5. Running'
      <4>1. timer' = After(t', since') /\ since' <= Limit /\ since' <= Limit + Slack
        BY <1>4, <3>1, <3>2
      <4> QED BY <2>1, <3>4, <4>1, Zenon DEF Running
    <3> QED BY <1>2, <3>1, <3>3, <3>5 DEF TimerInv
  <2>3. CASE phase = 2
    <3>1. since' = since + d /\ phase' = 3 /\ t' = t /\ timing' = timing /\ width' = width
      BY <1>4, <1>6, <2>3 DEF Change
    <3>2. Bounds'
      BY <1>3, <1>4, <2>1, <3>1 DEF TimerInv, Bounds
    <3>3. assigned = FALSE /\ since <= Limit
      BY <1>2, <2>3 DEF TimerInv, Running
    <3>4. since' <= Limit + Slack
      BY <1>4, <3>1, <3>3
    <3>5. Running'
      BY <1>3, <2>1, <3>1, <3>3, <3>4, Zenon DEF Running
    <3> QED BY <1>2, <3>1, <3>2, <3>5 DEF TimerInv
  <2>4. CASE phase = 3
    <3>1. since' = since + d /\ phase' = phase /\ t' = t /\ timing' = Nobody
      BY <1>4, <1>6, <2>4 DEF Change, Return
    <3>2. assigned # FALSE /\ width' = Minus(t2, t)
      <4>1. /\ assigned \/ Short
            /\ \E v \in Ticks : (assigned => v = t2) /\ Return(Minus(v, t))
        BY <1>6, <2>4 DEF Change
      <4>2. PICK v \in Ticks : (assigned => v = t2) /\ width' = Minus(v, t)
        BY <4>1 DEF Return
      <4> QED BY <4>1, <4>2, Zenon
    <3>3. width' = lastHigh /\ lastHigh <= Limit
      <4>1. t2 = After(t, lastHigh) /\ lastHigh \in Nat /\ lastHigh <= Limit
        BY <1>2, <3>2 DEF TimerInv, Running, Bounds
      <4>2. t2 = After(After(t, lastHigh), 0) /\ t \in Ticks
        BY <4>1, NoTick DEF TimerInv, Bounds
      <4>3. lastHigh <= Limit + Slack /\ 0 \in 0..Slack
        BY <1>4, <4>1
      <4>4. Minus(t2, t) = lastHigh + 0
        BY <4>1, <4>2, <4>3, GiveUpExact
      <4> QED BY <3>2, <4>1, <4>4
    <3>4. Bounds'
      BY <1>3, <1>4, <2>1, <2>4, <3>1, <3>3 DEF TimerInv, Bounds
    <3> QED BY <2>1, <3>1, <3>3, <3>4 DEF TimerInv
  <2>5. phase = 1 \/ phase = 2 \/ phase = 3
    BY DEF TimerInv, Bounds
  <2> QED BY <2>2, <2>3, <2>4, <2>5
<1> QED BY <1>1, <1>5, <1>6

LEMMA TimerInductive ==
    ASSUME Short = FALSE
    PROVE  TimerInv /\ [Next]_vars => TimerInv'
<1> SUFFICES ASSUME TimerInv, [Next]_vars PROVE TimerInv'
  OBVIOUS
<1>1. CASE Sample
  BY <1>1, SampleStep, Zenon
<1>2. ASSUME NEW f \in Files, Wake(f) PROVE TimerInv'
  <2>1. /\ timing' # Nobody /\ phase' = 1 /\ t' = timer /\ timer' = timer /\ since' = 0
        /\ assigned' = FALSE /\ lastHigh' = 0 /\ t2' = t2 /\ width' = width
    BY <1>2, RangeAssumption DEF Wake
  <2>2. timer = After(timer, 0)
    BY NoTick DEF TimerInv, Bounds
  <2>3. Bounds'
    BY <2>1, RangeAssumption DEF TimerInv, Bounds, Many
  <2>4. Running'
    <3>1. timer' = After(t', since') /\ since' <= Limit /\ since' <= Limit + Slack
      BY <2>1, <2>2, RangeAssumption
    <3> QED BY <2>1, <3>1, Zenon DEF Running
  <2> QED BY <2>1, <2>3, <2>4 DEF TimerInv
<1>3. CASE UNCHANGED pulse
  BY <1>3, Zenon DEF pulse, TimerInv, Bounds, Running
<1>4. ASSUME NEW f, NEW s, Open(f) \/ Close(f) \/ Read(f) \/ Attach(f, s) \/ Detach(f, s)
      PROVE  UNCHANGED pulse
  BY <1>4 DEF Open, Close, Read, Attach, Detach
<1>5. CASE UNCHANGED vars
  BY <1>3, <1>5 DEF vars
<1> QED BY <1>1, <1>2, <1>3, <1>4, <1>5 DEF Next

LEMMA TimerInit == Init => TimerInv
<1> SUFFICES ASSUME Init PROVE TimerInv
  OBVIOUS
<1>1. 0 \in Ticks
  BY RangeAssumption DEF Ticks
<1> QED BY <1>1, RangeAssumption DEF Init, TimerInv, Bounds, Many

\* pulse_in measures what it says on a timer of any width, if no echo is over
\* before it has been seen: what it returns, unless it gives up, are the ticks
\* from the start of its wait to its last look at the pulse, also when the timer
\* wraps around in between, provided that it takes the timer longer to come
\* round than the limit and two turns of a loop (RangeAssumption).
THEOREM EchoMeasured ==
    ASSUME Short = FALSE
    PROVE  Spec => []Measured
<1>1. TimerInv => Measured
  BY DEF TimerInv, Measured
<1> QED BY <1>1, TimerInit, TimerInductive, PTL DEF Spec

-----------------------------------------------------------------------------
(* Types *)

\* What the two invariants above do not say of the state.
PlaceInv ==
    /\ attached \subseteq Sensors
    /\ pc \in [Files -> {"idle", "sleep", "pulse"}] /\ at \in [Files -> Sensors \cup {0}]
    /\ timing \in Files \cup {Nobody}
    /\ turn \in 0..1 /\ assigned \in BOOLEAN

LEMMA ScanTyped ==
    ASSUME PlaceInv, NEW f \in Files, NEW from, Scan(f, from)
    PROVE  /\ pc' \in [Files -> {"idle", "sleep", "pulse"}]
           /\ at' \in [Files -> Sensors \cup {0}]
  BY DEF PlaceInv, Scan

LEMMA PlaceInductive == PlaceInv /\ [Next]_vars => PlaceInv'
<1> SUFFICES ASSUME PlaceInv, [Next]_vars PROVE PlaceInv'
  OBVIOUS
<1>1. ASSUME NEW f \in Files, Open(f) \/ Close(f) PROVE PlaceInv'
  BY <1>1 DEF Open, Close, PlaceInv, pulse
<1>2. ASSUME NEW f \in Files, NEW s \in Sensors, Attach(f, s) \/ Detach(f, s)
      PROVE  PlaceInv'
  BY <1>2 DEF Attach, Detach, PlaceInv, pulse
<1>3. ASSUME NEW f \in Files, Read(f) PROVE PlaceInv'
  BY <1>3, ScanTyped DEF Read, PlaceInv, driver, pulse
<1>4. ASSUME NEW f \in Files, Wake(f) PROVE PlaceInv'
  <2>1. turn' \in 0..1
    BY <1>4 DEF Wake
  <2>2. QED BY <1>4, <2>1, Zenon DEF Wake, PlaceInv, driver
<1>5. CASE Sample
  <2>1. turn' \in 0..1 /\ attached' = attached
    BY <1>5 DEF Sample, PlaceInv, driver
  <2>2. PICK now : Wait(now) \/ Change(now)
    BY <1>5 DEF Sample
  <2>3. timing \in Files
    BY <1>5 DEF Sample, PlaceInv
  <2>4. \/ UNCHANGED <<pc, at, timing>>
        \/ timing' = Nobody /\ Scan(timing, at[timing] + 1)
    BY <2>2 DEF Wait, Change, Return
  <2>5. assigned' = assigned \/ assigned' = TRUE
    BY <2>2 DEF Wait, Change
  <2>6. /\ pc' \in [Files -> {"idle", "sleep", "pulse"}]
        /\ at' \in [Files -> Sensors \cup {0}]
        /\ timing' \in Files \cup {Nobody}
    BY <2>3, <2>4, ScanTyped DEF PlaceInv
  <2>7. QED BY <2>1, <2>5, <2>6, Zenon DEF PlaceInv
<1>6. CASE UNCHANGED vars
  BY <1>6 DEF vars, driver, pulse, PlaceInv
<1> QED BY <1>1, <1>2, <1>3, <1>4, <1>5, <1>6 DEF Next

\* The state of the range driver is well typed: in particular pulse_in never
\* returns more than its limit, if no echo is over before it has been seen.
THEOREM RangeTypeCorrect ==
    ASSUME Short = FALSE
    PROVE  Spec => []TypeOK
<1>1. Init => CountInv /\ TimerInv /\ PlaceInv
  <2> SUFFICES ASSUME Init PROVE CountInv /\ TimerInv /\ PlaceInv
    OBVIOUS
  <2>1. CountInv
    BY FS_EmptySet, RangeAssumption DEF Init, CountInv
  <2>2. TimerInv
    BY TimerInit
  <2>3. 0 \in 0..1
    OBVIOUS
  <2>4. PlaceInv
    BY <2>3, Zenon DEF Init, PlaceInv
  <2> QED BY <2>1, <2>2, <2>4
<1>2. ASSUME CountInv, TimerInv, PlaceInv PROVE TypeOK
  <2>1. crefs \in 0..(Refs - 1) /\ width \in 0..Limit /\ since \in 0..Many /\ lastHigh \in 0..Many
    BY <1>2, RangeAssumption DEF CountInv, TimerInv, Bounds, Many
  <2>2. timerOn \in BOOLEAN
    BY <1>2, Zenon DEF CountInv
  <2>3. phase \in 1..3 /\ timer \in Ticks /\ t \in Ticks /\ t2 \in Ticks
    BY <1>2 DEF TimerInv, Bounds
  <2> QED BY <1>2, <2>1, <2>2, <2>3, Zenon DEF TypeOK, CountInv, PlaceInv
<1> QED
  BY <1>1, <1>2, CountInductive, TimerInductive, PlaceInductive, PTL DEF Spec
=============================================================================

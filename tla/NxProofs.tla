------------------------------ MODULE NxProofs ------------------------------
(***************************************************************************)
(* NxThread never has two threads, and none that runs its callback once    *)
(* it is stopped, provided that a thread that is created runs before the   *)
(* owner's next call (Settles).  Otherwise a second start, which still     *)
(* finds the object stopped, creates a second thread beside the first.     *)
(***************************************************************************)
EXTENDS NxThread, TLAPS

\* A stopped object has no thread but one that has not begun yet, and when
\* start has seen it stopped and is about to create a thread it has none.
IInv ==
    /\ TypeOK
    /\ OneThread
    /\ state = "STOPPED" => \A t \in Alive : at[t] = "new"
    /\ owner = "create" => Alive = {}

LEMMA TypeInductive == TypeOK /\ [Next]_vars => TypeOK'
<1> SUFFICES ASSUME TypeOK, [Next]_vars PROVE TypeOK'
  OBVIOUS
<1> USE DEF TypeOK
<1>1. CASE Start
  BY <1>1, Zenon DEF Start, local
<1>2. CASE Stop
  BY <1>2, Zenon DEF Stop, local
<1>3. CASE Suspend
  BY <1>3, Zenon DEF Suspend, local
<1>4. CASE Resume
  BY <1>4, Zenon DEF Resume, local
<1>5. ASSUME SetEvent
      PROVE  at' \in [Threads -> {"dead", "new", "top", "toWait", "wait", "woken",
                                  "resumed", "run"}]
  BY <1>5 DEF SetEvent
<1>6. CASE InOwner
  <2>1. CASE StartCreate
    BY <2>1 DEF StartCreate, local, flags
  <2>2. CASE StartFails
    BY <2>2, Zenon DEF StartFails, local, flags
  <2>3. CASE StopResume
    BY <2>3, Zenon DEF StopResume, local
  <2>4. CASE StopSet
    BY <1>5, <2>4, Zenon DEF StopSet, local, flags
  <2>5. CASE StopJoin
    BY <2>5, Zenon DEF StopJoin, local, flags
  <2>6. CASE ResumeSet
    BY <1>5, <2>6, Zenon DEF ResumeSet, local, flags
  <2> QED BY <1>6, <2>1, <2>2, <2>3, <2>4, <2>5, <2>6 DEF InOwner
<1>7. ASSUME NEW t \in Threads, Worker(t) PROVE TypeOK'
  <2>1. CASE Begin(t)
    BY <2>1 DEF Begin, ReadFlags, flags
  <2>2. CASE Top(t)
    BY <2>2 DEF Top, flags, local
  <2>3. CASE WaitEvent(t)
    BY <2>3 DEF WaitEvent, flags, local
  <2>4. CASE Woken(t)
    BY <2>4 DEF Woken, flags
  <2>5. CASE Resumed(t)
    BY <2>5 DEF Resumed, flags, local
  <2>6. CASE Run(t)
    BY <2>6 DEF Run, ReadFlags, flags
  <2> QED BY <1>7, <2>1, <2>2, <2>3, <2>4, <2>5, <2>6 DEF Worker
<1>8. CASE UNCHANGED vars
  BY <1>8, Zenon DEF vars, flags, local
<1> QED BY <1>1, <1>2, <1>3, <1>4, <1>6, <1>7, <1>8 DEF Next

LEMMA InvInductive ==
    ASSUME Settles = TRUE
    PROVE  IInv /\ [Next]_vars => IInv'
<1> SUFFICES ASSUME IInv, [Next]_vars PROVE IInv'
  OBVIOUS
<1>0. TypeOK'
  BY TypeInductive DEF IInv
<1>1. Alive = {t \in Threads : at[t] # "dead"} /\ Alive' = {t \in Threads : at'[t] # "dead"}
  BY DEF Alive
<1> USE DEF IInv, OneThread
\* Steps that create no thread and leave those that have not begun alone.
<1>2. ASSUME Alive' \subseteq Alive, thread' = thread,
             state' = "STOPPED" => \A t \in Alive' : at'[t] = "new",
             owner' = "create" => owner = "create"
      PROVE  IInv'
  BY <1>0, <1>2
<1>3. CASE Start
  <2>1. \A t \in Threads : at[t] # "new"
    BY <1>3 DEF Start, Calls
  <2>2. Alive = {} /\ Alive' = Alive
    BY <1>1, <1>3, <2>1 DEF Start
  <2> QED BY <1>0, <1>3, <2>2 DEF Start
<1>4. CASE Stop \/ Suspend \/ Resume \/ StartFails \/ StopResume \/ UNCHANGED vars
  <2>1. state' = state /\ thread' = thread /\ at' = at /\ (owner' = "create" => owner = "create")
    BY <1>4 DEF Stop, Suspend, Resume, StartFails, StopResume, vars
  <2> QED BY <1>1, <1>2, <2>1
<1>5. CASE StartCreate
  <2>1. PICK t \in Threads : thread' = t /\ at' = [at EXCEPT ![t] = "new"]
    BY <1>5, Zenon DEF StartCreate
  <2>2. Alive = {} /\ owner' = "idle"
    BY <1>5 DEF StartCreate
  <2>3. Alive' \subseteq {t} /\ at'[t] = "new"
    BY <1>1, <2>1, <2>2 DEF TypeOK
  <2> QED BY <1>0, <2>1, <2>2, <2>3
<1>6. CASE StopSet \/ ResumeSet
  <2>1. state' = state /\ thread' = thread /\ owner' # "create"
    BY <1>6 DEF StopSet, ResumeSet
  <2>2. at' = at \/ \E t \in Threads : at[t] = "wait" /\ at' = [at EXCEPT ![t] = "woken"]
    BY <1>6 DEF StopSet, ResumeSet, SetEvent
  <2>3. CASE at' = at
    BY <1>1, <1>2, <2>1, <2>3
  <2>4. ASSUME NEW t \in Threads, at[t] = "wait", at' = [at EXCEPT ![t] = "woken"]
        PROVE  IInv'
    <3>1. Alive' \subseteq Alive /\ t \in Alive
      BY <1>1, <2>4 DEF TypeOK
    <3>2. state # "STOPPED"
      BY <2>4, <3>1
    <3> QED BY <1>2, <2>1, <3>1, <3>2
  <2> QED BY <2>2, <2>3, <2>4
<1>7. CASE StopJoin
  <2>1. Alive = {} /\ Alive' = Alive
    BY <1>1, <1>7 DEF StopJoin
  <2> QED BY <1>2, <1>7, <2>1 DEF StopJoin
<1>8. ASSUME NEW t \in Threads, Worker(t) PROVE IInv'
  <2>1. /\ thread' = thread /\ owner' = owner
        /\ at[t] # "dead" /\ at' = [at EXCEPT ![t] = at'[t]]
    BY <1>8 DEF Worker, Begin, Top, WaitEvent, Woken, Resumed, Run, TypeOK
  <2>2. t \in Alive /\ Alive' \subseteq Alive /\ Alive \subseteq {t}
    BY <1>1, <2>1 DEF TypeOK
  <2>3. state' # "STOPPED"
    BY <1>8, <2>2 DEF Worker, Begin, Top, WaitEvent, Woken, Resumed, Run
  <2> QED BY <1>2, <2>1, <2>2, <2>3
<1> QED BY <1>3, <1>4, <1>5, <1>6, <1>7, <1>8 DEF Next, InOwner

LEMMA InvAlways ==
    ASSUME Settles = TRUE
    PROVE  Spec => []IInv
<1>1. Init => IInv
  <2> SUFFICES ASSUME Init PROVE IInv
    OBVIOUS
  <2>1. TypeOK
    BY Zenon DEF Init, TypeOK
  <2>2. Alive = {} /\ owner # "create"
    BY DEF Init, Alive
  <2> QED BY <2>1, <2>2 DEF IInv, OneThread
<1> QED BY <1>1, InvInductive, PTL DEF Spec

\* One NxThread object never has two threads, however often its owner starts,
\* stops, suspends and resumes it and whichever pthread_create fails, if a
\* created thread runs before the owner's next call.
THEOREM NeverTwoThreads ==
    ASSUME Settles = TRUE
    PROVE  Spec => []OneThread
<1>1. IInv => OneThread
  BY DEF IInv
<1> QED BY <1>1, InvAlways, PTL

\* Under the same condition no thread is left that could run the callback of an
\* object that is stopped.
THEOREM StoppedIsQuiet ==
    ASSUME Settles = TRUE
    PROVE  Spec => []QuietWhenStopped
<1>1. IInv => QuietWhenStopped
  BY DEF IInv, QuietWhenStopped
<1> QED BY <1>1, InvAlways, PTL

\* The flags, the owner's call and the place of every thread are well typed,
\* also when a second thread exists because the first has not begun.
THEOREM ThreadTypeCorrect == Spec => []TypeOK
<1>1. Init => TypeOK
  BY Zenon DEF Init, TypeOK
<1> QED BY <1>1, TypeInductive, PTL DEF Spec
=============================================================================

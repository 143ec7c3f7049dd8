------------------------------ MODULE NxThread ------------------------------
(***************************************************************************)
(* NxThread and NxEvent (apps/system/myCub/lib/nxobjects): a periodic      *)
(* thread that its owner starts, stops, suspends and resumes.  The dancer  *)
(* of the shell is one.                                                    *)
(*                                                                         *)
(* Every critical section on NxThread::mutex is one step.  NxEvent::m_lock *)
(* is taken by wait and given back by the reset that follows it, with no   *)
(* step in between, so neither mutex has a variable.                       *)
(***************************************************************************)
EXTENDS Naturals, FiniteSets

CONSTANTS Threads,   \* the threads that may exist at a time
          NoThread,
          Settles    \* whether a created thread runs before the next call

ASSUME ThreadAssumption ==
    /\ NoThread \notin Threads
    /\ Settles \in BOOLEAN

VARIABLES
    state,            \* NxThread::state
    bshould_stop, bshould_suspend,
    thread,           \* NxThread::thread
    owner,            \* where the owner is in start, stop or resume
    at,               \* where each thread is in thread_func
    stop, suspend     \* the locals of each thread: its copies of the flags

flags == <<bshould_stop, bshould_suspend>>
local == <<stop, suspend>>
vars  == <<state, flags, thread, owner, at, local>>

Init ==
    /\ state = "STOPPED"
    /\ bshould_stop = FALSE /\ bshould_suspend = FALSE
    /\ thread = NoThread
    /\ owner = "idle"
    /\ at = [t \in Threads |-> "dead"]
    /\ stop = [t \in Threads |-> FALSE]
    /\ suspend = [t \in Threads |-> FALSE]

----------------------------------------------------------------------------
(* NxEvent: a condition variable without a flag *)

\* set: pthread_cond_signal, lost unless a thread waits.
SetEvent ==
    LET waiting == {t \in Threads : at[t] = "wait"} IN
    IF waiting = {} THEN UNCHANGED at
    ELSE \E t \in waiting : at' = [at EXCEPT ![t] = "woken"]

----------------------------------------------------------------------------
(* The owner *)

Calls == owner = "idle" /\ (Settles => \A t \in Threads : at[t] # "new")

\* Mutant: start does not look at the state.
StartAnyway ==
    /\ Calls
    /\ owner' = "create"
    /\ bshould_stop' = FALSE /\ bshould_suspend' = FALSE
    /\ UNCHANGED <<state, thread, at, local>>

\* start returns at once unless the thread is stopped.
Start ==
    /\ Calls
    /\ state = "STOPPED"
    /\ owner' = "create"
    /\ bshould_stop' = FALSE /\ bshould_suspend' = FALSE
    /\ UNCHANGED <<state, thread, at, local>>

StartCreate ==
    /\ owner = "create"
    /\ \E t \in Threads :
        /\ at[t] = "dead"
        /\ thread' = t
        /\ at' = [at EXCEPT ![t] = "new"]
    /\ owner' = "idle"
    /\ UNCHANGED <<state, flags, local>>

\* An attribute is refused or pthread_create fails.
StartFails ==
    /\ owner = "create"
    /\ owner' = "idle"
    /\ UNCHANGED <<state, flags, thread, at, local>>

\* stop returns at once if the thread is stopped; otherwise it resumes the
\* thread and joins it.
Stop ==
    /\ Calls
    /\ state # "STOPPED"
    /\ bshould_stop' = TRUE
    /\ owner' = "stopResume"
    /\ UNCHANGED <<state, bshould_suspend, thread, at, local>>

\* resume returns at once unless the thread is suspended.
StopResume ==
    /\ owner = "stopResume"
    /\ IF state = "SUSPENDED"
       THEN bshould_suspend' = FALSE /\ owner' = "stopSet"
       ELSE owner' = "join" /\ UNCHANGED bshould_suspend
    /\ UNCHANGED <<state, bshould_stop, thread, at, local>>

StopSet ==
    /\ owner = "stopSet"
    /\ SetEvent
    /\ owner' = "join"
    /\ UNCHANGED <<state, flags, thread, local>>

\* Mutant: the thread is not joined.
StopNoJoin ==
    /\ owner = "join"
    /\ state' = "STOPPED"
    /\ owner' = "idle"
    /\ UNCHANGED <<flags, thread, at, local>>

StopJoin ==
    /\ owner = "join"
    /\ at[thread] = "dead"
    /\ state' = "STOPPED"
    /\ owner' = "idle"
    /\ UNCHANGED <<flags, thread, at, local>>

Suspend ==
    /\ Calls
    /\ state = "RUNNING"
    /\ bshould_suspend' = TRUE
    /\ UNCHANGED <<state, bshould_stop, thread, owner, at, local>>

Resume ==
    /\ Calls
    /\ state = "SUSPENDED"
    /\ bshould_suspend' = FALSE
    /\ owner' = "resumeSet"
    /\ UNCHANGED <<state, bshould_stop, thread, at, local>>

ResumeSet ==
    /\ owner = "resumeSet"
    /\ SetEvent
    /\ owner' = "idle"
    /\ UNCHANGED <<state, flags, thread, local>>

InOwner == \/ StartCreate \/ StartFails \/ StopResume \/ StopSet \/ StopJoin
           \/ ResumeSet

----------------------------------------------------------------------------
(* thread_func, in thread t *)

\* Mutants: one flag is not read.
ReadStop(t)    == /\ stop' = [stop EXCEPT ![t] = bshould_stop]
                  /\ UNCHANGED suspend
ReadSuspend(t) == /\ suspend' = [suspend EXCEPT ![t] = bshould_suspend]
                  /\ UNCHANGED stop

ReadFlags(t) == /\ stop' = [stop EXCEPT ![t] = bshould_stop]
                /\ suspend' = [suspend EXCEPT ![t] = bshould_suspend]

Begin(t) ==
    /\ at[t] = "new"
    /\ ReadFlags(t)
    /\ state' = "RUNNING"
    /\ at' = [at EXCEPT ![t] = "top"]
    /\ UNCHANGED <<flags, thread, owner>>

\* The loop test, and SUSPENDED is announced before the event is waited for.
Top(t) ==
    /\ at[t] = "top"
    /\ IF ~stop[t] /\ suspend[t] THEN state' = "SUSPENDED" ELSE UNCHANGED state
    /\ at' = [at EXCEPT ![t] = IF stop[t] THEN "dead"
                               ELSE IF suspend[t] THEN "toWait" ELSE "run"]
    /\ UNCHANGED <<flags, thread, owner, local>>

WaitEvent(t) ==
    /\ at[t] = "toWait"
    /\ at' = [at EXCEPT ![t] = "wait"]
    /\ UNCHANGED <<state, flags, thread, owner, local>>

\* event.wait returns, event.reset, and bshould_stop is read.
Woken(t) ==
    /\ at[t] = "woken"
    /\ stop' = [stop EXCEPT ![t] = bshould_stop]
    /\ at' = [at EXCEPT ![t] = IF bshould_stop THEN "dead" ELSE "resumed"]
    /\ UNCHANGED <<state, flags, thread, owner, suspend>>

\* Mutant: the thread announces a state of its own.
ResumedState(t) ==
    /\ at[t] = "resumed"
    /\ state' = "RESUMED"
    /\ at' = [at EXCEPT ![t] = "run"]
    /\ UNCHANGED <<flags, thread, owner, local>>

Resumed(t) ==
    /\ at[t] = "resumed"
    /\ state' = "RUNNING"
    /\ at' = [at EXCEPT ![t] = "run"]
    /\ UNCHANGED <<flags, thread, owner, local>>

\* The callback and the sleep, then the flags are read.
Run(t) ==
    /\ at[t] = "run"
    /\ ReadFlags(t)
    /\ at' = [at EXCEPT ![t] = "top"]
    /\ UNCHANGED <<state, flags, thread, owner>>

Worker(t) == Begin(t) \/ Top(t) \/ WaitEvent(t) \/ Woken(t) \/ Resumed(t) \/ Run(t)

----------------------------------------------------------------------------
Next == \/ Start \/ Stop \/ Suspend \/ Resume \/ InOwner
        \/ \E t \in Threads : Worker(t)

Spec == Init /\ [][Next]_vars

\* The owner finishes a call it has begun and every thread that can run does.
FairSpec == /\ Spec
            /\ WF_vars(InOwner)
            /\ \A t \in Threads : WF_vars(Worker(t))

----------------------------------------------------------------------------
(* Properties *)

\* The type invariant: the flags and a thread's copies of them are Booleans, and
\* the state is one of the three of nxthread_state_t.
TypeOK ==
    /\ state \in {"STOPPED", "RUNNING", "SUSPENDED"}
    /\ bshould_stop \in BOOLEAN /\ bshould_suspend \in BOOLEAN
    /\ thread \in Threads \cup {NoThread}
    /\ owner \in {"idle", "create", "stopResume", "stopSet", "join", "resumeSet"}
    /\ at \in [Threads -> {"dead", "new", "top", "toWait", "wait", "woken",
                           "resumed", "run"}]
    /\ stop \in [Threads -> BOOLEAN] /\ suspend \in [Threads -> BOOLEAN]

Alive == {t \in Threads : at[t] # "dead"}

\* One object never has two threads: a start that follows a stop, or another
\* start, does not create a second one beside the first.
OneThread == Alive \subseteq {thread}

\* Once stop has returned the callback is not run any more until the next
\* start: no thread is left that could call it.
QuietWhenStopped == owner = "idle" /\ state = "STOPPED" => \A t \in Alive : at[t] = "new"

\* stop returns, unless the thread was asked to suspend: the thread reads
\* bshould_stop and ends, even if it has just been resumed, and is joined.
StopReturns ==
    owner = "stopResume" /\ state = "RUNNING" /\ ~bshould_suspend ~> owner = "idle"

\* A thread asked to suspend stops running its callback, or is stopped.
SuspendTakesEffect ==
    bshould_suspend /\ state = "RUNNING" ~> state # "RUNNING" \/ ~bshould_suspend

\* resume gets a suspended thread to run again, or to end if it is stopped.
ResumeWakes == owner = "resumeSet" ~> state # "SUSPENDED"
=============================================================================

------------------------------ MODULE EventImpl ------------------------------
(***************************************************************************)
(* System::Event on top of System::priv::EventImpl (System/Event.h,         *)
(* System/Event.cpp, System/Unix/EventImpl.h, System/Unix/EventImpl.cpp):   *)
(* a flag, a pthread mutex and a condition variable.  Every method holds    *)
(* the mutex from its first to its last access of the flag, and gives it up *)
(* only inside pthread_cond_wait / pthread_cond_timedwait.  The steps below *)
(* are the sections between two such points.                                *)
(*                                                                          *)
(* A waiting thread is in one of these phases:                              *)
(*   "idle"     not inside wait() / tryWait()                               *)
(*   "blocked"  asleep in the condition variable                            *)
(*   "woken"    released by a broadcast (or spuriously), mutex not yet held *)
(*   "expired"  released by its deadline, mutex not yet held                *)
(***************************************************************************)
EXTENDS Naturals, FiniteSets

CONSTANTS Waiters,   \* the threads that wait for the event
          AutoReset  \* the argument of Event(bool autoReset)

ASSUME AutoResetAssumption == AutoReset \in BOOLEAN

VARIABLES evState,   \* EventImpl::_state
          evWait     \* the phase of each waiting thread

evVars == <<evState, evWait>>

Phases == {"idle", "blocked", "woken", "expired"}

\* EventImpl::EventImpl: the event starts unsignalled.
EventInit ==
    /\ evState = FALSE
    /\ evWait = [t \in Waiters |-> "idle"]

\* Mutant: pthread_cond_signal in place of pthread_cond_broadcast, which
\* releases one sleeper of several.
SetImplSignalsOne ==
    /\ evState' = TRUE
    /\ evWait' = [t \in Waiters |->
                    IF /\ evWait[t] = "blocked"
                       /\ t = CHOOSE u \in Waiters : evWait[u] = "blocked"
                    THEN "woken" ELSE evWait[t]]

\* Mutant: the flag is raised and the broadcast forgotten.
SetImplReleasesNobody ==
    /\ evState' = TRUE
    /\ UNCHANGED evWait

\* Event::set: raise the flag and release every thread asleep on the
\* condition variable.
SetImpl ==
    /\ evState' = TRUE
    /\ evWait' = [t \in Waiters |->
                    IF evWait[t] = "blocked" THEN "woken" ELSE evWait[t]]

\* Event::reset: lower the flag; nobody is released.
ResetImpl ==
    /\ evState' = FALSE
    /\ UNCHANGED evWait

\* The test of "while (!_state)" finds the flag lowered: the thread goes to
\* sleep, on its first test or again after a wake-up that came to nothing.
WaitBlocks(t) ==
    /\ evWait[t] \in {"idle", "woken"}
    /\ ~evState
    /\ evWait' = [evWait EXCEPT ![t] = "blocked"]
    /\ UNCHANGED evState

\* Mutant: the flag is not lowered although the event resets itself.
WaitReturnsKeepsSignal(t) ==
    /\ evWait[t] \in {"idle", "woken"}
    /\ evState
    /\ evWait' = [evWait EXCEPT ![t] = "idle"]
    /\ UNCHANGED evState

\* Mutant: "if (!_state)" in place of "while (!_state)".
WaitReturnsWithoutRetest(t) ==
    /\ evState \/ evWait[t] = "woken"
    /\ evWait[t] \in {"idle", "woken"}
    /\ evState' = (evState /\ ~AutoReset)
    /\ evWait' = [evWait EXCEPT ![t] = "idle"]

\* The test finds the flag raised: the wait returns true and, for an
\* auto-reset event, takes the signal with it.
WaitReturns(t) ==
    /\ evWait[t] \in {"idle", "woken"}
    /\ evState
    /\ evState' = ~AutoReset
    /\ evWait' = [evWait EXCEPT ![t] = "idle"]

\* pthread_cond_timedwait gives up at its deadline (tryWait only).
WaitExpires(t) ==
    /\ evWait[t] = "blocked"
    /\ evWait' = [evWait EXCEPT ![t] = "expired"]
    /\ UNCHANGED evState

\* ETIMEDOUT breaks out of the loop without another look at the flag:
\* tryWait returns false, and leaves a signal that came late in place.
WaitTimedOut(t) ==
    /\ evWait[t] = "expired"
    /\ evWait' = [evWait EXCEPT ![t] = "idle"]
    /\ UNCHANGED evState

\* POSIX lets a condition variable release a thread without a broadcast.
SpuriousWake(t) ==
    /\ evWait[t] = "blocked"
    /\ evWait' = [evWait EXCEPT ![t] = "woken"]
    /\ UNCHANGED evState

EventTypeOK ==
    /\ evState \in BOOLEAN
    /\ evWait \in [Waiters -> Phases]

\* While the event is signalled nobody sleeps on it: whoever is inside a
\* wait has already been released, and only has to get the mutex.  A sleeper
\* under a raised flag would sleep until some later set().
NobodySleepsWhileSignalled ==
    evState => \A t \in Waiters : evWait[t] # "blocked"
=============================================================================

-------------------------------- MODULE Event --------------------------------
(***************************************************************************)
(* System::Event used by any number of waiting threads while other threads  *)
(* set and reset it.  The steps are those of EventImpl; this module adds    *)
(* the calls that take them and the history its documentation talks about.  *)
(***************************************************************************)
EXTENDS EventImpl

CONSTANT MaxSets   \* bound: how often set() is called

ASSUME MaxSetsAssumption == MaxSets \in Nat

VARIABLES call,       \* the call each thread is in: "none", "wait", "tryWait"
          signalled,  \* the threads whose last call has seen the event set
                      \* before its deadline
          answer,     \* what the last finished call of the thread returned
          sets,       \* number of set() calls
          resumed     \* number of waits that returned successfully (counted
                      \* for an auto-reset event: a manual one has no limit)

vars == <<evState, evWait, call, signalled, answer, sets, resumed>>

TypeOK ==
    /\ EventTypeOK
    /\ call \in [Waiters -> {"none", "wait", "tryWait"}]
    /\ signalled \in SUBSET Waiters
    /\ answer \in [Waiters -> {"none", "true", "false"}]
    /\ sets \in 0..MaxSets
    /\ resumed \in Nat
    /\ \A t \in Waiters : call[t] = "none" <=> evWait[t] = "idle"

Init ==
    /\ EventInit
    /\ call = [t \in Waiters |-> "none"]
    /\ signalled = {}
    /\ answer = [t \in Waiters |-> "none"]
    /\ sets = 0
    /\ resumed = 0

\* A wait that found the flag raised: wait() comes back, tryWait() says true.
Succeed(t) ==
    /\ WaitReturns(t)
    /\ call' = [call EXCEPT ![t] = "none"]
    /\ answer' = [answer EXCEPT ![t] = "true"]
    /\ resumed' = IF AutoReset THEN resumed + 1 ELSE resumed
    /\ UNCHANGED sets

\* Event::wait() and Event::tryWait(ms), up to the first test of the flag.
Call(t, c) ==
    /\ call[t] = "none"
    /\ signalled' = IF evState THEN signalled \cup {t} ELSE signalled \ {t}
    /\ \/ Succeed(t)
       \/ /\ WaitBlocks(t)
          /\ call' = [call EXCEPT ![t] = c]
          /\ UNCHANGED <<answer, sets, resumed>>

\* A released thread holds the mutex again and tests the flag.
Retest(t) ==
    /\ evWait[t] = "woken"
    /\ UNCHANGED signalled
    /\ \/ Succeed(t)
       \/ WaitBlocks(t) /\ UNCHANGED <<call, answer, sets, resumed>>

\* The deadline of a tryWait passes.
Expire(t) ==
    /\ call[t] = "tryWait"
    /\ WaitExpires(t)
    /\ UNCHANGED <<call, signalled, answer, sets, resumed>>

\* tryWait() returns false.
TimeOut(t) ==
    /\ WaitTimedOut(t)
    /\ call' = [call EXCEPT ![t] = "none"]
    /\ answer' = [answer EXCEPT ![t] = "false"]
    /\ UNCHANGED <<signalled, sets, resumed>>

Spurious(t) ==
    /\ SpuriousWake(t)
    /\ UNCHANGED <<call, signalled, answer, sets, resumed>>

Set ==
    /\ sets < MaxSets
    /\ SetImpl
    /\ sets' = sets + 1
    /\ signalled' = signalled \cup
                      {t \in Waiters : evWait[t] \in {"blocked", "woken"}}
    /\ UNCHANGED <<call, answer, resumed>>

Reset ==
    /\ ResetImpl
    /\ UNCHANGED <<call, signalled, answer, sets, resumed>>

Step(t) ==
    \/ \E c \in {"wait", "tryWait"} : Call(t, c)
    \/ Retest(t)
    \/ Expire(t)
    \/ TimeOut(t)
    \/ Spurious(t)

Next ==
    \/ \E t \in Waiters : Step(t)
    \/ Set
    \/ Reset

Spec == Init /\ [][Next]_vars

(***************************************************************************)
(* Fairness: a thread that was released gets the mutex in the end (nobody   *)
(* holds it for more than one step), and a deadline passes.  Nothing makes  *)
(* a thread call wait, set or reset.                                        *)
(***************************************************************************)
EventFair ==
    \A t \in Waiters :
        WF_vars(Retest(t)) /\ WF_vars(Expire(t)) /\ WF_vars(TimeOut(t))

-----------------------------------------------------------------------------
\* "If autoReset is true, only one thread waiting for the event can resume
\* execution" (Event.h, set): over any run, no more waits succeed than set()
\* was called, and a raised flag is a signal nobody has taken yet.
OneResumePerSet ==
    AutoReset => resumed + (IF evState THEN 1 ELSE 0) <= sets

\* A tryWait() that returned true had seen the event signalled: set() came
\* during the call and before its deadline, or before the call began.
TrueMeansSignalled ==
    \A t \in Waiters :
        call[t] = "none" /\ answer[t] = "true" => t \in signalled

\* No lost wake-up: once the event is signalled every thread inside a wait
\* gets out of it, unless the signal is withdrawn (by reset() or, for an
\* auto-reset event, by the thread that took it).
SignalReleasesWaiters ==
    \A t \in Waiters :
        (evState /\ call[t] # "none") ~> (~evState \/ call[t] = "none")
=============================================================================

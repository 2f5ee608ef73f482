------------------------------- MODULE Worker -------------------------------
(***************************************************************************)
(* Worker::SimpleBase and Worker::Base (CocTest/Classes/Worker/Base.cpp and *)
(* .h) on a System::Thread (System/Thread.cpp, System/Unix/ThreadImpl.cpp): *)
(* an owner starts, stops, joins and destroys a worker, whose thread runs   *)
(* an event loop with timers.                                               *)
(*                                                                          *)
(* The owner and the thread share _running without a lock; each access of   *)
(* it is a step.  Timers are added and deleted on the worker's thread, by   *)
(* init() or by onTimer().  libevent is modelled from its use: an event is  *)
(* armed for one shot or until it is deleted, a one-shot event is disarmed  *)
(* before its callback, the callbacks of a loop run one after another, and  *)
(* the loop returns after loopbreak or when no event is armed.              *)
(***************************************************************************)
EXTENDS Naturals

CONSTANTS Ids,        \* timer ids
          MaxStarts   \* bound: number of start() calls

ASSUME WorkerAssumption == MaxStarts \in Nat

VARIABLES owner,      \* "free", "joining", "deleting" (in ~SimpleBase) or "gone"
          impl,       \* _thread->myImpl: "null", "active" or "inactive" (no
                      \* thread could be created)
          thread,     \* where the thread is, see Phases
          running,    \* _running
          stops,      \* history: did stop() come since the thread raised the
                      \* flag?
          timers,     \* _timers: id -> has the data a nextInt?
          armed,      \* id -> how the event is armed
          current,    \* the timer whose onTimer() is running
          freed,      \* the timers in the map whose data was deleted
          fatal,      \* data was used or deleted after it was deleted, or a
                      \* member of Base after ~Base
          starts      \* number of start() calls

threadVars == <<running, stops, timers, armed, current, freed, fatal>>
ownerVars == <<owner, impl, starts>>
vars == <<owner, impl, thread, running, stops, timers, armed, current, freed,
          fatal, starts>>

(***************************************************************************)
(* The thread: "none"; "setup", before _running = true; "init", in init();  *)
(* "loop", waiting for events; "onTimer", in a callback; "cleanup", after   *)
(* the loop; "lower", before the last _running = false; "ended".            *)
(***************************************************************************)
Phases == {"none", "setup", "init", "loop", "onTimer", "cleanup", "lower", "ended"}
NoTimer == "noTimer"

\* The id's timer: "absent", "first" (its first shot is to come, then it is
\* repeated) or "plain" (nextInt = 0).  _timers holds nothing outside Base::loop.
TypeOK ==
    /\ owner \in {"free", "joining", "deleting", "gone"}
    /\ impl \in {"null", "active", "inactive"}
    /\ thread \in Phases
    /\ running \in BOOLEAN
    /\ stops \in BOOLEAN
    /\ timers \in [Ids -> {"absent", "first", "plain"}]
    /\ armed \in [Ids -> {"no", "once", "persist"}]
    /\ current \in Ids \cup {NoTimer}
    /\ freed \subseteq Ids
    /\ fatal \in BOOLEAN
    /\ starts \in 0..MaxStarts
    /\ thread \in {"none", "setup", "lower", "ended"} => \A i \in Ids : timers[i] = "absent"

Init ==
    /\ owner = "free"
    /\ impl = "null"
    /\ thread = "none"
    /\ running = FALSE
    /\ stops = FALSE
    /\ timers = [i \in Ids |-> "absent"]
    /\ armed = [i \in Ids |-> "no"]
    /\ current = NoTimer
    /\ freed = {}
    /\ fatal = FALSE
    /\ starts = 0

-----------------------------------------------------------------------------
(* The owner.                                                               *)

\* Thread::Launch and the constructor of ThreadImpl: pthread_create may fail.
Launch ==
    \/ impl' = "active" /\ thread' = "setup"
    \/ impl' = "inactive" /\ UNCHANGED thread

\* start(): a Thread is made and launched.  (A worker that was started is
\* joined before it is started again.)
Start ==
    /\ owner = "free" /\ impl = "null"
    /\ starts < MaxStarts
    /\ starts' = starts + 1
    /\ Launch
    /\ UNCHANGED <<owner, threadVars>>

Stop ==
    /\ owner = "free" /\ starts > 0
    /\ running' = FALSE
    /\ stops' = TRUE
    /\ UNCHANGED <<ownerVars, thread, timers, armed, current, freed, fatal>>

Join ==
    /\ owner = "free" /\ starts > 0
    /\ owner' = "joining"
    /\ UNCHANGED <<impl, starts, thread, threadVars>>

\* Mutant: Wait() deletes the ThreadImpl without joining the thread.
WaitReturnsAtOnce ==
    /\ impl' = "null"
    /\ UNCHANGED thread

\* Thread::Wait returns: there is no ThreadImpl, its thread could not be
\* created, or pthread_join found it ended; the ThreadImpl is deleted.
WaitReturns ==
    /\ impl = "active" => thread = "ended"
    /\ impl' = "null"
    /\ UNCHANGED thread

JoinReturns ==
    /\ owner = "joining"
    /\ WaitReturns
    /\ owner' = "free"
    /\ UNCHANGED <<starts, threadVars>>

\* The destructor, at any time: first ~Base deletes the data of all timers,
\* without deleting their events, and the map ...
Destroy ==
    /\ owner = "free"
    /\ owner' = "deleting"
    /\ fatal' = (freed # {})
    /\ freed' = {i \in Ids : timers[i] # "absent"}
    /\ UNCHANGED <<impl, starts, thread, running, stops, timers, armed, current>>

\* ~Base has run: loop(), init() and onTimer() are overridden no more, and the
\* map is gone.
BaseGone == owner = "deleting"

\* ... then ~SimpleBase deletes the Thread, which waits for the thread to end.
DestroyThread ==
    /\ owner = "deleting"
    /\ WaitReturns
    /\ owner' = "gone"
    /\ UNCHANGED <<starts, threadVars>>

-----------------------------------------------------------------------------
(* The worker's thread.                                                     *)

\* SimpleBase::run up to loop().
RunBegins ==
    /\ thread = "setup" /\ ~fatal
    /\ running' = TRUE
    /\ stops' = FALSE
    /\ thread' = "init"
    /\ fatal' = BaseGone
    /\ UNCHANGED <<ownerVars, timers, armed, current, freed>>

\* addTimer(id, interval, firstInterval): "first" has both, "plain" only an
\* interval, "single" only a first interval.
AddTimer(id, kind) ==
    /\ thread \in {"init", "onTimer"} /\ ~fatal
    /\ timers[id] = "absent"
    /\ timers' = [timers EXCEPT ![id] = IF kind = "first" THEN "first" ELSE "plain"]
    /\ armed' = [armed EXCEPT ![id] = IF kind = "plain" THEN "persist" ELSE "once"]
    /\ fatal' = BaseGone
    /\ UNCHANGED <<ownerVars, thread, running, stops, current, freed>>

\* Mutant: the event is not deleted with the timer.
DelTimerKeepsEvent(id) ==
    /\ thread \in {"init", "onTimer"} /\ ~fatal
    /\ timers[id] # "absent"
    /\ timers' = [timers EXCEPT ![id] = "absent"]
    /\ fatal' = BaseGone
    /\ UNCHANGED <<ownerVars, thread, running, stops, armed, current, freed>>

\* delTimer, also of the timer whose callback is running.
DelTimer(id) ==
    /\ thread \in {"init", "onTimer"} /\ ~fatal
    /\ timers[id] # "absent"
    /\ timers' = [timers EXCEPT ![id] = "absent"]
    /\ armed' = [armed EXCEPT ![id] = "no"]
    /\ fatal' = BaseGone
    /\ UNCHANGED <<ownerVars, thread, running, stops, current, freed>>

\* init() returns true, and the loop begins, or false, and it is skipped.
InitReturns ==
    /\ thread = "init" /\ ~fatal
    /\ thread' \in {"loop", "cleanup"}
    /\ UNCHANGED <<ownerVars, threadVars>>

\* libevent finds the timer due; its callback reads the timer's data.
Due(id) ==
    /\ thread = "loop" /\ ~fatal
    /\ armed[id] # "no"

\* Mutant: the switch to the interval is forgotten when the first shot came.
OnTimerNotRepeated(id) ==
    /\ Due(id) /\ running
    /\ armed' = [armed EXCEPT ![id] = IF @ = "once" THEN "no" ELSE @]
    /\ timers' = [timers EXCEPT ![id] = "plain"]
    /\ fatal' = (id \in freed)
    /\ current' = id
    /\ thread' = "onTimer"
    /\ UNCHANGED <<ownerVars, running, stops, freed>>

\* _onTimer while running: after its first shot the event is armed again for
\* its interval; then onTimer() is called.
OnTimer(id) ==
    /\ Due(id) /\ running
    /\ armed' = [armed EXCEPT ![id] = IF timers[id] = "first" THEN "persist"
                                      ELSE IF @ = "once" THEN "no" ELSE @]
    /\ timers' = [timers EXCEPT ![id] = IF @ = "first" THEN "plain" ELSE @]
    /\ fatal' = (id \in freed)
    /\ current' = id
    /\ thread' = "onTimer"
    /\ UNCHANGED <<ownerVars, running, stops, freed>>

\* onTimer() returns to the loop.
OnTimerReturns ==
    /\ thread = "onTimer" /\ ~fatal
    /\ thread' = "loop"
    /\ current' = NoTimer
    /\ UNCHANGED <<ownerVars, running, stops, timers, armed, freed, fatal>>

\* Mutant: _onTimer returns without breaking the loop.
OnTimerStoppedGoesOn(id) ==
    /\ Due(id) /\ ~running
    /\ armed' = [armed EXCEPT ![id] = IF @ = "once" THEN "no" ELSE @]
    /\ fatal' = (id \in freed)
    /\ UNCHANGED <<ownerVars, thread, running, stops, timers, current, freed>>

\* _onTimer after stop(): the loop is broken.
OnTimerStopped(id) ==
    /\ Due(id) /\ ~running
    /\ armed' = [armed EXCEPT ![id] = IF @ = "once" THEN "no" ELSE @]
    /\ fatal' = (id \in freed)
    /\ thread' = "cleanup"
    /\ UNCHANGED <<ownerVars, running, stops, timers, current, freed>>

\* Nothing is armed any more: event_base_loop returns.
LoopRunsDry ==
    /\ thread = "loop" /\ ~fatal
    /\ \A i \in Ids : armed[i] = "no"
    /\ thread' = "cleanup"
    /\ UNCHANGED <<ownerVars, threadVars>>

\* Mutant: the map keeps the timers whose data was deleted.
CleanupKeepsMap ==
    /\ thread = "cleanup" /\ ~fatal
    /\ fatal' = BaseGone
    /\ freed' = {i \in Ids : timers[i] # "absent"}
    /\ armed' = [i \in Ids |-> "no"]
    /\ thread' = "lower"
    /\ UNCHANGED <<ownerVars, running, stops, timers, current>>

\* The end of Base::loop: uninit(), then all timers and the event base are
\* given up.
Cleanup ==
    /\ thread = "cleanup" /\ ~fatal
    /\ fatal' = BaseGone
    /\ timers' = [i \in Ids |-> "absent"]
    /\ armed' = [i \in Ids |-> "no"]
    /\ thread' = "lower"
    /\ UNCHANGED <<ownerVars, running, stops, current, freed>>

\* The end of SimpleBase::run.
RunEnds ==
    /\ thread = "lower" /\ ~fatal
    /\ running' = FALSE
    /\ thread' = "ended"
    /\ UNCHANGED <<ownerVars, stops, timers, armed, current, freed, fatal>>

Next ==
    \/ Start
    \/ Stop
    \/ Join
    \/ JoinReturns
    \/ Destroy
    \/ DestroyThread
    \/ RunBegins
    \/ \E i \in Ids, k \in {"first", "plain", "single"} : AddTimer(i, k)
    \/ \E i \in Ids : DelTimer(i)
    \/ InitReturns
    \/ \E i \in Ids : OnTimer(i)
    \/ OnTimerReturns
    \/ \E i \in Ids : OnTimerStopped(i)
    \/ LoopRunsDry
    \/ Cleanup
    \/ RunEnds

Spec == Init /\ [][Next]_vars

(***************************************************************************)
(* Fairness: the thread is scheduled, init() and onTimer() return, an armed *)
(* timer fires some time, and a wait returns once it can.                   *)
(***************************************************************************)
WorkerFair ==
    /\ WF_vars(JoinReturns) /\ WF_vars(DestroyThread)
    /\ WF_vars(RunBegins) /\ WF_vars(InitReturns) /\ WF_vars(OnTimerReturns)
    /\ WF_vars(LoopRunsDry) /\ WF_vars(Cleanup) /\ WF_vars(RunEnds)
    /\ \A i \in Ids : WF_vars(OnTimer(i) \/ OnTimerStopped(i))

-----------------------------------------------------------------------------
\* libevent never holds an event whose timer was deleted, through every order
\* of adding, deleting (also from the timer's own callback), firing and
\* leaving the loop: a callback always gets live data.
ArmedTimersExist ==
    \A i \in Ids : armed[i] # "no" => timers[i] # "absent"

\* A timer added with both intervals fires again after its first shot, and
\* again and again, until it is deleted or the loop is left: in the loop a
\* timer that waits for its first shot is armed for it, and one that has once
\* been repeated stays armed.
TimersStayArmed ==
    [][\A i \in Ids :
         thread = "loop" /\ thread' = "onTimer" /\ (timers[i] = "first" \/ armed[i] = "persist")
           => armed'[i] # "no" /\ (current' = i => armed'[i] = "persist")]_vars

\* An owner that joins the thread before it destroys the worker is safe: what
\* was deleted is used, or deleted again, only while ~SimpleBase waits for a
\* thread that was not joined.  It depends on join() waiting for the thread and
\* on the thread leaving nothing in the map, also when it is started again.
SafeOnceJoined == fatal => BaseGone /\ impl = "active"

\* Timer data and the members of Base are not used after ~Base, whatever the
\* owner does.
NotDestroyedInUse == ~fatal

\* A stop() that comes after the thread has raised the flag ends the thread,
\* provided a timer repeats in its loop or its timers are used up, whatever
\* onTimer() does.
StopEndsThread ==
    (stops /\ thread \in {"init", "loop", "onTimer"}) ~> (thread = "ended" \/ fatal)
=============================================================================

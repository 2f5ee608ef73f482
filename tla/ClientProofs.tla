---------------------------- MODULE ClientProofs ----------------------------
(***************************************************************************)
(* Proofs about Worker, for any set of timers, any number of starts and an  *)
(* owner that destroys it at any time; and, with those about ClientNet and   *)
(* MsgQueue, about the three together.                                       *)
(***************************************************************************)
EXTENDS MCClient, ClientNetProofs, MsgQueueProofs, TLAPS

-----------------------------------------------------------------------------
(* The worker.                                                              *)

\* The part of the type invariant the proofs need.
TimerTypes ==
    /\ timers \in [Ids -> {"absent", "first", "plain"}]
    /\ armed \in [Ids -> {"no", "once", "persist"}]

\* While timers can fire, one that waits for its first shot is armed.  (After
\* a stop() the timer that broke the loop is not armed again.)
FirstShotArmed ==
    thread \in {"init", "loop", "onTimer"} =>
      \A i \in Ids : timers[i] = "first" => armed[i] # "no"

\* Outside Base::loop the map is empty, so that a thread that is started again
\* finds no timers.
MapEmpty ==
    thread \in {"none", "setup", "lower", "ended"} => \A i \in Ids : timers[i] = "absent"

\* The inductive invariant.
Inv == TimerTypes /\ ArmedTimersExist /\ FirstShotArmed /\ MapEmpty

LEMMA InvInit == Init => Inv
  BY DEF Init, Inv, TimerTypes, ArmedTimersExist, FirstShotArmed, MapEmpty

\* The steps that touch neither the timers nor their events.
LEMMA InvQuiet ==
    ASSUME Inv, UNCHANGED <<timers, armed>>,
           \/ thread' = thread
           \/ thread = "setup" /\ thread' = "init"
           \/ thread \in {"none", "ended"} /\ thread' = "setup"
           \/ thread \in {"init", "loop", "onTimer"}
                /\ thread' \in {"loop", "onTimer", "cleanup"}
           \/ thread = "lower" /\ thread' = "ended"
    PROVE  Inv'
  BY DEF Inv, TimerTypes, ArmedTimersExist, FirstShotArmed, MapEmpty

LEMMA InvAdd ==
    ASSUME Inv, NEW i \in Ids, NEW k \in {"first", "plain", "single"},
           AddTimer(i, k)
    PROVE  Inv'
  BY DEF Inv, TimerTypes, ArmedTimersExist, FirstShotArmed, MapEmpty, AddTimer

LEMMA InvDel ==
    ASSUME Inv, NEW i \in Ids, DelTimer(i)
    PROVE  Inv'
  BY DEF Inv, TimerTypes, ArmedTimersExist, FirstShotArmed, MapEmpty, DelTimer

LEMMA InvOnTimer ==
    ASSUME Inv, NEW i \in Ids, OnTimer(i)
    PROVE  Inv'
  BY DEF Inv, TimerTypes, ArmedTimersExist, FirstShotArmed, MapEmpty, OnTimer, Due

LEMMA InvOnTimerStopped ==
    ASSUME Inv, NEW i \in Ids, OnTimerStopped(i)
    PROVE  Inv'
  BY DEF Inv, TimerTypes, ArmedTimersExist, FirstShotArmed, MapEmpty, OnTimerStopped, Due

LEMMA InvCleanup ==
    ASSUME Inv, Cleanup
    PROVE  Inv'
  BY DEF Inv, TimerTypes, ArmedTimersExist, FirstShotArmed, MapEmpty, Cleanup

\* What join() is for: without an active ThreadImpl no thread is in run().  A
\* second start() depends on it, or it would find the timers of the first.
Waited == impl # "active" => thread \in {"none", "ended"}

LEMMA WaitedInit == Init => Waited
  BY DEF Init, Waited

LEMMA WaitedStep ==
    ASSUME Waited, [Next]_vars
    PROVE  Waited'
<1> USE DEF Waited
<1>1. CASE Start
  BY <1>1 DEF Start, Launch
<1>2. CASE Stop \/ Join \/ Destroy
  BY <1>2 DEF Stop, Join, Destroy, ownerVars
<1>3. CASE JoinReturns \/ DestroyThread
  BY <1>3 DEF JoinReturns, DestroyThread, WaitReturns
<1>4. CASE RunBegins \/ InitReturns \/ OnTimerReturns \/ LoopRunsDry \/ Cleanup \/ RunEnds
  BY <1>4 DEF RunBegins, InitReturns, OnTimerReturns, LoopRunsDry, Cleanup, RunEnds, ownerVars
<1>5. ASSUME NEW i \in Ids, NEW k \in {"first", "plain", "single"}, AddTimer(i, k)
      PROVE  Waited'
  BY <1>5 DEF AddTimer, ownerVars
<1>6. ASSUME NEW i \in Ids, DelTimer(i) \/ OnTimer(i) \/ OnTimerStopped(i)
      PROVE  Waited'
  BY <1>6 DEF DelTimer, OnTimer, OnTimerStopped, Due, ownerVars
<1>7. CASE UNCHANGED vars
  BY <1>7 DEF vars
<1> QED
  BY <1>1, <1>2, <1>3, <1>4, <1>5, <1>6, <1>7 DEF Next

LEMMA InvStep ==
    ASSUME Inv, Waited, [Next]_vars
    PROVE  Inv'
<1>1. CASE Start
  BY <1>1, InvQuiet DEF Start, Launch, threadVars, Waited
<1>2. CASE Stop \/ Join \/ Destroy
  BY <1>2, InvQuiet DEF Stop, Join, Destroy, threadVars
<1>3. CASE JoinReturns \/ DestroyThread
  BY <1>3, InvQuiet DEF JoinReturns, DestroyThread, WaitReturns, threadVars
<1>4. CASE RunBegins \/ InitReturns \/ OnTimerReturns \/ LoopRunsDry \/ RunEnds
  BY <1>4, InvQuiet
  DEF RunBegins, InitReturns, OnTimerReturns, LoopRunsDry, RunEnds, threadVars
<1>5. CASE Cleanup
  BY <1>5, InvCleanup
<1>6. ASSUME NEW i \in Ids, NEW k \in {"first", "plain", "single"}, AddTimer(i, k)
      PROVE  Inv'
  BY <1>6, InvAdd
<1>7. ASSUME NEW i \in Ids, DelTimer(i) \/ OnTimer(i) \/ OnTimerStopped(i)
      PROVE  Inv'
  BY <1>7, InvDel, InvOnTimer, InvOnTimerStopped
<1>8. CASE UNCHANGED vars
  BY <1>8, InvQuiet DEF vars
<1> QED
  BY <1>1, <1>2, <1>3, <1>4, <1>5, <1>6, <1>7, <1>8 DEF Next

\* What follows holds in every reachable state.
LEMMA InvAlways == Spec => [](Inv /\ Waited)
<1>1. Init => Inv /\ Waited
  BY InvInit, WaitedInit
<1>2. Inv /\ Waited /\ [Next]_vars => (Inv /\ Waited)'
  BY InvStep, WaitedStep
<1> QED
  BY <1>1, <1>2, PTL DEF Spec

\* libevent never holds an event whose timer was deleted: _onTimer is called
\* with data that delTimer and Base::loop have not freed.
THEOREM NoOrphanEvent == Spec => []ArmedTimersExist
<1>1. Inv => ArmedTimersExist
  BY DEF Inv
<1> QED
  BY <1>1, InvAlways, PTL

\* No call of _onTimer disarms a repeated timer, and the first shot of a timer
\* with an interval arms it for good.
THEOREM RepeatedTimersStay == Spec => TimersStayArmed
<1> DEFINE Kept == \A i \in Ids :
         thread = "loop" /\ thread' = "onTimer" /\ (timers[i] = "first" \/ armed[i] = "persist")
           => armed'[i] # "no" /\ (current' = i => armed'[i] = "persist")
<1>1. Inv /\ [Next]_vars => [Kept]_vars
  <2> SUFFICES ASSUME Inv, Next, thread = "loop", thread' = "onTimer"
               PROVE  Kept
    BY DEF vars
  <2>1. PICK j \in Ids : OnTimer(j)
    BY DEF Next, Start, Launch, Stop, Join, JoinReturns, WaitReturns, Destroy,
           DestroyThread, RunBegins, AddTimer, DelTimer, InitReturns,
           OnTimerReturns, OnTimerStopped, LoopRunsDry, Cleanup, RunEnds
  <2> QED
    BY <2>1 DEF OnTimer, Due, Inv, TimerTypes, FirstShotArmed
<1>2. Spec => [][Kept]_vars
  BY <1>1, InvAlways, PTL DEF Spec
<1> QED
  BY <1>2 DEF TimersStayArmed

-----------------------------------------------------------------------------
(* The owner that destroys the worker.                                      *)

\* Data is freed under the thread's feet only by ~Base, when the thread was
\* not joined and is in Base::loop; there it stays until it uses the data.
FreedInUse ==
    freed # {} =>
        /\ BaseGone /\ impl = "active"
        /\ fatal \/ thread \notin {"none", "setup", "lower", "ended"}

\* A thread that has used it does not get to its end.
FatalInUse ==
    fatal => BaseGone /\ impl = "active" /\ thread # "ended"

DestroyInv == FreedInUse /\ FatalInUse

\* The steps of the owner.
LEMMA DestroyInvOwner ==
    ASSUME Inv, Waited, DestroyInv,
           Start \/ Stop \/ Join \/ JoinReturns \/ Destroy \/ DestroyThread
    PROVE  DestroyInv'
<1> USE DEF DestroyInv, FreedInUse, FatalInUse, BaseGone
<1>1. CASE Start \/ Stop \/ Join \/ JoinReturns
  BY <1>1 DEF Start, Stop, Join, JoinReturns, threadVars
<1>2. CASE Destroy
  <2>1. freed = {} /\ ~fatal
    BY <1>2 DEF Destroy
  <2>2. ~fatal'
    BY <1>2, <2>1 DEF Destroy
  <2>3. ASSUME NEW i \in freed'
        PROVE  impl = "active" /\ thread \notin {"none", "setup", "lower", "ended"}
    BY <1>2, <2>3 DEF Destroy, Inv, MapEmpty, Waited
  <2> QED
    BY <1>2, <2>2, <2>3 DEF Destroy
<1>3. CASE DestroyThread
  <2>1. freed = {} /\ ~fatal
    BY <1>3 DEF DestroyThread, WaitReturns
  <2> QED
    BY <1>3, <2>1 DEF DestroyThread, threadVars
<1> QED
  BY <1>1, <1>2, <1>3

\* The steps of the thread.
LEMMA DestroyInvThread ==
    ASSUME Waited, DestroyInv, UNCHANGED <<ownerVars, freed>>, ~fatal,
           thread \notin {"none", "ended"},
           fatal' => BaseGone \/ freed # {},
           thread' # "ended" \/ ~fatal',
           freed # {} => fatal' \/ thread' \notin {"none", "setup", "lower", "ended"}
    PROVE  DestroyInv'
  BY DEF Waited, DestroyInv, FreedInUse, FatalInUse, BaseGone, ownerVars

LEMMA DestroyInvStep ==
    ASSUME Inv, Waited, DestroyInv, [Next]_vars
    PROVE  DestroyInv'
<1>1. CASE Start \/ Stop \/ Join \/ JoinReturns \/ Destroy \/ DestroyThread
  BY <1>1, DestroyInvOwner
<1>2. CASE RunBegins
  BY <1>2, DestroyInvThread DEF RunBegins, DestroyInv, FreedInUse
<1>3. CASE InitReturns \/ OnTimerReturns \/ LoopRunsDry
  BY <1>3, DestroyInvThread DEF InitReturns, OnTimerReturns, LoopRunsDry, threadVars
<1>4. CASE Cleanup
  BY <1>4, DestroyInvThread DEF Cleanup, DestroyInv, FreedInUse
<1>5. CASE RunEnds
  BY <1>5, DestroyInvThread DEF RunEnds, DestroyInv, FreedInUse
<1>6. ASSUME NEW i \in Ids, NEW k \in {"first", "plain", "single"}, AddTimer(i, k)
      PROVE  DestroyInv'
  BY <1>6, DestroyInvThread DEF AddTimer
<1>7. ASSUME NEW i \in Ids, DelTimer(i) \/ OnTimer(i) \/ OnTimerStopped(i)
      PROVE  DestroyInv'
  <2>1. CASE DelTimer(i)
    BY <2>1, DestroyInvThread DEF DelTimer
  <2>2. CASE OnTimer(i) \/ OnTimerStopped(i)
    BY <2>2, DestroyInvThread DEF OnTimer, OnTimerStopped, Due
  <2> QED
    BY <1>7, <2>1, <2>2
<1>8. CASE UNCHANGED vars
  BY <1>8 DEF vars, DestroyInv, FreedInUse, FatalInUse, BaseGone
<1> QED
  BY <1>1, <1>2, <1>3, <1>4, <1>5, <1>6, <1>7, <1>8 DEF Next

\* Whatever the owner does, with the destructor at any point of the thread's
\* life: members of Base are used after ~Base, and its data deleted twice, only
\* if the thread was not joined.  So join() before the destructor is enough, in
\* every life of the worker.  (Without it the destructor is too late, see
\* NotDestroyedInUse.)
THEOREM JoinedBeforeDestroyed == Spec => []SafeOnceJoined
<1>1. Init => DestroyInv
  BY DEF Init, DestroyInv, FreedInUse, FatalInUse
<1>2. Inv /\ Waited /\ DestroyInv /\ [Next]_vars => DestroyInv'
  BY DestroyInvStep
<1>3. DestroyInv => SafeOnceJoined
  BY DEF DestroyInv, FatalInUse, SafeOnceJoined
<1> QED
  BY <1>1, <1>2, <1>3, InvAlways, PTL DEF Spec
-----------------------------------------------------------------------------
(* The type invariant.                                                      *)

Flags == running \in BOOLEAN /\ stops \in BOOLEAN /\ fatal \in BOOLEAN

Places ==
    /\ owner \in {"free", "joining", "deleting", "gone"}
    /\ impl \in {"null", "active", "inactive"}
    /\ thread \in Phases
    /\ current \in Ids \cup {NoTimer}
    /\ freed \subseteq Ids
    /\ starts \in 0..MaxStarts

\* A test that a step leaves in fatal is a truth value.
LEMMA Tests ==
    ASSUME NEW i
    PROVE  BaseGone \in BOOLEAN /\ (i \in freed) \in BOOLEAN /\ (freed # {}) \in BOOLEAN
  BY DEF BaseGone

LEMMA FlagsStep ==
    ASSUME Flags, [Next]_vars
    PROVE  Flags'
<1> USE DEF Flags
<1>1. CASE Start \/ Stop \/ Join \/ JoinReturns \/ DestroyThread
  BY <1>1, Zenon DEF Start, Stop, Join, JoinReturns, DestroyThread, threadVars
<1>2. CASE Destroy
  BY <1>2, Tests, Zenon DEF Destroy
<1>3. CASE InitReturns \/ OnTimerReturns \/ LoopRunsDry \/ RunEnds
  BY <1>3, Zenon DEF InitReturns, OnTimerReturns, LoopRunsDry, RunEnds, threadVars
<1>4. CASE RunBegins
  BY <1>4, Tests, Zenon DEF RunBegins
<1>5. CASE Cleanup
  BY <1>5, Tests, Zenon DEF Cleanup
<1>6. ASSUME NEW i \in Ids, NEW k, AddTimer(i, k)
      PROVE  Flags'
  BY <1>6, Tests, Zenon DEF AddTimer
<1>7. ASSUME NEW i \in Ids, DelTimer(i)
      PROVE  Flags'
  BY <1>7, Tests, Zenon DEF DelTimer
<1>8. ASSUME NEW i \in Ids, OnTimer(i)
      PROVE  Flags'
  BY <1>8, Tests, Zenon DEF OnTimer
<1>9. ASSUME NEW i \in Ids, OnTimerStopped(i)
      PROVE  Flags'
  BY <1>9, Tests, Zenon DEF OnTimerStopped
<1>10. CASE UNCHANGED vars
  BY <1>10, Zenon DEF vars
<1> QED
  BY <1>1, <1>2, <1>3, <1>4, <1>5, <1>6, <1>7, <1>8, <1>9, <1>10 DEF Next

LEMMA PlacesStep ==
    ASSUME Places, [Next]_vars
    PROVE  Places'
<1> USE DEF Places, Phases
<1>1. CASE Start
  BY <1>1, WorkerAssumption DEF Start, Launch, threadVars
<1>2. CASE Stop \/ Join \/ JoinReturns \/ Destroy \/ DestroyThread
  BY <1>2 DEF Stop, Join, JoinReturns, Destroy, DestroyThread, WaitReturns, ownerVars, threadVars
<1>3. CASE RunBegins \/ InitReturns \/ OnTimerReturns \/ LoopRunsDry \/ Cleanup \/ RunEnds
  BY <1>3
  DEF RunBegins, InitReturns, OnTimerReturns, LoopRunsDry, Cleanup, RunEnds, ownerVars, threadVars
<1>4. ASSUME NEW i \in Ids, NEW k, AddTimer(i, k)
      PROVE  Places'
  BY <1>4 DEF AddTimer, ownerVars
<1>5. ASSUME NEW i \in Ids, DelTimer(i) \/ OnTimer(i) \/ OnTimerStopped(i)
      PROVE  Places'
  BY <1>5 DEF DelTimer, OnTimer, OnTimerStopped, ownerVars
<1>6. CASE UNCHANGED vars
  BY <1>6 DEF vars
<1> QED
  BY <1>1, <1>2, <1>3, <1>4, <1>5, <1>6 DEF Next

\* The state of a worker keeps its types, and the map of timers is empty
\* whenever its thread is outside Base::loop.
THEOREM WorkerTypesKept == Spec => []TypeOK
<1>1. Init => Flags
  BY Zenon DEF Init, Flags
<1>2. Init => Places
  BY WorkerAssumption DEF Init, Places, Phases
<1>3. Inv /\ Flags /\ Places => TypeOK
  BY DEF Inv, TimerTypes, MapEmpty, Flags, Places, TypeOK
<1> QED
  BY <1>1, <1>2, <1>3, InvAlways, FlagsStep, PlacesStep, PTL DEF Spec

-----------------------------------------------------------------------------
(* The parts together.                                                      *)

\* A step of the whole is one of each part, or leaves the part alone: no part
\* moves another's state.
LEMMA PartSteps ==
    ASSUME [ClientNext]_ClientVars
    PROVE  [Next]_vars /\ [NetNext]_cnVars /\ [MqNext]_mqVars
  BY Zenon DEF ClientNext, ClientVars

\* The client's parts keep their types while they run side by side: none of
\* the worker thread, the framing loop and the message queue, whose shared
\* process is all they have in common, disturbs what another relies on.
THEOREM ClientTypesKept == ClientSpec => []ClientTypeOK
<1>1. ClientSpec => Init /\ NetInit /\ MqInit /\ [][ClientNext]_ClientVars
  BY DEF ClientSpec, ClientInit
<1>2. ClientSpec => [][Next]_vars /\ [][NetNext]_cnVars /\ [][MqNext]_mqVars
  BY <1>1, PartSteps, PTL
<1>3. ClientSpec => Spec /\ NetSpec /\ MqSpec
  BY <1>1, <1>2, PTL DEF Spec, NetSpec, MqSpec
<1>4. TypeOK /\ NetTypeOK /\ MqTypeOK => ClientTypeOK
  BY DEF ClientTypeOK
<1> QED
  BY <1>3, <1>4, WorkerTypesKept, BufferNeverOverflows, TypeCorrect, PTL
=============================================================================

-------------------------------- MODULE Timer --------------------------------
(***************************************************************************)
(* System::Timer (System/Timer.h, System/Timer.cpp): timers in a binary heap *)
(* ordered by the next time they are due.  The heap is its set of members    *)
(* and its front: push_heap moves a new member to the front only if it is    *)
(* due strictly earlier, pop_heap puts any of the earliest members there.    *)
(*                                                                          *)
(* process() is a loop around the virtual onTimer(), which may add and       *)
(* remove timers; each turn and each return of a callback is a step.  Time   *)
(* does not go back.  When process() has deleted the last timer it still     *)
(* looks at _timers.front(): the outcome is undefined, and here it ends the  *)
(* behaviour (tmPc "undefined").                                             *)
(***************************************************************************)
EXTENDS Integers

CONSTANTS TimerCells,   \* addresses of TimerStruct objects
          NoTimer,      \* no address
          Intervals,    \* the intervals callers pass
          Counts,       \* the counts callers pass; -1 is for ever
          MaxTime       \* bound: the last second of the clock

ASSUME TimerAssumption ==
    /\ NoTimer \notin TimerCells
    /\ Intervals \subseteq Nat \ {0}
    /\ Counts \subseteq Nat \cup {-1}
    /\ MaxTime \in Nat

VARIABLES clock,     \* TimeUtil::Now()
          heap,      \* the members of _timers
          front,     \* _timers.front()
          td,        \* the fields of each TimerStruct, and for the properties
                     \* the count asked for and the firings so far
          tmPc,      \* where process() is
          passNow,   \* its local "now"
          lastDue    \* history: when the timer fired last was due

tmVars == <<clock, heap, front, td, tmPc, passNow, lastDue>>

\* What a cell shows that holds no timer.
Blank == [timeNext |-> 0, interval |-> 0, count |-> 0, asked |-> 0, fired |-> 0]

TmInit ==
    /\ clock = 0
    /\ heap = {}
    /\ front = NoTimer
    /\ td = [c \in TimerCells |-> Blank]
    /\ tmPc = "idle"
    /\ passNow = 0
    /\ lastDue = 0

\* timerCompare: the members one of which pop_heap brings to the front.
Earliest(H, f) == {c \in H : \A d \in H : f[c].timeNext <= f[d].timeNext}

\* The front after a pop_heap, and after a push_heap of the popped member.
NewFront(H, f) ==
    front' \in IF H = {} THEN {NoTimer} ELSE Earliest(H, f)

\* Mutant: push_heap is forgotten, and the new timer left where it is put:
\* in front of an empty heap, behind all others of another.
PushedFrontStays(c, next) == IF heap = {} THEN c ELSE front

\* push_heap: the front, given a new member c that is due at next.
PushedFront(c, next) ==
    IF heap = {} \/ next < td[front].timeNext THEN c ELSE front

\* Calls come from outside process() or from inside a callback.
MayCall == tmPc \in {"idle", "callback"}

\* Mutant: the first interval is not counted from now.
AddFromZero(c, interval, first, count) ==
    /\ MayCall
    /\ c \notin heap
    /\ td' = [td EXCEPT ![c] = [timeNext |-> first, interval |-> interval,
                                count |-> count, asked |-> count,
                                fired |-> 0]]
    /\ heap' = heap \cup {c}
    /\ front' = PushedFront(c, first)
    /\ UNCHANGED <<clock, tmPc, passNow, lastDue>>

\* add(interval, firstInterval, data, count); add(interval, data, count) is
\* the case that first is the interval.
Add(c, interval, first, count) ==
    /\ MayCall
    /\ c \notin heap
    /\ td' = [td EXCEPT ![c] = [timeNext |-> clock + first,
                                interval |-> interval,
                                count |-> count, asked |-> count,
                                fired |-> 0]]
    /\ heap' = heap \cup {c}
    /\ front' = PushedFront(c, clock + first)
    /\ UNCHANGED <<clock, tmPc, passNow, lastDue>>

\* remove(timer), by a caller that knows the timer is still there.
Remove(c) ==
    /\ MayCall
    /\ c \in heap
    /\ td' = [td EXCEPT ![c].count = 0]
    /\ UNCHANGED <<clock, heap, front, tmPc, passNow, lastDue>>

\* process() up to its loop.
Process ==
    /\ tmPc = "idle"
    /\ heap # {}
    /\ passNow' = clock
    /\ tmPc' = "loop"
    /\ UNCHANGED <<clock, heap, front, td, lastDue>>

LoopUndefined ==
    /\ tmPc = "loop"
    /\ heap = {}
    /\ tmPc' = "undefined"
    /\ UNCHANGED <<clock, heap, front, td, passNow, lastDue>>

\* A timer whose count is 0 was removed: it goes, due or not.
LoopDiscard ==
    /\ tmPc = "loop"
    /\ heap # {}
    /\ td[front].count = 0
    /\ heap' = heap \ {front}
    /\ td' = [td EXCEPT ![front] = Blank]
    /\ NewFront(heap', td)
    /\ UNCHANGED <<clock, tmPc, passNow, lastDue>>

\* Firings are counted for timers that have a limit.
Counted(c) == td[c].fired + (IF td[c].asked > 0 THEN 1 ELSE 0)

\* A timer that is due: its count goes down and onTimer() begins.
LoopFire ==
    /\ tmPc = "loop"
    /\ heap # {}
    /\ td[front].count # 0
    /\ passNow >= td[front].timeNext
    /\ td' = [td EXCEPT ![front].count = IF @ > 0 THEN @ - 1 ELSE @,
                        ![front].fired = Counted(front)]
    /\ tmPc' = "callback"
    /\ lastDue' = td[front].timeNext
    /\ UNCHANGED <<clock, heap, front, passNow>>

LoopEnd ==
    /\ tmPc = "loop"
    /\ heap # {}
    /\ td[front].count # 0
    /\ passNow < td[front].timeNext
    /\ tmPc' = "idle"
    /\ UNCHANGED <<clock, heap, front, td, passNow, lastDue>>

\* onTimer() returned: the timer is popped, and deleted or put back with its
\* next time.  pop_heap takes the front, whatever the callback did to it.
CallbackReturns ==
    /\ tmPc = "callback"
    /\ tmPc' = "loop"
    /\ IF td[front].count = 0
       THEN /\ heap' = heap \ {front}
            /\ td' = [td EXCEPT ![front] = Blank]
       ELSE /\ td' = [td EXCEPT ![front].timeNext = @ + td[front].interval]
            /\ UNCHANGED heap
    /\ NewFront(heap', td')
    /\ UNCHANGED <<clock, passNow, lastDue>>

\* ~Timer() deletes the timers that are left.
Delete ==
    /\ tmPc = "idle"
    /\ heap' = {}
    /\ front' = NoTimer
    /\ td' = [c \in TimerCells |-> Blank]
    /\ UNCHANGED <<clock, tmPc, passNow, lastDue>>

Tick ==
    /\ clock < MaxTime
    /\ tmPc # "undefined"
    /\ clock' = clock + 1
    /\ UNCHANGED <<heap, front, td, tmPc, passNow, lastDue>>

TmNext ==
    \/ \E c \in TimerCells, i \in Intervals, f \in Intervals \cup {0},
          n \in Counts : Add(c, i, f, n)
    \/ \E c \in TimerCells : Remove(c)
    \/ Process \/ LoopUndefined \/ LoopDiscard \/ LoopFire \/ LoopEnd
    \/ CallbackReturns
    \/ Delete
    \/ Tick

TmSpec == TmInit /\ [][TmNext]_tmVars

-----------------------------------------------------------------------------
TimerFields == [timeNext : Nat, interval : Nat, count : Int, asked : Int,
                fired : Nat]

TmTypeOK ==
    /\ clock \in 0..MaxTime /\ passNow \in 0..MaxTime
    /\ heap \subseteq TimerCells
    /\ front \in TimerCells \cup {NoTimer}
    /\ heap = {} <=> front = NoTimer
    /\ front # NoTimer => front \in heap
    /\ td \in [TimerCells -> TimerFields]
    /\ tmPc \in {"idle", "loop", "callback", "undefined"}
    /\ lastDue \in Nat

\* What process() pops after onTimer() is the timer it called onTimer() for:
\* nothing the callback adds gets in front of it, because it cannot be due
\* earlier than a timer that is already due.
PoppedIsFired ==
    tmPc = "callback" => lastDue = td[front].timeNext /\ front \in Earliest(heap, td)

\* Timers fire in the order in which they are due, across calls of process()
\* and with timers added and put back in between.
DueOrder == [][lastDue' >= lastDue]_tmVars

\* When process() comes back no timer that was due is still waiting.
NothingDueLeft ==
    [][tmPc = "loop" /\ tmPc' = "idle" =>
         \A c \in heap : td[c].count # 0 => td[c].timeNext > passNow]_tmVars

\* A timer added for n firings fires n times at most, and one that is removed
\* does not fire again, also when the callback of another removes it.
NeverTooOften ==
    \A c \in heap : td[c].asked > 0 =>
        td[c].fired + (IF td[c].count > 0 THEN td[c].count ELSE 0) <= td[c].asked

\* The timer that onTimer() is called for is the one that is counted down and
\* popped, and no timer fires more often than it was asked to.
FiresAsAsked == TmTypeOK /\ PoppedIsFired /\ NeverTooOften

\* One call of process() fires all that is due, in order.
TimersInOrder == DueOrder /\ NothingDueLeft
=============================================================================

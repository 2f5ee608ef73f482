------------------------------ MODULE EventBase ------------------------------
(***************************************************************************)
(* The event base of libevent (event/event.c, evmap.c, epoll.c), on which    *)
(* the TCP clients and the workers run: one thread runs event_base_loop(),   *)
(* its callbacks and other threads add, delete and activate events, schedule *)
(* deferred callbacks and break or exit the loop.  Locking is on             *)
(* (evthread_use_pthreads): the base's lock is held wherever loop.pc is not  *)
(* "out", "dispatch", "woken", "callback" or "defcallback".                  *)
(*                                                                          *)
(* eb is what the queues hold; the queues of all priorities are one sequence *)
(* in the order of activation.  Every event has a descriptor of its own.     *)
(* Signals, common timeouts and event_reinit() are left out.                 *)
(***************************************************************************)
EXTENDS Integers, Sequences, FiniteSets

CONSTANTS Events,      \* the user's events
          Io,          \* those with EV_READ
          Persistent,  \* those with EV_PERSIST
          Pri,         \* ev_pri of each event
          NPri,        \* nactivequeues
          NotifyEv,    \* th_notify: internal, EV_READ|EV_PERSIST, priority 0
          ExitEv,      \* the event of event_base_loopexit(), one-shot
          Deferred,    \* deferred callbacks
          MaxDeferred, \* MAX_DEFERRED
          Threads,     \* the threads that do not run the loop
          Loop,        \* the thread that does
          NoEvent,
          Intervals,   \* the timeouts callers pass
          Flags,       \* the arguments of event_base_loop(): "0", "once", "nonblock"
          MaxTime,     \* bound: the end of the clock
          MaxLoops,    \* bound: calls of event_base_loop()
          MaxCalls     \* bound: calls of the other functions

AllEvents == Events \cup {NotifyEv}

ASSUME EventBaseAssumption ==
    /\ Io \subseteq Events /\ Persistent \subseteq Events
    /\ ExitEv \in Events \ (Io \cup Persistent)
    /\ NotifyEv \notin Events /\ NoEvent \notin AllEvents
    /\ NPri \in Nat \ {0} /\ MaxDeferred \in Nat \ {0}
    /\ Pri \in [AllEvents -> 0 .. NPri - 1] /\ Pri[NotifyEv] = 0
    /\ Loop \notin Threads
    /\ Intervals \subseteq Nat
    /\ MaxTime \in Nat /\ MaxLoops \in Nat /\ MaxCalls \in Nat

None == -1       \* no timeout, no cached time, no running priority
Forever == -1    \* epoll_wait without a timeout

VARIABLES eb,        \* the queues of the base
          loop,      \* the state of event_base_loop()
          clock,     \* CLOCK_MONOTONIC
          readable,  \* the events whose descriptor has something to read
          del,       \* the event each thread is deleting while its callback
                     \* runs, and whether it still sleeps
          calls,     \* number of calls so far
          wanted,    \* history: events added or activated since they were
                     \* deleted or, if one-shot, since they were run
          freed,     \* history: events event_del() has returned for, since
                     \* when nobody has touched them
          sinceBreak \* history: callbacks begun since event_base_loopbreak()

ebVars == <<eb, loop, clock, readable, del, calls, wanted, freed, sinceBreak>>

Items(s) == {s[i] : i \in 1 .. Len(s)}

\* TAILQ_REMOVE.
Without(s, e) ==
    IF e \notin Items(s) THEN s
    ELSE LET p == CHOOSE i \in 1 .. Len(s) : s[i] = e
         IN  [i \in 1 .. Len(s) - 1 |-> IF i < p THEN s[i] ELSE s[i + 1]]

-----------------------------------------------------------------------------
(* The functions that need the lock, as operators from eb to eb.  n says     *)
(* that EVBASE_NEED_NOTIFY holds for the caller.                             *)

\* Mutant: whoever finds the loop asleep leaves the wake-up to the next one.
NotifiedLater(b, n) == IF n THEN [b EXCEPT !.pending = TRUE, !.byte = @ \/ b.pending] ELSE b

\* evthread_notify_base.
Notified(b, n) ==
    IF n /\ ~b.pending THEN [b EXCEPT !.pending = TRUE, !.byte = TRUE] ELSE b

\* event_del_internal, past the wait for the callback.
Deleted(b, e, n) ==
    Notified([b EXCEPT !.heap = @ \ {e}, !.active = Without(@, e),
                       !.inserted = @ \ {e}],
             n /\ e \in b.inserted)

\* Mutant: an event of a higher priority does not stop the queue that is run.
ActivatedWaitsForQueue(b, e, why, n) ==
    IF e \in Items(b.active)
    THEN [b EXCEPT !.res[e] = @ \cup {why}]
    ELSE Notified([b EXCEPT !.active = Append(@, e), !.res[e] = {why}], n)

\* event_active_nolock.
Activated(b, e, why, n) ==
    IF e \in Items(b.active)
    THEN [b EXCEPT !.res[e] = @ \cup {why}]
    ELSE Notified([b EXCEPT !.active = Append(@, e),
                            !.res[e] = {why},
                            !.continue = @ \/ Pri[e] < loop.running], n)

\* The events that may be min_heap_top().
Top(b) == {e \in b.heap : \A d \in b.heap : b.timeoutAt[e] <= b.timeoutAt[d]}

\* The first half of event_add_internal: the descriptor is registered.
Registered(b, e) ==
    IF e \in Io /\ e \notin b.inserted \cup Items(b.active)
    THEN [b EXCEPT !.inserted = @ \cup {e}] ELSE b

\* The second half: the timeout, at an absolute time.
Scheduled(b, e, at) ==
    [b EXCEPT !.timeoutAt[e] = at,
              !.heap = @ \cup {e},
              !.active = IF "timeout" \in b.res[e] THEN Without(@, e) ELSE @]

\* Mutant: a new descriptor wakes the loop, and a new earliest timeout does
\* not.
AddedNotifiesNewOnly(b, e, at, n) ==
    LET r == Registered(b, e)
    IN  Notified(IF at = None THEN r ELSE Scheduled(r, e, at),
                 n /\ r.inserted # b.inserted)

\* event_add_internal.  It wakes the loop for a new descriptor, for a timeout
\* that was the earliest and for one that now is.
Added(b, e, at, n) ==
    LET r == Registered(b, e)
        s == IF at = None THEN r ELSE Scheduled(r, e, at)
    IN  Notified(s, n /\ \/ r.inserted # b.inserted
                         \/ at # None /\ (e \in Top(b) \/ e \in Top(s)))

\* event_add: the interval a persistent event remembers.
Remembers(b, e, tv) ==
    IF tv # None /\ e \in Persistent THEN [b EXCEPT !.ioTimeout[e] = tv] ELSE b

\* gettime(): the cached time if there is one.
Now == IF loop.cache = None THEN clock ELSE loop.cache

\* event_haveevents: event_count counts the queue entries of user events.
HaveEvents ==
    (eb.inserted \cup eb.heap \cup Items(eb.active)) \cap Events # {}

\* N_ACTIVE_CALLBACKS.
NActive == eb.active # <<>> \/ eb.deferred # <<>>

-----------------------------------------------------------------------------
EbInit ==
    /\ eb = [inserted |-> {NotifyEv},
             heap |-> {},
             timeoutAt |-> [e \in Events |-> 0],
             ioTimeout |-> [e \in Events |-> 0],
             active |-> <<>>,
             res |-> [e \in AllEvents |-> {}],
             deferred |-> <<>>,
             continue |-> FALSE,
             pending |-> FALSE,
             byte |-> FALSE]
    /\ loop = [pc |-> "out", flags |-> "0", break |-> FALSE, gotterm |-> FALSE,
               cache |-> None, until |-> 0, slow |-> 0, ready |-> {},
               current |-> NoEvent, scan |-> 0, running |-> None, real |-> FALSE,
               ndeferred |-> 0, starts |-> 0]
    /\ clock = 0
    /\ readable = {}
    /\ del = [t \in Threads |-> [ev |-> NoEvent, asleep |-> FALSE]]
    /\ calls = 0
    /\ wanted = {}
    /\ freed = {}
    /\ sinceBreak = 0

Running == loop.pc # "out"

\* Where the loop does not hold the lock.
Unlocked == loop.pc \in {"out", "dispatch", "woken", "callback", "defcallback"}

\* Who may call a function of the base: a callback of the user, a thread that
\* is not inside event_del(), and, while the loop does not run, its thread.
MayCall(t) ==
    /\ calls < MaxCalls
    /\ IF t = Loop
       THEN \/ loop.pc = "callback" /\ loop.current \in Events \ {ExitEv}
            \/ loop.pc \in {"defcallback", "out"}
       ELSE Unlocked /\ del[t].ev = NoEvent

NeedNotify(t) == Running /\ t # Loop

Counted == calls' = calls + 1

\* event_add(e, tv), and event_base_loopexit(tv) when e is ExitEv.
Add(t, e, tv) ==
    /\ MayCall(t) /\ Counted
    /\ tv = None => e \in Io
    /\ e = ExitEv => e \notin eb.heap \cup Items(eb.active)
    /\ eb' = Added(Remembers(eb, e, tv), e,
                   IF tv = None THEN None ELSE Now + tv, NeedNotify(t))
    /\ wanted' = wanted \cup {e}
    /\ freed' = freed \ {e}
    /\ UNCHANGED <<loop, clock, readable, del, sinceBreak>>

\* What is left of event_del() once no callback is in the way.
FinishDel(t, e) ==
    /\ eb' = Deleted(eb, e, NeedNotify(t))
    /\ wanted' = wanted \ {e}
    /\ freed' = IF t = Loop THEN freed ELSE freed \cup {e}

\* event_del(e): from another thread it waits for e's callback to return.
Del(t, e) ==
    /\ MayCall(t) /\ Counted
    /\ e # ExitEv
    /\ IF t # Loop /\ loop.current = e
       THEN /\ del' = [del EXCEPT ![t] = [ev |-> e, asleep |-> TRUE]]
            /\ UNCHANGED <<eb, wanted, freed>>
       ELSE FinishDel(t, e) /\ UNCHANGED del
    /\ UNCHANGED <<loop, clock, readable, sinceBreak>>

\* The thread has the lock again; it does not look at current_event again.
DelWakes(t) ==
    /\ del[t].ev # NoEvent /\ ~del[t].asleep
    /\ Unlocked
    /\ FinishDel(t, del[t].ev)
    /\ del' = [del EXCEPT ![t].ev = NoEvent]
    /\ UNCHANGED <<loop, clock, readable, calls, sinceBreak>>

\* event_active(e).
Active(t, e) ==
    /\ MayCall(t) /\ Counted
    /\ e # ExitEv
    /\ eb' = Activated(eb, e, "user", NeedNotify(t))
    /\ wanted' = wanted \cup {e}
    /\ freed' = freed \ {e}
    /\ UNCHANGED <<loop, clock, readable, del, sinceBreak>>

\* event_base_loopbreak().
Break(t) ==
    /\ MayCall(t) /\ Counted
    /\ loop' = [loop EXCEPT !.break = TRUE]
    /\ eb' = Notified(eb, NeedNotify(t))
    /\ sinceBreak' = 0
    /\ UNCHANGED <<clock, readable, del, wanted, freed>>

\* event_deferred_cb_schedule and event_deferred_cb_cancel.
Schedule(t, d) ==
    /\ MayCall(t) /\ Counted
    /\ d \notin Items(eb.deferred)
    /\ eb' = Notified([eb EXCEPT !.deferred = Append(@, d)], NeedNotify(t))
    /\ UNCHANGED <<loop, clock, readable, del, wanted, freed, sinceBreak>>

Cancel(t, d) ==
    /\ MayCall(t) /\ Counted
    /\ d \in Items(eb.deferred)
    /\ eb' = [eb EXCEPT !.deferred = Without(@, d)]
    /\ UNCHANGED <<loop, clock, readable, del, wanted, freed, sinceBreak>>

-----------------------------------------------------------------------------
(* event_base_loop.                                                          *)

Enter(flags) ==
    /\ loop.pc = "out"
    /\ loop.starts < MaxLoops
    /\ loop' = [loop EXCEPT !.pc = "top", !.flags = flags, !.break = FALSE,
                            !.gotterm = FALSE, !.cache = None,
                            !.starts = @ + 1]
    /\ UNCHANGED <<eb, clock, readable, del, calls, wanted, freed, sinceBreak>>

Left == [loop EXCEPT !.pc = "out", !.cache = None]

\* timeout_next: how long to sleep, by the cached time of the last turn.
SleepUntil ==
    IF NActive \/ loop.flags = "nonblock" THEN clock
    ELSE IF eb.heap = {} THEN Forever
    ELSE LET first == eb.timeoutAt[CHOOSE e \in Top(eb) : TRUE]
         IN  clock + (IF first <= Now THEN 0 ELSE first - Now)

\* The top of the loop: leave, or go to sleep in the backend.
Turn ==
    /\ loop.pc = "top"
    /\ eb' = [eb EXCEPT !.continue = FALSE]
    /\ loop' = IF loop.gotterm \/ loop.break \/ ~(HaveEvents \/ NActive)
               THEN Left
               ELSE [loop EXCEPT !.pc = "dispatch", !.until = SleepUntil,
                                 !.slow = clock - Now, !.cache = None]
    /\ UNCHANGED <<clock, readable, del, calls, wanted, freed, sinceBreak>>

\* epoll_wait returns, and the lock is not held yet.
Ready == eb.inserted \cap (readable \cup IF eb.byte THEN {NotifyEv} ELSE {})

Wake ==
    /\ loop.pc = "dispatch"
    /\ Ready # {} \/ (loop.until # Forever /\ clock >= loop.until)
    /\ loop' = [loop EXCEPT !.pc = "woken", !.ready = Ready,
                            !.until = 0, !.slow = 0]
    /\ UNCHANGED <<eb, clock, readable, del, calls, wanted, freed, sinceBreak>>

\* Mutant: evmap_io_active calls every event epoll_wait has reported.
ApplyReported(e) ==
    /\ loop.pc \in {"woken", "apply"}
    /\ e \in loop.ready
    /\ loop' = [loop EXCEPT !.pc = "apply", !.ready = @ \ {e}]
    /\ eb' = Activated(eb, e, "read", FALSE)
    /\ UNCHANGED <<clock, readable, del, calls, wanted, freed, sinceBreak>>

\* evmap_io_active for one descriptor: the event may be gone by now.
Apply(e) ==
    /\ loop.pc \in {"woken", "apply"}
    /\ e \in loop.ready
    /\ loop' = [loop EXCEPT !.pc = "apply", !.ready = @ \ {e}]
    /\ eb' = IF e \in eb.inserted THEN Activated(eb, e, "read", FALSE) ELSE eb
    /\ UNCHANGED <<clock, readable, del, calls, wanted, freed, sinceBreak>>

Applied ==
    /\ loop.pc \in {"woken", "apply"}
    /\ loop.ready = {}
    /\ loop' = [loop EXCEPT !.pc = "timeouts", !.cache = clock]
    /\ UNCHANGED <<eb, clock, readable, del, calls, wanted, freed, sinceBreak>>

\* timeout_process, one event at a time.
Due(e) == e \in Top(eb) /\ eb.timeoutAt[e] <= Now

Timeout(e) ==
    /\ loop.pc = "timeouts"
    /\ Due(e)
    /\ eb' = Activated(Deleted(eb, e, FALSE), e, "timeout", FALSE)
    /\ UNCHANGED <<loop, clock, readable, del, calls, wanted, freed, sinceBreak>>

TimeoutsDone ==
    /\ loop.pc = "timeouts"
    /\ ~ \E e \in Events : Due(e)
    /\ loop' = IF NActive
               THEN [loop EXCEPT !.pc = "process", !.scan = 0, !.real = FALSE]
               ELSE IF loop.flags = "nonblock" THEN Left
               ELSE [loop EXCEPT !.pc = "top"]
    /\ UNCHANGED <<eb, clock, readable, del, calls, wanted, freed, sinceBreak>>

-----------------------------------------------------------------------------
(* event_process_active.  loop.scan is the queue that is run or looked at     *)
(* next, loop.running is event_running_priority, loop.real says that a       *)
(* user's event was run.                                                     *)

\* The positions of the events of the queues from loop.scan on, and the one
\* that is at the head of the first queue that is not empty.
Waiting == {i \in 1 .. Len(eb.active) : Pri[eb.active[i]] >= loop.scan}
IsNext(i) ==
    /\ i \in Waiting
    /\ \A j \in Waiting :
         \/ Pri[eb.active[i]] < Pri[eb.active[j]]
         \/ Pri[eb.active[i]] = Pri[eb.active[j]] /\ i <= j

\* event_persist_closure: when the event is due again.
RunAt(e) ==
    LET from == IF "timeout" \in eb.res[e] THEN eb.timeoutAt[e] ELSE Now
        at == from + eb.ioTimeout[e]
    IN  IF at < Now THEN Now + eb.ioTimeout[e] ELSE at

\* What is done to an event of the active queue before its callback is called.
Unqueued(e) ==
    IF e = NotifyEv THEN [eb EXCEPT !.active = Without(@, e)]
    ELSE IF e \notin Persistent THEN Deleted(eb, e, FALSE)
    ELSE LET b == [eb EXCEPT !.active = Without(@, e)]
         IN  IF eb.ioTimeout[e] = 0 THEN b ELSE Added(b, e, RunAt(e), FALSE)

Process(i) ==
    /\ loop.pc = "process"
    /\ IsNext(i)
    /\ LET e == eb.active[i] IN
         /\ eb' = Unqueued(e)
         /\ loop' = [loop EXCEPT !.pc = "callback", !.current = e,
                                 !.running = Pri[e], !.scan = Pri[e],
                                 !.real = @ \/ e # NotifyEv]
         /\ wanted' = IF e \in Persistent THEN wanted ELSE wanted \ {e}
    /\ sinceBreak' = IF loop.break THEN sinceBreak + 1 ELSE 0
    /\ UNCHANGED <<clock, readable, del, calls, freed>>

\* The callback of an event takes what there is to read.
Consume ==
    /\ loop.pc = "callback"
    /\ loop.current \in readable
    /\ readable' = readable \ {loop.current}
    /\ UNCHANGED <<eb, loop, clock, del, calls, wanted, freed, sinceBreak>>

\* evthread_notify_drain_default, before it takes the lock.
Drain ==
    /\ loop.pc = "callback"
    /\ loop.current = NotifyEv
    /\ eb.byte
    /\ eb' = [eb EXCEPT !.byte = FALSE]
    /\ UNCHANGED <<loop, clock, readable, del, calls, wanted, freed, sinceBreak>>

\* Mutant: event_break is looked at only at the top of the loop.
AfterCallbackGoesOn(b, l) ==
    IF ~b.continue
       /\ \E i \in 1 .. Len(b.active) : Pri[b.active[i]] = l.running
    THEN [l EXCEPT !.pc = "process"]
    ELSE IF l.real THEN [l EXCEPT !.pc = "deferred", !.ndeferred = 0]
    ELSE [l EXCEPT !.pc = "process", !.scan = @ + 1]

\* What follows a callback: the same queue, the next one, the deferred
\* callbacks or the end of the pass.
AfterCallback(b, l) ==
    IF l.break THEN [l EXCEPT !.pc = "passend", !.real = TRUE, !.running = None]
    ELSE IF ~b.continue
            /\ \E i \in 1 .. Len(b.active) : Pri[b.active[i]] = l.running
    THEN [l EXCEPT !.pc = "process"]
    ELSE IF l.real THEN [l EXCEPT !.pc = "deferred", !.ndeferred = 0]
    ELSE [l EXCEPT !.pc = "process", !.scan = @ + 1]

\* Mutant: the broadcast to the threads inside event_del() is forgotten.
ReturnWakesNobody ==
    /\ loop.pc = "callback"
    /\ loop.current = NotifyEv => ~eb.byte
    /\ LET b == IF loop.current = NotifyEv
                THEN [eb EXCEPT !.pending = FALSE] ELSE eb
           term == loop.gotterm \/ loop.current = ExitEv
       IN  /\ eb' = b
           /\ loop' = AfterCallback(b, [loop EXCEPT !.current = NoEvent,
                                                    !.gotterm = term])
    /\ UNCHANGED <<clock, readable, del, calls, wanted, freed, sinceBreak>>

\* A callback returns and the lock is taken again; the base's own callback
\* clears is_notify_pending, event_loopexit_cb sets event_gotterm.
Return ==
    /\ loop.pc = "callback"
    /\ loop.current = NotifyEv => ~eb.byte
    /\ LET b == IF loop.current = NotifyEv
                THEN [eb EXCEPT !.pending = FALSE] ELSE eb
           term == loop.gotterm \/ loop.current = ExitEv
       IN  /\ eb' = b
           /\ loop' = AfterCallback(b, [loop EXCEPT !.current = NoEvent,
                                                    !.gotterm = term])
    /\ del' = [t \in Threads |-> [del[t] EXCEPT !.asleep = FALSE]]
    /\ UNCHANGED <<clock, readable, calls, wanted, freed, sinceBreak>>

\* No queue from loop.scan on has an event.
QueuesDone ==
    /\ loop.pc = "process"
    /\ Waiting = {}
    /\ loop' = [loop EXCEPT !.pc = "deferred", !.ndeferred = 0]
    /\ UNCHANGED <<eb, clock, readable, del, calls, wanted, freed, sinceBreak>>

\* event_process_deferred_callbacks.
RunDeferred ==
    /\ loop.pc = "deferred"
    /\ eb.deferred # <<>>
    /\ eb' = [eb EXCEPT !.deferred = Tail(@)]
    /\ loop' = [loop EXCEPT !.pc = "defcallback", !.ndeferred = @ + 1]
    /\ sinceBreak' = IF loop.break THEN sinceBreak + 1 ELSE 0
    /\ UNCHANGED <<clock, readable, del, calls, wanted, freed>>

DeferredReturns ==
    /\ loop.pc = "defcallback"
    /\ loop' = IF loop.break \/ loop.ndeferred = MaxDeferred
               THEN [loop EXCEPT !.pc = "passend", !.running = None,
                                 !.ndeferred = 0]
               ELSE [loop EXCEPT !.pc = "deferred"]
    /\ UNCHANGED <<eb, clock, readable, del, calls, wanted, freed, sinceBreak>>

DeferredDone ==
    /\ loop.pc = "deferred"
    /\ eb.deferred = <<>>
    /\ loop' = [loop EXCEPT !.pc = "passend", !.running = None, !.ndeferred = 0]
    /\ UNCHANGED <<eb, clock, readable, del, calls, wanted, freed, sinceBreak>>

PassEnd ==
    /\ loop.pc = "passend"
    /\ loop' = IF loop.flags = "once" /\ ~NActive /\ loop.real
               THEN [Left EXCEPT !.real = FALSE]
               ELSE [loop EXCEPT !.pc = "top", !.real = FALSE]
    /\ UNCHANGED <<eb, clock, readable, del, calls, wanted, freed, sinceBreak>>

-----------------------------------------------------------------------------
(* The world: time passes and data arrives.                                  *)

Tick ==
    /\ clock < MaxTime
    /\ clock' = clock + 1
    /\ UNCHANGED <<eb, loop, readable, del, calls, wanted, freed, sinceBreak>>

Arrive(e) ==
    /\ e \in Io \ readable
    /\ calls < MaxCalls /\ Counted
    /\ readable' = readable \cup {e}
    /\ UNCHANGED <<eb, loop, clock, del, wanted, freed, sinceBreak>>

Call(t) ==
    \/ \E e \in Events : \/ \E tv \in Intervals \cup {None} : Add(t, e, tv)
                         \/ Del(t, e) \/ Active(t, e)
    \/ Break(t)
    \/ \E d \in Deferred : Schedule(t, d) \/ Cancel(t, d)

LoopStep ==
    \/ Turn \/ Wake \/ Applied \/ TimeoutsDone \/ QueuesDone \/ Drain \/ Return
    \/ RunDeferred \/ DeferredReturns \/ DeferredDone \/ PassEnd
    \/ \E e \in AllEvents : Apply(e)
    \/ \E e \in Events : Timeout(e)
    \/ \E i \in 1 .. Len(eb.active) : Process(i)

EbNext ==
    \/ LoopStep
    \/ \E f \in Flags : Enter(f)
    \/ \E t \in Threads \cup {Loop} : Call(t)
    \/ \E t \in Threads : DelWakes(t)
    \/ Consume
    \/ Tick
    \/ \E e \in Io : Arrive(e)

EbSpec == EbInit /\ [][EbNext]_ebVars

(***************************************************************************)
(* Fairness: the loop's thread runs and callbacks return, and a thread that  *)
(* was woken inside event_del() gets the lock in the end, although the loop  *)
(* takes and releases it all the time.  Nobody has to call anything, and no  *)
(* data has to arrive.                                                       *)
(***************************************************************************)
EbFair ==
    /\ WF_ebVars(LoopStep)
    /\ \A t \in Threads : SF_ebVars(DelWakes(t))

EbFairSpec == EbSpec /\ EbFair

-----------------------------------------------------------------------------
LoopPcs == {"out", "top", "dispatch", "woken", "apply", "timeouts", "process",
            "callback", "deferred", "defcallback", "passend"}

EbTypeOK ==
    /\ eb.inserted \subseteq Io \cup {NotifyEv} /\ eb.heap \subseteq Events
    /\ eb.timeoutAt \in [Events -> Nat] /\ eb.ioTimeout \in [Events -> Nat]
    /\ eb.active \in Seq(AllEvents) /\ eb.deferred \in Seq(Deferred)
    /\ \A i, j \in 1 .. Len(eb.active) : i # j => eb.active[i] # eb.active[j]
    /\ loop.pc \in LoopPcs
    /\ loop.current \in AllEvents \cup {NoEvent}
    /\ loop.current # NoEvent <=> loop.pc = "callback"
    /\ loop.running \in {None} \cup 0 .. NPri - 1
    /\ del \in [Threads -> [ev : Events \cup {NoEvent}, asleep : BOOLEAN]]

\* While the loop sleeps in epoll_wait nothing it has to do is left waiting:
\* there is a byte in the notification pipe, or it sleeps no longer than the
\* earliest timeout asks for (late by what the callbacks of the last turn
\* took, because timeout_next() uses the time cached before them), and not at
\* all if an event or a deferred callback is active or the loop is to break.
\* Other threads add, delete and activate while it sleeps.
Overslept(time) == loop.until = Forever \/ loop.until > time

WakesInTime ==
    loop.pc = "dispatch" /\ ~eb.byte =>
        /\ NActive \/ loop.break => ~Overslept(clock)
        /\ \A e \in eb.heap :
             Overslept(clock) => ~Overslept(eb.timeoutAt[e] + loop.slow)

\* A callback runs only for an event that was added or activated after it was
\* last deleted, and that of a one-shot event once each time: neither a
\* descriptor that was reported before event_del(), nor the timeout and the
\* data of one turn coming together, makes it run again.
RunsOnlyWanted ==
    [][\A i \in 1 .. Len(eb.active) :
         Process(i) /\ eb.active[i] # NotifyEv => eb.active[i] \in wanted]_ebVars

\* "Active events with a lower priority are always processed before events
\* with a higher priority" (event.h, event_base_priority_init), also if they
\* are activated by another thread while a queue is being run.
PriorityOrder ==
    [][\A i \in 1 .. Len(eb.active) :
         Process(i) => \A j \in 1 .. Len(eb.active) :
                         Pri[eb.active[i]] <= Pri[eb.active[j]]]_ebVars

\* "event_base_loop() will abort the loop after the next event is completed"
\* (event.h, event_base_loopbreak): one callback at most begins after it.
BreakAfterNext == sinceBreak <= 1

\* The queues hold what they are meant to hold, and a break is obeyed.
EbSound == EbTypeOK /\ BreakAfterNext

\* A loop that is told to break ends, from wherever it is and whichever
\* thread tells it, also when it sleeps without a timeout.
BreakEndsLoop == loop.break /\ Running ~> ~Running

\* event_del() returns: a thread that waits for the callback of its event is
\* woken when the callback is over.
DelReturns == \A t \in Threads : del[t].ev # NoEvent ~> del[t].ev = NoEvent

\* An active event of the first priority is run, unless it is deleted or the
\* loop is left; later ones can be starved, as event.h says.
FirstPriorityRuns ==
    \A e \in Events :
        Pri[e] = 0 /\ Running /\ e \in Items(eb.active)
          ~> ~Running \/ e \notin Items(eb.active)

\* The loop never sleeps on a break or on a first event that is active.
LoopProgresses == BreakEndsLoop /\ FirstPriorityRuns

\* "That way, when this function returns, it will be safe to free the
\* user-supplied argument" (event.c, event_del_internal): when event_del() has
\* returned to another thread and nobody has added or activated the event
\* since, its callback is not running.
SafeToFree == loop.current \notin freed
=============================================================================

--------------------------- MODULE EventBaseProofs ---------------------------
(***************************************************************************)
(* Proofs about EventBase: for any events, priorities, threads, timeouts and *)
(* bounds, the queues of the base stay sound, a sleeping loop is woken in    *)
(* time, callbacks run only for events that are wanted, and in the order of  *)
(* their priorities.                                                         *)
(***************************************************************************)
EXTENDS EventBase, SequenceTheorems, WellFoundedInduction, TLAPS

Why == {"user", "read", "timeout"}

Base == [inserted : SUBSET (Io \cup {NotifyEv}), heap : SUBSET Events,
         timeoutAt : [Events -> Nat], ioTimeout : [Events -> Nat],
         active : Seq(AllEvents), res : [AllEvents -> SUBSET Why],
         deferred : Seq(Deferred),
         continue : BOOLEAN, pending : BOOLEAN, byte : BOOLEAN]

LoopState == [pc : LoopPcs, flags : Flags \cup {"0"}, break : BOOLEAN, gotterm : BOOLEAN,
              cache : Nat \cup {None}, until : Int, slow : Int,
              ready : SUBSET AllEvents, current : AllEvents \cup {NoEvent},
              scan : Nat, running : {None} \cup 0 .. NPri - 1, real : BOOLEAN,
              ndeferred : Nat, starts : Nat]

Distinct(s) == \A i, j \in 1 .. Len(s) : i # j => s[i] # s[j]
BaseOK(b) == b \in Base /\ Distinct(b.active)

\* The events that are in some queue of the base.
Holds(b) == b.inserted \cup b.heap \cup Items(b.active)
Busy(b) == b.active # <<>> \/ b.deferred # <<>>

-----------------------------------------------------------------------------
(* Queues.                                                                   *)

LEMMA WithoutFacts ==
    ASSUME NEW S, NEW s \in Seq(S), NEW e
    PROVE  /\ Without(s, e) \in Seq(S)
           /\ Without(s, e) # <<>> => s # <<>>
           /\ Distinct(s) => /\ Distinct(Without(s, e))
                             /\ Items(Without(s, e)) = Items(s) \ {e}
<1>0. Len(s) \in Nat /\ s \in [1 .. Len(s) -> S]
  BY LenProperties
<1>1. CASE e \notin Items(s)
  BY <1>1 DEF Without
<1>2. CASE e \in Items(s)
  <2> DEFINE p == CHOOSE i \in 1 .. Len(s) : s[i] = e
             t == [i \in 1 .. Len(s) - 1 |-> IF i < p THEN s[i] ELSE s[i + 1]]
             n == Len(s)
  <2>1. Without(s, e) = t
    BY <1>2 DEF Without
  <2>2. p \in 1 .. n /\ s[p] = e
    BY <1>2 DEF Items
  <2> HIDE DEF p
  <2>3. n \in Nat /\ n > 0 /\ n - 1 \in Nat
    BY <1>0, <2>2
  <2>4. t \in [1 .. n - 1 -> S]
    BY <1>0, <2>2
  <2>5. t \in Seq(S) /\ Len(t) = n - 1
    BY <2>3, <2>4
  <2>6. \A i \in 1 .. n - 1 : t[i] = IF i < p THEN s[i] ELSE s[i + 1]
    OBVIOUS
  <2> HIDE DEF t
  <2>7. ASSUME Distinct(s) PROVE Distinct(t)
    <3> SUFFICES ASSUME NEW i \in 1 .. n - 1, NEW j \in 1 .. n - 1, i # j
                 PROVE  t[i] # t[j]
      BY <2>5 DEF Distinct
    <3> DEFINE x == IF i < p THEN i ELSE i + 1
               y == IF j < p THEN j ELSE j + 1
    <3>1. t[i] = s[x] /\ t[j] = s[y]
      BY <2>6
    <3>2. x \in 1 .. n /\ y \in 1 .. n /\ x # y
      BY <2>2, <2>3
    <3> QED
      BY <2>7, <3>1, <3>2 DEF Distinct
  <2>8. ASSUME Distinct(s) PROVE Items(t) = Items(s) \ {e}
    <3>1. ASSUME NEW i \in 1 .. n - 1 PROVE t[i] \in Items(s) \ {e}
      <4> DEFINE x == IF i < p THEN i ELSE i + 1
      <4>1. t[i] = s[x]
        BY <2>6
      <4>2. x \in 1 .. n /\ x # p
        BY <2>2, <2>3
      <4>3. s[x] # s[p]
        BY <2>2, <2>8, <4>2 DEF Distinct
      <4> QED
        BY <2>2, <4>1, <4>2, <4>3 DEF Items
    <3>2. ASSUME NEW x \in 1 .. n, s[x] # e PROVE s[x] \in Items(t)
      <4>1. x # p
        BY <2>2, <3>2
      <4>2. CASE x < p
        <5>1. x \in 1 .. n - 1
          BY <2>2, <2>3, <4>2
        <5>2. t[x] = s[x]
          BY <2>6, <4>2, <5>1
        <5> QED
          BY <2>5, <5>1, <5>2 DEF Items
      <4>3. CASE x > p
        <5>1. x - 1 \in 1 .. n - 1 /\ ~(x - 1 < p) /\ (x - 1) + 1 = x
          BY <2>2, <2>3, <4>3
        <5>2. t[x - 1] = s[x]
          BY <2>6, <5>1
        <5> QED
          BY <2>5, <5>1, <5>2 DEF Items
      <4> QED
        BY <2>2, <2>3, <4>1, <4>2, <4>3
    <3> QED
      BY <2>5, <3>1, <3>2 DEF Items
  <2>9. s # <<>>
    BY <2>3
  <2> QED
    BY <2>1, <2>5, <2>7, <2>8, <2>9
<1> QED
  BY <1>1, <1>2

LEMMA AppendFacts ==
    ASSUME NEW S, NEW s \in Seq(S), NEW e \in S
    PROVE  /\ Append(s, e) \in Seq(S)
           /\ Items(Append(s, e)) = Items(s) \cup {e}
           /\ Distinct(s) /\ e \notin Items(s) => Distinct(Append(s, e))
<1>1. /\ Append(s, e) \in Seq(S) /\ Len(Append(s, e)) = Len(s) + 1 /\ Len(s) \in Nat
      /\ \A i \in 1 .. Len(s) : Append(s, e)[i] = s[i]
      /\ Append(s, e)[Len(s) + 1] = e
  BY AppendProperties, LenProperties
<1> DEFINE t == Append(s, e)
<1> HIDE DEF t
<1>2. \A i \in 1 .. Len(t) : i = Len(s) + 1 \/ i \in 1 .. Len(s)
  BY <1>1 DEF t
<1>3. Items(t) = Items(s) \cup {e}
  <2>1. Items(t) \subseteq Items(s) \cup {e}
    BY <1>1, <1>2 DEF Items, t
  <2>2. e \in Items(t)
    BY <1>1 DEF Items, t
  <2>3. Items(s) \subseteq Items(t)
    BY <1>1 DEF Items, t
  <2> QED
    BY <2>1, <2>2, <2>3
<1>4. ASSUME Distinct(s), e \notin Items(s) PROVE Distinct(t)
  BY <1>1, <1>2, <1>4 DEF Distinct, Items, t
<1> QED
  BY <1>1, <1>3, <1>4 DEF t

LEMMA EmptyItems == Items(<<>>) = {} /\ Distinct(<<>>)
  BY DEF Items, Distinct

LEMMA ItemsTyped ==
    ASSUME NEW S, NEW s \in Seq(S)
    PROVE  /\ Items(s) \subseteq S
           /\ s = <<>> <=> Items(s) = {}
<1>1. Len(s) \in Nat /\ s \in [1 .. Len(s) -> S] /\ (s = <<>> <=> Len(s) = 0)
  BY LenProperties, EmptySeq
<1>2. Items(s) \subseteq S
  BY <1>1 DEF Items
<1>3. ASSUME s # <<>> PROVE s[1] \in Items(s)
  BY <1>1, <1>3 DEF Items
<1> QED
  BY <1>2, <1>3, EmptyItems
-----------------------------------------------------------------------------
(* What the functions of the base do to its queues.                          *)

SameQueues(b, c) ==
    /\ c.inserted = b.inserted /\ c.heap = b.heap /\ c.timeoutAt = b.timeoutAt
    /\ c.ioTimeout = b.ioTimeout /\ c.active = b.active /\ c.res = b.res
    /\ c.deferred = b.deferred /\ c.continue = b.continue

\* A byte is in the pipe, or the loop's thread is just about to take note.
Told(c, b) == c.byte \/ (b.pending /\ ~b.byte)

\* c gives a sleeping loop nothing to do that b did not, and not earlier.
Harmless(b, c) ==
    /\ Busy(c) => Busy(b)
    /\ \A e \in c.heap : \E d \in b.heap : b.timeoutAt[d] <= c.timeoutAt[e]

\* What holds of every function, called with n for EVBASE_NEED_NOTIFY.
Effect(b, c, n) ==
    /\ BaseOK(c)
    /\ b.byte => c.byte
    /\ c.pending /\ ~c.byte => b.pending /\ ~b.byte
    /\ n => Told(c, b) \/ Harmless(b, c)
    /\ b.continue => c.continue
    /\ c.continue => b.continue \/ \E x \in AllEvents : Pri[x] < loop.running
    /\ \A x \in Items(c.active) :
         x \in Items(b.active) \/ c.continue \/ Pri[x] >= loop.running

LEMMA NotifiedFacts ==
    ASSUME NEW b \in Base, NEW n \in BOOLEAN
    PROVE  LET c == Notified(b, n)
           IN  /\ c \in Base /\ SameQueues(b, c)
               /\ b.byte => c.byte
               /\ c.pending /\ ~c.byte => b.pending /\ ~b.byte
               /\ n => Told(c, b)
<1>1. CASE n /\ ~b.pending
  <2> DEFINE c == [b EXCEPT !.pending = TRUE, !.byte = TRUE]
  <2>1. Notified(b, n) = c
    BY <1>1 DEF Notified
  <2>2. c \in Base /\ SameQueues(b, c) /\ c.byte = TRUE
    BY DEF Base, SameQueues
  <2> QED
    BY <2>1, <2>2 DEF Told
<1>2. CASE ~(n /\ ~b.pending)
  <2>1. Notified(b, n) = b
    BY <1>2 DEF Notified
  <2> QED
    BY <1>2, <2>1 DEF SameQueues, Told
<1> QED
  BY <1>1, <1>2

\* Whatever is done to the queues, and is then notified.
LEMMA NotifiedEffect ==
    ASSUME NEW b, NEW c \in Base, NEW n \in BOOLEAN, Distinct(c.active),
           c.pending = b.pending, c.byte = b.byte,
           b.continue => c.continue,
           c.continue => b.continue \/ \E x \in AllEvents : Pri[x] < loop.running,
           \A x \in Items(c.active) :
             x \in Items(b.active) \/ c.continue \/ Pri[x] >= loop.running
    PROVE  LET d == Notified(c, n)
           IN  /\ Effect(b, d, n) /\ SameQueues(c, d) /\ Holds(d) = Holds(c)
               /\ n => Told(d, b)
               /\ Harmless(b, c) => \A m \in BOOLEAN : Effect(b, d, m)
<1> DEFINE d == Notified(c, n)
<1>1. /\ d \in Base /\ SameQueues(c, d) /\ (c.byte => d.byte)
      /\ d.pending /\ ~d.byte => c.pending /\ ~c.byte
      /\ n => Told(d, c)
  BY NotifiedFacts
<1> HIDE DEF d
<1>2. n => Told(d, b)
  BY <1>1 DEF Told
<1>3. (d.pending /\ ~d.byte => b.pending /\ ~b.byte) /\ (b.byte => d.byte)
  BY <1>1
<1>4. BaseOK(d) /\ Holds(d) = Holds(c)
  BY <1>1 DEF BaseOK, SameQueues, Holds
<1>5. /\ b.continue => d.continue
      /\ d.continue => b.continue \/ \E x \in AllEvents : Pri[x] < loop.running
      /\ \A x \in Items(d.active) :
           x \in Items(b.active) \/ d.continue \/ Pri[x] >= loop.running
  BY <1>1 DEF SameQueues
<1>6. Effect(b, d, n)
  BY <1>2, <1>3, <1>4, <1>5 DEF Effect
<1>7. ASSUME Harmless(b, c), NEW m \in BOOLEAN PROVE Effect(b, d, m)
  <2>1. Harmless(b, d)
    BY <1>1, <1>7 DEF Harmless, Busy, SameQueues
  <2> QED
    BY <1>3, <1>4, <1>5, <2>1 DEF Effect
<1> QED
  BY <1>1, <1>2, <1>4, <1>6, <1>7 DEF d

LEMMA BaseFields ==
    ASSUME NEW b \in Base
    PROVE  /\ b.inserted \subseteq Io \cup {NotifyEv} /\ b.heap \subseteq Events
           /\ b.timeoutAt \in [Events -> Nat] /\ b.ioTimeout \in [Events -> Nat]
           /\ b.active \in Seq(AllEvents) /\ b.res \in [AllEvents -> SUBSET Why]
           /\ b.deferred \in Seq(Deferred)
           /\ b.continue \in BOOLEAN /\ b.pending \in BOOLEAN /\ b.byte \in BOOLEAN
  BY DEF Base

LEMMA DeletedEffect ==
    ASSUME NEW b, BaseOK(b), NEW e, NEW n \in BOOLEAN
    PROVE  LET c == Deleted(b, e, n)
           IN  /\ Effect(b, c, n) /\ Holds(c) = Holds(b) \ {e}
               /\ Items(c.active) = Items(b.active) \ {e} /\ c.continue = b.continue
<1> DEFINE d == [b EXCEPT !.heap = @ \ {e}, !.active = Without(@, e), !.inserted = @ \ {e}]
           m == n /\ e \in b.inserted
<1>0. b \in Base /\ Distinct(b.active)
  BY DEF BaseOK
<1>1. /\ Without(b.active, e) \in Seq(AllEvents) /\ Distinct(Without(b.active, e))
      /\ Items(Without(b.active, e)) = Items(b.active) \ {e}
      /\ Without(b.active, e) # <<>> => b.active # <<>>
  BY <1>0, BaseFields, WithoutFacts
<1>2. d \in Base
  BY <1>0, <1>1, BaseFields DEF Base
<1>3. /\ d.heap = b.heap \ {e} /\ d.active = Without(b.active, e)
      /\ d.inserted = b.inserted \ {e} /\ d.timeoutAt = b.timeoutAt
      /\ d.deferred = b.deferred /\ d.continue = b.continue
      /\ d.pending = b.pending /\ d.byte = b.byte
  BY <1>0 DEF Base
<1>4. Deleted(b, e, n) = Notified(d, m)
  BY DEF Deleted
<1> HIDE DEF d
<1>5. Harmless(b, d)
  <2>1. Busy(d) => Busy(b)
    BY <1>1, <1>3 DEF Busy
  <2>2. ASSUME NEW x \in d.heap PROVE x \in b.heap /\ b.timeoutAt[x] <= d.timeoutAt[x]
    <3>1. x \in b.heap /\ x \in Events
      BY <1>0, <1>3, BaseFields
    <3>2. b.timeoutAt[x] \in Nat
      BY <1>0, <3>1, BaseFields
    <3> QED
      BY <1>3, <3>1, <3>2
  <2> QED
    BY <2>1, <2>2 DEF Harmless
<1>6. \A x \in Items(d.active) : x \in Items(b.active)
  BY <1>1, <1>3
<1>7. m \in BOOLEAN
  OBVIOUS
<1> HIDE DEF m
<1>8. LET c == Notified(d, m)
      IN /\ SameQueues(d, c) /\ Holds(c) = Holds(d)
         /\ \A k \in BOOLEAN : Effect(b, c, k)
  BY <1>1, <1>2, <1>3, <1>5, <1>6, <1>7, NotifiedEffect
<1>9. Holds(d) = Holds(b) \ {e}
  BY <1>1, <1>3 DEF Holds
<1>10. /\ Items(Notified(d, m).active) = Items(b.active) \ {e}
       /\ Notified(d, m).continue = b.continue
  BY <1>1, <1>3, <1>8 DEF SameQueues
<1> QED
  BY <1>4, <1>8, <1>9, <1>10

LEMMA Priorities ==
    /\ \A x \in AllEvents : Pri[x] \in Nat
    /\ Pri[NotifyEv] = 0 /\ NotifyEv \in AllEvents /\ Events \subseteq AllEvents
    /\ Io \subseteq Events /\ NotifyEv \notin Events
  BY EventBaseAssumption DEF AllEvents

LEMMA ActivatedEffect ==
    ASSUME NEW b, BaseOK(b), NEW e \in AllEvents, NEW why \in Why, NEW n \in BOOLEAN,
           loop.running \in Int
    PROVE  LET c == Activated(b, e, why, n)
           IN  /\ Effect(b, c, n) /\ Holds(c) \subseteq Holds(b) \cup {e}
<1>0. b \in Base /\ Distinct(b.active)
  BY DEF BaseOK
<1>1. CASE e \in Items(b.active)
  <2> DEFINE c == [b EXCEPT !.res[e] = @ \cup {why}]
  <2>1. Activated(b, e, why, n) = c
    BY <1>1 DEF Activated
  <2>2. c \in Base
    BY <1>0, BaseFields DEF Base
  <2>3. /\ c.heap = b.heap /\ c.active = b.active /\ c.inserted = b.inserted
        /\ c.timeoutAt = b.timeoutAt /\ c.deferred = b.deferred
        /\ c.continue = b.continue /\ c.pending = b.pending /\ c.byte = b.byte
    BY <1>0 DEF Base
  <2> HIDE DEF c
  <2>4. \A x \in c.heap : b.timeoutAt[x] <= c.timeoutAt[x]
    BY <1>0, <2>3, BaseFields
  <2>5. Harmless(b, c)
    BY <2>3, <2>4 DEF Harmless, Busy
  <2> QED
    BY <1>0, <2>1, <2>2, <2>3, <2>5 DEF Effect, BaseOK, Holds
<1>2. CASE e \notin Items(b.active)
  <2> DEFINE d == [b EXCEPT !.active = Append(@, e), !.res[e] = {why},
                            !.continue = @ \/ Pri[e] < loop.running]
  <2>1. Activated(b, e, why, n) = Notified(d, n)
    BY <1>2 DEF Activated
  <2>2. /\ Append(b.active, e) \in Seq(AllEvents) /\ Distinct(Append(b.active, e))
        /\ Items(Append(b.active, e)) = Items(b.active) \cup {e}
    BY <1>0, <1>2, BaseFields, AppendFacts
  <2>3. d \in Base
    BY <1>0, <2>2, BaseFields DEF Base
  <2>4. /\ d.heap = b.heap /\ d.active = Append(b.active, e) /\ d.inserted = b.inserted
        /\ d.pending = b.pending /\ d.byte = b.byte
        /\ d.continue <=> b.continue \/ Pri[e] < loop.running
    BY <1>0 DEF Base
  <2> HIDE DEF d
  <2>5. Pri[e] < loop.running \/ Pri[e] >= loop.running
    BY Priorities
  <2>6. \A x \in Items(d.active) :
          x \in Items(b.active) \/ d.continue \/ Pri[x] >= loop.running
    BY <2>2, <2>4, <2>5
  <2>7. LET c == Notified(d, n) IN Effect(b, c, n) /\ Holds(c) = Holds(d)
    BY <2>2, <2>3, <2>4, <2>6, NotifiedEffect
  <2>8. Holds(d) = Holds(b) \cup {e}
    BY <2>2, <2>4 DEF Holds
  <2> QED
    BY <2>1, <2>7, <2>8
<1> QED
  BY <1>1, <1>2
LEMMA RegisteredFacts ==
    ASSUME NEW b, BaseOK(b), NEW e \in Events
    PROVE  LET r == Registered(b, e)
           IN  /\ r \in Base /\ r.heap = b.heap /\ r.timeoutAt = b.timeoutAt
               /\ r.active = b.active /\ r.res = b.res /\ r.deferred = b.deferred
               /\ r.continue = b.continue /\ r.pending = b.pending /\ r.byte = b.byte
               /\ r.inserted \subseteq b.inserted \cup {e}
<1>0. b \in Base
  BY DEF BaseOK
<1>1. CASE e \in Io /\ e \notin b.inserted \cup Items(b.active)
  <2> DEFINE r == [b EXCEPT !.inserted = @ \cup {e}]
  <2>1. Registered(b, e) = r
    BY <1>1 DEF Registered
  <2>2. b.inserted \cup {e} \subseteq Io \cup {NotifyEv}
    BY <1>0, <1>1, BaseFields
  <2>3. r \in Base
    BY <1>0, <2>2 DEF Base
  <2>4. /\ r.heap = b.heap /\ r.timeoutAt = b.timeoutAt
        /\ r.active = b.active /\ r.res = b.res /\ r.deferred = b.deferred
        /\ r.continue = b.continue /\ r.pending = b.pending /\ r.byte = b.byte
        /\ r.inserted = b.inserted \cup {e}
    BY <1>0 DEF Base
  <2> QED
    BY <2>1, <2>3, <2>4
<1>2. CASE ~(e \in Io /\ e \notin b.inserted \cup Items(b.active))
  BY <1>0, <1>2 DEF Registered
<1> QED
  BY <1>1, <1>2

LEMMA ScheduledFacts ==
    ASSUME NEW b, BaseOK(b), NEW e \in Events, NEW at \in Nat
    PROVE  LET s == Scheduled(b, e, at)
           IN  /\ s \in Base /\ Distinct(s.active)
               /\ s.heap = b.heap \cup {e}
               /\ s.timeoutAt = [b.timeoutAt EXCEPT ![e] = at]
               /\ Items(s.active) \subseteq Items(b.active)
               /\ s.active # <<>> => b.active # <<>>
               /\ s.inserted = b.inserted /\ s.deferred = b.deferred
               /\ s.continue = b.continue /\ s.pending = b.pending /\ s.byte = b.byte
<1> DEFINE a == IF "timeout" \in b.res[e] THEN Without(b.active, e) ELSE b.active
           s == [b EXCEPT !.timeoutAt[e] = at, !.heap = @ \cup {e}, !.active = a]
<1>0. b \in Base /\ Distinct(b.active)
  BY DEF BaseOK
<1>1. Scheduled(b, e, at) = s
  BY DEF Scheduled
<1>2. /\ a \in Seq(AllEvents) /\ Distinct(a) /\ Items(a) \subseteq Items(b.active)
      /\ a # <<>> => b.active # <<>>
  BY <1>0, BaseFields, WithoutFacts
<1> HIDE DEF a
<1>3. s \in Base
  BY <1>0, <1>2, BaseFields DEF Base
<1>4. /\ s.heap = b.heap \cup {e} /\ s.timeoutAt = [b.timeoutAt EXCEPT ![e] = at]
      /\ s.active = a /\ s.inserted = b.inserted /\ s.deferred = b.deferred
      /\ s.continue = b.continue /\ s.pending = b.pending /\ s.byte = b.byte
  BY <1>0 DEF Base
<1> QED
  BY <1>1, <1>2, <1>3, <1>4

\* A timeout that is not the earliest now is later than one that was there.
LEMMA LaterTimeout ==
    ASSUME NEW b \in Base, NEW s \in Base, NEW e \in Events, NEW at \in Nat,
           s.heap = b.heap \cup {e}, s.timeoutAt = [b.timeoutAt EXCEPT ![e] = at],
           e \notin Top(s), NEW x \in s.heap
    PROVE  \E d \in b.heap : b.timeoutAt[d] <= s.timeoutAt[x]
<1>1. /\ b.timeoutAt \in [Events -> Nat] /\ s.timeoutAt \in [Events -> Nat]
      /\ b.heap \subseteq Events /\ s.heap \subseteq Events
  BY BaseFields
<1>2. \A d \in Events : d # e => s.timeoutAt[d] = b.timeoutAt[d]
  BY <1>1
<1>3. CASE x # e
  BY <1>1, <1>2, <1>3
<1>4. CASE x = e
  <2>1. PICK d \in s.heap : ~(s.timeoutAt[e] <= s.timeoutAt[d])
    BY <1>4 DEF Top
  <2>2. s.timeoutAt[e] \in Nat /\ s.timeoutAt[d] \in Nat
    BY <1>1
  <2>3. d # e
    BY <2>1, <2>2
  <2>4. d \in b.heap /\ b.timeoutAt[d] = s.timeoutAt[d]
    BY <1>1, <1>2, <2>3
  <2> QED
    BY <1>4, <2>1, <2>2, <2>4
<1> QED
  BY <1>3, <1>4

LEMMA AddedEffect ==
    ASSUME NEW b, BaseOK(b), NEW e \in Events, NEW at \in Nat \cup {None}, NEW n \in BOOLEAN
    PROVE  LET c == Added(b, e, at, n)
           IN  /\ Effect(b, c, n) /\ Holds(c) \subseteq Holds(b) \cup {e}
               /\ Items(c.active) \subseteq Items(b.active) /\ c.continue = b.continue
<1> DEFINE r == Registered(b, e)
           s == IF at = None THEN r ELSE Scheduled(r, e, at)
           tell == \/ r.inserted # b.inserted
                   \/ at # None /\ (e \in Top(b) \/ e \in Top(s))
           c == Notified(s, n /\ tell)
<1>0. b \in Base /\ Distinct(b.active)
  BY DEF BaseOK
<1>1. Added(b, e, at, n) = c
  BY DEF Added
<1>2. /\ r \in Base /\ r.heap = b.heap /\ r.timeoutAt = b.timeoutAt
      /\ r.active = b.active /\ r.res = b.res /\ r.deferred = b.deferred
      /\ r.continue = b.continue /\ r.pending = b.pending /\ r.byte = b.byte
      /\ r.inserted \subseteq b.inserted \cup {e}
  BY RegisteredFacts
<1> HIDE DEF r
<1>3. BaseOK(r)
  BY <1>0, <1>2 DEF BaseOK
<1>4. at # None => at \in Nat
  OBVIOUS
<1>5. ASSUME at # None
      PROVE  /\ s \in Base /\ Distinct(s.active)
             /\ s.heap = b.heap \cup {e}
             /\ s.timeoutAt = [b.timeoutAt EXCEPT ![e] = at]
             /\ Items(s.active) \subseteq Items(b.active)
             /\ s.active # <<>> => b.active # <<>>
             /\ s.inserted = r.inserted /\ s.deferred = b.deferred
             /\ s.continue = b.continue /\ s.pending = b.pending /\ s.byte = b.byte
  <2>1. s = Scheduled(r, e, at)
    BY <1>5
  <2> HIDE DEF s
  <2> QED
    BY <1>2, <1>3, <1>4, <1>5, <2>1, ScheduledFacts
<1>6. ASSUME at = None PROVE s = r
  BY <1>6
<1> HIDE DEF s
<1>7. /\ s \in Base /\ Distinct(s.active)
      /\ s.heap \subseteq b.heap \cup {e} /\ s.inserted \subseteq b.inserted \cup {e}
      /\ Items(s.active) \subseteq Items(b.active)
      /\ s.active # <<>> => b.active # <<>>
      /\ s.deferred = b.deferred
      /\ s.continue = b.continue /\ s.pending = b.pending /\ s.byte = b.byte
  BY <1>0, <1>2, <1>5, <1>6
<1>8. ASSUME ~tell PROVE Harmless(b, s)
  <2>1. Busy(s) => Busy(b)
    BY <1>7 DEF Busy
  <2>2. ASSUME at # None, NEW x \in s.heap
        PROVE  \E d \in b.heap : b.timeoutAt[d] <= s.timeoutAt[x]
    <3>1. e \notin Top(s)
      BY <1>8, <2>2
    <3> QED
      BY <1>0, <1>4, <1>5, <2>2, <3>1, LaterTimeout
  <2>3. ASSUME at = None, NEW x \in s.heap
        PROVE  \E d \in b.heap : b.timeoutAt[d] <= s.timeoutAt[x]
    <3>1. x \in b.heap /\ s.timeoutAt = b.timeoutAt
      BY <1>2, <1>6, <2>3
    <3>2. b.timeoutAt[x] \in Nat
      BY <1>0, <3>1, BaseFields
    <3> QED
      BY <3>1, <3>2
  <2> QED
    BY <2>1, <2>2, <2>3 DEF Harmless
<1>9. tell \in BOOLEAN
  OBVIOUS
<1> HIDE DEF tell
<1>10. /\ Effect(b, c, n /\ tell) /\ SameQueues(s, c) /\ Holds(c) = Holds(s)
       /\ Harmless(b, s) => Effect(b, c, n)
  <2>1. (n /\ tell) \in BOOLEAN
    OBVIOUS
  <2>2. \A x \in Items(s.active) : x \in Items(b.active)
    BY <1>7
  <2> QED
    BY <1>7, <2>1, <2>2, NotifiedEffect
<1>11. Effect(b, c, n)
  <2>1. CASE tell
    <3>1. (n /\ tell) = n
      BY <2>1
    <3> QED
      BY <1>10, <3>1
  <2>2. CASE ~tell
    BY <1>8, <1>10, <2>2
  <2> QED
    BY <2>1, <2>2
<1>12. Holds(c) \subseteq Holds(b) \cup {e}
  BY <1>7, <1>10 DEF Holds
<1>13. Items(c.active) \subseteq Items(b.active) /\ c.continue = b.continue
  BY <1>7, <1>10 DEF SameQueues
<1> HIDE DEF c
<1> QED
  BY <1>1, <1>11, <1>12, <1>13

LEMMA RemembersFacts ==
    ASSUME NEW b, BaseOK(b), NEW e \in Events, NEW tv \in Nat \cup {None}
    PROVE  LET r == Remembers(b, e, tv)
           IN  /\ BaseOK(r) /\ r.heap = b.heap /\ r.timeoutAt = b.timeoutAt
               /\ r.active = b.active /\ r.inserted = b.inserted /\ r.deferred = b.deferred
               /\ r.continue = b.continue /\ r.pending = b.pending /\ r.byte = b.byte
<1>0. b \in Base /\ Distinct(b.active)
  BY DEF BaseOK
<1>1. CASE tv # None /\ e \in Persistent
  <2> DEFINE r == [b EXCEPT !.ioTimeout[e] = tv]
  <2>1. Remembers(b, e, tv) = r /\ tv \in Nat
    BY <1>1 DEF Remembers
  <2>2. r \in Base
    BY <1>0, <2>1, BaseFields DEF Base
  <2>3. /\ r.heap = b.heap /\ r.timeoutAt = b.timeoutAt
        /\ r.active = b.active /\ r.inserted = b.inserted /\ r.deferred = b.deferred
        /\ r.continue = b.continue /\ r.pending = b.pending /\ r.byte = b.byte
    BY <1>0 DEF Base
  <2> QED
    BY <1>0, <2>1, <2>2, <2>3 DEF BaseOK
<1>2. CASE ~(tv # None /\ e \in Persistent)
  BY <1>2 DEF Remembers
<1> QED
  BY <1>1, <1>2

\* event_add, from its beginning.
LEMMA AddEffect ==
    ASSUME NEW b, BaseOK(b), NEW e \in Events, NEW tv \in Nat \cup {None},
           NEW at \in Nat \cup {None}, NEW n \in BOOLEAN
    PROVE  LET c == Added(Remembers(b, e, tv), e, at, n)
           IN  Effect(b, c, n) /\ Holds(c) \subseteq Holds(b) \cup {e}
<1> DEFINE r == Remembers(b, e, tv)
           c == Added(r, e, at, n)
<1>1. /\ BaseOK(r) /\ r.heap = b.heap /\ r.timeoutAt = b.timeoutAt
      /\ r.active = b.active /\ r.inserted = b.inserted /\ r.deferred = b.deferred
      /\ r.continue = b.continue /\ r.pending = b.pending /\ r.byte = b.byte
  BY RemembersFacts
<1> HIDE DEF r
<1>2. Effect(r, c, n) /\ Holds(c) \subseteq Holds(r) \cup {e}
  BY <1>1, AddedEffect
<1> HIDE DEF c
<1>3. Holds(r) = Holds(b)
  BY <1>1 DEF Holds
<1>4. Told(c, r) => Told(c, b)
  BY <1>1 DEF Told
<1>5. Harmless(r, c) => Harmless(b, c)
  BY <1>1 DEF Harmless, Busy
<1>6. Effect(b, c, n)
  BY <1>1, <1>2, <1>4, <1>5 DEF Effect
<1> QED
  BY <1>2, <1>3, <1>6 DEF c, r
-----------------------------------------------------------------------------
(* The inductive invariant.                                                  *)

DelState == [Threads -> [ev : Events \cup {NoEvent}, asleep : BOOLEAN]]

TypeInv ==
    /\ BaseOK(eb) /\ loop \in LoopState /\ clock \in Nat /\ sinceBreak \in Nat
    /\ del \in DelState
    /\ loop.current # NoEvent <=> loop.pc = "callback"

\* is_notify_pending without a byte in the pipe: only while the base's own
\* callback is between reading the byte and clearing the flag.
PendingInv ==
    eb.pending /\ ~eb.byte => loop.pc = "callback" /\ loop.current = NotifyEv

BreakInv ==
    /\ sinceBreak <= 1
    /\ loop.break
       /\ loop.pc \in {"dispatch", "woken", "apply", "timeouts", "process", "deferred"}
       => sinceBreak = 0

NoneBefore(pri) == \A x \in Items(eb.active) : Pri[x] >= pri

\* While a queue is run nothing waits in an earlier one, unless event_continue
\* says so; and then a user's event was run, and the pass ends.
PriorityInv ==
    /\ loop.pc \notin {"process", "callback", "deferred", "defcallback"}
       => loop.running = None
    /\ loop.pc \in {"dispatch", "woken", "apply", "timeouts", "process"} => ~eb.continue
    /\ loop.pc = "process" => NoneBefore(loop.scan)
    /\ loop.pc = "callback" =>
         /\ loop.running = Pri[loop.current] /\ loop.scan = loop.running
         /\ ~loop.real => loop.current = NotifyEv
         /\ eb.continue => loop.real
         /\ ~eb.continue => NoneBefore(loop.running)

WantedInv == Holds(eb) \ {NotifyEv} \subseteq wanted

EbInv == TypeInv /\ PendingInv /\ BreakInv /\ PriorityInv /\ WantedInv /\ WakesInTime

LEMMA LoopFields ==
    ASSUME NEW l \in LoopState
    PROVE  /\ l.pc \in LoopPcs /\ l.flags \in Flags \cup {"0"} /\ l.break \in BOOLEAN
           /\ l.gotterm \in BOOLEAN /\ l.cache \in Nat \cup {None} /\ l.until \in Int
           /\ l.slow \in Int /\ l.ready \in SUBSET AllEvents
           /\ l.current \in AllEvents \cup {NoEvent} /\ l.scan \in Nat
           /\ l.running \in {None} \cup 0 .. NPri - 1 /\ l.running \in Int
           /\ l.real \in BOOLEAN /\ l.ndeferred \in Nat /\ l.starts \in Nat
<1>1. NPri \in Nat
  BY EventBaseAssumption
<1> QED
  BY <1>1 DEF LoopState, None

LEMMA InitHolds ==
    ASSUME EbInit PROVE EbInv
<1>1. eb \in Base
  <2>1. <<>> \in Seq(AllEvents) /\ <<>> \in Seq(Deferred)
    OBVIOUS
  <2> QED
    BY <2>1 DEF EbInit, Base
<1>2. BaseOK(eb)
  BY <1>1, EmptyItems DEF EbInit, BaseOK
<1>3. loop \in LoopState
  BY DEF EbInit, LoopState, LoopPcs, None
<1>4. /\ loop.pc = "out" /\ loop.current = NoEvent /\ loop.running = None
      /\ loop.break = FALSE /\ eb.pending = FALSE
      /\ clock = 0 /\ sinceBreak = 0
  BY DEF EbInit
<1>5. del \in DelState
  BY DEF EbInit, DelState
<1>6. Holds(eb) \ {NotifyEv} = {}
  BY EmptyItems DEF EbInit, Holds
<1> QED
  BY <1>2, <1>3, <1>4, <1>5, <1>6
  DEF EbInv, TypeInv, PendingInv, BreakInv, PriorityInv, WantedInv, WakesInTime

-----------------------------------------------------------------------------
(* The calls of the base's functions.                                        *)

\* A sleeping loop: it is told, or there is nothing earlier to do.
LEMMA StillInTime ==
    ASSUME EbInv, BaseOK(eb'), loop.pc = "dispatch", eb.byte => eb'.byte,
           Told(eb', eb) \/ (Harmless(eb, eb') /\ loop'.break = loop.break),
           loop'.until = loop.until, loop'.slow = loop.slow, clock' = clock
    PROVE  WakesInTime'
<1> SUFFICES ASSUME ~eb'.byte
             PROVE  /\ NActive' \/ loop'.break => ~Overslept(clock)'
                    /\ \A e \in eb'.heap :
                         Overslept(clock)' => ~Overslept(eb.timeoutAt[e] + loop.slow)'
  BY DEF WakesInTime
<1>1. ~eb.byte /\ ~(eb.pending /\ ~eb.byte)
  BY DEF EbInv, PendingInv
<1>2. Harmless(eb, eb') /\ loop'.break = loop.break
  BY <1>1 DEF Told
<1>3. /\ NActive \/ loop.break => ~Overslept(clock)
      /\ \A e \in eb.heap :
             Overslept(clock) => ~Overslept(eb.timeoutAt[e] + loop.slow)
  BY <1>1 DEF EbInv, WakesInTime
<1>4. Overslept(clock)' <=> Overslept(clock)
  BY DEF Overslept
<1>5. NActive' => NActive
  BY <1>2 DEF NActive, Harmless, Busy
<1>6. ASSUME NEW e \in eb'.heap, Overslept(clock)
      PROVE  ~Overslept(eb.timeoutAt[e] + loop.slow)'
  <2>1. PICK d \in eb.heap : eb.timeoutAt[d] <= eb'.timeoutAt[e]
    BY <1>2 DEF Harmless
  <2>2. eb.timeoutAt[d] \in Nat /\ eb'.timeoutAt[e] \in Nat
    <3>1. /\ eb.timeoutAt \in [Events -> Nat] /\ eb'.timeoutAt \in [Events -> Nat]
          /\ eb.heap \subseteq Events /\ eb'.heap \subseteq Events
      BY BaseFields DEF EbInv, TypeInv, BaseOK
    <3> QED
      BY <3>1
  <2>3. ~Overslept(eb.timeoutAt[d] + loop.slow)
    BY <1>3, <1>6
  <2>4. loop.until \in Int /\ loop.slow \in Int
    BY LoopFields DEF EbInv, TypeInv
  <2>5. ~(loop.until > eb'.timeoutAt[e] + loop.slow) /\ loop.until # Forever
    BY <2>1, <2>2, <2>3, <2>4 DEF Overslept
  <2> QED
    BY <2>5 DEF Overslept
<1> QED
  BY <1>2, <1>3, <1>4, <1>5, <1>6

LEMMA CallKeepsPriorities ==
    ASSUME EbInv, NEW n, Effect(eb, eb', n), Unlocked,
           loop'.pc = loop.pc, loop'.running = loop.running, loop'.scan = loop.scan,
           loop'.current = loop.current, loop'.real = loop.real
    PROVE  PriorityInv'
<1>1. /\ eb.continue => eb'.continue
      /\ eb'.continue => eb.continue \/ \E x \in AllEvents : Pri[x] < loop.running
      /\ \A x \in Items(eb'.active) :
           x \in Items(eb.active) \/ eb'.continue \/ Pri[x] >= loop.running
  BY DEF Effect
<1>2. loop.running = None => ~ \E x \in AllEvents : Pri[x] < loop.running
  BY Priorities DEF None
<1>3. /\ loop.pc \notin {"process", "callback", "deferred", "defcallback"}
         => loop.running = None
      /\ loop.pc \in {"dispatch", "woken", "apply", "timeouts", "process"} => ~eb.continue
      /\ loop.pc = "callback" =>
           /\ loop.running = Pri[loop.current] /\ loop.scan = loop.running
           /\ ~loop.real => loop.current = NotifyEv
           /\ eb.continue => loop.real
           /\ ~eb.continue => NoneBefore(loop.running)
  BY DEF EbInv, PriorityInv
<1>4. loop.pc # "process"
  BY DEF Unlocked
<1>5. ASSUME loop.pc = "callback", eb'.continue PROVE loop.real
  <2>1. SUFFICES ASSUME ~loop.real PROVE FALSE
    OBVIOUS
  <2>2. loop.running = 0
    BY <1>3, <1>5, <2>1, Priorities
  <2>3. ~ \E x \in AllEvents : Pri[x] < loop.running
    BY <2>2, Priorities
  <2> QED
    BY <1>1, <1>3, <1>5, <2>1, <2>3
<1>6. ASSUME loop.pc = "callback", ~eb'.continue PROVE NoneBefore(loop.running)'
  BY <1>1, <1>3, <1>6 DEF NoneBefore
<1>7. loop.pc \in {"dispatch", "woken", "apply", "timeouts", "process"} => ~eb'.continue
  BY <1>1, <1>2, <1>3, <1>4
<1> QED
  BY <1>3, <1>4, <1>5, <1>6, <1>7 DEF PriorityInv

\* A call, in terms of what it does to the queues.
LEMMA CallKeeps ==
    ASSUME EbInv, NEW n \in BOOLEAN, Effect(eb, eb', n), Unlocked,
           loop.pc = "dispatch" => n, clock' = clock, del' \in DelState, WantedInv',
           \/ loop' = loop /\ sinceBreak' = sinceBreak
           \/ /\ loop' = [loop EXCEPT !.break = TRUE] /\ sinceBreak' = 0
              /\ n => Told(eb', eb)
    PROVE  EbInv'
<1>0. loop \in LoopState /\ BaseOK(eb) /\ BaseOK(eb')
  BY DEF EbInv, TypeInv, Effect
<1>1. /\ loop' \in LoopState /\ loop'.pc = loop.pc /\ loop'.current = loop.current
      /\ loop'.running = loop.running /\ loop'.scan = loop.scan /\ loop'.real = loop.real
      /\ loop'.until = loop.until /\ loop'.slow = loop.slow
  BY <1>0 DEF LoopState
<1>2. \/ loop'.break = loop.break /\ sinceBreak' = sinceBreak
      \/ loop'.break = TRUE /\ sinceBreak' = 0 /\ (n => Told(eb', eb))
  BY <1>0 DEF LoopState
<1>3. TypeInv'
  BY <1>0, <1>1, <1>2 DEF EbInv, TypeInv
<1>4. PendingInv'
  BY <1>1 DEF EbInv, PendingInv, Effect
<1>5. BreakInv'
  BY <1>1, <1>2 DEF EbInv, BreakInv
<1>6. PriorityInv'
  BY <1>1, CallKeepsPriorities
<1>7. WakesInTime'
  <2>1. CASE loop.pc = "dispatch"
    <3>1. (eb.byte => eb'.byte) /\ (Told(eb', eb) \/ Harmless(eb, eb'))
      BY <2>1 DEF Effect
    <3>2. Told(eb', eb) \/ (Harmless(eb, eb') /\ loop'.break = loop.break)
      BY <1>2, <2>1, <3>1
    <3> QED
      BY <1>0, <1>1, <2>1, <3>1, <3>2, StillInTime
  <2>2. CASE loop.pc # "dispatch"
    BY <1>1, <2>2 DEF WakesInTime
  <2> QED
    BY <2>1, <2>2
<1> QED
  BY <1>3, <1>4, <1>5, <1>6, <1>7 DEF EbInv
LEMMA Callers ==
    ASSUME NEW t, MayCall(t)
    PROVE  Unlocked /\ NeedNotify(t) \in BOOLEAN /\ (loop.pc = "dispatch" => NeedNotify(t))
  BY DEF MayCall, Unlocked, NeedNotify, Running

LEMMA NowIsTime == ASSUME TypeInv PROVE Now \in Nat
<1>1. clock \in Nat /\ loop.cache \in Nat \cup {None}
  BY LoopFields DEF TypeInv
<1> QED
  BY <1>1 DEF Now

LEMMA AddKeeps ==
    ASSUME EbInv, NEW t, NEW e \in Events, NEW tv \in Intervals \cup {None}, Add(t, e, tv)
    PROVE  EbInv'
<1> DEFINE n == NeedNotify(t)
           at == IF tv = None THEN None ELSE Now + tv
<1>1. tv \in Nat \cup {None} /\ at \in Nat \cup {None}
  BY NowIsTime, EventBaseAssumption DEF EbInv
<1> HIDE DEF at
<1>2. eb' = Added(Remembers(eb, e, tv), e, at, n)
  BY DEF Add, at
<1>3. BaseOK(eb) /\ Unlocked /\ n \in BOOLEAN /\ (loop.pc = "dispatch" => n)
  BY Callers DEF Add, EbInv, TypeInv
<1> HIDE DEF n
<1>4. Effect(eb, eb', n) /\ Holds(eb') \subseteq Holds(eb) \cup {e}
  BY <1>1, <1>2, <1>3, AddEffect
<1>5. WantedInv'
  BY <1>4 DEF WantedInv, EbInv, Add
<1>6. clock' = clock /\ del' \in DelState /\ loop' = loop /\ sinceBreak' = sinceBreak
  BY DEF Add, EbInv, TypeInv
<1> QED
  BY <1>3, <1>4, <1>5, <1>6, CallKeeps

LEMMA FinishDelKeeps ==
    ASSUME EbInv, NEW t, NEW e \in Events, FinishDel(t, e), Unlocked,
           loop.pc = "dispatch" => NeedNotify(t),
           clock' = clock, del' \in DelState, loop' = loop, sinceBreak' = sinceBreak
    PROVE  EbInv'
<1> DEFINE n == NeedNotify(t)
<1>1. eb' = Deleted(eb, e, n) /\ n \in BOOLEAN /\ BaseOK(eb) /\ (loop.pc = "dispatch" => n)
  BY DEF FinishDel, NeedNotify, EbInv, TypeInv
<1> HIDE DEF n
<1>2. Effect(eb, eb', n) /\ Holds(eb') = Holds(eb) \ {e}
  BY <1>1, DeletedEffect
<1>3. WantedInv'
  BY <1>2 DEF WantedInv, EbInv, FinishDel
<1> QED
  BY <1>1, <1>2, <1>3, CallKeeps

\* A step that leaves the base, the loop, the clock and the history alone.
LEMMA ElsewhereKeeps ==
    ASSUME EbInv, eb' = eb, loop' = loop, clock' = clock, sinceBreak' = sinceBreak,
           wanted' = wanted, del' \in DelState
    PROVE  EbInv'
  BY DEF EbInv, TypeInv, PendingInv, BreakInv, PriorityInv, NoneBefore, WantedInv,
         WakesInTime, NActive, Overslept

LEMMA DelKeeps ==
    ASSUME EbInv, NEW t \in Threads \cup {Loop}, NEW e \in Events, Del(t, e)
    PROVE  EbInv'
<1>1. del \in DelState
  BY DEF EbInv, TypeInv
<1>2. CASE t # Loop /\ loop.current = e
  <2>1. del' \in DelState
    <3>1. t \in Threads /\ del' = [del EXCEPT ![t] = [ev |-> e, asleep |-> TRUE]]
      BY <1>2 DEF Del
    <3>2. [ev |-> e, asleep |-> TRUE] \in [ev : Events \cup {NoEvent}, asleep : BOOLEAN]
      OBVIOUS
    <3> QED
      BY <1>1, <3>1, <3>2 DEF DelState
  <2>2. /\ eb' = eb /\ loop' = loop /\ clock' = clock /\ sinceBreak' = sinceBreak
        /\ wanted' = wanted
    BY <1>2 DEF Del
  <2> QED
    BY <2>1, <2>2, ElsewhereKeeps
<1>3. CASE ~(t # Loop /\ loop.current = e)
  <2>1. /\ FinishDel(t, e) /\ MayCall(t)
        /\ clock' = clock /\ del' \in DelState /\ loop' = loop /\ sinceBreak' = sinceBreak
    BY <1>1, <1>3 DEF Del
  <2> QED
    BY <2>1, Callers, FinishDelKeeps
<1> QED
  BY <1>2, <1>3

LEMMA DelWakesKeeps ==
    ASSUME EbInv, NEW t \in Threads, DelWakes(t)
    PROVE  EbInv'
<1>1. del \in DelState
  BY DEF EbInv, TypeInv
<1>2. del[t].ev \in Events /\ del' \in DelState
  BY <1>1 DEF DelWakes, DelState
<1>3. /\ FinishDel(t, del[t].ev) /\ Unlocked /\ clock' = clock /\ loop' = loop
      /\ sinceBreak' = sinceBreak
  BY DEF DelWakes
<1>4. loop.pc = "dispatch" => NeedNotify(t)
  BY EventBaseAssumption DEF NeedNotify, Running
<1> QED
  BY <1>2, <1>3, <1>4, FinishDelKeeps

LEMMA ActiveKeeps ==
    ASSUME EbInv, NEW t, NEW e \in Events, Active(t, e)
    PROVE  EbInv'
<1> DEFINE n == NeedNotify(t)
<1>1. eb' = Activated(eb, e, "user", n) /\ BaseOK(eb) /\ Unlocked
  BY Callers DEF Active, EbInv, TypeInv
<1>2. n \in BOOLEAN /\ (loop.pc = "dispatch" => n)
  BY Callers DEF Active
<1> HIDE DEF n
<1>3. e \in AllEvents /\ "user" \in Why /\ loop.running \in Int
  BY LoopFields DEF AllEvents, Why, EbInv, TypeInv
<1>4. Effect(eb, eb', n) /\ Holds(eb') \subseteq Holds(eb) \cup {e}
  BY <1>1, <1>2, <1>3, ActivatedEffect
<1>5. WantedInv'
  BY <1>4 DEF WantedInv, EbInv, Active
<1>6. clock' = clock /\ del' \in DelState /\ loop' = loop /\ sinceBreak' = sinceBreak
  BY DEF Active, EbInv, TypeInv
<1> QED
  BY <1>1, <1>2, <1>4, <1>5, <1>6, CallKeeps

LEMMA BreakKeeps ==
    ASSUME EbInv, NEW t, Break(t)
    PROVE  EbInv'
<1> DEFINE n == NeedNotify(t)
<1>1. /\ eb' = Notified(eb, n) /\ BaseOK(eb) /\ Unlocked
      /\ n \in BOOLEAN /\ (loop.pc = "dispatch" => n)
  BY Callers DEF Break, EbInv, TypeInv
<1> HIDE DEF n
<1>2. eb \in Base /\ Distinct(eb.active)
  BY <1>1 DEF BaseOK
<1>3. /\ Effect(eb, eb', n) /\ SameQueues(eb, eb') /\ Holds(eb') = Holds(eb)
      /\ n => Told(eb', eb)
  BY <1>1, <1>2, NotifiedEffect
<1>4. WantedInv'
  BY <1>3 DEF WantedInv, EbInv, Break
<1>5. /\ clock' = clock /\ del' \in DelState
      /\ loop' = [loop EXCEPT !.break = TRUE] /\ sinceBreak' = 0
  BY DEF Break, EbInv, TypeInv
<1> QED
  BY <1>1, <1>3, <1>4, <1>5, CallKeeps

\* Only the deferred callbacks differ.
LEMMA DeferredOnly ==
    ASSUME NEW b, BaseOK(b), NEW q \in Seq(Deferred), NEW n \in BOOLEAN
    PROVE  LET c == [b EXCEPT !.deferred = q]
           IN  /\ BaseOK(c) /\ Holds(c) = Holds(b) /\ c.active = b.active
               /\ c.pending = b.pending /\ c.byte = b.byte /\ c.continue = b.continue
               /\ c.deferred = q
               /\ (q # <<>> => b.deferred # <<>>) => Effect(b, c, n)
               /\ LET d == Notified(c, n)
                  IN  Effect(b, d, n) /\ Holds(d) = Holds(b)
<1> DEFINE c == [b EXCEPT !.deferred = q]
<1>0. b \in Base /\ Distinct(b.active)
  BY DEF BaseOK
<1>1. c \in Base
  BY <1>0 DEF Base
<1>2. /\ c.inserted = b.inserted /\ c.heap = b.heap /\ c.timeoutAt = b.timeoutAt
      /\ c.active = b.active /\ c.deferred = q /\ c.continue = b.continue
      /\ c.pending = b.pending /\ c.byte = b.byte
  BY <1>0 DEF Base
<1> HIDE DEF c
<1>3. BaseOK(c) /\ Holds(c) = Holds(b)
  BY <1>0, <1>1, <1>2 DEF BaseOK, Holds
<1>4. LET d == Notified(c, n) IN Effect(b, d, n) /\ Holds(d) = Holds(c)
  BY <1>0, <1>1, <1>2, NotifiedEffect
<1>5. ASSUME q # <<>> => b.deferred # <<>> PROVE Effect(b, c, n)
  <2>1. \A e \in c.heap : b.timeoutAt[e] <= c.timeoutAt[e]
    BY <1>0, <1>2, BaseFields
  <2>2. Harmless(b, c)
    BY <1>2, <1>5, <2>1 DEF Harmless, Busy
  <2> QED
    BY <1>2, <1>3, <2>2 DEF Effect
<1> QED
  BY <1>2, <1>3, <1>4, <1>5 DEF c

LEMMA ScheduleKeeps ==
    ASSUME EbInv, NEW t, NEW d \in Deferred, Schedule(t, d) \/ Cancel(t, d)
    PROVE  EbInv'
<1> DEFINE n == NeedNotify(t)
<1>1. /\ BaseOK(eb) /\ Unlocked /\ n \in BOOLEAN /\ (loop.pc = "dispatch" => n)
  BY Callers DEF Schedule, Cancel, EbInv, TypeInv
<1>2. eb.deferred \in Seq(Deferred)
  BY <1>1, BaseFields DEF BaseOK
<1>3. Effect(eb, eb', n) /\ Holds(eb') = Holds(eb)
  <2>1. CASE Schedule(t, d)
    <3>1. Append(eb.deferred, d) \in Seq(Deferred)
      BY <1>2
    <3>2. eb' = Notified([eb EXCEPT !.deferred = Append(eb.deferred, d)], n)
      BY <2>1 DEF Schedule
    <3> HIDE DEF n
    <3> QED
      BY <1>1, <3>1, <3>2, DeferredOnly
  <2>2. CASE Cancel(t, d)
    <3>1. Without(eb.deferred, d) \in Seq(Deferred)
          /\ (Without(eb.deferred, d) # <<>> => eb.deferred # <<>>)
      BY <1>2, WithoutFacts
    <3>2. eb' = [eb EXCEPT !.deferred = Without(eb.deferred, d)]
      BY <2>2 DEF Cancel
    <3> HIDE DEF n
    <3> QED
      BY <1>1, <3>1, <3>2, DeferredOnly
  <2> QED
    BY <2>1, <2>2
<1>4. WantedInv'
  BY <1>3 DEF WantedInv, EbInv, Schedule, Cancel
<1>5. clock' = clock /\ del' \in DelState /\ loop' = loop /\ sinceBreak' = sinceBreak
  BY DEF Schedule, Cancel, EbInv, TypeInv
<1> HIDE DEF n
<1> QED
  BY <1>1, <1>3, <1>4, <1>5, CallKeeps

LEMMA CallsKeep ==
    ASSUME EbInv, NEW t \in Threads \cup {Loop}, Call(t)
    PROVE  EbInv'
<1>1. CASE \E e \in Events : \E tv \in Intervals \cup {None} : Add(t, e, tv)
  BY <1>1, AddKeeps
<1>2. CASE \E e \in Events : Del(t, e)
  BY <1>2, DelKeeps
<1>3. CASE \E e \in Events : Active(t, e)
  BY <1>3, ActiveKeeps
<1>4. CASE Break(t)
  BY <1>4, BreakKeeps
<1>5. CASE \E d \in Deferred : Schedule(t, d) \/ Cancel(t, d)
  BY <1>5, ScheduleKeeps
<1> QED
  BY <1>1, <1>2, <1>3, <1>4, <1>5 DEF Call
-----------------------------------------------------------------------------
(* The steps of the loop that leave the base alone.                          *)

LEMMA LoopMoves ==
    ASSUME EbInv, eb' = eb, wanted' = wanted, clock' = clock,
           sinceBreak' = sinceBreak, del' = del,
           loop' \in LoopState, loop'.current = loop.current,
           loop.pc # "callback", loop'.pc \notin {"callback", "dispatch"},
           BreakInv', PriorityInv'
    PROVE  EbInv'
<1>1. TypeInv' /\ PendingInv'
  BY DEF EbInv, TypeInv, PendingInv
<1> QED
  BY <1>1 DEF EbInv, WantedInv, WakesInTime

LEMMA EnterKeeps ==
    ASSUME EbInv, NEW f \in Flags, Enter(f)
    PROVE  EbInv'
<1>1. loop \in LoopState /\ loop.pc = "out"
  BY DEF EbInv, TypeInv, Enter
<1>2. /\ loop' \in LoopState /\ loop'.pc = "top" /\ loop'.current = loop.current
      /\ loop'.running = loop.running
  <2>1. loop' = [loop EXCEPT !.pc = "top", !.flags = f, !.break = FALSE,
                             !.gotterm = FALSE, !.cache = None, !.starts = loop.starts + 1]
    BY DEF Enter
  <2>2. "top" \in LoopPcs /\ f \in Flags \cup {"0"} /\ None \in Nat \cup {None}
        /\ loop.starts + 1 \in Nat
    BY <1>1, LoopFields DEF LoopPcs
  <2> QED
    BY <1>1, <2>1, <2>2 DEF LoopState
<1>3. BreakInv' /\ PriorityInv'
  BY <1>1, <1>2 DEF EbInv, BreakInv, PriorityInv, Enter
<1> QED
  BY <1>1, <1>2, <1>3, LoopMoves DEF Enter

LEMMA WakeKeeps ==
    ASSUME EbInv, Wake
    PROVE  EbInv'
<1>1. loop \in LoopState /\ loop.pc = "dispatch" /\ eb \in Base
  BY DEF EbInv, TypeInv, BaseOK, Wake
<1>2. Ready \in SUBSET AllEvents
  BY <1>1, BaseFields, Priorities DEF Ready
<1>3. /\ loop' \in LoopState /\ loop'.pc = "woken" /\ loop'.current = loop.current
      /\ loop'.running = loop.running /\ loop'.break = loop.break
  <2>1. loop' = [loop EXCEPT !.pc = "woken", !.ready = Ready, !.until = 0, !.slow = 0]
    BY DEF Wake
  <2>2. "woken" \in LoopPcs /\ 0 \in Int
    BY DEF LoopPcs
  <2> QED
    BY <1>1, <1>2, <2>1, <2>2 DEF LoopState
<1>4. BreakInv' /\ PriorityInv'
  BY <1>1, <1>3 DEF EbInv, BreakInv, PriorityInv, Wake
<1> QED
  BY <1>1, <1>3, <1>4, LoopMoves DEF Wake

LEMMA AppliedKeeps ==
    ASSUME EbInv, Applied
    PROVE  EbInv'
<1>1. loop \in LoopState /\ loop.pc \in {"woken", "apply"} /\ clock \in Nat
  BY DEF EbInv, TypeInv, Applied
<1>2. /\ loop' \in LoopState /\ loop'.pc = "timeouts" /\ loop'.current = loop.current
      /\ loop'.running = loop.running /\ loop'.break = loop.break
  BY <1>1 DEF Applied, LoopState, LoopPcs
<1>3. BreakInv' /\ PriorityInv'
  BY <1>1, <1>2 DEF EbInv, BreakInv, PriorityInv, Applied
<1> QED
  BY <1>1, <1>2, <1>3, LoopMoves DEF Applied

LEMMA ActiveAreEvents == ASSUME TypeInv PROVE Items(eb.active) \subseteq AllEvents
<1>1. eb.active \in Seq(AllEvents)
  BY BaseFields DEF TypeInv, BaseOK
<1> QED
  BY <1>1, ItemsTyped

LEMMA TimeoutsDoneKeeps ==
    ASSUME EbInv, TimeoutsDone
    PROVE  EbInv'
<1>1. loop \in LoopState /\ loop.pc = "timeouts"
  BY DEF EbInv, TypeInv, TimeoutsDone
<1>2. \/ loop' = [loop EXCEPT !.pc = "process", !.scan = 0, !.real = FALSE]
      \/ loop' = Left
      \/ loop' = [loop EXCEPT !.pc = "top"]
  BY DEF TimeoutsDone
<1>3. /\ loop' \in LoopState /\ loop'.current = loop.current
      /\ loop'.running = loop.running /\ loop'.break = loop.break
      /\ \/ loop'.pc = "process" /\ loop'.scan = 0
         \/ loop'.pc \in {"out", "top"}
  <2>1. CASE loop' = [loop EXCEPT !.pc = "process", !.scan = 0, !.real = FALSE]
    BY <1>1, <2>1 DEF LoopState, LoopPcs
  <2>2. CASE loop' = Left
    BY <1>1, <2>2 DEF LoopState, LoopPcs, Left
  <2>3. CASE loop' = [loop EXCEPT !.pc = "top"]
    BY <1>1, <2>3 DEF LoopState, LoopPcs
  <2> QED
    BY <1>2, <2>1, <2>2, <2>3
<1>4. eb' = eb /\ wanted' = wanted /\ clock' = clock /\ sinceBreak' = sinceBreak /\ del' = del
  BY DEF TimeoutsDone
<1>5. \A x \in Items(eb.active) : Pri[x] >= 0
  BY ActiveAreEvents, Priorities DEF EbInv
<1>6. BreakInv'
  BY <1>1, <1>3, <1>4 DEF EbInv, BreakInv
<1>7. PriorityInv'
  BY <1>1, <1>3, <1>4, <1>5 DEF EbInv, PriorityInv, NoneBefore
<1> QED
  BY <1>1, <1>3, <1>4, <1>6, <1>7, LoopMoves

LEMMA QueuesDoneKeeps ==
    ASSUME EbInv, QueuesDone
    PROVE  EbInv'
<1>1. loop \in LoopState /\ loop.pc = "process"
  BY DEF EbInv, TypeInv, QueuesDone
<1>2. /\ loop' \in LoopState /\ loop'.pc = "deferred" /\ loop'.current = loop.current
      /\ loop'.running = loop.running /\ loop'.break = loop.break
  BY <1>1 DEF QueuesDone, LoopState, LoopPcs
<1>3. BreakInv' /\ PriorityInv'
  BY <1>1, <1>2 DEF EbInv, BreakInv, PriorityInv, QueuesDone
<1> QED
  BY <1>1, <1>2, <1>3, LoopMoves DEF QueuesDone

LEMMA DeferredReturnsKeeps ==
    ASSUME EbInv, DeferredReturns
    PROVE  EbInv'
<1>1. loop \in LoopState /\ loop.pc = "defcallback"
  BY DEF EbInv, TypeInv, DeferredReturns
<1>2. \/ loop' = [loop EXCEPT !.pc = "passend", !.running = None, !.ndeferred = 0]
      \/ ~loop.break /\ loop' = [loop EXCEPT !.pc = "deferred"]
  BY DEF DeferredReturns
<1>3. /\ loop' \in LoopState /\ loop'.current = loop.current /\ loop'.break = loop.break
      /\ \/ loop'.pc = "passend" /\ loop'.running = None
         \/ loop'.pc = "deferred" /\ ~loop.break
  <2>1. CASE loop' = [loop EXCEPT !.pc = "passend", !.running = None, !.ndeferred = 0]
    BY <1>1, <2>1 DEF LoopState, LoopPcs
  <2>2. CASE ~loop.break /\ loop' = [loop EXCEPT !.pc = "deferred"]
    BY <1>1, <2>2 DEF LoopState, LoopPcs
  <2> QED
    BY <1>2, <2>1, <2>2
<1>4. BreakInv' /\ PriorityInv'
  BY <1>1, <1>3 DEF EbInv, BreakInv, PriorityInv, DeferredReturns
<1> QED
  BY <1>1, <1>3, <1>4, LoopMoves DEF DeferredReturns

LEMMA DeferredDoneKeeps ==
    ASSUME EbInv, DeferredDone
    PROVE  EbInv'
<1>1. loop \in LoopState /\ loop.pc = "deferred"
  BY DEF EbInv, TypeInv, DeferredDone
<1>2. /\ loop' \in LoopState /\ loop'.pc = "passend" /\ loop'.current = loop.current
      /\ loop'.running = None
  BY <1>1 DEF DeferredDone, LoopState, LoopPcs
<1>3. BreakInv' /\ PriorityInv'
  BY <1>1, <1>2 DEF EbInv, BreakInv, PriorityInv, DeferredDone
<1> QED
  BY <1>1, <1>2, <1>3, LoopMoves DEF DeferredDone

LEMMA PassEndKeeps ==
    ASSUME EbInv, PassEnd
    PROVE  EbInv'
<1>1. loop \in LoopState /\ loop.pc = "passend"
  BY DEF EbInv, TypeInv, PassEnd
<1>2. \/ loop' = [Left EXCEPT !.real = FALSE]
      \/ loop' = [loop EXCEPT !.pc = "top", !.real = FALSE]
  BY DEF PassEnd
<1>3. /\ loop' \in LoopState /\ loop'.pc \in {"out", "top"} /\ loop'.current = loop.current
      /\ loop'.running = loop.running
  BY <1>1, <1>2 DEF LoopState, LoopPcs, Left
<1>4. BreakInv' /\ PriorityInv'
  BY <1>1, <1>3 DEF EbInv, BreakInv, PriorityInv, PassEnd
<1> QED
  BY <1>1, <1>3, <1>4, LoopMoves DEF PassEnd

LEMMA TickKeeps ==
    ASSUME EbInv, Tick
    PROVE  EbInv'
<1>1. /\ eb' = eb /\ loop' = loop /\ clock' = clock + 1 /\ del' = del /\ wanted' = wanted
      /\ sinceBreak' = sinceBreak
  BY DEF Tick
<1>2. clock \in Nat /\ loop.until \in Int
  BY LoopFields DEF EbInv, TypeInv
<1>3. Overslept(clock)' => Overslept(clock)
  BY <1>1, <1>2 DEF Overslept
<1>4. WakesInTime'
  BY <1>1, <1>3 DEF EbInv, WakesInTime, NActive, Overslept
<1>5. TypeInv'
  BY <1>1, <1>2 DEF EbInv, TypeInv
<1> QED
  BY <1>1, <1>4, <1>5
  DEF EbInv, PendingInv, BreakInv, PriorityInv, NoneBefore, WantedInv
-----------------------------------------------------------------------------
(* The top of the loop.                                                      *)

LEMMA LeastNumber ==
    ASSUME NEW T, T \subseteq Nat, T # {}
    PROVE  \E x \in T : \A y \in T : x <= y
<1> DEFINE R == OpToRel(<, Nat)
<1>1. PICK x \in T : \A y \in T : ~ (<<y, x>> \in R)
  BY NatLessThanWellFounded, WFMin
<1>2. R = {ss \in Nat \X Nat : ss[1] < ss[2]}
  BY DEF OpToRel
<1> HIDE DEF R
<1>3. ASSUME NEW y \in T PROVE x <= y
  <2>1. x \in Nat /\ y \in Nat
    OBVIOUS
  <2>2. y < x => <<y, x>> \in R
    BY <1>2, <2>1
  <2> QED
    BY <1>1, <2>1, <2>2
<1> QED
  BY <1>3

\* min_heap_top() of a heap that is not empty.
LEMMA HeapHasTop ==
    ASSUME NEW b \in Base, b.heap # {}
    PROVE  Top(b) # {}
<1> DEFINE T == {b.timeoutAt[e] : e \in b.heap}
<1>1. b.timeoutAt \in [Events -> Nat] /\ b.heap \subseteq Events
  BY BaseFields
<1>2. T \subseteq Nat /\ T # {}
  BY <1>1
<1>3. PICK x \in T : \A y \in T : x <= y
  BY <1>2, LeastNumber
<1> QED
  BY <1>3 DEF Top

\* The loop sleeps until the earliest timeout at the latest.
LEMMA SleepIsBounded ==
    ASSUME TypeInv
    PROVE  /\ SleepUntil \in Int
           /\ NActive => SleepUntil = clock
           /\ \A e \in eb.heap : \/ SleepUntil = clock
                                 \/ /\ SleepUntil \in Nat
                                    /\ SleepUntil <= eb.timeoutAt[e] + (clock - Now)
<1>0. eb \in Base /\ clock \in Nat /\ Now \in Nat
  BY NowIsTime DEF TypeInv, BaseOK
<1>1. CASE NActive \/ loop.flags = "nonblock"
  BY <1>0, <1>1 DEF SleepUntil
<1>2. CASE ~(NActive \/ loop.flags = "nonblock") /\ eb.heap = {}
  BY <1>0, <1>2 DEF SleepUntil, Forever
<1>3. CASE ~(NActive \/ loop.flags = "nonblock") /\ eb.heap # {}
  <2> DEFINE top == CHOOSE e \in Top(eb) : TRUE
             first == eb.timeoutAt[top]
  <2>1. SleepUntil = clock + (IF first <= Now THEN 0 ELSE first - Now)
    BY <1>3 DEF SleepUntil
  <2>2. top \in Top(eb)
    BY <1>0, <1>3, HeapHasTop
  <2> HIDE DEF top
  <2>3. top \in Events /\ \A e \in eb.heap : first <= eb.timeoutAt[e]
    BY <1>0, <2>2, BaseFields DEF Top
  <2>4. \A e \in Events : eb.timeoutAt[e] \in Nat
    BY <1>0, BaseFields
  <2>5. first \in Nat /\ \A e \in eb.heap : eb.timeoutAt[e] \in Nat
    BY <1>0, <2>3, <2>4, BaseFields
  <2> HIDE DEF first
  <2>6. CASE first <= Now
    BY <1>0, <1>3, <2>1, <2>6
  <2>7. CASE first > Now
    <3>1. SleepUntil = clock + (first - Now) /\ SleepUntil \in Nat
      BY <1>0, <2>1, <2>5, <2>7
    <3>2. ASSUME NEW e \in eb.heap PROVE SleepUntil <= eb.timeoutAt[e] + (clock - Now)
      <4>1. first <= eb.timeoutAt[e] /\ eb.timeoutAt[e] \in Nat
        BY <2>3, <2>5
      <4> QED
        BY <1>0, <2>5, <3>1, <4>1
    <3> QED
      BY <1>3, <3>1, <3>2
  <2> QED
    BY <1>0, <2>5, <2>6, <2>7
<1> QED
  BY <1>1, <1>2, <1>3

\* The base but for event_continue.
LEMMA ContinueOnly ==
    ASSUME NEW b, BaseOK(b)
    PROVE  LET c == [b EXCEPT !.continue = FALSE]
           IN  /\ BaseOK(c) /\ Holds(c) = Holds(b) /\ c.active = b.active
               /\ c.deferred = b.deferred /\ c.heap = b.heap /\ c.timeoutAt = b.timeoutAt
               /\ c.pending = b.pending /\ c.byte = b.byte /\ c.continue = FALSE
  BY DEF BaseOK, Base, Holds

LEMMA TurnKeeps ==
    ASSUME EbInv, Turn
    PROVE  EbInv'
<1>0. /\ loop \in LoopState /\ loop.pc = "top" /\ BaseOK(eb) /\ clock \in Nat
      /\ loop.running = None /\ loop.current = NoEvent /\ Now \in Nat
  BY NowIsTime DEF EbInv, TypeInv, PriorityInv, Turn
<1>1. /\ eb' = [eb EXCEPT !.continue = FALSE] /\ clock' = clock /\ del' = del
      /\ wanted' = wanted /\ sinceBreak' = sinceBreak
  BY DEF Turn
<1>2. /\ BaseOK(eb') /\ Holds(eb') = Holds(eb) /\ eb'.active = eb.active
      /\ eb'.deferred = eb.deferred /\ eb'.heap = eb.heap /\ eb'.timeoutAt = eb.timeoutAt
      /\ eb'.pending = eb.pending /\ eb'.byte = eb.byte /\ ~eb'.continue
  BY <1>0, <1>1, ContinueOnly
<1>3. PendingInv' /\ WantedInv'
  BY <1>0, <1>1, <1>2 DEF EbInv, PendingInv, WantedInv
<1>4. CASE loop' = Left
  <2>1. /\ loop' \in LoopState /\ loop'.pc = "out" /\ loop'.current = loop.current
        /\ loop'.running = loop.running
    BY <1>0, <1>4 DEF Left, LoopState, LoopPcs
  <2> QED
    BY <1>0, <1>1, <1>2, <1>3, <2>1
    DEF EbInv, TypeInv, BreakInv, PriorityInv, WakesInTime
<1>5. CASE /\ ~loop.break
           /\ loop' = [loop EXCEPT !.pc = "dispatch", !.until = SleepUntil,
                                   !.slow = clock - Now, !.cache = None]
  <2>1. /\ SleepUntil \in Int
        /\ NActive => SleepUntil = clock
        /\ \A e \in eb.heap : \/ SleepUntil = clock
                              \/ /\ SleepUntil \in Nat
                                 /\ SleepUntil <= eb.timeoutAt[e] + (clock - Now)
    BY SleepIsBounded DEF EbInv
  <2>2. clock - Now \in Int /\ "dispatch" \in LoopPcs /\ None \in Nat \cup {None}
    BY <1>0 DEF LoopPcs
  <2>3. /\ loop' \in LoopState /\ loop'.pc = "dispatch" /\ loop'.current = loop.current
        /\ loop'.running = loop.running /\ loop'.break = loop.break
        /\ loop'.until = SleepUntil /\ loop'.slow = clock - Now
    BY <1>0, <1>5, <2>1, <2>2 DEF LoopState
  <2>4. SleepUntil = clock => ~Overslept(clock)'
    BY <1>0, <1>1, <2>3 DEF Overslept, Forever
  <2>5. ASSUME NEW e \in eb'.heap, Overslept(clock)'
        PROVE  ~Overslept(eb.timeoutAt[e] + loop.slow)'
    <3>1. SleepUntil \in Nat /\ SleepUntil <= eb.timeoutAt[e] + (clock - Now)
      BY <1>2, <2>1, <2>4, <2>5
    <3>2. eb.timeoutAt[e] \in Nat
      BY <1>0, <1>2, BaseFields DEF BaseOK
    <3>3. SleepUntil # Forever /\ ~(SleepUntil > eb.timeoutAt[e] + (clock - Now))
      BY <1>0, <3>1, <3>2 DEF Forever
    <3> QED
      BY <1>2, <2>3, <3>3 DEF Overslept
  <2>6. NActive' \/ loop'.break => ~Overslept(clock)'
    BY <1>2, <1>5, <2>1, <2>3, <2>4 DEF NActive
  <2>7. WakesInTime'
    BY <2>5, <2>6 DEF WakesInTime
  <2>8. TypeInv' /\ BreakInv' /\ PriorityInv'
    BY <1>0, <1>1, <1>2, <1>5, <2>3 DEF EbInv, TypeInv, BreakInv, PriorityInv
  <2> QED
    BY <1>3, <2>7, <2>8 DEF EbInv
<1> QED
  BY <1>4, <1>5 DEF Turn
-----------------------------------------------------------------------------
(* Descriptors and timeouts.                                                 *)

\* What the loop does with the lock held, before it runs a queue.
LEMMA BeforeQueues ==
    ASSUME EbInv, loop.pc \in {"woken", "apply", "timeouts"},
           BaseOK(eb'), eb'.pending /\ ~eb'.byte => eb.pending /\ ~eb.byte,
           ~eb'.continue, Holds(eb') \subseteq Holds(eb),
           loop' \in LoopState, loop'.pc \in {"apply", "timeouts"},
           loop'.current = loop.current, loop'.running = loop.running,
           loop'.break = loop.break, clock' = clock, del' = del, wanted' = wanted,
           sinceBreak' = sinceBreak
    PROVE  EbInv'
<1>1. TypeInv' /\ PendingInv' /\ BreakInv' /\ PriorityInv'
  BY DEF EbInv, TypeInv, PendingInv, BreakInv, PriorityInv
<1>2. WantedInv' /\ WakesInTime'
  BY DEF EbInv, WantedInv, WakesInTime
<1> QED
  BY <1>1, <1>2 DEF EbInv

LEMMA ApplyKeeps ==
    ASSUME EbInv, NEW e \in AllEvents, Apply(e)
    PROVE  EbInv'
<1>0. /\ loop \in LoopState /\ loop.pc \in {"woken", "apply"} /\ BaseOK(eb)
      /\ loop.running = None /\ ~eb.continue
  BY DEF EbInv, TypeInv, PriorityInv, Apply
<1>1. /\ loop' \in LoopState /\ loop'.pc = "apply" /\ loop'.current = loop.current
      /\ loop'.running = loop.running /\ loop'.break = loop.break
  <2>1. loop' = [loop EXCEPT !.pc = "apply", !.ready = loop.ready \ {e}]
    BY DEF Apply
  <2>2. "apply" \in LoopPcs /\ loop.ready \ {e} \in SUBSET AllEvents
    BY <1>0, LoopFields DEF LoopPcs
  <2> QED
    BY <1>0, <2>1, <2>2 DEF LoopState
<1>2. /\ BaseOK(eb') /\ ~eb'.continue /\ Holds(eb') \subseteq Holds(eb)
      /\ eb'.pending /\ ~eb'.byte => eb.pending /\ ~eb.byte
  <2>1. CASE e \in eb.inserted
    <3>1. eb' = Activated(eb, e, "read", FALSE)
      BY <2>1 DEF Apply
    <3>2. "read" \in Why /\ loop.running \in Int /\ FALSE \in BOOLEAN
      BY <1>0, LoopFields DEF Why
    <3>3. Effect(eb, eb', FALSE) /\ Holds(eb') \subseteq Holds(eb) \cup {e}
      BY <1>0, <3>1, <3>2, ActivatedEffect
    <3>4. ~ \E x \in AllEvents : Pri[x] < loop.running
      BY <1>0, Priorities DEF None
    <3>5. e \in Holds(eb)
      BY <2>1 DEF Holds
    <3> QED
      BY <1>0, <3>3, <3>4, <3>5 DEF Effect
  <2>2. CASE e \notin eb.inserted
    BY <1>0, <2>2 DEF Apply
  <2> QED
    BY <2>1, <2>2
<1> QED
  BY <1>0, <1>1, <1>2, BeforeQueues DEF Apply

LEMMA TimeoutKeeps ==
    ASSUME EbInv, NEW e \in Events, Timeout(e)
    PROVE  EbInv'
<1> DEFINE b == Deleted(eb, e, FALSE)
<1>0. /\ loop \in LoopState /\ loop.pc = "timeouts" /\ BaseOK(eb)
      /\ loop.running = None /\ ~eb.continue
      /\ eb' = Activated(b, e, "timeout", FALSE) /\ e \in Top(eb)
  BY DEF EbInv, TypeInv, PriorityInv, Timeout, Due
<1>1. Effect(eb, b, FALSE) /\ Holds(b) = Holds(eb) \ {e} /\ b.continue = eb.continue
  BY <1>0, DeletedEffect
<1>2. "timeout" \in Why /\ loop.running \in Int /\ FALSE \in BOOLEAN /\ e \in AllEvents
  BY <1>0, LoopFields, Priorities DEF Why
<1>3. BaseOK(b)
  BY <1>1 DEF Effect
<1> HIDE DEF b
<1>4. Effect(b, eb', FALSE) /\ Holds(eb') \subseteq Holds(b) \cup {e}
  BY <1>0, <1>2, <1>3, ActivatedEffect
<1>5. ~ \E x \in AllEvents : Pri[x] < loop.running
  BY <1>0, Priorities DEF None
<1>6. e \in Holds(eb)
  BY <1>0 DEF Top, Holds
<1>7. /\ BaseOK(eb') /\ ~eb'.continue /\ Holds(eb') \subseteq Holds(eb)
      /\ eb'.pending /\ ~eb'.byte => eb.pending /\ ~eb.byte
  BY <1>0, <1>1, <1>4, <1>5, <1>6 DEF Effect
<1> QED
  BY <1>0, <1>7, BeforeQueues DEF Timeout

-----------------------------------------------------------------------------
(* Callbacks.                                                                *)

LEMMA RunAtIsTime ==
    ASSUME TypeInv, NEW e \in Events
    PROVE  RunAt(e) \in Nat
<1>1. eb.timeoutAt[e] \in Nat /\ eb.ioTimeout[e] \in Nat /\ Now \in Nat
  BY NowIsTime, BaseFields DEF TypeInv, BaseOK
<1> QED
  BY <1>1 DEF RunAt

\* The active queue alone, without e.
LEMMA DequeuedFacts ==
    ASSUME NEW b, BaseOK(b), NEW e
    PROVE  LET c == [b EXCEPT !.active = Without(b.active, e)]
           IN  /\ BaseOK(c) /\ Holds(c) \subseteq Holds(b)
               /\ Items(c.active) \subseteq Items(b.active)
               /\ c.continue = b.continue /\ c.pending = b.pending /\ c.byte = b.byte
<1> DEFINE c == [b EXCEPT !.active = Without(b.active, e)]
<1>0. b \in Base /\ Distinct(b.active)
  BY DEF BaseOK
<1>1. /\ Without(b.active, e) \in Seq(AllEvents) /\ Distinct(Without(b.active, e))
      /\ Items(Without(b.active, e)) = Items(b.active) \ {e}
  BY <1>0, BaseFields, WithoutFacts
<1>2. c \in Base
  BY <1>0, <1>1 DEF Base
<1>3. /\ c.active = Without(b.active, e) /\ c.heap = b.heap /\ c.inserted = b.inserted
      /\ c.continue = b.continue /\ c.pending = b.pending /\ c.byte = b.byte
  BY <1>0 DEF Base
<1> HIDE DEF c
<1> QED
  BY <1>1, <1>2, <1>3 DEF BaseOK, Holds, c

LEMMA UnqueuedFacts ==
    ASSUME EbInv, NEW e \in Items(eb.active)
    PROVE  LET c == Unqueued(e)
           IN  /\ BaseOK(c) /\ Items(c.active) \subseteq Items(eb.active)
               /\ c.continue = eb.continue
               /\ c.pending /\ ~c.byte => eb.pending /\ ~eb.byte
               /\ Holds(c) \subseteq Holds(eb)
               /\ e \notin Persistent \cup {NotifyEv} => e \notin Holds(c)
<1> DEFINE b == [eb EXCEPT !.active = Without(eb.active, e)]
<1>0. BaseOK(eb) /\ e \in AllEvents /\ e \in Holds(eb)
  BY ActiveAreEvents DEF EbInv, TypeInv, Holds
<1>1. /\ BaseOK(b) /\ Holds(b) \subseteq Holds(eb)
      /\ Items(b.active) \subseteq Items(eb.active)
      /\ b.continue = eb.continue /\ b.pending = eb.pending /\ b.byte = eb.byte
  BY <1>0, DequeuedFacts
<1>2. CASE e = NotifyEv
  <2>1. Unqueued(e) = b
    BY <1>2 DEF Unqueued
  <2> QED
    BY <1>1, <1>2, <2>1
<1>3. CASE e # NotifyEv /\ e \notin Persistent
  <2> DEFINE c == Deleted(eb, e, FALSE)
  <2>1. Unqueued(e) = c
    BY <1>3 DEF Unqueued
  <2>2. /\ Effect(eb, c, FALSE) /\ Holds(c) = Holds(eb) \ {e}
        /\ Items(c.active) = Items(eb.active) \ {e} /\ c.continue = eb.continue
    BY <1>0, DeletedEffect
  <2> HIDE DEF c
  <2> QED
    BY <2>1, <2>2 DEF Effect
<1>4. CASE e # NotifyEv /\ e \in Persistent
  <2>1. CASE eb.ioTimeout[e] = 0
    <3>1. Unqueued(e) = b
      BY <1>4, <2>1 DEF Unqueued
    <3> QED
      BY <1>1, <1>4, <3>1
  <2>2. CASE eb.ioTimeout[e] # 0
    <3> DEFINE at == RunAt(e)
               c == Added(b, e, at, FALSE)
    <3>1. Unqueued(e) = c
      BY <1>4, <2>2 DEF Unqueued
    <3>2. e \in Events
      BY <1>0, <1>4 DEF AllEvents
    <3>3. at \in Nat \cup {None} /\ FALSE \in BOOLEAN
      BY <3>2, RunAtIsTime DEF EbInv
    <3> HIDE DEF at, b
    <3>4. /\ Effect(b, c, FALSE) /\ Holds(c) \subseteq Holds(b) \cup {e}
          /\ Items(c.active) \subseteq Items(b.active) /\ c.continue = b.continue
      BY <1>1, <3>2, <3>3, AddedEffect
    <3> HIDE DEF c
    <3>5. BaseOK(c) /\ (c.pending /\ ~c.byte => b.pending /\ ~b.byte)
      BY <3>4 DEF Effect
    <3> QED
      BY <1>0, <1>1, <1>4, <3>1, <3>4, <3>5
  <2> QED
    BY <2>1, <2>2
<1> QED
  BY <1>2, <1>3, <1>4

\* The event that is run next is of the first queue that is not empty.
LEMMA NextIsFirst ==
    ASSUME EbInv, loop.pc = "process", NEW i, IsNext(i)
    PROVE  /\ i \in 1 .. Len(eb.active) /\ eb.active[i] \in Items(eb.active)
           /\ NoneBefore(Pri[eb.active[i]])
<1>1. NoneBefore(loop.scan)
  BY DEF EbInv, PriorityInv
<1>2. i \in 1 .. Len(eb.active) /\ eb.active[i] \in Items(eb.active)
  BY DEF IsNext, Waiting, Items
<1>3. ASSUME NEW x \in Items(eb.active) PROVE Pri[x] >= Pri[eb.active[i]]
  <2>1. PICK j \in 1 .. Len(eb.active) : x = eb.active[j]
    BY DEF Items
  <2>2. j \in Waiting
    BY <1>1, <2>1 DEF NoneBefore, Waiting
  <2>3. Pri[eb.active[i]] < Pri[x] \/ Pri[eb.active[i]] = Pri[x]
    BY <2>1, <2>2 DEF IsNext
  <2>4. Pri[eb.active[i]] \in Nat /\ Pri[x] \in Nat
    BY <1>2, ActiveAreEvents, Priorities DEF EbInv
  <2> QED
    BY <2>3, <2>4
<1> QED
  BY <1>2, <1>3 DEF NoneBefore

LEMMA ProcessKeeps ==
    ASSUME EbInv, NEW i, Process(i)
    PROVE  EbInv'
<1> DEFINE e == eb.active[i]
<1>0. /\ loop \in LoopState /\ loop.pc = "process" /\ IsNext(i) /\ ~eb.continue
      /\ loop.break => sinceBreak = 0
  BY DEF EbInv, TypeInv, PriorityInv, BreakInv, Process
<1>1. e \in Items(eb.active) /\ NoneBefore(Pri[e])
  BY <1>0, NextIsFirst
<1>2. /\ eb' = Unqueued(e)
      /\ loop' = [loop EXCEPT !.pc = "callback", !.current = e, !.running = Pri[e],
                              !.scan = Pri[e], !.real = loop.real \/ e # NotifyEv]
      /\ wanted' = IF e \in Persistent THEN wanted ELSE wanted \ {e}
      /\ sinceBreak' = IF loop.break THEN sinceBreak + 1 ELSE 0
      /\ clock' = clock /\ del' = del
  BY DEF Process
<1>3. e \in AllEvents /\ e # NoEvent /\ Pri[e] \in Nat /\ Pri[e] \in 0 .. NPri - 1
  BY <1>1, ActiveAreEvents, EventBaseAssumption DEF EbInv
<1> HIDE DEF e
<1>4. /\ BaseOK(eb') /\ Items(eb'.active) \subseteq Items(eb.active)
      /\ eb'.continue = eb.continue
      /\ eb'.pending /\ ~eb'.byte => eb.pending /\ ~eb.byte
      /\ Holds(eb') \subseteq Holds(eb)
      /\ e \notin Persistent \cup {NotifyEv} => e \notin Holds(eb')
  BY <1>1, <1>2, UnqueuedFacts
<1>5. /\ loop' \in LoopState /\ loop'.pc = "callback" /\ loop'.current = e
      /\ loop'.running = Pri[e] /\ loop'.scan = Pri[e]
      /\ loop'.real = (loop.real \/ e # NotifyEv)
  <2>1. "callback" \in LoopPcs /\ (loop.real \/ e # NotifyEv) \in BOOLEAN
    BY DEF LoopPcs
  <2> QED
    BY <1>0, <1>2, <1>3, <2>1 DEF LoopState
<1>6. TypeInv'
  BY <1>2, <1>3, <1>4, <1>5 DEF EbInv, TypeInv
<1>7. PendingInv'
  BY <1>0, <1>4 DEF EbInv, PendingInv
<1>8. BreakInv'
  BY <1>0, <1>2, <1>5 DEF BreakInv
<1>9. PriorityInv'
  BY <1>0, <1>1, <1>4, <1>5 DEF PriorityInv, NoneBefore
<1>10. WantedInv'
  BY <1>2, <1>4 DEF EbInv, WantedInv
<1>11. WakesInTime'
  BY <1>5 DEF WakesInTime
<1> QED
  BY <1>6, <1>7, <1>8, <1>9, <1>10, <1>11 DEF EbInv
LEMMA DrainKeeps ==
    ASSUME EbInv, Drain
    PROVE  EbInv'
<1>1. /\ BaseOK(eb) /\ eb' = [eb EXCEPT !.byte = FALSE] /\ loop' = loop /\ clock' = clock
      /\ del' = del /\ wanted' = wanted /\ sinceBreak' = sinceBreak
      /\ loop.pc = "callback" /\ loop.current = NotifyEv
  BY DEF EbInv, TypeInv, Drain
<1>2. /\ BaseOK(eb') /\ Holds(eb') = Holds(eb) /\ eb'.active = eb.active
      /\ eb'.continue = eb.continue
  BY <1>1 DEF BaseOK, Base, Holds
<1> QED
  BY <1>1, <1>2
  DEF EbInv, TypeInv, PendingInv, BreakInv, PriorityInv, NoneBefore, WantedInv, WakesInTime

\* Where the loop may be after a callback.
LEMMA AfterCallbackFacts ==
    ASSUME NEW b, NEW l \in LoopState
    PROVE  LET m == AfterCallback(b, l)
           IN  /\ m \in LoopState /\ m.current = l.current /\ m.break = l.break
               /\ \/ m.pc = "passend" /\ m.running = None
                  \/ /\ m.pc = "process" /\ m.scan = l.scan /\ ~b.continue /\ ~l.break
                  \/ m.pc = "deferred" /\ ~l.break
                  \/ /\ m.pc = "process" /\ m.scan = l.scan + 1 /\ ~l.real /\ ~l.break
                     /\ \/ b.continue
                        \/ \A i \in 1 .. Len(b.active) : Pri[b.active[i]] # l.running
<1> DEFINE m == AfterCallback(b, l)
           more == \E i \in 1 .. Len(b.active) : Pri[b.active[i]] = l.running
<1>0. l.scan + 1 \in Nat
  BY LoopFields
<1>1. CASE l.break
  <2>1. m = [l EXCEPT !.pc = "passend", !.real = TRUE, !.running = None]
    BY <1>1 DEF AfterCallback
  <2> HIDE DEF m
  <2>2. m \in LoopState /\ m.current = l.current /\ m.break = l.break
        /\ m.pc = "passend" /\ m.running = None
    BY <2>1 DEF LoopState, LoopPcs
  <2> QED
    BY <2>2 DEF m
<1>2. CASE ~l.break /\ ~b.continue /\ more
  <2>1. m = [l EXCEPT !.pc = "process"]
    BY <1>2 DEF AfterCallback
  <2> HIDE DEF m
  <2>2. m \in LoopState /\ m.current = l.current /\ m.break = l.break
        /\ m.pc = "process" /\ m.scan = l.scan
    BY <2>1 DEF LoopState, LoopPcs
  <2> QED
    BY <1>2, <2>2 DEF m
<1>3. CASE ~l.break /\ ~(~b.continue /\ more) /\ l.real
  <2>1. m = [l EXCEPT !.pc = "deferred", !.ndeferred = 0]
    BY <1>3 DEF AfterCallback
  <2> HIDE DEF m
  <2>2. m \in LoopState /\ m.current = l.current /\ m.break = l.break
        /\ m.pc = "deferred"
    BY <2>1 DEF LoopState, LoopPcs
  <2> QED
    BY <1>3, <2>2 DEF m
<1>4. CASE ~l.break /\ ~(~b.continue /\ more) /\ ~l.real
  <2>1. m = [l EXCEPT !.pc = "process", !.scan = l.scan + 1]
    BY <1>4 DEF AfterCallback
  <2> HIDE DEF m
  <2>2. m \in LoopState /\ m.current = l.current /\ m.break = l.break
        /\ m.pc = "process" /\ m.scan = l.scan + 1
    BY <1>0, <2>1 DEF LoopState, LoopPcs
  <2> QED
    BY <1>4, <2>2 DEF m
<1> QED
  BY <1>1, <1>2, <1>3, <1>4

LEMMA ReturnKeeps ==
    ASSUME EbInv, Return
    PROVE  EbInv'
<1> DEFINE term == loop.gotterm \/ loop.current = ExitEv
           l == [loop EXCEPT !.current = NoEvent, !.gotterm = term]
<1>0. /\ loop \in LoopState /\ loop.pc = "callback" /\ BaseOK(eb) /\ del \in DelState
      /\ loop.current = NotifyEv => ~eb.byte
      /\ loop.scan = loop.running
      /\ ~loop.real => loop.current = NotifyEv
      /\ eb.continue => loop.real
      /\ ~eb.continue => NoneBefore(loop.running)
      /\ loop.running = Pri[loop.current]
  BY DEF EbInv, TypeInv, PriorityInv, Return
<1>1. /\ loop' = AfterCallback(eb', l) /\ clock' = clock /\ wanted' = wanted
      /\ sinceBreak' = sinceBreak
      /\ eb' = IF loop.current = NotifyEv THEN [eb EXCEPT !.pending = FALSE] ELSE eb
      /\ del' = [t \in Threads |-> [del[t] EXCEPT !.asleep = FALSE]]
  BY DEF Return
<1>2. term \in BOOLEAN
  BY <1>0, LoopFields
<1> HIDE DEF term
<1>3. /\ l \in LoopState /\ l.current = NoEvent /\ l.break = loop.break
      /\ l.scan = loop.scan /\ l.running = loop.running /\ l.real = loop.real
  BY <1>0, <1>2 DEF LoopState
<1> HIDE DEF l
<1>4. /\ BaseOK(eb') /\ Holds(eb') = Holds(eb) /\ eb'.active = eb.active
      /\ eb'.continue = eb.continue /\ eb'.byte = eb.byte
      /\ eb'.pending => eb.pending /\ loop.current # NotifyEv
  <2>1. CASE loop.current = NotifyEv
    BY <1>0, <1>1, <2>1 DEF BaseOK, Base, Holds
  <2>2. CASE loop.current # NotifyEv
    BY <1>0, <1>1, <2>2
  <2> QED
    BY <2>1, <2>2
<1>5. /\ loop' \in LoopState /\ loop'.current = NoEvent /\ loop'.break = loop.break
      /\ \/ loop'.pc = "passend" /\ loop'.running = None
         \/ /\ loop'.pc = "process" /\ loop'.scan = loop.scan /\ ~eb.continue /\ ~loop.break
         \/ loop'.pc = "deferred" /\ ~loop.break
         \/ /\ loop'.pc = "process" /\ loop'.scan = loop.scan + 1
            /\ ~loop.real /\ ~loop.break
            /\ \/ eb.continue
               \/ \A i \in 1 .. Len(eb.active) : Pri[eb.active[i]] # loop.running
  <2> DEFINE b == eb'
             m == loop'
  <2>1. m = AfterCallback(b, l) /\ l \in LoopState
    BY <1>1, <1>3
  <2> HIDE DEF b, m
  <2>2. /\ m \in LoopState /\ m.current = l.current /\ m.break = l.break
        /\ \/ m.pc = "passend" /\ m.running = None
           \/ /\ m.pc = "process" /\ m.scan = l.scan /\ ~b.continue /\ ~l.break
           \/ m.pc = "deferred" /\ ~l.break
           \/ /\ m.pc = "process" /\ m.scan = l.scan + 1 /\ ~l.real /\ ~l.break
              /\ \/ b.continue
                 \/ \A i \in 1 .. Len(b.active) : Pri[b.active[i]] # l.running
    BY <2>1, AfterCallbackFacts
  <2> QED
    BY <1>3, <1>4, <2>2 DEF b, m
<1>6. del' \in DelState
  BY <1>0, <1>1 DEF DelState
<1>7. TypeInv'
  BY <1>1, <1>4, <1>5, <1>6 DEF EbInv, TypeInv
<1>8. PendingInv'
  BY <1>0, <1>4 DEF EbInv, PendingInv
<1>9. BreakInv'
  BY <1>1, <1>5 DEF EbInv, BreakInv
<1>10. ASSUME ~loop.real, loop'.scan = loop.scan + 1,
              \A i \in 1 .. Len(eb.active) : Pri[eb.active[i]] # loop.running
       PROVE  ~eb'.continue /\ NoneBefore(loop.scan)'
  <2>1. ~eb.continue /\ NoneBefore(loop.running)
    BY <1>0, <1>10
  <2>2. ASSUME NEW x \in Items(eb.active) PROVE Pri[x] >= loop.scan + 1
    <3>1. Pri[x] # loop.running /\ Pri[x] >= loop.running
      BY <1>10, <2>1 DEF NoneBefore, Items
    <3>2. Pri[x] \in Nat /\ loop.scan \in Nat
      BY <1>0, ActiveAreEvents, Priorities, LoopFields DEF EbInv
    <3> QED
      BY <1>0, <3>1, <3>2
  <2> QED
    BY <1>4, <1>10, <2>1, <2>2 DEF NoneBefore
<1>11. PriorityInv'
  <2>1. CASE loop'.pc = "passend" /\ loop'.running = None
    BY <2>1 DEF PriorityInv
  <2>2. CASE loop'.pc = "deferred"
    BY <2>2 DEF PriorityInv
  <2>3. CASE loop'.pc = "process" /\ loop'.scan = loop.scan /\ ~eb.continue
    BY <1>0, <1>4, <2>3 DEF PriorityInv, NoneBefore
  <2>4. CASE /\ loop'.pc = "process" /\ loop'.scan = loop.scan + 1 /\ ~loop.real
             /\ \A i \in 1 .. Len(eb.active) : Pri[eb.active[i]] # loop.running
    BY <1>10, <2>4 DEF PriorityInv
  <2> QED
    BY <1>0, <1>5, <2>1, <2>2, <2>3, <2>4
<1>12. WantedInv' /\ WakesInTime'
  BY <1>1, <1>4, <1>5 DEF EbInv, WantedInv, WakesInTime
<1> QED
  BY <1>7, <1>8, <1>9, <1>11, <1>12 DEF EbInv

LEMMA RunDeferredKeeps ==
    ASSUME EbInv, RunDeferred
    PROVE  EbInv'
<1>0. /\ loop \in LoopState /\ loop.pc = "deferred" /\ BaseOK(eb)
      /\ loop.break => sinceBreak = 0
      /\ eb.deferred # <<>>
  BY DEF EbInv, TypeInv, BreakInv, RunDeferred
<1>1. /\ eb' = [eb EXCEPT !.deferred = Tail(eb.deferred)]
      /\ loop' = [loop EXCEPT !.pc = "defcallback", !.ndeferred = loop.ndeferred + 1]
      /\ sinceBreak' = IF loop.break THEN sinceBreak + 1 ELSE 0
      /\ clock' = clock /\ del' = del /\ wanted' = wanted
  BY DEF RunDeferred
<1>2. Tail(eb.deferred) \in Seq(Deferred)
  <2>1. eb.deferred \in Seq(Deferred)
    BY <1>0, BaseFields DEF BaseOK
  <2> QED
    BY <1>0, <2>1, HeadTailProperties
<1>3. /\ BaseOK(eb') /\ Holds(eb') = Holds(eb)
      /\ eb'.pending = eb.pending /\ eb'.byte = eb.byte
  BY <1>0, <1>1, <1>2, DeferredOnly
<1>4. /\ loop' \in LoopState /\ loop'.pc = "defcallback" /\ loop'.current = loop.current
  <2>1. loop.ndeferred + 1 \in Nat /\ "defcallback" \in LoopPcs
    BY <1>0, LoopFields DEF LoopPcs
  <2> QED
    BY <1>0, <1>1, <2>1 DEF LoopState
<1>5. TypeInv' /\ PendingInv' /\ BreakInv'
  BY <1>0, <1>1, <1>3, <1>4 DEF EbInv, TypeInv, PendingInv, BreakInv
<1>6. PriorityInv' /\ WantedInv' /\ WakesInTime'
  BY <1>0, <1>1, <1>3, <1>4 DEF EbInv, PriorityInv, WantedInv, WakesInTime
<1> QED
  BY <1>5, <1>6 DEF EbInv

-----------------------------------------------------------------------------
LEMMA StepKeeps ==
    ASSUME EbInv, EbNext
    PROVE  EbInv'
<1>1. CASE LoopStep
  BY <1>1, TurnKeeps, WakeKeeps, AppliedKeeps, TimeoutsDoneKeeps, QueuesDoneKeeps,
     DrainKeeps, ReturnKeeps, RunDeferredKeeps, DeferredReturnsKeeps, DeferredDoneKeeps,
     PassEndKeeps, ApplyKeeps, TimeoutKeeps, ProcessKeeps
  DEF LoopStep
<1>2. CASE \E f \in Flags : Enter(f)
  BY <1>2, EnterKeeps
<1>3. CASE \E t \in Threads \cup {Loop} : Call(t)
  BY <1>3, CallsKeep
<1>4. CASE \E t \in Threads : DelWakes(t)
  BY <1>4, DelWakesKeeps
<1>5. CASE Consume \/ \E e \in Io : Arrive(e)
  BY <1>5, ElsewhereKeeps DEF Consume, Arrive, EbInv, TypeInv
<1>6. CASE Tick
  BY <1>6, TickKeeps
<1> QED
  BY <1>1, <1>2, <1>3, <1>4, <1>5, <1>6 DEF EbNext

LEMMA InvariantHolds == EbSpec => []EbInv
<1>1. EbInv /\ UNCHANGED ebVars => EbInv'
  BY DEF ebVars, EbInv, TypeInv, PendingInv, BreakInv, PriorityInv, NoneBefore, WantedInv,
         WakesInTime, NActive, Overslept
<1> QED
  BY <1>1, InitHolds, StepKeeps, PTL DEF EbSpec

\* The queues of the base hold what they are meant to hold, no event is active
\* twice, and after event_base_loopbreak() at most one more callback begins
\* (event_base_loop, event_process_active), whatever other threads and the
\* callbacks call meanwhile.
THEOREM BaseStaysSound == EbSpec => []EbSound
<1>1. EbInv => EbSound
  <2>1. TypeInv => EbTypeOK
    BY BaseFields, LoopFields DEF TypeInv, BaseOK, Distinct, EbTypeOK, DelState
  <2> QED
    BY <2>1 DEF EbInv, EbSound, BreakInv, BreakAfterNext
<1> QED
  BY <1>1, InvariantHolds, PTL

\* While the loop sleeps in epoll_wait there is a byte in the pipe of
\* evthread_notify_base, or it sleeps no longer than its queues allow.
THEOREM LoopWakesInTime == EbSpec => []WakesInTime
<1>1. EbInv => WakesInTime
  BY DEF EbInv
<1> QED
  BY <1>1, InvariantHolds, PTL

\* event_process_active runs only events that were added or activated since
\* they were deleted or, if one-shot, since they were run.
THEOREM OnlyWantedEventsRun == EbSpec => RunsOnlyWanted
<1>1. EbInv /\ [EbNext]_ebVars =>
        [\A i \in 1 .. Len(eb.active) :
           Process(i) /\ eb.active[i] # NotifyEv => eb.active[i] \in wanted]_ebVars
  <2> SUFFICES ASSUME EbInv, NEW i \in 1 .. Len(eb.active), eb.active[i] # NotifyEv
               PROVE  eb.active[i] \in wanted
    OBVIOUS
  <2>1. eb.active[i] \in Holds(eb)
    BY DEF Holds, Items
  <2> QED
    BY <2>1 DEF EbInv, WantedInv
<1> QED
  BY <1>1, InvariantHolds, PTL DEF EbSpec, RunsOnlyWanted

\* event_process_active never runs an event while one of an earlier queue is
\* active, also if it was activated while the queue was being run.
THEOREM PrioritiesAreObeyed == EbSpec => PriorityOrder
<1>1. EbInv /\ [EbNext]_ebVars =>
        [\A i \in 1 .. Len(eb.active) :
           Process(i) => \A j \in 1 .. Len(eb.active) :
                           Pri[eb.active[i]] <= Pri[eb.active[j]]]_ebVars
  <2> SUFFICES ASSUME EbInv, NEW i \in 1 .. Len(eb.active), Process(i),
                      NEW j \in 1 .. Len(eb.active)
               PROVE  Pri[eb.active[i]] <= Pri[eb.active[j]]
    OBVIOUS
  <2>1. loop.pc = "process" /\ IsNext(i)
    BY DEF Process
  <2>2. NoneBefore(Pri[eb.active[i]])
    BY <2>1, NextIsFirst
  <2>3. eb.active[i] \in Items(eb.active) /\ eb.active[j] \in Items(eb.active)
    BY DEF Items
  <2>4. Pri[eb.active[i]] \in Nat /\ Pri[eb.active[j]] \in Nat
    BY <2>3, ActiveAreEvents, Priorities DEF EbInv
  <2> QED
    BY <2>2, <2>3, <2>4 DEF NoneBefore
<1> QED
  BY <1>1, InvariantHolds, PTL DEF EbSpec, PriorityOrder
=============================================================================

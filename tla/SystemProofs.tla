---------------------------- MODULE SystemProofs ----------------------------
(***************************************************************************)
(* Proofs about the classes of src/System that share nothing:               *)
(*   - Event: for every set of waiting threads, every number of set() calls  *)
(*     and both kinds of event, nobody sleeps while it is signalled and no   *)
(*     set() is answered twice;                                              *)
(*   - Resource and ResourcePtr: for any number of resources and pointers,   *)
(*     and any reuse of their memory, a ResourcePtr shows its object exactly *)
(*     as long as it lives;                                                  *)
(*   - UniqueID: for any largest id, the free ranges are the ids nobody      *)
(*     holds;                                                                *)
(*   - Timer: for any timers, intervals, counts and times, process() fires   *)
(*     what is due, in order, and no timer too often.                        *)
(***************************************************************************)
EXTENDS Event, Resource, UniqueID, Timer, WellFoundedInduction, TLAPS

-----------------------------------------------------------------------------
(* Event.                                                                   *)

\* The types without the flag, for the leaves that reason about functions and
\* numbers rather than about a Boolean.
TypeRest ==
    /\ evWait \in [Waiters -> Phases]
    /\ call \in [Waiters -> {"none", "wait", "tryWait"}]
    /\ signalled \in SUBSET Waiters
    /\ answer \in [Waiters -> {"none", "true", "false"}]
    /\ sets \in 0..MaxSets
    /\ resumed \in Nat
    /\ \A t \in Waiters : call[t] = "none" <=> evWait[t] = "idle"

\* TypeOK is the type of the flag and TypeRest.
LEMMA TypeSplit ==
    /\ TypeOK <=> evState \in BOOLEAN /\ TypeRest
    /\ TypeOK' <=> evState' \in BOOLEAN /\ TypeRest'
  BY Zenon DEF TypeOK, EventTypeOK, TypeRest

\* Every step of the event keeps the flag a Boolean.
LEMMA FlagStep == evState \in BOOLEAN /\ [Next]_vars => evState' \in BOOLEAN
  BY AutoResetAssumption, Zenon
     DEF Next, Step, Call, Succeed, Retest, Expire, TimeOut, Spurious, Set,
         Reset, WaitReturns, WaitBlocks, WaitExpires, WaitTimedOut,
         SpuriousWake, SetImpl, ResetImpl, vars

\* Every step of the event keeps the types: the phase of a thread follows
\* the call it is in.
LEMMA TypeStep == TypeOK /\ [Next]_vars => TypeOK'
<1> SUFFICES ASSUME TypeRest, [Next]_vars PROVE TypeRest'
  BY FlagStep, TypeSplit, Zenon
<1> USE MaxSetsAssumption DEF TypeRest, Phases
<1>1. ASSUME NEW t \in Waiters, Succeed(t), signalled' \in SUBSET Waiters
      PROVE  TypeRest'
  BY <1>1 DEF Succeed, WaitReturns
<1>2. ASSUME NEW t \in Waiters, NEW c \in {"wait", "tryWait"}, Call(t, c)
      PROVE  TypeRest'
  <2>1. signalled' \in SUBSET Waiters
    BY <1>2 DEF Call
  <2> QED
    BY <1>1, <1>2, <2>1 DEF Call, WaitBlocks
<1>3. ASSUME NEW t \in Waiters, Retest(t) PROVE TypeRest'
  BY <1>1, <1>3 DEF Retest, WaitBlocks
<1>4. ASSUME NEW t \in Waiters, Expire(t) PROVE TypeRest'
  BY <1>4 DEF Expire, WaitExpires
<1>5. ASSUME NEW t \in Waiters, TimeOut(t) PROVE TypeRest'
  BY <1>5 DEF TimeOut, WaitTimedOut
<1>6. ASSUME NEW t \in Waiters, Spurious(t) PROVE TypeRest'
  BY <1>6 DEF Spurious, SpuriousWake
<1>7. CASE Set
  BY <1>7 DEF Set, SetImpl
<1>8. CASE Reset \/ UNCHANGED vars
  BY <1>8 DEF Reset, ResetImpl, vars
<1> QED
  BY <1>2, <1>3, <1>4, <1>5, <1>6, <1>7, <1>8 DEF Next, Step

\* The initial state has the types.
LEMMA TypeInit == Init => TypeOK
<1>1. Init => TypeRest
  BY MaxSetsAssumption DEF Init, EventInit, TypeRest, Phases
<1> QED
  BY <1>1, TypeSplit, Zenon DEF Init, EventInit

\* The variables keep their types (EventImpl's flag and wait phases, and the
\* history of the calls).
THEOREM EventTypesKept == Spec => []TypeOK
  BY TypeInit, TypeStep, PTL DEF Spec

\* setImpl releases every sleeper and waitImpl goes to sleep only under a
\* lowered flag, so nobody ever sleeps while the event is signalled.
THEOREM NoSleeperWhileSignalled == Spec => []NobodySleepsWhileSignalled
<1> DEFINE Inv == TypeOK /\ NobodySleepsWhileSignalled
<1>1. Init => Inv
  BY TypeInit DEF Init, EventInit, NobodySleepsWhileSignalled
<1>2. Inv /\ [Next]_vars => Inv'
  <2> SUFFICES ASSUME TypeOK, NobodySleepsWhileSignalled, [Next]_vars
               PROVE  NobodySleepsWhileSignalled'
    BY TypeStep
  <2> USE DEF TypeOK, EventTypeOK, Phases, NobodySleepsWhileSignalled
  <2>1. ASSUME NEW t \in Waiters, WaitBlocks(t)
        PROVE  NobodySleepsWhileSignalled'
    BY <2>1 DEF WaitBlocks
  <2>2. ASSUME NEW t \in Waiters, WaitReturns(t)
        PROVE  NobodySleepsWhileSignalled'
    BY <2>2 DEF WaitReturns
  <2>3. ASSUME NEW t \in Waiters, Expire(t) \/ TimeOut(t) \/ Spurious(t)
        PROVE  NobodySleepsWhileSignalled'
    BY <2>3 DEF Expire, WaitExpires, TimeOut, WaitTimedOut, Spurious, SpuriousWake
  <2>4. CASE Set \/ Reset
    BY <2>4 DEF Set, SetImpl, Reset, ResetImpl
  <2>5. CASE UNCHANGED vars
    BY <2>5 DEF vars
  <2> QED
    BY <2>1, <2>2, <2>3, <2>4, <2>5 DEF Next, Step, Call, Retest, Succeed
<1> QED
  BY <1>1, <1>2, PTL DEF Spec

\* An auto-reset event lets no more waits through than set() was called
\* (Event.h: "only one thread waiting for the event can resume execution"):
\* each success lowers the flag that one set() raised.
THEOREM OneResume == Spec => []OneResumePerSet
<1> DEFINE Inv == TypeOK /\ OneResumePerSet
<1>1. Init => Inv
  BY TypeInit DEF Init, EventInit, OneResumePerSet
<1>2. Inv /\ [Next]_vars => Inv'
  <2> SUFFICES ASSUME TypeOK, OneResumePerSet, [Next]_vars
               PROVE  OneResumePerSet'
    BY TypeStep
  <2> USE AutoResetAssumption, MaxSetsAssumption
      DEF TypeOK, EventTypeOK, OneResumePerSet
  <2>1. ASSUME NEW t \in Waiters, Succeed(t)
        PROVE  OneResumePerSet'
    <3> SUFFICES ASSUME AutoReset
                 PROVE  resumed' + (IF evState' THEN 1 ELSE 0) <= sets'
      OBVIOUS
    <3>1. ~evState' /\ evState
      BY <2>1 DEF Succeed, WaitReturns
    <3>2. resumed' = resumed + 1 /\ sets' = sets
      BY <2>1 DEF Succeed
    <3> QED
      BY <3>1, <3>2
  <2>2. ASSUME NEW t \in Waiters, WaitBlocks(t), UNCHANGED <<sets, resumed>>
        PROVE  OneResumePerSet'
    BY <2>2 DEF WaitBlocks
  <2>3. ASSUME NEW t \in Waiters, Expire(t) \/ TimeOut(t) \/ Spurious(t)
        PROVE  OneResumePerSet'
    BY <2>3 DEF Expire, WaitExpires, TimeOut, WaitTimedOut, Spurious, SpuriousWake
  <2>4. CASE Set
    BY <2>4 DEF Set, SetImpl
  <2>5. CASE Reset \/ UNCHANGED vars
    BY <2>5 DEF Reset, ResetImpl, vars
  <2> QED
    BY <2>1, <2>2, <2>3, <2>4, <2>5 DEF Next, Step, Call, Retest
<1> QED
  BY <1>1, <1>2, PTL DEF Spec

\* What makes TrueMeansSignalled inductive: as long as the flag is up, every
\* thread that may still test it counts as signalled.
WaitersSignalled ==
    evState => \A t \in Waiters :
                 evWait[t] \in {"blocked", "woken"} => t \in signalled

\* wait() and tryWait() come back with true only to a thread that the signal
\* reached: the flag was up when it called, or set() came during the call and
\* before its deadline.
THEOREM TrueIsEarned == Spec => []TrueMeansSignalled
<1> DEFINE Inv == TypeOK /\ WaitersSignalled /\ TrueMeansSignalled
<1>1. Init => Inv
  BY TypeInit DEF Init, EventInit, WaitersSignalled, TrueMeansSignalled
<1>2. Inv /\ [Next]_vars => Inv'
  <2> SUFFICES ASSUME TypeOK, WaitersSignalled, TrueMeansSignalled, [Next]_vars
               PROVE  WaitersSignalled' /\ TrueMeansSignalled'
    BY TypeStep
  <2> USE DEF TypeOK, EventTypeOK, Phases, WaitersSignalled, TrueMeansSignalled
  <2>1. ASSUME NEW t \in Waiters, Succeed(t), t \in signalled',
               signalled \subseteq signalled'
        PROVE  WaitersSignalled' /\ TrueMeansSignalled'
    BY <2>1 DEF Succeed, WaitReturns
  <2>2. ASSUME NEW t \in Waiters, NEW c \in {"wait", "tryWait"}, Call(t, c)
        PROVE  WaitersSignalled' /\ TrueMeansSignalled'
    <3>1. CASE Succeed(t)
      BY <2>1, <2>2, <3>1 DEF Call, Succeed, WaitReturns
    <3>2. CASE WaitBlocks(t)
      BY <2>2, <3>2 DEF Call, WaitBlocks, Succeed, WaitReturns
    <3> QED
      BY <2>2, <3>1, <3>2 DEF Call
  <2>3. ASSUME NEW t \in Waiters, Retest(t)
        PROVE  WaitersSignalled' /\ TrueMeansSignalled'
    <3>1. CASE Succeed(t)
      BY <2>1, <2>3, <3>1 DEF Retest, Succeed, WaitReturns
    <3>2. CASE WaitBlocks(t) /\ UNCHANGED <<call, answer, sets, resumed>>
      BY <2>3, <3>2 DEF Retest, WaitBlocks
    <3> QED
      BY <2>3, <3>1, <3>2 DEF Retest
  <2>4. ASSUME NEW t \in Waiters, Expire(t) \/ TimeOut(t) \/ Spurious(t)
        PROVE  WaitersSignalled' /\ TrueMeansSignalled'
    BY <2>4 DEF Expire, WaitExpires, TimeOut, WaitTimedOut, Spurious, SpuriousWake
  <2>5. CASE Set
    BY <2>5 DEF Set, SetImpl
  <2>6. CASE Reset \/ UNCHANGED vars
    BY <2>6 DEF Reset, ResetImpl, vars
  <2> QED
    BY <2>2, <2>3, <2>4, <2>5, <2>6 DEF Next, Step
<1> QED
  BY <1>1, <1>2, PTL DEF Spec

-----------------------------------------------------------------------------
(* UniqueID.                                                                *)

\* A set of natural numbers has a least one.
LEMMA LeastNumber ==
    ASSUME NEW T, T \subseteq Nat, T # {}
    PROVE  \E x \in T : \A y \in T : x <= y
<1> DEFINE R == OpToRel(<, Nat)
<1>1. PICK x \in T : \A y \in T : ~ (<<y, x>> \in R)
  BY NatLessThanWellFounded, WFMin
<1>2. R = {ss \in Nat \X Nat : ss[1] < ss[2]}
  BY DEF OpToRel
<1> HIDE DEF R
<1>3. ASSUME NEW y \in T PROVE x <= y
  <2>1. x \in Nat /\ y \in Nat
    OBVIOUS
  <2>2. y < x => <<y, x>> \in R
    BY <1>2, <2>1
  <2> QED
    BY <1>1, <2>1, <2>2
<1> QED
  BY <1>3

\* The set orders its ranges by _min: it has a first and a last one.
LEMMA FirstIsFirst ==
    ASSUME NEW R, R \subseteq Ranges, R # {}
    PROVE  First(R) \in R /\ \A q \in R : First(R).min <= q.min
<1> DEFINE T == {r.min : r \in R}
<1>1. T \subseteq Nat /\ T # {}
  BY DEF Ranges
<1>2. PICK x \in T : \A y \in T : x <= y
  BY <1>1, LeastNumber
<1>3. \E r \in R : \A q \in R : r.min <= q.min
  BY <1>2
<1> QED
  BY <1>3 DEF First

LEMMA LastIsLast ==
    ASSUME NEW R, R \subseteq Ranges, R # {}
    PROVE  Last(R) \in R /\ \A q \in R : q.min <= Last(R).min
<1> DEFINE T == {MaxId - r.min : r \in R}
<1>0. \A r \in R : r.min \in Nat /\ MaxId - r.min \in Nat
  BY MaxIdAssumption DEF Ranges
<1>1. T \subseteq Nat /\ T # {}
  BY <1>0
<1>2. PICK x \in T : \A y \in T : x <= y
  BY <1>1, LeastNumber
<1>3. PICK r \in R : x = MaxId - r.min
  BY <1>2
<1>4. ASSUME NEW q \in R PROVE q.min <= r.min
  <2>1. MaxId - r.min <= MaxId - q.min
    BY <1>2, <1>3
  <2> QED
    BY <1>0, <2>1, MaxIdAssumption
<1>5. \E s \in R : \A q \in R : q.min <= s.min
  BY <1>4
<1> QED
  BY <1>5 DEF Last

\* The inductive invariant: the property, and no range is empty.
NumberTypes ==
    /\ maxId \in 0..MaxId
    /\ freeId \subseteq Ranges
    /\ inUse \subseteq 1..MaxId
    /\ issued \in 0..MaxId

UidInv ==
    /\ NumberTypes
    /\ Partition
    /\ Coalesced
    /\ \A r \in freeId : r.min <= r.max

\* The ids of a set of ranges.
Covered(F) == UNION {Ids(r) : r \in F}

LEMMA RangeTypes ==
    ASSUME NEW F, F \subseteq Ranges
    PROVE  /\ \A r \in F : /\ r.min \in Nat /\ r.max \in Nat
                           /\ r.min \in 1..MaxId /\ r.max \in 1..MaxId
           /\ \A r \in F, x \in Nat : x \in Ids(r) <=> r.min <= x /\ x <= r.max
           /\ \A x \in Nat : x \in Covered(F) <=> \E r \in F : r.min <= x /\ x <= r.max
           /\ Covered(F) \subseteq Nat
           /\ \A r \in F : Ids(r) \subseteq Nat
<1>1. \A r \in F : r.min \in Nat /\ r.max \in Nat /\ r.min \in 1..MaxId /\ r.max \in 1..MaxId
  BY MaxIdAssumption DEF Ranges
<1>2. \A r \in F, x \in Nat : x \in Ids(r) <=> r.min <= x /\ x <= r.max
  BY <1>1 DEF Ids
<1>3. \A x \in Nat : x \in Covered(F) <=> \E r \in F : r.min <= x /\ x <= r.max
  BY <1>2 DEF Covered
<1>4. \A r \in F : Ids(r) \subseteq Nat
  BY <1>1 DEF Ids
<1>5. Covered(F) \subseteq Nat
  BY <1>4 DEF Covered
<1> QED
  BY <1>1, <1>2, <1>3, <1>4, <1>5

LEMMA FreeAreCovered ==
    ASSUME NumberTypes
    PROVE  FreeIds = Covered(freeId) /\ freeId \subseteq Ranges
  BY DEF FreeIds, Covered, NumberTypes

\* A range n that covers what the ranges in gone and l..h cover ...
Replaces(n, gone, l, h) ==
    /\ n \in Ranges
    /\ n.min <= n.max
    /\ \A x \in Nat : n.min <= x /\ x <= n.max
                        <=> \/ l <= x /\ x <= h
                            \/ \E r \in gone : r.min <= x /\ x <= r.max

\* ... and touches none of the others.
Apart(n, others) ==
    \A q \in others : q.max + 1 # n.min /\ n.max + 1 # q.min

\* Putting back l..h: the ranges in gone are replaced by n.
LEMMA PutBack ==
    ASSUME UidInv, NEW l \in 1..MaxId, NEW h \in 1..MaxId, l .. h \subseteq inUse,
           NEW gone \in SUBSET freeId, NEW n,
           Replaces(n, gone, l, h), Apart(n, freeId \ gone),
           freeId' = (freeId \ gone) \cup {n},
           inUse' = inUse \ (l .. h),
           UNCHANGED <<maxId, issued>>
    PROVE  UidInv'
<1>1. freeId \subseteq Ranges /\ freeId' \subseteq Ranges /\ NumberTypes'
  BY DEF UidInv, NumberTypes, Replaces
<1>2. \A r \in freeId' : r.min <= r.max
  BY DEF UidInv, Replaces
<1>3. Coalesced'
  <2> SUFFICES ASSUME NEW r \in freeId', NEW q \in freeId', r # q
               PROVE  r.max + 1 # q.min
    BY DEF Coalesced
  <2> QED
    BY DEF UidInv, Coalesced, Apart
<1>4. FreeIds = Covered(freeId) /\ FreeIds' = Covered(freeId')
  BY DEF FreeIds, Covered
<1>5. ASSUME NEW x \in Nat
      PROVE  x \in FreeIds' <=> x \in FreeIds \/ (l <= x /\ x <= h)
  <2>1. x \in FreeIds' <=> \E r \in freeId' : r.min <= x /\ x <= r.max
    BY <1>1, <1>4, RangeTypes
  <2>2. x \in FreeIds <=> \E r \in freeId : r.min <= x /\ x <= r.max
    BY <1>1, <1>4, RangeTypes
  <2> QED
    BY <2>1, <2>2 DEF Replaces
<1>6. inUse' \cup FreeIds' = 1..maxId' /\ inUse' \cap FreeIds' = {}
  <2>1. FreeIds \subseteq Nat /\ FreeIds' \subseteq Nat
    BY <1>1, <1>4, RangeTypes
  <2>2. inUse \subseteq Nat /\ maxId \in Nat
    BY MaxIdAssumption DEF UidInv, NumberTypes
  <2>3. inUse \cup FreeIds = 1..maxId /\ inUse \cap FreeIds = {}
    BY DEF UidInv, Partition
  <2>4. \A x \in Nat : x \in l..h <=> l <= x /\ x <= h
    BY MaxIdAssumption
  <2> QED
    BY <1>5, <2>1, <2>2, <2>3, <2>4
<1>7. ASSUME NEW r \in freeId', NEW q \in freeId', r # q
      PROVE  Ids(r) \cap Ids(q) = {}
  <2> SUFFICES ASSUME NEW x \in Nat, x \in Ids(r), x \in Ids(q)
               PROVE  FALSE
    BY <1>1, RangeTypes
  <2>1. r.min <= x /\ x <= r.max /\ q.min <= x /\ x <= q.max
    BY <1>1, RangeTypes
  <2>2. CASE r \in freeId \ gone /\ q \in freeId \ gone
    BY <1>7, <2>2 DEF UidInv, Partition
  <2>3. ASSUME NEW s \in freeId \ gone, s.min <= x, x <= s.max, n.min <= x, x <= n.max
        PROVE  FALSE
    <3>1. x \in FreeIds /\ x \in Ids(s)
      BY <1>1, <1>4, <2>3, RangeTypes
    <3>2. ~(l <= x /\ x <= h)
      BY <3>1, MaxIdAssumption DEF UidInv, Partition
    <3>3. PICK t \in gone : t.min <= x /\ x <= t.max
      BY <2>3, <3>2 DEF Replaces
    <3>4. x \in Ids(t)
      BY <1>1, <3>3, RangeTypes
    <3> QED
      BY <3>1, <3>4 DEF UidInv, Partition
  <2> QED
    BY <1>7, <2>1, <2>2, <2>3
<1>8. Partition'
  BY <1>6, <1>7 DEF Partition
<1> QED
  BY <1>1, <1>2, <1>3, <1>8 DEF UidInv

\* addFree.
LEMMA UidGiveBack ==
    ASSUME UidInv, NEW l \in 1..MaxId, NEW h \in 1..MaxId, GiveBack(l, h)
    PROVE  UidInv'
<1> DEFINE a == After(l)
           b == Before(l)
           up == First(a)
           dn == Last(b)
           joinsUp == a # {} /\ h + 1 >= up.min
           joinsDown == b # {} /\ dn.max + 1 >= l
<1>1. l <= h /\ l .. h \subseteq inUse /\ inUse' = inUse \ (l .. h) /\ UNCHANGED <<maxId, issued>>
  BY DEF GiveBack
<1>2. l \in Nat /\ h \in Nat /\ freeId \subseteq Ranges
  BY MaxIdAssumption DEF UidInv, NumberTypes
<1>3. \A r \in freeId : /\ r.min \in Nat /\ r.max \in Nat /\ r.min <= r.max
                        /\ r.min \in 1..MaxId /\ r.max \in 1..MaxId
  BY RangeTypes, FreeAreCovered DEF UidInv, NumberTypes
<1>4. \A r \in freeId, x \in Nat : l <= x /\ x <= h => ~(r.min <= x /\ x <= r.max)
  BY <1>1, <1>2, RangeTypes, FreeAreCovered DEF UidInv, Partition
<1>5. \A r, q \in freeId, x \in Nat :
        r.min <= x /\ x <= r.max /\ q.min <= x /\ x <= q.max => r = q
  BY RangeTypes DEF UidInv, NumberTypes, Partition
<1>6. a \subseteq freeId /\ (\A r \in freeId : r \in a <=> r.min > l)
  BY DEF After
<1>7. b \subseteq freeId /\ (\A r \in freeId : r \in b <=> r.min < l)
  BY DEF Before
<1>8. a # {} => up \in a /\ \A q \in a : up.min <= q.min
  BY <1>2, <1>6, FirstIsFirst
<1>9. b # {} => dn \in b /\ \A q \in b : q.min <= dn.min
  BY <1>2, <1>7, LastIsLast
<1>10. freeId' = CASE joinsUp /\ joinsDown ->
                        (freeId \ {up, dn}) \cup {[min |-> dn.min, max |-> up.max]}
                   [] joinsUp /\ ~joinsDown -> (freeId \ {up}) \cup {[up EXCEPT !.min = l]}
                   [] ~joinsUp /\ joinsDown -> (freeId \ {dn}) \cup {[dn EXCEPT !.max = h]}
                   [] ~joinsUp /\ ~joinsDown -> freeId \cup {[min |-> l, max |-> h]}
  BY DEF GiveBack, Joined
<1> HIDE DEF a, b, up, dn
\* Every range lies above or below l..h.
<1>11. \A r \in freeId : r \in a \/ r \in b
  BY <1>1, <1>2, <1>3, <1>4, <1>6, <1>7
<1>12. \A r \in a : r.min >= h + 1
  BY <1>1, <1>2, <1>3, <1>4, <1>6
<1>13. \A r \in b : r.max + 1 <= l
  BY <1>1, <1>2, <1>3, <1>4, <1>7
<1>14. joinsUp => up \in freeId /\ up.min = h + 1
  BY <1>2, <1>3, <1>6, <1>8, <1>12
<1>15. joinsDown => dn \in freeId /\ dn.max + 1 = l
  BY <1>2, <1>3, <1>7, <1>9, <1>13
<1>16. \A q \in freeId : q.min = h + 1 => joinsUp /\ q = up
  <2> SUFFICES ASSUME NEW q \in freeId, q.min = h + 1 PROVE joinsUp /\ q = up
    OBVIOUS
  <2>1. q \in a
    BY <1>1, <1>2, <1>6
  <2>2. up.min <= q.min /\ up \in freeId /\ up \in a
    BY <1>6, <1>8, <2>1
  <2>3. up.min = q.min
    BY <1>2, <1>3, <1>12, <2>2
  <2> QED
    BY <1>2, <1>3, <1>5, <2>1, <2>2, <2>3
<1>17. \A q \in freeId : q.max + 1 = l => joinsDown /\ q = dn
  <2> SUFFICES ASSUME NEW q \in freeId, q.max + 1 = l PROVE joinsDown /\ q = dn
    OBVIOUS
  <2>1. q \in b
    BY <1>2, <1>3, <1>7
  <2>2. q.min <= dn.min /\ dn \in freeId /\ dn \in b
    BY <1>7, <1>9, <2>1
  <2>3. dn.min <= q.max
    BY <1>2, <1>3, <1>7, <2>2
  <2>4. q = dn
    BY <1>3, <1>5, <2>2, <2>3
  <2> QED
    BY <1>2, <1>3, <2>1, <2>4
<1>18. CASE joinsUp /\ joinsDown
  <2> DEFINE n == [min |-> dn.min, max |-> up.max]
  <2>1. n \in Ranges /\ n.min = dn.min /\ n.max = up.max
    BY <1>3, <1>14, <1>15, <1>18 DEF Ranges
  <2>2. freeId' = (freeId \ {up, dn}) \cup {n}
    BY <1>10, <1>18
  <2> HIDE DEF n
  <2>3. Replaces(n, {up, dn}, l, h) /\ {up, dn} \in SUBSET freeId
    BY <1>1, <1>2, <1>3, <1>14, <1>15, <1>18, <2>1 DEF Replaces
  <2>4. Apart(n, freeId \ {up, dn})
    BY <1>14, <1>15, <1>18, <2>1 DEF UidInv, Coalesced, Apart
  <2> QED
    BY <1>1, <1>14, <1>15, <1>18, <2>1, <2>2, <2>3, <2>4, PutBack
<1>19. CASE joinsUp /\ ~joinsDown
  <2> DEFINE n == [up EXCEPT !.min = l]
  <2>1. n \in Ranges /\ n.min = l /\ n.max = up.max
    BY <1>2, <1>14, <1>19 DEF Ranges
  <2>2. freeId' = (freeId \ {up}) \cup {n}
    BY <1>10, <1>19
  <2> HIDE DEF n
  <2>3. Replaces(n, {up}, l, h) /\ {up} \in SUBSET freeId
    BY <1>1, <1>2, <1>3, <1>14, <1>19, <2>1 DEF Replaces
  <2>4. Apart(n, freeId \ {up})
    BY <1>14, <1>17, <1>19, <2>1 DEF UidInv, Coalesced, Apart
  <2> QED
    BY <1>1, <1>14, <1>19, <2>1, <2>2, <2>3, <2>4, PutBack
<1>20. CASE ~joinsUp /\ joinsDown
  <2> DEFINE n == [dn EXCEPT !.max = h]
  <2>1. n \in Ranges /\ n.min = dn.min /\ n.max = h
    BY <1>2, <1>15, <1>20 DEF Ranges
  <2>2. freeId' = (freeId \ {dn}) \cup {n}
    BY <1>10, <1>20
  <2> HIDE DEF n
  <2>3. Replaces(n, {dn}, l, h) /\ {dn} \in SUBSET freeId
    BY <1>1, <1>2, <1>3, <1>15, <1>20, <2>1 DEF Replaces
  <2>4. Apart(n, freeId \ {dn})
    BY <1>15, <1>16, <1>20, <2>1 DEF UidInv, Coalesced, Apart
  <2> QED
    BY <1>1, <1>15, <1>20, <2>1, <2>2, <2>3, <2>4, PutBack
<1>21. CASE ~joinsUp /\ ~joinsDown
  <2> DEFINE n == [min |-> l, max |-> h]
  <2>1. n \in Ranges /\ n.min = l /\ n.max = h
    BY DEF Ranges
  <2>2. freeId' = (freeId \ {}) \cup {n}
    BY <1>10, <1>21
  <2> HIDE DEF n
  <2>3. Replaces(n, {}, l, h) /\ {} \in SUBSET freeId
    BY <1>1, <1>2, <2>1 DEF Replaces
  <2>4. Apart(n, freeId \ {})
    BY <1>16, <1>17, <1>21, <2>1 DEF Apart
  <2> QED
    BY <1>1, <2>1, <2>2, <2>3, <2>4, PutBack
<1> QED
  BY <1>18, <1>19, <1>20, <1>21

LEMMA UidAddFreeN ==
    ASSUME UidInv, NEW l \in 1..MaxId, NEW h \in 1..MaxId, AddFreeN(l, h)
    PROVE  UidInv'
<1> DEFINE n == [min |-> l, max |-> h]
<1>1. n \in Ranges /\ n.min = l /\ n.max = h
  BY DEF Ranges
<1>2. freeId' = (freeId \ {}) \cup {n}
  BY DEF AddFreeN
<1>3. /\ l <= h /\ l .. h \subseteq inUse /\ inUse' = inUse \ (l .. h)
      /\ UNCHANGED <<maxId, issued>> /\ (l - 1) \notin FreeIds /\ (h + 1) \notin FreeIds
  BY DEF AddFreeN
<1>0. l \in Nat /\ h \in Nat /\ l - 1 \in Nat
  BY MaxIdAssumption
<1> HIDE DEF n
<1>4. Replaces(n, {}, l, h) /\ {} \in SUBSET freeId
  BY <1>1, <1>3 DEF Replaces
<1>5. \A q \in freeId : q.max \in FreeIds /\ q.min \in FreeIds /\ q.min \in Nat /\ q.max \in Nat
  BY RangeTypes, FreeAreCovered DEF UidInv, NumberTypes
<1>6. Apart(n, freeId \ {})
  BY <1>0, <1>1, <1>3, <1>5 DEF Apart
<1> QED
  BY <1>1, <1>2, <1>3, <1>4, <1>6, PutBack

LEMMA UidNextNew ==
    ASSUME UidInv, NextNew, inUse' = inUse \cup {issued'}
    PROVE  UidInv'
<1>1. FreeIds = {} /\ FreeIds' = {}
  BY DEF NextNew, FreeIds
<1>2. inUse = 1..maxId /\ maxId \in Nat /\ maxId < MaxId /\ maxId' = maxId + 1 /\ issued' = maxId + 1
  BY <1>1, MaxIdAssumption DEF UidInv, Partition, NumberTypes, NextNew
<1>3. inUse' = 1..maxId'
  BY <1>2
<1> QED
  BY <1>1, <1>2, <1>3, MaxIdAssumption DEF UidInv, NumberTypes, Partition, Coalesced, NextNew

LEMMA UidNextFree ==
    ASSUME UidInv, NextFree, inUse' = inUse \cup {issued'}
    PROVE  UidInv'
<1> DEFINE it == First(freeId)
           rest == IF it.min = it.max THEN {} ELSE {[it EXCEPT !.min = @ + 1]}
<1>1. issued' = it.min /\ freeId' = (freeId \ {it}) \cup rest /\ UNCHANGED maxId
  BY DEF NextFree
<1>2. it \in freeId
  BY FirstIsFirst DEF NextFree, UidInv, NumberTypes
<1>3. \A r \in freeId : /\ r.min \in Nat /\ r.max \in Nat /\ r.min <= r.max
                        /\ r.min \in 1..MaxId /\ r.max \in 1..MaxId
  BY RangeTypes, FreeAreCovered DEF UidInv, NumberTypes
<1>4. \A r, q \in freeId, x \in Nat :
        r.min <= x /\ x <= r.max /\ q.min <= x /\ x <= q.max => r = q
  BY RangeTypes DEF UidInv, NumberTypes, Partition
<1>r. \A r \in rest : /\ r.min = it.min + 1 /\ r.max = it.max /\ it.min # it.max
                      /\ r \in Ranges /\ r.min <= r.max
  BY <1>2, <1>3, MaxIdAssumption DEF Ranges, UidInv, NumberTypes
<1>e. it.min # it.max => \E r \in rest : r.min = it.min + 1 /\ r.max = it.max
  <2> SUFFICES ASSUME it.min # it.max
               PROVE  LET r == [it EXCEPT !.min = @ + 1] IN r.min = it.min + 1 /\ r.max = it.max
    OBVIOUS
  <2> QED
    BY <1>2 DEF UidInv, NumberTypes, Ranges
<1>u. \A r, q \in rest : r = q
  OBVIOUS
<1> HIDE DEF rest, it
<1>c. FreeIds = Covered(freeId) /\ FreeIds' = Covered(freeId')
  BY DEF FreeIds, Covered
<1>5. NumberTypes' /\ freeId' \subseteq Ranges
  <2>1. freeId' \subseteq Ranges
    BY <1>1, <1>r DEF UidInv, NumberTypes
  <2>2. issued' \in 0..MaxId /\ issued' \in 1..MaxId
    BY <1>1, <1>2, <1>3, MaxIdAssumption
  <2> QED
    BY <1>1, <2>1, <2>2 DEF UidInv, NumberTypes
<1>6. \A r \in freeId' : r.min <= r.max
  BY <1>1, <1>r DEF UidInv
<1>7. Coalesced'
  <2> SUFFICES ASSUME NEW r \in freeId', NEW q \in freeId', r # q, r.max + 1 = q.min
               PROVE  FALSE
    BY DEF Coalesced
  <2>1. CASE r \in freeId /\ q \in freeId
    BY <2>1 DEF UidInv, Coalesced
  <2>2. CASE r \in rest /\ q \in freeId \ {it}
    BY <1>2, <1>r, <2>2 DEF UidInv, Coalesced
  <2>3. CASE r \in freeId \ {it} /\ q \in rest
    <3>1. r.max = it.min
      BY <1>2, <1>3, <1>r, <2>3
    <3> QED
      BY <1>2, <1>3, <1>4, <2>3, <3>1
  <2> QED
    BY <1>1, <1>u, <2>1, <2>2, <2>3
<1>8. ASSUME NEW x \in Nat
      PROVE  x \in FreeIds' <=> x \in FreeIds /\ x # it.min
  <2>1. x \in FreeIds' <=> \E r \in freeId' : r.min <= x /\ x <= r.max
    BY <1>5, <1>c, RangeTypes
  <2>2. x \in FreeIds <=> \E r \in freeId : r.min <= x /\ x <= r.max
    BY RangeTypes, FreeAreCovered DEF UidInv, NumberTypes
  <2>3. ASSUME x \in FreeIds' PROVE x \in FreeIds /\ x # it.min
    <3>1. PICK r \in freeId' : r.min <= x /\ x <= r.max
      BY <2>1, <2>3
    <3>2. CASE r \in freeId \ {it}
      BY <1>2, <1>3, <1>4, <2>2, <3>1, <3>2
    <3>3. CASE r \in rest
      BY <1>2, <1>3, <1>r, <2>2, <3>1, <3>3
    <3> QED
      BY <1>1, <3>2, <3>3
  <2>4. ASSUME x \in FreeIds, x # it.min PROVE x \in FreeIds'
    <3>1. PICK r \in freeId : r.min <= x /\ x <= r.max
      BY <2>2, <2>4
    <3>2. CASE r # it
      BY <1>1, <2>1, <3>1, <3>2
    <3>3. CASE r = it
      <4>1. PICK s \in rest : s.min = it.min + 1 /\ s.max = it.max
        BY <1>2, <1>3, <1>e, <2>4, <3>1, <3>3
      <4> QED
        BY <1>1, <1>2, <1>3, <2>1, <2>4, <3>1, <3>3, <4>1
    <3> QED
      BY <3>2, <3>3
  <2> QED
    BY <2>3, <2>4
<1>9. inUse' \cup FreeIds' = 1..maxId' /\ inUse' \cap FreeIds' = {}
  <2>1. FreeIds \subseteq Nat /\ FreeIds' \subseteq Nat /\ inUse \subseteq Nat /\ maxId \in Nat
    BY <1>5, <1>c, RangeTypes, MaxIdAssumption DEF UidInv, NumberTypes
  <2>2. inUse \cup FreeIds = 1..maxId /\ inUse \cap FreeIds = {}
    BY DEF UidInv, Partition
  <2>3. it.min \in FreeIds /\ it.min \in Nat
    BY <1>2, <1>3, <1>c, RangeTypes DEF UidInv, NumberTypes
  <2> QED
    BY <1>1, <1>8, <2>1, <2>2, <2>3
<1>10. ASSUME NEW r \in freeId', NEW q \in freeId', r # q
       PROVE  Ids(r) \cap Ids(q) = {}
  <2> SUFFICES ASSUME NEW x \in Nat, x \in Ids(r), x \in Ids(q)
               PROVE  FALSE
    BY <1>5, <1>c, RangeTypes
  <2>1. r.min <= x /\ x <= r.max /\ q.min <= x /\ x <= q.max
    BY <1>5, <1>c, RangeTypes
  <2>2. CASE r \in freeId /\ q \in freeId
    BY <1>4, <1>10, <2>1, <2>2
  <2>3. ASSUME NEW s \in rest, NEW t \in freeId \ {it}, s.min <= x, x <= s.max, t.min <= x, x <= t.max
        PROVE  FALSE
    BY <1>2, <1>3, <1>4, <1>r, <2>3
  <2> QED
    BY <1>1, <1>u, <1>10, <2>1, <2>2, <2>3
<1> QED
  BY <1>5, <1>6, <1>7, <1>9, <1>10 DEF UidInv, Partition

LEMMA UidSetMax ==
    ASSUME UidInv, NEW m \in 1..MaxId, SetMax(m)
    PROVE  UidInv'
<1>1. FreeIds = {} /\ inUse = {}
  BY DEF UidInv, Partition, SetMax
<1>2. freeId = {}
  <2>1. \A r \in freeId : r.min \in FreeIds
    BY RangeTypes, FreeAreCovered DEF UidInv, NumberTypes
  <2> QED
    BY <1>1, <2>1
<1>3. FreeIds' = {}
  BY <1>2 DEF SetMax, FreeIds
<1> QED
  BY <1>2, <1>3, MaxIdAssumption DEF UidInv, NumberTypes, Partition, Coalesced, SetMax

LEMMA UidInitInv == UidInit => UidInv
<1> SUFFICES ASSUME UidInit PROVE UidInv
  OBVIOUS
<1>1. FreeIds = {}
  BY DEF UidInit, FreeIds
<1> QED
  BY <1>1, MaxIdAssumption DEF UidInit, UidInv, NumberTypes, Partition, Coalesced

LEMMA UidStep ==
    ASSUME UidInv, [UidNext]_uidVars
    PROVE  UidInv'
<1>1. CASE Issue
  BY <1>1, UidNextFree, UidNextNew DEF Issue
<1>2. ASSUME NEW l \in 1..MaxId, NEW h \in 1..MaxId, GiveBack(l, h) \/ AddFreeN(l, h)
      PROVE  UidInv'
  BY <1>2, UidGiveBack, UidAddFreeN
<1>3. ASSUME NEW m \in 1..MaxId, SetMax(m) PROVE UidInv'
  BY <1>3, UidSetMax
<1>4. CASE UNCHANGED uidVars
  BY <1>4 DEF uidVars, UidInv, NumberTypes, Partition, Coalesced, FreeIds
<1> QED
  BY <1>1, <1>2, <1>3, <1>4 DEF UidNext

RestoredType == restored \in BOOLEAN

LEMMA RestoredStep == RestoredType /\ [UidNext]_uidVars => RestoredType'
  BY Zenon DEF RestoredType, UidNext, Issue, GiveBack, SetMax, AddFreeN, uidVars

\* next() and addFree() neither lose an id nor issue one twice, and keep the
\* free ids in as few ranges as possible.
THEOREM RangesExact == UidSpec => []FreeRangesExact
<1>1. UidInit => RestoredType
  BY Zenon DEF UidInit, RestoredType
<1>2. UidInv /\ RestoredType => FreeRangesExact
  BY Zenon DEF RestoredType, UidInv, NumberTypes, UidTypeOK, FreeRangesExact
<1> QED
  BY <1>1, <1>2, UidInitInv, UidStep, RestoredStep, PTL DEF UidSpec

-----------------------------------------------------------------------------
(* Timer.                                                                   *)

\* The inductive invariant behind FiresAsAsked: the front is due first, the
\* pass under way does not look past the clock, no member is due before the
\* last one that fired, and a limited timer is counted down to 0 at most.
FrontEarliest == heap # {} => front \in Earliest(heap, td)

FiredIsFront ==
    tmPc = "callback" => /\ heap # {}
                         /\ lastDue = td[front].timeNext
                         /\ lastDue <= passNow

Chronology ==
    /\ tmPc \in {"loop", "callback"} => passNow <= clock
    /\ lastDue <= clock
    /\ \A c \in heap : lastDue <= td[c].timeNext

Limits == \A c \in heap : td[c].asked > 0 => td[c].count >= 0 /\ td[c].fired + td[c].count <= td[c].asked

TmInv == TmTypeOK /\ FrontEarliest /\ FiredIsFront /\ Chronology /\ Limits

LEMMA TmInitInv == TmInit => TmInv
  BY TimerAssumption DEF TmInit, TmInv, TmTypeOK, FrontEarliest, FiredIsFront, Chronology, Limits,
     TimerFields, Blank

LEMMA TmAdd ==
    ASSUME TmInv, NEW c \in TimerCells, NEW i \in Intervals, NEW f \in Intervals \cup {0},
           NEW n \in Counts, Add(c, i, f, n)
    PROVE  TmInv'
<1> USE TimerAssumption DEF TmInv
<1>0. f \in Nat /\ i \in Nat /\ n \in Int /\ clock \in Nat /\ passNow \in Nat
  BY DEF TmTypeOK
<1> DEFINE next == clock + f
           t == [timeNext |-> next, interval |-> i, count |-> n, asked |-> n, fired |-> 0]
<1>1. td' = [td EXCEPT ![c] = t] /\ heap' = heap \cup {c} /\ c \notin heap
  BY DEF Add
<1>2. t \in TimerFields
  BY <1>0 DEF TimerFields
<1>3. td' \in [TimerCells -> TimerFields] /\ td'[c] = t
  BY <1>1, <1>2 DEF TmTypeOK
<1>4. \A d \in TimerCells : d # c => td'[d] = td[d]
  BY <1>1 DEF TmTypeOK
<1>t. /\ t.timeNext = clock + f /\ t.asked = n /\ t.count = n /\ t.fired = 0
  OBVIOUS
<1>5. UNCHANGED <<clock, tmPc, passNow, lastDue>> /\ front' = PushedFront(c, clock + f)
  BY DEF Add
<1>f. \A d \in TimerCells : td[d].timeNext \in Nat
  BY DEF TmTypeOK, TimerFields
<1> HIDE DEF t
<1>6. TmTypeOK'
  BY <1>1, <1>3, <1>5 DEF TmTypeOK, PushedFront
<1>7. FrontEarliest'
  <2>1. CASE heap = {}
    BY <1>0, <1>1, <1>3, <1>5, <1>t, <2>1 DEF PushedFront, Earliest, FrontEarliest
  <2>2. CASE heap # {}
    <3>1. /\ front \in heap /\ \A d \in heap : td[front].timeNext <= td[d].timeNext
          /\ \A d \in heap : d \in TimerCells /\ d # c /\ td'[d] = td[d]
      BY <1>1, <1>4, <2>2 DEF FrontEarliest, Earliest, TmTypeOK
    <3>2. td'[c].timeNext = next /\ next \in Nat
      BY <1>0, <1>3, <1>t
    <3> HIDE DEF next
    <3>3. CASE next < td[front].timeNext
      <4>1. front' = c
        BY <1>5, <3>3 DEF PushedFront, next
      <4>2. \A d \in heap' : next <= td'[d].timeNext
        BY <1>1, <1>f, <3>1, <3>2, <3>3
      <4> QED
        BY <1>1, <3>2, <4>1, <4>2 DEF Earliest, FrontEarliest
    <3>4. CASE ~(next < td[front].timeNext)
      <4>1. front' = front
        BY <1>5, <2>2, <3>4 DEF PushedFront, next
      <4>2. \A d \in heap' : td[front].timeNext <= td'[d].timeNext
        BY <1>1, <1>f, <3>1, <3>2, <3>4
      <4> QED
        BY <1>1, <3>1, <4>1, <4>2 DEF Earliest, FrontEarliest
    <3> QED
      BY <3>3, <3>4
  <2> QED
    BY <2>1, <2>2
<1>8. FiredIsFront'
  <2> SUFFICES ASSUME tmPc = "callback"
               PROVE  front' = front /\ front \in heap
    BY <1>1, <1>4, <1>5 DEF FiredIsFront, TmTypeOK
  <2>1. heap # {} /\ front \in heap
    BY DEF FiredIsFront, TmTypeOK
  <2>2. td[front].timeNext <= clock
    BY <1>0, <1>f, <2>1 DEF FiredIsFront, Chronology, TmTypeOK
  <2> QED
    BY <1>0, <1>f, <1>5, <2>1, <2>2 DEF PushedFront, TmTypeOK
<1>9. Chronology'
  BY <1>0, <1>1, <1>3, <1>4, <1>5, <1>t DEF Chronology, TmTypeOK
<1>10. Limits'
  BY <1>0, <1>1, <1>3, <1>4, <1>t DEF Limits, TmTypeOK
<1> QED
  BY <1>6, <1>7, <1>8, <1>9, <1>10

\* Steps that change no timer and leave the fronts where they are.
LEMMA TmRemove ==
    ASSUME TmInv, NEW c \in TimerCells, Remove(c)
    PROVE  TmInv'
<1>1. /\ td' = [td EXCEPT ![c].count = 0] /\ c \in heap
      /\ UNCHANGED <<clock, heap, front, tmPc, passNow, lastDue>>
  BY DEF Remove
<1>2. td' \in [TimerCells -> TimerFields]
  BY <1>1 DEF TmInv, TmTypeOK, TimerFields
<1>3. \A d \in TimerCells : /\ td'[d].timeNext = td[d].timeNext
                            /\ td'[d].asked = td[d].asked
                            /\ td'[d].fired = td[d].fired
                            /\ td'[d].count = IF d = c THEN 0 ELSE td[d].count
  BY <1>1 DEF TmInv, TmTypeOK, TimerFields
<1>4. TmTypeOK'
  BY <1>1, <1>2 DEF TmInv, TmTypeOK
<1>5. FrontEarliest' /\ FiredIsFront' /\ Chronology'
  BY <1>1, <1>3 DEF TmInv, TmTypeOK, FrontEarliest, FiredIsFront, Chronology, Earliest
<1>6. Limits'
  <2>1. \A d \in TimerCells : td[d].count \in Int /\ td[d].asked \in Int /\ td[d].fired \in Nat
    BY DEF TmInv, TmTypeOK, TimerFields
  <2> QED
    BY <1>1, <1>3, <2>1 DEF TmInv, TmTypeOK, Limits
<1> QED
  BY <1>4, <1>5, <1>6 DEF TmInv

LEMMA TmQuiet ==
    ASSUME TmInv, Process \/ LoopUndefined \/ LoopEnd \/ Tick \/ UNCHANGED tmVars
    PROVE  TmInv'
<1> USE TimerAssumption DEF TmInv, TmTypeOK, FrontEarliest, FiredIsFront, Chronology, Limits, Earliest
<1>1. CASE Process
  BY <1>1 DEF Process
<1>2. CASE LoopUndefined \/ LoopEnd
  BY <1>2 DEF LoopUndefined, LoopEnd
<1>3. CASE Tick
  BY <1>3 DEF Tick
<1>4. CASE UNCHANGED tmVars
  BY <1>4 DEF tmVars
<1> QED
  BY <1>1, <1>2, <1>3, <1>4

\* The members that stay keep their fields when the front is deleted.
LEMMA TmDeleteFront ==
    ASSUME TmInv, heap # {},
           heap' = heap \ {front}, td' = [td EXCEPT ![front] = Blank],
           NewFront(heap', td) \/ NewFront(heap', td'),
           UNCHANGED <<clock, passNow, lastDue>>, 
           tmPc \in {"loop", "callback"}, tmPc' = "loop"
    PROVE  TmInv'
<1> USE TimerAssumption DEF TmInv
<1>1. front \in heap /\ front \in TimerCells
  BY DEF TmTypeOK
<1>2. td' \in [TimerCells -> TimerFields]
  BY DEF TmTypeOK, TimerFields, Blank
<1>3. \A c \in heap' : c \in TimerCells /\ td'[c] = td[c]
  BY DEF TmTypeOK
<1>4. Earliest(heap', td) = Earliest(heap', td')
  BY <1>3 DEF Earliest
<1>5. front' \in IF heap' = {} THEN {NoTimer} ELSE Earliest(heap', td')
  BY <1>4 DEF NewFront
<1>6. heap' # {} => front' \in heap' /\ front' \in Earliest(heap', td')
  BY <1>5 DEF Earliest
<1>7. TmTypeOK'
  BY <1>2, <1>5, <1>6 DEF TmTypeOK
<1>8. FrontEarliest' /\ FiredIsFront' /\ Chronology'
  BY <1>3, <1>6 DEF FrontEarliest, FiredIsFront, Chronology
<1>9. Limits'
  BY <1>3 DEF Limits
<1> QED
  BY <1>7, <1>8, <1>9

LEMMA TmFire ==
    ASSUME TmInv, LoopFire
    PROVE  TmInv'
<1> USE TimerAssumption DEF TmInv
<1> DEFINE n == IF td[front].count > 0 THEN td[front].count - 1 ELSE td[front].count
           k == Counted(front)
<1>1. front \in heap /\ front \in TimerCells /\ heap \subseteq TimerCells
  BY DEF TmTypeOK, LoopFire
<1>2. td[front] \in TimerFields /\ \A d \in TimerCells : td[d].timeNext \in Nat
  BY <1>1 DEF TmTypeOK, TimerFields
<1>3. td[front].count \in Int /\ td[front].fired \in Nat /\ td[front].asked \in Int
  BY <1>2 DEF TimerFields
<1>4. n \in Int /\ k \in Nat
  BY <1>3 DEF Counted
<1>5. td' = [td EXCEPT ![front] = [td[front] EXCEPT !.count = n, !.fired = k]]
  BY <1>1 DEF LoopFire, TmTypeOK
<1>6. td[front].asked > 0 => n >= 0 /\ k + n <= td[front].asked
  BY <1>1, <1>3 DEF Limits, Counted, LoopFire
<1> HIDE DEF n, k
<1>7. td' \in [TimerCells -> TimerFields]
  BY <1>4, <1>5 DEF TmTypeOK, TimerFields
<1>8. \A d \in TimerCells : /\ td'[d].timeNext = td[d].timeNext
                            /\ td'[d].asked = td[d].asked
                            /\ d # front => td'[d] = td[d]
  BY <1>1, <1>2, <1>5 DEF TmTypeOK, TimerFields
<1>9. td'[front].count = n /\ td'[front].fired = k
  BY <1>1, <1>2, <1>5 DEF TmTypeOK, TimerFields
<1>10. /\ UNCHANGED <<clock, heap, front, passNow>> /\ tmPc' = "callback"
       /\ lastDue' = td[front].timeNext /\ passNow >= td[front].timeNext /\ tmPc = "loop"
  BY DEF LoopFire
<1>11. TmTypeOK'
  BY <1>2, <1>1, <1>7, <1>10 DEF TmTypeOK
<1>12. FrontEarliest'
  BY <1>1, <1>8, <1>10 DEF FrontEarliest, Earliest
<1>13. FiredIsFront'
  BY <1>1, <1>2, <1>8, <1>10 DEF FiredIsFront, TmTypeOK
<1>14. Chronology'
  BY <1>1, <1>2, <1>8, <1>10 DEF FrontEarliest, Earliest, Chronology, TmTypeOK
<1>15. Limits'
  BY <1>1, <1>6, <1>8, <1>9, <1>10 DEF Limits
<1> QED
  BY <1>11, <1>12, <1>13, <1>14, <1>15

\* A timer that is put back is due later than it was.
LEMMA TmCallback ==
    ASSUME TmInv, CallbackReturns
    PROVE  TmInv'
<1> USE TimerAssumption DEF TmInv
<1>1. heap # {} /\ front \in heap /\ front \in TimerCells /\ tmPc = "callback" /\ tmPc' = "loop"
  BY DEF TmTypeOK, CallbackReturns, FiredIsFront
<1>2. CASE td[front].count = 0
  BY <1>1, <1>2, TmDeleteFront DEF CallbackReturns
<1>3. CASE td[front].count # 0
  <2> DEFINE x == td[front].timeNext + td[front].interval
  <2>1. \A d \in TimerCells : td[d].timeNext \in Nat
    BY DEF TmTypeOK, TimerFields
  <2>2. x \in Nat /\ x >= td[front].timeNext
    BY <1>1 DEF TmTypeOK, TimerFields
  <2>3. td' = [td EXCEPT ![front] = [td[front] EXCEPT !.timeNext = x]]
    BY <1>1, <1>3 DEF CallbackReturns, TmTypeOK
  <2> HIDE DEF x
  <2>4. td' \in [TimerCells -> TimerFields]
    BY <1>1, <2>2, <2>3 DEF TmTypeOK, TimerFields
  <2>5. \A d \in TimerCells : /\ td'[d].timeNext = IF d = front THEN x ELSE td[d].timeNext
                              /\ td'[d].asked = td[d].asked
                              /\ td'[d].count = td[d].count /\ td'[d].fired = td[d].fired
    BY <1>1, <2>3 DEF TmTypeOK, TimerFields
  <2>6. UNCHANGED <<heap, clock, passNow, lastDue>> /\ front' \in Earliest(heap', td')
    BY <1>1, <1>3 DEF CallbackReturns, NewFront
  <2>7. front' \in heap'
    BY <2>6 DEF Earliest
  <2>8. TmTypeOK' /\ FrontEarliest' /\ FiredIsFront'
    BY <1>1, <2>4, <2>6, <2>7 DEF TmTypeOK, FrontEarliest, FiredIsFront
  <2>9. Chronology'
    BY <1>1, <2>1, <2>2, <2>5, <2>6 DEF Chronology, TmTypeOK
  <2>10. Limits'
    BY <2>5, <2>6 DEF Limits, TmTypeOK
  <2> QED
    BY <2>8, <2>9, <2>10
<1> QED
  BY <1>2, <1>3

LEMMA TmDelete ==
    ASSUME TmInv, Delete
    PROVE  TmInv'
  BY TimerAssumption
  DEF Delete, TmInv, TmTypeOK, FrontEarliest, FiredIsFront, Chronology, Limits, TimerFields, Blank

LEMMA TmStep ==
    ASSUME TmInv, [TmNext]_tmVars
    PROVE  TmInv'
<1>1. ASSUME NEW c \in TimerCells, NEW i \in Intervals, NEW f \in Intervals \cup {0},
             NEW n \in Counts, Add(c, i, f, n)
      PROVE  TmInv'
  BY <1>1, TmAdd
<1>2. ASSUME NEW c \in TimerCells, Remove(c) PROVE TmInv'
  BY <1>2, TmRemove
<1>3. CASE Process \/ LoopUndefined \/ LoopEnd \/ Tick \/ UNCHANGED tmVars
  BY <1>3, TmQuiet
<1>4. CASE LoopDiscard
  BY <1>4, TmDeleteFront DEF LoopDiscard
<1>5. CASE LoopFire
  BY <1>5, TmFire
<1>6. CASE CallbackReturns
  BY <1>6, TmCallback
<1>7. CASE Delete
  BY <1>7, TmDelete
<1> QED
  BY <1>1, <1>2, <1>3, <1>4, <1>5, <1>6, <1>7 DEF TmNext

LEMMA TmAlways == TmSpec => []TmInv
  BY TmInitInv, TmStep, PTL DEF TmSpec

\* process() pops the timer it called onTimer() for, whatever the callback
\* added or removed, and a timer fires no more often than its count.
THEOREM TimersFireAsAsked == TmSpec => []FiresAsAsked
<1>1. TmInv => FiresAsAsked
  <2> SUFFICES ASSUME TmInv PROVE PoppedIsFired /\ NeverTooOften
    BY DEF FiresAsAsked, TmInv
  <2>1. PoppedIsFired
    BY DEF TmInv, FiredIsFront, FrontEarliest, PoppedIsFired
  <2>2. \A c \in heap : td[c].count \in Int /\ td[c].asked \in Int /\ td[c].fired \in Nat
    BY DEF TmInv, TmTypeOK, TimerFields
  <2>3. NeverTooOften
    BY <2>2 DEF TmInv, Limits, NeverTooOften
  <2> QED
    BY <2>1, <2>3
<1> QED
  BY <1>1, TmAlways, PTL

\* Timers fire in the order in which they are due, and process() leaves none
\* behind that is due.
THEOREM TimersFireInOrder == TmSpec => TimersInOrder
<1> DEFINE Ordered == lastDue' >= lastDue
           NoneLeft == tmPc = "loop" /\ tmPc' = "idle" =>
                         \A c \in heap : td[c].count # 0 => td[c].timeNext > passNow
<1>1. TmInv /\ [TmNext]_tmVars => [Ordered]_tmVars
  <2> SUFFICES ASSUME TmInv, TmNext PROVE Ordered
    OBVIOUS
  <2>0. lastDue \in Nat
    BY DEF TmInv, TmTypeOK
  <2>1. CASE LoopFire
    BY <2>1 DEF LoopFire, TmInv, Chronology, TmTypeOK
  <2>2. CASE UNCHANGED lastDue
    BY <2>0, <2>2
  <2> QED
    BY <2>1, <2>2 DEF TmNext, Add, Remove, Process, LoopUndefined, LoopDiscard, LoopEnd,
                      CallbackReturns, Delete, Tick
<1>2. TmInv /\ [TmNext]_tmVars => [NoneLeft]_tmVars
  <2> SUFFICES ASSUME TmInv, TmNext, tmPc = "loop", tmPc' = "idle",
                      NEW c \in heap
               PROVE  td[c].timeNext > passNow
    OBVIOUS
  <2>1. LoopEnd
    BY DEF TmNext, Add, MayCall, Remove, Process, LoopUndefined, LoopDiscard, LoopFire,
           CallbackReturns, Delete, Tick
  <2>2. front \in heap /\ td[front].timeNext <= td[c].timeNext
    BY DEF TmInv, TmTypeOK, FrontEarliest, Earliest
  <2>3. passNow \in Nat /\ td[front].timeNext \in Nat /\ td[c].timeNext \in Nat
    BY <2>2, TimerAssumption DEF TmInv, TmTypeOK, TimerFields
  <2> QED
    BY <2>1, <2>2, <2>3 DEF LoopEnd
<1>3. TmSpec => [][Ordered]_tmVars /\ [][NoneLeft]_tmVars
  BY <1>1, <1>2, TmAlways, PTL DEF TmSpec
<1> QED
  BY <1>3 DEF TimersInOrder, DueOrder, NothingDueLeft

-----------------------------------------------------------------------------
(* Resource.                                                                *)

\* No pointer was given an object that is still to be created.
TargetsCreated ==
    \A p \in ptrAlive :
        target[p].cell # Null => target[p].gen <= gen[target[p].cell]

ResInv == ResTypeOK /\ SafePointer /\ ObserversExact /\ TargetsCreated

USE ResourceAssumption DEF NoTarget, Targets

\* The constructors establish the invariant: there is no object yet.
LEMMA ResInitInv == ResInit => ResInv
  BY DEF ResInit, ResInv, ResTypeOK, SafePointer, ObserversExact, TargetsCreated

\* Resource(): a new object in a cell is one that no pointer was given.
LEMMA CreateInv ==
    ASSUME ResInv, NEW r \in ResourceCells, Create(r)
    PROVE  ResInv'
<1> USE DEF ResInv, Create
<1>1. ResTypeOK'
  BY DEF ResTypeOK
<1>2. SafePointer'
  <2> SUFFICES ASSUME NEW p \in ptrAlive
               PROVE  myResource[p] =
                        IF target[p].cell \in resAlive' /\ gen'[target[p].cell] = target[p].gen
                        THEN target[p].cell ELSE Null
    BY DEF SafePointer
  <2>1. CASE target[p].cell = r
    BY <2>1 DEF ResTypeOK, SafePointer, TargetsCreated
  <2>2. CASE target[p].cell # r
    BY <2>2 DEF ResTypeOK, SafePointer
  <2> QED BY <2>1, <2>2
<1>3. ObserversExact'
  BY DEF ResTypeOK, ObserversExact, SafePointer
<1>4. TargetsCreated'
  BY DEF ResTypeOK, TargetsCreated
<1> QED BY <1>1, <1>2, <1>3, <1>4

\* ~Resource(): the observers are all pointers to the object.
LEMMA DestroyInv ==
    ASSUME ResInv, NEW r \in ResourceCells, Destroy(r)
    PROVE  ResInv'
<1> USE DEF ResInv, Destroy
<1>1. ResTypeOK'
  BY DEF ResTypeOK
<1>2. SafePointer'
  BY DEF ResTypeOK, SafePointer, ObserversExact
<1>3. ObserversExact'
  BY DEF ResTypeOK, ObserversExact
<1>4. TargetsCreated'
  BY DEF ResTypeOK, TargetsCreated
<1> QED BY <1>1, <1>2, <1>3, <1>4

\* What the operations on a pointer share: p lives, shows the living object or
\* null that it was given, and is connected to that one alone.
Bound(p, r) ==
    /\ ptrAlive' = ptrAlive \cup {p}
    /\ myResource' = [myResource EXCEPT ![p] = r]
    /\ Reconnect(p, IF p \in ptrAlive THEN myResource[p] ELSE Null, r)
    /\ UNCHANGED <<resAlive, gen>>

LEMMA BoundInv ==
    ASSUME ResInv, NEW p \in PtrCells, NEW r \in ResourceCells \cup {Null},
           NEW t \in Targets, Bound(p, r), target' = [target EXCEPT ![p] = t],
           r = IF t.cell \in resAlive /\ gen[t.cell] = t.gen THEN t.cell ELSE Null,
           t.cell # Null => t.gen <= gen[t.cell]
    PROVE  ResInv'
<1> USE DEF ResInv, Bound
<1>1. ResTypeOK'
  <2>1. /\ target' \in [PtrCells -> Targets]
        /\ myResource' \in [PtrCells -> ResourceCells \cup {Null}]
    BY DEF ResTypeOK
  <2>2. myObservers' \in [ResourceCells -> SUBSET PtrCells]
    BY DEF ResTypeOK, Reconnect
  <2>3. resAlive' \subseteq ResourceCells /\ ptrAlive' \subseteq PtrCells
    BY DEF ResTypeOK
  <2>4. gen' \in [ResourceCells -> 0..MaxGen]
    BY DEF ResTypeOK
  <2> QED BY <2>1, <2>2, <2>3, <2>4 DEF ResTypeOK
<1>2. SafePointer'
  <2> SUFFICES ASSUME NEW q \in ptrAlive'
               PROVE  myResource'[q] =
                        IF target'[q].cell \in resAlive /\ gen[target'[q].cell] = target'[q].gen
                        THEN target'[q].cell ELSE Null
    BY DEF SafePointer
  <2>1. CASE q = p
    BY <2>1 DEF ResTypeOK
  <2>2. CASE q # p
    BY <2>2 DEF ResTypeOK, SafePointer
  <2> QED BY <2>1, <2>2
<1>3. ObserversExact'
  <2> SUFFICES ASSUME NEW s \in resAlive
               PROVE  myObservers'[s] = {q \in ptrAlive' : myResource'[q] = s}
    BY DEF ObserversExact
  <2>0. s \in ResourceCells /\ s # Null
    BY DEF ResTypeOK
  <2>1. myObservers[s] = {q \in ptrAlive : myResource[q] = s}
    BY DEF ObserversExact
  <2>2. CASE s = r
    <3>1. myObservers'[s] = myObservers[s] \cup {p}
      BY <2>0, <2>2 DEF Reconnect
    <3> QED BY <2>1, <2>2, <3>1 DEF ResTypeOK
  <2>3. CASE s # r /\ p \in ptrAlive /\ s = myResource[p]
    <3>1. myObservers'[s] = myObservers[s] \ {p}
      BY <2>0, <2>3 DEF Reconnect
    <3> QED BY <2>1, <2>3, <3>1 DEF ResTypeOK
  <2>4. CASE s # r /\ ~(p \in ptrAlive /\ s = myResource[p])
    <3>1. myObservers'[s] = myObservers[s]
      BY <2>0, <2>4 DEF Reconnect
    <3> QED BY <2>1, <2>4, <3>1 DEF ResTypeOK
  <2> QED BY <2>2, <2>3, <2>4
<1>4. TargetsCreated'
  BY DEF ResTypeOK, TargetsCreated
<1> QED BY <1>1, <1>2, <1>3, <1>4

\* The constructor of a pointer and its assignment from an object or null.
LEMMA GivenInv ==
    ASSUME ResInv, NEW p \in PtrCells, NEW r \in resAlive \cup {Null},
           ConstructPtr(p, r) \/ AssignRaw(p, r)
    PROVE  ResInv'
<1>1. /\ r \in ResourceCells \cup {Null} /\ Object(r) \in Targets
      /\ Object(r).cell = r
      /\ r # Null => r \in resAlive /\ Object(r).gen = gen[r] /\ gen[r] \in Nat
  BY DEF Object, ResInv, ResTypeOK
<1>2. Null \notin resAlive
  BY DEF ResInv, ResTypeOK
<1>3. Bound(p, r) /\ target' = [target EXCEPT ![p] = Object(r)]
  <2>1. CASE ConstructPtr(p, r)
    BY <2>1 DEF ConstructPtr, Bound
  <2>2. CASE AssignRaw(p, r)
    BY <2>2 DEF AssignRaw, Bound
  <2> QED BY <2>1, <2>2
<1>4. r = IF Object(r).cell \in resAlive /\ gen[Object(r).cell] = Object(r).gen
          THEN Object(r).cell ELSE Null
  BY <1>1, <1>2
<1>5. Object(r).cell # Null => Object(r).gen <= gen[Object(r).cell]
  BY <1>1
<1> QED BY <1>1, <1>3, <1>4, <1>5, BoundInv

\* The copy of a pointer and its assignment from another, or from itself.
LEMMA CopiedInv ==
    ASSUME ResInv, NEW p \in PtrCells, NEW q \in PtrCells,
           CopyPtr(p, q) \/ AssignPtr(p, q)
    PROVE  ResInv'
<1>1. q \in ptrAlive
  BY DEF CopyPtr, AssignPtr
<1>2. /\ myResource[q] \in ResourceCells \cup {Null}
      /\ target[q] \in Targets
  BY DEF ResInv, ResTypeOK
<1>3. Bound(p, myResource[q]) /\ target' = [target EXCEPT ![p] = target[q]]
  <2>1. CASE CopyPtr(p, q)
    BY <2>1 DEF CopyPtr, Bound
  <2>2. CASE AssignPtr(p, q)
    BY <2>2 DEF AssignPtr, Bound
  <2> QED BY <2>1, <2>2
<1>4. /\ myResource[q] =
           IF target[q].cell \in resAlive /\ gen[target[q].cell] = target[q].gen
           THEN target[q].cell ELSE Null
      /\ target[q].cell # Null => target[q].gen <= gen[target[q].cell]
  BY <1>1 DEF ResInv, SafePointer, TargetsCreated
<1> QED BY <1>2, <1>3, <1>4, BoundInv

\* ~ResourcePtr().
LEMMA DestroyPtrInv ==
    ASSUME ResInv, NEW p \in PtrCells, DestroyPtr(p)
    PROVE  ResInv'
<1> USE DEF ResInv, DestroyPtr, Reconnect
<1>1. ResTypeOK'
  BY DEF ResTypeOK
<1>2. SafePointer'
  BY DEF ResTypeOK, SafePointer
<1>3. ObserversExact'
  BY DEF ResTypeOK, ObserversExact
<1>4. TargetsCreated'
  BY DEF ResTypeOK, TargetsCreated
<1> QED BY <1>1, <1>2, <1>3, <1>4

LEMMA ResStep == ResInv /\ [ResNext]_resVars => ResInv'
<1> SUFFICES ASSUME ResInv, [ResNext]_resVars PROVE ResInv'
  OBVIOUS
<1>1. CASE UNCHANGED resVars
  BY <1>1 DEF resVars, ResInv, ResTypeOK, SafePointer, ObserversExact, TargetsCreated
<1>2. CASE ResNext
  BY <1>2, CreateInv, DestroyInv, GivenInv, CopiedInv, DestroyPtrInv DEF ResNext
<1> QED BY <1>1, <1>2

\* A pointer shows the object it was given as long as that object lives and
\* null afterwards (Resource.h: "never become invalid"), and the set a
\* destructor walks holds the living pointers to its object and no others.
THEOREM PointersAreSafe == ResSpec => []PointersSafe
<1>1. ResInv => PointersSafe
  BY DEF ResInv, PointersSafe
<1> QED BY <1>1, ResInitInv, ResStep, PTL DEF ResSpec
=============================================================================

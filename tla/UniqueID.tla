------------------------------- MODULE UniqueID -------------------------------
(***************************************************************************)
(* System::UniqueID<T> (System/UniqueID.h): ids are handed out from a set    *)
(* of free ranges, smallest first, and from a growing maximum when no range  *)
(* is left.  The set orders ranges by _min only; addFree joins a range that  *)
(* comes back with the neighbours it touches.                                *)
(*                                                                          *)
(* The header has no caller in the repository.  The client modelled here     *)
(* keeps the contract the interface implies: it gives back only ids it       *)
(* holds, and it restores an allocator (setMax, addFreeN) once, before the   *)
(* first next().  Only next() takes the mutex; the calls are made one at a   *)
(* time.                                                                     *)
(***************************************************************************)
EXTENDS Naturals, FiniteSets

CONSTANT MaxId   \* bound: the largest id the client lets the allocator reach

ASSUME MaxIdAssumption == MaxId \in Nat

VARIABLES maxId,    \* _maxId
          freeId,   \* _freeId, a set of ranges
          inUse,    \* the ids the client holds
          issued,   \* the id the last next() returned, 0 before the first
          restored  \* the time of setMax and addFreeN is over

uidVars == <<maxId, freeId, inUse, issued, restored>>

Ranges == [min : 1..MaxId, max : 1..MaxId]

Ids(r) == r.min .. r.max

\* The ids of all free ranges.
FreeIds == UNION {Ids(r) : r \in freeId}

UidInit ==
    /\ maxId = 0
    /\ freeId = {}
    /\ inUse = {}
    /\ issued = 0
    /\ restored = FALSE

\* upper_bound: the first range that begins after l (the client's l is in no
\* range, so none begins at l).  The ranges before it, likewise.
After(l) == {r \in freeId : r.min > l}
Before(l) == {r \in freeId : r.min < l}
First(R) == CHOOSE r \in R : \A q \in R : r.min <= q.min
Last(R) == CHOOSE r \in R : \A q \in R : q.min <= r.min

\* next(), with a free range and without.
NextFree ==
    /\ freeId # {}
    /\ LET it == First(freeId) IN
         /\ issued' = it.min
         /\ freeId' = (freeId \ {it}) \cup
                        (IF it.min = it.max THEN {}
                         ELSE {[it EXCEPT !.min = @ + 1]})
    /\ UNCHANGED maxId

NextNew ==
    /\ freeId = {}
    /\ maxId < MaxId
    /\ maxId' = maxId + 1
    /\ issued' = maxId + 1
    /\ UNCHANGED freeId

Issue ==
    /\ NextFree \/ NextNew
    /\ inUse' = inUse \cup {issued'}
    /\ restored' = TRUE

\* Mutant: a range that closes a gap is joined with the lower range only, and
\* the upper one is erased.
JoinedLosesUpper(l, h) ==
    LET b == {r \in Before(l) : r.max + 1 = l}
        a == {r \in After(l) : h + 1 = r.min}
    IN  (freeId \ (a \cup b)) \cup
          {[min |-> IF b = {} THEN l ELSE Last(b).min,
            max |-> IF a = {} \/ b # {} THEN h ELSE First(a).max]}

\* addFree(lId, hId): what the set of ranges becomes.
Joined(l, h) ==
    LET a == After(l)
        b == Before(l)
        joinsUp == a # {} /\ h + 1 >= First(a).min
        joinsDown == b # {} /\ Last(b).max + 1 >= l
    IN  CASE joinsUp /\ joinsDown ->
               (freeId \ {First(a), Last(b)}) \cup
                 {[min |-> Last(b).min, max |-> First(a).max]}
          [] joinsUp /\ ~joinsDown ->
               (freeId \ {First(a)}) \cup {[First(a) EXCEPT !.min = l]}
          [] ~joinsUp /\ joinsDown ->
               (freeId \ {Last(b)}) \cup {[Last(b) EXCEPT !.max = h]}
          [] ~joinsUp /\ ~joinsDown -> freeId \cup {[min |-> l, max |-> h]}

GiveBack(l, h) ==
    /\ l <= h
    /\ l .. h \subseteq inUse
    /\ freeId' = Joined(l, h)
    /\ inUse' = inUse \ (l .. h)
    /\ UNCHANGED <<maxId, issued, restored>>

\* Restoring: setMax(m) with every id up to m in use, then addFreeN for each
\* gap.  addFreeN inserts without joining; the gaps are the maximal ones.
SetMax(m) ==
    /\ ~restored /\ maxId = 0
    /\ maxId' = m
    /\ inUse' = 1..m
    /\ UNCHANGED <<freeId, issued, restored>>

AddFreeN(l, h) ==
    /\ ~restored
    /\ l <= h
    /\ l .. h \subseteq inUse
    /\ (l - 1) \notin FreeIds /\ (h + 1) \notin FreeIds
    /\ freeId' = freeId \cup {[min |-> l, max |-> h]}
    /\ inUse' = inUse \ (l .. h)
    /\ UNCHANGED <<maxId, issued, restored>>

UidNext ==
    \/ Issue
    \/ \E l, h \in 1..MaxId : GiveBack(l, h)
    \/ \E m \in 1..MaxId : SetMax(m)
    \/ \E l, h \in 1..MaxId : AddFreeN(l, h)

UidSpec == UidInit /\ [][UidNext]_uidVars

-----------------------------------------------------------------------------
UidTypeOK ==
    /\ maxId \in 0..MaxId
    /\ freeId \subseteq Ranges
    /\ inUse \subseteq 1..MaxId
    /\ issued \in 0..MaxId
    /\ restored \in BOOLEAN

\* Every id up to the maximum is either held by the client or in exactly one
\* free range: none is lost by the splitting and joining of ranges in next()
\* and addFree(), and none is in two ranges and so issued twice.
Partition ==
    /\ inUse \cup FreeIds = 1..maxId
    /\ inUse \cap FreeIds = {}
    /\ \A r, q \in freeId : r # q => Ids(r) \cap Ids(q) = {}

\* Ranges that touch have been joined: between two of them there is an id in
\* use.  This is what keeps the set as small as addFree() means it to be.
Coalesced ==
    \A r, q \in freeId : r # q => r.max + 1 # q.min

\* The free ranges are exactly the ids nobody holds, in as few ranges as
\* possible, whatever next() splits and addFree() joins.
FreeRangesExact == UidTypeOK /\ Partition /\ Coalesced
=============================================================================

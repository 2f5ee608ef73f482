------------------------------- MODULE Resource -------------------------------
(***************************************************************************)
(* System::Resource<T> and System::ResourcePtr<T> (System/Resource.h,        *)
(* Resource.inl, ResourcePtr.inl): a resource keeps the set of the pointers  *)
(* that observe it, and its destructor sets each of them to null.            *)
(*                                                                          *)
(* Both classes live in cells of memory that are used again; a generation    *)
(* number, kept for the properties only, tells the objects in one cell       *)
(* apart.  Connect and Disconnect hold the resource's mutex and the          *)
(* destructor does not; the operations here follow one another, as they do   *)
(* when the objects belong to one thread.                                    *)
(***************************************************************************)
EXTENDS Naturals

CONSTANTS ResourceCells,  \* addresses of resources
          PtrCells,       \* addresses of ResourcePtr objects
          Null,           \* the null pointer
          MaxGen          \* bound: how often a resource cell is used

ASSUME ResourceAssumption == Null \notin ResourceCells /\ MaxGen \in Nat

VARIABLES resAlive,     \* the cells that hold a resource
          myObservers,  \* Resource::myObservers
          ptrAlive,     \* the cells that hold a ResourcePtr
          myResource,   \* ResourcePtr::myResource
          gen,          \* number of resources a cell has held
          target        \* the resource object a pointer was last given

resVars == <<resAlive, myObservers, ptrAlive, myResource, gen, target>>

NoTarget == [cell |-> Null, gen |-> 0]

Targets == [cell : ResourceCells \cup {Null}, gen : 0..MaxGen]

ResInit ==
    /\ resAlive = {}
    /\ myObservers = [r \in ResourceCells |-> {}]
    /\ ptrAlive = {}
    /\ myResource = [p \in PtrCells |-> Null]
    /\ gen = [r \in ResourceCells |-> 0]
    /\ target = [p \in PtrCells |-> NoTarget]

\* Resource(), and the copy constructor, which copies no observers.
Create(r) ==
    /\ r \notin resAlive
    /\ gen[r] < MaxGen
    /\ resAlive' = resAlive \cup {r}
    /\ myObservers' = [myObservers EXCEPT ![r] = {}]
    /\ gen' = [gen EXCEPT ![r] = @ + 1]
    /\ UNCHANGED <<ptrAlive, myResource, target>>

\* Mutant: the destructor notifies one observer and stops.
DestroyNotifiesOne(r) ==
    /\ r \in resAlive
    /\ resAlive' = resAlive \ {r}
    /\ LET told == IF myObservers[r] = {} THEN {}
                   ELSE {CHOOSE p \in myObservers[r] : TRUE}
       IN  myResource' = [p \in PtrCells |->
                            IF p \in told THEN Null ELSE myResource[p]]
    /\ UNCHANGED <<myObservers, ptrAlive, gen, target>>

\* ~Resource(): OnResourceDestroyed() for every observer.
Destroy(r) ==
    /\ r \in resAlive
    /\ resAlive' = resAlive \ {r}
    /\ myResource' = [p \in PtrCells |->
                        IF p \in myObservers[r] THEN Null ELSE myResource[p]]
    /\ UNCHANGED <<myObservers, ptrAlive, gen, target>>

\* Resource::Disconnect of the old resource, then Connect to the new one.
Reconnect(p, old, new) ==
    myObservers' = [r \in ResourceCells |->
                      IF r = new THEN myObservers[r] \cup {p}
                      ELSE IF r = old THEN myObservers[r] \ {p}
                      ELSE myObservers[r]]

\* The object a raw pointer refers to.
Object(r) == IF r = Null THEN NoTarget ELSE [cell |-> r, gen |-> gen[r]]

\* ResourcePtr(), ResourcePtr(const T*) with r, which may be null.
ConstructPtr(p, r) ==
    /\ p \notin ptrAlive
    /\ ptrAlive' = ptrAlive \cup {p}
    /\ myResource' = [myResource EXCEPT ![p] = r]
    /\ Reconnect(p, Null, r)
    /\ target' = [target EXCEPT ![p] = Object(r)]
    /\ UNCHANGED <<resAlive, gen>>

\* operator =(const T*).
AssignRaw(p, r) ==
    /\ p \in ptrAlive
    /\ myResource' = [myResource EXCEPT ![p] = r]
    /\ Reconnect(p, myResource[p], r)
    /\ target' = [target EXCEPT ![p] = Object(r)]
    /\ UNCHANGED <<resAlive, ptrAlive, gen>>

\* The copy constructor and operator =(const ResourcePtr<T>&), which also
\* serve p = p.
CopyPtr(p, q) ==
    /\ q \in ptrAlive /\ p \notin ptrAlive
    /\ ptrAlive' = ptrAlive \cup {p}
    /\ myResource' = [myResource EXCEPT ![p] = myResource[q]]
    /\ Reconnect(p, Null, myResource[q])
    /\ target' = [target EXCEPT ![p] = target[q]]
    /\ UNCHANGED <<resAlive, gen>>

AssignPtr(p, q) ==
    /\ p \in ptrAlive /\ q \in ptrAlive
    /\ myResource' = [myResource EXCEPT ![p] = myResource[q]]
    /\ Reconnect(p, myResource[p], myResource[q])
    /\ target' = [target EXCEPT ![p] = target[q]]
    /\ UNCHANGED <<resAlive, ptrAlive, gen>>

\* ~ResourcePtr().
DestroyPtr(p) ==
    /\ p \in ptrAlive
    /\ ptrAlive' = ptrAlive \ {p}
    /\ Reconnect(p, myResource[p], Null)
    /\ UNCHANGED <<resAlive, myResource, gen, target>>

ResNext ==
    \/ \E r \in ResourceCells : Create(r) \/ Destroy(r)
    \/ \E p \in PtrCells :
         \/ \E r \in resAlive \cup {Null} : ConstructPtr(p, r) \/ AssignRaw(p, r)
         \/ \E q \in PtrCells : CopyPtr(p, q) \/ AssignPtr(p, q)
         \/ DestroyPtr(p)

ResSpec == ResInit /\ [][ResNext]_resVars

-----------------------------------------------------------------------------
ResTypeOK ==
    /\ resAlive \subseteq ResourceCells
    /\ myObservers \in [ResourceCells -> SUBSET PtrCells]
    /\ ptrAlive \subseteq PtrCells
    /\ myResource \in [PtrCells -> ResourceCells \cup {Null}]
    /\ gen \in [ResourceCells -> 0..MaxGen]
    /\ target \in [PtrCells -> Targets]

\* The promise of ResourcePtr, "pointers to a resource never become invalid
\* when the resource is destroyed": a pointer shows the object it was given
\* exactly as long as that object lives, and null afterwards, also when
\* another resource has been created at the same address.
SafePointer ==
    \A p \in ptrAlive :
        LET t == target[p] IN
        myResource[p] =
            IF t.cell \in resAlive /\ gen[t.cell] = t.gen THEN t.cell ELSE Null

\* A living resource knows its pointers and nothing else: no address of a
\* ResourcePtr that is gone, which the destructor would write to.
ObserversExact ==
    \A r \in resAlive : myObservers[r] = {p \in ptrAlive : myResource[p] = r}

\* Both sides of the bond between resources and pointers.
PointersSafe == ResTypeOK /\ SafePointer /\ ObserversExact
=============================================================================

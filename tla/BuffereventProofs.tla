------------------------- MODULE BuffereventProofs --------------------------
(***************************************************************************)
(* Proofs about Bufferevent, for any watermarks, any chunk and buffer sizes  *)
(* and any order of calls and events: reading is suspended at the high mark  *)
(* and nowhere else; and, for an application that is Careful, the buffers    *)
(* hold the right bytes and output always has the write event pending.       *)
(*                                                                           *)
(* The callback on the input only learns how much was added and taken away.  *)
(* What the first argument needs of the evbuffer operations is that none of  *)
(* them makes the input shorter and reports nothing, whatever it does to the *)
(* chains.  The second follows each operation through the chains with the    *)
(* lemmas of EvbufferProofs.                                                 *)
(***************************************************************************)
EXTENDS EvbufferProofs

\* An operation that reports nothing about b ...
Same(b, e) == IsBuffer(e) /\ e.total = b.total /\ e.add = b.add /\ e.del = b.del

\* ... and what a callback may rely on after any operation.
Reported(b, e) ==
    /\ IsBuffer(e) /\ e.total \in Nat
    /\ e.add = 0 /\ e.del = 0 => e.total >= b.total

\* A buffer between two operations.
Settled(b) == IsBuffer(b) /\ b.total \in Nat /\ b.add = 0 /\ b.del = 0

-----------------------------------------------------------------------------
(* The operations of evbuffer.                                               *)

LEMMA EmptyBufferSettled == Settled(EmptyBuffer)
  BY DEF Settled, IsBuffer, Fields, EmptyBuffer

LEMMA ChainInserted ==
    ASSUME NEW b, IsBuffer(b), NEW n
    PROVE  b.total \in Nat => Same(b, ChainInsert(b, NewChain(n, <<>>)))
<1> DEFINE e == Trimmed(b)
           c == NewChain(n, <<>>)
           chains == Append(e.chains, c)
           lwd == IF Victim(b) = Len(b.chains) + 1 /\ Off(c) # 0 THEN Len(b.chains) + 1
                  ELSE e.lwd
           bad == e.bad \/ (b.lwd > Len(b.chains) /\ Len(b.chains) # 0)
           total == e.total + Off(c)
<1>1. ChainInsert(b, c)
        = [e EXCEPT !.chains = chains, !.lwd = lwd, !.bad = bad, !.total = total]
  BY DEF ChainInsert
<1>2. Same(b, e)
  BY DEF Trimmed, Same, IsBuffer, Fields
<1>3. Off(c) = 0
  BY DEF NewChain, Off
<1>4. b.total \in Nat => total = b.total
  BY <1>2, <1>3 DEF Same
<1> HIDE DEF e, c, chains, lwd, bad, total
<1>5. b.total \in Nat => Same(b, ChainInsert(b, c))
  BY <1>1, <1>2, <1>4 DEF Same, IsBuffer, Fields
<1> QED
  BY <1>5 DEF c

LEMMA PassedReportsNothing ==
    ASSUME NEW b, IsBuffer(b), NEW last
    PROVE  Same(b, Passed(b, last))
  BY DEF Same, IsBuffer, Fields, Passed

LEMMA ExpandReportsNothing ==
    ASSUME NEW b, IsBuffer(b), b.total \in Nat, NEW n
    PROVE  Same(b, ExpandFast(b, n))
<1> DEFINE len == Len(b.chains)
           last == LoopEnd(b, n)
           seen == Passed(b, last)
           tail == b.chains[b.lwd]
           keeps == IF Off(tail) = 0 THEN b.lwd - 1 ELSE b.lwd
           room == IF Off(tail) = 0 THEN 0 ELSE Space(tail)
           longer == Append(seen.chains, NewChain(n - Avail(b, last), <<>>))
           shorter == Append(First(seen.chains, keeps), NewChain(n - room, <<>>))
           failed == seen.bad \/ (Off(tail) = 0 /\ b.lwd # 1)
                              \/ \E i \in b.lwd + 1..len : Off(b.chains[i]) # 0
           empty == len = 0
           immutable == b.chains[len].imm
           enough == Avail(b, last) >= n
           fewVecs == Used(b, last) < NumVecs
           inserted == ChainInsert(b, NewChain(n, <<>>))
           appended == [seen EXCEPT !.chains = longer]
           replaced == [seen EXCEPT !.chains = shorter, !.bad = failed]
<1>1. ExpandFast(b, n) = IF empty \/ immutable THEN inserted
                         ELSE IF enough THEN seen
                         ELSE IF fewVecs THEN appended ELSE replaced
  BY Zenon DEF ExpandFast
<1>2. Same(b, inserted)
  BY ChainInserted
<1>3. Same(b, seen)
  BY PassedReportsNothing
<1> HIDE DEF empty, immutable, enough, fewVecs, inserted, appended, replaced,
             seen, longer, shorter, failed
<1>4. Same(b, appended) /\ Same(b, replaced)
  BY <1>3 DEF Same, IsBuffer, Fields, appended, replaced
<1>5. ExpandFast(b, n) \in {inserted, seen, appended, replaced}
  BY <1>1
<1> QED
  BY <1>2, <1>3, <1>4, <1>5

LEMMA FilledReports ==
    ASSUME NEW b, IsBuffer(b), b.total \in Nat, NEW d, Len(d) \in Nat
    PROVE  IsBuffer(Filled(b, d)) /\ Filled(b, d).total = b.total + Len(d)
<1>1. \E x, l : Filled(b, d) = [b EXCEPT !.chains = x, !.lwd = l,
                                         !.total = @ + Len(d), !.add = @ + Len(d)]
  BY Zenon DEF Filled
<1> QED
  BY <1>1 DEF IsBuffer, Fields

LEMMA ReadReports ==
    ASSUME NEW b, Settled(b), NEW n, NEW d, Len(d) \in Nat
    PROVE  Reported(b, EvbufferRead(b, n, d))
<1> DEFINE e == ExpandFast(b, n)
<1>1. Same(b, e)
  BY ExpandReportsNothing DEF Settled
<1>2. EvbufferRead(b, n, d) = IF d = <<>> THEN e ELSE Filled(e, d)
  BY DEF EvbufferRead
<1> HIDE DEF e
<1>3. IsBuffer(Filled(e, d)) /\ Filled(e, d).total = b.total + Len(d)
  BY <1>1, FilledReports DEF Same, Settled
<1>4. CASE d = <<>>
  BY <1>1, <1>2, <1>4 DEF Same, Settled, Reported
<1>5. CASE d # <<>>
  <2>1. EvbufferRead(b, n, d) = Filled(e, d)
    BY <1>2, <1>5
  <2>2. b.total + Len(d) \in Nat /\ b.total + Len(d) >= b.total
    BY DEF Settled
  <2> QED
    BY <1>3, <2>1, <2>2 DEF Reported
<1> QED
  BY <1>4, <1>5

\* A read that got nothing leaves the buffer settled: there is no callback.
LEMMA EmptyReadSettled ==
    ASSUME NEW b, Settled(b), NEW n
    PROVE  Settled(EvbufferRead(b, n, <<>>)) /\ EvbufferRead(b, n, <<>>).total = b.total
<1>1. EvbufferRead(b, n, <<>>) = ExpandFast(b, n)
  BY DEF EvbufferRead
<1>2. Same(b, ExpandFast(b, n))
  BY ExpandReportsNothing DEF Settled
<1> QED
  BY <1>1, <1>2 DEF Same, Settled

LEMMA PrependReports ==
    ASSUME NEW b, Settled(b), NEW d, Len(d) \in Nat
    PROVE  Reported(b, EvbufferPrepend(b, d))
<1> DEFINE e == IF b.chains = <<>> THEN ChainInsert(b, NewChain(Len(d), <<>>)) ELSE b
           c == e.chains[1]
           gap == IF c.imm THEN 0 ELSE IF Off(c) = 0 THEN c.len ELSE c.mis
           over == Len(d) - gap
           filled == IF c.imm THEN c ELSE [c EXCEPT !.data = Rest(d, over) \o @, !.mis = 0]
           chain == [NewChain(over, First(d, over)) EXCEPT !.mis = BufferLen(over) - over]
           moved == [c EXCEPT !.data = d \o @, !.mis = gap - Len(d)]
           chains == <<chain, filled>> \o Rest(e.chains, 1)
           count == e.add + gap + filled.mis
           fits == gap >= Len(d)
           inGap == [e EXCEPT !.chains[1] = moved,
                              !.total = @ + Len(d), !.add = @ + Len(d)]
           before == [e EXCEPT !.chains = chains, !.lwd = @ + 1,
                               !.total = @ + Len(d), !.add = count]
<1>1. EvbufferPrepend(b, d) = IF fits THEN inGap ELSE before
  BY Zenon DEF EvbufferPrepend
<1>2. IsBuffer(e) /\ e.total = b.total
  BY ChainInserted DEF Settled, Same
<1> HIDE DEF e, moved, chains, count, fits, inGap, before
<1>3. /\ IsBuffer(inGap) /\ inGap.total = e.total + Len(d)
      /\ IsBuffer(before) /\ before.total = e.total + Len(d)
  BY <1>2 DEF IsBuffer, Fields, inGap, before
<1>4. e.total + Len(d) \in Nat /\ e.total + Len(d) >= b.total
  BY <1>2 DEF Settled
<1>5. EvbufferPrepend(b, d) \in {inGap, before}
  BY <1>1
<1> QED
  BY <1>3, <1>4, <1>5 DEF Reported

LEMMA ZeroedFields ==
    ASSUME NEW b, IsBuffer(b), NEW e, e = [ZeroChain(b) EXCEPT !.del = @ + b.total]
    PROVE  IsBuffer(e) /\ e.total = 0 /\ e.del = b.del + b.total
<1> DEFINE z == ZeroChain(b)
           del == z.del + b.total
<1>1. IsBuffer(z) /\ z.total = 0 /\ z.del = b.del
  BY DEF ZeroChain, IsBuffer, Fields
<1>2. e = [z EXCEPT !.del = del]
  OBVIOUS
<1>3. del = b.del + b.total
  BY <1>1
<1> HIDE DEF z, del
<1>4. IsBuffer(e) /\ e.total = z.total /\ e.del = del
  BY <1>1, <1>2 DEF IsBuffer, Fields
<1> QED
  BY <1>1, <1>3, <1>4

LEMMA ShortenedFields ==
    ASSUME NEW b, IsBuffer(b), NEW n, NEW e,
           \E x, l : e = [b EXCEPT !.chains = x, !.lwd = l, !.total = @ - n, !.del = @ + n]
    PROVE  IsBuffer(e) /\ e.total = b.total - n /\ e.del = b.del + n
<1> DEFINE total == b.total - n
           del == b.del + n
<1>1. PICK x, l : e = [b EXCEPT !.chains = x, !.lwd = l, !.total = total, !.del = del]
  OBVIOUS
<1> HIDE DEF total, del
<1>2. IsBuffer(e) /\ e.total = total /\ e.del = del
  BY <1>1 DEF IsBuffer, Fields
<1> QED
  BY <1>2 DEF total, del

LEMMA DrainReports ==
    ASSUME NEW b, Settled(b), NEW n \in Nat
    PROVE  Reported(b, EvbufferDrain(b, n))
<1> DEFINE e == EvbufferDrain(b, n)
<1>1. CASE n >= b.total
  <2>1. e = [ZeroChain(b) EXCEPT !.del = @ + b.total]
    BY <1>1 DEF EvbufferDrain
  <2>2. IsBuffer(e) /\ e.total = 0 /\ e.del = b.del + b.total
    BY <2>1, ZeroedFields DEF Settled
  <2> QED
    BY <2>2 DEF Reported, Settled
<1>2. CASE ~(n >= b.total)
  <2>1. \E x, l : e = [b EXCEPT !.chains = x, !.lwd = l, !.total = @ - n, !.del = @ + n]
    BY <1>2, Zenon DEF EvbufferDrain
  <2>2. IsBuffer(e) /\ e.total = b.total - n /\ e.del = b.del + n
    BY <2>1, ShortenedFields DEF Settled
  <2> HIDE DEF e
  <2>3. e.total \in Nat
    BY <1>2, <2>2 DEF Settled
  <2>4. e.del = 0 => e.total = b.total
    BY <2>2 DEF Settled
  <2> QED
    BY <2>2, <2>3, <2>4 DEF Reported, Settled, e
<1> QED
  BY <1>1, <1>2

LEMMA EmptiedReports ==
    ASSUME NEW b, Settled(b)
    PROVE  Reported(b, Emptied(b))
<1>1. Emptied(b) = [ZeroChain(b) EXCEPT !.del = @ + b.total]
  BY DEF Emptied
<1>2. IsBuffer(Emptied(b)) /\ Emptied(b).total = 0 /\ Emptied(b).del = b.del + b.total
  BY <1>1, ZeroedFields DEF Settled
<1> QED
  BY <1>2 DEF Reported, Settled

LEMMA RemovedReports ==
    ASSUME NEW b, Settled(b), NEW n \in Nat, n > 0, n < b.total
    PROVE  Reported(b, RemovedFrom(b, n))
<1> DEFINE e == RemovedFrom(b, n)
<1>1. \E x, l : e = [b EXCEPT !.chains = x, !.lwd = l, !.total = @ - n, !.del = @ + n]
  BY Zenon DEF RemovedFrom
<1>2. IsBuffer(e) /\ e.total = b.total - n /\ e.del = b.del + n
  BY <1>1, ShortenedFields DEF Settled
<1> HIDE DEF e
<1>3. Reported(b, e)
  BY <1>2 DEF Reported, Settled
<1> QED
  BY <1>3 DEF e

LEMMA PullupSettled ==
    ASSUME NEW b, Settled(b), NEW n
    PROVE  Settled(EvbufferPullup(b, n)) /\ EvbufferPullup(b, n).total = b.total
<1>1. \E x, l : EvbufferPullup(b, n) = [b EXCEPT !.chains = x, !.lwd = l]
  BY Zenon DEF EvbufferPullup
<1> QED
  BY <1>1 DEF Settled, IsBuffer, Fields
-----------------------------------------------------------------------------
(* The bytes that come in.                                                   *)

LEMMA FreshBytes ==
    ASSUME NEW n \in Nat, HasRoom(n)
    PROVE  Fresh(n) \in Seq(Byte) /\ Len(Fresh(n)) = n
<1>1. IsFiniteSet(Unused)
  <2>1. IsFiniteSet(Byte)
    BY BuffereventAssumption, FS_Interval DEF Byte
  <2> QED
    BY <2>1, FS_Subset DEF Unused
<1>2. ExistsBijection(1..Cardinality(Unused), Unused)
  BY <1>1, FS_CardinalityType
<1>3. PICK g \in Bijection(1..Cardinality(Unused), Unused) : TRUE
  BY <1>2 DEF ExistsBijection
<1>4. Cardinality(Unused) \in Nat /\ n <= Cardinality(Unused)
  BY <1>1, FS_CardinalityType DEF HasRoom
<1> DEFINE d == [i \in 1..n |-> g[i]]
<1>5. d \in [1..n -> Unused] /\ IsInjective(d)
  BY <1>3, <1>4 DEF IsInjective, Bijection, Injection, Surjection
<1>6. Fresh(n) \in [1..n -> Unused]
  BY <1>5 DEF Fresh
<1>7. Unused \subseteq Byte
  BY DEF Unused
<1>8. Fresh(n) \in [1..n -> Byte]
  BY <1>6, <1>7
<1> QED
  BY <1>8

\* What readcb wants is a number, unless the input is at its mark.
LEMMA WantedNumber ==
    ASSUME NEW n \in Nat, high \in Nat, input.total \in Nat, ~AtMark
    PROVE  Wanted(n) \in Nat
<1> DEFINE k == Wanted(n)
<1>1. CASE high = 0
  BY <1>1 DEF Wanted
<1>2. CASE high # 0
  <2> DEFINE room == high - input.total
  <2>1. room \in Nat
    BY <1>2 DEF AtMark
  <2>2. k = Min({room, n})
    BY <1>2 DEF Wanted
  <2> HIDE DEF room, k
  <2>3. Min({room, n}) \in {room, n}
    BY <2>1 DEF Min
  <2>4. k \in Nat
    BY <2>1, <2>2, <2>3
  <2> QED
    BY <2>4 DEF k
<1> QED
  BY <1>1, <1>2

-----------------------------------------------------------------------------
(* The invariant.                                                            *)

BevInv ==
    /\ Settled(input)
    /\ high \in Nat
    /\ SuspendedWhenFull
    /\ ReadingArmed

LEMMA BevInvInit == BevInit => BevInv
<1> SUFFICES ASSUME BevInit PROVE BevInv
  OBVIOUS
<1>1. Settled(input) /\ high \in Nat
  BY EmptyBufferSettled DEF BevInit
<1>2. SuspendedWhenFull
  BY DEF BevInit, SuspendedWhenFull
<1>3. ReadingArmed
  BY DEF BevInit, ReadingArmed
<1> QED
  BY <1>1, <1>2, <1>3 DEF BevInv

\* The callbacks, after any operation that reports what it does: the mark is
\* tested if there is one and something was reported, and nothing happened to
\* the suspension otherwise.
LEMMA InvokeKeeps ==
    ASSUME BevInv, NEW in, NEW out, Reported(input, in), Invoke(in, out),
           UNCHANGED <<enabled, high>>
    PROVE  BevInv'
<1>1. IsBuffer(in) /\ in.total \in Nat /\ high \in Nat /\ input.total \in Nat
  BY DEF BevInv, Settled, Reported
<1>2. Settled(input') /\ input'.total = in.total
  BY <1>1 DEF Invoke, Quiet, Settled, IsBuffer, Fields
<1>3. armed' = Outbuf(out, InbufWm(in, armed))
  BY DEF Invoke
<1>4. "r" \in armed' <=> "r" \in InbufWm(in, armed)
  BY <1>3 DEF Outbuf
<1>5. CASE Told(in) /\ in.total >= high
  <2>1. suspended'
    BY <1>5 DEF Invoke
  <2>2. "r" \notin InbufWm(in, armed)
    BY <1>5 DEF InbufWm, Suspended, BevInv, ReadingArmed
  <2>3. high' # 0 /\ input'.total >= high'
    BY <1>2, <1>5 DEF Told
  <2> QED
    BY <1>1, <1>2, <1>4, <2>1, <2>2, <2>3 DEF BevInv, SuspendedWhenFull, ReadingArmed
<1>6. CASE Told(in) /\ ~(in.total >= high)
  <2>1. ~suspended'
    BY <1>6 DEF Invoke
  <2>2. "r" \in InbufWm(in, armed) <=> "r" \in enabled
    BY <1>6 DEF InbufWm, Resumed, BevInv, ReadingArmed
  <2> QED
    BY <1>1, <1>2, <1>4, <2>1, <2>2 DEF BevInv, SuspendedWhenFull, ReadingArmed
<1>7. CASE ~Told(in)
  <2>1. suspended' = suspended
    BY <1>7 DEF Invoke
  <2>2. InbufWm(in, armed) = armed
    BY <1>7 DEF InbufWm
  <2>3. suspended => high # 0 /\ in.total >= high
    BY <1>1, <1>7 DEF BevInv, SuspendedWhenFull, Told, Reported
  <2>4. SuspendedWhenFull'
    BY <1>2, <2>1, <2>3 DEF SuspendedWhenFull
  <2>5. ReadingArmed'
    BY <1>4, <2>1, <2>2 DEF BevInv, ReadingArmed
  <2> QED
    BY <1>1, <1>2, <2>4, <2>5 DEF BevInv
<1> QED
  BY <1>5, <1>6, <1>7

\* The output's operations leave the input as it is.
LEMMA InputKept ==
    ASSUME BevInv
    PROVE  Settled(input) /\ Reported(input, input)
  BY DEF BevInv, Settled, Reported

LEMMA WriteKeeps ==
    ASSUME BevInv, NEW n \in Nat, Write(n) \/ WriteReference(n) \/ WriteReserved(n)
    PROVE  BevInv'
<1>1. \E out : Invoke(input, out)
  BY DEF Write, WriteReference, WriteReserved
<1>2. UNCHANGED <<enabled, high>>
  BY DEF Write, WriteReference, WriteReserved
<1> QED
  BY <1>1, <1>2, InputKept, InvokeKeeps

LEMMA TakeKeeps ==
    ASSUME BevInv, NEW n \in Nat, n > 0, Read(n) \/ Unread(n) \/ Forward(n)
    PROVE  BevInv'
<1> USE InputKept
<1>1. CASE Read(n)
  <2>1. Invoke(EvbufferDrain(input, n), output) /\ UNCHANGED <<enabled, high>>
    BY <1>1 DEF Read
  <2> QED
    BY <2>1, DrainReports, InvokeKeeps
<1>2. CASE Unread(n)
  <2>1. Invoke(EvbufferPrepend(input, Fresh(n)), output) /\ UNCHANGED <<enabled, high>>
    BY <1>2 DEF Unread
  <2>2. Len(Fresh(n)) \in Nat
    BY <1>2, FreshBytes DEF Unread
  <2> QED
    BY <2>1, <2>2, PrependReports, InvokeKeeps
<1>3. CASE Forward(n)
  <2>1. /\ Invoke(RemovedFrom(input, n), RemoveBuffer(input, output, n))
        /\ UNCHANGED <<enabled, high>> /\ n < input.total
    BY <1>3 DEF Forward
  <2> QED
    BY <2>1, RemovedReports, InvokeKeeps
<1> QED
  BY <1>1, <1>2, <1>3

LEMMA EchoKeeps ==
    ASSUME BevInv, Echo
    PROVE  BevInv'
<1>1. Invoke(Emptied(input), AddBuffer(output, input)) /\ UNCHANGED <<enabled, high>>
  BY DEF Echo
<1> QED
  BY <1>1, InputKept, EmptiedReports, InvokeKeeps

LEMMA ReadcbDataKeeps ==
    ASSUME BevInv, NEW n \in Nat, ReadcbData(n)
    PROVE  BevInv'
<1> DEFINE k == Wanted(n)
<1>1. /\ Invoke(EvbufferRead(input, k, Fresh(k)), output)
      /\ UNCHANGED <<enabled, high>> /\ HasRoom(k) /\ ~AtMark
  BY DEF ReadcbData
<1>2. high \in Nat /\ input.total \in Nat
  BY DEF BevInv, Settled
<1>3. k \in Nat
  BY <1>1, <1>2, WantedNumber
<1> HIDE DEF k
<1>4. Len(Fresh(k)) \in Nat
  BY <1>1, <1>3, FreshBytes
<1>5. Reported(input, EvbufferRead(input, k, Fresh(k)))
  BY <1>4, InputKept, ReadReports
<1> QED
  BY <1>1, <1>5, InvokeKeeps

\* Steps without a callback: the length of the input, the suspension and the
\* mark stay, and the read event is disarmed only with reading itself.
LEMMA QuietKeeps ==
    ASSUME BevInv, Settled(input'), input'.total = input.total,
           UNCHANGED <<suspended, high>>,
           "r" \in armed' <=> "r" \in enabled' /\ ~suspended
    PROVE  BevInv'
<1>1. SuspendedWhenFull'
  BY DEF BevInv, SuspendedWhenFull
<1>2. ReadingArmed'
  BY DEF ReadingArmed
<1> QED
  BY <1>1, <1>2 DEF BevInv

LEMMA LoopKeeps ==
    ASSUME BevInv,
           ReadcbNothing \/ WritecbNothing \/ \E n \in 1..MaxBytes : WritecbData(n) \/ Pullup(n)
    PROVE  BevInv'
<1> USE InputKept
<1>0. "r" \in armed <=> "r" \in enabled /\ ~suspended
  BY DEF BevInv, ReadingArmed
<1>1. CASE ReadcbNothing
  <2>1. input' = EvbufferRead(input, Wanted(MaxRead), <<>>) /\ UNCHANGED <<suspended, high>>
    BY <1>1 DEF ReadcbNothing
  <2>2. Settled(input') /\ input'.total = input.total
    BY <2>1, EmptyReadSettled
  <2>3. "r" \in armed' <=> "r" \in enabled' /\ ~suspended
    BY <1>0, <1>1 DEF ReadcbNothing, Disable
  <2> QED
    BY <2>1, <2>2, <2>3, QuietKeeps
<1>2. CASE WritecbNothing
  <2>1. UNCHANGED <<input, suspended, high>>
    BY <1>2 DEF WritecbNothing
  <2>2. "r" \in armed' <=> "r" \in enabled' /\ ~suspended
    BY <1>0, <1>2 DEF WritecbNothing, Disable
  <2> QED
    BY <2>1, <2>2, QuietKeeps
<1>3. ASSUME NEW n \in 1..MaxBytes, WritecbData(n) PROVE BevInv'
  <2>1. UNCHANGED <<input, suspended, high, enabled>>
    BY <1>3 DEF WritecbData
  <2>2. "r" \in armed' <=> "r" \in armed
    BY <1>3 DEF WritecbData
  <2> QED
    BY <1>0, <2>1, <2>2, QuietKeeps
<1>4. ASSUME NEW n \in 1..MaxBytes, Pullup(n) PROVE BevInv'
  <2>1. input' = EvbufferPullup(input, n) /\ UNCHANGED <<suspended, high, enabled, armed>>
    BY <1>4 DEF Pullup
  <2>2. Settled(input') /\ input'.total = input.total
    BY <2>1, PullupSettled
  <2> QED
    BY <1>0, <2>1, <2>2, QuietKeeps
<1> QED
  BY <1>1, <1>2, <1>3, <1>4

LEMMA ReadcbAtMarkKeeps ==
    ASSUME BevInv, ReadcbAtMark
    PROVE  BevInv'
<1>1. "r" \in armed /\ high # 0 /\ input.total >= high /\ suspended'
      /\ UNCHANGED <<input, enabled, high>>
  BY DEF ReadcbAtMark, AtMark
<1>2. "r" \notin armed'
  BY <1>1 DEF ReadcbAtMark, Suspended, BevInv, ReadingArmed
<1> QED
  BY <1>1, <1>2 DEF BevInv, SuspendedWhenFull, ReadingArmed

LEMMA SetWatermarkKeeps ==
    ASSUME BevInv, NEW h \in Marks, SetWatermark(h)
    PROVE  BevInv'
<1>1. h \in Nat /\ high' = h /\ UNCHANGED <<input, enabled>>
  BY BuffereventAssumption DEF SetWatermark
<1>2. input.total \in Nat /\ Settled(input')
  BY <1>1 DEF BevInv, Settled
<1>3. CASE h # 0 /\ input.total > h
  <2>1. suspended' /\ armed' = Suspended(armed)
    BY <1>3 DEF SetWatermark
  <2>2. "r" \notin armed'
    BY <2>1 DEF Suspended, BevInv, ReadingArmed
  <2>3. high' # 0 /\ input'.total >= high'
    BY <1>1, <1>2, <1>3
  <2> QED
    BY <1>1, <1>2, <2>1, <2>2, <2>3 DEF BevInv, SuspendedWhenFull, ReadingArmed
<1>4. CASE h # 0 /\ input.total = h
  <2>0. ~(input.total > h)
    BY <1>2, <1>4
  <2>1. suspended' = suspended /\ armed' = armed
    BY <1>4, <2>0, Zenon DEF SetWatermark
  <2>2. high' # 0 /\ input'.total >= high'
    BY <1>1, <1>2, <1>4
  <2>3. SuspendedWhenFull'
    BY <2>2 DEF SuspendedWhenFull
  <2>4. ReadingArmed'
    BY <1>1, <2>1 DEF BevInv, ReadingArmed
  <2> QED
    BY <1>1, <1>2, <2>3, <2>4 DEF BevInv
<1>5. CASE ~(h # 0 /\ input.total > h) /\ ~(h # 0 /\ input.total = h)
  <2>1. ~suspended' /\ armed' = Resumed(enabled, armed)
    BY <1>5 DEF SetWatermark
  <2>2. "r" \in armed' <=> "r" \in enabled
    BY <2>1 DEF Resumed, BevInv, ReadingArmed
  <2> QED
    BY <1>1, <1>2, <2>1, <2>2 DEF BevInv, SuspendedWhenFull, ReadingArmed
<1> QED
  BY <1>3, <1>4, <1>5

LEMMA EnableKeeps ==
    ASSUME BevInv, NEW what \in {"r", "w"}, Enable(what) \/ AppDisable(what)
    PROVE  BevInv'
<1>0. "r" \in armed <=> "r" \in enabled /\ ~suspended
  BY DEF BevInv, ReadingArmed
<1>1. UNCHANGED <<input, suspended, high>>
  BY DEF Enable, AppDisable
<1>2. CASE Enable(what)
  <2>1. enabled' = enabled \cup {what}
    BY <1>2 DEF Enable
  <2>2. CASE suspended
    BY <1>0, <1>2, <2>1, <2>2, <1>1, InputKept, QuietKeeps DEF Enable
  <2>3. CASE ~suspended
    BY <1>0, <1>2, <2>1, <2>3, <1>1, InputKept, QuietKeeps DEF Enable
  <2> QED
    BY <2>2, <2>3
<1>3. CASE AppDisable(what)
  <2>1. "r" \in armed' <=> "r" \in enabled' /\ ~suspended
    BY <1>0, <1>3 DEF AppDisable, Disable
  <2> QED
    BY <1>1, <2>1, InputKept, QuietKeeps
<1> QED
  BY <1>2, <1>3

LEMMA BevInvStep == BevInv /\ [BevNext]_bevVars => BevInv'
<1> SUFFICES ASSUME BevInv, [BevNext]_bevVars PROVE BevInv'
  OBVIOUS
<1>1. ASSUME NEW n \in 1..MaxChunk,
             \/ Write(n) \/ WriteReference(n) \/ WriteReserved(n)
             \/ Read(n) \/ Unread(n) \/ Forward(n)
      PROVE  BevInv'
  <2>1. n \in Nat /\ n > 0
    BY BuffereventAssumption
  <2> QED
    BY <1>1, <2>1, WriteKeeps, TakeKeeps
<1>2. ASSUME NEW n \in 1..MaxBytes, Pullup(n) \/ WritecbData(n) PROVE BevInv'
  BY <1>2, LoopKeeps
<1>3. ASSUME NEW n \in 1..MaxRead, ReadcbData(n) PROVE BevInv'
  <2>1. n \in Nat
    BY BuffereventAssumption
  <2> QED
    BY <1>3, <2>1, ReadcbDataKeeps
<1>4. ASSUME NEW h \in Marks, SetWatermark(h) PROVE BevInv'
  BY <1>4, SetWatermarkKeeps
<1>5. ASSUME NEW what \in {"r", "w"}, Enable(what) \/ AppDisable(what) PROVE BevInv'
  BY <1>5, EnableKeeps
<1>6. CASE Echo
  BY <1>6, EchoKeeps
<1>7. CASE ReadcbNothing \/ WritecbNothing
  BY <1>7, LoopKeeps
<1>8. CASE ReadcbAtMark
  BY <1>8, ReadcbAtMarkKeeps
<1>9. CASE UNCHANGED bevVars
  BY <1>9 DEF bevVars, BevInv, SuspendedWhenFull, ReadingArmed
<1> QED
  BY <1>1, <1>2, <1>3, <1>4, <1>5, <1>6, <1>7, <1>8, <1>9 DEF BevNext

\* Reading is suspended only while the input is at its high mark, and the read
\* event is pending exactly while reading is enabled and not suspended, for any
\* marks, any sizes of chains, reads and calls and any order of them.  It needs
\* no care of the application.
THEOREM ReadingAlwaysResumes == BevSpec => []ReadingResumes
<1>1. BevInv => ReadingResumes
  BY DEF BevInv, ReadingResumes
<1>2. BevSpec => []BevInv
  BY BevInvInit, BevInvStep, PTL DEF BevSpec
<1> QED
  BY <1>1, <1>2, PTL

-----------------------------------------------------------------------------
(* The bytes in the buffers.                                                 *)

Idle(b) == b.add = 0 /\ b.del = 0
InputSound == Holds(input, received) /\ InShape(input) /\ Idle(input)
OutputSound == Holds(output, sent) /\ OutShape(output) /\ Idle(output)
ControlOK ==
    /\ enabled \subseteq {"r", "w"} /\ armed \subseteq {"r", "w"}
    /\ suspended \in BOOLEAN
    /\ high \in Marks \cup {0}

\* The inductive invariant: the buffers hold the right bytes in chains of the
\* shape that their operations rely on.
SoundInv == InputSound /\ OutputSound /\ ControlOK /\ OutputScheduled

LEMMA SoundInvFacts ==
    ASSUME SoundInv
    PROVE  /\ Holds(input, received) /\ InShape(input) /\ Idle(input)
           /\ Holds(output, sent) /\ OutShape(output) /\ Idle(output)
           /\ ControlOK /\ OutputScheduled
           /\ input.add = 0 /\ input.del = 0 /\ input.add \in Nat /\ input.del \in Nat
           /\ output.add = 0 /\ output.del = 0 /\ output.add \in Nat /\ output.del \in Nat
           /\ received \in Seq(Byte) /\ sent \in Seq(Byte)
           /\ Len(received) \in Nat /\ Len(sent) \in Nat
           /\ input.total = Len(received) /\ output.total = Len(sent)
           /\ high \in Nat
<1>1. Holds(input, received) /\ Holds(output, sent)
  BY DEF SoundInv, InputSound, OutputSound
<1>2. /\ received \in Seq(Byte) /\ sent \in Seq(Byte)
      /\ Len(received) \in Nat /\ Len(sent) \in Nat
  BY <1>1, HoldsFields
<1>3. input.total = Len(received) /\ output.total = Len(sent)
  BY <1>1 DEF Holds
<1>4. Idle(input) /\ Idle(output)
  BY DEF SoundInv, InputSound, OutputSound
<1>5. ControlOK
  BY DEF SoundInv
<1>6. high \in Nat
  BY <1>5, BuffereventAssumption DEF ControlOK
<1> QED
  BY <1>1, <1>2, <1>3, <1>4, <1>5, <1>6 DEF SoundInv, InputSound, OutputSound, Idle

\* The counts of evbuffer_invoke_callbacks() are not part of what a buffer holds.
LEMMA QuietHolds ==
    ASSUME NEW b, NEW s, Holds(b, s)
    PROVE  /\ Holds(Quiet(b), s) /\ Idle(Quiet(b))
           /\ InShape(b) => InShape(Quiet(b))
           /\ OutShape(b) => OutShape(Quiet(b))
           /\ Quiet(b).total = b.total
<1> DEFINE e == Quiet(b)
<1>1. IsBuffer(b)
  BY DEF Holds
<1>2. /\ IsBuffer(e) /\ e.chains = b.chains /\ e.lwd = b.lwd /\ e.total = b.total
      /\ e.bad = b.bad /\ Idle(e)
  BY <1>1 DEF Quiet, IsBuffer, Fields, Idle
<1> HIDE DEF e
<1>3. Holds(e, s)
  BY <1>2, Zenon DEF Holds
<1>4. InShape(b) => InShape(e)
  BY <1>2, Zenon DEF InShape
<1>5. OutShape(b) => OutShape(e)
  BY <1>2, Zenon DEF OutShape
<1> QED
  BY <1>2, <1>3, <1>4, <1>5 DEF e

LEMMA EmptyHolds ==
    Holds(EmptyBuffer, <<>>) /\ InShape(EmptyBuffer) /\ OutShape(EmptyBuffer) /\ Idle(EmptyBuffer)
<1> DEFINE e == EmptyBuffer
<1>1. /\ IsBuffer(e) /\ e.chains = <<>> /\ e.lwd = 1 /\ e.total = 0 /\ e.bad = FALSE /\ Idle(e)
  BY DEF EmptyBuffer, IsBuffer, Fields, Idle
<1>2. <<>> \in Seq(Chain) /\ <<>> \in Seq(Plain) /\ Len(<<>>) = 0
  OBVIOUS
<1> HIDE DEF e
<1>3. Holds(e, <<>>)
  BY <1>1, <1>2, CatEmpty DEF Holds
<1>4. InShape(e)
  BY <1>1, <1>2 DEF InShape, NoData
<1>5. OutShape(e)
  BY <1>1 DEF OutShape
<1> QED
  BY <1>1, <1>3, <1>4, <1>5 DEF e

LEMMA SoundInvInit == BevInit => SoundInv
<1> SUFFICES ASSUME BevInit PROVE SoundInv
  OBVIOUS
<1>1. input = EmptyBuffer /\ output = EmptyBuffer /\ received = <<>> /\ sent = <<>>
  BY DEF BevInit
<1>2. InputSound /\ OutputSound
  BY <1>1, EmptyHolds DEF InputSound, OutputSound
<1>3. ControlOK
  BY DEF BevInit, ControlOK
<1>4. OutputScheduled
  BY <1>1 DEF OutputScheduled, EmptyBuffer
<1> QED
  BY <1>2, <1>3, <1>4 DEF SoundInv

\* The callbacks, after operations that kept both buffers sound: if anything was
\* added to the output its callback arms the write event.
LEMMA InvokeSound ==
    ASSUME ControlOK, OutputScheduled, NEW in, NEW out, Invoke(in, out),
           Holds(in, received'), InShape(in), Holds(out, sent'), OutShape(out),
           out.add # 0 \/ out = output, UNCHANGED <<enabled, high>>
    PROVE  SoundInv'
<1>1. /\ input' = Quiet(in) /\ output' = Quiet(out)
      /\ suspended' = IF Told(in) THEN in.total >= high ELSE suspended
      /\ armed' = Outbuf(out, InbufWm(in, armed))
  BY DEF Invoke
<1>2. InputSound'
  <2>1. Holds(Quiet(in), received') /\ InShape(Quiet(in)) /\ Idle(Quiet(in))
    BY QuietHolds
  <2> QED
    BY <1>1, <2>1 DEF InputSound
<1>3. OutputSound'
  <2>1. Holds(Quiet(out), sent') /\ OutShape(Quiet(out)) /\ Idle(Quiet(out))
    BY QuietHolds
  <2> QED
    BY <1>1, <2>1 DEF OutputSound
<1>4. output'.total = out.total
  BY <1>1, QuietHolds
<1> DEFINE a == InbufWm(in, armed)
<1>5. a \subseteq {"r", "w"} /\ ("w" \in armed => "w" \in a)
  <2>1. armed \subseteq {"r", "w"}
    BY DEF ControlOK
  <2> QED
    BY <2>1 DEF InbufWm, Suspended, Resumed
<1> HIDE DEF a
<1>6. armed' \subseteq {"r", "w"} /\ ("w" \in armed => "w" \in armed')
  BY <1>1, <1>5 DEF Outbuf, a
<1>7. suspended' \in BOOLEAN
  <2>1. CASE Told(in)
    <3>1. suspended' = (in.total >= high)
      BY <1>1, <2>1
    <3> QED
      BY <3>1
  <2>2. CASE ~Told(in)
    BY <1>1, <2>2 DEF ControlOK
  <2> QED
    BY <2>1, <2>2
<1>8. ControlOK'
  BY <1>6, <1>7 DEF ControlOK
<1>9. OutputScheduled'
  <2>1. CASE out.add # 0
    BY <1>1, <2>1 DEF Outbuf, OutputScheduled
  <2>2. CASE out = output
    <3>1. output'.total = output.total
      BY <1>4, <2>2
    <3> QED
      BY <1>6, <3>1 DEF OutputScheduled
  <2> QED
    BY <2>1, <2>2
<1> QED
  BY <1>2, <1>3, <1>8, <1>9 DEF SoundInv

\* bufferevent_write(), of a careful application.
LEMMA WriteSound ==
    ASSUME Careful, SoundInv, NEW n \in Nat, n > 0, Write(n)
    PROVE  SoundInv'
<1> USE SoundInvFacts
<1> DEFINE d == Fresh(n)
           e == EvbufferAdd(output, d)
<1>1. /\ HasRoom(n) /\ Invoke(input, e) /\ sent' = sent \o d
      /\ UNCHANGED <<enabled, high, received>> /\ Addable(output)
  BY DEF Write
<1>2. d \in Seq(Byte) /\ Len(d) = n
  BY <1>1, FreshBytes
<1>3. Len(output.chains) <= output.lwd + 1
  BY <1>1 DEF Addable
<1> HIDE DEF d
<1>4. Holds(e, sent \o d) /\ OutShape(e) /\ e.add = output.add + Len(d)
  BY <1>2, <1>3, AddKeeps
<1> HIDE DEF e
<1>5. e.add # 0
  BY <1>2, <1>4
<1>6. Holds(e, sent') /\ Holds(input, received')
  BY <1>1, <1>4
<1> QED
  BY <1>1, <1>4, <1>5, <1>6, InvokeSound

\* bufferevent_write_buffer() of referenced memory.
LEMMA WriteReferenceSound ==
    ASSUME SoundInv, NEW n \in Nat, n > 0, WriteReference(n)
    PROVE  SoundInv'
<1> USE SoundInvFacts
<1> DEFINE d == Fresh(n)
           e == EvbufferAddReference(output, d)
<1>1. /\ HasRoom(n) /\ Invoke(input, e) /\ sent' = sent \o d
      /\ UNCHANGED <<enabled, high, received>>
  BY DEF WriteReference
<1>2. d \in Seq(Byte) /\ Len(d) = n
  BY <1>1, FreshBytes
<1> HIDE DEF d
<1>4. Holds(e, sent \o d) /\ OutShape(e) /\ e.add = Len(d)
  BY <1>2, AddReferenceKeeps
<1> HIDE DEF e
<1>5. e.add # 0
  BY <1>2, <1>4
<1>6. Holds(e, sent') /\ Holds(input, received')
  BY <1>1, <1>4
<1> QED
  BY <1>1, <1>4, <1>5, <1>6, InvokeSound

\* evbuffer_reserve_space() and evbuffer_commit_space(), of a careful
\* application: a refused commit leaves the buffer as it was.
LEMMA WriteReservedSound ==
    ASSUME Careful, SoundInv, NEW n \in Nat, n > 0, WriteReserved(n)
    PROVE  SoundInv'
<1> USE SoundInvFacts
<1> DEFINE d == Fresh(n)
           e == ReserveCommit(output, d)
<1>1. /\ HasRoom(n) /\ Invoke(input, e)
      /\ sent' = (IF e.add = 0 THEN sent ELSE sent \o d)
      /\ UNCHANGED <<enabled, high, received>> /\ output.lwd = LastWithData(output)
  BY DEF WriteReserved
<1>2. d \in Seq(Byte) /\ Len(d) = n
  BY <1>1, FreshBytes
<1>3. EmptyFrom(output.chains, output.lwd + 1)
  BY <1>1, RightSlot
<1> HIDE DEF d
<1>4. \/ e = output
      \/ Holds(e, sent \o d) /\ OutShape(e) /\ e.add = output.add + Len(d)
  BY <1>2, <1>3, ReserveKeeps
<1> HIDE DEF e
<1>5. CASE e = output
  <2>1. Holds(e, sent') /\ Holds(input, received') /\ OutShape(e)
    BY <1>1, <1>5
  <2> QED
    BY <1>1, <1>5, <2>1, InvokeSound
<1>6. CASE Holds(e, sent \o d) /\ OutShape(e) /\ e.add = output.add + Len(d)
  <2>1. e.add # 0
    BY <1>2, <1>6
  <2>2. Holds(e, sent') /\ Holds(input, received')
    BY <1>1, <1>6, <2>1
  <2> QED
    BY <1>1, <1>6, <2>1, <2>2, InvokeSound
<1> QED
  BY <1>4, <1>5, <1>6

\* evbuffer_drain() and evbuffer_remove() on the input.
LEMMA ReadSound ==
    ASSUME SoundInv, NEW n \in Nat, Read(n)
    PROVE  SoundInv'
<1> USE SoundInvFacts
<1> DEFINE e == EvbufferDrain(input, n)
<1>1. /\ Invoke(e, output) /\ received' = Rest(received, n)
      /\ UNCHANGED <<enabled, high, sent>>
  BY DEF Read
<1>2. Holds(e, Rest(received, n)) /\ InShape(e)
  BY DrainKeepsInput
<1> HIDE DEF e
<1>3. Holds(e, received') /\ Holds(output, sent')
  BY <1>1, <1>2
<1> QED
  BY <1>1, <1>2, <1>3, InvokeSound

\* evbuffer_prepend() to the input.
LEMMA UnreadSound ==
    ASSUME SoundInv, NEW n \in Nat, n > 0, Unread(n)
    PROVE  SoundInv'
<1> USE SoundInvFacts
<1> DEFINE d == Fresh(n)
           e == EvbufferPrepend(input, d)
<1>1. /\ HasRoom(n) /\ Invoke(e, output) /\ received' = d \o received
      /\ UNCHANGED <<enabled, high, sent>>
  BY DEF Unread
<1>2. d \in Seq(Byte) /\ Len(d) = n
  BY <1>1, FreshBytes
<1> HIDE DEF d
<1>3. Holds(e, d \o received) /\ InShape(e)
  BY <1>2, PrependKeeps
<1> HIDE DEF e
<1>4. Holds(e, received') /\ Holds(output, sent')
  BY <1>1, <1>3
<1> QED
  BY <1>1, <1>3, <1>4, InvokeSound

\* evbuffer_add_buffer() of the input to the output.
LEMMA EchoSound ==
    ASSUME SoundInv, Echo
    PROVE  SoundInv'
<1> USE SoundInvFacts
<1> DEFINE in == Emptied(input)
           out == AddBuffer(output, input)
<1>1. /\ Invoke(in, out) /\ received' = <<>> /\ sent' = sent \o received
      /\ UNCHANGED <<enabled, high>> /\ input.total > 0
  BY DEF Echo
<1>2. Len(received) > 0
  BY <1>1
<1>3. Holds(in, <<>>) /\ InShape(in)
  BY EmptiedKeeps
<1>4. Holds(out, sent \o received) /\ OutShape(out) /\ out.add = Len(received)
  BY <1>2, AddBufferKeeps
<1> HIDE DEF in, out
<1>5. out.add # 0
  BY <1>2, <1>4
<1>6. Holds(in, received') /\ Holds(out, sent')
  BY <1>1, <1>3, <1>4
<1> QED
  BY <1>1, <1>3, <1>4, <1>5, <1>6, InvokeSound

\* evbuffer_remove_buffer() of a part of the input, by a careful application.
LEMMA ForwardSound ==
    ASSUME Careful, SoundInv, NEW n \in Nat, n > 0, Forward(n)
    PROVE  SoundInv'
<1> USE SoundInvFacts
<1> DEFINE in == RemovedFrom(input, n)
           out == RemoveBuffer(input, output, n)
<1>1. /\ Invoke(in, out) /\ received' = Rest(received, n)
      /\ sent' = sent \o First(received, n)
      /\ UNCHANGED <<enabled, high>> /\ n < input.total /\ Addable(output)
  BY DEF Forward
<1>2. n < Len(received) /\ Len(output.chains) <= output.lwd + 1
  BY <1>1 DEF Addable
<1>3. Holds(in, Rest(received, n)) /\ InShape(in)
  BY <1>2, RemovedFromKeeps
<1>4. Holds(out, sent \o First(received, n)) /\ OutShape(out) /\ out.add = n
  BY <1>2, RemoveBufferKeeps
<1> HIDE DEF in, out
<1>5. out.add # 0
  BY <1>4
<1>6. Holds(in, received') /\ Holds(out, sent')
  BY <1>1, <1>3, <1>4
<1> QED
  BY <1>1, <1>3, <1>4, <1>5, <1>6, InvokeSound

\* bufferevent_readcb(), when there is something to read.
LEMMA ReadcbDataSound ==
    ASSUME SoundInv, NEW n \in Nat, ReadcbData(n)
    PROVE  SoundInv'
<1> USE SoundInvFacts
<1> DEFINE k == Wanted(n)
           d == Fresh(k)
           e == EvbufferRead(input, k, d)
<1>1. /\ Invoke(e, output) /\ received' = received \o d
      /\ UNCHANGED <<enabled, high, sent>> /\ HasRoom(k) /\ ~AtMark
  BY DEF ReadcbData
<1>2. k \in Nat
  BY <1>1, WantedNumber
<1> HIDE DEF k
<1>3. d \in Seq(Byte) /\ Len(d) = k
  BY <1>1, <1>2, FreshBytes
<1> HIDE DEF d
<1>4. Len(d) <= k
  BY <1>2, <1>3
<1>5. Holds(e, received \o d) /\ InShape(e)
  BY <1>2, <1>3, <1>4, ReadKeeps
<1> HIDE DEF e
<1>6. Holds(e, received') /\ Holds(output, sent')
  BY <1>1, <1>5
<1> QED
  BY <1>1, <1>5, <1>6, InvokeSound

\* Steps without a callback.
LEMMA QuietSound ==
    ASSUME SoundInv, InputSound', OutputSound', ControlOK',
           output'.total > 0 /\ "w" \in enabled' => "w" \in armed'
    PROVE  SoundInv'
  BY DEF SoundInv, OutputScheduled

\* evbuffer_pullup() of the input.
LEMMA PullupSound ==
    ASSUME SoundInv, NEW n \in Nat, n > 0, Pullup(n)
    PROVE  SoundInv'
<1> USE SoundInvFacts
<1> DEFINE e == EvbufferPullup(input, n)
<1>1. /\ input' = e /\ n <= input.total /\ Off(input.chains[1]) < n
      /\ UNCHANGED <<output, enabled, armed, suspended, high, received, sent>>
  BY DEF Pullup
<1>2. n <= Len(received)
  BY <1>1
<1>3. Holds(e, received) /\ InShape(e) /\ e.add = input.add /\ e.del = input.del
  BY <1>1, <1>2, PullupKeeps
<1> HIDE DEF e
<1>4. InputSound'
  BY <1>1, <1>3 DEF InputSound, Idle
<1>5. OutputSound' /\ ControlOK'
  BY <1>1 DEF OutputSound, ControlOK
<1> QED
  BY <1>1, <1>4, <1>5, QuietSound DEF OutputScheduled

\* bufferevent_readcb(), when there is nothing to read.
LEMMA ReadcbNothingSound ==
    ASSUME SoundInv, ReadcbNothing
    PROVE  SoundInv'
<1> USE SoundInvFacts
<1> DEFINE k == Wanted(MaxRead)
           e == EvbufferRead(input, k, <<>>)
<1>1. /\ input' = e /\ UNCHANGED <<output, suspended, high, received, sent>> /\ ~AtMark
      /\ UNCHANGED <<enabled, armed>> \/ Disable("r")
  BY DEF ReadcbNothing
<1>2. k \in Nat
  BY <1>1, WantedNumber, BuffereventAssumption
<1> HIDE DEF k
<1>3. <<>> \in Seq(Byte) /\ Len(<<>>) = 0 /\ Len(<<>>) <= k
  BY <1>2
<1>4. /\ Holds(e, received \o <<>>) /\ InShape(e)
      /\ e.add = input.add + Len(<<>>) /\ e.del = input.del
  BY <1>2, <1>3, ReadKeeps
<1>5. received \o <<>> = received
  BY ConcatEmptySeq
<1> HIDE DEF e
<1>6. InputSound'
  <2>1. Idle(e)
    BY <1>3, <1>4 DEF Idle
  <2> QED
    BY <1>1, <1>4, <1>5, <2>1 DEF InputSound
<1>7. OutputSound'
  BY <1>1 DEF OutputSound
<1>8. ControlOK' /\ ("w" \in enabled' => "w" \in enabled) /\ ("w" \in armed => "w" \in armed')
  BY <1>1 DEF ControlOK, Disable
<1> QED
  BY <1>1, <1>6, <1>7, <1>8, QuietSound DEF OutputScheduled

\* bufferevent_readcb() at the mark, and the calls that change no buffer.
LEMMA ControlSound ==
    ASSUME SoundInv,
           \/ ReadcbAtMark
           \/ \E h \in Marks : SetWatermark(h)
           \/ \E what \in {"r", "w"} : Enable(what) \/ AppDisable(what)
           \/ WritecbNothing
    PROVE  SoundInv'
<1> USE SoundInvFacts
<1>1. UNCHANGED <<input, output, received, sent>>
  BY DEF ReadcbAtMark, SetWatermark, Enable, AppDisable, WritecbNothing
<1>2. InputSound' /\ OutputSound'
  BY <1>1 DEF InputSound, OutputSound
<1>0. /\ enabled \subseteq {"r", "w"} /\ armed \subseteq {"r", "w"}
      /\ suspended \in BOOLEAN /\ high \in Marks \cup {0}
  BY DEF ControlOK
<1>3. CASE ReadcbAtMark
  <2>1. /\ armed' = Suspended(armed) /\ suspended' = TRUE /\ UNCHANGED <<enabled, high>>
    BY <1>3 DEF ReadcbAtMark
  <2>2. ControlOK' /\ ("w" \in armed => "w" \in armed')
    BY <1>0, <2>1 DEF ControlOK, Suspended
  <2> QED
    BY <1>1, <1>2, <2>1, <2>2, QuietSound DEF OutputScheduled
<1>4. ASSUME NEW h \in Marks, SetWatermark(h) PROVE SoundInv'
  <2>1. high' = h /\ UNCHANGED enabled
    BY <1>4 DEF SetWatermark
  <2>2. suspended' \in BOOLEAN
    BY <1>0, <1>4 DEF SetWatermark
  <2>3. armed' \in {Suspended(armed), armed, Resumed(enabled, armed)}
    BY <1>4 DEF SetWatermark
  <2>4. armed' \subseteq {"r", "w"} /\ ("w" \in armed => "w" \in armed')
    BY <1>0, <2>3 DEF Suspended, Resumed
  <2>5. ControlOK'
    BY <1>0, <2>1, <2>2, <2>4 DEF ControlOK
  <2> QED
    BY <1>1, <1>2, <2>1, <2>4, <2>5, QuietSound DEF OutputScheduled
<1>5. ASSUME NEW what \in {"r", "w"}, Enable(what) PROVE SoundInv'
  <2>1. /\ enabled' = enabled \cup {what} /\ UNCHANGED <<suspended, high>>
        /\ armed' = armed \cup ({what} \ (IF suspended THEN {"r"} ELSE {}))
    BY <1>5 DEF Enable
  <2>2. ControlOK'
    BY <1>0, <2>1 DEF ControlOK
  <2>3. output'.total > 0 /\ "w" \in enabled' => "w" \in armed'
    <3>1. CASE what = "w"
      BY <2>1, <3>1
    <3>2. CASE what = "r"
      <4>1. ("w" \in enabled' => "w" \in enabled) /\ ("w" \in armed => "w" \in armed')
        BY <2>1, <3>2
      <4> QED
        BY <1>1, <4>1 DEF OutputScheduled
    <3> QED
      BY <3>1, <3>2
  <2> QED
    BY <1>2, <2>2, <2>3, QuietSound
<1>6. ASSUME NEW what \in {"r", "w"}, AppDisable(what) PROVE SoundInv'
  <2>1. enabled' = enabled \ {what} /\ armed' = armed \ {what} /\ UNCHANGED <<suspended, high>>
    BY <1>6 DEF AppDisable, Disable
  <2>2. ControlOK'
    BY <1>0, <2>1 DEF ControlOK
  <2>3. output'.total > 0 /\ "w" \in enabled' => "w" \in armed'
    BY <1>1, <2>1 DEF OutputScheduled
  <2> QED
    BY <1>2, <2>2, <2>3, QuietSound
<1>7. CASE WritecbNothing
  <2>1. /\ UNCHANGED <<suspended, high>>
        /\ \/ output.total = 0 /\ armed' = armed \ {"w"} /\ UNCHANGED enabled
           \/ enabled' = enabled \ {"w"} /\ armed' = armed \ {"w"}
    BY <1>7 DEF WritecbNothing, Disable
  <2>2. ControlOK'
    BY <1>0, <2>1 DEF ControlOK
  <2>3. output'.total > 0 /\ "w" \in enabled' => "w" \in armed'
    BY <1>1, <2>1
  <2> QED
    BY <1>2, <2>2, <2>3, QuietSound
<1> QED
  BY <1>3, <1>4, <1>5, <1>6, <1>7

\* bufferevent_writecb(): the write event stays while there is data.
LEMMA WritecbDataSound ==
    ASSUME SoundInv, NEW n \in Nat, WritecbData(n)
    PROVE  SoundInv'
<1> USE SoundInvFacts
<1> DEFINE e == EvbufferDrain(output, n)
<1>1. /\ output' = Quiet(e) /\ sent' = Rest(sent, n) /\ "w" \in armed
      /\ armed' = (IF e.total = 0 THEN armed \ {"w"} ELSE armed)
      /\ UNCHANGED <<input, enabled, suspended, high, received>>
  BY DEF WritecbData
<1>2. Holds(e, Rest(sent, n)) /\ OutShape(e)
  BY DrainKeepsOutput
<1> HIDE DEF e
<1>3. /\ Holds(Quiet(e), Rest(sent, n)) /\ OutShape(Quiet(e)) /\ Idle(Quiet(e))
      /\ Quiet(e).total = e.total
  BY <1>2, QuietHolds
<1>4. OutputSound'
  BY <1>1, <1>3 DEF OutputSound
<1>5. InputSound'
  BY <1>1 DEF InputSound
<1>6. ControlOK'
  BY <1>1 DEF ControlOK
<1>7. output'.total > 0 /\ "w" \in enabled' => "w" \in armed'
  <2>1. CASE e.total = 0
    BY <1>1, <1>3, <2>1
  <2>2. CASE e.total # 0
    BY <1>1, <2>2
  <2> QED
    BY <2>1, <2>2
<1> QED
  BY <1>4, <1>5, <1>6, <1>7, QuietSound

LEMMA SoundInvStep == Careful /\ SoundInv /\ [BevNext]_bevVars => SoundInv'
<1> SUFFICES ASSUME Careful, SoundInv, [BevNext]_bevVars PROVE SoundInv'
  OBVIOUS
<1>0. MaxChunk \in Nat /\ MaxBytes \in Nat /\ MaxRead \in Nat
  BY BuffereventAssumption
<1>1. ASSUME NEW n \in 1..MaxChunk,
             \/ Write(n) \/ WriteReference(n) \/ WriteReserved(n)
             \/ Read(n) \/ Unread(n) \/ Forward(n)
      PROVE  SoundInv'
  <2>1. n \in Nat /\ n > 0
    BY <1>0
  <2> QED
    BY <1>1, <2>1, WriteSound, WriteReferenceSound, WriteReservedSound, ReadSound,
       UnreadSound, ForwardSound
<1>2. ASSUME NEW n \in 1..MaxBytes, Pullup(n) \/ WritecbData(n) PROVE SoundInv'
  <2>1. n \in Nat /\ n > 0
    BY <1>0
  <2> QED
    BY <1>2, <2>1, PullupSound, WritecbDataSound
<1>3. ASSUME NEW n \in 1..MaxRead, ReadcbData(n) PROVE SoundInv'
  <2>1. n \in Nat
    BY <1>0
  <2> QED
    BY <1>3, <2>1, ReadcbDataSound
<1>4. CASE \/ \E h \in Marks : SetWatermark(h)
           \/ \E what \in {"r", "w"} : Enable(what) \/ AppDisable(what)
           \/ ReadcbAtMark \/ WritecbNothing
  BY <1>4, ControlSound
<1>5. CASE Echo
  BY <1>5, EchoSound
<1>6. CASE ReadcbNothing
  BY <1>6, ReadcbNothingSound
<1>7. CASE UNCHANGED bevVars
  BY <1>7 DEF bevVars, SoundInv, InputSound, OutputSound, ControlOK, OutputScheduled
<1> QED
  BY <1>1, <1>2, <1>3, <1>4, <1>5, <1>6, <1>7 DEF BevNext

-----------------------------------------------------------------------------
(* What the invariant says.                                                  *)

\* A buffer that holds s is of the right type, and Flat() finds s in it.
LEMMA HoldsSound ==
    ASSUME NEW b, NEW s, Holds(b, s), Idle(b), b.lwd \in 1..Len(b.chains) + 1
    PROVE  BufferOK(b) /\ Flat(b) = s /\ b.total = Len(s) /\ ~b.bad
<1>1. /\ b.chains \in Seq(Chain) /\ s = Cat(b.chains) /\ b.total = Len(s) /\ b.bad = FALSE
  BY DEF Holds
<1>2. ASSUME NEW i \in DOMAIN b.chains PROVE ChainOK(b.chains[i])
  <2>1. i \in 1..Len(b.chains)
    BY <1>1
  <2>2. b.chains[i] \in Chain
    BY <1>1, <2>1, ElementOfSeq
  <2> DEFINE c == b.chains[i]
  <2> HIDE DEF c
  <2>3. c \in Chain
    BY <2>2 DEF c
  <2>4. c.data \in Seq(Byte) /\ c.mis + Off(c) <= c.len
    BY <2>3, ChainFields
  <2>5. c.imm \in BOOLEAN
    BY <2>3 DEF Chain
  <2>6. ChainOK(c)
    BY <2>4, <2>5 DEF ChainOK
  <2> QED
    BY <2>6 DEF c
<1>3. BufferOK(b)
  BY <1>2 DEF BufferOK, Idle
<1>4. Flat(b) = s
  BY <1>1, FlatIsCat
<1> QED
  BY <1>1, <1>3, <1>4

\* In the input's shape last_with_datap is where evbuffer-internal.h says.
LEMMA InShapePointer ==
    ASSUME NEW b, NEW s, Holds(b, s), InShape(b)
    PROVE  b.lwd \in 1..Len(b.chains) + 1 /\ b.lwd = LastWithData(b)
<1> DEFINE full == {i \in DOMAIN b.chains : Off(b.chains[i]) # 0}
<1>0. Len(b.chains) \in Nat /\ DOMAIN b.chains = 1..Len(b.chains)
  BY HoldsFields DEF Holds
<1>1. LastWithData(b) = IF full = {} THEN 1 ELSE Max(full)
  BY DEF LastWithData
<1>2. CASE b.lwd = 1 /\ NoData(b.chains)
  <2>1. full = {}
    BY <1>0, <1>2 DEF NoData
  <2> QED
    BY <1>0, <1>1, <1>2, <2>1
<1>3. CASE /\ b.lwd \in 1..Len(b.chains)
           /\ \A i \in 1..Len(b.chains) : Off(b.chains[i]) # 0 <=> i <= b.lwd
  <2>1. b.lwd \in full /\ full \subseteq 0..Len(b.chains)
    BY <1>0, <1>3
  <2>2. \A i \in full : i <= b.lwd /\ i \in Nat
    BY <1>0, <1>3
  <2>3. full # {}
    BY <2>1
  <2> HIDE DEF full
  <2>4. Max(full) \in full /\ \A i \in full : i <= Max(full)
    BY <1>0, <2>1, <2>3, MaxProperties
  <2>5. b.lwd <= Max(full) /\ Max(full) <= b.lwd /\ Max(full) \in Nat /\ b.lwd \in Nat
    BY <2>1, <2>2, <2>4
  <2>6. Max(full) = b.lwd
    BY <2>5
  <2> QED
    BY <1>0, <1>1, <1>3, <2>3, <2>6
<1> QED
  BY <1>2, <1>3 DEF InShape

LEMMA SoundInvImplies == SoundInv => BuffersSound /\ OutputScheduled
<1> SUFFICES ASSUME SoundInv PROVE BuffersSound /\ OutputScheduled
  OBVIOUS
<1> USE SoundInvFacts
<1>1. input.lwd \in 1..Len(input.chains) + 1 /\ InputPointerRight
  BY InShapePointer DEF InputPointerRight
<1>2. output.lwd \in 1..Len(output.chains) + 1
  BY OutShapeInsertable
<1>3. BufferOK(input) /\ Flat(input) = received /\ input.total = Len(received) /\ ~input.bad
  BY <1>1, HoldsSound
<1>4. BufferOK(output) /\ Flat(output) = sent /\ output.total = Len(sent) /\ ~output.bad
  BY <1>2, HoldsSound
<1>5. BevTypeOK
  BY <1>3, <1>4 DEF BevTypeOK, ControlOK
<1>6. BytesIntact /\ AssertionsHold
  BY <1>3, <1>4 DEF BytesIntact, AssertionsHold
<1> QED
  BY <1>1, <1>5, <1>6 DEF BuffersSound

LEMMA SoundInvAlways ==
    ASSUME Careful
    PROVE  BevSpec => []SoundInv
<1>1. SoundInv /\ [BevNext]_bevVars => SoundInv'
  BY SoundInvStep
<1> QED
  BY <1>1, SoundInvInit, PTL DEF BevSpec

\* However the bytes are read, put back, copied, moved with their chains or
\* pulled together, for chains, blocks and calls of any size, the two buffers
\* hold exactly the right bytes in the right order, no EVUTIL_ASSERT of buffer.c
\* fails and the input's last_with_datap is at its last chain with data; provided
\* the application does not add to an output with two or more chains behind
\* last_with_datap, nor reserve space while that pointer is behind the data.
THEOREM BuffersAlwaysSound ==
    ASSUME Careful
    PROVE  BevSpec => []BuffersSound
<1>1. SoundInv => BuffersSound
  BY SoundInvImplies
<1>2. BevSpec => []SoundInv
  BY SoundInvAlways
<1> QED
  BY <1>1, <1>2, PTL

\* Bytes in the output are not forgotten: under the same proviso the write event
\* is pending whenever writing is enabled and there are any, whichever of the
\* five ways they took.
THEOREM OutputAlwaysScheduled ==
    ASSUME Careful
    PROVE  BevSpec => []OutputScheduled
<1>1. SoundInv => OutputScheduled
  BY SoundInvImplies
<1>2. BevSpec => []SoundInv
  BY SoundInvAlways
<1> QED
  BY <1>1, <1>2, PTL
=============================================================================

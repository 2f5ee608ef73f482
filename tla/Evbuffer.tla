------------------------------ MODULE Evbuffer ------------------------------
(***************************************************************************)
(* libevent's evbuffer (event/buffer.c): a list of chains, each a block of   *)
(* memory with a gap of "mis" bytes, the data and free space, and a pointer  *)
(* to the slot that holds the last chain with data.  Every operation holds   *)
(* the buffer's lock from beginning to end, so each is a function from the   *)
(* buffer before to the buffer after.                                        *)
(*                                                                           *)
(* A slot is the number of the chain it points at: slot 1 is &buf->first,    *)
(* slot i + 1 is the next field of chain i.  "bad" says that an              *)
(* EVUTIL_ASSERT failed, "add" and "del" are n_add_for_cb and n_del_for_cb.  *)
(* Pinned chains and files belong to Windows and sendfile, and are left out. *)
(***************************************************************************)
EXTENDS Naturals, Sequences, SequencesExt, FiniteSetsExt

CONSTANTS MinSize,      \* MIN_BUFFER_SIZE
          ChainSize,    \* EVBUFFER_CHAIN_SIZE
          MaxAuto,      \* EVBUFFER_CHAIN_MAX_AUTO_SIZE
          MaxRealign,   \* MAX_TO_REALIGN_IN_EXPAND
          MaxCopy,      \* MAX_TO_COPY_IN_EXPAND
          NumVecs       \* NUM_READ_IOVEC

ASSUME EvbufferAssumption ==
    /\ {MinSize, ChainSize, MaxAuto, MaxRealign, MaxCopy, NumVecs} \subseteq Nat
    /\ MinSize > ChainSize
    /\ NumVecs >= 2

\* evbuffer_chain_new: the smallest power of two of MinSize that has room for
\* the header and n bytes.
BufferLen(n) ==
    LET block[k \in 0..n + ChainSize] == IF k = 0 THEN MinSize ELSE 2 * block[k - 1]
        sizes == {block[k] : k \in 0..n + ChainSize}
    IN Min({s \in sizes : s >= n + ChainSize}) - ChainSize

First(s, n) == SubSeq(s, 1, n)
Rest(s, n) == SubSeq(s, n + 1, Len(s))

NewChain(n, d) == [data |-> d, mis |-> 0, len |-> BufferLen(n), imm |-> FALSE]

Off(c) == Len(c.data)
Space(c) == IF c.imm THEN 0 ELSE c.len - c.mis - Off(c)

\* A chain that got d at its end, and one that lost its first n bytes.
WithData(c, d) == [c EXCEPT !.data = @ \o d]
Kept(c, n) == [c EXCEPT !.data = Rest(@, n), !.mis = @ + n]

EmptyBuffer ==
    [chains |-> <<>>, lwd |-> 1, total |-> 0, add |-> 0, del |-> 0, bad |-> FALSE]

Flat(b) ==
    LET upTo[i \in 0..Len(b.chains)] ==
            IF i = 0 THEN <<>> ELSE upTo[i - 1] \o b.chains[i].data
    IN upTo[Len(b.chains)]

\* The bytes in the first k chains, and how many chains the first n bytes take
\* away, empty ones behind them included.
Bytes(b, k) ==
    LET upTo[i \in 0..k] == IF i = 0 THEN 0 ELSE upTo[i - 1] + Off(b.chains[i])
    IN upTo[k]
Whole(b, n) == Max({k \in 0..Len(b.chains) : Bytes(b, k) <= n})

-----------------------------------------------------------------------------
(* The end of the list.                                                      *)

\* The first slot from last_with_datap on whose chain is empty or missing.
Victim(b) ==
    LET n == Len(b.chains)
    IN Min({i \in b.lwd..n + 1 : i = n + 1 \/ Off(b.chains[i]) = 0})

\* evbuffer_free_trailing_empty_chains
Trimmed(b) ==
    [b EXCEPT !.chains = First(@, Victim(b) - 1),
              !.bad = @ \/ \E i \in Victim(b)..Len(b.chains) : Off(b.chains[i]) # 0]

\* evbuffer_chain_insert: the pointer moves only when nothing was replaced.
ChainInsert(b, c) ==
    LET n == Len(b.chains)
        alone == b.lwd > n
    IN [Trimmed(b) EXCEPT
           !.chains = Append(@, c),
           !.lwd = IF Victim(b) = n + 1 /\ Off(c) # 0 THEN n + 1 ELSE @,
           !.bad = @ \/ (alone /\ n # 0),
           !.total = @ + Off(c)]

\* advance_last_with_data
Advanced(b) ==
    LET n == Len(b.chains)
        stops == {i \in b.lwd..n : i = n \/ Off(b.chains[i + 1]) = 0}
    IN IF b.lwd > n THEN b ELSE [b EXCEPT !.lwd = Min(stops)]

ShouldRealign(c, n) ==
    /\ c.len - Off(c) >= n
    /\ Off(c) < c.len \div 2
    /\ Off(c) <= MaxRealign

-----------------------------------------------------------------------------
(* Adding data.                                                              *)

\* Data is appended to the last chain, whether or not that is the one that
\* last_with_datap points at.
InLast(b, c, d) ==
    [b EXCEPT !.chains[Len(b.chains)] = WithData(c, d),
              !.total = @ + Len(d),
              !.add = @ + Len(d)]

\* evbuffer_add
EvbufferAdd(b, d) ==
    LET b1 == IF b.chains = <<>> THEN ChainInsert(b, NewChain(Len(d), <<>>)) ELSE b
        c == b1.chains[Len(b1.chains)]
        remain == Space(c)
        doubled == IF c.len <= MaxAuto \div 2 THEN 2 * c.len ELSE c.len
        toAlloc == IF Len(d) > doubled THEN Len(d) ELSE doubled
    IN IF ~c.imm /\ remain >= Len(d)
         THEN InLast(b1, c, d)
       ELSE IF ~c.imm /\ ShouldRealign(c, Len(d))
         THEN InLast(b1, [c EXCEPT !.mis = 0], d)
       ELSE [ChainInsert(InLast(b1, c, First(d, remain)),
                         NewChain(toAlloc, Rest(d, remain)))
               EXCEPT !.add = @ + Len(d) - remain]

\* evbuffer_add_reference: the chain is the caller's memory.
EvbufferAddReference(b, d) ==
    [ChainInsert(b, [data |-> d, mis |-> 0, len |-> Len(d), imm |-> TRUE])
       EXCEPT !.add = @ + Len(d)]

\* evbuffer_prepend.  What does not fit before the first chain goes into a new
\* one; the count then grows by the first chain's gap, not by the data.
EvbufferPrepend(b, d) ==
    LET b1 == IF b.chains = <<>> THEN ChainInsert(b, NewChain(Len(d), <<>>)) ELSE b
        c == b1.chains[1]
        gap == IF c.imm THEN 0 ELSE IF Off(c) = 0 THEN c.len ELSE c.mis
        over == Len(d) - gap
        filled == IF c.imm THEN c ELSE [c EXCEPT !.data = Rest(d, over) \o @, !.mis = 0]
        chain == [NewChain(over, First(d, over)) EXCEPT !.mis = BufferLen(over) - over]
    IN IF gap >= Len(d)
         THEN [b1 EXCEPT !.chains[1] = [c EXCEPT !.data = d \o @, !.mis = gap - Len(d)],
                         !.total = @ + Len(d),
                         !.add = @ + Len(d)]
         ELSE [b1 EXCEPT !.chains = <<chain, filled>> \o Rest(@, 1),
                         !.lwd = @ + 1,
                         !.total = @ + Len(d),
                         !.add = @ + gap + filled.mis]

-----------------------------------------------------------------------------
(* Taking data away.                                                         *)

\* The first chain after the k removed ones is now the first, and n bytes of
\* it are gone.
Behind(b, k, n) ==
    LET left == Rest(b.chains, k)
    IN IF left = <<>> THEN left
       ELSE [left EXCEPT ![1] = Kept(@, n)]

\* The slot once the first k chains are gone.
SlotBehind(lwd, k) == IF lwd <= k + 1 THEN 1 ELSE lwd - k

ZeroChain(b) == [b EXCEPT !.chains = <<>>, !.lwd = 1, !.total = 0]

\* evbuffer_drain
EvbufferDrain(b, n) ==
    LET k == Whole(b, n)
    IN IF n >= b.total
         THEN [ZeroChain(b) EXCEPT !.del = @ + b.total]
         ELSE [b EXCEPT !.chains = Behind(b, k, n - Bytes(b, k)),
                        !.lwd = SlotBehind(@, k),
                        !.total = @ - n,
                        !.del = @ + n]

\* evbuffer_add_buffer, for the buffer that gets the chains ...
AddBuffer(out, in) ==
    [out EXCEPT !.chains = IF out.total = 0 THEN in.chains ELSE @ \o in.chains,
                !.lwd = IF out.total = 0 THEN in.lwd ELSE Len(out.chains) + in.lwd,
                !.total = @ + in.total,
                !.add = @ + in.total,
                !.bad = @ \/ in.bad]

\* ... and for the one that loses them.
Emptied(in) == [ZeroChain(in) EXCEPT !.del = @ + in.total]

\* evbuffer_remove_buffer of fewer bytes than there are: whole chains are
\* moved, the rest is copied.
RemoveBuffer(in, out, n) ==
    LET k == Whole(in, n)
        nread == Bytes(in, k)
        moved == [Trimmed(out) EXCEPT !.chains = @ \o First(in.chains, k),
                                      !.total = @ + nread,
                                      !.add = @ + nread,
                                      !.bad = @ \/ in.lwd <= k]
    IN EvbufferAdd(IF nread = 0 THEN out ELSE Advanced(moved),
                   First(in.chains[k + 1].data, n - nread))

\* When only empty chains lie before the data they stay where they are.
RemovedFrom(in, n) ==
    LET k == Whole(in, n)
        nread == Bytes(in, k)
        rest == Behind(in, k, n - nread)
    IN [in EXCEPT !.chains = IF nread = 0 THEN First(@, k) \o rest ELSE rest,
                  !.lwd = SlotBehind(@, k),
                  !.total = @ - n,
                  !.del = @ + n]

\* evbuffer_pullup of more bytes than the first chain has, and not more than
\* there are: they are copied into the first chain if it is long enough, else
\* into a new one.
EvbufferPullup(b, n) ==
    LET c == b.chains[1]
        k == Whole(b, n)
        stays == c.len - c.mis >= n
        all == First(Flat(b), n)
        tmp == IF stays THEN [c EXCEPT !.data = all] ELSE NewChain(n, all)
        rest == Behind(b, k, n - Bytes(b, k))
        freed == (IF stays THEN 2 ELSE 1)..k
        second == IF rest # <<>> /\ Off(rest[1]) # 0 THEN 2 ELSE 1
    IN [b EXCEPT !.chains = <<tmp>> \o rest,
                 !.lwd = IF @ = 1 \/ @ \in freed THEN 1
                         ELSE IF @ - 1 \in freed THEN second
                         ELSE @ - k + 1]

-----------------------------------------------------------------------------
(* Making room.                                                              *)

\* The slot of the first chain with space, if last_with_datap is right.
Writable(b) ==
    IF b.lwd <= Len(b.chains) /\ Space(b.chains[b.lwd]) = 0 THEN b.lwd + 1 ELSE b.lwd

\* evbuffer_expand_singlechain: the buffer, and the slot of the chain that has
\* room for n bytes.
ExpandSinglechain(b, n) ==
    LET s == Writable(b)
        c == b.chains[s]
        new == LET b1 == ChainInsert(b, NewChain(n, <<>>))
               IN [buf |-> b1, slot |-> Len(b1.chains)]
        with(chain) == [buf |-> [b EXCEPT !.chains[s] = chain], slot |-> s]
        notWorth == Space(c) < c.len \div 8 \/ Off(c) > MaxCopy
        nextFits == s < Len(b.chains) /\ Space(b.chains[s + 1]) >= n
    IN IF s > Len(b.chains) \/ c.imm THEN new
       ELSE IF Space(c) >= n THEN with(c)
       ELSE IF Off(c) = 0 THEN new
       ELSE IF ShouldRealign(c, n) THEN with([c EXCEPT !.mis = 0])
       ELSE IF notWorth /\ nextFits THEN [buf |-> b, slot |-> s + 1]
       ELSE IF notWorth THEN new
       ELSE with(NewChain(Off(c) + n, c.data))

\* evbuffer_commit_space of one vector, the chain behind the slot, with d in it;
\* refused when the vector is not one of those the buffer would hand out now.
CommitSpace(b, slot, d) ==
    LET put == [b EXCEPT !.chains[slot] = WithData(@, d),
                         !.total = @ + Len(d),
                         !.add = @ + Len(d)]
    IN IF slot = Len(b.chains) THEN Advanced(put)
       ELSE IF slot = Writable(b) THEN [put EXCEPT !.lwd = slot]
       ELSE b

\* evbuffer_reserve_space with one vector, which the caller fills with d and
\* hands to evbuffer_commit_space.
ReserveCommit(b, d) ==
    LET r == ExpandSinglechain(b, Len(d)) IN CommitSpace(r.buf, r.slot, d)

\* What a chain offers to a read: all of it, once it is empty.
Offers(c) == IF Off(c) = 0 THEN c.len ELSE Space(c)

\* What the chains from last_with_datap to the j-th offer, and how many of them
\* offer anything.
Avail(b, j) ==
    LET upTo[i \in b.lwd - 1..j] ==
            IF i < b.lwd THEN 0 ELSE upTo[i - 1] + Offers(b.chains[i])
    IN upTo[j]
Used(b, j) == Cardinality({i \in b.lwd..j : Offers(b.chains[i]) > 0})

\* The chain at which the loop that looks for n bytes stops ...
LoopEnd(b, n) ==
    LET len == Len(b.chains)
        ends == {j \in b.lwd..len : Avail(b, j) >= n \/ Used(b, j) = NumVecs}
    IN IF ends = {} THEN len ELSE Min(ends)

\* ... which takes the gap out of the empty chains it passes.
Passed(b, last) ==
    [b EXCEPT
       !.chains = [i \in DOMAIN @ |-> IF i \in b.lwd..last /\ Off(@[i]) = 0
                                        THEN [@[i] EXCEPT !.mis = 0] ELSE @[i]],
       !.bad = @ \/ \E i \in b.lwd + 1..last : Off(b.chains[i]) # 0]

\* _evbuffer_expand_fast: room for n bytes in at most NumVecs chains.
ExpandFast(b, n) ==
    LET len == Len(b.chains)
        last == LoopEnd(b, n)
        seen == Passed(b, last)
        tail == b.chains[b.lwd]
        keeps == IF Off(tail) = 0 THEN b.lwd - 1 ELSE b.lwd
        room == IF Off(tail) = 0 THEN 0 ELSE Space(tail)
    IN IF len = 0 \/ b.chains[len].imm THEN ChainInsert(b, NewChain(n, <<>>))
       ELSE IF Avail(b, last) >= n THEN seen
       ELSE IF Used(b, last) < NumVecs
         THEN [seen EXCEPT !.chains = Append(@, NewChain(n - Avail(b, last), <<>>))]
       ELSE [seen EXCEPT
               !.chains = Append(First(@, keeps), NewChain(n - room, <<>>)),
               !.bad = @ \/ (Off(tail) = 0 /\ b.lwd # 1)
                         \/ \E i \in b.lwd + 1..len : Off(b.chains[i]) # 0]

\* Mutant: last_with_datap is left where it was.
FilledKeepsSlot(b, d) ==
    LET s == Writable(b)
        upTo[i \in s - 1..Len(b.chains)] ==
            IF i < s THEN 0 ELSE upTo[i - 1] + Space(b.chains[i])
        part(i) == SubSeq(d, upTo[i - 1] + 1, Min({upTo[i], Len(d)}))
    IN [b EXCEPT !.chains = [i \in DOMAIN @ |-> IF i < s THEN @[i]
                                ELSE WithData(@[i], part(i))],
                 !.total = @ + Len(d),
                 !.add = @ + Len(d)]

\* The vectors of _evbuffer_read_setup_vecs are filled in order with what
\* readv() returned, and last_with_datap is set to the last one used.
Filled(b, d) ==
    LET s == Writable(b)
        upTo[i \in s - 1..Len(b.chains)] ==
            IF i < s THEN 0 ELSE upTo[i - 1] + Space(b.chains[i])
        part(i) == SubSeq(d, upTo[i - 1] + 1, Min({upTo[i], Len(d)}))
    IN [b EXCEPT !.chains = [i \in DOMAIN @ |-> IF i < s THEN @[i]
                                ELSE WithData(@[i], part(i))],
                 !.lwd = Min({i \in s..Len(b.chains) : upTo[i] >= Len(d)}),
                 !.total = @ + Len(d),
                 !.add = @ + Len(d)]

\* evbuffer_read of up to n bytes, which got d (nothing at the end of the
\* stream, when there is nothing, or on an error).
EvbufferRead(b, n, d) ==
    LET e == ExpandFast(b, n) IN IF d = <<>> THEN e ELSE Filled(e, d)
=============================================================================

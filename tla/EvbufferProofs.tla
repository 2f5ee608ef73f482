---------------------------- MODULE EvbufferProofs --------------------------
(***************************************************************************)
(* Lemmas about the operations of Evbuffer: what each of them does to the    *)
(* bytes of a buffer and to the shape of its list of chains, for chains of   *)
(* any number and size.                                                      *)
(*                                                                           *)
(* Holds(b, s) says that the buffer b holds the bytes s: its chains, joined, *)
(* are s, total_len is the length of s, and no EVUTIL_ASSERT failed.         *)
(* InShape is what the operations on the input of a bufferevent keep true of *)
(* its chains and last_with_datap, OutShape what those on the output keep.   *)
(*                                                                           *)
(* The recursive functions of the model (Flat, Bytes, Avail, the block sizes *)
(* of evbuffer_chain_new) are dealt with by induction over an interval, for  *)
(* a set: IntervalInduction.  It rests on the least number of a set, which   *)
(* the well-foundedness of < on the naturals gives.                          *)
(***************************************************************************)
EXTENDS Bufferevent, FiniteSetTheorems, SequenceTheorems, WellFoundedInduction, TLAPS

-----------------------------------------------------------------------------
(* Induction, recursion and sums over an interval.                           *)

\* A set of numbers has a least one.
LEMMA LeastNumber ==
    ASSUME NEW T, T \subseteq Nat, T # {}
    PROVE  \E x \in T : \A y \in T : x <= y
<1> DEFINE R == OpToRel(<, Nat)
<1>1. PICK x \in T : \A y \in T : ~ (<<y, x>> \in R)
  BY NatLessThanWellFounded, WFMin
<1>2. R = {ss \in Nat \X Nat : ss[1] < ss[2]}
  BY DEF OpToRel
<1> HIDE DEF R
<1>3. ASSUME NEW y \in T PROVE x <= y
  <2>1. x \in Nat /\ y \in Nat
    OBVIOUS
  <2>2. y < x => <<y, x>> \in R
    BY <1>2, <2>1
  <2> QED
    BY <1>1, <2>1, <2>2
<1> QED
  BY <1>3

\* Induction from m to n, for a set: none of its steps leaves it.
LEMMA IntervalInduction ==
    ASSUME NEW m \in Int, NEW n \in Int, NEW P, m \in P,
           \A i \in m..n : i < n /\ i \in P => i + 1 \in P
    PROVE  \A i \in m..n : i \in P
<1> SUFFICES ASSUME NEW j \in m..n, j \notin P PROVE FALSE
  OBVIOUS
<1> DEFINE T == {d \in Nat : m + d <= n /\ m + d \notin P}
<1>1. T \subseteq Nat /\ j - m \in T
  OBVIOUS
<1>2. PICK d \in T : \A y \in T : d <= y
  BY <1>1, LeastNumber
<1>3. d # 0
  OBVIOUS
<1>4. d - 1 \in Nat /\ d - 1 \notin T
  BY <1>2, <1>3
<1>5. m + (d - 1) \in P /\ m + (d - 1) \in m..n /\ m + (d - 1) < n
  BY <1>4
<1> QED
  BY <1>5

\* g follows the recursion F from base.
Follows(g, m, n, base, F) == g[m] = base /\ \A i \in m + 1..n : g[i] = F[i][g[i - 1]]

\* A function can be defined by recursion over an interval.
LEMMA Recursion ==
    ASSUME NEW m \in Int, NEW n \in Int, m <= n, NEW V, NEW base \in V,
           NEW F \in [m + 1..n -> [V -> V]]
    PROVE  \E g \in [m..n -> V] : Follows(g, m, n, base, F)
<1> DEFINE Good(k, g) == Follows(g, m, k, base, F)
           P == {k \in m..n : \E g \in [m..k -> V] : Good(k, g)}
<1>1. m \in P
  <2>1. [i \in m..m |-> base] \in [m..m -> V] /\ Good(m, [i \in m..m |-> base])
    BY DEF Follows
  <2>2. m \in m..n
    OBVIOUS
  <2> HIDE DEF Good
  <2> QED
    BY <2>1, <2>2
<1>2. ASSUME NEW k \in m..n, k < n, k \in P PROVE k + 1 \in P
  <2>1. PICK g \in [m..k -> V] : Good(k, g)
    BY <1>2
  <2> DEFINE h == [i \in m..k + 1 |-> IF i = k + 1 THEN F[k + 1][g[k]] ELSE g[i]]
  <2>2. g[k] \in V /\ k + 1 \in m + 1..n
    BY <1>2
  <2>3. h \in [m..k + 1 -> V]
    BY <2>2
  <2>4. \A i \in m..k : h[i] = g[i]
    BY <1>2
  <2>5. h[k + 1] = F[k + 1][h[k]]
    BY <1>2, <2>4
  <2>6. Good(k + 1, h)
    <3> HIDE DEF h
    <3>1. h[m] = base
      BY <2>1, <2>4 DEF Follows
    <3>2. ASSUME NEW i \in m + 1..k + 1 PROVE h[i] = F[i][h[i - 1]]
      <4>1. CASE i = k + 1
        BY <4>1, <2>5
      <4>2. CASE i # k + 1
        BY <4>2, <2>1, <2>4 DEF Follows
      <4> QED
        BY <4>1, <4>2
    <3> QED
      BY <3>1, <3>2 DEF Follows
  <2> HIDE DEF Good, h
  <2>7. k + 1 \in m..n
    BY <1>2
  <2> QED
    BY <2>3, <2>6, <2>7
<1> HIDE DEF P
<1>3. \A i \in m..n : i \in P
  BY <1>1, <1>2, IntervalInduction
<1>4. n \in P
  BY <1>3
<1> QED
  BY <1>4 DEF P

\* up is the sums of f from m on, as the definition of a function gives them ...
Sums(up, f, m, n) == up = [i \in m..n |-> IF i = m THEN 0 ELSE up[i - 1] + f[i]]

\* ... and as they are used.
Adds(up, f, m, n) ==
    /\ up[m] = 0
    /\ \A i \in m..n : up[i] \in Nat
    /\ \A i \in m + 1..n : up[i] = up[i - 1] + f[i]

\* The sums of a list of numbers exist ...
LEMMA SumsExist ==
    ASSUME NEW m \in Int, NEW n \in Int, m <= n, NEW f \in [m + 1..n -> Nat]
    PROVE  \E g \in [m..n -> Nat] : Adds(g, f, m, n)
<1> DEFINE F == [i \in m + 1..n |-> [v \in Nat |-> v + f[i]]]
<1>1. F \in [m + 1..n -> [Nat -> Nat]] /\ 0 \in Nat
  OBVIOUS
<1>2. PICK g \in [m..n -> Nat] : Follows(g, m, n, 0, F)
  <2> HIDE DEF F
  <2> QED
    BY <1>1, Recursion
<1>3. ASSUME NEW i \in m + 1..n PROVE g[i] = g[i - 1] + f[i]
  <2>1. i - 1 \in m..n
    OBVIOUS
  <2>2. g[i] = F[i][g[i - 1]]
    BY <1>2, Zenon DEF Follows
  <2> QED
    BY <2>1, <2>2
<1> QED
  BY <1>2, <1>3 DEF Follows, Adds

\* ... and there is one way to form them ...
LEMMA SumsUnique ==
    ASSUME NEW m \in Int, NEW n \in Int, m <= n, NEW f,
           NEW g, Adds(g, f, m, n), NEW h, Adds(h, f, m, n)
    PROVE  g[n] = h[n]
<1> DEFINE P == {i \in Int : g[i] = h[i]}
<1>1. m \in P
  BY DEF Adds
<1>2. ASSUME NEW i \in m..n, i < n, i \in P PROVE i + 1 \in P
  <2>1. i + 1 \in m + 1..n /\ (i + 1) - 1 = i
    BY <1>2
  <2>2. g[i + 1] = g[i] + f[i + 1] /\ h[i + 1] = h[i] + f[i + 1]
    BY <2>1 DEF Adds
  <2> QED
    BY <1>2, <2>2
<1> HIDE DEF P
<1>3. \A i \in m..n : i \in P
  BY <1>1, <1>2, IntervalInduction
<1>4. n \in P
  BY <1>3
<1> QED
  BY <1>4 DEF P

\* What the definition of a function says of its sums.
LEMMA SumsAre ==
    ASSUME NEW m \in Int, NEW n \in Int, m <= n, NEW f \in [m + 1..n -> Nat],
           NEW up, Sums(up, f, m, n)
    PROVE  Adds(up, f, m, n)
<1>1. PICK g \in [m..n -> Nat] : Adds(g, f, m, n)
  BY SumsExist
<1>4. up[m] = 0 /\ DOMAIN up = m..n /\ up = [i \in m..n |-> up[i]]
  BY DEF Sums
<1>5. ASSUME NEW i \in m + 1..n PROVE up[i] = up[i - 1] + f[i]
  BY DEF Sums
<1>6. \A i \in m..n : up[i] = g[i]
  <2> DEFINE P == {i \in Int : up[i] = g[i]}
  <2>1. m \in P
    BY <1>1, <1>4 DEF Adds
  <2>2. ASSUME NEW i \in m..n, i < n, i \in P PROVE i + 1 \in P
    <3>1. i + 1 \in m + 1..n /\ (i + 1) - 1 = i
      BY <2>2
    <3>2. g[i + 1] = g[i] + f[i + 1] /\ up[i + 1] = up[i] + f[i + 1]
      BY <3>1, <1>1, <1>5 DEF Adds
    <3> QED
      BY <2>2, <3>2
  <2> HIDE DEF P
  <2>3. \A i \in m..n : i \in P
    BY <2>1, <2>2, IntervalInduction
  <2> QED
    BY <2>3 DEF P
<1> QED
  BY <1>1, <1>4, <1>5, <1>6 DEF Adds

\* Sums only grow.
LEMMA SumsGrow ==
    ASSUME NEW m \in Int, NEW n \in Int, m <= n, NEW f \in [m + 1..n -> Nat],
           NEW up, Adds(up, f, m, n), NEW i \in m..n
    PROVE  \A j \in i..n : up[i] <= up[j]
<1> DEFINE P == {j \in Int : up[i] <= up[j]}
<1>1. i \in P
  BY DEF Adds
<1>2. ASSUME NEW j \in i..n, j < n, j \in P PROVE j + 1 \in P
  <2>1. j + 1 \in m + 1..n /\ (j + 1) - 1 = j /\ j \in m..n
    BY <1>2
  <2>2. up[j + 1] = up[j] + f[j + 1] /\ up[j] \in Nat /\ up[i] \in Nat /\ f[j + 1] \in Nat
    BY <2>1 DEF Adds
  <2> QED
    BY <1>2, <2>2
<1> HIDE DEF P
<1>3. \A j \in i..n : j \in P
  <2>1. i \in Int
    OBVIOUS
  <2> QED
    BY <2>1, <1>1, <1>2, IntervalInduction
<1> QED
  BY <1>3 DEF P

\* ... so a recursive definition of them defines them.
LEMMA SumsChosen ==
    ASSUME NEW m \in Int, NEW n \in Int, m <= n, NEW f \in [m + 1..n -> Nat]
    PROVE  Adds((CHOOSE u : Sums(u, f, m, n)), f, m, n)
<1> DEFINE up == CHOOSE u : Sums(u, f, m, n)
<1>1. PICK g \in [m..n -> Nat] : Adds(g, f, m, n)
  BY SumsExist
<1>2. Sums(g, f, m, n)
  BY <1>1 DEF Sums, Adds
<1>3. Sums(up, f, m, n)
  BY <1>2, Zenon
<1> HIDE DEF up
<1>4. Adds(up, f, m, n)
  BY <1>3, SumsAre
<1> QED
  BY <1>4 DEF up

-----------------------------------------------------------------------------
(* Chains and the bytes they hold.                                           *)

\* A chain as the program can have it: gap and data fit into the block.
Chain == {c \in [data : Seq(Byte), mis : Nat, len : Nat, imm : BOOLEAN] :
            c.mis + Len(c.data) <= c.len}

\* What is known of every chain.
LEMMA ChainFields ==
    ASSUME NEW c \in Chain
    PROVE  /\ c.data \in Seq(Byte) /\ c.mis \in Nat /\ c.len \in Nat /\ Off(c) \in Nat
           /\ c.mis + Off(c) <= c.len
  BY DEF Chain, Off

\* What Bytes() sums up.
Offs(cs) == [i \in 1..Len(cs) |-> Off(cs[i])]

\* Bytes() is such a sum.
LEMMA BytesFcn ==
    ASSUME NEW b, b.chains \in Seq(Chain), NEW up, Adds(up, Offs(b.chains), 0, Len(b.chains))
    PROVE  \A k \in 0..Len(b.chains) : Bytes(b, k) = up[k]
<1> SUFFICES ASSUME NEW k \in 0..Len(b.chains) PROVE Bytes(b, k) = up[k]
  OBVIOUS
<1> DEFINE f == [i \in 0 + 1..k |-> Off(b.chains[i])]
           g == CHOOSE u : Sums(u, f, 0, k)
           upTo == CHOOSE u : u = [i \in 0..k |-> IF i = 0 THEN 0 ELSE u[i - 1] + Off(b.chains[i])]
<1>0. k \in Int /\ 0 \in Int /\ 0 <= k
  OBVIOUS
<1>1. \A i \in 1..k : Off(b.chains[i]) \in Nat
  BY ChainFields, ElementOfSeq
<1>2. f \in [0 + 1..k -> Nat]
  BY <1>1
<1>3. Bytes(b, k) = upTo[k]
  BY Zenon DEF Bytes
<1>4. upTo = g
  BY DEF Sums
<1> HIDE DEF upTo
<1>5. Adds(g, f, 0, k)
  <2> HIDE DEF f
  <2> QED
    BY <1>0, <1>2, SumsChosen
<1> HIDE DEF g
<1>6. Adds(up, f, 0, k)
  <2>1. Len(b.chains) \in Nat
    BY LenProperties
  <2>2. \A i \in 0 + 1..k : f[i] = Offs(b.chains)[i]
    BY <2>1 DEF Offs
  <2> HIDE DEF f
  <2> QED
    BY <2>1, <2>2 DEF Adds
<1>7. g[k] = up[k]
  <2> HIDE DEF f
  <2> QED
    BY <1>0, <1>5, <1>6, SumsUnique
<1> QED
  BY <1>3, <1>4, <1>7

\* up joins the data of the first n chains.
Joins(up, cs, n) ==
    /\ up[0] = <<>>
    /\ \A i \in 0..n : up[i] \in Seq(Byte)
    /\ \A i \in 1..n : up[i] = up[i - 1] \o cs[i].data

\* The data of a list of chains, joined.
Cat(cs) == (CHOOSE up : Joins(up, cs, Len(cs)))[Len(cs)]

\* The same as the definition of a recursive function says it.
JoinsAs(u, cs, n) == u = [i \in 0..n |-> IF i = 0 THEN <<>> ELSE u[i - 1] \o cs[i].data]

\* The data of a list of chains can be joined ...
LEMMA JoinExists ==
    ASSUME NEW cs \in Seq(Chain)
    PROVE  \E up : Joins(up, cs, Len(cs)) /\ JoinsAs(up, cs, Len(cs))
<1> DEFINE n == Len(cs)
           F == [i \in 0 + 1..n |-> [v \in Seq(Byte) |-> v \o cs[i].data]]
<1>0. n \in Int /\ 0 \in Int /\ 0 <= n /\ <<>> \in Seq(Byte)
  BY LenProperties
<1>1. \A i \in 0 + 1..n : cs[i].data \in Seq(Byte)
  BY ElementOfSeq, ChainFields
<1>2. \A i \in 0 + 1..n : \A v \in Seq(Byte) : v \o cs[i].data \in Seq(Byte)
  BY <1>1, ConcatProperties
<1>3. F \in [0 + 1..n -> [Seq(Byte) -> Seq(Byte)]]
  BY <1>2
<1>4. PICK up \in [0..n -> Seq(Byte)] : Follows(up, 0, n, <<>>, F)
  <2> HIDE DEF F, n
  <2> QED
    BY <1>0, <1>3, Recursion
<1>5. ASSUME NEW i \in 1..n PROVE up[i] = up[i - 1] \o cs[i].data
  <2>1. i - 1 \in 0..n /\ i \in 0 + 1..n
    BY <1>0
  <2>2. up[i] = F[i][up[i - 1]]
    BY <1>4, <2>1, Zenon DEF Follows
  <2> QED
    BY <2>1, <2>2
<1>6. Joins(up, cs, n)
  BY <1>4, <1>5 DEF Joins, Follows
<1>7. JoinsAs(up, cs, n)
  <2> DEFINE e(i) == IF i = 0 THEN <<>> ELSE up[i - 1] \o cs[i].data
  <2>1. ASSUME NEW i \in 0..n PROVE up[i] = e(i)
    <3>1. CASE i = 0
      BY <3>1, <1>4 DEF Follows
    <3>2. CASE i # 0
      <4>1. i \in 1..n
        BY <3>2, <1>0
      <4> QED
        BY <3>2, <4>1, <1>5, Zenon
    <3> QED
      BY <3>1, <3>2
  <2>2. JoinsAs(up, cs, n) <=> up = [i \in 0..n |-> e(i)]
    BY Zenon DEF JoinsAs
  <2> HIDE DEF e
  <2> QED
    BY <2>1, <2>2
<1> QED
  BY <1>6, <1>7

\* Two lists of chains with the same data up to n.
SameData(cs, ds, n) == \A i \in 1..n : cs[i].data = ds[i].data

\* ... in one way, which depends on the data only.
LEMMA JoinsUnique ==
    ASSUME NEW cs, NEW ds, NEW n \in Nat, SameData(cs, ds, n),
           NEW g, Joins(g, cs, n), NEW h, Joins(h, ds, n)
    PROVE  g[n] = h[n]
<1> DEFINE P == {i \in Int : g[i] = h[i]}
<1>1. 0 \in P
  BY DEF Joins
<1>2. ASSUME NEW i \in 0..n, i < n, i \in P PROVE i + 1 \in P
  <2>1. i + 1 \in 1..n /\ (i + 1) - 1 = i
    BY <1>2
  <2>2. g[i + 1] = g[i] \o cs[i + 1].data /\ h[i + 1] = h[i] \o ds[i + 1].data
    BY <2>1, Zenon DEF Joins
  <2>3. cs[i + 1].data = ds[i + 1].data
    BY <2>1 DEF SameData
  <2>4. g[i] = h[i]
    BY <1>2
  <2>5. g[i + 1] = h[i + 1]
    BY <2>2, <2>3, <2>4, Zenon
  <2> QED
    BY <2>5
<1> HIDE DEF P
<1>3. \A i \in 0..n : i \in P
  BY <1>1, <1>2, IntervalInduction
<1>4. n \in P
  BY <1>3
<1> QED
  BY <1>4 DEF P

\* Cat() is what joining gives ...
LEMMA CatIs ==
    ASSUME NEW cs \in Seq(Chain), NEW up, Joins(up, cs, Len(cs))
    PROVE  Cat(cs) = up[Len(cs)]
<1> DEFINE g == CHOOSE u : Joins(u, cs, Len(cs))
<1>1. Joins(g, cs, Len(cs))
  BY Zenon
<1>2. Len(cs) \in Nat
  BY LenProperties
<1>3. Cat(cs) = g[Len(cs)]
  BY DEF Cat
<1>4. SameData(cs, cs, Len(cs))
  BY DEF SameData
<1> HIDE DEF g
<1> QED
  BY <1>1, <1>2, <1>3, <1>4, JoinsUnique

\* ... for the whole list.
LEMMA CatFcn ==
    ASSUME NEW cs \in Seq(Chain)
    PROVE  \E up : Joins(up, cs, Len(cs)) /\ Cat(cs) = up[Len(cs)]
  BY JoinExists, CatIs

\* The joined data are bytes.
LEMMA CatType ==
    ASSUME NEW cs \in Seq(Chain)
    PROVE  Cat(cs) \in Seq(Byte)
<1>1. PICK up : Joins(up, cs, Len(cs)) /\ Cat(cs) = up[Len(cs)]
  BY CatFcn
<1>2. Len(cs) \in 0..Len(cs)
  BY LenProperties
<1> QED
  BY <1>1, <1>2 DEF Joins

\* Flat() of the model joins the data of the chains.
LEMMA FlatIsCat ==
    ASSUME NEW b, b.chains \in Seq(Chain)
    PROVE  Flat(b) = Cat(b.chains)
<1> DEFINE cs == b.chains
           n == Len(b.chains)
           u == CHOOSE up : up = [i \in 0..Len(b.chains) |-> IF i = 0 THEN <<>> ELSE up[i - 1] \o b.chains[i].data]
           v == CHOOSE up : JoinsAs(up, b.chains, Len(b.chains))
<1>1. Flat(b) = u[Len(b.chains)]
  BY Zenon DEF Flat
<1>2. u = v
  BY DEF JoinsAs
<1>3. PICK g : Joins(g, cs, n) /\ JoinsAs(g, cs, n)
  BY JoinExists
<1>4. JoinsAs(v, cs, n)
  BY <1>3, Zenon
<1> HIDE DEF u, v
<1>5. n \in Nat
  BY LenProperties
<1> HIDE DEF cs, n
<1>6. v[0] = <<>> /\ \A i \in 1..n : v[i] = v[i - 1] \o cs[i].data
  <2> DEFINE e(i) == IF i = 0 THEN <<>> ELSE v[i - 1] \o cs[i].data
  <2>1. v = [i \in 0..n |-> e(i)]
    BY <1>4, Zenon DEF JoinsAs
  <2>2. \A i \in 0..n : v[i] = e(i)
    <3> HIDE DEF e
    <3> QED
      BY <2>1
  <2>3. e(0) = <<>> /\ 0 \in 0..n
    BY <1>5
  <2>4. ASSUME NEW i \in 1..n PROVE e(i) = v[i - 1] \o cs[i].data /\ i \in 0..n
    <3>1. i \in 0..n /\ i # 0
      BY <1>5
    <3> QED
      BY <3>1, Zenon
  <2> HIDE DEF e
  <2> QED
    BY <2>2, <2>3, <2>4
<1>7. \A i \in 0..n : v[i] = g[i]
  <2> DEFINE P == {i \in Int : v[i] = g[i]}
  <2>1. 0 \in P
    BY <1>3, <1>6 DEF Joins
  <2>2. ASSUME NEW i \in 0..n, i < n, i \in P PROVE i + 1 \in P
    <3>1. i + 1 \in 1..n /\ (i + 1) - 1 = i
      BY <1>5, <2>2
    <3>2. g[i + 1] = g[i] \o cs[i + 1].data /\ v[i + 1] = v[i] \o cs[i + 1].data
      BY <3>1, <1>3, <1>6, Zenon DEF Joins
    <3>3. v[i] = g[i]
      BY <2>2
    <3>4. v[i + 1] = g[i + 1]
      BY <3>2, <3>3, Zenon
    <3> QED
      BY <3>1, <3>4
  <2> HIDE DEF P
  <2>3. \A i \in 0..n : i \in P
    BY <1>5, <2>1, <2>2, IntervalInduction
  <2> QED
    BY <2>3 DEF P
<1>8. Cat(cs) = g[n]
  BY <1>3, CatIs DEF cs, n
<1> QED
  BY <1>1, <1>2, <1>5, <1>7, <1>8 DEF cs, n

\* Chains with the same data.
LEMMA CatSame ==
    ASSUME NEW cs \in Seq(Chain), NEW ds \in Seq(Chain), Len(cs) = Len(ds),
           SameData(cs, ds, Len(cs))
    PROVE  Cat(cs) = Cat(ds)
<1>1. PICK g : Joins(g, cs, Len(cs)) /\ Cat(cs) = g[Len(cs)]
  BY CatFcn
<1>2. PICK h : Joins(h, ds, Len(ds)) /\ Cat(ds) = h[Len(ds)]
  BY CatFcn
<1>3. Len(cs) \in Nat
  BY LenProperties
<1>4. Joins(h, ds, Len(cs)) /\ Cat(ds) = h[Len(cs)]
  BY <1>2
<1>5. g[Len(cs)] = h[Len(cs)]
  BY <1>1, <1>3, <1>4, JoinsUnique
<1> QED
  BY <1>1, <1>4, <1>5

-----------------------------------------------------------------------------
(* Cutting and joining lists of chains.                                      *)

\* The first n elements of a sequence ...
LEMMA FirstProperties ==
    ASSUME NEW S, NEW s \in Seq(S), NEW n \in 0..Len(s)
    PROVE  /\ First(s, n) \in Seq(S) /\ Len(First(s, n)) = n
           /\ \A i \in 1..n : First(s, n)[i] = s[i]
<1>1. Len(s) \in Nat /\ n \in Int /\ 1 \in Int
  BY LenProperties
<1>2. \A i \in 1..n : s[i] \in S
  BY <1>1, ElementOfSeq
<1>3. First(s, n) \in Seq(S) /\ Len(First(s, n)) = IF 1 <= n THEN n - 1 + 1 ELSE 0
  BY <1>1, <1>2, SubSeqProperties DEF First
<1>4. \A i \in 1..n - 1 + 1 : First(s, n)[i] = s[1 + i - 1]
  BY <1>1, <1>2, SubSeqProperties DEF First
<1> QED
  BY <1>1, <1>3, <1>4

\* ... the elements behind them ...
LEMMA RestProperties ==
    ASSUME NEW S, NEW s \in Seq(S), NEW n \in 0..Len(s)
    PROVE  /\ Rest(s, n) \in Seq(S) /\ Len(Rest(s, n)) = Len(s) - n
           /\ \A i \in 1..Len(s) - n : Rest(s, n)[i] = s[n + i]
<1> DEFINE m == n + 1
           l == Len(s)
<1>1. l \in Nat /\ l \in Int /\ m \in Int
  BY LenProperties
<1>2. \A i \in m..l : s[i] \in S
  BY <1>1, ElementOfSeq
<1>3. Rest(s, n) = SubSeq(s, m, l)
  BY DEF Rest
<1>5. n \in 0..l
  OBVIOUS
<1> HIDE DEF l
<1>4. /\ Rest(s, n) \in Seq(S)
      /\ Len(Rest(s, n)) = IF m <= l THEN l - m + 1 ELSE 0
      /\ \A i \in 1..l - m + 1 : Rest(s, n)[i] = s[m + i - 1]
  <2> HIDE DEF m
  <2> QED
    BY <1>1, <1>2, <1>3, SubSeqProperties
<1>6. Len(Rest(s, n)) = l - n
  BY <1>1, <1>4, <1>5
<1>7. ASSUME NEW i \in 1..l - n PROVE Rest(s, n)[i] = s[n + i]
  <2>1. i \in 1..l - m + 1 /\ m + i - 1 = n + i
    BY <1>1, <1>5
  <2> QED
    BY <1>4, <2>1
<1> QED
  BY <1>4, <1>6, <1>7 DEF l

\* ... and both together.
LEMMA FirstAndRest ==
    ASSUME NEW S, NEW s \in Seq(S), NEW n \in 0..Len(s)
    PROVE  First(s, n) \o Rest(s, n) = s
<1> DEFINE t == First(s, n) \o Rest(s, n)
<1>1. Len(s) \in Nat
  BY LenProperties
<1> DEFINE u == First(s, n)
           v == Rest(s, n)
<1>0. u \in Seq(S) /\ v \in Seq(S) /\ Len(u) = n /\ Len(v) = Len(s) - n
  BY FirstProperties, RestProperties
<1>2. /\ t \in Seq(S) /\ Len(t) = n + (Len(s) - n)
      /\ \A i \in 1..n + (Len(s) - n) : t[i] = IF i <= n THEN u[i] ELSE v[i - n]
  <2>1. t = u \o v
    OBVIOUS
  <2> HIDE DEF t, u, v
  <2>2. /\ t \in Seq(S) /\ Len(t) = Len(u) + Len(v)
        /\ \A i \in 1..Len(u) + Len(v) : t[i] = IF i <= Len(u) THEN u[i] ELSE v[i - Len(u)]
    BY <1>0, <2>1, ConcatProperties
  <2> QED
    BY <1>0, <2>2
<1> HIDE DEF t
<1>3. Len(t) = Len(s)
  BY <1>1, <1>2
<1>4. ASSUME NEW i \in 1..Len(t) PROVE t[i] = s[i]
  <2>1. CASE i <= n
    BY <2>1, <1>1, <1>2, <1>3, FirstProperties
  <2>2. CASE i > n
    <3>1. i - n \in 1..Len(s) - n /\ n + (i - n) = i
      BY <1>1, <1>3, <2>2
    <3>2. Rest(s, n)[i - n] = s[i]
      BY <3>1, RestProperties
    <3> QED
      BY <1>1, <1>2, <1>3, <2>2, <3>2
  <2> QED
    BY <1>1, <1>3, <2>1, <2>2
<1>5. t = s
  BY <1>2, <1>3, <1>4, SeqEqual
<1> QED
  BY <1>5 DEF t

\* No chains have no data.
LEMMA CatEmpty == Cat(<<>>) = <<>>
<1>1. <<>> \in Seq(Chain) /\ Len(<<>>) = 0 /\ <<>> \in Seq(Byte)
  BY EmptySeq
<1>2. Joins([i \in 0..0 |-> <<>>], <<>>, Len(<<>>))
  BY <1>1 DEF Joins
<1>3. Cat(<<>>) = [i \in 0..0 |-> <<>>][Len(<<>>)]
  BY <1>1, <1>2, CatIs
<1> QED
  BY <1>1, <1>3

\* Joining stops where the list is cut.
LEMMA CatUpTo ==
    ASSUME NEW cs \in Seq(Chain), NEW up, Joins(up, cs, Len(cs)), NEW k \in 0..Len(cs)
    PROVE  Cat(First(cs, k)) = up[k]
<1>1. Len(cs) \in Nat
  BY LenProperties
<1>2. First(cs, k) \in Seq(Chain) /\ Len(First(cs, k)) = k
      /\ \A i \in 1..k : First(cs, k)[i] = cs[i]
  BY FirstProperties
<1>3. Joins(up, First(cs, k), k)
  <2>1. ASSUME NEW i \in 1..k PROVE up[i] = up[i - 1] \o cs[i].data
    <3>1. i \in 1..Len(cs)
      BY <1>1
    <3> QED
      BY <3>1, Zenon DEF Joins
  <2>2. ASSUME NEW i \in 1..k PROVE up[i] = up[i - 1] \o First(cs, k)[i].data
    BY <1>2, <2>1, Zenon
  <2>3. up[0] = <<>> /\ \A i \in 0..k : up[i] \in Seq(Byte)
    BY <1>1 DEF Joins
  <2> QED
    BY <2>2, <2>3, Zenon DEF Joins
<1> QED
  BY <1>2, <1>3, CatIs

\* Bytes() is how many bytes the first k chains hold.
LEMMA BytesCat ==
    ASSUME NEW b, b.chains \in Seq(Chain), NEW k \in 0..Len(b.chains)
    PROVE  Bytes(b, k) = Len(Cat(First(b.chains, k)))
<1> DEFINE cs == b.chains
           n == Len(cs)
<1>1. PICK up : Joins(up, cs, n) /\ Cat(cs) = up[n]
  BY CatFcn
<1>2. n \in Nat
  BY LenProperties
<1> DEFINE sum == [i \in 0..n |-> Len(up[i])]
<1>3. \A i \in 0..n : up[i] \in Seq(Byte) /\ sum[i] = Len(up[i])
  BY <1>1 DEF Joins
<1>4. \A i \in 0..n : sum[i] \in Nat
  BY <1>3, LenProperties
<1>5. ASSUME NEW i \in 0 + 1..n PROVE sum[i] = sum[i - 1] + Offs(cs)[i]
  <2>1. i \in 1..n /\ i \in 0..n /\ i - 1 \in 0..n
    BY <1>2
  <2>2. cs[i].data \in Seq(Byte)
    BY <2>1, ElementOfSeq, ChainFields
  <2>3. up[i] = up[i - 1] \o cs[i].data
    BY <1>1, <2>1, Zenon DEF Joins
  <2>4. Len(up[i]) = Len(up[i - 1]) + Len(cs[i].data)
    BY <1>3, <2>1, <2>2, <2>3, ConcatProperties
  <2>5. Offs(cs)[i] = Len(cs[i].data)
    BY <2>1 DEF Offs, Off
  <2> QED
    BY <1>3, <2>1, <2>4, <2>5
<1>6. sum[0] = 0
  <2>1. up[0] = <<>> /\ 0 \in 0..n
    BY <1>1, <1>2 DEF Joins
  <2>2. sum[0] = Len(<<>>)
    BY <1>3, <2>1
  <2> QED
    BY <2>2
<1> HIDE DEF sum
<1>7. Adds(sum, Offs(cs), 0, n)
  BY <1>4, <1>5, <1>6 DEF Adds
<1>8. Bytes(b, k) = sum[k]
  BY <1>7, BytesFcn
<1>9. Cat(First(cs, k)) = up[k]
  BY <1>1, CatUpTo
<1> QED
  BY <1>3, <1>8, <1>9

\* The data of two lists, one behind the other.
LEMMA CatConcat ==
    ASSUME NEW cs \in Seq(Chain), NEW ds \in Seq(Chain)
    PROVE  Cat(cs \o ds) = Cat(cs) \o Cat(ds)
<1> DEFINE m == Len(cs)
           n == Len(ds)
           all == cs \o ds
<1>1. PICK g : Joins(g, cs, m) /\ Cat(cs) = g[m]
  BY CatFcn
<1>2. PICK h : Joins(h, ds, n) /\ Cat(ds) = h[n]
  BY CatFcn
<1>3. m \in Nat /\ n \in Nat
  BY LenProperties
<1>4. /\ all \in Seq(Chain) /\ Len(all) = m + n
      /\ \A i \in 1..m + n : all[i] = IF i <= m THEN cs[i] ELSE ds[i - m]
  BY ConcatProperties
<1>5. g[m] \in Seq(Byte) /\ \A i \in 0..n : h[i] \in Seq(Byte)
  BY <1>1, <1>2, <1>3 DEF Joins
<1> HIDE DEF m, n, all
<1> DEFINE up == [i \in 0..m + n |-> IF i <= m THEN g[i] ELSE g[m] \o h[i - m]]
<1>6. /\ \A i \in 0..m : up[i] = g[i]
      /\ \A i \in m + 1..m + n : up[i] = g[m] \o h[i - m]
  <2>1. ASSUME NEW i \in 0..m PROVE up[i] = g[i]
    <3>1. i \in 0..m + n /\ i <= m
      BY <1>3
    <3> QED
      BY <3>1, Zenon
  <2>2. ASSUME NEW i \in m + 1..m + n PROVE up[i] = g[m] \o h[i - m]
    <3>1. i \in 0..m + n /\ ~(i <= m)
      BY <1>3
    <3> QED
      BY <3>1, Zenon
  <2> QED
    BY <2>1, <2>2
<1> HIDE DEF up
<1>7. ASSUME NEW i \in 0..n PROVE up[m + i] = g[m] \o h[i]
  <2>1. CASE i = 0
    <3>1. h[i] = <<>> /\ m + i \in 0..m /\ m + i = m
      BY <1>2, <1>3, <2>1 DEF Joins
    <3>2. g[m] \o <<>> = g[m]
      BY <1>5, ConcatEmptySeq
    <3> QED
      BY <1>6, <3>1, <3>2
  <2>2. CASE i # 0
    <3>1. m + i \in m + 1..m + n /\ (m + i) - m = i
      BY <1>3, <2>2
    <3> QED
      BY <1>6, <3>1, Zenon
  <2> QED
    BY <2>1, <2>2
<1>8. ASSUME NEW i \in 1..m + n PROVE up[i] = up[i - 1] \o all[i].data
  <2>1. CASE i <= m
    <3>1. i \in 1..m /\ i \in 0..m /\ i - 1 \in 0..m
      BY <1>3, <2>1
    <3>2. up[i] = g[i] /\ up[i - 1] = g[i - 1] /\ all[i] = cs[i]
      BY <1>3, <1>4, <1>6, <2>1, <3>1
    <3>3. g[i] = g[i - 1] \o cs[i].data
      BY <1>1, <3>1, Zenon DEF Joins
    <3> QED
      BY <3>2, <3>3, Zenon
  <2>2. CASE i > m
    <3> DEFINE j == i - m
    <3>1. j \in 1..n /\ j \in 0..n /\ j - 1 \in 0..n /\ m + j = i /\ m + (j - 1) = i - 1
      BY <1>3, <2>2
    <3>2. all[i] = ds[j]
      BY <1>3, <1>4, <2>2
    <3> HIDE DEF j
    <3>3. up[i] = g[m] \o h[j]
      BY <1>7, <3>1
    <3>4. up[i - 1] = g[m] \o h[j - 1]
      BY <1>7, <3>1
    <3>5. h[j] = h[j - 1] \o ds[j].data
      BY <1>2, <3>1, Zenon DEF Joins
    <3>6. ds[j].data \in Seq(Byte) /\ h[j - 1] \in Seq(Byte)
      BY <1>5, <3>1, ElementOfSeq, ChainFields DEF n
    <3>7. (g[m] \o h[j - 1]) \o ds[j].data = g[m] \o (h[j - 1] \o ds[j].data)
      <4> DEFINE x == g[m]
                 y == h[j - 1]
                 z == ds[j].data
      <4>1. x \in Seq(Byte) /\ y \in Seq(Byte) /\ z \in Seq(Byte)
        BY <1>5, <3>6
      <4> HIDE DEF x, y, z
      <4>2. (x \o y) \o z = x \o (y \o z)
        BY <4>1, ConcatAssociative
      <4> QED
        BY <4>2, Zenon DEF x, y, z
    <3> QED
      BY <3>2, <3>3, <3>4, <3>5, <3>7, Zenon
  <2>3. i <= m \/ i > m
    BY <1>3
  <2> QED
    BY <2>1, <2>2, <2>3, Zenon
<1>9. ASSUME NEW i \in 0..m + n PROVE up[i] \in Seq(Byte)
  <2>1. CASE i <= m
    <3>1. i \in 0..m
      BY <1>3, <2>1
    <3> QED
      BY <1>1, <1>6, <3>1 DEF Joins
  <2>2. CASE i > m
    <3>1. i - m \in 0..n /\ m + (i - m) = i
      BY <1>3, <2>2
    <3>2. up[i] = g[m] \o h[i - m] /\ h[i - m] \in Seq(Byte)
      BY <1>5, <1>7, <3>1
    <3> QED
      BY <1>5, <3>2, ConcatProperties
  <2> QED
    BY <1>3, <2>1, <2>2
<1>10. up[0] = <<>>
  BY <1>1, <1>3, <1>6 DEF Joins
<1>11. Joins(up, all, m + n)
  BY <1>8, <1>9, <1>10, Zenon DEF Joins
<1>12. Cat(all) = up[m + n]
  BY <1>4, <1>11, CatIs
<1>13. up[m + n] = g[m] \o h[n]
  <2>1. n \in 0..n
    BY <1>3
  <2> QED
    BY <1>7, <2>1, Zenon
<1> QED
  BY <1>1, <1>2, <1>12, <1>13 DEF all

\* The data of one chain.
LEMMA CatOne ==
    ASSUME NEW c \in Chain
    PROVE  Cat(<<c>>) = c.data
<1> DEFINE cs == <<c>>
           up == [i \in 0..1 |-> IF i = 0 THEN <<>> ELSE c.data]
<1>1. cs \in Seq(Chain) /\ Len(cs) = 1 /\ cs[1] = c
  OBVIOUS
<1>2. c.data \in Seq(Byte)
  BY ChainFields
<1>3. up[0] = <<>> /\ up[1] = c.data
  OBVIOUS
<1>4. <<>> \o c.data = c.data
  BY <1>2, ConcatEmptySeq
<1> HIDE DEF cs, up
<1>5. ASSUME NEW i \in 1..1 PROVE up[i] = up[i - 1] \o cs[i].data
  <2>1. i = 1 /\ i - 1 = 0
    OBVIOUS
  <2> QED
    BY <1>1, <1>3, <1>4, <2>1, Zenon
<1>6. ASSUME NEW i \in 0..1 PROVE up[i] \in Seq(Byte)
  <2>1. <<>> \in Seq(Byte) /\ (i = 0 \/ i = 1)
    BY EmptySeq
  <2> QED
    BY <1>2, <1>3, <2>1, Zenon
<1>7. Joins(up, cs, Len(cs))
  BY <1>1, <1>3, <1>5, <1>6, Zenon DEF Joins
<1>8. Cat(cs) = up[Len(cs)]
  BY <1>1, <1>7, CatIs
<1> QED
  BY <1>1, <1>3, <1>8 DEF cs

\* The data of a list with one more chain.
LEMMA CatAppend ==
    ASSUME NEW cs \in Seq(Chain), NEW c \in Chain
    PROVE  Cat(Append(cs, c)) = Cat(cs) \o c.data
<1>1. Append(cs, c) = cs \o <<c>> /\ <<c>> \in Seq(Chain)
  BY AppendIsConcat
<1>2. Cat(cs \o <<c>>) = Cat(cs) \o Cat(<<c>>)
  BY <1>1, CatConcat
<1>3. Cat(<<c>>) = c.data
  BY CatOne
<1> QED
  BY <1>1, <1>2, <1>3, Zenon

\* No chain has data.
NoData(cs) == \A i \in 1..Len(cs) : Off(cs[i]) = 0

\* Empty chains have no data.
LEMMA CatNoData ==
    ASSUME NEW cs \in Seq(Chain), NoData(cs)
    PROVE  Cat(cs) = <<>>
<1> DEFINE n == Len(cs)
           up == [i \in 0..n |-> <<>>]
<1>1. n \in Nat
  BY LenProperties
<1>2. \A i \in 0..n : up[i] = <<>>
  OBVIOUS
<1> HIDE DEF up
<1>3. <<>> \in Seq(Byte) /\ <<>> \o <<>> = <<>>
  BY EmptySeq, ConcatEmptySeq
<1>4. ASSUME NEW i \in 1..n PROVE up[i] = up[i - 1] \o cs[i].data
  <2>1. up[i] = <<>> /\ up[i - 1] = <<>>
    BY <1>1, <1>2
  <2>2. cs[i].data \in Seq(Byte) /\ Len(cs[i].data) = 0
    BY ElementOfSeq, ChainFields DEF NoData, Off
  <2>3. cs[i].data = <<>>
    BY <2>2, EmptySeq
  <2> QED
    BY <1>3, <2>1, <2>3, Zenon
<1>5. up[0] = <<>> /\ \A i \in 0..n : up[i] \in Seq(Byte)
  <2>1. 0 \in 0..n
    BY <1>1
  <2> QED
    BY <1>2, <1>3, <2>1, Zenon
<1>6. Joins(up, cs, n)
  BY <1>4, <1>5, Zenon DEF Joins
<1>7. Cat(cs) = up[n]
  BY <1>6, CatIs
<1> QED
  BY <1>1, <1>2, <1>7

\* The data of a list that is cut in two.
LEMMA CatCut ==
    ASSUME NEW cs \in Seq(Chain), NEW k \in 0..Len(cs)
    PROVE  /\ Cat(First(cs, k)) \in Seq(Byte) /\ Cat(Rest(cs, k)) \in Seq(Byte)
           /\ Cat(cs) = Cat(First(cs, k)) \o Cat(Rest(cs, k))
<1>1. First(cs, k) \in Seq(Chain) /\ Rest(cs, k) \in Seq(Chain)
  BY FirstProperties, RestProperties
<1>2. First(cs, k) \o Rest(cs, k) = cs
  BY FirstAndRest
<1>3. Cat(First(cs, k) \o Rest(cs, k)) = Cat(First(cs, k)) \o Cat(Rest(cs, k))
  BY <1>1, CatConcat
<1> QED
  BY <1>1, <1>2, <1>3, CatType

\* The smallest number of a set.
LEMMA MinProperties ==
    ASSUME NEW T, T \subseteq Nat, T # {}
    PROVE  Min(T) \in T /\ \A y \in T : Min(T) <= y
<1>1. \E x \in T : \A y \in T : x <= y
  BY LeastNumber
<1> QED
  BY <1>1, Zenon DEF Min

\* The block sizes that evbuffer_chain_new() tries.
Doubles(u, m) == u = [k \in 0..m |-> IF k = 0 THEN MinSize ELSE 2 * u[k - 1]]

\* The block sizes of evbuffer_chain_new() exist ...
LEMMA DoublesExist ==
    ASSUME NEW m \in Nat
    PROVE  \E u : Doubles(u, m)
<1> DEFINE F == [i \in 0 + 1..m |-> [v \in Nat |-> 2 * v]]
<1>1. F \in [0 + 1..m -> [Nat -> Nat]] /\ MinSize \in Nat /\ 0 \in Int /\ m \in Int /\ 0 <= m
  BY EvbufferAssumption
<1>2. PICK u \in [0..m -> Nat] : Follows(u, 0, m, MinSize, F)
  <2> HIDE DEF F
  <2> QED
    BY <1>1, Recursion
<1>3. ASSUME NEW i \in 1..m PROVE u[i] = 2 * u[i - 1]
  <2>1. i \in 0 + 1..m /\ i - 1 \in 0..m
    OBVIOUS
  <2>2. u[i] = F[i][u[i - 1]]
    BY <1>2, <2>1, Zenon DEF Follows
  <2> QED
    BY <2>1, <2>2
<1>4. u[0] = MinSize
  BY <1>2 DEF Follows
<1> DEFINE e(k) == IF k = 0 THEN MinSize ELSE 2 * u[k - 1]
<1>5. \A k \in 0..m : u[k] = e(k)
  BY <1>3, <1>4
<1>6. Doubles(u, m) <=> u = [k \in 0..m |-> e(k)]
  BY Zenon DEF Doubles
<1> HIDE DEF e
<1>7. Doubles(u, m)
  BY <1>2, <1>5, <1>6
<1> QED
  BY <1>7

\* ... and grow without bound.
LEMMA DoublesGrow ==
    ASSUME NEW m \in Nat, NEW u, Doubles(u, m)
    PROVE  \A k \in 0..m : u[k] \in Nat /\ u[k] >= MinSize /\ u[k] >= k
<1>0. MinSize \in Nat /\ ChainSize \in Nat /\ MinSize > ChainSize
  BY EvbufferAssumption
<1> DEFINE P == {k \in Int : u[k] \in Nat /\ u[k] >= MinSize /\ u[k] >= k + 1}
<1>1. u[0] = MinSize /\ \A k \in 1..m : u[k] = 2 * u[k - 1]
  BY DEF Doubles
<1>2. 0 \in P
  BY <1>0, <1>1
<1>3. ASSUME NEW i \in 0..m, i < m, i \in P PROVE i + 1 \in P
  <2>1. i + 1 \in 1..m /\ (i + 1) - 1 = i
    BY <1>3
  <2>2. u[i + 1] = 2 * u[i]
    BY <1>1, <2>1
  <2> QED
    BY <1>0, <1>3, <2>2
<1> HIDE DEF P
<1>4. \A i \in 0..m : i \in P
  BY <1>2, <1>3, IntervalInduction
<1> QED
  BY <1>4 DEF P

\* evbuffer_chain_new() finds a block with room for what was asked.
LEMMA BufferLenEnough ==
    ASSUME NEW n \in Nat
    PROVE  BufferLen(n) \in Nat /\ BufferLen(n) >= n /\ BufferLen(n) >= 1
<1> DEFINE m == n + ChainSize
           block == CHOOSE u : u = [k \in 0..n + ChainSize |-> IF k = 0 THEN MinSize ELSE 2 * u[k - 1]]
           u == CHOOSE v : Doubles(v, m)
           T == {s \in {u[k] : k \in 0..m} : s >= m}
<1>0. m \in Nat /\ ChainSize \in Nat /\ MinSize \in Nat /\ MinSize > ChainSize
  BY EvbufferAssumption
<1>1. BufferLen(n) = Min({s \in {block[k] : k \in 0..n + ChainSize} : s >= n + ChainSize}) - ChainSize
  BY Zenon DEF BufferLen
<1>2. block = u
  BY DEF Doubles
<1>3. BufferLen(n) = Min(T) - ChainSize
  BY <1>1, <1>2
<1> HIDE DEF block, m
<1>4. Doubles(u, m)
  BY <1>0, DoublesExist, Zenon
<1> HIDE DEF u
<1>5. \A k \in 0..m : u[k] \in Nat /\ u[k] >= MinSize /\ u[k] >= k
  BY <1>0, <1>4, DoublesGrow
<1>6. T \subseteq Nat /\ u[m] \in T /\ \A s \in T : s >= MinSize /\ s >= m
  BY <1>0, <1>5
<1> HIDE DEF T
<1>7. Min(T) \in T
  BY <1>6, MinProperties
<1>8. Min(T) \in Nat /\ Min(T) >= MinSize /\ Min(T) >= m
  BY <1>6, <1>7
<1> QED
  BY <1>0, <1>3, <1>8 DEF m

\* The chains of the input: memory of its own, of some size, and without a
\* gap once they have no data.
Plain == {c \in Chain : c.imm = FALSE /\ c.len > 0 /\ (Off(c) = 0 => c.mis = 0)}

\* A chain of evbuffer_chain_new(), with data in it.
LEMMA NewChainPlain ==
    ASSUME NEW n \in Nat, NEW d \in Seq(Byte), Len(d) <= n
    PROVE  /\ NewChain(n, d) \in Plain /\ NewChain(n, d).data = d
           /\ NewChain(n, d).mis = 0 /\ NewChain(n, d).len = BufferLen(n)
           /\ NewChain(n, d).len >= n
           /\ Off(NewChain(n, d)) = Len(d)
           /\ Space(NewChain(n, d)) = BufferLen(n) - Len(d)
<1>1. BufferLen(n) \in Nat /\ BufferLen(n) >= n /\ BufferLen(n) >= 1 /\ Len(d) \in Nat
  BY BufferLenEnough, LenProperties
<1>2. NewChain(n, d) = [data |-> d, mis |-> 0, len |-> BufferLen(n), imm |-> FALSE]
  BY DEF NewChain
<1>3. NewChain(n, d) \in Chain
  BY <1>1, <1>2 DEF Chain
<1>4. NewChain(n, d) \in Plain
  BY <1>1, <1>2, <1>3 DEF Plain
<1> QED
  BY <1>1, <1>2, <1>4 DEF Off, Space

-----------------------------------------------------------------------------
(* Buffers, and the end of their list of chains.                             *)

\* A buffer has these fields and no others.
Fields == {"chains", "lwd", "total", "add", "del", "bad"}
IsBuffer(b) == b = [f \in Fields |-> b[f]]

\* The buffer holds s.
Holds(b, s) ==
    /\ IsBuffer(b) /\ b.chains \in Seq(Chain)
    /\ s = Cat(b.chains) /\ b.total = Len(s) /\ b.bad = FALSE

\* What a buffer that holds s is made of.
LEMMA HoldsFields ==
    ASSUME NEW b, NEW s, Holds(b, s)
    PROVE  /\ s \in Seq(Byte) /\ Len(s) \in Nat /\ Len(b.chains) \in Nat
           /\ \A i \in 1..Len(b.chains) :
                 b.chains[i] \in Chain /\ b.chains[i].data \in Seq(Byte)
                 /\ Off(b.chains[i]) \in Nat
<1>1. s \in Seq(Byte)
  BY CatType DEF Holds
<1> QED
  BY <1>1, LenProperties, ElementOfSeq, ChainFields DEF Holds

\* The victim is the first slot from last_with_datap on without data.
LEMMA VictimIs ==
    ASSUME NEW b, NEW n \in Nat, n = Len(b.chains), b.lwd \in 1..n + 1
    PROVE  /\ Victim(b) \in b.lwd..n + 1
           /\ \A i \in b.lwd..Victim(b) - 1 : Off(b.chains[i]) # 0
           /\ Victim(b) <= n => Off(b.chains[Victim(b)]) = 0
<1> DEFINE T == {i \in b.lwd..n + 1 : i = n + 1 \/ Off(b.chains[i]) = 0}
<1>1. Victim(b) = Min(T)
  BY DEF Victim
<1>2. T \subseteq Nat /\ n + 1 \in T
  OBVIOUS
<1>3. Min(T) \in T /\ \A y \in T : Min(T) <= y
  <2> HIDE DEF T
  <2> QED
    BY <1>2, MinProperties
<1> HIDE DEF T
<1>4. Victim(b) \in T /\ \A y \in T : Victim(b) <= y
  BY <1>1, <1>3
<1>5. Victim(b) \in b.lwd..n + 1 /\ (Victim(b) = n + 1 \/ Off(b.chains[Victim(b)]) = 0)
  BY <1>4 DEF T
<1>6. ASSUME NEW i \in b.lwd..Victim(b) - 1 PROVE Off(b.chains[i]) # 0
  <2>1. i \in b.lwd..n + 1 /\ ~(Victim(b) <= i)
    BY <1>5
  <2>2. i \notin T
    BY <1>4, <2>1
  <2> QED
    BY <2>1, <2>2 DEF T
<1> QED
  BY <1>5, <1>6

\* No chain from the k-th on has data.
EmptyFrom(cs, k) == \A i \in k..Len(cs) : Off(cs[i]) = 0

\* A list whose chains from k on are empty can be cut there.
LEMMA CatCutEmpty ==
    ASSUME NEW cs \in Seq(Chain), NEW k \in 1..Len(cs) + 1, EmptyFrom(cs, k)
    PROVE  First(cs, k - 1) \in Seq(Chain) /\ Cat(First(cs, k - 1)) = Cat(cs)
<1>0. Len(cs) \in Nat
  BY LenProperties
<1>1. k - 1 \in 0..Len(cs)
  BY <1>0
<1> DEFINE a == First(cs, k - 1)
           z == Rest(cs, k - 1)
<1>2. a \in Seq(Chain) /\ z \in Seq(Chain) /\ Len(z) = Len(cs) - (k - 1)
      /\ \A i \in 1..Len(cs) - (k - 1) : z[i] = cs[(k - 1) + i]
  BY <1>1, FirstProperties, RestProperties
<1>3. Cat(a) \in Seq(Byte) /\ Cat(cs) = Cat(a) \o Cat(z)
  BY <1>1, CatCut
<1> HIDE DEF a, z
<1>4. NoData(z)
  <2> SUFFICES ASSUME NEW i \in 1..Len(z) PROVE Off(z[i]) = 0
    BY DEF NoData
  <2>1. z[i] = cs[(k - 1) + i] /\ (k - 1) + i \in k..Len(cs)
    BY <1>0, <1>2
  <2> QED
    BY <2>1 DEF EmptyFrom
<1>5. Cat(z) = <<>>
  BY <1>2, <1>4, CatNoData
<1>6. Cat(a) \o <<>> = Cat(a)
  BY <1>3, ConcatEmptySeq
<1> QED
  BY <1>2, <1>3, <1>5, <1>6, Zenon DEF a

\* evbuffer_free_trailing_empty_chains() frees no data.
LEMMA TrimmedHolds ==
    ASSUME NEW b, NEW s, Holds(b, s), b.lwd \in 1..Len(b.chains) + 1,
           EmptyFrom(b.chains, Victim(b))
    PROVE  /\ Holds(Trimmed(b), s)
           /\ Trimmed(b).chains = First(b.chains, Victim(b) - 1)
           /\ Trimmed(b).lwd = b.lwd /\ Trimmed(b).add = b.add /\ Trimmed(b).del = b.del
<1>0. Len(b.chains) \in Nat
  BY HoldsFields
<1>1. Victim(b) \in 1..Len(b.chains) + 1
  BY <1>0, VictimIs
<1>2. /\ First(b.chains, Victim(b) - 1) \in Seq(Chain)
      /\ Cat(First(b.chains, Victim(b) - 1)) = Cat(b.chains)
  BY <1>1, CatCutEmpty DEF Holds
<1> DEFINE cs == First(b.chains, Victim(b) - 1)
           bad == b.bad \/ \E i \in Victim(b)..Len(b.chains) : Off(b.chains[i]) # 0
<1>3. Trimmed(b) = [b EXCEPT !.chains = cs, !.bad = bad]
  BY DEF Trimmed
<1>4. bad = FALSE
  BY DEF EmptyFrom, Holds
<1>5. Trimmed(b) = [b EXCEPT !.chains = cs, !.bad = FALSE]
  BY <1>3, <1>4
<1> HIDE DEF cs, bad
<1> QED
  BY <1>2, <1>5 DEF Holds, IsBuffer, Fields, cs

\* evbuffer_chain_insert() adds the data of the new chain.
LEMMA ChainInsertHolds ==
    ASSUME NEW b, NEW s, Holds(b, s), b.lwd \in 1..Len(b.chains) + 1,
           EmptyFrom(b.chains, Victim(b)), b.lwd > Len(b.chains) => Len(b.chains) = 0,
           NEW c \in Chain
    PROVE  LET e == ChainInsert(b, c) IN
           /\ Holds(e, s \o c.data)
           /\ e.chains = Append(First(b.chains, Victim(b) - 1), c)
           /\ e.lwd = IF Victim(b) = Len(b.chains) + 1 /\ Off(c) # 0
                      THEN Len(b.chains) + 1 ELSE b.lwd
           /\ e.add = b.add /\ e.del = b.del
<1> DEFINE t == Trimmed(b)
           n == Len(b.chains)
           cs == Append(t.chains, c)
           lwd == IF Victim(b) = n + 1 /\ Off(c) # 0 THEN n + 1 ELSE t.lwd
           bad == t.bad \/ (b.lwd > n /\ n # 0)
           total == t.total + Off(c)
           e == ChainInsert(b, c)
<1>1. e = [t EXCEPT !.chains = cs, !.lwd = lwd, !.bad = bad, !.total = total]
  BY DEF ChainInsert
<1>2. /\ Holds(t, s) /\ t.chains = First(b.chains, Victim(b) - 1)
      /\ t.lwd = b.lwd /\ t.add = b.add /\ t.del = b.del
  BY TrimmedHolds
<1>3. bad = FALSE
  BY <1>2 DEF Holds
<1>4. cs \in Seq(Chain) /\ Cat(cs) = s \o c.data
  <2> HIDE DEF t
  <2>1. t.chains \in Seq(Chain) /\ Cat(t.chains) = s
    BY <1>2 DEF Holds
  <2> QED
    BY <2>1, CatAppend, AppendProperties
<1>5. s \in Seq(Byte) /\ c.data \in Seq(Byte)
  BY HoldsFields, ChainFields
<1>6. total = Len(s \o c.data)
  <2>1. Len(s \o c.data) = Len(s) + Len(c.data)
    BY <1>5, ConcatProperties
  <2> QED
    BY <2>1, <1>2 DEF Holds, Off
<1> HIDE DEF t, cs, lwd, bad, total, e
<1>7. /\ e.chains = cs /\ e.lwd = lwd /\ e.bad = FALSE /\ e.total = total
      /\ e.add = t.add /\ e.del = t.del /\ IsBuffer(e)
  BY <1>1, <1>2, <1>3 DEF Holds, IsBuffer, Fields
<1>8. Holds(e, s \o c.data)
  BY <1>4, <1>6, <1>7, Zenon DEF Holds
<1> QED
  BY <1>2, <1>7, <1>8, Zenon DEF e, cs, lwd, n

\* The first k elements, one by one.
LEMMA FirstAppend ==
    ASSUME NEW S, NEW cs \in Seq(S), NEW k \in 1..Len(cs)
    PROVE  First(cs, k) = Append(First(cs, k - 1), cs[k])
<1>1. Len(cs) \in Nat
  BY LenProperties
<1>2. k \in 0..Len(cs) /\ k - 1 \in 0..Len(cs) /\ cs[k] \in S
  BY <1>1, ElementOfSeq
<1>3. First(cs, k) \in Seq(S) /\ Len(First(cs, k)) = k
      /\ \A i \in 1..k : First(cs, k)[i] = cs[i]
  BY <1>2, FirstProperties
<1>4. First(cs, k - 1) \in Seq(S) /\ Len(First(cs, k - 1)) = k - 1
      /\ \A i \in 1..k - 1 : First(cs, k - 1)[i] = cs[i]
  BY <1>2, FirstProperties
<1> DEFINE t == Append(First(cs, k - 1), cs[k])
           u == First(cs, k - 1)
<1>5. /\ t \in Seq(S) /\ Len(t) = Len(u) + 1
      /\ \A i \in 1..Len(u) : t[i] = u[i]
      /\ t[Len(u) + 1] = cs[k]
  BY <1>2, <1>4, AppendProperties
<1> HIDE DEF t, u
<1>6. Len(u) = k - 1 /\ \A i \in 1..k - 1 : u[i] = cs[i]
  BY <1>4 DEF u
<1>7. Len(t) = k /\ \A i \in 1..k : t[i] = cs[i]
  <2>1. Len(t) = k
    BY <1>5, <1>6
  <2>2. ASSUME NEW i \in 1..k PROVE t[i] = cs[i]
    <3>1. CASE i = k
      BY <1>5, <1>6, <3>1
    <3>2. CASE i # k
      BY <1>5, <1>6, <3>2
    <3> QED
      BY <3>1, <3>2
  <2> QED
    BY <2>1, <2>2
<1>8. First(cs, k) = t
  BY <1>3, <1>5, <1>7, SeqEqual
<1> QED
  BY <1>8 DEF t

\* The data of the first k chains, one by one.
LEMMA CatLast ==
    ASSUME NEW cs \in Seq(Chain), NEW k \in 1..Len(cs)
    PROVE  /\ Cat(First(cs, k)) = Cat(First(cs, k - 1)) \o cs[k].data
           /\ Cat(First(cs, k - 1)) \in Seq(Byte) /\ cs[k].data \in Seq(Byte)
<1>1. k - 1 \in 0..Len(cs) /\ cs[k] \in Chain
  BY LenProperties, ElementOfSeq
<1>2. First(cs, k - 1) \in Seq(Chain)
  BY <1>1, FirstProperties
<1>3. Cat(Append(First(cs, k - 1), cs[k])) = Cat(First(cs, k - 1)) \o cs[k].data
  BY <1>1, <1>2, CatAppend
<1>4. First(cs, k) = Append(First(cs, k - 1), cs[k])
  BY FirstAppend
<1>5. Cat(First(cs, k - 1)) \in Seq(Byte) /\ cs[k].data \in Seq(Byte)
  BY <1>1, <1>2, CatType, ChainFields
<1> QED
  BY <1>3, <1>4, <1>5, Zenon

\* Two lists that agree up to k.
LEMMA FirstAgree ==
    ASSUME NEW S, NEW cs \in Seq(S), NEW ds \in Seq(S), NEW k \in Nat,
           k <= Len(cs), k <= Len(ds), \A i \in 1..k : cs[i] = ds[i]
    PROVE  First(cs, k) = First(ds, k)
<1>1. k \in 0..Len(cs) /\ k \in 0..Len(ds)
  BY LenProperties
<1>2. First(cs, k) \in Seq(S) /\ Len(First(cs, k)) = k
      /\ \A i \in 1..k : First(cs, k)[i] = cs[i]
  BY <1>1, FirstProperties
<1>3. First(ds, k) \in Seq(S) /\ Len(First(ds, k)) = k
      /\ \A i \in 1..k : First(ds, k)[i] = ds[i]
  BY <1>1, FirstProperties
<1> QED
  BY <1>2, <1>3, SeqEqual

\* Data is added to the last chain that has any, or to one of the empty ones
\* right behind it.
LEMMA CatPut ==
    ASSUME NEW cs \in Seq(Chain), NEW k \in 1..Len(cs), EmptyFrom(cs, k + 1),
           NEW c \in Chain, NEW d \in Seq(Byte), c.data = cs[k].data \o d
    PROVE  /\ [cs EXCEPT ![k] = c] \in Seq(Chain)
           /\ Len([cs EXCEPT ![k] = c]) = Len(cs)
           /\ Cat([cs EXCEPT ![k] = c]) = Cat(cs) \o d
<1> DEFINE ds == [cs EXCEPT ![k] = c]
<1>0. Len(cs) \in Nat
  BY LenProperties
<1>1. /\ ds \in Seq(Chain) /\ Len(ds) = Len(cs)
      /\ \A j \in 1..Len(cs) : ds[j] = IF j = k THEN c ELSE cs[j]
  BY ExceptSeq
<1> HIDE DEF ds
<1>2. ds[k] = c /\ \A j \in 1..Len(cs) : j # k => ds[j] = cs[j]
  BY <1>1
<1>3. EmptyFrom(ds, k + 1)
  BY <1>0, <1>1, <1>2 DEF EmptyFrom
<1>4. k + 1 \in 1..Len(cs) + 1 /\ (k + 1) - 1 = k /\ k \in 1..Len(ds)
  BY <1>0, <1>1
<1>5. Cat(First(ds, k)) = Cat(ds)
  BY <1>1, <1>3, <1>4, CatCutEmpty
<1>6. Cat(First(cs, k)) = Cat(cs)
  BY <1>4, CatCutEmpty
<1>7. First(ds, k - 1) = First(cs, k - 1)
  <2>1. k - 1 \in Nat /\ k - 1 <= Len(cs) /\ k - 1 <= Len(ds)
        /\ \A i \in 1..k - 1 : ds[i] = cs[i]
    BY <1>0, <1>1, <1>2
  <2> DEFINE m == k - 1
  <2> HIDE DEF m
  <2>2. First(ds, m) = First(cs, m)
    BY <1>1, <2>1, FirstAgree DEF m
  <2> QED
    BY <2>2 DEF m
<1> DEFINE a == Cat(First(cs, k - 1))
           x == cs[k].data
<1>8. a \in Seq(Byte) /\ x \in Seq(Byte) /\ Cat(First(cs, k)) = a \o x
  BY CatLast
<1>9. Cat(First(ds, k)) = a \o c.data
  <2>1. Cat(First(ds, k)) = Cat(First(ds, k - 1)) \o ds[k].data
    BY <1>1, <1>4, CatLast
  <2> QED
    BY <1>2, <1>7, <2>1, Zenon
<1> HIDE DEF a, x
<1>10. a \o (x \o d) = (a \o x) \o d
  <2>1. a \in Seq(Byte) /\ x \in Seq(Byte)
    BY <1>8
  <2>2. (a \o x) \o d = a \o (x \o d)
    BY <2>1, ConcatAssociative
  <2> QED
    BY <2>2
<1>11. c.data = x \o d
  BY DEF x
<1>12. Cat(ds) = Cat(cs) \o d
  BY <1>5, <1>6, <1>8, <1>9, <1>10, <1>11, Zenon
<1> QED
  BY <1>1, <1>12 DEF ds

\* A chain that takes d more.
LEMMA Fuller ==
    ASSUME NEW c \in Chain, NEW d \in Seq(Byte), c.mis + Off(c) + Len(d) <= c.len
    PROVE  LET e == [c EXCEPT !.data = @ \o d] IN
           /\ e \in Chain /\ e.data = c.data \o d /\ Off(e) = Off(c) + Len(d)
           /\ e.mis = c.mis /\ e.len = c.len /\ e.imm = c.imm
<1> DEFINE x == c.data \o d
           e == [c EXCEPT !.data = x]
<1>1. x \in Seq(Byte) /\ Len(x) = Len(c.data) + Len(d)
  BY ChainFields, ConcatProperties
<1>2. c \in [data : Seq(Byte), mis : Nat, len : Nat, imm : BOOLEAN]
  BY DEF Chain
<1> HIDE DEF x
<1>3. /\ e.data = x /\ e.mis = c.mis /\ e.len = c.len /\ e.imm = c.imm
      /\ e \in [data : Seq(Byte), mis : Nat, len : Nat, imm : BOOLEAN]
  BY <1>1, <1>2
<1>4. Off(e) = Off(c) + Len(d)
  BY <1>1, <1>3 DEF Off
<1> HIDE DEF e
<1>5. e \in Chain
  BY <1>1, <1>3 DEF Chain, Off
<1> QED
  BY <1>3, <1>4, <1>5, Zenon DEF e, x

-----------------------------------------------------------------------------
(* Adding to the output.                                                     *)

\* The output's last_with_datap: evbuffer_add() may leave it one chain behind.
OutShape(b) ==
    \/ b.chains = <<>> /\ b.lwd = 1
    \/ /\ b.lwd \in 1..Len(b.chains)
       /\ Off(b.chains[b.lwd]) # 0
       /\ \A i \in b.lwd + 1..Len(b.chains) :
             Off(b.chains[i]) # 0 => i = Len(b.chains) /\ i = b.lwd + 1

\* A chain can be inserted into the output: what lies behind the victim is empty.
LEMMA OutShapeInsertable ==
    ASSUME NEW b, NEW s, Holds(b, s), OutShape(b)
    PROVE  /\ b.lwd \in 1..Len(b.chains) + 1
           /\ b.lwd > Len(b.chains) => Len(b.chains) = 0
           /\ EmptyFrom(b.chains, Victim(b))
           /\ b.lwd <= Len(b.chains) => Victim(b) > b.lwd
<1>0. Len(b.chains) \in Nat
  BY HoldsFields
<1>1. CASE b.chains = <<>> /\ b.lwd = 1
  <2>1. Len(b.chains) = 0
    BY <1>1
  <2>2. Victim(b) \in 1..1
    BY <1>1, <2>1, VictimIs
  <2> QED
    BY <1>1, <2>1, <2>2 DEF EmptyFrom
<1>2. CASE ~(b.chains = <<>> /\ b.lwd = 1)
  <2> DEFINE n == Len(b.chains)
             v == Victim(b)
  <2>1. b.lwd \in 1..n /\ Off(b.chains[b.lwd]) # 0
        /\ \A i \in b.lwd + 1..n : Off(b.chains[i]) # 0 => i = n /\ i = b.lwd + 1
    BY <1>2 DEF OutShape
  <2>2. v \in b.lwd..n + 1 /\ (v <= n => Off(b.chains[v]) = 0)
    BY <1>0, <2>1, VictimIs
  <2> HIDE DEF v
  <2>3. v > b.lwd
    BY <1>0, <2>1, <2>2
  <2>4. ASSUME NEW i \in v..n PROVE Off(b.chains[i]) = 0
    BY <1>0, <2>1, <2>2, <2>3
  <2> QED
    BY <1>0, <2>1, <2>3, <2>4 DEF EmptyFrom, v
<1> QED
  BY <1>1, <1>2

\* evbuffer_chain_insert() of a chain with data, on the output.
LEMMA InsertKeepsShape ==
    ASSUME NEW b, NEW s, Holds(b, s), OutShape(b), NEW c \in Chain, Off(c) # 0
    PROVE  LET e == ChainInsert(b, c) IN
           /\ Holds(e, s \o c.data) /\ OutShape(e)
           /\ e.add = b.add /\ e.del = b.del
<1> DEFINE e == ChainInsert(b, c)
           n == Len(b.chains)
           v == Victim(b)
           a == First(b.chains, v - 1)
<1>0. n \in Nat /\ b.chains \in Seq(Chain)
  BY HoldsFields DEF Holds
<1>1. /\ b.lwd \in 1..n + 1 /\ (b.lwd > n => n = 0)
      /\ EmptyFrom(b.chains, v) /\ (b.lwd <= n => v > b.lwd)
  BY OutShapeInsertable
<1>2. /\ Holds(e, s \o c.data)
      /\ e.chains = Append(a, c)
      /\ e.lwd = IF v = n + 1 /\ Off(c) # 0 THEN n + 1 ELSE b.lwd
      /\ e.add = b.add /\ e.del = b.del
  BY <1>1, ChainInsertHolds
<1>3. v \in b.lwd..n + 1
  BY <1>0, <1>1, VictimIs
<1>4. v - 1 \in 0..n
  BY <1>0, <1>1, <1>3
<1>5. a \in Seq(Chain) /\ Len(a) = v - 1 /\ \A i \in 1..v - 1 : a[i] = b.chains[i]
  BY <1>0, <1>4, FirstProperties
<1>6. /\ Len(e.chains) = v
      /\ \A i \in 1..v - 1 : e.chains[i] = b.chains[i]
      /\ e.chains[v] = c
  <2> HIDE DEF a
  <2>1. /\ Len(Append(a, c)) = Len(a) + 1
        /\ \A i \in 1..Len(a) : Append(a, c)[i] = a[i]
        /\ Append(a, c)[Len(a) + 1] = c
    BY <1>5, AppendProperties
  <2>2. Len(a) + 1 = v /\ Len(a) = v - 1
    BY <1>0, <1>1, <1>3, <1>5
  <2>3. e.chains = Append(a, c)
    BY <1>2
  <2> HIDE DEF e, v
  <2>4. Len(e.chains) = v /\ e.chains[v] = c
    BY <2>1, <2>2, <2>3, Zenon
  <2>5. ASSUME NEW i \in 1..v - 1 PROVE e.chains[i] = b.chains[i]
    BY <1>5, <2>1, <2>2, <2>3, Zenon
  <2> QED
    BY <2>4, <2>5
<1> HIDE DEF e, v, a
<1>7. OutShape(e)
  <2>1. CASE v = n + 1
    BY <2>1, <1>0, <1>2, <1>6 DEF OutShape
  <2>2. CASE v # n + 1
    <3>1. e.lwd = b.lwd /\ b.lwd <= n /\ v > b.lwd /\ b.lwd \in 1..v - 1
      BY <2>2, <1>0, <1>1, <1>2, <1>3
    <3>2. b.chains # <<>>
      BY <3>1, <1>1
    <3>3. Off(b.chains[b.lwd]) # 0
          /\ \A i \in b.lwd + 1..n : Off(b.chains[i]) # 0 => i = n /\ i = b.lwd + 1
      BY <3>2 DEF OutShape
    <3>4. Off(e.chains[e.lwd]) # 0
      BY <1>6, <3>1, <3>3
    <3>5. ASSUME NEW i \in e.lwd + 1..v, Off(e.chains[i]) # 0 PROVE i = v /\ i = e.lwd + 1
      <4>1. CASE i = v
        <5>1. v = b.lwd + 1
          <6>1. ASSUME v - 1 > b.lwd PROVE FALSE
            <7>1. v - 1 \in b.lwd + 1..n /\ v - 1 # n
              BY <6>1, <2>2, <1>0, <1>1, <1>3
            <7>2. Off(b.chains[v - 1]) # 0
              <8>1. v - 1 \in b.lwd..v - 1
                BY <6>1, <1>0, <1>1, <1>3
              <8> QED
                BY <8>1, <1>0, <1>1, VictimIs DEF v
            <7> QED
              BY <3>3, <7>1, <7>2
          <6> QED
            BY <6>1, <1>0, <1>1, <1>3, <3>1
        <5> QED
          BY <4>1, <5>1, <3>1
      <4>2. CASE i # v
        <5>1. i \in 1..v - 1 /\ i \in b.lwd + 1..n /\ i # n
          BY <4>2, <2>2, <3>1, <1>0, <1>1, <1>3
        <5> QED
          BY <5>1, <3>3, <3>5, <1>6
      <4> QED
        BY <4>1, <4>2
    <3> QED
      BY <1>0, <1>1, <1>3, <1>6, <3>1, <3>4, <3>5 DEF OutShape
  <2> QED
    BY <2>1, <2>2
<1> QED
  BY <1>2, <1>7 DEF e

\* evbuffer_add_reference()
LEMMA AddReferenceKeeps ==
    ASSUME NEW b, NEW s, Holds(b, s), OutShape(b), b.add = 0,
           NEW d \in Seq(Byte), Len(d) > 0
    PROVE  LET e == EvbufferAddReference(b, d) IN
           Holds(e, s \o d) /\ OutShape(e) /\ e.add = Len(d)
<1> DEFINE c == [data |-> d, mis |-> 0, len |-> Len(d), imm |-> TRUE]
           x == ChainInsert(b, c)
           e == EvbufferAddReference(b, d)
<1>0. Len(d) \in Nat
  BY LenProperties
<1>1. c \in Chain /\ Off(c) = Len(d) /\ c.data = d
  BY <1>0 DEF Chain, Off
<1> HIDE DEF c
<1>2. Holds(x, s \o d) /\ OutShape(x) /\ x.add = 0
  <2>1. Holds(x, s \o c.data) /\ OutShape(x) /\ x.add = b.add
    BY <1>0, <1>1, InsertKeepsShape
  <2> QED
    BY <2>1, <1>1, Zenon
<1>3. e = [x EXCEPT !.add = @ + Len(d)]
  BY DEF EvbufferAddReference, c
<1> DEFINE m == x.add + Len(d)
<1>a. m = Len(d)
  BY <1>0, <1>2
<1> HIDE DEF x, e
<1>b. e = [x EXCEPT !.add = m] /\ IsBuffer(x)
  BY <1>2, <1>3 DEF Holds
<1> HIDE DEF m
<1>4. /\ e.chains = x.chains /\ e.lwd = x.lwd /\ e.total = x.total /\ e.bad = x.bad
      /\ e.add = m /\ IsBuffer(e)
  BY <1>b DEF IsBuffer, Fields
<1>5. Holds(e, s \o d) /\ OutShape(e)
  BY <1>2, <1>4, Zenon DEF Holds, OutShape
<1> QED
  BY <1>a, <1>4, <1>5 DEF e

\* Data goes into the last chain.
LEMMA InLastKeeps ==
    ASSUME NEW b, NEW s, Holds(b, s), Len(b.chains) > 0,
           b.lwd \in 1..Len(b.chains), Len(b.chains) <= b.lwd + 1,
           NEW c \in Chain, c.data = b.chains[Len(b.chains)].data,
           NEW d \in Seq(Byte), c.mis + Off(c) + Len(d) <= c.len,
           OutShape(b) \/ (b.lwd = Len(b.chains) /\ Len(d) > 0), b.add \in Nat
    PROVE  LET e == InLast(b, c, d) IN
           /\ Holds(e, s \o d) /\ OutShape(e)
           /\ e.add = b.add + Len(d) /\ e.del = b.del
           /\ Len(e.chains) = Len(b.chains) /\ e.lwd = b.lwd
<1> DEFINE k == Len(b.chains)
           f == [c EXCEPT !.data = @ \o d]
           cs == [b.chains EXCEPT ![k] = f]
           t == b.total + Len(d)
           a == b.add + Len(d)
           e == InLast(b, c, d)
<1>z. /\ b.chains \in Seq(Chain) /\ s \in Seq(Byte) /\ k \in Nat /\ Len(s) \in Nat
      /\ s = Cat(b.chains) /\ b.total = Len(s)
  BY HoldsFields DEF Holds
<1>0. /\ k \in Nat /\ k \in 1..k /\ b.chains \in Seq(Chain) /\ s \in Seq(Byte) /\ Len(d) \in Nat
      /\ s = Cat(b.chains) /\ b.total = Len(s)
  BY <1>z, LenProperties
<1>1. f \in Chain /\ f.data = b.chains[k].data \o d /\ Off(f) = Off(c) + Len(d)
  BY Fuller
<1>a. Off(c) = Off(b.chains[k]) /\ Off(c) \in Nat
  BY ChainFields DEF Off
<1> HIDE DEF f
<1>2. EmptyFrom(b.chains, k + 1)
  BY <1>0 DEF EmptyFrom
<1>3. cs \in Seq(Chain) /\ Len(cs) = k /\ Cat(cs) = s \o d
  BY <1>0, <1>1, <1>2, CatPut
<1>4. /\ cs[k] = f
      /\ \A i \in 1..k - 1 : cs[i] = b.chains[i]
  BY <1>0
<1>5. e = [b EXCEPT !.chains = cs, !.total = t, !.add = a] /\ IsBuffer(b) /\ b.bad = FALSE
  BY DEF InLast, Holds, f, WithData
<1>6. t = Len(s \o d)
  BY <1>0, ConcatProperties
<1> HIDE DEF cs, t, a, e
<1>7. /\ e.chains = cs /\ e.lwd = b.lwd /\ e.total = t /\ e.bad = b.bad
      /\ e.add = a /\ e.del = b.del /\ IsBuffer(e)
  BY <1>5 DEF IsBuffer, Fields
<1>8. Holds(e, s \o d)
  BY <1>3, <1>5, <1>6, <1>7, Zenon DEF Holds
<1>9. Off(cs[b.lwd]) # 0
  <2>1. CASE b.lwd = k
    <3>1. cs[b.lwd] = f
      BY <1>4, <2>1
    <3>2. Off(b.chains[k]) # 0 \/ Len(d) > 0
      BY <2>1 DEF OutShape
    <3> QED
      BY <1>0, <1>1, <1>a, <3>1, <3>2
  <2>2. CASE b.lwd # k
    <3>1. cs[b.lwd] = b.chains[b.lwd]
      BY <1>0, <1>4, <2>2
    <3> QED
      BY <3>1, <2>2 DEF OutShape
  <2> QED
    BY <2>1, <2>2
<1>10. OutShape(e)
  <2>1. ASSUME NEW i \in b.lwd + 1..k PROVE i = k /\ i = b.lwd + 1
    BY <1>0
  <2>2. e.chains = cs /\ e.lwd = b.lwd /\ Len(cs) = k
    BY <1>3, <1>7
  <2> QED
    BY <1>9, <2>1, <2>2, Zenon DEF OutShape
<1> QED
  BY <1>3, <1>7, <1>8, <1>10 DEF e, a

\* What evbuffer_add() allocates has room for the rest.
LEMMA FirstRest ==
    ASSUME NEW d \in Seq(Byte), NEW k \in Nat, k <= Len(d)
    PROVE  /\ First(d, k) \in Seq(Byte) /\ Len(First(d, k)) = k
           /\ Rest(d, k) \in Seq(Byte) /\ Len(Rest(d, k)) = Len(d) - k
           /\ First(d, k) \o Rest(d, k) = d
<1>1. Len(d) \in Nat /\ k \in 0..Len(d)
  BY LenProperties
<1> QED
  BY <1>1, FirstProperties, RestProperties, FirstAndRest

\* Joining three pieces of data.
LEMMA Associative ==
    \A x, y, z \in Seq(Byte) : (x \o y) \o z = x \o (y \o z)
<1> TAKE x, y, z \in Seq(Byte)
<1>1. x \in Seq(Byte) /\ y \in Seq(Byte) /\ z \in Seq(Byte)
  OBVIOUS
<1> QED
  BY <1>1, ConcatAssociative

\* evbuffer_add() to a buffer that has a chain.
AddedTo(b, d) ==
    LET c == b.chains[Len(b.chains)]
        remain == Space(c)
        doubled == IF c.len <= MaxAuto \div 2 THEN 2 * c.len ELSE c.len
        toAlloc == IF Len(d) > doubled THEN Len(d) ELSE doubled
    IN IF ~c.imm /\ remain >= Len(d)
         THEN InLast(b, c, d)
       ELSE IF ~c.imm /\ ShouldRealign(c, Len(d))
         THEN InLast(b, [c EXCEPT !.mis = 0], d)
       ELSE [ChainInsert(InLast(b, c, First(d, remain)),
                         NewChain(toAlloc, Rest(d, remain)))
               EXCEPT !.add = @ + Len(d) - remain]

\* CHAIN_SPACE_LEN()
LEMMA SpaceIs ==
    ASSUME NEW c \in Chain
    PROVE  /\ Space(c) \in Nat
           /\ ~c.imm => c.mis + Off(c) + Space(c) = c.len
           /\ c.imm => Space(c) = 0
           /\ c.mis + Off(c) + Space(c) <= c.len
  BY ChainFields DEF Space

\* evbuffer_chain_align()
LEMMA Realigned ==
    ASSUME NEW c \in Chain
    PROVE  LET e == [c EXCEPT !.mis = 0] IN
           /\ e \in Chain /\ e.data = c.data /\ e.mis = 0 /\ e.len = c.len /\ e.imm = c.imm
           /\ Off(e) = Off(c)
<1> DEFINE e == [c EXCEPT !.mis = 0]
<1>0. c.mis \in Nat /\ c.len \in Nat /\ Off(c) \in Nat /\ c.mis + Off(c) <= c.len /\ Off(c) = Len(c.data)
  BY ChainFields DEF Off
<1>1. c \in [data : Seq(Byte), mis : Nat, len : Nat, imm : BOOLEAN]
  BY DEF Chain
<1>2. /\ e \in [data : Seq(Byte), mis : Nat, len : Nat, imm : BOOLEAN]
      /\ e.data = c.data /\ e.mis = 0 /\ e.len = c.len /\ e.imm = c.imm
  BY <1>1
<1>3. e.mis + Len(e.data) <= e.len
  BY <1>0, <1>2
<1> HIDE DEF e
<1> QED
  BY <1>2, <1>3 DEF Chain, Off, e

\* evbuffer_add() to a buffer that has chains.
LEMMA AddedToKeeps ==
    ASSUME NEW b, NEW s, Holds(b, s), Len(b.chains) > 0, b.add \in Nat,
           b.lwd \in 1..Len(b.chains), Len(b.chains) <= b.lwd + 1,
           NEW d \in Seq(Byte),
           OutShape(b) \/ (/\ b.lwd = Len(b.chains) /\ Len(d) > 0
                           /\ ~b.chains[Len(b.chains)].imm
                           /\ Space(b.chains[Len(b.chains)]) >= Len(d)),
           Len(d) > 0 \/ ~b.chains[Len(b.chains)].imm
    PROVE  LET e == AddedTo(b, d) IN
           /\ Holds(e, s \o d) /\ OutShape(e)
           /\ e.add = b.add + Len(d) /\ e.del = b.del
<1> DEFINE c == b.chains[Len(b.chains)]
           remain == Space(c)
           doubled == IF c.len <= MaxAuto \div 2 THEN 2 * c.len ELSE c.len
           toAlloc == IF Len(d) > doubled THEN Len(d) ELSE doubled
           e == AddedTo(b, d)
<1>0. c \in Chain /\ Len(d) \in Nat /\ s \in Seq(Byte) /\ Len(b.chains) \in Nat
  <2>1. Len(b.chains) \in Nat /\ \A i \in 1..Len(b.chains) : b.chains[i] \in Chain
    BY HoldsFields
  <2>2. Len(b.chains) \in 1..Len(b.chains)
    BY <2>1
  <2> QED
    BY <2>1, <2>2, HoldsFields, LenProperties
<1>1. CASE ~c.imm /\ remain >= Len(d)
  <2>1. e = InLast(b, c, d)
    BY <1>1 DEF AddedTo
  <2>2. c.mis + Off(c) + Len(d) <= c.len
    BY <1>0, <1>1, SpaceIs, ChainFields
  <2>3. OutShape(b) \/ (b.lwd = Len(b.chains) /\ Len(d) > 0)
    OBVIOUS
  <2> HIDE DEF e
  <2>4. /\ Holds(e, s \o d) /\ OutShape(e)
        /\ e.add = b.add + Len(d) /\ e.del = b.del
    BY <1>0, <2>1, <2>2, <2>3, InLastKeeps
  <2> QED
    BY <2>4 DEF e
<1>2. CASE ~(~c.imm /\ remain >= Len(d)) /\ ~c.imm /\ ShouldRealign(c, Len(d))
  <2> DEFINE r == [c EXCEPT !.mis = 0]
  <2>1. e = InLast(b, r, d)
    BY <1>2 DEF AddedTo
  <2>2. r \in Chain /\ r.data = c.data /\ r.mis = 0 /\ r.len = c.len /\ Off(r) = Off(c)
    BY <1>0, Realigned
  <2> HIDE DEF r
  <2>3. r.mis + Off(r) + Len(d) <= r.len
    BY <1>0, <1>2, <2>2, ChainFields DEF ShouldRealign
  <2>4. OutShape(b)
    BY <1>2
  <2> HIDE DEF e
  <2>5. /\ Holds(e, s \o d) /\ OutShape(e)
        /\ e.add = b.add + Len(d) /\ e.del = b.del
    BY <1>0, <2>1, <2>2, <2>3, <2>4, InLastKeeps
  <2> QED
    BY <2>5 DEF e
<1>3. CASE ~(~c.imm /\ remain >= Len(d)) /\ ~(~c.imm /\ ShouldRealign(c, Len(d)))
  <2> DEFINE d1 == First(d, remain)
             d2 == Rest(d, remain)
             x == InLast(b, c, d1)
             nc == NewChain(toAlloc, d2)
             y == ChainInsert(x, nc)
             a == y.add + Len(d) - remain
  <2>1. remain \in Nat /\ remain < Len(d) /\ OutShape(b)
    BY <1>0, <1>3, SpaceIs
  <2>2. /\ d1 \in Seq(Byte) /\ Len(d1) = remain
        /\ d2 \in Seq(Byte) /\ Len(d2) = Len(d) - remain
        /\ d1 \o d2 = d
    <3>1. remain \in Nat /\ remain <= Len(d)
      BY <1>0, <2>1
    <3> HIDE DEF remain
    <3> QED
      BY <3>1, FirstRest
  <2>3. e = [y EXCEPT !.add = a]
    BY <1>3 DEF AddedTo
  <2>4. c.mis + Off(c) + Len(d1) <= c.len
    BY <1>0, <2>2, SpaceIs
  <2> HIDE DEF d1, d2
  <2>5. Holds(x, s \o d1) /\ OutShape(x) /\ x.add = b.add + Len(d1) /\ x.del = b.del
    BY <1>0, <2>1, <2>2, <2>4, InLastKeeps
  <2>6. toAlloc \in Nat /\ toAlloc >= Len(d2)
    <3>1. c.len \in Nat
      BY <1>0, ChainFields
    <3>2. doubled = 2 * c.len \/ doubled = c.len
      OBVIOUS
    <3>3. doubled \in Nat
      BY <3>1, <3>2
    <3> HIDE DEF doubled, remain
    <3> QED
      BY <3>3, <1>0, <2>1, <2>2
  <2> HIDE DEF toAlloc
  <2>7. nc \in Chain /\ nc.data = d2 /\ Off(nc) = Len(d2) /\ Len(d2) > 0
    <3>1. Len(d2) <= toAlloc /\ Len(d2) > 0 /\ d2 \in Seq(Byte)
      BY <1>0, <2>1, <2>2, <2>6
    <3> QED
      BY <2>6, <3>1, NewChainPlain DEF Plain
  <2> HIDE DEF nc, x
  <2>8. Holds(y, (s \o d1) \o d2) /\ OutShape(y) /\ y.add = x.add /\ y.del = x.del
    BY <1>0, <2>1, <2>2, <2>5, <2>7, InsertKeepsShape
  <2>9. (s \o d1) \o d2 = s \o d
    <3>1. s \in Seq(Byte) /\ d1 \in Seq(Byte) /\ d2 \in Seq(Byte)
      BY <1>0, <2>2
    <3>2. (s \o d1) \o d2 = s \o (d1 \o d2)
      BY <3>1, Associative
    <3> QED
      BY <2>2, <3>2, Zenon
  <2>10. a = b.add + Len(d)
    BY <1>0, <2>1, <2>2, <2>5, <2>8
  <2> HIDE DEF a, y, e
  <2>11. IsBuffer(y)
    BY <2>8 DEF Holds
  <2>12. /\ e.chains = y.chains /\ e.lwd = y.lwd /\ e.total = y.total /\ e.bad = y.bad
         /\ e.add = a /\ e.del = y.del /\ IsBuffer(e)
    BY <2>3, <2>11 DEF IsBuffer, Fields
  <2>13. Holds(e, s \o d) /\ OutShape(e)
    BY <2>8, <2>9, <2>12, Zenon DEF Holds, OutShape
  <2> QED
    BY <2>5, <2>8, <2>10, <2>12, <2>13 DEF e
<1> QED
  BY <1>1, <1>2, <1>3

\* evbuffer_add()
LEMMA AddKeeps ==
    ASSUME NEW b, NEW s, Holds(b, s), OutShape(b), b.add \in Nat,
           Len(b.chains) <= b.lwd + 1, NEW d \in Seq(Byte),
           \/ Len(d) > 0
           \/ b.chains # <<>> /\ ~b.chains[Len(b.chains)].imm
    PROVE  LET e == EvbufferAdd(b, d) IN
           /\ Holds(e, s \o d) /\ OutShape(e)
           /\ e.add = b.add + Len(d) /\ e.del = b.del
<1>0. Len(b.chains) \in Nat /\ b.chains \in Seq(Chain) /\ s \in Seq(Byte) /\ Len(d) \in Nat
  BY HoldsFields, LenProperties DEF Holds
<1>1. CASE b.chains # <<>>
  <2>1. EvbufferAdd(b, d) = AddedTo(b, d)
    BY <1>1 DEF EvbufferAdd, AddedTo
  <2>2. Len(b.chains) > 0 /\ b.lwd \in 1..Len(b.chains)
    BY <1>0, <1>1, EmptySeq DEF OutShape
  <2> QED
    BY <2>1, <2>2, AddedToKeeps
<1>2. CASE b.chains = <<>>
  <2> DEFINE nc == NewChain(Len(d), <<>>)
             x == ChainInsert(b, nc)
  <2>1. EvbufferAdd(b, d) = AddedTo(x, d)
    BY <1>2 DEF EvbufferAdd, AddedTo
  <2>2. <<>> \in Seq(Byte) /\ Len(<<>>) = 0
    OBVIOUS
  <2>3. nc \in Plain /\ nc.data = <<>> /\ Off(nc) = 0 /\ Space(nc) >= Len(d)
    <3>1. Len(<<>>) <= Len(d)
      BY <1>0, <2>2
    <3>2. /\ nc \in Plain /\ nc.data = <<>> /\ Off(nc) = Len(<<>>)
          /\ Space(nc) = BufferLen(Len(d)) - Len(<<>>)
      BY <1>0, <2>2, <3>1, NewChainPlain
    <3> HIDE DEF nc
    <3>3. BufferLen(Len(d)) \in Nat /\ BufferLen(Len(d)) >= Len(d)
      BY <1>0, BufferLenEnough
    <3> QED
      BY <1>0, <2>2, <3>2, <3>3
  <2>4. nc \in Chain /\ ~nc.imm
    BY <2>3 DEF Plain
  <2> HIDE DEF nc
  <2>5. Len(b.chains) = 0 /\ b.lwd = 1
    BY <1>2 DEF OutShape
  <2>6. /\ EmptyFrom(b.chains, Victim(b)) /\ b.lwd \in 1..Len(b.chains) + 1
        /\ Victim(b) = 1
    <3>1. Victim(b) \in 1..1
      BY <2>5, VictimIs
    <3> QED
      BY <3>1, <2>5, OutShapeInsertable
  <2>7. /\ Holds(x, s \o <<>>) /\ x.chains = Append(First(b.chains, 0), nc)
        /\ x.lwd = 1 /\ x.add = b.add /\ x.del = b.del
    <3>1. b.lwd > Len(b.chains) => Len(b.chains) = 0
      BY <2>5
    <3>2. /\ Holds(x, s \o nc.data)
          /\ x.chains = Append(First(b.chains, Victim(b) - 1), nc)
          /\ x.lwd = IF Victim(b) = Len(b.chains) + 1 /\ Off(nc) # 0
                     THEN Len(b.chains) + 1 ELSE b.lwd
          /\ x.add = b.add /\ x.del = b.del
      BY <2>4, <2>6, <3>1, ChainInsertHolds
    <3>3. Victim(b) - 1 = 0
      BY <2>6
    <3> HIDE DEF x
    <3> QED
      BY <2>3, <2>5, <3>2, <3>3, Zenon
  <2>8. s \o <<>> = s
    BY <1>0, ConcatEmptySeq
  <2>9. x.chains = <<nc>>
    <3>1. First(b.chains, 0) \in Seq(Chain) /\ Len(First(b.chains, 0)) = 0
      BY <1>0, <2>5, FirstProperties
    <3>2. First(b.chains, 0) = <<>>
      BY <3>1, EmptySeq
    <3>3. Append(<<>>, nc) = <<nc>>
      OBVIOUS
    <3> QED
      BY <2>7, <3>2, <3>3, Zenon
  <2>10. Len(x.chains) = 1 /\ x.chains[1] = nc
    BY <2>9
  <2> HIDE DEF x
  <2>11. Len(d) > 0
    BY <1>2
  <2>12. Holds(x, s)
    BY <2>7, <2>8
  <2> QED
    BY <1>0, <2>1, <2>3, <2>4, <2>7, <2>10, <2>11, <2>12, AddedToKeeps
<1> QED
  BY <1>1, <1>2

-----------------------------------------------------------------------------
(* Taking from the front.                                                    *)

\* The operators on two sequences that were joined.
LEMMA SplitAgain ==
    ASSUME NEW u \in Seq(Byte), NEW v \in Seq(Byte)
    PROVE  First(u \o v, Len(u)) = u /\ Rest(u \o v, Len(u)) = v
<1> DEFINE w == u \o v
           k == Len(u)
           f == First(w, k)
           r == Rest(w, k)
<1>1. /\ w \in Seq(Byte) /\ Len(w) = k + Len(v) /\ k \in Nat /\ Len(v) \in Nat
      /\ \A i \in 1..k + Len(v) : w[i] = IF i <= k THEN u[i] ELSE v[i - k]
  BY ConcatProperties, LenProperties
<1> HIDE DEF w, k
<1>2. k \in 0..Len(w)
  BY <1>1
<1>3. /\ f \in Seq(Byte) /\ Len(f) = k /\ \A i \in 1..k : f[i] = w[i]
      /\ r \in Seq(Byte) /\ Len(r) = Len(w) - k /\ \A i \in 1..Len(w) - k : r[i] = w[k + i]
  BY <1>1, <1>2, FirstProperties, RestProperties
<1> HIDE DEF f, r
<1>4. Len(r) = Len(v)
  BY <1>1, <1>3
<1>5. ASSUME NEW i \in 1..k PROVE f[i] = u[i]
  BY <1>1, <1>3
<1>6. ASSUME NEW i \in 1..Len(v) PROVE r[i] = v[i]
  <2>1. i \in 1..Len(w) - k /\ k + i \in 1..k + Len(v) /\ ~(k + i <= k) /\ k + i - k = i
    BY <1>1
  <2>2. w[k + i] = v[k + i - k]
    BY <1>1, <2>1
  <2> QED
    BY <1>3, <2>1, <2>2, Zenon
<1>7. f = u
  <2>1. Len(f) = Len(u) /\ \A i \in 1..Len(f) : f[i] = u[i]
    BY <1>3, <1>5 DEF k
  <2> QED
    BY <1>3, <2>1, SeqEqual
<1>8. r = v
  <2>1. Len(r) = Len(v) /\ \A i \in 1..Len(r) : r[i] = v[i]
    BY <1>4, <1>6
  <2> QED
    BY <1>3, <2>1, SeqEqual
<1> QED
  BY <1>7, <1>8 DEF f, r, w, k

\* Cutting joined data in the second piece ...
LEMMA RestOfJoin ==
    ASSUME NEW x \in Seq(Byte), NEW y \in Seq(Byte), NEW m \in Nat, m <= Len(y)
    PROVE  /\ Rest(x \o y, Len(x) + m) = Rest(y, m)
           /\ First(x \o y, Len(x) + m) = x \o First(y, m)
<1> DEFINE f == First(y, m)
           r == Rest(y, m)
           u == x \o f
<1>1. f \in Seq(Byte) /\ r \in Seq(Byte) /\ f \o r = y /\ Len(f) = m
  BY FirstRest
<1> HIDE DEF f, r
<1>2. x \o y = u \o r
  BY <1>1, Associative
<1>3. u \in Seq(Byte) /\ Len(u) = Len(x) + m
  BY <1>1, ConcatProperties
<1> HIDE DEF u
<1>4. First(u \o r, Len(u)) = u /\ Rest(u \o r, Len(u)) = r
  BY <1>1, <1>3, SplitAgain
<1> QED
  BY <1>2, <1>3, <1>4, Zenon DEF f, r, u

\* ... and in the first.
LEMMA RestOfFront ==
    ASSUME NEW x \in Seq(Byte), NEW y \in Seq(Byte), NEW m \in Nat, m <= Len(x)
    PROVE  /\ Rest(x \o y, m) = Rest(x, m) \o y
           /\ First(x \o y, m) = First(x, m)
<1> DEFINE f == First(x, m)
           r == Rest(x, m)
           u == r \o y
<1>1. f \in Seq(Byte) /\ r \in Seq(Byte) /\ f \o r = x /\ Len(f) = m
  BY FirstRest
<1> HIDE DEF f, r
<1>2. x \o y = f \o u
  BY <1>1, Associative
<1>3. u \in Seq(Byte)
  BY <1>1, ConcatProperties
<1> HIDE DEF u
<1>4. First(f \o u, Len(f)) = f /\ Rest(f \o u, Len(f)) = u
  BY <1>1, <1>3, SplitAgain
<1> QED
  BY <1>1, <1>2, <1>4, Zenon DEF f, r, u

\* The greatest of some numbers up to n.
LEMMA MaxProperties ==
    ASSUME NEW n \in Nat, NEW T, T \subseteq 0..n, T # {}
    PROVE  Max(T) \in T /\ \A y \in T : y <= Max(T)
<1> DEFINE U == {n - x : x \in T}
<1>1. U \subseteq Nat /\ U # {}
  <2>1. ASSUME NEW x \in T PROVE n - x \in Nat
    BY SMT
  <2> QED
    BY <2>1
<1>2. PICK u \in U : \A y \in U : u <= y
  BY <1>1, LeastNumber
<1>3. PICK x \in T : u = n - x
  OBVIOUS
<1>4. ASSUME NEW y \in T PROVE x >= y
  <2>1. n - y \in U /\ x \in 0..n /\ y \in 0..n
    OBVIOUS
  <2>2. n - x <= n - y
    BY <1>2, <1>3, <2>1
  <2> QED
    BY <2>1, <2>2
<1>5. \E z \in T : \A y \in T : z >= y
  BY <1>4
<1> HIDE DEF U
<1>6. Max(T) \in T /\ \A y \in T : Max(T) >= y
  BY <1>5, Zenon DEF Max
<1>7. ASSUME NEW y \in T PROVE y <= Max(T)
  <2>1. Max(T) \in 0..n /\ y \in 0..n /\ Max(T) >= y
    BY <1>6
  <2> QED
    BY <2>1
<1> QED
  BY <1>6, <1>7

\* The chains that n bytes take away.
LEMMA WholeIs ==
    ASSUME NEW b, b.chains \in Seq(Chain), NEW n \in Nat
    PROVE  LET k == Whole(b, n) IN
           /\ k \in 0..Len(b.chains) /\ Bytes(b, k) \in Nat /\ Bytes(b, k) <= n
           /\ \A j \in k + 1..Len(b.chains) : Bytes(b, j) > n
<1> DEFINE l == Len(b.chains)
           T == {k \in 0..l : Bytes(b, k) <= n}
           k == Max(T)
<1>0. l \in Nat /\ l = Len(b.chains)
  BY LenProperties
<1>1. ASSUME NEW j \in 0..l PROVE Bytes(b, j) \in Nat
  <2>1. Bytes(b, j) = Len(Cat(First(b.chains, j)))
    BY BytesCat
  <2>2. Cat(First(b.chains, j)) \in Seq(Byte)
    BY FirstProperties, CatType
  <2> QED
    BY <2>1, <2>2, LenProperties
<1>2. Bytes(b, 0) = 0
  <2>1. 0 \in 0..l
    BY <1>0
  <2>2. First(b.chains, 0) \in Seq(Chain) /\ Len(First(b.chains, 0)) = 0
    BY <2>1, FirstProperties
  <2>3. First(b.chains, 0) = <<>>
    BY <2>2, EmptySeq
  <2>4. Bytes(b, 0) = Len(<<>>)
    BY <2>1, <2>3, BytesCat, CatEmpty
  <2> QED
    BY <2>4
<1>3. T \subseteq 0..l /\ T # {}
  <2>1. 0 \in T
    BY <1>0, <1>2
  <2> QED
    BY <2>1
<1>4. k \in T /\ \A y \in T : y <= k
  BY <1>0, <1>3, MaxProperties
<1>5. Whole(b, n) = k
  BY DEF Whole
<1> HIDE DEF l, k
<1>6. k \in 0..l /\ Bytes(b, k) <= n
  BY <1>4
<1>7. ASSUME NEW j \in k + 1..l PROVE Bytes(b, j) > n
  <2>1. j \in 0..l /\ ~(j <= k)
    BY <1>0, <1>6
  <2>2. ~(Bytes(b, j) <= n)
    BY <1>4, <2>1
  <2> QED
    BY <1>1, <2>1, <2>2
<1> QED
  BY <1>1, <1>5, <1>6, <1>7 DEF l

\* One chain more.
LEMMA BytesNext ==
    ASSUME NEW b, b.chains \in Seq(Chain), NEW k \in 0..Len(b.chains), k < Len(b.chains)
    PROVE  /\ k + 1 \in 1..Len(b.chains) /\ b.chains[k + 1] \in Chain
           /\ Bytes(b, k) \in Nat /\ Off(b.chains[k + 1]) \in Nat
           /\ Bytes(b, k + 1) = Bytes(b, k) + Off(b.chains[k + 1])
<1> DEFINE cs == b.chains
           j == k + 1
           u == Cat(First(cs, j - 1))
<1>0. Len(cs) \in Nat /\ j \in 1..Len(cs) /\ j \in 0..Len(cs) /\ j - 1 = k
  BY LenProperties
<1>1. cs[j] \in Chain
  BY <1>0, ElementOfSeq
<1> HIDE DEF j
<1>2. Cat(First(cs, j)) = u \o cs[j].data /\ u \in Seq(Byte) /\ cs[j].data \in Seq(Byte)
  BY <1>0, CatLast
<1>3. Bytes(b, k) = Len(u) /\ Bytes(b, j) = Len(Cat(First(cs, j)))
  BY <1>0, BytesCat
<1> HIDE DEF u
<1>4. Len(u \o cs[j].data) = Len(u) + Len(cs[j].data) /\ Len(u) \in Nat /\ Len(cs[j].data) \in Nat
  BY <1>2, ConcatProperties, LenProperties
<1>5. Bytes(b, j) = Bytes(b, k) + Off(cs[j]) /\ Bytes(b, k) \in Nat /\ Off(cs[j]) \in Nat
  BY <1>2, <1>3, <1>4 DEF Off
<1> QED
  BY <1>0, <1>1, <1>5 DEF j

\* Two lists that agree behind the k-th element.
LEMMA RestAgree ==
    ASSUME NEW S, NEW cs \in Seq(S), NEW ds \in Seq(S), NEW k \in 0..Len(cs),
           Len(cs) = Len(ds), \A i \in k + 1..Len(cs) : cs[i] = ds[i]
    PROVE  Rest(cs, k) = Rest(ds, k)
<1> DEFINE x == Rest(cs, k)
           y == Rest(ds, k)
           n == Len(cs)
<1>1. n \in Nat
  BY LenProperties
<1>2. /\ x \in Seq(S) /\ Len(x) = n - k /\ \A i \in 1..n - k : x[i] = cs[k + i]
      /\ y \in Seq(S) /\ Len(y) = n - k /\ \A i \in 1..n - k : y[i] = ds[k + i]
  <2>1. k \in 0..Len(ds)
    OBVIOUS
  <2> QED
    BY <2>1, RestProperties
<1> HIDE DEF x, y
<1>3. ASSUME NEW i \in 1..n - k PROVE x[i] = y[i]
  <2>1. k + i \in k + 1..n
    BY <1>1
  <2> QED
    BY <1>2, <2>1
<1>4. x = y
  BY <1>1, <1>2, <1>3, SeqEqual
<1> QED
  BY <1>4 DEF x, y

\* The first chain and the others.
LEMMA CatHead ==
    ASSUME NEW cs \in Seq(Chain), Len(cs) > 0
    PROVE  /\ Cat(cs) = cs[1].data \o Cat(Rest(cs, 1))
           /\ cs[1].data \in Seq(Byte) /\ Cat(Rest(cs, 1)) \in Seq(Byte)
           /\ Rest(cs, 1) \in Seq(Chain) /\ Len(Rest(cs, 1)) = Len(cs) - 1
<1>0. Len(cs) \in Nat /\ 1 \in 1..Len(cs) /\ 1 \in 0..Len(cs) /\ 0 \in 0..Len(cs) /\ 1 - 1 = 0
  BY LenProperties
<1>1. Rest(cs, 1) \in Seq(Chain) /\ Len(Rest(cs, 1)) = Len(cs) - 1
  BY <1>0, RestProperties
<1>2. /\ Cat(First(cs, 1)) \in Seq(Byte) /\ Cat(Rest(cs, 1)) \in Seq(Byte)
      /\ Cat(cs) = Cat(First(cs, 1)) \o Cat(Rest(cs, 1))
  BY <1>0, CatCut
<1>3. Cat(First(cs, 1)) = Cat(First(cs, 0)) \o cs[1].data /\ cs[1].data \in Seq(Byte)
  <2>1. /\ Cat(First(cs, 1)) = Cat(First(cs, 1 - 1)) \o cs[1].data
        /\ cs[1].data \in Seq(Byte)
    BY <1>0, CatLast
  <2> QED
    BY <2>1, <1>0
<1>4. Cat(First(cs, 0)) = <<>>
  <2>1. First(cs, 0) \in Seq(Chain) /\ Len(First(cs, 0)) = 0
    BY <1>0, FirstProperties
  <2>2. First(cs, 0) = <<>>
    BY <2>1, EmptySeq
  <2> QED
    BY <2>2, CatEmpty
<1>5. <<>> \o cs[1].data = cs[1].data
  BY <1>3, ConcatEmptySeq
<1> QED
  BY <1>1, <1>2, <1>3, <1>4, <1>5, Zenon

\* A chain of which the first m bytes are taken.
LEMMA KeptIs ==
    ASSUME NEW c \in Chain, NEW m \in Nat, m <= Off(c)
    PROVE  LET f == Kept(c, m) IN
           /\ f \in Chain /\ f.data = Rest(c.data, m) /\ Off(f) = Off(c) - m
           /\ f.mis = c.mis + m /\ f.len = c.len /\ f.imm = c.imm
<1> DEFINE d == Rest(c.data, m)
           g == c.mis + m
           f == [c EXCEPT !.data = d, !.mis = g]
<1>0. /\ c.data \in Seq(Byte) /\ c.mis \in Nat /\ c.len \in Nat /\ Off(c) \in Nat
      /\ c.mis + Off(c) <= c.len /\ Off(c) = Len(c.data)
  BY ChainFields DEF Off
<1>1. d \in Seq(Byte) /\ Len(d) = Off(c) - m
  BY <1>0, FirstRest
<1>2. g \in Nat
  BY <1>0
<1>3. Kept(c, m) = f
  BY DEF Kept
<1>4. c \in [data : Seq(Byte), mis : Nat, len : Nat, imm : BOOLEAN]
  BY DEF Chain
<1>8. g + (Off(c) - m) <= c.len
  BY <1>0
<1> HIDE DEF d, g
<1>5. /\ f \in [data : Seq(Byte), mis : Nat, len : Nat, imm : BOOLEAN]
      /\ f.data = d /\ f.mis = g /\ f.len = c.len /\ f.imm = c.imm
  BY <1>1, <1>2, <1>4
<1> HIDE DEF f
<1>6. f.mis + Len(f.data) <= f.len
  BY <1>1, <1>5, <1>8
<1>7. f \in Chain /\ Off(f) = Off(c) - m
  BY <1>1, <1>5, <1>6 DEF Chain, Off
<1> QED
  BY <1>3, <1>5, <1>7 DEF d, g

\* What is left behind k whole chains and m bytes of the next.
LEMMA BehindIs ==
    ASSUME NEW b, b.chains \in Seq(Chain), NEW n \in Nat, n < Len(Cat(b.chains))
    PROVE  LET k == Whole(b, n)
               m == n - Bytes(b, k)
               c == b.chains[k + 1]
               r == Behind(b, k, m)
           IN /\ k \in 0..Len(b.chains) /\ k < Len(b.chains)
              /\ c \in Chain /\ m \in Nat /\ m < Off(c)
              /\ r \in Seq(Chain) /\ Len(r) = Len(b.chains) - k /\ r[1] = Kept(c, m)
              /\ \A i \in 2..Len(r) : r[i] = b.chains[k + i]
              /\ Cat(r) = Rest(Cat(b.chains), n)
              /\ First(Cat(b.chains), n) = Cat(First(b.chains, k)) \o First(c.data, m)
<1> DEFINE cs == b.chains
           k == Whole(b, n)
           m == n - Bytes(b, k)
           c == cs[k + 1]
           f == Kept(c, m)
           left == Rest(cs, k)
           r == Behind(b, k, m)
           front == Cat(First(cs, k))
<1>0. Len(cs) \in Nat /\ cs \in Seq(Chain)
  BY LenProperties
<1>1. /\ k \in 0..Len(cs) /\ Bytes(b, k) \in Nat /\ Bytes(b, k) <= n
      /\ \A j \in k + 1..Len(cs) : Bytes(b, j) > n
  BY WholeIs
<1> HIDE DEF k
<1>2. k < Len(cs)
  <2>1. ASSUME k = Len(cs) PROVE FALSE
    <3>1. Bytes(b, k) = Len(Cat(First(cs, Len(cs))))
      BY <1>1, <2>1, BytesCat
    <3>2. First(cs, Len(cs)) = cs
      <4>1. Len(cs) \in 0..Len(cs)
        BY <1>0
      <4>2. First(cs, Len(cs)) \in Seq(Chain) /\ Len(First(cs, Len(cs))) = Len(cs)
            /\ \A i \in 1..Len(cs) : First(cs, Len(cs))[i] = cs[i]
        BY <1>0, <4>1, FirstProperties
      <4> QED
        BY <1>0, <4>2, SeqEqual
    <3> QED
      BY <1>1, <3>1, <3>2
  <2> QED
    BY <1>0, <1>1, <2>1
<1>3. /\ c \in Chain /\ Off(c) \in Nat /\ k + 1 \in 1..Len(cs)
      /\ Bytes(b, k + 1) = Bytes(b, k) + Off(c)
  BY <1>1, <1>2, BytesNext
<1>4. m \in Nat /\ m < Off(c)
  <2>1. Bytes(b, k + 1) > n
    BY <1>0, <1>1, <1>2
  <2> QED
    BY <2>1, <1>1, <1>3
<1>5. /\ left \in Seq(Chain) /\ Len(left) = Len(cs) - k
      /\ \A i \in 1..Len(cs) - k : left[i] = cs[k + i]
  BY <1>0, <1>1, RestProperties
<1>6. f \in Chain /\ f.data = Rest(c.data, m)
  BY <1>3, <1>4, KeptIs
<1>7. Len(left) > 0 /\ 1 \in 1..Len(left) /\ left[1] = c /\ left # <<>>
  <2>1. Len(left) > 0 /\ 1 \in 1..Len(cs) - k
    BY <1>0, <1>1, <1>2, <1>5
  <2>2. left # <<>>
    BY <2>1
  <2> QED
    BY <2>1, <2>2, <1>5
<1>8. r = [left EXCEPT ![1] = f]
  <2>1. r = [left EXCEPT ![1] = Kept(left[1], m)]
    <3>1. left # <<>>
      BY <1>7
    <3> QED
      BY <3>1, Zenon DEF Behind
  <2> HIDE DEF left, r, m, c
  <2> QED
    BY <1>7, <2>1, Zenon
<1>9. Bytes(b, k) = Len(front) /\ front \in Seq(Byte) /\ Cat(left) \in Seq(Byte)
      /\ Cat(cs) = front \o Cat(left)
  BY <1>0, <1>1, BytesCat, CatCut
<1> HIDE DEF left, f, r, c, m
<1>10. /\ r \in Seq(Chain) /\ Len(r) = Len(left) /\ r[1] = f
       /\ \A i \in 2..Len(left) : r[i] = left[i]
  <2>1. r \in Seq(Chain) /\ Len(r) = Len(left) /\ \A i \in 1..Len(left) : r[i] = IF i = 1 THEN f ELSE left[i]
    BY <1>5, <1>6, <1>7, <1>8, ExceptSeq
  <2> QED
    BY <1>0, <1>5, <1>7, <2>1
<1>11. Rest(r, 1) = Rest(left, 1)
  <2>1. 1 \in 0..Len(r) /\ \A i \in 1 + 1..Len(r) : r[i] = left[i]
    BY <1>7, <1>10
  <2> QED
    BY <1>5, <1>10, <2>1, RestAgree
<1> DEFINE z == Cat(Rest(left, 1))
<1>12. Cat(left) = c.data \o z /\ c.data \in Seq(Byte) /\ z \in Seq(Byte)
  BY <1>5, <1>7, CatHead
<1>13. Cat(r) = Rest(c.data, m) \o z
  <2>1. Len(r) > 0
    BY <1>7, <1>10
  <2>2. Cat(r) = r[1].data \o Cat(Rest(r, 1))
    BY <1>10, <2>1, CatHead
  <2> QED
    BY <2>2, <1>6, <1>10, <1>11, Zenon
<1>14. Len(c.data) = Off(c) /\ Len(Cat(left)) \in Nat /\ m <= Len(c.data) /\ m <= Len(Cat(left))
  <2>1. Len(c.data) = Off(c)
    BY DEF Off
  <2>2. Len(Cat(left)) = Len(c.data) + Len(z) /\ Len(z) \in Nat
    BY <1>12, ConcatProperties, LenProperties
  <2> QED
    BY <1>3, <1>4, <2>1, <2>2
<1>15. n = Len(front) + m /\ m \in Nat
  BY <1>1, <1>4, <1>9 DEF m
<1> HIDE DEF z, front
<1>16. Rest(c.data \o z, m) = Rest(c.data, m) \o z /\ First(c.data \o z, m) = First(c.data, m)
  BY <1>4, <1>12, <1>14, RestOfFront
<1>17. /\ Rest(front \o Cat(left), Len(front) + m) = Rest(Cat(left), m)
       /\ First(front \o Cat(left), Len(front) + m) = front \o First(Cat(left), m)
  BY <1>4, <1>9, <1>14, RestOfJoin
<1>18. Cat(r) = Rest(Cat(cs), n) /\ First(Cat(cs), n) = front \o First(c.data, m)
  BY <1>9, <1>12, <1>13, <1>15, <1>16, <1>17, Zenon
<1>19. ASSUME NEW i \in 2..Len(r) PROVE r[i] = cs[k + i]
  <2>1. i \in 2..Len(left) /\ i \in 1..Len(cs) - k
    BY <1>0, <1>1, <1>5, <1>10
  <2> QED
    BY <2>1, <1>5, <1>10
<1> QED
  BY <1>1, <1>2, <1>3, <1>4, <1>5, <1>10, <1>18, <1>19 DEF k, m, c, r, f, front

\* The input: its chains are libevent's own, the first have the data, and
\* last_with_datap is at the last of those.
InShape(b) ==
    /\ b.chains \in Seq(Plain)
    /\ \/ b.lwd = 1 /\ NoData(b.chains)
       \/ /\ b.lwd \in 1..Len(b.chains)
          /\ \A i \in 1..Len(b.chains) : Off(b.chains[i]) # 0 <=> i <= b.lwd

\* Nothing is left behind all there is.
LEMMA RestAll ==
    ASSUME NEW s \in Seq(Byte), NEW n \in Nat, n >= Len(s)
    PROVE  Rest(s, n) = <<>>
<1> DEFINE m == n + 1
           l == Len(s)
<1>1. l \in Nat /\ m \in Int /\ m > l
  BY LenProperties
<1>2. Rest(s, n) = SubSeq(s, m, l)
  BY DEF Rest
<1>3. \A i \in m..l : s[i] \in Byte
  BY <1>1
<1> HIDE DEF m, l
<1>4. SubSeq(s, m, l) \in Seq(Byte) /\ Len(SubSeq(s, m, l)) = IF m <= l THEN l - m + 1 ELSE 0
  BY <1>1, <1>3, SubSeqProperties
<1>5. Len(SubSeq(s, m, l)) = 0
  BY <1>1, <1>4
<1> QED
  BY <1>2, <1>4, <1>5, EmptySeq

\* evbuffer_drain() of all there is ...
LEMMA DrainAll ==
    ASSUME NEW b, NEW s, Holds(b, s), NEW n \in Nat, n >= Len(s), b.del \in Nat
    PROVE  LET e == EvbufferDrain(b, n) IN
           /\ Holds(e, <<>>) /\ Rest(s, n) = <<>> /\ e.chains = <<>> /\ e.lwd = 1
           /\ e.total = 0 /\ e.add = b.add /\ e.del = b.del + Len(s)
<1> DEFINE e == EvbufferDrain(b, n)
           z == b.del + b.total
<1>0. s \in Seq(Byte) /\ Len(s) \in Nat /\ b.total = Len(s) /\ IsBuffer(b) /\ b.bad = FALSE
  BY HoldsFields DEF Holds
<1>1. e = [b EXCEPT !.chains = <<>>, !.lwd = 1, !.total = 0, !.del = z]
  <2>1. e = [ZeroChain(b) EXCEPT !.del = @ + b.total]
    BY <1>0 DEF EvbufferDrain
  <2>2. ZeroChain(b).del = b.del
    BY <1>0 DEF ZeroChain, IsBuffer, Fields
  <2> HIDE DEF e
  <2>3. e = [ZeroChain(b) EXCEPT !.del = z]
    BY <2>1, <2>2
  <2> HIDE DEF z
  <2> QED
    BY <2>3 DEF ZeroChain
<1>2. z = b.del + Len(s)
  BY <1>0
<1> HIDE DEF z, e
<1>3. /\ e.chains = <<>> /\ e.lwd = 1 /\ e.total = 0 /\ e.bad = b.bad
      /\ e.add = b.add /\ e.del = z /\ IsBuffer(e)
  BY <1>0, <1>1 DEF IsBuffer, Fields
<1>4. <<>> \in Seq(Chain) /\ Len(<<>>) = 0
  OBVIOUS
<1>5. Holds(e, <<>>)
  BY <1>0, <1>3, <1>4, CatEmpty DEF Holds
<1> QED
  BY <1>0, <1>2, <1>3, <1>5, RestAll DEF e

\* ... and of less.
LEMMA DrainSome ==
    ASSUME NEW b, NEW s, Holds(b, s), NEW n \in Nat, n < Len(s), b.del \in Nat
    PROVE  LET e == EvbufferDrain(b, n)
               k == Whole(b, n)
           IN /\ Holds(e, Rest(s, n))
              /\ e.chains = Behind(b, k, n - Bytes(b, k)) /\ e.lwd = SlotBehind(b.lwd, k)
              /\ e.total = Len(s) - n /\ e.add = b.add /\ e.del = b.del + n
<1> DEFINE e == EvbufferDrain(b, n)
           k == Whole(b, n)
           m == n - Bytes(b, k)
           cs == Behind(b, k, m)
           l == SlotBehind(b.lwd, k)
           t == b.total - n
           z == b.del + n
<1>0. /\ s \in Seq(Byte) /\ Len(s) \in Nat /\ b.total = Len(s) /\ IsBuffer(b) /\ b.bad = FALSE
      /\ b.chains \in Seq(Chain) /\ s = Cat(b.chains)
  BY HoldsFields DEF Holds
<1>1. e = [b EXCEPT !.chains = cs, !.lwd = l, !.total = t, !.del = z]
  <2>1. ~(n >= b.total)
    BY <1>0
  <2> QED
    BY <2>1 DEF EvbufferDrain
<1>2. cs \in Seq(Chain) /\ Cat(cs) = Rest(s, n)
  BY <1>0, BehindIs
<1>3. t = Len(Rest(s, n)) /\ t = Len(s) - n
  <2>1. n <= Len(s)
    BY <1>0
  <2>2. Len(Rest(s, n)) = Len(s) - n
    BY <1>0, <2>1, FirstRest
  <2> QED
    BY <1>0, <2>2
<1> HIDE DEF e, cs, l, t, z
<1>4. /\ e.chains = cs /\ e.lwd = l /\ e.total = t /\ e.bad = b.bad
      /\ e.add = b.add /\ e.del = z /\ IsBuffer(e)
  BY <1>0, <1>1 DEF IsBuffer, Fields
<1>5. Holds(e, Rest(s, n))
  BY <1>0, <1>2, <1>3, <1>4, Zenon DEF Holds
<1> QED
  BY <1>3, <1>4, <1>5 DEF e, cs, l, z

\* The first of the chains left has data, and the others are as they were.
LEMMA BehindChains ==
    ASSUME NEW b, NEW s, Holds(b, s), NEW n \in Nat, n < Len(s)
    PROVE  LET k == Whole(b, n)
               r == Behind(b, k, n - Bytes(b, k))
           IN /\ k \in Nat /\ k < Len(b.chains) /\ Len(r) = Len(b.chains) - k
              /\ Len(b.chains) \in Nat /\ Off(b.chains[k + 1]) # 0 /\ Off(r[1]) # 0
              /\ r \in Seq(Chain)
              /\ \A i \in 2..Len(r) : r[i] = b.chains[k + i]
              /\ b.chains \in Seq(Plain) => r \in Seq(Plain)
<1> DEFINE k == Whole(b, n)
           m == n - Bytes(b, k)
           c == b.chains[k + 1]
           f == Kept(c, m)
           r == Behind(b, k, m)
           l == Len(b.chains)
<1>0. b.chains \in Seq(Chain) /\ l \in Nat /\ n < Len(Cat(b.chains))
  BY HoldsFields DEF Holds
<1>1. /\ k \in 0..l /\ k < l /\ c \in Chain /\ m \in Nat /\ m < Off(c)
      /\ r \in Seq(Chain) /\ Len(r) = l - k /\ r[1] = f
      /\ \A i \in 2..Len(r) : r[i] = b.chains[k + i]
  BY <1>0, BehindIs
<1> HIDE DEF k, m, c, r, l
<1>2. Off(c) \in Nat /\ m <= Off(c)
  BY <1>1, ChainFields
<1>3. /\ f \in Chain /\ Off(f) = Off(c) - m
      /\ f.mis = c.mis + m /\ f.len = c.len /\ f.imm = c.imm
  BY <1>1, <1>2, KeptIs
<1> HIDE DEF f
<1>4. Off(c) # 0 /\ Off(f) # 0
  BY <1>1, <1>2, <1>3
<1>5. ASSUME b.chains \in Seq(Plain) PROVE r \in Seq(Plain)
  <2>1. ASSUME NEW i \in 1..l PROVE b.chains[i] \in Plain
    BY <1>5, ElementOfSeq DEF l
  <2>2. k + 1 \in 1..l
    BY <1>0, <1>1
  <2>3. f \in Plain
    BY <2>1, <2>2, <1>3, <1>4 DEF Plain, c
  <2>4. ASSUME NEW i \in 1..Len(r) PROVE r[i] \in Plain
    <3>1. CASE i = 1
      BY <3>1, <1>1, <2>3
    <3>2. CASE i # 1
      <4>1. i \in 2..Len(r) /\ k + i \in 1..l
        BY <3>2, <1>0, <1>1
      <4> QED
        BY <4>1, <1>1, <2>1
    <3> QED
      BY <3>1, <3>2
  <2> QED
    BY <1>1, <2>4, SeqDef
<1> QED
  BY <1>0, <1>1, <1>4, <1>5 DEF k, m, c, r, l, f

\* evbuffer_drain() of the output ...
LEMMA DrainKeepsOutput ==
    ASSUME NEW b, NEW s, Holds(b, s), OutShape(b), NEW n \in Nat, b.del \in Nat
    PROVE  LET e == EvbufferDrain(b, n) IN
           /\ Holds(e, Rest(s, n)) /\ OutShape(e)
<1>0. Len(s) \in Nat
  BY HoldsFields
<1>1. CASE n >= Len(s)
  BY <1>1, DrainAll DEF OutShape
<1>2. CASE n < Len(s)
  <2> DEFINE e == EvbufferDrain(b, n)
             k == Whole(b, n)
             r == Behind(b, k, n - Bytes(b, k))
             l == Len(b.chains)
             w == SlotBehind(b.lwd, k)
  <2>1. Holds(e, Rest(s, n)) /\ e.chains = r /\ e.lwd = w
    BY <1>2, DrainSome
  <2>2. /\ k \in Nat /\ k < l /\ Len(r) = l - k /\ l \in Nat
        /\ Off(b.chains[k + 1]) # 0 /\ Off(r[1]) # 0
        /\ \A i \in 2..Len(r) : r[i] = b.chains[k + i]
    BY <1>2, BehindChains
  <2>3. b.chains # <<>>
    BY <2>2
  <2>4. b.lwd \in 1..l /\ Off(b.chains[b.lwd]) # 0
        /\ \A i \in b.lwd + 1..l : Off(b.chains[i]) # 0 => i = l /\ i = b.lwd + 1
    BY <2>3 DEF OutShape
  <2>5. w = IF b.lwd <= k + 1 THEN 1 ELSE b.lwd - k
    BY DEF SlotBehind
  <2> HIDE DEF e, r, k, l, w
  <2>6. w \in 1..Len(r) /\ Off(r[w]) # 0
    <3>1. CASE b.lwd <= k + 1
      BY <3>1, <2>2, <2>5
    <3>2. CASE ~(b.lwd <= k + 1)
      <4>1. w = b.lwd - k /\ w \in 2..Len(r) /\ k + w = b.lwd
        <5>1. b.lwd \in Nat /\ b.lwd <= l /\ Len(r) = l - k /\ k \in Nat /\ l \in Nat
          BY <2>2, <2>4
        <5>2. w = b.lwd - k
          BY <3>2, <2>5
        <5> QED
          BY <3>2, <5>1, <5>2
      <4>2. r[w] = b.chains[b.lwd] /\ w \in 1..Len(r)
        <5>1. r[w] = b.chains[k + w]
          BY <4>1, <2>2
        <5>2. Len(r) \in Nat
          BY <2>2
        <5> QED
          BY <4>1, <5>1, <5>2
      <4> QED
        BY <4>2, <2>4
    <3> QED
      BY <3>1, <3>2
  <2>7. ASSUME NEW i \in w + 1..Len(r), Off(r[i]) # 0 PROVE i = Len(r) /\ i = w + 1
    <3>1. i \in 2..Len(r) /\ k + i \in 2..l
      BY <2>2, <2>6
    <3>2. Off(b.chains[k + i]) # 0
      BY <3>1, <2>2, <2>7
    <3>3. CASE b.lwd <= k + 1
      <4>1. k + i \in b.lwd + 1..l
        BY <3>1, <3>3, <2>2, <2>4
      <4>2. k + i = l /\ k + i = b.lwd + 1
        BY <3>2, <4>1, <2>4
      <4> QED
        BY <3>1, <3>3, <4>2, <2>2, <2>4, <2>5
    <3>4. CASE ~(b.lwd <= k + 1)
      <4>1. w = b.lwd - k /\ k + i \in b.lwd + 1..l
        BY <3>1, <3>4, <2>2, <2>4, <2>5
      <4>2. k + i = l /\ k + i = b.lwd + 1
        BY <3>2, <4>1, <2>4
      <4> QED
        BY <4>1, <4>2, <3>1, <2>2, <2>4
    <3> QED
      BY <3>3, <3>4
  <2>8. OutShape(e)
    BY <2>1, <2>6, <2>7 DEF OutShape
  <2> QED
    BY <2>1, <2>8 DEF e, w, r
<1> QED
  BY <1>0, <1>1, <1>2

\* The input keeps its shape when bytes are taken from its front.
LEMMA InShapeBehind ==
    ASSUME NEW b, NEW s, Holds(b, s), InShape(b), NEW n \in Nat, n < Len(s),
           NEW e, e.chains = Behind(b, Whole(b, n), n - Bytes(b, Whole(b, n))),
           e.lwd = SlotBehind(b.lwd, Whole(b, n))
    PROVE  InShape(e)
<1> DEFINE k == Whole(b, n)
           r == Behind(b, k, n - Bytes(b, k))
           l == Len(b.chains)
           w == SlotBehind(b.lwd, k)
<1>1. /\ k \in Nat /\ k < l /\ Len(r) = l - k /\ l \in Nat
      /\ Off(b.chains[k + 1]) # 0 /\ Off(r[1]) # 0
      /\ \A i \in 2..Len(r) : r[i] = b.chains[k + i]
      /\ r \in Seq(Plain)
  BY BehindChains DEF InShape
<1>2. e.chains = r /\ e.lwd = w
  OBVIOUS
<1>3. w = IF b.lwd <= k + 1 THEN 1 ELSE b.lwd - k
  BY DEF SlotBehind
<1> HIDE DEF k, r, l, w
<1>4. ~NoData(b.chains)
  <2>1. k + 1 \in 1..l
    BY <1>1
  <2> QED
    BY <2>1, <1>1 DEF NoData, l
<1>5. b.lwd \in 1..l /\ \A i \in 1..l : Off(b.chains[i]) # 0 <=> i <= b.lwd
  BY <1>4 DEF InShape, l
<1>6. k + 1 <= b.lwd
  <2>1. k + 1 \in 1..l
    BY <1>1
  <2> QED
    BY <2>1, <1>1, <1>5
<1>7. w = b.lwd - k /\ w \in 1..Len(r)
  BY <1>1, <1>3, <1>5, <1>6
<1>8. ASSUME NEW i \in 1..Len(r) PROVE Off(r[i]) # 0 <=> i <= w
  <2>1. CASE i = 1
    BY <2>1, <1>1, <1>7
  <2>2. CASE i # 1
    <3>1. i \in 2..Len(r) /\ k + i \in 1..l /\ (k + i <= b.lwd <=> i <= w)
      BY <2>2, <1>1, <1>5, <1>7
    <3> QED
      BY <3>1, <1>1, <1>5
  <2> QED
    BY <2>1, <2>2
<1> QED
  BY <1>1, <1>2, <1>7, <1>8 DEF InShape

\* ... and of the input.
LEMMA DrainKeepsInput ==
    ASSUME NEW b, NEW s, Holds(b, s), InShape(b), NEW n \in Nat, b.del \in Nat
    PROVE  LET e == EvbufferDrain(b, n) IN
           /\ Holds(e, Rest(s, n)) /\ InShape(e)
<1>0. Len(s) \in Nat
  BY HoldsFields
<1>1. CASE n >= Len(s)
  <2>1. <<>> \in Seq(Plain) /\ NoData(<<>>)
    BY DEF NoData
  <2> QED
    BY <1>1, <2>1, DrainAll DEF InShape
<1>2. CASE n < Len(s)
  BY <1>2, DrainSome, InShapeBehind
<1> QED
  BY <1>0, <1>1, <1>2

-----------------------------------------------------------------------------
(* evbuffer_reserve_space() and evbuffer_commit_space().                     *)

\* advance_last_with_data() goes to the end of a list that has data to its end.
LEMMA AdvancedIs ==
    ASSUME NEW b, NEW n \in Nat, n = Len(b.chains), b.lwd \in 1..n,
           \A i \in b.lwd + 1..n : Off(b.chains[i]) # 0
    PROVE  Advanced(b) = [b EXCEPT !.lwd = n]
<1> DEFINE T == {i \in b.lwd..n : i = n \/ Off(b.chains[i + 1]) = 0}
<1>1. T = {n}
  <2>1. ASSUME NEW i \in T PROVE i = n
    <3>1. ASSUME i # n PROVE FALSE
      <4>1. i + 1 \in b.lwd + 1..n
        BY <3>1
      <4> QED
        BY <3>1, <4>1
    <3> QED
      BY <3>1
  <2>2. n \in T
    OBVIOUS
  <2> QED
    BY <2>1, <2>2
<1>2. Min(T) = n
  <2>1. T \subseteq Nat /\ T # {}
    BY <1>1
  <2>2. Min(T) \in T
    BY <2>1, MinProperties
  <2> QED
    BY <1>1, <2>2
<1>3. ~(b.lwd > n)
  OBVIOUS
<1> QED
  BY <1>2, <1>3 DEF Advanced

\* The buffer once d was put into the chain behind a slot.
PutInto(b, slot, d) ==
    [b EXCEPT !.chains[slot] = WithData(@, d),
              !.total = @ + Len(d),
              !.add = @ + Len(d)]

\* Data that is put into a chain behind which there is none.
LEMMA PutIntoIs ==
    ASSUME NEW b, NEW s, Holds(b, s), b.add \in Nat, NEW slot \in 1..Len(b.chains),
           EmptyFrom(b.chains, slot + 1), NEW d \in Seq(Byte),
           LET c == b.chains[slot] IN c.mis + Off(c) + Len(d) <= c.len
    PROVE  LET e == PutInto(b, slot, d) IN
           /\ Holds(e, s \o d) /\ Len(e.chains) = Len(b.chains) /\ e.lwd = b.lwd
           /\ Off(e.chains[slot]) = Off(b.chains[slot]) + Len(d)
           /\ e.chains[slot] = WithData(b.chains[slot], d)
           /\ \A i \in 1..Len(b.chains) : i # slot => e.chains[i] = b.chains[i]
           /\ e.add = b.add + Len(d) /\ e.del = b.del
<1> DEFINE c == b.chains[slot]
           f == WithData(c, d)
           cs == [b.chains EXCEPT ![slot] = f]
           t == b.total + Len(d)
           a == b.add + Len(d)
           e == PutInto(b, slot, d)
           k == Len(b.chains)
<1>0. /\ k \in Nat /\ b.chains \in Seq(Chain) /\ s \in Seq(Byte) /\ c \in Chain
      /\ s = Cat(b.chains) /\ b.total = Len(s) /\ IsBuffer(b) /\ b.bad = FALSE
  BY HoldsFields DEF Holds
<1>1. f \in Chain /\ f.data = c.data \o d /\ Off(f) = Off(c) + Len(d)
  BY <1>0, Fuller DEF WithData
<1> HIDE DEF f
<1>3. cs \in Seq(Chain) /\ Len(cs) = k /\ Cat(cs) = s \o d
  BY <1>0, <1>1, CatPut
<1>4. /\ cs[slot] = f
      /\ \A i \in 1..k : i # slot => cs[i] = b.chains[i]
  BY <1>0
<1>5. e = [b EXCEPT !.chains = cs, !.total = t, !.add = a]
  BY DEF PutInto, f
<1>6. t = Len(s \o d)
  BY <1>0, ConcatProperties
<1> HIDE DEF cs, t, a, e
<1>7. /\ e.chains = cs /\ e.lwd = b.lwd /\ e.total = t /\ e.bad = b.bad
      /\ e.add = a /\ e.del = b.del /\ IsBuffer(e)
  BY <1>0, <1>5 DEF IsBuffer, Fields
<1>8. Holds(e, s \o d)
  BY <1>0, <1>3, <1>6, <1>7, Zenon DEF Holds
<1> QED
  BY <1>1, <1>3, <1>4, <1>7, <1>8 DEF e, a, f

\* evbuffer_commit_space() into the chain of last_with_datap or the next one.
LEMMA CommitKeeps ==
    ASSUME NEW b, NEW s, Holds(b, s), b.add \in Nat,
           b.lwd \in 1..Len(b.chains), EmptyFrom(b.chains, b.lwd + 1),
           NEW slot \in 1..Len(b.chains), slot = b.lwd \/ slot = b.lwd + 1,
           NEW d \in Seq(Byte), Len(d) > 0,
           LET c == b.chains[slot] IN c.mis + Off(c) + Len(d) <= c.len,
           slot = Len(b.chains) \/ slot = Writable(b)
    PROVE  LET e == CommitSpace(b, slot, d) IN
           Holds(e, s \o d) /\ OutShape(e) /\ e.add = b.add + Len(d)
<1> DEFINE p == PutInto(b, slot, d)
           e == CommitSpace(b, slot, d)
           n == Len(b.chains)
<1>0. n \in Nat /\ Len(d) \in Nat /\ Off(b.chains[slot]) \in Nat
  BY HoldsFields, LenProperties
<1>1. EmptyFrom(b.chains, slot + 1)
  BY <1>0 DEF EmptyFrom
<1>2. /\ Holds(p, s \o d) /\ Len(p.chains) = n /\ p.lwd = b.lwd
      /\ Off(p.chains[slot]) = Off(b.chains[slot]) + Len(d)
      /\ \A i \in 1..n : i # slot => p.chains[i] = b.chains[i]
      /\ p.add = b.add + Len(d)
  BY <1>1, PutIntoIs
<1>3. e = [p EXCEPT !.lwd = slot]
  <2>1. CASE slot = n
    <3>1. e = Advanced(p)
      BY <2>1 DEF CommitSpace, PutInto
    <3> HIDE DEF p
    <3>2. ASSUME NEW i \in p.lwd + 1..n PROVE Off(p.chains[i]) # 0
      <4>1. i = slot
        BY <1>0, <1>2, <2>1
      <4> QED
        BY <4>1, <1>0, <1>2
    <3>3. Advanced(p) = [p EXCEPT !.lwd = n]
      BY <1>0, <1>2, <3>2, AdvancedIs
    <3> QED
      BY <2>1, <3>1, <3>3
  <2>2. CASE slot # n
    BY <2>2 DEF CommitSpace, PutInto
  <2> QED
    BY <2>1, <2>2
<1> HIDE DEF p, e
<1>4. IsBuffer(p)
  BY <1>2 DEF Holds
<1>5. /\ e.chains = p.chains /\ e.lwd = slot /\ e.total = p.total /\ e.bad = p.bad
      /\ e.add = p.add /\ e.del = p.del /\ IsBuffer(e)
  BY <1>3, <1>4 DEF IsBuffer, Fields
<1>6. Holds(e, s \o d)
  BY <1>2, <1>5, Zenon DEF Holds
<1>7. OutShape(e)
  <2>1. slot \in 1..Len(e.chains) /\ Off(e.chains[slot]) # 0
    BY <1>0, <1>2, <1>5
  <2>2. ASSUME NEW i \in slot + 1..Len(e.chains) PROVE Off(e.chains[i]) = 0
    <3>1. i \in slot + 1..n /\ i \in 1..n /\ i # slot
      BY <1>0, <1>2, <1>5
    <3> QED
      BY <3>1, <1>1, <1>2, <1>5 DEF EmptyFrom
  <2> QED
    BY <1>5, <2>1, <2>2 DEF OutShape
<1> QED
  BY <1>2, <1>5, <1>6, <1>7 DEF e

\* When last_with_datap is right, no chain behind it has data.
LEMMA RightSlot ==
    ASSUME NEW b, NEW s, Holds(b, s), OutShape(b), b.lwd = LastWithData(b)
    PROVE  EmptyFrom(b.chains, b.lwd + 1)
<1> DEFINE n == Len(b.chains)
           T == {i \in DOMAIN b.chains : Off(b.chains[i]) # 0}
<1>0. n \in Nat /\ DOMAIN b.chains = 1..n
  BY HoldsFields, LenProperties DEF Holds
<1>1. CASE b.chains = <<>>
  BY <1>1 DEF EmptyFrom, OutShape
<1>2. CASE b.chains # <<>>
  <2>1. b.lwd \in T
    BY <1>0, <1>2 DEF OutShape
  <2>2. LastWithData(b) = Max(T)
    BY <2>1 DEF LastWithData
  <2>3. T \subseteq 0..n /\ T # {}
    BY <1>0, <2>1
  <2>4. \A y \in T : y <= Max(T)
    BY <1>0, <2>3, MaxProperties
  <2>5. ASSUME NEW i \in b.lwd + 1..n PROVE Off(b.chains[i]) = 0
    <3>1. b.lwd \in 1..n
      BY <1>0, <2>1
    <3>2. i \in 1..n /\ ~(i <= b.lwd)
      BY <1>0, <3>1
    <3>3. i \notin T
      BY <2>2, <2>4, <3>2
    <3> QED
      BY <1>0, <3>2, <3>3
  <2> QED
    BY <2>5 DEF EmptyFrom
<1> QED
  BY <1>1, <1>2

\* A new chain behind the data.
LEMMA ReserveNew ==
    ASSUME NEW b, NEW s, Holds(b, s), OutShape(b), EmptyFrom(b.chains, b.lwd + 1),
           b.add \in Nat, NEW d \in Seq(Byte), Len(d) > 0
    PROVE  LET x == ChainInsert(b, NewChain(Len(d), <<>>))
               e == CommitSpace(x, Len(x.chains), d)
           IN Holds(e, s \o d) /\ OutShape(e) /\ e.add = b.add + Len(d)
<1> DEFINE nc == NewChain(Len(d), <<>>)
           x == ChainInsert(b, nc)
           n == Len(b.chains)
           v == Victim(b)
           a == First(b.chains, v - 1)
<1>0. n \in Nat /\ Len(d) \in Nat /\ b.chains \in Seq(Chain) /\ s \in Seq(Byte)
  BY HoldsFields, LenProperties DEF Holds
<1>a. <<>> \in Seq(Byte) /\ Len(<<>>) = 0
  OBVIOUS
<1>b. Len(<<>>) <= Len(d)
  BY <1>0, <1>a
<1>1. nc \in Chain /\ nc.data = <<>> /\ nc.mis = 0 /\ nc.len >= Len(d) /\ Off(nc) = 0 /\ nc.len \in Nat
  <2>1. /\ nc \in Plain /\ nc.data = <<>> /\ nc.mis = 0 /\ nc.len >= Len(d) /\ Off(nc) = Len(<<>>)
    BY <1>0, <1>a, <1>b, NewChainPlain
  <2> HIDE DEF nc
  <2> QED
    BY <2>1, <1>a, ChainFields DEF Plain
<1> HIDE DEF nc
<1>2. /\ b.lwd \in 1..n + 1 /\ (b.lwd > n => n = 0)
      /\ EmptyFrom(b.chains, v) /\ (b.lwd <= n => v > b.lwd)
  BY OutShapeInsertable
<1>3. /\ Holds(x, s \o <<>>) /\ x.chains = Append(a, nc) /\ x.lwd = b.lwd /\ x.add = b.add
  <2>1. /\ Holds(x, s \o nc.data) /\ x.chains = Append(a, nc)
        /\ x.lwd = IF v = n + 1 /\ Off(nc) # 0 THEN n + 1 ELSE b.lwd
        /\ x.add = b.add
    BY <1>1, <1>2, ChainInsertHolds
  <2> HIDE DEF x, a, v
  <2> QED
    BY <1>1, <2>1, Zenon
<1>4. v = IF n = 0 THEN 1 ELSE b.lwd + 1
  <2>1. /\ v \in b.lwd..n + 1
        /\ \A i \in b.lwd..v - 1 : Off(b.chains[i]) # 0
    BY <1>0, <1>2, VictimIs
  <2> HIDE DEF v
  <2>2. CASE n = 0
    BY <2>1, <2>2, <1>2
  <2>3. CASE n # 0
    <3>1. b.lwd <= n /\ v > b.lwd /\ v \in Nat
      BY <2>1, <2>3, <1>0, <1>2
    <3>2. ASSUME v - 1 > b.lwd PROVE FALSE
      <4>1. v - 1 \in b.lwd..v - 1 /\ v - 1 \in b.lwd + 1..n
        BY <3>1, <3>2, <2>1, <1>0, <1>2
      <4> QED
        BY <4>1, <2>1 DEF EmptyFrom
    <3> QED
      BY <3>1, <3>2, <2>3, <1>2
  <2> QED
    BY <2>2, <2>3
<1>5. v - 1 \in 0..n /\ v - 1 \in Nat
  BY <1>0, <1>2, <1>4
<1>6. a \in Seq(Chain) /\ Len(a) = v - 1
  BY <1>0, <1>5, FirstProperties
<1>7. Len(x.chains) = v /\ x.chains[v] = nc
  <2> HIDE DEF a
  <2>1. Len(Append(a, nc)) = Len(a) + 1 /\ Append(a, nc)[Len(a) + 1] = nc
    BY <1>1, <1>6, AppendProperties
  <2>2. Len(a) + 1 = v
    BY <1>2, <1>4, <1>5, <1>6
  <2> HIDE DEF v, x
  <2> QED
    BY <1>3, <2>1, <2>2, Zenon
<1> HIDE DEF x, v
<1>8. Holds(x, s)
  BY <1>0, <1>3, ConcatEmptySeq
<1>9. /\ x.lwd \in 1..v /\ v \in 1..v /\ (v = x.lwd \/ v = x.lwd + 1)
      /\ nc.mis + Off(nc) + Len(d) <= nc.len
  BY <1>0, <1>1, <1>2, <1>3, <1>4
<1>10. EmptyFrom(x.chains, x.lwd + 1)
  <2>1. ASSUME NEW i \in x.lwd + 1..v PROVE Off(x.chains[i]) = 0
    <3>1. i = v
      BY <1>9
    <3> QED
      BY <3>1, <1>1, <1>7
  <2> QED
    BY <2>1, <1>7 DEF EmptyFrom
<1>11. LET e == CommitSpace(x, Len(x.chains), d) IN
       Holds(e, s \o d) /\ OutShape(e) /\ e.add = x.add + Len(d)
  BY <1>3, <1>7, <1>8, <1>9, <1>10, CommitKeeps
<1> QED
  BY <1>3, <1>11 DEF x, nc

\* A chain that is there, or one with the same data in its place.
LEMMA ReserveWith ==
    ASSUME NEW b, NEW s, Holds(b, s), OutShape(b), EmptyFrom(b.chains, b.lwd + 1),
           b.add \in Nat, NEW d \in Seq(Byte), Len(d) > 0,
           Writable(b) <= Len(b.chains),
           NEW c \in Chain, c.data = b.chains[Writable(b)].data, Space(c) # 0,
           c.mis + Off(c) + Len(d) <= c.len
    PROVE  LET x == [b EXCEPT !.chains[Writable(b)] = c]
               e == CommitSpace(x, Writable(b), d)
           IN Holds(e, s \o d) /\ OutShape(e) /\ e.add = b.add + Len(d)
<1> DEFINE w == Writable(b)
           cs == [b.chains EXCEPT ![w] = c]
           x == [b EXCEPT !.chains = cs]
           n == Len(b.chains)
<1>0. n \in Nat /\ Len(d) \in Nat /\ b.chains \in Seq(Chain) /\ s \in Seq(Byte)
      /\ s = Cat(b.chains) /\ IsBuffer(b)
  BY HoldsFields, LenProperties DEF Holds
<1>1. b.lwd \in 1..n
  <2>1. b.chains # <<>>
    <3>1. ASSUME n = 0, b.lwd = 1 PROVE FALSE
      BY <3>1 DEF Writable
    <3> QED
      BY <3>1 DEF OutShape
  <2> QED
    BY <2>1 DEF OutShape
<1>2. w = IF Space(b.chains[b.lwd]) = 0 THEN b.lwd + 1 ELSE b.lwd
  BY <1>0, <1>1 DEF Writable
<1>x. [b EXCEPT !.chains[Writable(b)] = c] = x
  BY DEF w
<1> HIDE DEF w
<1>3. w \in 1..n /\ (w = b.lwd \/ w = b.lwd + 1) /\ w <= n
  <2>1. w <= n
    BY DEF w
  <2> QED
    BY <2>1, <1>0, <1>1, <1>2
<1>4. /\ cs \in Seq(Chain) /\ Len(cs) = n /\ cs[w] = c
      /\ \A i \in 1..n : i # w => cs[i] = b.chains[i]
  BY <1>0, <1>3, ExceptSeq
<1>5. c.data = b.chains[w].data /\ Off(c) = Off(b.chains[w])
  BY DEF w, Off
<1>6. Cat(cs) = Cat(b.chains)
  <2>1. SameData(cs, b.chains, n)
    <3>1. ASSUME NEW i \in 1..n PROVE cs[i].data = b.chains[i].data
      <4>1. CASE i = w
        BY <4>1, <1>4, <1>5
      <4>2. CASE i # w
        BY <4>2, <1>4
      <4> QED
        BY <4>1, <4>2
    <3> QED
      BY <3>1 DEF SameData
  <2> QED
    BY <1>0, <1>4, <2>1, CatSame
<1> HIDE DEF cs
<1>7. /\ x.chains = cs /\ x.lwd = b.lwd /\ x.total = b.total /\ x.bad = b.bad
      /\ x.add = b.add /\ IsBuffer(x)
  BY <1>0 DEF IsBuffer, Fields
<1> HIDE DEF x
<1>8. Holds(x, s)
  BY <1>0, <1>4, <1>6, <1>7, Zenon DEF Holds
<1>9. ASSUME NEW i \in 1..n PROVE Off(cs[i]) = Off(b.chains[i])
  BY <1>4, <1>5
<1>10. EmptyFrom(x.chains, x.lwd + 1)
  <2>1. ASSUME NEW i \in b.lwd + 1..n PROVE Off(cs[i]) = 0
    <3>1. i \in 1..n
      BY <1>0, <1>1
    <3> QED
      BY <1>9, <3>1 DEF EmptyFrom
  <2> QED
    BY <1>4, <1>7, <2>1 DEF EmptyFrom
<1>11. Writable(x) = w
  <2>0. x.lwd <= Len(x.chains) /\ x.lwd = b.lwd /\ x.chains[b.lwd] = cs[b.lwd]
    BY <1>0, <1>1, <1>4, <1>7
  <2>1. CASE w = b.lwd
    <3>1. x.chains[x.lwd] = c
      BY <2>0, <2>1, <1>4
    <3> QED
      BY <2>0, <2>1, <3>1 DEF Writable
  <2>2. CASE w # b.lwd
    <3>1. w = b.lwd + 1 /\ Space(b.chains[b.lwd]) = 0
      BY <2>2, <1>2
    <3>2. x.chains[x.lwd] = b.chains[b.lwd]
      BY <2>0, <2>2, <1>1, <1>4
    <3> QED
      BY <2>0, <3>1, <3>2 DEF Writable
  <2> QED
    BY <2>1, <2>2
<1>12. LET e == CommitSpace(x, w, d) IN
       Holds(e, s \o d) /\ OutShape(e) /\ e.add = x.add + Len(d)
  <2>1. x.chains[w] = c /\ x.lwd \in 1..Len(x.chains) /\ w \in 1..Len(x.chains)
        /\ (w = x.lwd \/ w = x.lwd + 1) /\ x.add \in Nat
    BY <1>1, <1>3, <1>4, <1>7
  <2> QED
    BY <1>8, <1>10, <1>11, <2>1, CommitKeeps
<1>13. LET e == CommitSpace(x, w, d) IN
       Holds(e, s \o d) /\ OutShape(e) /\ e.add = b.add + Len(d)
  BY <1>7, <1>12
<1> QED
  BY <1>x, <1>13 DEF w

\* evbuffer_reserve_space() and evbuffer_commit_space()
LEMMA ReserveKeeps ==
    ASSUME NEW b, NEW s, Holds(b, s), OutShape(b), EmptyFrom(b.chains, b.lwd + 1),
           b.add \in Nat, NEW d \in Seq(Byte), Len(d) > 0
    PROVE  LET e == ReserveCommit(b, d) IN
           \/ e = b
           \/ Holds(e, s \o d) /\ OutShape(e) /\ e.add = b.add + Len(d)
<1> DEFINE n == Len(d)
           l == Len(b.chains)
           w == Writable(b)
           c == b.chains[w]
           nb == ChainInsert(b, NewChain(n, <<>>))
           new == [buf |-> nb, slot |-> Len(nb.chains)]
           with(ch) == [buf |-> [b EXCEPT !.chains[w] = ch], slot |-> w]
           notWorth == Space(c) < c.len \div 8 \/ Off(c) > MaxCopy
           nextFits == w < l /\ Space(b.chains[w + 1]) >= n
           r == ExpandSinglechain(b, n)
           Good(e) == Holds(e, s \o d) /\ OutShape(e) /\ e.add = b.add + Len(d)
<1>0. l \in Nat /\ n \in Nat /\ \A i \in 1..l : b.chains[i] \in Chain
  BY HoldsFields, LenProperties
<1>a. ReserveCommit(b, d) = CommitSpace(r.buf, r.slot, d)
  BY DEF ReserveCommit
<1>1. ASSUME r = new PROVE Good(ReserveCommit(b, d))
  <2>1. r.buf = nb /\ r.slot = Len(nb.chains)
    BY <1>1
  <2> HIDE DEF r
  <2> QED
    BY <1>a, <2>1, ReserveNew
<1>2. ASSUME NEW ch \in Chain, r = with(ch), w <= l, ch.data = c.data, Space(ch) # 0,
             ch.mis + Off(ch) + n <= ch.len
      PROVE  Good(ReserveCommit(b, d))
  <2>1. r.buf = [b EXCEPT !.chains[w] = ch] /\ r.slot = w
    BY <1>2
  <2> HIDE DEF r
  <2>2. w <= Len(b.chains) /\ ch.data = b.chains[w].data /\ ch.mis + Off(ch) + Len(d) <= ch.len
    BY <1>2
  <2> DEFINE x == [b EXCEPT !.chains[w] = ch]
  <2>3. Good(CommitSpace(x, w, d))
    BY <1>2, <2>2, ReserveWith
  <2>4. ReserveCommit(b, d) = CommitSpace(x, w, d)
    BY <1>a, <2>1
  <2> HIDE DEF x, w
  <2> QED
    BY <2>3, <2>4
<1>3. CASE w > l \/ c.imm
  <2>1. r = new
    BY <1>3, Zenon DEF ExpandSinglechain
  <2> QED
    BY <1>1, <2>1
<1>4. CASE ~(w > l \/ c.imm)
  <2>0. /\ w \in 1..l /\ ~c.imm /\ c \in Chain
        /\ b.lwd \in 1..l
        /\ w = b.lwd \/ (w = b.lwd + 1 /\ Space(b.chains[b.lwd]) = 0)
    <3>1. b.chains # <<>> \/ b.lwd = 1
      BY DEF OutShape
    <3>2. b.lwd \in 1..l \/ (b.chains = <<>> /\ b.lwd = 1)
      BY DEF OutShape
    <3>3. b.lwd \in 1..l
      <4>1. ASSUME b.chains = <<>>, b.lwd = 1 PROVE w = 1 /\ l = 0
        BY <4>1 DEF Writable
      <4> QED
        BY <3>2, <4>1, <1>4
    <3>4. w = IF Space(b.chains[b.lwd]) = 0 THEN b.lwd + 1 ELSE b.lwd
      BY <1>0, <3>3 DEF Writable
    <3> HIDE DEF w
    <3>5. w \in 1..l
      BY <1>0, <1>4, <3>3, <3>4
    <3> QED
      BY <1>0, <1>4, <3>3, <3>4, <3>5
  <2> DEFINE rc == [c EXCEPT !.mis = 0]
             cc == NewChain(Off(c) + n, c.data)
  <2>b. /\ c.data \in Seq(Byte) /\ c.mis \in Nat /\ c.len \in Nat /\ Off(c) \in Nat
        /\ c.mis + Off(c) <= c.len /\ Space(c) \in Nat /\ c.mis + Off(c) + Space(c) = c.len
    BY <2>0, ChainFields, SpaceIs
  <2>1. CASE Space(c) >= n
    <3>1. r = with(c)
      BY <1>4, <2>1, Zenon DEF ExpandSinglechain
    <3>2. Space(c) # 0 /\ c.mis + Off(c) + n <= c.len /\ w <= l
      BY <1>0, <2>0, <2>1, <2>b
    <3> HIDE DEF r, w
    <3> QED
      BY <1>2, <2>0, <3>1, <3>2
  <2>2. CASE ~(Space(c) >= n) /\ Off(c) = 0
    <3>1. r = new
      BY <1>4, <2>2, Zenon DEF ExpandSinglechain
    <3> QED
      BY <1>1, <3>1
  <2>3. CASE ~(Space(c) >= n) /\ ~(Off(c) = 0) /\ ShouldRealign(c, n)
    <3>1. r = with(rc)
      BY <1>4, <2>3, Zenon DEF ExpandSinglechain
    <3>2. rc \in Chain /\ rc.data = c.data /\ rc.mis = 0 /\ rc.len = c.len /\ rc.imm = c.imm /\ Off(rc) = Off(c)
      BY <2>0, Realigned
    <3> HIDE DEF rc
    <3>3. rc.mis + Off(rc) + n <= rc.len /\ w <= l
      BY <1>0, <2>0, <2>3, <2>b, <3>2 DEF ShouldRealign
    <3>4. Space(rc) # 0
      BY <1>0, <2>0, <2>b, <3>2, <3>3 DEF Space
    <3> HIDE DEF r, w
    <3> QED
      BY <1>2, <3>1, <3>2, <3>3, <3>4
  <2>4. CASE ~(Space(c) >= n) /\ ~(Off(c) = 0) /\ ~ShouldRealign(c, n)
    <3>0. w = b.lwd
      <4>1. ASSUME w = b.lwd + 1 PROVE Off(c) = 0
        BY <4>1, <2>0, <1>0 DEF EmptyFrom
      <4> QED
        BY <4>1, <2>0, <2>4
    <3>1. CASE notWorth /\ nextFits
      <4>1. r = [buf |-> b, slot |-> w + 1]
        BY <1>4, <2>4, <3>1, Zenon DEF ExpandSinglechain
      <4>2. ReserveCommit(b, d) = CommitSpace(b, w + 1, d)
        <5>1. r.buf = b /\ r.slot = w + 1
          BY <4>1
        <5> HIDE DEF r
        <5> QED
          BY <1>a, <5>1
      <4>3. w + 1 \in 1..l
        BY <1>0, <2>0, <3>1
      <4>4. CASE w + 1 = l
        <5> DEFINE nx == b.chains[w + 1]
        <5>1. nx \in Chain /\ Space(nx) >= n
          BY <1>0, <3>1, <4>3
        <5>2. nx.mis + Off(nx) + n <= nx.len
          BY <1>0, <5>1, SpaceIs, ChainFields
        <5>3. w + 1 = b.lwd + 1
          BY <3>0
        <5> HIDE DEF w, r
        <5>4. LET e == CommitSpace(b, w + 1, d) IN
              Holds(e, s \o d) /\ OutShape(e) /\ e.add = b.add + Len(d)
          BY <2>0, <4>3, <4>4, <5>2, <5>3, CommitKeeps
        <5> QED
          BY <4>2, <5>4
      <4>5. CASE w + 1 # l
        <5>1. w + 1 # Writable(b)
          BY <1>0, <2>0
        <5>2. CommitSpace(b, w + 1, d) = b
          BY <4>5, <5>1 DEF CommitSpace
        <5> QED
          BY <4>2, <5>2
      <4> QED
        BY <4>4, <4>5
    <3>2. CASE notWorth /\ ~nextFits
      <4>1. r = new
        BY <1>4, <2>4, <3>2, Zenon DEF ExpandSinglechain
      <4> QED
        BY <1>1, <4>1
    <3>3. CASE ~notWorth
      <4>1. r = with(cc)
        BY <1>4, <2>4, <3>3, Zenon DEF ExpandSinglechain
      <4> DEFINE m == Off(c) + n
      <4>2. m \in Nat /\ Len(c.data) <= m /\ Len(c.data) = Off(c)
        BY <1>0, <2>b DEF Off
      <4> HIDE DEF m
      <4>3. /\ NewChain(m, c.data) \in Plain /\ NewChain(m, c.data).data = c.data
            /\ NewChain(m, c.data).mis = 0 /\ NewChain(m, c.data).len = BufferLen(m)
            /\ NewChain(m, c.data).len >= m /\ Off(NewChain(m, c.data)) = Len(c.data)
            /\ Space(NewChain(m, c.data)) = BufferLen(m) - Len(c.data)
        BY <2>b, <4>2, NewChainPlain
      <4>4. /\ cc \in Chain /\ cc.data = c.data
            /\ cc.mis = 0 /\ cc.len = BufferLen(m)
            /\ cc.len >= m /\ Off(cc) = Off(c)
            /\ Space(cc) = BufferLen(m) - Off(c)
        BY <4>2, <4>3 DEF Plain, m
      <4> HIDE DEF cc
      <4>5. cc.mis + Off(cc) + n <= cc.len /\ w <= l /\ Space(cc) # 0
        <5>1. BufferLen(m) \in Nat
          BY <4>2, BufferLenEnough
        <5> QED
          BY <1>0, <2>0, <2>b, <4>4, <5>1 DEF m
      <4> HIDE DEF r, w
      <4> QED
        BY <1>2, <4>1, <4>4, <4>5
    <3> QED
      BY <3>1, <3>2, <3>3
  <2> QED
    BY <2>1, <2>2, <2>3, <2>4
<1> QED
  BY <1>3, <1>4

-----------------------------------------------------------------------------
(* Moving data from the input to the output.                                 *)

\* Chains put behind those that a buffer has.
LEMMA JoinChains ==
    ASSUME NEW cs \in Seq(Chain), NEW ds \in Seq(Chain)
    PROVE  /\ cs \o ds \in Seq(Chain) /\ Len(cs \o ds) = Len(cs) + Len(ds)
           /\ \A i \in 1..Len(cs) : (cs \o ds)[i] = cs[i]
           /\ \A i \in 1..Len(ds) : (cs \o ds)[Len(cs) + i] = ds[i]
           /\ Cat(cs \o ds) = Cat(cs) \o Cat(ds)
<1> DEFINE e == cs \o ds
           m == Len(cs)
           n == Len(ds)
<1>1. /\ e \in Seq(Chain) /\ Len(e) = m + n /\ m \in Nat /\ n \in Nat
      /\ \A i \in 1..m + n : e[i] = IF i <= m THEN cs[i] ELSE ds[i - m]
  BY ConcatProperties, LenProperties
<1>2. Cat(e) = Cat(cs) \o Cat(ds)
  BY CatConcat
<1> HIDE DEF e, m, n
<1>3. ASSUME NEW i \in 1..m PROVE e[i] = cs[i]
  BY <1>1
<1>4. ASSUME NEW i \in 1..n PROVE e[m + i] = ds[i]
  <2>1. m + i \in 1..m + n /\ ~(m + i <= m) /\ m + i - m = i
    BY <1>1
  <2>2. e[m + i] = ds[m + i - m]
    BY <1>1, <2>1
  <2> QED
    BY <2>1, <2>2
<1> QED
  BY <1>1, <1>2, <1>3, <1>4 DEF e, m, n

\* An input with data: the chains with data are those up to last_with_datap.
LEMMA InShapeData ==
    ASSUME NEW b, NEW s, Holds(b, s), InShape(b), Len(s) > 0
    PROVE  /\ b.lwd \in 1..Len(b.chains) /\ Len(b.chains) \in Nat
           /\ \A i \in 1..Len(b.chains) : Off(b.chains[i]) # 0 <=> i <= b.lwd
<1>1. ~NoData(b.chains)
  <2>1. ASSUME NoData(b.chains) PROVE FALSE
    <3>1. s = <<>>
      BY <2>1, CatNoData DEF Holds
    <3> QED
      BY <3>1
  <2> QED
    BY <2>1
<1> QED
  BY <1>1, HoldsFields DEF InShape

\* evbuffer_add_buffer()
LEMMA AddBufferKeeps ==
    ASSUME NEW out, NEW s, Holds(out, s), OutShape(out), out.add = 0,
           NEW in, NEW t, Holds(in, t), InShape(in), Len(t) > 0
    PROVE  LET e == AddBuffer(out, in) IN
           Holds(e, s \o t) /\ OutShape(e) /\ e.add = Len(t)
<1> DEFINE cs == IF out.total = 0 THEN in.chains ELSE out.chains \o in.chains
           l == IF out.total = 0 THEN in.lwd ELSE Len(out.chains) + in.lwd
           u == out.total + in.total
           a == out.add + in.total
           z == out.bad \/ in.bad
           p == IF out.total = 0 THEN 0 ELSE Len(out.chains)
           e == AddBuffer(out, in)
<1>0. /\ out.chains \in Seq(Chain) /\ s \in Seq(Byte) /\ s = Cat(out.chains)
      /\ out.total = Len(s) /\ out.bad = FALSE /\ IsBuffer(out) /\ Len(s) \in Nat
      /\ in.chains \in Seq(Chain) /\ t \in Seq(Byte) /\ t = Cat(in.chains)
      /\ in.total = Len(t) /\ in.bad = FALSE /\ Len(t) \in Nat /\ Len(out.chains) \in Nat
  BY HoldsFields DEF Holds
<1>1. /\ in.lwd \in 1..Len(in.chains) /\ Len(in.chains) \in Nat
      /\ \A i \in 1..Len(in.chains) : Off(in.chains[i]) # 0 <=> i <= in.lwd
  BY InShapeData
<1>2. /\ cs \in Seq(Chain) /\ Cat(cs) = s \o t /\ Len(cs) = p + Len(in.chains)
      /\ l = p + in.lwd /\ p \in Nat
      /\ \A i \in 1..Len(in.chains) : cs[p + i] = in.chains[i]
  <2>1. CASE out.total = 0
    <3>1. s = <<>>
      BY <1>0, <2>1, EmptySeq
    <3>2. s \o t = t
      BY <1>0, <3>1, ConcatEmptySeq
    <3>3. cs = in.chains /\ l = in.lwd /\ p = 0
      BY <2>1
    <3>4. in.lwd = 0 + in.lwd /\ Len(in.chains) = 0 + Len(in.chains)
          /\ \A i \in 1..Len(in.chains) : 0 + i = i
      BY <1>1
    <3> HIDE DEF cs, l, p
    <3>5. cs \in Seq(Chain) /\ Cat(cs) = s \o t /\ Len(cs) = p + Len(in.chains)
          /\ l = p + in.lwd /\ p \in Nat
      BY <1>0, <3>2, <3>3, <3>4
    <3>6. ASSUME NEW i \in 1..Len(in.chains) PROVE cs[p + i] = in.chains[i]
      BY <3>3, <3>4
    <3> QED
      BY <3>5, <3>6
  <2>2. CASE out.total # 0
    <3>1. cs = out.chains \o in.chains /\ l = Len(out.chains) + in.lwd /\ p = Len(out.chains)
      BY <2>2
    <3> HIDE DEF cs, l, p
    <3> QED
      BY <1>0, <3>1, JoinChains
  <2> QED
    BY <2>1, <2>2
<1>3. u = Len(s \o t) /\ a = Len(t) /\ z = FALSE
  <2>1. Len(s \o t) = Len(s) + Len(t)
    BY <1>0, ConcatProperties
  <2> QED
    BY <1>0, <2>1
<1>4. e = [out EXCEPT !.chains = cs, !.lwd = l, !.total = u, !.add = a, !.bad = z]
  BY Zenon DEF AddBuffer
<1> HIDE DEF cs, l, u, a, z, e, p
<1>5. e.chains = cs /\ e.lwd = l /\ e.total = u /\ e.add = a /\ e.bad = z /\ IsBuffer(e)
  BY <1>0, <1>4 DEF IsBuffer, Fields
<1>6. Holds(e, s \o t)
  BY <1>2, <1>3, <1>5, Zenon DEF Holds
<1>7. OutShape(e)
  <2>1. l \in 1..Len(cs) /\ Off(cs[l]) # 0
    BY <1>1, <1>2
  <2>2. ASSUME NEW i \in l + 1..Len(cs) PROVE Off(cs[i]) = 0
    <3>1. i - p \in 1..Len(in.chains) /\ p + (i - p) = i /\ ~(i - p <= in.lwd)
      BY <1>1, <1>2
    <3>2. cs[i] = in.chains[i - p]
      BY <1>2, <3>1
    <3> QED
      BY <1>1, <3>1, <3>2
  <2> QED
    BY <1>5, <2>1, <2>2 DEF OutShape
<1> QED
  BY <1>3, <1>5, <1>6, <1>7 DEF e

\* evbuffer_add_buffer(), for the buffer that is emptied.
LEMMA EmptiedKeeps ==
    ASSUME NEW b, NEW s, Holds(b, s), b.del \in Nat
    PROVE  LET e == Emptied(b) IN Holds(e, <<>>) /\ InShape(e)
<1> DEFINE e == Emptied(b)
           z == b.del + b.total
<1>0. IsBuffer(b) /\ b.bad = FALSE
  BY DEF Holds
<1>1. e = [b EXCEPT !.chains = <<>>, !.lwd = 1, !.total = 0, !.del = z]
  <2>1. e = [ZeroChain(b) EXCEPT !.del = @ + b.total]
    BY DEF Emptied
  <2>2. ZeroChain(b).del = b.del
    BY <1>0 DEF ZeroChain, IsBuffer, Fields
  <2> HIDE DEF e
  <2>3. e = [ZeroChain(b) EXCEPT !.del = z]
    BY <2>1, <2>2
  <2> HIDE DEF z
  <2> QED
    BY <2>3 DEF ZeroChain
<1> HIDE DEF z, e
<1>3. e.chains = <<>> /\ e.lwd = 1 /\ e.total = 0 /\ e.bad = b.bad /\ IsBuffer(e)
  BY <1>0, <1>1 DEF IsBuffer, Fields
<1>4. <<>> \in Seq(Chain) /\ Len(<<>>) = 0 /\ <<>> \in Seq(Plain)
  OBVIOUS
<1>5. Holds(e, <<>>)
  BY <1>0, <1>3, <1>4, CatEmpty DEF Holds
<1>6. InShape(e)
  BY <1>3, <1>4 DEF InShape, NoData
<1> QED
  BY <1>5, <1>6 DEF e

\* What evbuffer_remove_buffer() finds in the input: the chains it moves all
\* have data and the last with data is not one of them; if they hold nothing
\* there are none.
LEMMA MovedChains ==
    ASSUME NEW in, NEW t, Holds(in, t), InShape(in), NEW n \in Nat, n < Len(t)
    PROVE  LET k == Whole(in, n) IN
           /\ k \in 0..Len(in.chains) /\ k < in.lwd /\ in.lwd \in 1..Len(in.chains)
           /\ Len(in.chains) \in Nat
           /\ \A i \in 1..k : Off(in.chains[i]) # 0
           /\ Bytes(in, k) = 0 => k = 0
<1> DEFINE k == Whole(in, n)
           l == Len(in.chains)
<1>1. k \in Nat /\ k < l /\ l \in Nat /\ Off(in.chains[k + 1]) # 0
  BY BehindChains
<1>2. Len(t) > 0 /\ in.chains \in Seq(Chain)
  <2>1. Len(t) \in Nat
    BY HoldsFields
  <2> QED
    BY <2>1 DEF Holds
<1>3. in.lwd \in 1..l /\ \A i \in 1..l : Off(in.chains[i]) # 0 <=> i <= in.lwd
  BY <1>2, InShapeData
<1>4. Bytes(in, k) \in Nat
  BY <1>2, WholeIs
<1> HIDE DEF k, l
<1>5. k < in.lwd
  <2>1. k + 1 \in 1..l
    BY <1>1
  <2> QED
    BY <2>1, <1>1, <1>3
<1>6. ASSUME NEW i \in 1..k PROVE Off(in.chains[i]) # 0
  <2>1. i \in 1..l /\ i <= in.lwd
    BY <1>1, <1>3, <1>5
  <2> QED
    BY <2>1, <1>3
<1>7. ASSUME k # 0 PROVE Bytes(in, k) # 0
  <2> DEFINE j == k - 1
  <2>1. j \in 0..l /\ j < l /\ j + 1 = k /\ k \in 1..k
    BY <1>1, <1>7
  <2> HIDE DEF j
  <2>2. /\ Bytes(in, j) \in Nat /\ Off(in.chains[j + 1]) \in Nat
        /\ Bytes(in, j + 1) = Bytes(in, j) + Off(in.chains[j + 1])
    BY <1>2, <2>1, BytesNext DEF l
  <2> QED
    BY <2>1, <2>2, <1>6
<1> QED
  BY <1>1, <1>3, <1>5, <1>6, <1>7 DEF k, l

\* The buffer that gets the chains, before the rest is copied.
Moved(in, out, n) ==
    LET k == Whole(in, n)
        nread == Bytes(in, k)
    IN [Trimmed(out) EXCEPT !.chains = @ \o First(in.chains, k),
                            !.total = @ + nread,
                            !.add = @ + nread,
                            !.bad = @ \/ in.lwd <= k]

\* The chains that evbuffer_remove_buffer() moves as a whole.
LEMMA MovedKeeps ==
    ASSUME NEW out, NEW s, Holds(out, s), OutShape(out), out.add = 0,
           NEW in, NEW t, Holds(in, t), InShape(in), NEW n \in Nat, n < Len(t),
           Bytes(in, Whole(in, n)) # 0
    PROVE  LET k == Whole(in, n)
               e == Advanced(Moved(in, out, n))
           IN /\ Holds(e, s \o Cat(First(in.chains, k))) /\ OutShape(e)
              /\ e.add = Bytes(in, k) /\ e.lwd = Len(e.chains)
              /\ e.chains # <<>> /\ e.chains[Len(e.chains)] \in Plain
<1> DEFINE k == Whole(in, n)
           nread == Bytes(in, k)
           ds == First(in.chains, k)
           x == Trimmed(out)
           v == Victim(out)
           cs == x.chains \o ds
           u == x.total + nread
           a == x.add + nread
           z == x.bad \/ in.lwd <= k
           m == Moved(in, out, n)
           e == Advanced(m)
           p == Len(x.chains)
<1>0. /\ k \in 0..Len(in.chains) /\ k < in.lwd /\ in.lwd \in 1..Len(in.chains)
      /\ Len(in.chains) \in Nat /\ \A i \in 1..k : Off(in.chains[i]) # 0
  BY MovedChains
<1>1. /\ in.chains \in Seq(Chain) /\ in.chains \in Seq(Plain) /\ Len(out.chains) \in Nat
      /\ out.chains \in Seq(Chain) /\ s \in Seq(Byte) /\ Len(s) \in Nat
  BY HoldsFields DEF Holds, InShape
<1>2. nread \in Nat /\ nread = Len(Cat(ds))
  <2>1. nread \in Nat
    BY <1>1, WholeIs
  <2> QED
    BY <2>1, <1>0, <1>1, BytesCat
<1>3. k # 0
  <2>1. ASSUME k = 0 PROVE FALSE
    <3>1. First(in.chains, 0) \in Seq(Chain) /\ Len(First(in.chains, 0)) = 0
      BY <1>0, <1>1, <2>1, FirstProperties
    <3>2. First(in.chains, 0) = <<>>
      BY <3>1, EmptySeq
    <3>3. nread = Len(<<>>)
      BY <1>2, <2>1, <3>2, CatEmpty
    <3> QED
      BY <3>3
  <2> QED
    BY <2>1
<1>4. ds \in Seq(Chain) /\ Len(ds) = k /\ \A i \in 1..k : ds[i] = in.chains[i]
  BY <1>0, <1>1, FirstProperties
<1>5. /\ out.lwd \in 1..Len(out.chains) + 1
      /\ EmptyFrom(out.chains, v) /\ (out.lwd <= Len(out.chains) => v > out.lwd)
      /\ (out.lwd > Len(out.chains) => Len(out.chains) = 0)
  BY OutShapeInsertable
<1>6. /\ Holds(x, s) /\ x.chains = First(out.chains, v - 1)
      /\ x.lwd = out.lwd /\ x.add = out.add /\ x.del = out.del
  BY <1>5, TrimmedHolds
<1>7. /\ v \in out.lwd..Len(out.chains) + 1
      /\ \A i \in out.lwd..v - 1 : Off(out.chains[i]) # 0
  BY <1>1, <1>5, VictimIs
<1>8. /\ x.chains \in Seq(Chain) /\ p = v - 1 /\ v - 1 \in Nat
      /\ \A i \in 1..v - 1 : x.chains[i] = out.chains[i]
  <2>1. v - 1 \in 0..Len(out.chains)
    BY <1>1, <1>5, <1>7
  <2>2. /\ First(out.chains, v - 1) \in Seq(Chain) /\ Len(First(out.chains, v - 1)) = v - 1
        /\ \A i \in 1..v - 1 : First(out.chains, v - 1)[i] = out.chains[i]
    BY <2>1, <1>1, FirstProperties
  <2> HIDE DEF x, v
  <2> QED
    BY <2>1, <2>2, <1>6
<1>9. /\ cs \in Seq(Chain) /\ Len(cs) = p + k
      /\ \A i \in 1..p : cs[i] = x.chains[i]
      /\ \A i \in 1..k : cs[p + i] = ds[i]
      /\ Cat(cs) = Cat(x.chains) \o Cat(ds)
  <2> HIDE DEF x, ds
  <2>1. /\ cs \in Seq(Chain) /\ Len(cs) = p + Len(ds)
        /\ \A i \in 1..p : cs[i] = x.chains[i]
        /\ \A i \in 1..Len(ds) : cs[p + i] = ds[i]
        /\ Cat(cs) = Cat(x.chains) \o Cat(ds)
    BY <1>4, <1>8, JoinChains
  <2> HIDE DEF cs, k, p
  <2> QED
    BY <1>4, <2>1, Zenon
<1>10. /\ IsBuffer(x) /\ x.total = Len(s) /\ s = Cat(x.chains) /\ x.bad = FALSE
       /\ Cat(ds) \in Seq(Byte)
  BY <1>4, <1>6, CatType DEF Holds
<1>11. u = Len(s \o Cat(ds)) /\ a = nread /\ z = FALSE
  <2>1. Len(s \o Cat(ds)) = Len(s) + Len(Cat(ds))
    BY <1>1, <1>10, ConcatProperties
  <2> QED
    BY <1>0, <1>1, <1>2, <1>6, <1>10, <2>1
<1>12. m = [x EXCEPT !.chains = cs, !.total = u, !.add = a, !.bad = z]
  BY Zenon DEF Moved
<1> HIDE DEF cs, u, a, z, m, x, v, k, ds, nread
<1>13. m.chains = cs /\ m.lwd = x.lwd /\ m.total = u /\ m.add = a /\ m.bad = z /\ IsBuffer(m)
  BY <1>10, <1>12 DEF IsBuffer, Fields
<1> DEFINE q == p + k
<1>14. /\ q \in Nat /\ q = Len(m.chains) /\ m.lwd \in 1..q
       /\ \A i \in m.lwd + 1..q : Off(m.chains[i]) # 0
       /\ Off(cs[q]) # 0 /\ cs[q] = in.chains[k]
  <2>1. q \in Nat /\ q = Len(cs) /\ k \in 1..k /\ k \in Nat /\ p \in Nat
    BY <1>0, <1>3, <1>8, <1>9
  <2>2. cs[q] = in.chains[k] /\ Off(cs[q]) # 0
    BY <2>1, <1>0, <1>4, <1>9
  <2>3. out.lwd \in 1..q
    BY <2>1, <1>1, <1>5, <1>7, <1>8
  <2>4. ASSUME NEW i \in out.lwd + 1..q PROVE Off(cs[i]) # 0
    <3>1. CASE i <= p
      <4>1. i \in 1..p /\ i \in 1..v - 1 /\ i \in out.lwd..v - 1
        BY <3>1, <2>1, <2>3, <1>8
      <4> QED
        BY <4>1, <1>7, <1>8, <1>9
    <3>2. CASE ~(i <= p)
      <4>1. i - p \in 1..k /\ p + (i - p) = i
        BY <3>2, <2>1, <2>3
      <4>2. cs[i] = in.chains[i - p]
        BY <4>1, <1>4, <1>9
      <4> QED
        BY <4>1, <4>2, <1>0
    <3> QED
      BY <3>1, <3>2
  <2> QED
    BY <2>1, <2>2, <2>3, <2>4, <1>6, <1>13
<1>15. e = [m EXCEPT !.lwd = q]
  BY <1>14, AdvancedIs
<1> HIDE DEF q, e
<1>16. e.chains = cs /\ e.lwd = q /\ e.total = u /\ e.add = a /\ e.bad = z /\ IsBuffer(e)
  BY <1>13, <1>15 DEF IsBuffer, Fields
<1>17. Holds(e, s \o Cat(ds))
  BY <1>9, <1>10, <1>11, <1>16, Zenon DEF Holds
<1>18. q = Len(cs) /\ q \in 1..q /\ cs # <<>>
  <2>1. q = Len(cs) /\ q \in 1..q /\ q # 0
    BY <1>13, <1>14
  <2> QED
    BY <2>1
<1>19. OutShape(e)
  <2>1. ASSUME NEW i \in q + 1..q PROVE FALSE
    BY <1>14
  <2> QED
    BY <1>14, <1>16, <1>18, <2>1 DEF OutShape
<1>20. cs[q] \in Plain
  <2>1. k \in 1..Len(in.chains)
    BY <1>0, <1>3
  <2>2. in.chains[k] \in Plain
    BY <1>1, <2>1, ElementOfSeq
  <2> QED
    BY <2>2, <1>14
<1> QED
  BY <1>11, <1>16, <1>17, <1>18, <1>19, <1>20 DEF e, k, ds, nread, m

\* evbuffer_remove_buffer(), for the buffer that gets the bytes ...
LEMMA RemoveBufferKeeps ==
    ASSUME NEW out, NEW s, Holds(out, s), OutShape(out), out.add = 0,
           Len(out.chains) <= out.lwd + 1,
           NEW in, NEW t, Holds(in, t), InShape(in), NEW n \in Nat, n < Len(t), n > 0
    PROVE  LET e == RemoveBuffer(in, out, n) IN
           Holds(e, s \o First(t, n)) /\ OutShape(e) /\ e.add = n
<1> DEFINE k == Whole(in, n)
           nread == Bytes(in, k)
           c == in.chains[k + 1]
           m == n - nread
           d == First(c.data, m)
           y == Cat(First(in.chains, k))
           x == IF nread = 0 THEN out ELSE Advanced(Moved(in, out, n))
           e == RemoveBuffer(in, out, n)
<1>0. in.chains \in Seq(Chain) /\ t = Cat(in.chains) /\ s \in Seq(Byte)
  BY HoldsFields DEF Holds
<1>1. /\ k \in 0..Len(in.chains) /\ c \in Chain /\ m \in Nat /\ m < Off(c)
      /\ First(t, n) = y \o d
  BY <1>0, BehindIs
<1>2. nread \in Nat /\ nread = Len(y) /\ y \in Seq(Byte)
  <2>1. nread \in Nat
    BY <1>0, WholeIs
  <2>2. y \in Seq(Byte)
    BY <1>0, <1>1, FirstProperties, CatType
  <2> QED
    BY <2>1, <2>2, <1>0, <1>1, BytesCat
<1>3. d \in Seq(Byte) /\ Len(d) = m
  <2>1. c.data \in Seq(Byte) /\ Off(c) \in Nat /\ Off(c) = Len(c.data)
    BY <1>1, ChainFields DEF Off
  <2>2. m <= Len(c.data)
    BY <1>1, <2>1
  <2> HIDE DEF m, c
  <2> QED
    BY <1>1, <2>1, <2>2, FirstRest
<1>4. e = EvbufferAdd(x, d)
  BY Zenon DEF RemoveBuffer, Moved
<1>5. /\ Holds(x, s \o y) /\ OutShape(x) /\ x.add = nread
      /\ Len(x.chains) <= x.lwd + 1
      /\ Len(d) > 0 \/ (x.chains # <<>> /\ ~x.chains[Len(x.chains)].imm)
  <2>1. CASE nread = 0
    <3>1. y = <<>>
      BY <2>1, <1>2, EmptySeq
    <3>2. s \o y = s
      BY <1>0, <3>1, ConcatEmptySeq
    <3>3. x = out
      BY <2>1
    <3>4. Len(d) > 0
      BY <2>1, <1>3
    <3> QED
      BY <2>1, <3>2, <3>3, <3>4
  <2>2. CASE nread # 0
    <3>1. x = Advanced(Moved(in, out, n))
      BY <2>2
    <3>2. /\ Holds(x, s \o y) /\ OutShape(x)
          /\ x.add = nread /\ x.lwd = Len(x.chains)
          /\ x.chains # <<>> /\ x.chains[Len(x.chains)] \in Plain
      BY <2>2, <3>1, MovedKeeps
    <3> HIDE DEF x
    <3>3. Len(x.chains) <= x.lwd + 1
      <4>1. Len(x.chains) \in Nat
        BY <3>2, HoldsFields
      <4> QED
        BY <4>1, <3>2
    <3>4. ~x.chains[Len(x.chains)].imm
      BY <3>2 DEF Plain
    <3> QED
      BY <3>2, <3>3, <3>4
  <2> QED
    BY <2>1, <2>2
<1> HIDE DEF x, d, y, e, m, nread
<1>6. Holds(e, (s \o y) \o d) /\ OutShape(e) /\ e.add = x.add + Len(d)
  <2>1. x.add \in Nat
    BY <1>2, <1>5
  <2> QED
    BY <1>3, <1>4, <1>5, <2>1, AddKeeps
<1>7. (s \o y) \o d = s \o (y \o d)
  BY <1>0, <1>2, <1>3, Associative
<1>8. e.add = n
  BY <1>2, <1>3, <1>5, <1>6 DEF m
<1>9. Holds(e, s \o First(t, n))
  BY <1>1, <1>6, <1>7, Zenon
<1> QED
  BY <1>6, <1>8, <1>9 DEF e

\* ... and for the one that loses them.
LEMMA RemovedFromKeeps ==
    ASSUME NEW b, NEW s, Holds(b, s), InShape(b), NEW n \in Nat, n < Len(s), b.del \in Nat
    PROVE  LET e == RemovedFrom(b, n) IN Holds(e, Rest(s, n)) /\ InShape(e)
<1> DEFINE k == Whole(b, n)
           m == n - Bytes(b, k)
           r == Behind(b, k, m)
           cs == IF Bytes(b, k) = 0 THEN First(b.chains, k) \o r ELSE r
           l == SlotBehind(b.lwd, k)
           t == b.total - n
           z == b.del + n
           e == RemovedFrom(b, n)
<1>0. /\ s \in Seq(Byte) /\ Len(s) \in Nat /\ b.total = Len(s) /\ IsBuffer(b) /\ b.bad = FALSE
      /\ b.chains \in Seq(Chain) /\ s = Cat(b.chains)
  BY HoldsFields DEF Holds
<1>1. e = [b EXCEPT !.chains = cs, !.lwd = l, !.total = t, !.del = z]
  BY Zenon DEF RemovedFrom
<1>2. r \in Seq(Chain) /\ Cat(r) = Rest(s, n)
  BY <1>0, BehindIs
<1>3. t = Len(Rest(s, n))
  <2>1. n <= Len(s)
    BY <1>0
  <2>2. Len(Rest(s, n)) = Len(s) - n
    BY <1>0, <2>1, FirstRest
  <2> QED
    BY <1>0, <2>2
<1>4. cs = r
  <2>1. CASE Bytes(b, k) = 0
    <3>1. k = 0 /\ k \in 0..Len(b.chains)
      BY <2>1, MovedChains
    <3>2. First(b.chains, k) \in Seq(Chain) /\ Len(First(b.chains, k)) = 0
      BY <1>0, <3>1, FirstProperties
    <3>3. First(b.chains, k) = <<>>
      BY <3>2, EmptySeq
    <3> HIDE DEF r
    <3>4. <<>> \o r = r
      BY <1>2, ConcatEmptySeq
    <3> QED
      BY <2>1, <3>3, <3>4
  <2>2. CASE Bytes(b, k) # 0
    BY <2>2
  <2> QED
    BY <2>1, <2>2
<1> HIDE DEF cs, l, t, z, e
<1>5. e.chains = cs /\ e.lwd = l /\ e.total = t /\ e.bad = b.bad /\ IsBuffer(e)
  BY <1>0, <1>1 DEF IsBuffer, Fields
<1>6. Holds(e, Rest(s, n))
  <2> HIDE DEF r
  <2> QED
    BY <1>0, <1>2, <1>3, <1>4, <1>5, Zenon DEF Holds
<1>7. InShape(e)
  <2>1. e.chains = Behind(b, Whole(b, n), n - Bytes(b, Whole(b, n)))
        /\ e.lwd = SlotBehind(b.lwd, Whole(b, n))
    BY <1>4, <1>5 DEF l
  <2> QED
    BY <2>1, InShapeBehind
<1> QED
  BY <1>6, <1>7 DEF e

-----------------------------------------------------------------------------
(* Putting data back, and pulling it together.                               *)

\* A record of a chain is a chain of the input when its data fits and there is
\* some.
LEMMA FullChain ==
    ASSUME NEW c \in Plain, NEW d \in Seq(Byte), Len(d) > 0, NEW m \in Nat, m + Len(d) <= c.len
    PROVE  LET f == [c EXCEPT !.data = d, !.mis = m] IN
           f \in Plain /\ f \in Chain /\ f.data = d /\ Off(f) = Len(d) /\ Off(f) # 0
<1> DEFINE f == [c EXCEPT !.data = d, !.mis = m]
<1>0. c \in Chain /\ c.imm = FALSE /\ c.len > 0 /\ Len(d) \in Nat
  BY LenProperties DEF Plain
<1>1. c \in [data : Seq(Byte), mis : Nat, len : Nat, imm : BOOLEAN]
  BY <1>0 DEF Chain
<1>2. /\ f \in [data : Seq(Byte), mis : Nat, len : Nat, imm : BOOLEAN]
      /\ f.data = d /\ f.mis = m /\ f.len = c.len /\ f.imm = c.imm
  BY <1>1
<1> HIDE DEF f
<1>3. f \in Chain /\ Off(f) = Len(d) /\ Off(f) # 0
  BY <1>0, <1>2 DEF Chain, Off
<1>4. f \in Plain
  BY <1>0, <1>2, <1>3 DEF Plain
<1> QED
  BY <1>2, <1>3, <1>4 DEF f

\* A list of plain chains ...
LEMMA SeqOfPlain ==
    ASSUME NEW cs \in Seq(Chain), \A i \in 1..Len(cs) : cs[i] \in Plain
    PROVE  cs \in Seq(Plain)
<1>1. Len(cs) \in Nat /\ cs \in [1..Len(cs) -> Chain]
  BY LenProperties
<1>2. cs \in [1..Len(cs) -> Plain]
  BY <1>1
<1> QED
  BY <1>1, <1>2, SeqDef

\* ... and what is known of each.
LEMMA PlainIs ==
    ASSUME NEW cs \in Seq(Plain)
    PROVE  cs \in Seq(Chain) /\ \A i \in 1..Len(cs) : cs[i] \in Plain /\ cs[i] \in Chain
<1>1. \A i \in 1..Len(cs) : cs[i] \in Plain
  BY ElementOfSeq
<1>2. Plain \subseteq Chain
  BY DEF Plain
<1>3. cs \in Seq(Chain)
  BY <1>2, SeqMonotonic
<1> QED
  BY <1>1, <1>2, <1>3

\* An input with chains: last_with_datap points at one of them.
LEMMA InShapeSlot ==
    ASSUME NEW b, InShape(b), Len(b.chains) \in Nat, b.chains # <<>>
    PROVE  /\ b.lwd \in 1..Len(b.chains) /\ Len(b.chains) > 0
           /\ \A i \in 2..Len(b.chains) : Off(b.chains[i]) # 0 <=> i <= b.lwd
<1> DEFINE n == Len(b.chains)
<1>1. n > 0
  BY EmptySeq DEF InShape
<1>2. CASE b.lwd = 1 /\ NoData(b.chains)
  <2>1. ASSUME NEW i \in 2..n PROVE Off(b.chains[i]) = 0 /\ ~(i <= b.lwd)
    <3>1. i \in 1..n
      OBVIOUS
    <3> QED
      BY <1>2, <3>1 DEF NoData
  <2> QED
    BY <1>1, <1>2, <2>1
<1>3. CASE ~(b.lwd = 1 /\ NoData(b.chains))
  <2>1. b.lwd \in 1..n /\ \A i \in 1..n : Off(b.chains[i]) # 0 <=> i <= b.lwd
    BY <1>3 DEF InShape
  <2>2. ASSUME NEW i \in 2..n PROVE i \in 1..n
    BY <1>1
  <2> QED
    BY <1>1, <2>1, <2>2
<1> QED
  BY <1>2, <1>3

\* evbuffer_prepend() to a buffer that has a chain.
PrependTo(b, d) ==
    LET c == b.chains[1]
        gap == IF c.imm THEN 0 ELSE IF Off(c) = 0 THEN c.len ELSE c.mis
        over == Len(d) - gap
        filled == IF c.imm THEN c ELSE [c EXCEPT !.data = Rest(d, over) \o @, !.mis = 0]
        chain == [NewChain(over, First(d, over)) EXCEPT !.mis = BufferLen(over) - over]
    IN IF gap >= Len(d)
         THEN [b EXCEPT !.chains[1] = [c EXCEPT !.data = d \o @, !.mis = gap - Len(d)],
                        !.total = @ + Len(d),
                        !.add = @ + Len(d)]
         ELSE [b EXCEPT !.chains = <<chain, filled>> \o Rest(@, 1),
                        !.lwd = @ + 1,
                        !.total = @ + Len(d),
                        !.add = @ + gap + filled.mis]

\* evbuffer_prepend() to a buffer that has chains.
LEMMA PrependToKeeps ==
    ASSUME NEW b, NEW s, Holds(b, s), InShape(b), b.chains # <<>>,
           NEW d \in Seq(Byte), Len(d) > 0
    PROVE  LET e == PrependTo(b, d) IN Holds(e, d \o s) /\ InShape(e)
<1> DEFINE cs == b.chains
           n == Len(cs)
           c == cs[1]
           gap == IF Off(c) = 0 THEN c.len ELSE c.mis
           over == Len(d) - gap
           z == Cat(Rest(cs, 1))
           t == b.total + Len(d)
           e == PrependTo(b, d)
<1>0. /\ cs \in Seq(Chain) /\ cs \in Seq(Plain) /\ n \in Nat /\ s \in Seq(Byte) /\ Len(s) \in Nat
      /\ s = Cat(cs) /\ b.total = Len(s) /\ IsBuffer(b) /\ b.bad = FALSE /\ Len(d) \in Nat
  BY HoldsFields, LenProperties DEF Holds, InShape
<1>1. /\ b.lwd \in 1..n /\ n > 0
      /\ \A i \in 2..n : Off(cs[i]) # 0 <=> i <= b.lwd
  BY <1>0, InShapeSlot
<1>2. c \in Plain /\ c \in Chain /\ \A i \in 1..n : cs[i] \in Plain
  <2>1. 1 \in 1..n
    BY <1>0, <1>1
  <2> QED
    BY <2>1, <1>0, PlainIs
<1>3. /\ c.data \in Seq(Byte) /\ c.mis \in Nat /\ c.len \in Nat /\ Off(c) \in Nat /\ c.len > 0
      /\ c.mis + Off(c) <= c.len /\ c.imm = FALSE /\ Off(c) = Len(c.data)
  BY <1>2, ChainFields DEF Plain, Off
<1>4. s = c.data \o z /\ z \in Seq(Byte) /\ Rest(cs, 1) \in Seq(Chain) /\ Len(Rest(cs, 1)) = n - 1
  BY <1>0, <1>1, CatHead
<1>5. t = Len(d \o s) /\ d \o s \in Seq(Byte)
  <2>1. Len(d \o s) = Len(d) + Len(s) /\ d \o s \in Seq(Byte)
    BY <1>0, ConcatProperties
  <2> QED
    BY <1>0, <2>1
<1>6. gap \in Nat /\ gap + Off(c) <= c.len
  BY <1>3
<1> HIDE DEF c
<1>7. CASE gap >= Len(d)
  <2> DEFINE x == d \o c.data
             m == gap - Len(d)
             f == [c EXCEPT !.data = x, !.mis = m]
             ds == [cs EXCEPT ![1] = f]
             a == b.add + Len(d)
  <2>1. e = [b EXCEPT !.chains = ds, !.total = t, !.add = a]
    BY <1>3, <1>7 DEF PrependTo, c
  <2>2. x \in Seq(Byte) /\ Len(x) = Len(d) + Off(c) /\ Len(x) > 0 /\ m \in Nat /\ m + Len(x) <= c.len
    <3>1. x \in Seq(Byte) /\ Len(x) = Len(d) + Len(c.data)
      BY <1>3, ConcatProperties
    <3> HIDE DEF x, gap
    <3> QED
      BY <3>1, <1>0, <1>3, <1>6, <1>7
  <2> HIDE DEF x, m
  <2>3. f \in Plain /\ f \in Chain /\ f.data = x /\ Off(f) # 0
    BY <1>2, <2>2, FullChain
  <2> HIDE DEF f
  <2>4. /\ ds \in Seq(Chain) /\ ds \in Seq(Plain) /\ Len(ds) = n
        /\ \A i \in 1..n : ds[i] = IF i = 1 THEN f ELSE cs[i]
    BY <1>0, <1>1, <2>3, ExceptSeq
  <2> HIDE DEF ds
  <2>5. Cat(ds) = d \o s
    <3>1. ds[1] = f /\ \A i \in 1 + 1..n : ds[i] = cs[i]
      <4>1. 1 \in 1..n
        BY <1>0, <1>1
      <4>2. ASSUME NEW i \in 1 + 1..n PROVE ds[i] = cs[i]
        <5>1. i \in 1..n /\ i # 1
          BY <1>0
        <5> QED
          BY <5>1, <2>4
      <4> QED
        BY <4>1, <4>2, <2>4
    <3>2. 1 \in 0..n
      BY <1>0, <1>1
    <3>3. Rest(ds, 1) = Rest(cs, 1)
      BY <1>0, <2>4, <3>1, <3>2, RestAgree
    <3>4. Cat(ds) = ds[1].data \o Cat(Rest(ds, 1))
      BY <1>1, <2>4, CatHead
    <3>5. Cat(ds) = x \o z
      BY <3>1, <3>3, <3>4, <2>3, Zenon
    <3>6. (d \o c.data) \o z = d \o (c.data \o z)
      BY <1>3, <1>4, Associative
    <3> QED
      BY <3>5, <3>6, <1>4, Zenon DEF x
  <2> HIDE DEF a, t, e
  <2>6. e.chains = ds /\ e.lwd = b.lwd /\ e.total = t /\ e.bad = b.bad /\ IsBuffer(e)
    BY <1>0, <2>1 DEF IsBuffer, Fields
  <2>7. Holds(e, d \o s)
    BY <1>0, <1>5, <2>4, <2>5, <2>6, Zenon DEF Holds
  <2>8. ASSUME NEW i \in 1..n PROVE Off(ds[i]) # 0 <=> i <= b.lwd
    <3>1. CASE i = 1
      BY <3>1, <1>1, <2>3, <2>4
    <3>2. CASE i # 1
      <4>1. i \in 2..n
        BY <3>2
      <4> QED
        BY <3>2, <4>1, <1>1, <2>4
    <3> QED
      BY <3>1, <3>2
  <2>9. InShape(e)
    BY <1>1, <2>4, <2>6, <2>8 DEF InShape
  <2> QED
    BY <2>7, <2>9 DEF e
<1>8. CASE ~(gap >= Len(d))
  <2> DEFINE d1 == First(d, over)
             d2 == Rest(d, over)
             x == d2 \o c.data
             f == [c EXCEPT !.data = x, !.mis = 0]
             nc == NewChain(over, d1)
             h == BufferLen(over) - over
             g == [nc EXCEPT !.mis = h]
             ds == <<g, f>> \o Rest(cs, 1)
             a == b.add + gap + f.mis
             l == b.lwd + 1
  <2>1. over \in Nat /\ over > 0 /\ over <= Len(d) /\ Len(d) - over = gap
    BY <1>0, <1>6, <1>8
  <2>a. nc.data = d1
    BY DEF NewChain
  <2>2. e = [b EXCEPT !.chains = ds, !.lwd = l, !.total = t, !.add = a]
    BY <1>3, <1>8 DEF PrependTo, c
  <2>3. d1 \in Seq(Byte) /\ Len(d1) = over /\ d2 \in Seq(Byte) /\ Len(d2) = gap /\ d1 \o d2 = d
    <3> HIDE DEF over
    <3>1. /\ d1 \in Seq(Byte) /\ Len(d1) = over /\ d2 \in Seq(Byte) /\ Len(d2) = Len(d) - over
          /\ d1 \o d2 = d
      BY <2>1, FirstRest
    <3> QED
      BY <2>1, <3>1
  <2> HIDE DEF d1, d2
  <2>4. f \in Plain /\ f \in Chain /\ f.data = x /\ Off(f) # 0 /\ x \in Seq(Byte)
    <3>1. x \in Seq(Byte) /\ Len(x) = Len(d2) + Len(c.data)
      BY <1>3, <2>3, ConcatProperties
    <3> HIDE DEF x
    <3>a. gap + Off(c) > 0
      BY <1>3
    <3>2. Len(x) > 0 /\ 0 + Len(x) <= c.len
      <4> HIDE DEF gap
      <4> QED
        BY <3>1, <3>a, <1>3, <1>6, <2>3
    <3> QED
      BY <3>1, <3>2, <1>2, FullChain
  <2>5. g \in Plain /\ g \in Chain /\ g.data = d1 /\ Off(g) # 0
    <3> HIDE DEF over
    <3>0. Len(d1) <= over
      BY <2>1, <2>3
    <3>1. nc \in Plain /\ nc.len = BufferLen(over)
      BY <2>1, <2>3, <3>0, NewChainPlain
    <3>2. BufferLen(over) \in Nat /\ BufferLen(over) >= over
      BY <2>1, BufferLenEnough
    <3> HIDE DEF nc
    <3>3. h \in Nat /\ h + Len(d1) <= nc.len /\ Len(d1) > 0
      BY <2>1, <2>3, <3>1, <3>2
    <3> HIDE DEF h
    <3>4. nc \in [data : Seq(Byte), mis : Nat, len : Nat, imm : BOOLEAN]
      BY <3>1 DEF Plain, Chain
    <3>5. g = [nc EXCEPT !.data = d1, !.mis = h]
      BY <2>a, <3>4
    <3> HIDE DEF g
    <3> QED
      BY <2>3, <3>1, <3>3, <3>5, FullChain
  <2> HIDE DEF f, g
  <2>6. /\ Rest(cs, 1) \in Seq(Plain) /\ <<g, f>> \in Seq(Plain) /\ <<g, f>> \in Seq(Chain)
        /\ Len(<<g, f>>) = 2 /\ <<g, f>>[1] = g /\ <<g, f>>[2] = f
        /\ \A i \in 1..n - 1 : Rest(cs, 1)[i] = cs[1 + i]
    <3>1. 1 \in 0..n
      BY <1>0, <1>1
    <3>2. /\ Rest(cs, 1) \in Seq(Plain)
          /\ \A i \in 1..n - 1 : Rest(cs, 1)[i] = cs[1 + i]
      BY <1>0, <3>1, RestProperties
    <3>3. <<g, f>> \in Seq(Plain) /\ <<g, f>> \in Seq(Chain) /\ Len(<<g, f>>) = 2
      BY <2>4, <2>5
    <3>4. <<g, f>>[1] = g /\ <<g, f>>[2] = f
      OBVIOUS
    <3> QED
      BY <3>2, <3>3, <3>4
  <2>7. /\ ds \in Seq(Chain) /\ Len(ds) = n + 1 /\ ds[1] = g /\ ds[2] = f
        /\ \A i \in 1..n - 1 : ds[2 + i] = cs[1 + i]
        /\ Cat(ds) = Cat(<<g, f>>) \o z
    <3> DEFINE p == <<g, f>>
               q == Rest(cs, 1)
    <3>1. p \in Seq(Chain) /\ q \in Seq(Chain) /\ Len(p) = 2 /\ Len(q) = n - 1
      BY <1>4, <2>6
    <3> HIDE DEF p, q
    <3>2. /\ p \o q \in Seq(Chain) /\ Len(p \o q) = Len(p) + Len(q)
          /\ \A i \in 1..Len(p) : (p \o q)[i] = p[i]
          /\ \A i \in 1..Len(q) : (p \o q)[Len(p) + i] = q[i]
          /\ Cat(p \o q) = Cat(p) \o Cat(q)
      BY <3>1, JoinChains
    <3>3. 2 + (n - 1) = n + 1 /\ 1 \in 1..2 /\ 2 \in 1..2
      BY <1>0
    <3>4. ds = p \o q
      BY DEF p, q
    <3> HIDE DEF ds
    <3>5. ds \in Seq(Chain) /\ Len(ds) = n + 1 /\ ds[1] = p[1] /\ ds[2] = p[2] /\ Cat(ds) = Cat(p) \o Cat(q)
      BY <3>1, <3>2, <3>3, <3>4
    <3>6. ASSUME NEW i \in 1..n - 1 PROVE ds[2 + i] = q[i]
      BY <3>1, <3>2, <3>4
    <3> QED
      BY <2>6, <3>5, <3>6 DEF p, q
  <2>8. Cat(<<g, f>>) = d1 \o x
    <3> DEFINE p == <<g, f>>
    <3>1. p = <<g>> \o <<f>> /\ <<g>> \in Seq(Chain) /\ <<f>> \in Seq(Chain)
      BY <2>4, <2>5
    <3>2. Cat(<<g>> \o <<f>>) = Cat(<<g>>) \o Cat(<<f>>)
      BY <3>1, CatConcat
    <3>3. Cat(<<g>>) = g.data /\ Cat(<<f>>) = f.data
      BY <2>4, <2>5, CatOne
    <3> QED
      BY <3>1, <3>2, <3>3, <2>4, <2>5, Zenon
  <2> HIDE DEF ds
  <2>9. ds \in Seq(Plain)
    <3>1. ASSUME NEW i \in 1..n + 1 PROVE ds[i] \in Plain
      <4>1. CASE i = 1 \/ i = 2
        BY <4>1, <2>4, <2>5, <2>7
      <4>2. CASE ~(i = 1 \/ i = 2)
        <5>1. i - 2 \in 1..n - 1 /\ 2 + (i - 2) = i /\ 1 + (i - 2) \in 1..n
          BY <4>2, <1>0
        <5>2. ds[i] = cs[1 + (i - 2)]
          BY <5>1, <2>7
        <5> QED
          BY <5>1, <5>2, <1>2
      <4> QED
        BY <4>1, <4>2
    <3>2. \A i \in 1..Len(ds) : ds[i] \in Plain
      BY <2>7, <3>1
    <3> QED
      BY <2>7, <3>2, SeqOfPlain
  <2>10. Cat(ds) = d \o s
    <3>1. (d2 \o c.data) \o z = d2 \o (c.data \o z)
      BY <1>3, <1>4, <2>3, Associative
    <3>2. (d1 \o x) \o z = d1 \o (x \o z)
      BY <1>4, <2>3, <2>4, Associative
    <3>3. (d1 \o d2) \o s = d1 \o (d2 \o s)
      BY <1>0, <2>3, Associative
    <3> QED
      BY <3>1, <3>2, <3>3, <1>4, <2>3, <2>7, <2>8, Zenon DEF x
  <2> HIDE DEF a, t, e, l
  <2>11. e.chains = ds /\ e.lwd = l /\ e.total = t /\ e.bad = b.bad /\ IsBuffer(e)
    BY <1>0, <2>2 DEF IsBuffer, Fields
  <2>12. Holds(e, d \o s)
    BY <1>0, <1>5, <2>7, <2>10, <2>11, Zenon DEF Holds
  <2>13. ASSUME NEW i \in 1..n + 1 PROVE Off(ds[i]) # 0 <=> i <= l
    <3>1. CASE i = 1 \/ i = 2
      BY <3>1, <1>1, <2>4, <2>5, <2>7 DEF l
    <3>2. CASE ~(i = 1 \/ i = 2)
      <4>1. i - 2 \in 1..n - 1 /\ 2 + (i - 2) = i /\ 1 + (i - 2) \in 2..n
            /\ (1 + (i - 2) <= b.lwd <=> i <= l)
        BY <3>2, <1>0, <1>1 DEF l
      <4>2. ds[i] = cs[1 + (i - 2)]
        BY <4>1, <2>7
      <4> QED
        BY <4>1, <4>2, <1>1
    <3> QED
      BY <3>1, <3>2
  <2>14. InShape(e)
    <3>1. l \in 1..n + 1
      BY <1>0, <1>1 DEF l
    <3> QED
      BY <3>1, <2>7, <2>9, <2>11, <2>13 DEF InShape
  <2> QED
    BY <2>12, <2>14 DEF e
<1> QED
  BY <1>7, <1>8

\* evbuffer_chain_insert() of an empty chain into an empty buffer.
LEMMA FirstChain ==
    ASSUME NEW b, NEW s, Holds(b, s), b.chains = <<>>, b.lwd = 1,
           NEW nc \in Chain, nc.data = <<>>, Off(nc) = 0
    PROVE  LET x == ChainInsert(b, nc) IN
           /\ Holds(x, s) /\ x.chains = <<nc>> /\ x.lwd = 1
           /\ x.add = b.add /\ x.del = b.del
<1> DEFINE x == ChainInsert(b, nc)
<1>0. b.chains \in Seq(Chain) /\ s \in Seq(Byte) /\ Len(b.chains) = 0
  BY HoldsFields DEF Holds
<1>1. Victim(b) = 1 /\ b.lwd \in 1..Len(b.chains) + 1 /\ EmptyFrom(b.chains, Victim(b))
  <2>1. Victim(b) \in 1..1
    BY <1>0, VictimIs
  <2> QED
    BY <2>1, <1>0 DEF EmptyFrom
<1>2. b.lwd > Len(b.chains) => Len(b.chains) = 0
  BY <1>0
<1>3. /\ Holds(x, s \o nc.data)
      /\ x.chains = Append(First(b.chains, Victim(b) - 1), nc)
      /\ x.lwd = IF Victim(b) = Len(b.chains) + 1 /\ Off(nc) # 0
                 THEN Len(b.chains) + 1 ELSE b.lwd
      /\ x.add = b.add /\ x.del = b.del
  BY <1>1, <1>2, ChainInsertHolds
<1> HIDE DEF x
<1>4. Victim(b) - 1 = 0
  BY <1>1
<1>5. First(b.chains, 0) = <<>>
  <2>1. First(b.chains, 0) \in Seq(Chain) /\ Len(First(b.chains, 0)) = 0
    BY <1>0, FirstProperties
  <2> QED
    BY <2>1, EmptySeq
<1>6. Append(<<>>, nc) = <<nc>>
  OBVIOUS
<1>7. s \o nc.data = s
  BY <1>0, ConcatEmptySeq
<1>8. Holds(x, s) /\ x.chains = <<nc>> /\ x.lwd = 1 /\ x.add = b.add /\ x.del = b.del
  BY <1>3, <1>4, <1>5, <1>6, <1>7, Zenon
<1> QED
  BY <1>8 DEF x

\* evbuffer_prepend()
LEMMA PrependKeeps ==
    ASSUME NEW b, NEW s, Holds(b, s), InShape(b), NEW d \in Seq(Byte), Len(d) > 0
    PROVE  LET e == EvbufferPrepend(b, d) IN Holds(e, d \o s) /\ InShape(e)
<1>0. Len(b.chains) \in Nat /\ b.chains \in Seq(Chain) /\ s \in Seq(Byte) /\ Len(d) \in Nat
  BY HoldsFields, LenProperties DEF Holds
<1>a. EvbufferPrepend(b, d) =
        PrependTo(IF b.chains = <<>> THEN ChainInsert(b, NewChain(Len(d), <<>>)) ELSE b, d)
  BY DEF EvbufferPrepend, PrependTo
<1>1. CASE b.chains # <<>>
  <2>1. EvbufferPrepend(b, d) = PrependTo(b, d)
    BY <1>1, <1>a
  <2> QED
    BY <1>1, <2>1, PrependToKeeps
<1>2. CASE b.chains = <<>>
  <2> DEFINE nc == NewChain(Len(d), <<>>)
             x == ChainInsert(b, nc)
  <2>1. EvbufferPrepend(b, d) = PrependTo(x, d)
    BY <1>2, <1>a
  <2>2. <<>> \in Seq(Byte) /\ Len(<<>>) = 0
    OBVIOUS
  <2>3. nc \in Plain /\ nc.data = <<>> /\ Off(nc) = 0
    <3>1. Len(<<>>) <= Len(d)
      BY <1>0, <2>2
    <3>2. nc \in Plain /\ nc.data = <<>> /\ Off(nc) = Len(<<>>)
      BY <1>0, <2>2, <3>1, NewChainPlain
    <3> HIDE DEF nc
    <3> QED
      BY <2>2, <3>2
  <2>4. nc \in Chain
    BY <2>3 DEF Plain
  <2> HIDE DEF nc
  <2>5. Holds(x, s) /\ x.chains = <<nc>> /\ x.lwd = 1
    <3>1. b.lwd = 1
      BY <1>2 DEF InShape
    <3> QED
      BY <1>2, <2>3, <2>4, <3>1, FirstChain
  <2>6. InShape(x)
    <3>1. <<nc>> \in Seq(Plain) /\ NoData(<<nc>>)
      BY <2>3 DEF NoData
    <3> QED
      BY <2>5, <3>1 DEF InShape
  <2>7. x.chains # <<>>
    BY <2>5
  <2> HIDE DEF x
  <2> QED
    BY <2>1, <2>5, <2>6, <2>7, PrependToKeeps
<1> QED
  BY <1>1, <1>2

\* No chain is left behind all the bytes.
LEMMA BehindAll ==
    ASSUME NEW b, b.chains \in Seq(Chain)
    PROVE  LET n == Len(Cat(b.chains))
               k == Whole(b, n)
           IN k = Len(b.chains) /\ Behind(b, k, n - Bytes(b, k)) = <<>>
<1> DEFINE n == Len(Cat(b.chains))
           k == Whole(b, n)
           l == Len(b.chains)
<1>0. n \in Nat /\ l \in Nat /\ l \in 0..l
  BY CatType, LenProperties
<1>1. /\ k \in 0..l /\ \A j \in k + 1..l : Bytes(b, j) > n
  BY <1>0, WholeIs
<1>2. Bytes(b, l) = n
  <2>1. /\ First(b.chains, l) \in Seq(Chain) /\ Len(First(b.chains, l)) = l
        /\ \A i \in 1..l : First(b.chains, l)[i] = b.chains[i]
    BY <1>0, FirstProperties
  <2>2. First(b.chains, l) = b.chains
    BY <2>1, SeqEqual
  <2> QED
    BY <1>0, <2>2, BytesCat
<1> HIDE DEF k, n, l
<1>3. k = l
  <2>1. ASSUME k < l PROVE FALSE
    <3>1. l \in k + 1..l
      BY <1>0, <1>1, <2>1
    <3> QED
      BY <3>1, <1>0, <1>1, <1>2
  <2> QED
    BY <1>0, <1>1, <2>1
<1>4. Rest(b.chains, k) = <<>>
  <2>1. Rest(b.chains, k) \in Seq(Chain) /\ Len(Rest(b.chains, k)) = l - k
    BY <1>1, RestProperties DEF l
  <2>2. Len(Rest(b.chains, k)) = 0
    BY <1>0, <1>3, <2>1
  <2> QED
    BY <2>1, <2>2, EmptySeq
<1>5. Behind(b, k, n - Bytes(b, k)) = <<>>
  BY <1>4 DEF Behind
<1> QED
  BY <1>3, <1>5 DEF k, n, l

\* What evbuffer_pullup() leaves behind the chain with the n bytes: no chain, or
\* chains of which the first has data.
LEMMA BehindPullup ==
    ASSUME NEW b, NEW s, Holds(b, s), InShape(b), NEW n \in Nat, n > 0, n <= Len(s),
           Off(b.chains[1]) < n
    PROVE  LET k == Whole(b, n)
               r == Behind(b, k, n - Bytes(b, k))
           IN /\ k \in 1..Len(b.chains) /\ Len(b.chains) \in Nat
              /\ b.lwd \in 1..Len(b.chains)
              /\ r \in Seq(Plain) /\ r \in Seq(Chain) /\ Cat(r) = Rest(s, n)
              /\ \/ n = Len(s) /\ k = Len(b.chains) /\ r = <<>>
                 \/ /\ k < b.lwd /\ Len(r) = Len(b.chains) - k /\ Off(r[1]) # 0
                    /\ \A i \in 1..Len(r) : Off(r[i]) # 0 <=> k + i <= b.lwd
<1> DEFINE k == Whole(b, n)
           r == Behind(b, k, n - Bytes(b, k))
           l == Len(b.chains)
<1>0. /\ b.chains \in Seq(Chain) /\ s = Cat(b.chains) /\ Len(s) \in Nat /\ s \in Seq(Byte)
      /\ l \in Nat /\ b.chains \in Seq(Plain) /\ Len(s) > 0
  <2>1. Len(s) \in Nat
    BY HoldsFields
  <2>2. Len(s) > 0
    BY <2>1
  <2>3. b.chains \in Seq(Chain) /\ s = Cat(b.chains) /\ s \in Seq(Byte)
    BY HoldsFields DEF Holds
  <2>4. b.chains \in Seq(Plain)
    BY DEF InShape
  <2>5. l \in Nat
    BY <2>3, LenProperties
  <2> QED
    BY <2>1, <2>2, <2>3, <2>4, <2>5
<1>1. b.lwd \in 1..l /\ \A i \in 1..l : Off(b.chains[i]) # 0 <=> i <= b.lwd
  BY <1>0, InShapeData
<1>2. CASE n = Len(s)
  <2>1. k = l /\ r = <<>>
    BY <1>0, <1>2, BehindAll
  <2>2. Rest(s, n) = <<>>
    BY <1>0, <1>2, RestAll
  <2>3. <<>> \in Seq(Plain) /\ <<>> \in Seq(Chain)
    OBVIOUS
  <2>4. k \in 1..l
    BY <1>0, <1>1, <2>1
  <2> HIDE DEF r, k
  <2> QED
    BY <1>0, <1>1, <1>2, <2>1, <2>2, <2>3, <2>4, CatEmpty DEF r, k
<1>3. CASE n # Len(s)
  <2>0. n < Len(s)
    BY <1>0, <1>3
  <2>1. /\ k \in Nat /\ k < l /\ Len(r) = l - k /\ Off(r[1]) # 0
        /\ r \in Seq(Chain) /\ \A i \in 2..Len(r) : r[i] = b.chains[k + i]
        /\ r \in Seq(Plain)
    BY <1>0, <2>0, BehindChains
  <2>2. k < b.lwd
    BY <2>0, MovedChains
  <2>3. Cat(r) = Rest(s, n)
    BY <1>0, <2>0, BehindIs
  <2>4. \A j \in k + 1..l : Bytes(b, j) > n
    BY <1>0, WholeIs
  <2> HIDE DEF r, k
  <2>5. k \in 1..l
    <3>1. ASSUME k = 0 PROVE FALSE
      <4>1. 0 \in 0..l /\ 0 < l /\ 0 + 1 = 1 /\ 1 \in k + 1..l
        BY <3>1, <1>0, <1>1
      <4>2. /\ Bytes(b, 0) \in Nat /\ Off(b.chains[0 + 1]) \in Nat
            /\ Bytes(b, 0 + 1) = Bytes(b, 0) + Off(b.chains[0 + 1])
        BY <1>0, <4>1, BytesNext
      <4>3. Bytes(b, 0) = 0
        <5>1. First(b.chains, 0) \in Seq(Chain) /\ Len(First(b.chains, 0)) = 0
          BY <1>0, <4>1, FirstProperties
        <5>2. First(b.chains, 0) = <<>>
          BY <5>1, EmptySeq
        <5>3. Bytes(b, 0) = Len(<<>>)
          BY <1>0, <4>1, <5>2, BytesCat, CatEmpty
        <5> QED
          BY <5>3
      <4>4. Bytes(b, 1) > n
        BY <2>4, <4>1
      <4> QED
        BY <4>1, <4>2, <4>3, <4>4
    <3> QED
      BY <3>1, <2>1, <1>0
  <2>6. ASSUME NEW i \in 1..Len(r) PROVE Off(r[i]) # 0 <=> k + i <= b.lwd
    <3>1. CASE i = 1
      BY <3>1, <2>1, <2>2, <1>1
    <3>2. CASE i # 1
      <4>1. i \in 2..Len(r) /\ k + i \in 1..l
        BY <3>2, <2>1, <1>0
      <4> QED
        BY <4>1, <2>1, <1>1
    <3> QED
      BY <3>1, <3>2
  <2> QED
    BY <1>0, <1>1, <2>1, <2>2, <2>3, <2>5, <2>6 DEF r, k
<1> QED
  BY <1>2, <1>3

\* evbuffer_pullup()
LEMMA PullupKeeps ==
    ASSUME NEW b, NEW s, Holds(b, s), InShape(b), NEW n \in Nat, n > 0, n <= Len(s),
           Off(b.chains[1]) < n
    PROVE  LET e == EvbufferPullup(b, n) IN
           Holds(e, s) /\ InShape(e) /\ e.add = b.add /\ e.del = b.del
<1> DEFINE k == Whole(b, n)
           r == Behind(b, k, n - Bytes(b, k))
           l == Len(b.chains)
           c == b.chains[1]
           stays == c.len - c.mis >= n
           all == First(Flat(b), n)
           tmp == IF stays THEN [c EXCEPT !.data = all] ELSE NewChain(n, all)
           freed == (IF stays THEN 2 ELSE 1)..k
           second == IF r # <<>> /\ Off(r[1]) # 0 THEN 2 ELSE 1
           w == IF b.lwd = 1 \/ b.lwd \in freed THEN 1
                ELSE IF b.lwd - 1 \in freed THEN second
                ELSE b.lwd - k + 1
           cs == <<tmp>> \o r
           e == EvbufferPullup(b, n)
<1>0. /\ b.chains \in Seq(Chain) /\ s = Cat(b.chains) /\ Len(s) \in Nat /\ s \in Seq(Byte)
      /\ b.chains \in Seq(Plain) /\ IsBuffer(b) /\ b.total = Len(s) /\ b.bad = FALSE
  BY HoldsFields DEF Holds, InShape
<1>1. /\ k \in 1..l /\ l \in Nat /\ b.lwd \in 1..l
      /\ r \in Seq(Plain) /\ r \in Seq(Chain) /\ Cat(r) = Rest(s, n)
      /\ \/ n = Len(s) /\ k = l /\ r = <<>>
         \/ /\ k < b.lwd /\ Len(r) = l - k /\ Off(r[1]) # 0
            /\ \A i \in 1..Len(r) : Off(r[i]) # 0 <=> k + i <= b.lwd
  BY BehindPullup
<1>2. all = First(s, n) /\ all \in Seq(Byte) /\ Len(all) = n /\ all \o Rest(s, n) = s
  <2>1. Flat(b) = s
    BY <1>0, FlatIsCat
  <2>2. First(s, n) \in Seq(Byte) /\ Len(First(s, n)) = n /\ First(s, n) \o Rest(s, n) = s
    BY <1>0, FirstRest
  <2> QED
    BY <2>1, <2>2
<1>3. e = [b EXCEPT !.chains = cs, !.lwd = w]
  BY DEF EvbufferPullup
<1>4. tmp \in Plain /\ tmp \in Chain /\ tmp.data = all /\ Off(tmp) # 0
  <2>0. c \in Plain /\ c \in Chain
    <3>1. 1 \in 1..l
      BY <1>1
    <3> QED
      BY <3>1, <1>0, PlainIs
  <2>1. CASE stays
    <3>0. tmp = [c EXCEPT !.data = all]
      BY <2>1
    <3>1. c \in [data : Seq(Byte), mis : Nat, len : Nat, imm : BOOLEAN]
      BY <2>0 DEF Chain
    <3>2. c.mis \in Nat /\ c.len \in Nat /\ Off(c) \in Nat
      BY <2>0, ChainFields
    <3>3. c.mis + Len(all) <= c.len /\ Len(all) > 0
      BY <1>2, <2>1, <3>2
    <3> DEFINE m == c.mis
    <3> HIDE DEF all, c, tmp
    <3>4. [c EXCEPT !.data = all] = [c EXCEPT !.data = all, !.mis = m]
      BY <3>1
    <3>6. m \in Nat /\ m + Len(all) <= c.len
      BY <3>2, <3>3
    <3> HIDE DEF m
    <3>5. tmp = [c EXCEPT !.data = all, !.mis = m]
      BY <3>0, <3>4
    <3> QED
      BY <1>2, <2>0, <3>3, <3>5, <3>6, FullChain
  <2>2. CASE ~stays
    <3>0. tmp = NewChain(n, all)
      BY <2>2
    <3> HIDE DEF all, tmp
    <3>1. Len(all) <= n
      BY <1>2
    <3>2. tmp \in Plain /\ tmp.data = all /\ Off(tmp) = Len(all)
      BY <1>2, <3>0, <3>1, NewChainPlain
    <3> QED
      BY <1>2, <3>2 DEF Plain
  <2> QED
    BY <2>1, <2>2
<1>5. freed \subseteq 1..k /\ 2..k \subseteq freed
  BY <1>1
<1> HIDE DEF tmp, all, e, k, r, freed
<1>6. /\ cs \in Seq(Chain) /\ Len(cs) = 1 + Len(r) /\ cs[1] = tmp
      /\ \A i \in 1..Len(r) : cs[1 + i] = r[i]
      /\ Cat(cs) = s
  <2> DEFINE p == <<tmp>>
  <2>1. p \in Seq(Chain) /\ Len(p) = 1 /\ p[1] = tmp /\ 1 \in 1..1
    BY <1>4
  <2>2. Cat(p) = all
    BY <1>4, CatOne
  <2> HIDE DEF p
  <2>3. /\ p \o r \in Seq(Chain) /\ Len(p \o r) = Len(p) + Len(r)
        /\ \A i \in 1..Len(p) : (p \o r)[i] = p[i]
        /\ \A i \in 1..Len(r) : (p \o r)[Len(p) + i] = r[i]
        /\ Cat(p \o r) = Cat(p) \o Cat(r)
    BY <1>1, <2>1, JoinChains
  <2>4. cs = p \o r
    BY DEF p
  <2> HIDE DEF cs
  <2>5. Cat(cs) = s
    BY <1>1, <1>2, <2>2, <2>3, <2>4, Zenon
  <2>6. cs \in Seq(Chain) /\ Len(cs) = 1 + Len(r) /\ cs[1] = tmp
    BY <2>1, <2>3, <2>4
  <2>7. ASSUME NEW i \in 1..Len(r) PROVE cs[1 + i] = r[i]
    BY <2>1, <2>3, <2>4
  <2> QED
    BY <2>5, <2>6, <2>7
<1> HIDE DEF cs
<1>7. Len(r) \in Nat
  BY <1>1, LenProperties
<1>8. w \in 1..1 + Len(r) /\ \A i \in 1..1 + Len(r) : Off(cs[i]) # 0 <=> i <= w
  <2>1. CASE n = Len(s) /\ k = l /\ r = <<>>
    <3>1. w = 1
      <4>1. CASE b.lwd = 1
        BY <4>1
      <4>2. CASE b.lwd # 1
        <5>1. b.lwd \in 2..k
          BY <4>2, <2>1, <1>1
        <5>2. b.lwd \in freed
          BY <5>1, <1>5
        <5> QED
          BY <5>2
      <4> QED
        BY <4>1, <4>2
    <3>2. Len(r) = 0
      BY <2>1
    <3> HIDE DEF w
    <3> QED
      BY <3>1, <3>2, <1>4, <1>6
  <2>2. CASE /\ k < b.lwd /\ Len(r) = l - k /\ Off(r[1]) # 0
             /\ \A i \in 1..Len(r) : Off(r[i]) # 0 <=> k + i <= b.lwd
    <3>1. w = b.lwd - k + 1
      <4>1. b.lwd # 1 /\ ~(b.lwd \in 1..k)
        BY <2>2, <1>1
      <4>2. b.lwd \notin freed
        BY <4>1, <1>5
      <4>3. CASE b.lwd - 1 \in freed
        <5>1. b.lwd - 1 \in 1..k
          BY <4>3, <1>5
        <5>2. b.lwd - k + 1 = 2
          BY <5>1, <2>2, <1>1
        <5>3. r # <<>>
          <6>1. Len(r) > 0
            BY <2>2, <1>1
          <6> QED
            BY <6>1
        <5>4. second = 2
          BY <5>3, <2>2
        <5>5. w = second
          BY <4>1, <4>2, <4>3
        <5> QED
          BY <5>2, <5>4, <5>5
      <4>4. CASE b.lwd - 1 \notin freed
        BY <4>1, <4>2, <4>4
      <4> QED
        BY <4>3, <4>4
    <3> HIDE DEF w
    <3>2. w \in 1..1 + Len(r) /\ w >= 2
      BY <3>1, <2>2, <1>1
    <3>3. ASSUME NEW i \in 1..1 + Len(r) PROVE Off(cs[i]) # 0 <=> i <= w
      <4>1. CASE i = 1
        BY <4>1, <3>2, <1>4, <1>6
      <4>2. CASE i # 1
        <5>1. i - 1 \in 1..Len(r) /\ 1 + (i - 1) = i /\ (k + (i - 1) <= b.lwd <=> i <= w)
          BY <4>2, <3>1, <1>1, <1>7
        <5>2. cs[i] = r[i - 1]
          BY <5>1, <1>6
        <5> QED
          BY <5>1, <5>2, <2>2
      <4> QED
        BY <4>1, <4>2
    <3> QED
      BY <3>2, <3>3
  <2> QED
    BY <1>1, <2>1, <2>2
<1>9. cs \in Seq(Plain)
  <2>1. ASSUME NEW i \in 1..Len(cs) PROVE cs[i] \in Plain
    <3>1. CASE i = 1
      BY <3>1, <1>4, <1>6
    <3>2. CASE i # 1
      <4>1. i - 1 \in 1..Len(r) /\ 1 + (i - 1) = i
        BY <3>2, <1>6, <1>7
      <4>2. cs[i] = r[i - 1] /\ r[i - 1] \in Plain
        BY <4>1, <1>1, <1>6, ElementOfSeq
      <4> QED
        BY <4>2
    <3> QED
      BY <3>1, <3>2
  <2> QED
    BY <1>6, <2>1, SeqOfPlain
<1> HIDE DEF w
<1>10. /\ e.chains = cs /\ e.lwd = w /\ e.total = b.total /\ e.bad = b.bad /\ IsBuffer(e)
       /\ e.add = b.add /\ e.del = b.del
  BY <1>0, <1>3 DEF IsBuffer, Fields
<1>11. Holds(e, s)
  BY <1>0, <1>6, <1>10, Zenon DEF Holds
<1>12. InShape(e)
  BY <1>6, <1>8, <1>9, <1>10 DEF InShape
<1> QED
  BY <1>10, <1>11, <1>12 DEF e

-----------------------------------------------------------------------------
(* Reading: the room _evbuffer_expand_fast() makes, and filling it.          *)

\* What the chains from the k-th on have room for.
Spaces(cs, k) == [i \in k..Len(cs) |-> Space(cs[i])]

\* up sums that up.
RoomUpTo(up, cs, k) == Adds(up, Spaces(cs, k), k - 1, Len(cs))

\* The chains from the k-th on have room for n bytes.
RoomFor(cs, k, n) == \E up : RoomUpTo(up, cs, k) /\ up[Len(cs)] >= n

\* The free space of chains is a number.
LEMMA SpacesType ==
    ASSUME NEW cs \in Seq(Chain), NEW k \in 1..Len(cs) + 1
    PROVE  /\ Len(cs) \in Nat /\ k - 1 \in Int /\ k - 1 \in Nat /\ k - 1 <= Len(cs)
           /\ Spaces(cs, k) \in [(k - 1) + 1..Len(cs) -> Nat]
           /\ \A i \in k..Len(cs) : Spaces(cs, k)[i] = Space(cs[i])
<1>1. Len(cs) \in Nat /\ (k - 1) + 1 = k
  BY LenProperties
<1>2. ASSUME NEW i \in k..Len(cs) PROVE Space(cs[i]) \in Nat
  <2>1. i \in 1..Len(cs)
    BY <1>1
  <2> QED
    BY <2>1, ElementOfSeq, SpaceIs
<1> QED
  BY <1>1, <1>2 DEF Spaces

\* A plain chain offers its free space, and an empty one has some.
LEMMA PlainSpace ==
    ASSUME NEW c \in Plain
    PROVE  /\ c \in Chain /\ Space(c) \in Nat /\ Offers(c) = Space(c)
           /\ Off(c) = 0 => Space(c) = c.len /\ Space(c) > 0
           /\ Space(c) = 0 => Off(c) # 0
           /\ c.mis + Off(c) + Space(c) = c.len
<1>1. c \in Chain /\ c.imm = FALSE /\ c.len > 0 /\ (Off(c) = 0 => c.mis = 0)
  BY DEF Plain
<1>2. Space(c) \in Nat /\ c.mis + Off(c) + Space(c) = c.len
  BY <1>1, SpaceIs
<1>3. c.mis \in Nat /\ c.len \in Nat /\ Off(c) \in Nat
  BY <1>1, ChainFields
<1>4. Off(c) = 0 => Space(c) = c.len
  BY <1>1, <1>2, <1>3
<1> QED
  BY <1>1, <1>2, <1>3, <1>4 DEF Offers

\* Avail() sums up the space of the chains from last_with_datap on.
LEMMA AvailIs ==
    ASSUME NEW b, b.chains \in Seq(Plain), b.lwd \in 1..Len(b.chains) + 1,
           NEW up, RoomUpTo(up, b.chains, b.lwd)
    PROVE  \A j \in b.lwd - 1..Len(b.chains) : Avail(b, j) = up[j]
<1> SUFFICES ASSUME NEW j \in b.lwd - 1..Len(b.chains) PROVE Avail(b, j) = up[j]
  OBVIOUS
<1> DEFINE w == b.lwd
           m == b.lwd - 1
           f == [i \in m + 1..j |-> Space(b.chains[i])]
           Rec(u) == u = [i \in b.lwd - 1..j |->
                             IF i < b.lwd THEN 0 ELSE u[i - 1] + Offers(b.chains[i])]
           upTo == CHOOSE u : Rec(u)
<1>0. /\ b.chains \in Seq(Chain) /\ Len(b.chains) \in Nat
      /\ \A i \in 1..Len(b.chains) : b.chains[i] \in Plain
  BY PlainIs, LenProperties
<1>1. /\ m \in Int /\ j \in Int /\ m <= j /\ m + 1 = w /\ w \in Nat /\ w >= 1
  BY <1>0
<1>2. \A i \in m + 1..j : Space(b.chains[i]) \in Nat /\ Offers(b.chains[i]) = Space(b.chains[i])
  <2> SUFFICES ASSUME NEW i \in m + 1..j
               PROVE Space(b.chains[i]) \in Nat /\ Offers(b.chains[i]) = Space(b.chains[i])
    OBVIOUS
  <2>1. i \in 1..Len(b.chains)
    BY <1>0, <1>1
  <2> QED
    BY <2>1, <1>0, PlainSpace
<1>3. f \in [m + 1..j -> Nat]
  BY <1>2
<1>4. PICK g \in [m..j -> Nat] : Adds(g, f, m, j)
  <2> HIDE DEF f, m
  <2> QED
    BY <1>1, <1>3, SumsExist
<1>5. Rec(g)
  <2>1. ASSUME NEW i \in m..j
        PROVE g[i] = IF i < b.lwd THEN 0 ELSE g[i - 1] + Offers(b.chains[i])
    <3>1. CASE i = m
      BY <3>1, <1>1, <1>4 DEF Adds
    <3>2. CASE i # m
      <4>1. i \in m + 1..j /\ ~(i < b.lwd)
        BY <3>2, <1>1
      <4>2. g[i] = g[i - 1] + f[i] /\ f[i] = Offers(b.chains[i])
        BY <4>1, <1>2, <1>4 DEF Adds
      <4> QED
        BY <4>1, <4>2
    <3> QED
      BY <3>1, <3>2
  <2>2. DOMAIN g = m..j
    BY <1>4
  <2> QED
    BY <2>1, <2>2, <1>4
<1>6. Avail(b, j) = upTo[j]
  BY Zenon DEF Avail
<1>7. Rec(upTo)
  <2> HIDE DEF Rec
  <2> QED
    BY <1>5, Zenon
<1> HIDE DEF upTo
<1>8. Sums(upTo, f, m, j)
  <2>1. ASSUME NEW i \in m..j
        PROVE upTo[i] = IF i = m THEN 0 ELSE upTo[i - 1] + f[i]
    <3>1. upTo[i] = IF i < b.lwd THEN 0 ELSE upTo[i - 1] + Offers(b.chains[i])
      BY <1>7
    <3>2. CASE i = m
      BY <3>1, <3>2, <1>1
    <3>3. CASE i # m
      <4>1. i \in m + 1..j /\ ~(i < b.lwd)
        BY <3>3, <1>1
      <4>2. f[i] = Offers(b.chains[i])
        BY <4>1, <1>2
      <4> QED
        BY <3>1, <3>3, <4>1, <4>2
    <3> QED
      BY <3>2, <3>3
  <2>2. upTo = [i \in m..j |-> upTo[i]]
    BY <1>7
  <2> HIDE DEF f, Rec, m
  <2> QED
    BY <2>1, <2>2 DEF Sums
<1>9. Adds(upTo, f, m, j)
  <2> HIDE DEF f, m, Rec
  <2> QED
    BY <1>1, <1>3, <1>8, SumsAre
<1>10. Adds(up, f, m, j)
  <2>1. \A i \in m + 1..j : f[i] = Spaces(b.chains, b.lwd)[i]
    BY <1>0, <1>1 DEF Spaces
  <2>2. Adds(up, Spaces(b.chains, b.lwd), m, Len(b.chains))
    BY DEF RoomUpTo
  <2> HIDE DEF f, Rec
  <2> QED
    BY <1>0, <1>1, <2>1, <2>2 DEF Adds
<1>11. upTo[j] = up[j]
  <2> HIDE DEF f, m, Rec
  <2> QED
    BY <1>1, <1>9, <1>10, SumsUnique
<1> QED
  BY <1>6, <1>11

\* There is one way to sum up the free space of chains.
LEMMA RoomUnique ==
    ASSUME NEW cs \in Seq(Chain), NEW k \in 1..Len(cs) + 1,
           NEW up, RoomUpTo(up, cs, k), NEW v, RoomUpTo(v, cs, k)
    PROVE  up[Len(cs)] = v[Len(cs)]
<1> DEFINE m == k - 1
           n == Len(cs)
           f == Spaces(cs, k)
<1>1. m \in Int /\ n \in Int /\ m <= n
  BY SpacesType
<1>2. Adds(up, f, m, n) /\ Adds(v, f, m, n)
  BY Zenon DEF RoomUpTo
<1> HIDE DEF m, n, f
<1>3. up[n] = v[n]
  BY <1>1, <1>2, SumsUnique
<1> QED
  BY <1>3, Zenon DEF n

\* ... and always a way.
LEMMA RoomSums ==
    ASSUME NEW cs \in Seq(Chain), NEW k \in 1..Len(cs) + 1
    PROVE  \E up : RoomUpTo(up, cs, k)
<1>1. /\ Len(cs) \in Int /\ k - 1 \in Int /\ k - 1 <= Len(cs)
      /\ Spaces(cs, k) \in [(k - 1) + 1..Len(cs) -> Nat]
  BY SpacesType
<1>2. \E g \in [k - 1..Len(cs) -> Nat] : Adds(g, Spaces(cs, k), k - 1, Len(cs))
  BY <1>1, SumsExist
<1> QED
  BY <1>2 DEF RoomUpTo

\* One more chain, after the first q, adds its space.
LEMMA RoomAppend ==
    ASSUME NEW cs \in Seq(Chain), NEW k \in 1..Len(cs) + 1, NEW q \in k - 1..Len(cs),
           NEW up, RoomUpTo(up, cs, k), NEW c \in Chain, NEW n \in Nat,
           up[q] + Space(c) >= n
    PROVE  RoomFor(Append(First(cs, q), c), k, n)
<1> DEFINE ds == Append(First(cs, q), c)
           v == [i \in k - 1..q + 1 |-> IF i = q + 1 THEN up[q] + Space(c) ELSE up[i]]
<1>0. Len(cs) \in Nat /\ q \in 0..Len(cs) /\ k \in Nat /\ k >= 1 /\ Space(c) \in Nat
  BY LenProperties, SpaceIs
<1>1. /\ First(cs, q) \in Seq(Chain) /\ Len(First(cs, q)) = q
      /\ \A i \in 1..q : First(cs, q)[i] = cs[i]
  BY <1>0, FirstProperties
<1>2. /\ Len(ds) = q + 1 /\ ds[q + 1] = c /\ \A i \in 1..q : ds[i] = cs[i]
  BY <1>0, <1>1, AppendProperties
<1> HIDE DEF ds
<1>3. /\ up[k - 1] = 0 /\ \A i \in k - 1..Len(cs) : up[i] \in Nat
      /\ \A i \in k..Len(cs) : up[i] = up[i - 1] + Space(cs[i])
  BY <1>0, SpacesType DEF RoomUpTo, Adds
<1>4. v[k - 1] = 0 /\ v[q + 1] = up[q] + Space(c) /\ \A i \in k - 1..q : v[i] = up[i]
  BY <1>0, <1>3
<1>5. \A i \in k - 1..q + 1 : v[i] \in Nat
  BY <1>0, <1>3
<1> HIDE DEF v
<1>6. ASSUME NEW i \in k..q + 1 PROVE v[i] = v[i - 1] + Spaces(ds, k)[i]
  <2>0. Spaces(ds, k)[i] = Space(ds[i])
    BY <1>2 DEF Spaces
  <2>1. CASE i = q + 1
    <3>1. i - 1 = q /\ q \in k - 1..q
      BY <2>1, <1>0
    <3> QED
      BY <2>0, <2>1, <3>1, <1>2, <1>4
  <2>2. CASE i # q + 1
    <3>1. i \in k..Len(cs) /\ i \in 1..q /\ i - 1 \in k - 1..q /\ i \in k - 1..q
      BY <2>2, <1>0
    <3> QED
      BY <2>0, <3>1, <1>2, <1>3, <1>4
  <2> QED
    BY <2>1, <2>2
<1>7. RoomUpTo(v, ds, k)
  <2>1. (k - 1) + 1 = k
    BY <1>0
  <2> QED
    BY <2>1, <1>2, <1>4, <1>5, <1>6 DEF RoomUpTo, Adds
<1>8. v[Len(ds)] >= n
  BY <1>2, <1>4
<1> QED
  BY <1>7, <1>8, Zenon DEF RoomFor, ds

\* No EVUTIL_ASSERT failed.
NotBad(b) == b.bad = FALSE

\* A new empty chain behind the first q, of which none behind q had data.
LEMMA AppendedKeeps ==
    ASSUME NEW b, NEW s, Holds(b, s), InShape(b), NEW q \in 0..Len(b.chains),
           q >= b.lwd - 1, b.lwd \in Nat, EmptyFrom(b.chains, q + 1),
           NEW c \in Plain, c.data = <<>>, Off(c) = 0,
           NEW e, IsBuffer(e), e.chains = Append(First(b.chains, q), c),
           e.lwd = b.lwd, e.total = b.total, NotBad(e)
    PROVE  Holds(e, s) /\ InShape(e) /\ e.chains # <<>>
<1> DEFINE ds == First(b.chains, q)
<1>0. /\ b.chains \in Seq(Chain) /\ s = Cat(b.chains) /\ s \in Seq(Byte)
      /\ Len(b.chains) \in Nat /\ b.total = Len(s) /\ c \in Chain
  BY HoldsFields DEF Holds, Plain
<1>1. \A i \in 1..Len(b.chains) : b.chains[i] \in Plain
  BY PlainIs DEF InShape
<1>2. /\ ds \in Seq(Chain) /\ Len(ds) = q /\ \A i \in 1..q : ds[i] = b.chains[i]
  BY <1>0, FirstProperties
<1>3. Cat(ds) = s
  <2>1. q + 1 \in 1..Len(b.chains) + 1 /\ (q + 1) - 1 = q
    BY <1>0
  <2> DEFINE k == q + 1
  <2>2. k \in 1..Len(b.chains) + 1 /\ EmptyFrom(b.chains, k) /\ k - 1 = q
    BY <2>1
  <2> HIDE DEF k
  <2>3. Cat(First(b.chains, k - 1)) = Cat(b.chains)
    BY <1>0, <2>2, CatCutEmpty
  <2> QED
    BY <1>0, <2>2, <2>3
<1> HIDE DEF ds
<1>4. e.chains = Append(ds, c)
  BY DEF ds
<1>5. /\ e.chains \in Seq(Chain) /\ Len(e.chains) = q + 1 /\ e.chains[q + 1] = c
      /\ \A i \in 1..q : e.chains[i] = b.chains[i]
  BY <1>0, <1>2, <1>4, AppendProperties
<1>6. Cat(e.chains) = s
  <2>1. Cat(e.chains) = s \o <<>>
    BY <1>0, <1>2, <1>3, <1>4, CatAppend
  <2> QED
    BY <2>1, <1>0, ConcatEmptySeq
<1>7. Holds(e, s)
  BY <1>0, <1>5, <1>6, Zenon DEF Holds, NotBad
<1>8. e.chains \in Seq(Plain)
  <2>1. ASSUME NEW i \in 1..Len(e.chains) PROVE e.chains[i] \in Plain
    <3>1. CASE i = q + 1
      BY <3>1, <1>5
    <3>2. CASE i # q + 1
      <4>1. i \in 1..q /\ i \in 1..Len(b.chains)
        BY <3>2, <1>0, <1>5
      <4> QED
        BY <4>1, <1>1, <1>5
    <3> QED
      BY <3>1, <3>2
  <2> QED
    BY <1>5, <2>1, SeqOfPlain
<1>9. InShape(e)
  <2>1. CASE b.lwd = 1 /\ NoData(b.chains)
    <3>1. ASSUME NEW i \in 1..q + 1 PROVE Off(e.chains[i]) = 0
      <4>1. CASE i = q + 1
        BY <4>1, <1>5
      <4>2. CASE i # q + 1
        <5>1. i \in 1..q /\ i \in 1..Len(b.chains)
          BY <4>2, <1>0
        <5> QED
          BY <5>1, <2>1, <1>5 DEF NoData
      <4> QED
        BY <4>1, <4>2
    <3> QED
      BY <2>1, <3>1, <1>5, <1>8 DEF InShape, NoData
  <2>2. CASE /\ b.lwd \in 1..Len(b.chains)
             /\ \A i \in 1..Len(b.chains) : Off(b.chains[i]) # 0 <=> i <= b.lwd
    <3>1. q >= b.lwd
      <4>1. ASSUME q = b.lwd - 1 PROVE FALSE
        <5>1. b.lwd \in q + 1..Len(b.chains)
          BY <4>1, <2>2, <1>0
        <5> QED
          BY <5>1, <2>2 DEF EmptyFrom
      <4>2. q \in Nat /\ q # b.lwd - 1
        BY <4>1
      <4> QED
        BY <4>2
    <3>2. e.lwd \in 1..Len(e.chains)
      BY <3>1, <1>0, <1>5, <2>2
    <3>3. ASSUME NEW i \in 1..Len(e.chains) PROVE Off(e.chains[i]) # 0 <=> i <= e.lwd
      <4>1. CASE i = q + 1
        BY <4>1, <1>5, <3>1, <1>0
      <4>2. CASE i # q + 1
        <5>1. i \in 1..q /\ i \in 1..Len(b.chains)
          BY <4>2, <1>0, <1>5
        <5> QED
          BY <5>1, <2>2, <1>5
      <4> QED
        BY <4>1, <4>2
    <3> QED
      BY <3>2, <3>3, <1>8 DEF InShape
  <2> QED
    BY <2>1, <2>2 DEF InShape
<1>10. e.chains # <<>>
  BY <1>0, <1>5
<1> QED
  BY <1>7, <1>9, <1>10

\* Where the loop of _evbuffer_expand_fast() stops.
LEMMA LoopEndIs ==
    ASSUME NEW b, NEW l \in Nat, l = Len(b.chains), b.lwd \in 1..l, NEW n \in Nat
    PROVE  LET j == LoopEnd(b, n) IN
           j \in b.lwd..l /\ (j = l \/ Avail(b, j) >= n \/ Used(b, j) = NumVecs)
<1> DEFINE ends == {j \in b.lwd..Len(b.chains) : Avail(b, j) >= n \/ Used(b, j) = NumVecs}
<1>0. LoopEnd(b, n) = IF ends = {} THEN Len(b.chains) ELSE Min(ends)
  BY DEF LoopEnd
<1>1. CASE ends = {}
  BY <1>0, <1>1
<1>2. CASE ends # {}
  <2>1. ends \subseteq Nat
    OBVIOUS
  <2>2. \A j \in ends : j \in b.lwd..l /\ (Avail(b, j) >= n \/ Used(b, j) = NumVecs)
    OBVIOUS
  <2> HIDE DEF ends
  <2>3. Min(ends) \in ends
    BY <1>2, <2>1, MinProperties
  <2> QED
    BY <1>0, <1>2, <2>2, <2>3
<1> QED
  BY <1>1, <1>2

\* On the way it changes nothing: no empty chain has a gap, and none behind
\* last_with_datap has data.
LEMMA PassedIs ==
    ASSUME NEW b, NEW s, Holds(b, s), InShape(b), b.chains # <<>>,
           NEW j \in b.lwd..Len(b.chains)
    PROVE  Passed(b, j) = b
<1> DEFINE cs == [i \in DOMAIN b.chains |->
                     IF i \in b.lwd..j /\ Off(b.chains[i]) = 0
                       THEN [b.chains[i] EXCEPT !.mis = 0] ELSE b.chains[i]]
           bad == b.bad \/ \E i \in b.lwd + 1..j : Off(b.chains[i]) # 0
<1>0. /\ b.chains \in Seq(Chain) /\ Len(b.chains) \in Nat /\ IsBuffer(b) /\ b.bad = FALSE
  BY HoldsFields DEF Holds
<1>1. \A i \in 1..Len(b.chains) : b.chains[i] \in Plain
  BY PlainIs DEF InShape
<1>2. /\ b.lwd \in 1..Len(b.chains)
      /\ \A i \in 2..Len(b.chains) : Off(b.chains[i]) # 0 <=> i <= b.lwd
  BY <1>0, InShapeSlot
<1>3. Passed(b, j) = [b EXCEPT !.chains = cs, !.bad = bad]
  BY Zenon DEF Passed
<1>4. ASSUME NEW i \in DOMAIN b.chains PROVE cs[i] = b.chains[i]
  <2>1. i \in 1..Len(b.chains)
    BY <1>0
  <2>2. CASE i \in b.lwd..j /\ Off(b.chains[i]) = 0
    <3> DEFINE c == b.chains[i]
    <3>1. c \in Plain
      BY <1>1, <2>1
    <3>2. c \in [data : Seq(Byte), mis : Nat, len : Nat, imm : BOOLEAN] /\ c.mis = 0
      BY <3>1, <2>2 DEF Plain, Chain
    <3>3. cs[i] = [c EXCEPT !.mis = 0]
      BY <2>2
    <3> HIDE DEF c
    <3>4. [c EXCEPT !.mis = 0] = c
      BY <3>2
    <3> QED
      BY <3>3, <3>4 DEF c
  <2>3. CASE ~(i \in b.lwd..j /\ Off(b.chains[i]) = 0)
    BY <2>3
  <2> QED
    BY <2>2, <2>3
<1>5. cs = b.chains
  <2>1. b.chains = [i \in DOMAIN b.chains |-> b.chains[i]] /\ DOMAIN cs = DOMAIN b.chains
    BY <1>0
  <2> QED
    BY <1>4, <2>1
<1>6. bad = FALSE
  <2>1. ASSUME NEW i \in b.lwd + 1..j PROVE Off(b.chains[i]) = 0
    <3>1. i \in 2..Len(b.chains) /\ ~(i <= b.lwd)
      BY <1>0, <1>2
    <3> QED
      BY <3>1, <1>2
  <2> QED
    BY <2>1, <1>0
<1> HIDE DEF cs, bad
<1>7. Passed(b, j) = [b EXCEPT !.chains = b.chains, !.bad = b.bad]
  BY <1>0, <1>3, <1>5, <1>6
<1>8. [b EXCEPT !.chains = b.chains, !.bad = b.bad] = b
  BY <1>0 DEF IsBuffer, Fields
<1> QED
  BY <1>7, <1>8

\* A chain of evbuffer_chain_new() has room for what was asked for.
LEMMA EmptyNewChain ==
    ASSUME NEW m \in Nat
    PROVE  LET c == NewChain(m, <<>>) IN
           /\ c \in Plain /\ c \in Chain /\ c.data = <<>> /\ Off(c) = 0
           /\ Space(c) \in Nat /\ Space(c) >= m
<1> DEFINE x == NewChain(m, <<>>)
<1>1. <<>> \in Seq(Byte) /\ Len(<<>>) <= m /\ Len(<<>>) = 0
  OBVIOUS
<1>2. x \in Plain /\ x.data = <<>> /\ Off(x) = Len(<<>>) /\ Space(x) = BufferLen(m) - Len(<<>>)
  BY <1>1, NewChainPlain
<1>3. BufferLen(m) \in Nat /\ BufferLen(m) >= m
  BY BufferLenEnough
<1>4. x \in Chain
  BY <1>2 DEF Plain
<1> HIDE DEF x
<1>5. Off(x) = 0 /\ Space(x) \in Nat /\ Space(x) >= m
  BY <1>1, <1>2, <1>3
<1> QED
  BY <1>2, <1>4, <1>5 DEF x

\* What _evbuffer_expand_fast() does when it allocates.
Widened(b, q, m) ==
    [b EXCEPT !.chains = Append(First(b.chains, q), NewChain(m, <<>>)), !.bad = FALSE]

\* A new chain of m bytes behind the first q chains, which have room for the rest.
LEMMA AppendedRoom ==
    ASSUME NEW b, NEW s, Holds(b, s), InShape(b), b.lwd \in 1..Len(b.chains),
           NEW q \in 0..Len(b.chains), q >= b.lwd - 1, EmptyFrom(b.chains, q + 1),
           NEW up, RoomUpTo(up, b.chains, b.lwd), up[q] \in Nat,
           NEW m \in Nat, NEW n \in Nat, up[q] + m >= n,
           NEW e, e = Widened(b, q, m)
    PROVE  /\ Holds(e, s) /\ InShape(e) /\ e.chains # <<>> /\ RoomFor(e.chains, e.lwd, n)
           /\ e.add = b.add /\ e.del = b.del
<1> DEFINE c == NewChain(m, <<>>)
           ds == Append(First(b.chains, q), c)
<1>0. /\ b.chains \in Seq(Chain) /\ Len(b.chains) \in Nat /\ IsBuffer(b)
  BY HoldsFields DEF Holds
<1>1. /\ c \in Plain /\ c \in Chain /\ c.data = <<>> /\ Off(c) = 0
      /\ Space(c) \in Nat /\ Space(c) >= m
  BY EmptyNewChain
<1>2. e = [b EXCEPT !.chains = ds, !.bad = FALSE]
  BY DEF Widened
<1>3. b.lwd \in Nat /\ b.lwd \in 1..Len(b.chains) + 1 /\ q \in b.lwd - 1..Len(b.chains)
  BY <1>0
<1> HIDE DEF ds, c
<1>4. /\ IsBuffer(e) /\ e.chains = ds /\ e.lwd = b.lwd /\ e.total = b.total
      /\ NotBad(e) /\ e.add = b.add /\ e.del = b.del
  BY <1>0, <1>2 DEF IsBuffer, Fields, NotBad
<1>5. e.chains = Append(First(b.chains, q), c)
  BY <1>4 DEF ds
<1>6. Holds(e, s) /\ InShape(e) /\ e.chains # <<>>
  BY <1>1, <1>3, <1>4, <1>5, AppendedKeeps
<1>7. up[q] + Space(c) >= n
  BY <1>1
<1>8. RoomFor(e.chains, b.lwd, n)
  BY <1>0, <1>1, <1>3, <1>5, <1>7, RoomAppend
<1> QED
  BY <1>4, <1>6, <1>8

\* _evbuffer_expand_fast() keeps the data, and the chains from last_with_datap
\* on have room for what is to be read.
LEMMA ExpandFastKeeps ==
    ASSUME NEW b, NEW s, Holds(b, s), InShape(b), NEW n \in Nat
    PROVE  LET e == ExpandFast(b, n) IN
           /\ Holds(e, s) /\ InShape(e) /\ e.chains # <<>> /\ RoomFor(e.chains, e.lwd, n)
           /\ e.add = b.add /\ e.del = b.del
<1> DEFINE len == Len(b.chains)
           last == LoopEnd(b, n)
           seen == Passed(b, last)
           tail == b.chains[b.lwd]
           keeps == IF Off(tail) = 0 THEN b.lwd - 1 ELSE b.lwd
           room == IF Off(tail) = 0 THEN 0 ELSE Space(tail)
           e == ExpandFast(b, n)
<1>0. /\ b.chains \in Seq(Chain) /\ len \in Nat /\ IsBuffer(b) /\ b.bad = FALSE
      /\ b.chains \in Seq(Plain) /\ s \in Seq(Byte)
  BY HoldsFields DEF Holds, InShape
<1>1. \A i \in 1..len : b.chains[i] \in Plain /\ b.chains[i] \in Chain
  BY <1>0, PlainIs
<1>3. CASE len = 0
  <2>1. b.chains = <<>>
    BY <1>0, <1>3, EmptySeq
  <2>2. b.lwd = 1
    BY <2>1, <1>3 DEF InShape
  <2> DEFINE x == NewChain(n, <<>>)
  <2>3. x \in Plain /\ x \in Chain /\ x.data = <<>> /\ Off(x) = 0 /\ Space(x) \in Nat /\ Space(x) >= n
    BY EmptyNewChain
  <2>4. e = ChainInsert(b, x)
    BY <1>3 DEF ExpandFast
  <2> HIDE DEF x, e
  <2>5. Holds(e, s) /\ e.chains = <<x>> /\ e.lwd = 1 /\ e.add = b.add /\ e.del = b.del
    BY <2>1, <2>2, <2>3, <2>4, FirstChain
  <2>6. e.chains \in Seq(Plain) /\ NoData(e.chains) /\ e.chains # <<>>
    BY <2>3, <2>5 DEF NoData
  <2>7. RoomFor(e.chains, e.lwd, n)
    <3> DEFINE up == [i \in 0..1 |-> IF i = 0 THEN 0 ELSE Space(x)]
    <3>1. Len(e.chains) = 1 /\ e.chains[1] = x
      BY <2>5
    <3>2. up[0] = 0 /\ up[1] = Space(x) /\ \A i \in 0..1 : up[i] \in Nat
      BY <2>3
    <3>3. Spaces(e.chains, 1)[1] = Space(x)
      BY <3>1 DEF Spaces
    <3> HIDE DEF up
    <3>4. RoomUpTo(up, e.chains, 1)
      BY <2>3, <3>1, <3>2, <3>3 DEF RoomUpTo, Adds
    <3>5. up[Len(e.chains)] >= n
      BY <2>3, <3>1, <3>2
    <3> QED
      BY <2>5, <3>4, <3>5 DEF RoomFor
  <2> QED
    BY <2>5, <2>6, <2>7 DEF InShape, e
<1>4. CASE len # 0
  <2>1. b.chains # <<>>
    BY <1>4
  <2>2. /\ b.lwd \in 1..len
        /\ \A i \in 2..len : Off(b.chains[i]) # 0 <=> i <= b.lwd
    BY <1>0, <2>1, InShapeSlot
  <2>3. last \in b.lwd..len /\ (last = len \/ Avail(b, last) >= n \/ Used(b, last) = NumVecs)
    BY <1>0, <2>2, LoopEndIs
  <2>4. seen = b
    BY <2>1, <2>3, PassedIs
  <2>5. PICK up : RoomUpTo(up, b.chains, b.lwd)
    <3>1. b.lwd \in 1..len + 1
      BY <1>0, <2>2
    <3> QED
      BY <3>1, <1>0, RoomSums
  <2>6. /\ Avail(b, last) = up[last] /\ last \in b.lwd - 1..len
    <3>1. b.lwd \in 1..len + 1 /\ last \in b.lwd - 1..len
      BY <1>0, <2>2, <2>3
    <3> QED
      BY <3>1, <1>0, <2>5, AvailIs
  <2>7. /\ \A i \in b.lwd - 1..len : up[i] \in Nat
        /\ \A i \in b.lwd - 1..len : \A j \in i..len : up[i] <= up[j]
        /\ up[b.lwd - 1] = 0 /\ up[b.lwd] = Space(tail)
    <3>1. b.lwd \in 1..len + 1
      BY <1>0, <2>2
    <3> DEFINE m == b.lwd - 1
               f == Spaces(b.chains, b.lwd)
    <3>2. m \in Int /\ len \in Int /\ m <= len /\ f \in [m + 1..len -> Nat]
      BY <1>0, <3>1, SpacesType
    <3>3. Adds(up, f, m, len)
      BY <2>5 DEF RoomUpTo
    <3>4. f[b.lwd] = Space(tail) /\ b.lwd \in m + 1..len
      BY <1>0, <2>2 DEF Spaces
    <3> HIDE DEF f
    <3>5. up[b.lwd] = up[m] + f[b.lwd] /\ up[m] = 0 /\ \A i \in m..len : up[i] \in Nat
      BY <3>3, <3>4 DEF Adds
    <3>6. Space(tail) \in Nat
      BY <1>1, <2>2, SpaceIs
    <3> HIDE DEF m
    <3>7. \A i \in m..len : \A j \in i..len : up[i] <= up[j]
      BY <3>2, <3>3, SumsGrow
    <3> QED
      BY <3>4, <3>5, <3>6, <3>7 DEF m
  <2>8. b.chains[len].imm = FALSE /\ len \in 1..len
    <3>1. len \in 1..len
      BY <1>0, <1>4
    <3> QED
      BY <3>1, <1>1 DEF Plain
  <2>9. CASE Avail(b, last) >= n
    <3>1. e = b
      BY <1>4, <2>4, <2>8, <2>9 DEF ExpandFast
    <3>2. up[len] >= n
      <4>1. up[last] <= up[len] /\ up[last] \in Nat /\ up[len] \in Nat /\ up[last] >= n
        <5>1. len \in last..len /\ len \in b.lwd - 1..len
          BY <1>0, <2>2, <2>3
        <5> HIDE DEF last
        <5>2. up[last] <= up[len] /\ up[last] \in Nat /\ up[len] \in Nat
          BY <5>1, <2>6, <2>7
        <5> QED
          BY <5>2, <2>6, <2>9
      <4> QED
        BY <4>1
    <3>3. RoomFor(b.chains, b.lwd, n)
      BY <2>5, <3>2 DEF RoomFor
    <3> HIDE DEF e
    <3> QED
      BY <3>1, <3>3, <2>1 DEF e
  <2>10. b.lwd \in 1..len + 1 /\ \A q \in b.lwd - 1..len : q \in 0..len /\ q >= b.lwd - 1
    BY <1>0, <2>2
  <2>11. CASE ~(Avail(b, last) >= n) /\ Used(b, last) < NumVecs
    <3>0. NumVecs \in Nat
      BY EvbufferAssumption
    <3>1. last = len
      BY <3>0, <2>3, <2>11
    <3> DEFINE m == n - Avail(b, last)
               c == NewChain(m, <<>>)
    <3>2. up[len] \in Nat /\ m \in Nat /\ up[len] + m >= n /\ len \in b.lwd - 1..len
      BY <1>0, <2>2, <2>6, <2>7, <2>11, <3>1
    <3>3. First(b.chains, len) = b.chains
      <4>1. len \in 0..len
        BY <1>0
      <4>2. /\ First(b.chains, len) \in Seq(Chain) /\ Len(First(b.chains, len)) = len
            /\ \A i \in 1..len : First(b.chains, len)[i] = b.chains[i]
        BY <1>0, <4>1, FirstProperties
      <4> QED
        BY <1>0, <4>2, SeqEqual
    <3>4. EmptyFrom(b.chains, len + 1)
      BY <1>0 DEF EmptyFrom
    <3>5. e = [b EXCEPT !.chains = Append(b.chains, c)]
      BY <1>4, <2>4, <2>8, <2>11 DEF ExpandFast
    <3> DEFINE ds == Append(b.chains, c)
               bad == FALSE
    <3> HIDE DEF e
    <3>6. e = [b EXCEPT !.chains = ds, !.bad = bad]
      <4>1. e = [b EXCEPT !.chains = ds]
        BY <3>5
      <4> HIDE DEF ds
      <4> QED
        BY <4>1, <1>0 DEF IsBuffer, Fields
    <3>7. e = Widened(b, len, m)
      BY <3>3, <3>6 DEF Widened
    <3> HIDE DEF m, bad
    <3> DEFINE q == len
    <3>9. /\ q \in 0..len /\ q >= b.lwd - 1 /\ up[q] \in Nat /\ m \in Nat /\ up[q] + m >= n
          /\ EmptyFrom(b.chains, q + 1) /\ e = Widened(b, q, m)
      BY <2>10, <3>2, <3>4, <3>7
    <3> HIDE DEF q
    <3>8. /\ Holds(e, s) /\ InShape(e) /\ e.chains # <<>> /\ RoomFor(e.chains, e.lwd, n)
          /\ e.add = b.add /\ e.del = b.del
      BY <2>2, <2>5, <3>9, AppendedRoom
    <3> QED
      BY <3>8 DEF e
  <2>12. CASE ~(Avail(b, last) >= n) /\ ~(Used(b, last) < NumVecs)
    <3> DEFINE m == n - room
               bad == \/ b.bad
                      \/ (Off(tail) = 0 /\ b.lwd # 1)
                      \/ \E i \in b.lwd + 1..len : Off(b.chains[i]) # 0
    <3>1. e = [b EXCEPT !.chains = Append(First(b.chains, keeps), NewChain(m, <<>>)),
                        !.bad = bad]
      BY <1>4, <2>4, <2>8, <2>12, Zenon DEF ExpandFast
    <3>2. \A i \in b.lwd + 1..len : Off(b.chains[i]) = 0
      <4> SUFFICES ASSUME NEW i \in b.lwd + 1..len PROVE Off(b.chains[i]) = 0
        OBVIOUS
      <4>1. i \in 2..len /\ ~(i <= b.lwd)
        BY <1>0, <2>2
      <4> QED
        BY <4>1, <2>2
    <3>3. Off(tail) = 0 => b.lwd = 1
      <4>1. ASSUME b.lwd # 1 PROVE Off(tail) # 0
        <5>1. b.lwd \in 2..len /\ b.lwd <= b.lwd
          BY <1>0, <2>2, <4>1
        <5> QED
          BY <5>1, <2>2
      <4> QED
        BY <4>1
    <3>4. bad = FALSE
      BY <1>0, <3>2, <3>3
    <3>5. /\ keeps \in b.lwd - 1..len /\ EmptyFrom(b.chains, keeps + 1)
          /\ m \in Nat /\ up[keeps] + m >= n
      <4>1. CASE Off(tail) = 0
        <5>1. keeps = 0 /\ room = 0 /\ m = n /\ b.lwd - 1 = 0
          BY <4>1, <3>3
        <5>2. ASSUME NEW i \in 1..len PROVE Off(b.chains[i]) = 0
          <6>1. i = 1 \/ i \in b.lwd + 1..len
            BY <4>1, <3>3, <1>0
          <6> QED
            BY <6>1, <4>1, <3>2, <3>3
        <5>3. EmptyFrom(b.chains, keeps + 1)
          BY <5>1, <5>2 DEF EmptyFrom
        <5> HIDE DEF keeps, room, m
        <5> QED
          BY <5>1, <5>3, <2>7, <1>0
      <4>2. CASE Off(tail) # 0
        <5>1. keeps = b.lwd /\ room = Space(tail) /\ m = n - Space(tail)
          BY <4>2
        <5>2. up[b.lwd] <= up[last] /\ up[last] < n /\ up[b.lwd] \in Nat /\ up[last] \in Nat
          <6>1. b.lwd \in b.lwd - 1..len /\ last \in b.lwd..len
            BY <1>0, <2>2, <2>3
          <6>2. up[b.lwd] <= up[last] /\ up[b.lwd] \in Nat /\ up[last] \in Nat
            BY <6>1, <2>6, <2>7
          <6> QED
            BY <6>2, <2>6, <2>12
        <5>3. EmptyFrom(b.chains, keeps + 1)
          BY <5>1, <3>2 DEF EmptyFrom
        <5> HIDE DEF keeps, room, m, last
        <5> QED
          BY <5>1, <5>2, <5>3, <2>2, <2>7, <1>0
      <4> QED
        BY <4>1, <4>2
    <3> HIDE DEF bad
    <3>6. e = Widened(b, keeps, m)
      BY <3>1, <3>4 DEF Widened
    <3>9. keeps \in 0..len /\ keeps >= b.lwd - 1 /\ up[keeps] \in Nat
      BY <2>7, <2>10, <3>5
    <3> HIDE DEF keeps, m, e
    <3>7. /\ Holds(e, s) /\ InShape(e) /\ e.chains # <<>> /\ RoomFor(e.chains, e.lwd, n)
          /\ e.add = b.add /\ e.del = b.del
      BY <2>2, <2>5, <3>5, <3>6, <3>9, AppendedRoom
    <3> QED
      BY <3>7 DEF e
  <2> QED
    BY <2>9, <2>11, <2>12
<1> QED
  BY <1>3, <1>4

\* The part of d that goes where x bytes went before and y have gone then.
Part(d, x, y) == SubSeq(d, x + 1, Min({y, Len(d)}))
Cap(d, x) == Min({x, Len(d)})

\* The smaller of two lengths.
LEMMA CapIs ==
    ASSUME NEW d \in Seq(Byte), NEW x \in Nat
    PROVE  /\ Len(d) \in Nat /\ Cap(d, x) \in 0..Len(d)
           /\ x <= Len(d) => Cap(d, x) = x
           /\ x >= Len(d) => Cap(d, x) = Len(d)
<1> DEFINE T == {x, Len(d)}
<1>1. Len(d) \in Nat
  BY LenProperties
<1>2. T \subseteq Nat /\ T # {} /\ \A t \in T : t = x \/ t = Len(d)
  BY <1>1
<1>3. x \in T /\ Len(d) \in T
  OBVIOUS
<1> HIDE DEF T
<1>4. Min(T) \in T /\ \A t \in T : Min(T) <= t
  BY <1>2, MinProperties
<1>5. Cap(d, x) = Min(T)
  BY DEF Cap, T
<1>6. (Min(T) = x \/ Min(T) = Len(d)) /\ Min(T) <= x /\ Min(T) <= Len(d)
  BY <1>2, <1>3, <1>4
<1>7. (Cap(d, x) = x \/ Cap(d, x) = Len(d)) /\ Cap(d, x) <= x /\ Cap(d, x) <= Len(d)
  BY <1>5, <1>6
<1> QED
  BY <1>1, <1>7

\* The parts of d follow each other.
LEMMA PartIs ==
    ASSUME NEW d \in Seq(Byte), NEW x \in Nat, NEW y \in Nat, x <= y
    PROVE  /\ Part(d, x, y) \in Seq(Byte) /\ Len(Part(d, x, y)) \in Nat
           /\ Len(Part(d, x, y)) <= y - x
           /\ x >= Len(d) => Part(d, x, y) = <<>>
           /\ x < Len(d) /\ x < y => Len(Part(d, x, y)) > 0
           /\ First(d, Cap(d, y)) = First(d, Cap(d, x)) \o Part(d, x, y)
<1> DEFINE c == Cap(d, y)
           p == Part(d, x, y)
           m == x + 1
<1>1. /\ Len(d) \in Nat /\ c \in 0..Len(d) /\ (y <= Len(d) => c = y)
      /\ (y >= Len(d) => c = Len(d)) /\ c \in Int /\ m \in Int
  BY CapIs
<1>2. p = SubSeq(d, m, c)
  BY DEF Part, Cap
<1> HIDE DEF c
<1>3. \A i \in m..c : d[i] \in Byte
  BY <1>1, ElementOfSeq
<1> HIDE DEF p
<1>4. /\ p \in Seq(Byte) /\ Len(p) = IF m <= c THEN c - m + 1 ELSE 0
      /\ \A i \in 1..c - m + 1 : p[i] = d[m + i - 1]
  <2> HIDE DEF m
  <2> QED
    BY <1>1, <1>2, <1>3, SubSeqProperties
<1>5. CASE x >= Len(d)
  <2>1. Cap(d, x) = Len(d) /\ c = Len(d)
    BY <1>1, <1>5, CapIs
  <2>2. Len(p) = 0
    BY <1>1, <1>4, <1>5, <2>1
  <2>3. p = <<>>
    BY <1>4, <2>2, EmptySeq
  <2>4. First(d, Len(d)) \in Seq(Byte)
    BY <1>1, FirstProperties
  <2>5. First(d, c) = First(d, Cap(d, x)) \o p
    <3>1. First(d, Len(d)) \o <<>> = First(d, Len(d))
      BY <2>4, ConcatEmptySeq
    <3> QED
      BY <2>1, <2>3, <3>1
  <2> QED
    BY <1>1, <1>4, <1>5, <2>2, <2>3, <2>5 DEF c, p
<1>6. CASE x < Len(d)
  <2>1. Cap(d, x) = x /\ x <= c /\ x \in 0..Len(d)
    BY <1>1, <1>6, CapIs
  <2>2. Len(p) = c - x
    BY <1>1, <1>4, <2>1
  <2>3. x < y => Len(p) > 0
    BY <1>1, <1>6, <2>2
  <2> DEFINE u == First(d, x)
             v == First(d, c)
  <2>4. u \in Seq(Byte) /\ Len(u) = x /\ \A i \in 1..x : u[i] = d[i]
    BY <2>1, FirstProperties
  <2>5. v \in Seq(Byte) /\ Len(v) = c /\ \A i \in 1..c : v[i] = d[i]
    BY <1>1, FirstProperties
  <2> HIDE DEF u, v
  <2>6. v = u \o p
    <3> DEFINE t == u \o p
    <3>1. /\ t \in Seq(Byte) /\ Len(t) = Len(u) + Len(p)
          /\ \A i \in 1..Len(u) : t[i] = u[i]
          /\ \A i \in 1..Len(p) : t[Len(u) + i] = p[i]
      <4>1. Len(u) \in Nat /\ Len(p) \in Nat
        BY <1>4, <2>4, LenProperties
      <4>2. t \in Seq(Byte) /\ Len(t) = Len(u) + Len(p)
        BY <1>4, <2>4, ConcatProperties
      <4>3. \A i \in 1..Len(u) + Len(p) : t[i] = IF i <= Len(u) THEN u[i] ELSE p[i - Len(u)]
        BY <1>4, <2>4, ConcatProperties
      <4> HIDE DEF t
      <4>4. ASSUME NEW i \in 1..Len(p) PROVE t[Len(u) + i] = p[i]
        <5>1. Len(u) + i \in 1..Len(u) + Len(p) /\ ~(Len(u) + i <= Len(u)) /\ (Len(u) + i) - Len(u) = i
          BY <4>1
        <5> QED
          BY <4>3, <5>1
      <4>5. ASSUME NEW i \in 1..Len(u) PROVE t[i] = u[i]
        BY <4>1, <4>3
      <4> QED
        BY <4>2, <4>4, <4>5
    <3> HIDE DEF t
    <3>2. Len(t) = Len(v)
      BY <1>1, <2>1, <2>2, <2>4, <2>5, <3>1
    <3>3. ASSUME NEW i \in 1..Len(v) PROVE t[i] = v[i]
      <4>0. v[i] = d[i]
        BY <2>5
      <4>1. CASE i <= x
        BY <4>0, <4>1, <2>4, <2>5, <3>1
      <4>2. CASE ~(i <= x)
        <5>1. i - x \in 1..Len(p) /\ x + (i - x) = i /\ i - x \in 1..c - m + 1
              /\ m + (i - x) - 1 = i
          BY <4>2, <1>1, <2>1, <2>2, <2>5
        <5>2. t[x + (i - x)] = p[i - x]
          BY <5>1, <2>4, <3>1
        <5>3. p[i - x] = d[m + (i - x) - 1]
          BY <5>1, <1>4
        <5> QED
          BY <4>0, <5>1, <5>2, <5>3
      <4> QED
        BY <4>1, <4>2
    <3>4. t = v
      BY <2>5, <3>1, <3>2, <3>3, SeqEqual
    <3> QED
      BY <3>4 DEF t
  <2>7. Len(p) \in Nat /\ Len(p) <= y - x
    BY <1>1, <2>1, <2>2
  <2>8. First(d, c) = First(d, Cap(d, x)) \o p
    BY <2>1, <2>6 DEF u, v
  <2> QED
    BY <1>4, <1>6, <2>3, <2>7, <2>8 DEF c, p
<1> QED
  BY <1>1, <1>5, <1>6

\* Each chain from the k-th on gets its part of d behind its data.
Spread(ds, cs, k, d, up) ==
    /\ \A i \in 1..k - 1 : ds[i] = cs[i]
    /\ \A i \in k..Len(cs) : ds[i].data = cs[i].data \o Part(d, up[i - 1], up[i])

\* Together the chains got all of d, in order.
LEMMA CatSpread ==
    ASSUME NEW cs \in Seq(Chain), NEW ds \in Seq(Chain), Len(ds) = Len(cs),
           NEW k \in 1..Len(cs), EmptyFrom(cs, k + 1), NEW d \in Seq(Byte),
           NEW up, RoomUpTo(up, cs, k), up[Len(cs)] >= Len(d), Spread(ds, cs, k, d, up)
    PROVE  Cat(ds) = Cat(cs) \o d
<1> DEFINE l == Len(cs)
           s == Cat(cs)
           P == {i \in Nat : Cat(First(ds, i)) = s \o First(d, Cap(d, up[i]))}
<1>0. /\ l \in Nat /\ k \in Nat /\ k >= 1 /\ k <= l /\ Len(d) \in Nat /\ s \in Seq(Byte)
  BY LenProperties, CatType
<1>1. /\ up[k - 1] = 0 /\ \A i \in k - 1..l : up[i] \in Nat
      /\ \A i \in k..l : up[i] = up[i - 1] + Space(cs[i]) /\ Space(cs[i]) \in Nat
  <2>1. k \in 1..Len(cs) + 1
    BY <1>0
  <2>2. (k - 1) + 1 = k
    BY <1>0
  <2>3. \A i \in k..l : Spaces(cs, k)[i] = Space(cs[i])
    BY <2>1, SpacesType
  <2>4. ASSUME NEW i \in k..l PROVE Space(cs[i]) \in Nat
    <3>1. i \in 1..l
      BY <1>0
    <3> QED
      BY <3>1, ElementOfSeq, SpaceIs
  <2> QED
    BY <2>2, <2>3, <2>4 DEF RoomUpTo, Adds
<1>2. ASSUME NEW i \in k..l
      PROVE  /\ up[i - 1] \in Nat /\ up[i] \in Nat /\ up[i - 1] <= up[i]
             /\ Part(d, up[i - 1], up[i]) \in Seq(Byte)
             /\ First(d, Cap(d, up[i])) = First(d, Cap(d, up[i - 1])) \o Part(d, up[i - 1], up[i])
             /\ First(d, Cap(d, up[i - 1])) \in Seq(Byte)
  <2>1. up[i - 1] \in Nat /\ up[i] \in Nat
    BY <1>0, <1>1
  <2>2. up[i - 1] <= up[i]
    BY <1>1, <2>1
  <2>3. Cap(d, up[i - 1]) \in 0..Len(d)
    BY <2>1, CapIs
  <2> QED
    BY <2>1, <2>2, <2>3, PartIs, FirstProperties
<1>3. k \in P
  <2> DEFINE x == Cat(First(cs, k - 1))
             p == Part(d, up[k - 1], up[k])
  <2>1. Cat(First(cs, k)) = x \o cs[k].data /\ x \in Seq(Byte) /\ cs[k].data \in Seq(Byte)
    BY CatLast
  <2>2. Cat(First(cs, k)) = s
    <3> DEFINE j == k + 1
    <3>1. j \in 1..l + 1 /\ EmptyFrom(cs, j) /\ j - 1 = k
      BY <1>0
    <3> HIDE DEF j
    <3>2. Cat(First(cs, j - 1)) = Cat(cs)
      BY <3>1, CatCutEmpty
    <3> QED
      BY <3>1, <3>2
  <2>3. First(ds, k - 1) = First(cs, k - 1)
    <3>1. k - 1 \in Nat /\ k - 1 <= Len(cs) /\ k - 1 <= Len(ds)
      BY <1>0
    <3>2. \A i \in 1..k - 1 : ds[i] = cs[i]
      BY DEF Spread
    <3> QED
      BY <3>1, <3>2, FirstAgree
  <2>4. Cat(First(ds, k)) = Cat(First(ds, k - 1)) \o ds[k].data
    <3>1. k \in 1..Len(ds)
      OBVIOUS
    <3> QED
      BY <3>1, CatLast
  <2>5. k \in k..l
    BY <1>0
  <2>6. ds[k].data = cs[k].data \o p
    BY <2>5 DEF Spread
  <2>7. p \in Seq(Byte) /\ First(d, Cap(d, up[k])) = First(d, Cap(d, up[k - 1])) \o p
    BY <1>2, <2>5
  <2>8. First(d, Cap(d, up[k - 1])) = <<>>
    <3>1. Cap(d, 0) = 0
      BY <1>0, CapIs
    <3>2. First(d, 0) \in Seq(Byte) /\ Len(First(d, 0)) = 0
      <4>1. 0 \in 0..Len(d)
        BY <1>0
      <4> QED
        BY <4>1, FirstProperties
    <3>3. First(d, 0) = <<>>
      BY <3>2, EmptySeq
    <3> QED
      BY <1>1, <3>1, <3>3
  <2>9. First(d, Cap(d, up[k])) = p
    BY <2>7, <2>8, ConcatEmptySeq
  <2> HIDE DEF x, p, s, P
  <2>10. x \o (cs[k].data \o p) = (x \o cs[k].data) \o p
    BY <2>1, <2>7, Associative
  <2>11. Cat(First(ds, k)) = s \o p
    BY <2>1, <2>2, <2>3, <2>4, <2>6, <2>10 DEF x
  <2> QED
    BY <2>9, <2>11 DEF P
<1>4. ASSUME NEW i \in k..l, i < l, i \in P PROVE i + 1 \in P
  <2> DEFINE j == i + 1
             p == Part(d, up[i], up[j])
             q == First(d, Cap(d, up[i]))
  <2>1. j \in k..l /\ j \in 1..l /\ j - 1 = i /\ j \in k + 1..l
    BY <1>0, <1>4
  <2>2. /\ p \in Seq(Byte) /\ q \in Seq(Byte) /\ First(d, Cap(d, up[j])) = q \o p
    <3> HIDE DEF j
    <3> QED
      BY <1>2, <2>1
  <2>3. Cat(First(ds, i)) = s \o q
    BY <1>4
  <2> HIDE DEF j, q, s, P
  <2>4. Cat(First(ds, j)) = Cat(First(ds, j - 1)) \o ds[j].data
    <3>1. j \in 1..Len(ds)
      BY <2>1
    <3> QED
      BY <3>1, CatLast
  <2>5. cs[j].data = <<>>
    <3>1. Off(cs[j]) = 0
      BY <2>1 DEF EmptyFrom
    <3>2. cs[j].data \in Seq(Byte)
      BY <2>1, ElementOfSeq, ChainFields
    <3> QED
      BY <3>1, <3>2, EmptySeq DEF Off
  <2>6. ds[j].data = p
    <3>1. ds[j].data = cs[j].data \o Part(d, up[j - 1], up[j])
      BY <2>1 DEF Spread
    <3>2. ds[j].data = <<>> \o p
      BY <3>1, <2>1, <2>5
    <3> HIDE DEF p
    <3> QED
      BY <3>2, <2>2, ConcatEmptySeq
  <2> HIDE DEF p
  <2>7. (s \o q) \o p = s \o (q \o p)
    BY <1>0, <2>2, Associative DEF s
  <2>8. Cat(First(ds, j)) = s \o First(d, Cap(d, up[j]))
    BY <2>1, <2>2, <2>3, <2>4, <2>6, <2>7
  <2>9. j \in Nat
    BY <1>0, <2>1
  <2> QED
    BY <2>8, <2>9 DEF P, j
<1>5. l \in P
  <2> HIDE DEF P, l
  <2>0. k \in Int /\ l \in Int
    BY <1>0
  <2>1. \A i \in k..l : i \in P
    BY <2>0, <1>3, <1>4, IntervalInduction
  <2> QED
    BY <1>0, <2>1
<1>6. Cat(First(ds, l)) = s \o First(d, Cap(d, up[l]))
  BY <1>5
<1>7. First(ds, l) = ds
  <2>1. l \in 0..l /\ l = Len(ds)
    BY <1>0
  <2>2. /\ First(ds, l) \in Seq(Chain) /\ Len(First(ds, l)) = l
        /\ \A i \in 1..l : First(ds, l)[i] = ds[i]
    BY <2>1, FirstProperties
  <2> QED
    BY <2>1, <2>2, SeqEqual
<1>8. First(d, Cap(d, up[l])) = d
  <2>1. l \in k - 1..l
    BY <1>0
  <2>2. up[l] \in Nat /\ up[l] >= Len(d)
    BY <1>1, <2>1
  <2>3. Cap(d, up[l]) = Len(d)
    BY <2>2, CapIs
  <2>4. Len(d) \in 0..Len(d)
    BY <1>0
  <2>5. /\ First(d, Len(d)) \in Seq(Byte) /\ Len(First(d, Len(d))) = Len(d)
        /\ \A i \in 1..Len(d) : First(d, Len(d))[i] = d[i]
    BY <2>4, FirstProperties
  <2> QED
    BY <2>3, <2>5, SeqEqual
<1> QED
  BY <1>6, <1>7, <1>8

\* The sums in the definition of Filled().
LEMMA RoomChosen ==
    ASSUME NEW cs \in Seq(Chain), NEW k \in 1..Len(cs) + 1
    PROVE  RoomUpTo((CHOOSE u : u = [i \in k - 1..Len(cs) |->
                        IF i < k THEN 0 ELSE u[i - 1] + Space(cs[i])]), cs, k)
<1> DEFINE m == k - 1
           l == Len(cs)
           f == Spaces(cs, k)
           Rec(u) == u = [i \in k - 1..Len(cs) |->
                             IF i < k THEN 0 ELSE u[i - 1] + Space(cs[i])]
           upTo == CHOOSE u : Rec(u)
<1>1. /\ m \in Int /\ l \in Int /\ m <= l /\ m + 1 = k /\ k \in Nat
      /\ f \in [m + 1..l -> Nat] /\ \A i \in k..l : f[i] = Space(cs[i])
  BY SpacesType
<1>2. PICK g \in [m..l -> Nat] : Adds(g, f, m, l)
  <2> HIDE DEF f, m, l
  <2> QED
    BY <1>1, SumsExist
<1>3. Rec(g)
  <2> HIDE DEF f
  <2>1. ASSUME NEW i \in m..l
        PROVE g[i] = IF i < k THEN 0 ELSE g[i - 1] + Space(cs[i])
    <3>1. CASE i = m
      BY <3>1, <1>1, <1>2 DEF Adds
    <3>2. CASE i # m
      <4>1. i \in m + 1..l /\ ~(i < k) /\ i \in k..l
        BY <3>2, <1>1
      <4>2. g[i] = g[i - 1] + f[i] /\ f[i] = Space(cs[i])
        BY <4>1, <1>1, <1>2 DEF Adds
      <4> QED
        BY <4>1, <4>2
    <3> QED
      BY <3>1, <3>2
  <2>2. DOMAIN g = m..l
    BY <1>2
  <2> QED
    BY <2>1, <2>2, <1>2
<1>4. Rec(upTo)
  <2> HIDE DEF Rec
  <2> QED
    BY <1>3, Zenon
<1> HIDE DEF upTo, f
<1>5. Sums(upTo, f, m, l)
  <2>1. ASSUME NEW i \in m..l
        PROVE upTo[i] = IF i = m THEN 0 ELSE upTo[i - 1] + f[i]
    <3>1. upTo[i] = IF i < k THEN 0 ELSE upTo[i - 1] + Space(cs[i])
      BY <1>4
    <3>2. CASE i = m
      BY <3>1, <3>2, <1>1
    <3>3. CASE i # m
      <4>1. ~(i < k) /\ i \in k..l
        BY <3>3, <1>1
      <4> QED
        BY <3>1, <3>3, <4>1, <1>1
    <3> QED
      BY <3>2, <3>3
  <2>2. upTo = [i \in m..l |-> upTo[i]]
    BY <1>4
  <2> HIDE DEF Rec, m, l
  <2> QED
    BY <2>1, <2>2 DEF Sums
<1>6. Adds(upTo, f, m, l)
  <2> HIDE DEF m, l, Rec
  <2> QED
    BY <1>1, <1>5, SumsAre
<1>7. RoomUpTo(upTo, cs, k)
  BY <1>6 DEF RoomUpTo, f
<1> QED
  BY <1>7 DEF upTo

\* The slot the vectors start at: all chains before it are used up, and from it
\* on there is room, in chains of which only the first can have data.
LEMMA WritableIs ==
    ASSUME NEW b, NEW s, Holds(b, s), InShape(b), b.chains # <<>>,
           NEW n \in Nat, n > 0, RoomFor(b.chains, b.lwd, n)
    PROVE  LET k == Writable(b) IN
           /\ k \in 1..Len(b.chains) /\ EmptyFrom(b.chains, k + 1)
           /\ \A i \in 1..k - 1 : Off(b.chains[i]) # 0
           /\ \A i \in k..Len(b.chains) : Space(b.chains[i]) > 0
           /\ RoomFor(b.chains, k, n)
<1> DEFINE l == Len(b.chains)
           w == b.lwd
           k == Writable(b)
<1>0. /\ b.chains \in Seq(Chain) /\ l \in Nat /\ b.chains \in Seq(Plain)
  BY HoldsFields DEF Holds, InShape
<1>1. \A i \in 1..l : b.chains[i] \in Plain
  BY <1>0, PlainIs
<1>2. /\ w \in 1..l
      /\ \A i \in 2..l : Off(b.chains[i]) # 0 <=> i <= w
  BY <1>0, InShapeSlot
<1>3. \A i \in 1..l : /\ Space(b.chains[i]) \in Nat
                      /\ Off(b.chains[i]) = 0 => Space(b.chains[i]) > 0
                      /\ Space(b.chains[i]) = 0 => Off(b.chains[i]) # 0
  BY <1>1, PlainSpace
<1>4. \A i \in w + 1..l : Off(b.chains[i]) = 0 /\ Space(b.chains[i]) > 0
  <2> SUFFICES ASSUME NEW i \in w + 1..l PROVE Off(b.chains[i]) = 0 /\ Space(b.chains[i]) > 0
    OBVIOUS
  <2>1. i \in 2..l /\ i \in 1..l /\ ~(i <= w)
    BY <1>0, <1>2
  <2> QED
    BY <2>1, <1>2, <1>3
<1>5. \A i \in 1..w - 1 : Off(b.chains[i]) # 0
  <2>1. CASE w = 1
    BY <2>1
  <2>2. CASE w # 1
    <3>1. Off(b.chains[w]) # 0
      <4>1. w \in 2..l /\ w <= w
        BY <1>0, <1>2, <2>2
      <4> QED
        BY <4>1, <1>2
    <3>2. \A i \in 1..l : Off(b.chains[i]) # 0 <=> i <= w
      BY <2>2 DEF InShape
    <3> QED
      BY <1>0, <1>2, <3>2
  <2> QED
    BY <2>1, <2>2
<1>6. PICK up : RoomUpTo(up, b.chains, w) /\ up[l] >= n
  BY DEF RoomFor
<1>7. CASE Space(b.chains[w]) = 0
  <2>1. k = w + 1
    BY <1>0, <1>2, <1>7 DEF Writable
  <2>2. /\ up[w - 1] = 0 /\ up[w] = up[w - 1] + Spaces(b.chains, w)[w]
        /\ \A i \in w - 1..l : up[i] \in Nat
        /\ \A i \in w..l : up[i] = up[i - 1] + Spaces(b.chains, w)[i]
    <3>1. (w - 1) + 1 = w /\ w \in w..l
      BY <1>0, <1>2
    <3> QED
      BY <3>1, <1>6 DEF RoomUpTo, Adds
  <2>3. Spaces(b.chains, w)[w] = 0
    BY <1>0, <1>2, <1>7 DEF Spaces
  <2>4. up[w] = 0
    BY <2>2, <2>3
  <2>5. w < l
    <3>1. ASSUME w = l PROVE FALSE
      BY <3>1, <2>4, <1>6
    <3> QED
      BY <3>1, <1>0, <1>2
  <2>6. RoomUpTo(up, b.chains, k)
    <3> DEFINE f == Spaces(b.chains, w)
               g == Spaces(b.chains, k)
    <3>1. \A i \in k..l : g[i] = f[i]
      BY <1>0, <1>2, <2>1 DEF Spaces
    <3>2. k - 1 = w /\ (k - 1) + 1 = k /\ \A i \in k..l : i \in w..l
      BY <1>0, <1>2, <2>1
    <3>3. \A i \in w..l : up[i] \in Nat
      BY <1>0, <1>2, <2>2
    <3> HIDE DEF f, g, k
    <3>4. \A i \in k..l : up[i] = up[i - 1] + g[i]
      BY <2>2, <3>1, <3>2 DEF f
    <3> QED
      BY <2>4, <3>2, <3>3, <3>4 DEF RoomUpTo, Adds, g
  <2>7. RoomFor(b.chains, k, n)
    BY <1>6, <2>6 DEF RoomFor
  <2>8. EmptyFrom(b.chains, k + 1)
    BY <1>0, <1>2, <1>4, <2>1 DEF EmptyFrom
  <2>9. Off(b.chains[w]) # 0
    BY <1>2, <1>3, <1>7
  <2>10. ASSUME NEW i \in 1..k - 1 PROVE Off(b.chains[i]) # 0
    <3>1. i = w \/ i \in 1..w - 1
      BY <2>1, <1>0, <1>2
    <3> QED
      BY <3>1, <2>9, <1>5
  <2>11. k \in 1..l
    BY <2>1, <2>5, <1>0, <1>2
  <2> HIDE DEF k
  <2> QED
    BY <1>4, <2>1, <2>7, <2>8, <2>10, <2>11 DEF k
<1>8. CASE Space(b.chains[w]) # 0
  <2>1. k = w
    BY <1>8 DEF Writable
  <2>2. Space(b.chains[w]) > 0
    BY <1>2, <1>3, <1>8
  <2>3. EmptyFrom(b.chains, w + 1)
    BY <1>4 DEF EmptyFrom
  <2>4. ASSUME NEW i \in w..l PROVE Space(b.chains[i]) > 0
    <3>1. i = w \/ i \in w + 1..l
      BY <1>0, <1>2
    <3> QED
      BY <3>1, <2>2, <1>4
  <2> HIDE DEF k
  <2> QED
    BY <1>2, <1>5, <2>1, <2>3, <2>4 DEF k
<1> QED
  BY <1>7, <1>8

\* A plain chain that gets data is a plain chain.
LEMMA FullerPlain ==
    ASSUME NEW c \in Plain, NEW d \in Seq(Byte), Len(d) <= Space(c)
    PROVE  LET f == WithData(c, d) IN
           f \in Plain /\ f \in Chain /\ f.data = c.data \o d /\ Off(f) = Off(c) + Len(d)
<1> DEFINE f == WithData(c, d)
<1>1. c \in Chain /\ Space(c) \in Nat /\ c.mis + Off(c) + Space(c) = c.len
  BY PlainSpace
<1>2. c.mis \in Nat /\ c.len \in Nat /\ Off(c) \in Nat /\ Len(d) \in Nat
  BY <1>1, ChainFields, LenProperties
<1>3. c.mis + Off(c) + Len(d) <= c.len
  BY <1>1, <1>2
<1>4. f = [c EXCEPT !.data = @ \o d]
  BY DEF WithData
<1> HIDE DEF f
<1>5. /\ f \in Chain /\ f.data = c.data \o d /\ Off(f) = Off(c) + Len(d)
      /\ f.mis = c.mis /\ f.len = c.len /\ f.imm = c.imm
  BY <1>1, <1>3, <1>4, Fuller
<1>6. c.imm = FALSE /\ c.len > 0 /\ (Off(c) = 0 => c.mis = 0)
  BY DEF Plain
<1>7. Off(f) = 0 => f.mis = 0
  BY <1>2, <1>5, <1>6
<1>8. f \in Plain
  BY <1>5, <1>6, <1>7 DEF Plain
<1> QED
  BY <1>5, <1>8 DEF f

\* What readv() got fills the vectors in order.
LEMMA FilledKeeps ==
    ASSUME NEW b, NEW s, Holds(b, s), InShape(b), b.add \in Nat, b.chains # <<>>,
           NEW n \in Nat, RoomFor(b.chains, b.lwd, n),
           NEW d \in Seq(Byte), Len(d) > 0, Len(d) <= n
    PROVE  LET e == Filled(b, d) IN
           /\ Holds(e, s \o d) /\ InShape(e)
           /\ e.add = b.add + Len(d) /\ e.del = b.del
<1> DEFINE l == Len(b.chains)
           k == Writable(b)
           up == CHOOSE u : u = [i \in k - 1..Len(b.chains) |->
                        IF i < k THEN 0 ELSE u[i - 1] + Space(b.chains[i])]
           ds == [i \in DOMAIN b.chains |->
                     IF i < k THEN b.chains[i]
                     ELSE WithData(b.chains[i], Part(d, up[i - 1], up[i]))]
           T == {i \in k..Len(b.chains) : up[i] >= Len(d)}
           w == Min(T)
           t == b.total + Len(d)
           a == b.add + Len(d)
           e == Filled(b, d)
<1>0. /\ b.chains \in Seq(Chain) /\ l \in Nat /\ b.chains \in Seq(Plain)
      /\ s = Cat(b.chains) /\ s \in Seq(Byte) /\ Len(s) \in Nat /\ b.total = Len(s)
      /\ IsBuffer(b) /\ b.bad = FALSE /\ Len(d) \in Nat /\ n > 0
  <2>1. Len(d) \in Nat
    BY LenProperties
  <2>2. n > 0
    BY <2>1
  <2> QED
    BY <2>1, <2>2, HoldsFields DEF Holds, InShape
<1>1. \A i \in 1..l : b.chains[i] \in Plain /\ b.chains[i] \in Chain
  BY <1>0, PlainIs
<1>2. /\ k \in 1..l /\ EmptyFrom(b.chains, k + 1)
      /\ \A i \in 1..k - 1 : Off(b.chains[i]) # 0
      /\ \A i \in k..l : Space(b.chains[i]) > 0
      /\ RoomFor(b.chains, k, n)
  BY <1>0, WritableIs
<1>3. e = [b EXCEPT !.chains = ds, !.lwd = w, !.total = t, !.add = a]
  BY Zenon DEF Filled, Part
<1> HIDE DEF k, e
<1>4. RoomUpTo(up, b.chains, k)
  <2>1. k \in 1..Len(b.chains) + 1
    BY <1>0, <1>2
  <2> QED
    BY <1>0, <2>1, RoomChosen
<1> HIDE DEF up
<1>5. /\ k \in Nat /\ k >= 1 /\ k <= l /\ up[k - 1] = 0
      /\ \A i \in k - 1..l : up[i] \in Nat
      /\ \A i \in k..l : /\ up[i] = up[i - 1] + Space(b.chains[i])
                         /\ Space(b.chains[i]) \in Nat /\ i - 1 \in k - 1..l
      /\ \A i \in k - 1..l : \A j \in i..l : up[i] <= up[j]
      /\ up[l] >= n
  <2>1. k \in 1..Len(b.chains) + 1 /\ k \in Nat /\ k >= 1 /\ k <= l /\ (k - 1) + 1 = k
    BY <1>0, <1>2
  <2> DEFINE m == k - 1
             f == Spaces(b.chains, k)
  <2>2. m \in Int /\ l \in Int /\ m <= l /\ f \in [m + 1..l -> Nat] /\ \A i \in k..l : f[i] = Space(b.chains[i])
    BY <1>0, <2>1, SpacesType
  <2>3. Adds(up, f, m, l)
    BY <1>4 DEF RoomUpTo
  <2>4. PICK v : RoomUpTo(v, b.chains, k) /\ v[l] >= n
    BY <1>2 DEF RoomFor
  <2>5. Adds(v, f, m, l)
    BY <2>4 DEF RoomUpTo
  <2>9. up[l] = v[l]
    BY <1>0, <1>4, <2>1, <2>4, RoomUnique, Zenon
  <2> HIDE DEF f
  <2>6. up[m] = 0 /\ (\A i \in m..l : up[i] \in Nat) /\ \A i \in k..l : up[i] = up[i - 1] + f[i]
    BY <2>1, <2>3 DEF Adds
  <2>7. ASSUME NEW i \in k..l PROVE Space(b.chains[i]) \in Nat /\ i - 1 \in k - 1..l
    <3>1. i \in 1..l /\ i - 1 \in k - 1..l
      BY <1>0, <2>1
    <3> QED
      BY <3>1, <1>1, SpaceIs
  <2> HIDE DEF m, l
  <2>8. \A i \in m..l : \A j \in i..l : up[i] <= up[j]
    BY <2>2, <2>3, SumsGrow
  <2>10. up[l] >= n
    BY <2>4, <2>9
  <2> QED
    BY <2>1, <2>2, <2>6, <2>7, <2>8, <2>10 DEF m
<1>6. ASSUME NEW i \in k..l
      PROVE  LET p == Part(d, up[i - 1], up[i]) IN
             /\ i \in 1..l /\ ds[i] = WithData(b.chains[i], p) /\ p \in Seq(Byte)
             /\ ds[i] \in Plain /\ ds[i] \in Chain /\ ds[i].data = b.chains[i].data \o p
             /\ Off(ds[i]) = Off(b.chains[i]) + Len(p) /\ Off(b.chains[i]) \in Nat
             /\ Len(p) \in Nat
             /\ up[i - 1] < Len(d) => Len(p) > 0
             /\ up[i - 1] >= Len(d) => Len(p) = 0
  <2> DEFINE p == Part(d, up[i - 1], up[i])
             x == up[i - 1]
             y == up[i]
             c == b.chains[i]
  <2>1. i \in 1..l /\ ~(i < k) /\ i \in DOMAIN b.chains /\ i \in k - 1..l
    BY <1>0, <1>5
  <2>2. x \in Nat /\ y \in Nat /\ Space(c) \in Nat /\ y = x + Space(c) /\ Space(c) > 0 /\ c \in Plain
        /\ Off(c) \in Nat
    BY <1>1, <1>2, <1>5, <2>1, ChainFields
  <2>3. ds[i] = WithData(c, p)
    BY <2>1
  <2> HIDE DEF ds, x, y, c
  <2>4. x <= y /\ x < y /\ y - x = Space(c)
    BY <2>2
  <2>5. /\ p \in Seq(Byte) /\ Len(p) \in Nat /\ Len(p) <= y - x
        /\ x >= Len(d) => p = <<>>
        /\ x < Len(d) /\ x < y => Len(p) > 0
    BY <2>2, <2>4, PartIs DEF x, y
  <2> HIDE DEF p
  <2>6. /\ ds[i] \in Plain /\ ds[i] \in Chain /\ ds[i].data = c.data \o p
        /\ Off(ds[i]) = Off(c) + Len(p)
    BY <2>2, <2>3, <2>4, <2>5, FullerPlain
  <2>7. x >= Len(d) => Len(p) = 0
    BY <2>5
  <2> QED
    BY <2>1, <2>2, <2>3, <2>4, <2>5, <2>6, <2>7 DEF p, x, c
<1>7. ASSUME NEW i \in 1..k - 1 PROVE ds[i] = b.chains[i] /\ i \in 1..l
  <2>1. i \in 1..l /\ i < k /\ i \in DOMAIN b.chains
    BY <1>0, <1>5
  <2> QED
    BY <2>1
<1>8. DOMAIN ds = 1..l
  BY <1>0
<1> HIDE DEF ds
<1>9. /\ \A i \in 1..l : ds[i] \in Plain /\ ds[i] \in Chain
  <2> SUFFICES ASSUME NEW i \in 1..l PROVE ds[i] \in Plain /\ ds[i] \in Chain
    OBVIOUS
  <2>1. CASE i < k
    <3>1. i \in 1..k - 1
      BY <2>1, <1>5
    <3> QED
      BY <3>1, <1>1, <1>7
  <2>2. CASE ~(i < k)
    <3>1. i \in k..l
      BY <2>2, <1>5
    <3> QED
      BY <3>1, <1>6
  <2> QED
    BY <2>1, <2>2
<1>10. ds \in Seq(Chain) /\ Len(ds) = l /\ ds \in Seq(Plain)
  <2>1. ds = [i \in 1..l |-> ds[i]]
    BY <1>3, <1>8 DEF ds
  <2>2. ds \in Seq(Chain) /\ Len(ds) = l
    <3>1. ds \in [1..l -> Chain]
      BY <1>9, <2>1
    <3>2. ds \in Seq(Chain)
      BY <1>0, <3>1, SeqDef
    <3>3. Len(ds) = l
      BY <1>0, <1>8, <3>2, LenProperties
    <3> QED
      BY <3>2, <3>3
  <2> QED
    BY <1>9, <2>2, SeqOfPlain
<1>11. Cat(ds) = s \o d
  <2>1. Spread(ds, b.chains, k, d, up)
    BY <1>6, <1>7 DEF Spread
  <2>2. up[l] \in Nat /\ up[l] >= Len(d)
    <3>1. l \in k - 1..l
      BY <1>0, <1>5
    <3>2. up[l] \in Nat
      BY <3>1, <1>5
    <3> QED
      BY <3>2, <1>0, <1>5
  <2> QED
    BY <1>0, <1>2, <1>4, <1>10, <2>1, <2>2, CatSpread
<1>12. /\ w \in k..l /\ up[w] >= Len(d) /\ \A i \in k..l : i < w => up[i] < Len(d)
  <2>1. l \in T
    <3>1. l \in k..l /\ l \in k - 1..l
      BY <1>0, <1>5
    <3>2. up[l] \in Nat
      BY <3>1, <1>5
    <3> QED
      BY <3>1, <3>2, <1>0, <1>5
  <2>2. T \subseteq Nat /\ T # {}
    BY <2>1, <1>5
  <2>3. \A i \in T : i \in k..l /\ up[i] >= Len(d)
    OBVIOUS
  <2>4. \A i \in k..l : i \in T \/ up[i] < Len(d)
    <3> SUFFICES ASSUME NEW i \in k..l PROVE i \in T \/ up[i] < Len(d)
      OBVIOUS
    <3>1. i \in k - 1..l
      BY <1>5
    <3>2. up[i] \in Nat
      BY <3>1, <1>5
    <3> QED
      BY <3>2, <1>0
  <2> HIDE DEF T
  <2>5. w \in T /\ \A i \in T : w <= i
    BY <2>2, MinProperties
  <2> HIDE DEF w
  <2>6. w \in k..l /\ up[w] >= Len(d)
    BY <2>3, <2>5
  <2>7. ASSUME NEW i \in k..l, i < w PROVE up[i] < Len(d)
    <3>1. i \notin T
      BY <2>5, <2>6, <2>7
    <3> QED
      BY <3>1, <2>4
  <2> QED
    BY <2>6, <2>7
<1> HIDE DEF w
<1>13. ASSUME NEW i \in 1..l PROVE Off(ds[i]) # 0 <=> i <= w
  <2>0. w \in Nat /\ k <= w /\ w <= l
    BY <1>5, <1>12
  <2>1. CASE i < k
    <3>1. i \in 1..k - 1 /\ i <= w
      BY <2>0, <2>1, <1>5
    <3> QED
      BY <3>1, <1>2, <1>7
  <2>2. CASE ~(i < k)
    <3>1. i \in k..l
      BY <2>2, <1>5
    <3> DEFINE p == Part(d, up[i - 1], up[i])
    <3>2. /\ Off(ds[i]) = Off(b.chains[i]) + Len(p) /\ Off(b.chains[i]) \in Nat
          /\ Len(p) \in Nat
          /\ up[i - 1] < Len(d) => Len(p) > 0
          /\ up[i - 1] >= Len(d) => Len(p) = 0
      BY <3>1, <1>6
    <3> HIDE DEF p
    <3>3. CASE i <= w
      <4>1. up[i - 1] < Len(d)
        <5>1. CASE i = k
          BY <5>1, <1>0, <1>5
        <5>2. CASE i # k
          <6>1. i - 1 \in k..l /\ i - 1 < w
            BY <5>2, <3>1, <3>3, <2>0, <1>5
          <6> QED
            BY <6>1, <1>12
        <5> QED
          BY <5>1, <5>2
      <4> QED
        BY <4>1, <3>2, <3>3
    <3>4. CASE ~(i <= w)
      <4>1. i - 1 \in w..l /\ w \in k - 1..l /\ i - 1 \in k - 1..l /\ i \in k + 1..l
        BY <3>1, <3>4, <2>0, <1>0, <1>5
      <4>2. up[w] <= up[i - 1] /\ up[w] \in Nat /\ up[i - 1] \in Nat
        BY <4>1, <1>5
      <4>3. up[i - 1] >= Len(d)
        BY <4>2, <1>0, <1>12
      <4>4. Off(b.chains[i]) = 0
        BY <4>1, <1>2 DEF EmptyFrom
      <4> QED
        BY <4>3, <4>4, <3>2, <3>4
    <3> QED
      BY <3>3, <3>4
  <2> QED
    BY <2>1, <2>2
<1>14. t = Len(s \o d)
  <2>1. Len(s \o d) = Len(s) + Len(d)
    BY <1>0, ConcatProperties
  <2> QED
    BY <2>1, <1>0
<1>15. a = b.add + Len(d)
  OBVIOUS
<1> HIDE DEF t, a
<1>16. /\ IsBuffer(e) /\ e.chains = ds /\ e.lwd = w /\ e.total = t /\ e.add = a
       /\ e.del = b.del /\ e.bad = b.bad
  BY <1>0, <1>3 DEF IsBuffer, Fields
<1>17. Holds(e, s \o d)
  BY <1>0, <1>10, <1>11, <1>14, <1>16, Zenon DEF Holds
<1>18. w \in 1..l
  BY <1>5, <1>12
<1>19. InShape(e)
  BY <1>10, <1>13, <1>16, <1>18 DEF InShape
<1> QED
  BY <1>15, <1>16, <1>17, <1>19 DEF e

\* evbuffer_read() keeps the data and adds what it got.
LEMMA ReadKeeps ==
    ASSUME NEW b, NEW s, Holds(b, s), InShape(b), b.add \in Nat,
           NEW n \in Nat, NEW d \in Seq(Byte), Len(d) <= n
    PROVE  LET e == EvbufferRead(b, n, d) IN
           /\ Holds(e, s \o d) /\ InShape(e)
           /\ e.add = b.add + Len(d) /\ e.del = b.del
<1> DEFINE x == ExpandFast(b, n)
           e == EvbufferRead(b, n, d)
<1>1. /\ Holds(x, s) /\ InShape(x) /\ x.chains # <<>> /\ RoomFor(x.chains, x.lwd, n)
      /\ x.add = b.add /\ x.del = b.del
  BY ExpandFastKeeps
<1>2. Len(d) \in Nat /\ s \in Seq(Byte)
  BY LenProperties, HoldsFields
<1>3. CASE d = <<>>
  <2>1. e = x
    BY <1>3 DEF EvbufferRead
  <2>2. s \o d = s /\ Len(d) = 0
    BY <1>2, <1>3, ConcatEmptySeq
  <2> HIDE DEF x, e
  <2>3. Holds(e, s \o d) /\ InShape(e) /\ e.add = b.add + Len(d) /\ e.del = b.del
    BY <1>1, <2>1, <2>2
  <2> QED
    BY <2>3 DEF e
<1>4. CASE d # <<>>
  <2>1. e = Filled(x, d)
    BY <1>4 DEF EvbufferRead
  <2>2. Len(d) > 0
    <3>1. Len(d) # 0
      BY <1>4, EmptySeq
    <3> QED
      BY <3>1, <1>2
  <2> HIDE DEF x, e
  <2>3. Holds(e, s \o d) /\ InShape(e) /\ e.add = b.add + Len(d) /\ e.del = b.del
    BY <1>1, <2>1, <2>2, FilledKeeps
  <2> QED
    BY <2>3 DEF e
<1> QED
  BY <1>3, <1>4
=============================================================================
